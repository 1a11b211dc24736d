---------------------------- MODULE MCCronTriggers ----------------------------
(* A small instance of CronTriggers for TLC. *)
EXTENDS CronTriggers, TLC

CONSTANTS p1, p2, t1, r1, r2, r3, r4

TwoProcesses == {p1, p2}
OneTrigger   == {t1}
FourRequests == {r1, r2, r3, r4}

\* No definition tells two processes or two requests apart.
Interchangeable == Permutations(Processes) \cup Permutations(Requests)

=============================================================================
