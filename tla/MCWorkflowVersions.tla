-------------------------- MODULE MCWorkflowVersions --------------------------
(* Small instances of WorkflowVersions for TLC. *)
EXTENDS WorkflowVersions, TLC

CONSTANTS r1, r2, r3, r4, r5, d1, d2

FiveRequests == {r1, r2, r3, r4, r5}
TwoDags      == {d1, d2}
\* One of the five creates the workflow: there are at most four versions to
\* roll back to.
OneToFour    == 1 .. 4

\* No definition tells two requests or two dags apart.
Interchangeable == Permutations(Requests) \cup Permutations(Dags)

=============================================================================
