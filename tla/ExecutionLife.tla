---------------------------- MODULE ExecutionLife ----------------------------
(***************************************************************************)
(* What its users may count on of an execution, whatever the queue, the    *)
(* workers and the requests do between two statements: it is taken up at   *)
(* most Limit times, never once it is cancelled or deleted; who has taken  *)
(* it up starts it, and then ends it or drops it; an end writes status and *)
(* step logs together; and a cancellation that finds nobody on it stays.   *)
(***************************************************************************)
EXTENDS Naturals, FiniteSets

CONSTANTS
  Executions,
  Runners,    \* who may take up an execution
  NoOne,      \* no execution
  Limit       \* how many results an execution may get

VARIABLES
  status,   \* of each execution, "none" before it is created, "gone" after
  logs,     \* how many results with step logs it has
  run,      \* the execution a runner has taken up
  started   \* the runners that have begun theirs

vars == <<status, logs, run, started>>

Verdicts  == {"SUCCESS", "FAILED", "TIMEOUT"}
Exists(e) == status[e] \notin {"none", "gone"}
Runs(e)   == {r \in Runners : run[r] = e}

Init ==
  /\ status = [e \in Executions |-> "none"]
  /\ logs = [e \in Executions |-> 0]
  /\ run = [r \in Runners |-> NoOne]
  /\ started = {}

Create(e) ==
  /\ status[e] = "none"
  /\ status' = [status EXCEPT ![e] = "PENDING"]
  /\ UNCHANGED <<logs, run, started>>

TakeUp(r, e) ==
  /\ run[r] = NoOne
  /\ Exists(e) /\ status[e] # "CANCELLED"
  /\ logs[e] + Cardinality(Runs(e)) < Limit
  /\ run' = [run EXCEPT ![r] = e]
  /\ UNCHANGED <<status, logs, started>>

Begin(r) ==
  /\ run[r] # NoOne /\ r \notin started
  /\ Exists(run[r])
  /\ status' = [status EXCEPT ![run[r]] = "RUNNING"]
  /\ started' = started \cup {r}
  /\ UNCHANGED <<logs, run>>

Drop(r) ==
  /\ run[r] # NoOne
  /\ run' = [run EXCEPT ![r] = NoOne]
  /\ started' = started \ {r}
  /\ UNCHANGED <<status, logs>>

\* A run that has a report ends with its verdict and its step logs.
End(r, v) ==
  /\ r \in started
  /\ Exists(run[r])
  /\ status' = [status EXCEPT ![run[r]] = v]
  /\ logs' = [logs EXCEPT ![run[r]] = @ + 1]
  /\ run' = [run EXCEPT ![r] = NoOne]
  /\ started' = started \ {r}

\* A definition that cannot be run ends without.
Fail(r) ==
  /\ r \in started
  /\ Exists(run[r])
  /\ status' = [status EXCEPT ![run[r]] = "FAILED"]
  /\ run' = [run EXCEPT ![r] = NoOne]
  /\ started' = started \ {r}
  /\ UNCHANGED logs

Cancel(e) ==
  /\ Exists(e)
  /\ status' = [status EXCEPT ![e] = "CANCELLED"]
  /\ UNCHANGED <<logs, run, started>>

\* Executions are deleted together, with the workflow they belong to.
Delete(D) ==
  /\ status' = [e \in Executions |->
                  IF e \in D /\ Exists(e) THEN "gone" ELSE status[e]]
  /\ logs' = [e \in Executions |-> IF e \in D THEN 0 ELSE logs[e]]
  /\ UNCHANGED <<run, started>>

Next ==
  \/ \E e \in Executions : Create(e) \/ Cancel(e)
  \/ \E r \in Runners, e \in Executions : TakeUp(r, e)
  \/ \E r \in Runners : Begin(r) \/ Drop(r) \/ Fail(r)
  \/ \E r \in Runners, v \in Verdicts : End(r, v)
  \/ \E D \in SUBSET Executions : Delete(D)

Spec == Init /\ [][Next]_vars

=============================================================================
