---------------------------- MODULE VersionHistory ----------------------------
(***************************************************************************)
(* What the rows of a workflow promise its users: definitions are only     *)
(* ever added at the end of a history, the current version moves to the    *)
(* new one or back to one that exists, and executions of a version exist   *)
(* as long as it does.  Each operation happens in one step, whatever the   *)
(* requests that ask for it read before.                                   *)
(***************************************************************************)
EXTENDS Naturals, Sequences

CONSTANTS Requests, Dags

VARIABLES
  workflow,  \* "none", "live", "deleted"
  history,   \* the definitions published, version v at place v
  current,   \* the version that new executions get, 0 without a workflow
  runs       \* executions: the request that made it, the version it runs

vars == <<workflow, history, current, runs>>

Init == workflow = "none" /\ history = <<>> /\ current = 0 /\ runs = {}

Create(d) ==
  /\ workflow = "none"
  /\ workflow' = "live" /\ history' = <<d>> /\ current' = 1
  /\ UNCHANGED runs

Publish(d) ==
  /\ workflow = "live"
  /\ history' = Append(history, d)
  /\ current' = Len(history) + 1
  /\ UNCHANGED <<workflow, runs>>

Rollback(v) ==
  /\ workflow = "live"
  /\ current' = v
  /\ UNCHANGED <<workflow, history, runs>>

Start(r, v) ==
  /\ workflow = "live"
  /\ runs' = runs \cup {<<r, v>>}
  /\ UNCHANGED <<workflow, history, current>>

Remove ==
  /\ workflow = "live"
  /\ workflow' = "deleted" /\ history' = <<>> /\ current' = 0 /\ runs' = {}

Next ==
  \/ \E d \in Dags : Create(d) \/ Publish(d)
  \/ \E v \in 1 .. Len(history) : Rollback(v) \/ \E r \in Requests : Start(r, v)
  \/ Remove

Spec == Init /\ [][Next]_vars

=============================================================================
