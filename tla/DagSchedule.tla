---------------------------- MODULE DagSchedule ----------------------------
(***************************************************************************)
(* What a run of a workflow promises (README.md, "DAG Engine"): the        *)
(* steps of a graph of dependencies, the order they may start in, and the  *)
(* verdict.  No layers, attempts, timers or maps: those are how            *)
(* WorkflowExecutor keeps the promise.                                     *)
(***************************************************************************)
CONSTANTS Steps, DependsOn

VARIABLES
  phase,    \* of each step: "waiting", "running", "good", "bad"
  verdict   \* "none", "success", "failed", "timeout"

vars == <<phase, verdict>>

Init ==
  /\ phase = [s \in Steps |-> "waiting"]
  /\ verdict = "none"

Ready(s) == phase[s] = "waiting" /\ \A d \in DependsOn[s] : phase[d] = "good"

\* Some ready steps start together, as long as none has gone bad.  A step may
\* be over as it starts: skipped, or broken.
Start ==
  /\ \A s \in Steps : phase[s] # "bad"
  /\ phase' \in [Steps -> {"waiting", "running", "good", "bad"}]
  /\ \A s \in Steps : phase'[s] # phase[s] => Ready(s)
  /\ UNCHANGED verdict

End(s) ==
  /\ phase[s] = "running"
  /\ \E p \in {"good", "bad"} : phase' = [phase EXCEPT ![s] = p]
  /\ UNCHANGED verdict

Conclude(v) ==
  /\ verdict = "none"
  /\ v = "success" => \A s \in Steps : phase[s] = "good"
  /\ v = "failed" => \E s \in Steps : phase[s] = "bad"
  /\ verdict' = v
  /\ UNCHANGED phase

Next ==
  \/ Start
  \/ \E s \in Steps : End(s)
  \/ \E v \in {"success", "failed", "timeout"} : Conclude(v)

Spec == Init /\ [][Next]_vars

=============================================================================
