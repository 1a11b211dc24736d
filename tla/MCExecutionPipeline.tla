------------------------ MODULE MCExecutionPipeline ------------------------
(* A small instance of ExecutionPipeline for TLC: one execution, that two   *)
(* workers may come to run at once.                                         *)
EXTENDS ExecutionEvents

CONSTANTS e1, w1, w2, c1, f1

OneExecution == {e1}
TwoWorkers   == {w1, w2}
OneCancel    == {c1}
OneWorkflow  == {f1}
OfOne        == [e \in Executions |-> f1]

=============================================================================
