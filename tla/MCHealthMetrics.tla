--------------------------- MODULE MCHealthMetrics ---------------------------
(* Days of two hours of two parts: the window starts in the middle of one. *)
EXTENDS HealthMetrics, TLC

CONSTANTS x, y

TwoExecutions == {x, y}
Swaps == Permutations(TwoExecutions)

=============================================================================
