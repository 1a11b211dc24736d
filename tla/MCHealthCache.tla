---------------------------- MODULE MCHealthCache ----------------------------
(* A small instance of HealthCache for TLC. *)
EXTENDS HealthCache

CONSTANTS c1, c2, c3, w1, w2

ThreeCallers == {c1, c2, c3}
TwoWriters   == {w1, w2}

=============================================================================
