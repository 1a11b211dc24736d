SPECIFICATION Spec
CONSTANTS
  d1 = d1
  d2 = d2
  d3 = d3
  d4 = d4
  d5 = d5
  n1 = n1
  n2 = n2
  t1 = t1
  t2 = t2
  Triggers <- TwoTriggers
  Deliveries <- FiveDeliveries
  TriggerOf <- OneElsewhere
  Nonces <- TwoNonces
  NonceOf <- SameNonce
  Signed <- AllButOne
  MaxPurges = 2
  MaxFaults = 1
SYMMETRY Swaps
INVARIANTS
  OneExecutionPerNonce
PROPERTIES
  RefusedForAnother
\* Everything stops once each delivery has been answered.
CHECK_DEADLOCK FALSE
