SPECIFICATION Spec
CONSTANTS
  p1 = p1
  p2 = p2
  t1 = t1
  r1 = r1
  r2 = r2
  r3 = r3
  r4 = r4
  NoOne = NoOne
  Processes <- TwoProcesses
  Triggers <- OneTrigger
  Requests <- FourRequests
  MaxFaults = 2
SYMMETRY Interchangeable
INVARIANTS
  TasksMatchRows
\* Everything stops once each request has been answered.
CHECK_DEADLOCK FALSE
