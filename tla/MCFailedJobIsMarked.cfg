SPECIFICATION EventSpec
CONSTANTS
  e1 = e1
  w1 = w1
  w2 = w2
  c1 = c1
  f1 = f1
  NoOne = NoOne
  Executions <- OneExecution
  Workflows <- OneWorkflow
  WorkflowOf <- OfOne
  Workers <- TwoWorkers
  Cancels <- OneCancel
  MaxStalled = 1
  MaxFaults = 2
INVARIANT
  FailedJobIsMarked
\* Everything stops once the jobs have ended and no request arrives.
CHECK_DEADLOCK FALSE
