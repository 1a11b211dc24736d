SPECIFICATION MetricsSpec
CONSTANTS
  x = x
  y = y
  Executions <- TwoExecutions
  Durations = {3}
  Day = 2
  Parts = 2
  MaxTime = 5
SYMMETRY Swaps
INVARIANTS
  CountsDifferByMoves
  BarsShowLatestHour
  ChartAddsUp
\* Time ends.
CHECK_DEADLOCK FALSE
