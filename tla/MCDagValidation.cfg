SPECIFICATION FairSpec
CONSTANTS
  a = a
  b = b
  c = c
  d = d
  Ids = {a, b, c, d}
  Unlisted = Unlisted
  Definitions <- SmallDefinitions
INVARIANTS
  AcceptsOnlyDags
  RejectsWithReason
  LayersSchedule
PROPERTIES
  Ends
\* The verdict is given, or the layers are there.
CHECK_DEADLOCK FALSE
