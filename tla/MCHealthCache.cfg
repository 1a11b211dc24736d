SPECIFICATION FairSpec
CONSTANTS
  c1 = c1
  c2 = c2
  c3 = c3
  w1 = w1
  w2 = w2
  Free = Free
  Empty = Empty
  Callers <- ThreeCallers
  Writers <- TwoWriters
  MaxPolls = 1
  MaxOverruns = 1
  MaxFaults = 1
INVARIANTS
  FillersBounded
  StaleExplained
PROPERTIES
  CacheRecovers
  CacheConverges
