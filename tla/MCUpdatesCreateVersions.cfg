SPECIFICATION Spec
CONSTANTS
  r1 = r1
  r2 = r2
  r3 = r3
  r4 = r4
  r5 = r5
  d1 = d1
  d2 = d2
  Keep = Keep
  Requests <- FiveRequests
  Dags <- TwoDags
  Numbers <- OneToFour
INVARIANT
  UpdatesCreateVersions
\* Everything stops once each request has been answered.
CHECK_DEADLOCK FALSE
