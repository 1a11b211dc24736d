SPECIFICATION FairDataSpec
CONSTANTS
  check = check
  post = post
  wait = wait
  join = join
  aside = aside
  fetch = fetch
  again = again
  never = never
  Steps <- All
  DependsOn <- Deps
  Depth = 4
  Layer <- Layers
  MaxRetries <- Retries
  Sync <- SyncSteps
  RunIf <- Guarded
  Conditions <- Ifs
  Delays <- TwoDelays
  Path <- Paths
  Quoted <- QuotedIfs
  Guard <- Branches
INVARIANTS
  TypeOK
  ReportComplete
  LogsExplainStatus
  OneBranch
  ConditionsFollowData
  ScriptsSeeWhatCameBefore
PROPERTIES
  ResultsFinal
  ReportStable
  ImplementsDagSchedule
  Returns
  Drains
\* The run ends, and nothing is left to happen.
CHECK_DEADLOCK FALSE
