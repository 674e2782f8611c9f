SPECIFICATION FairSpec
CONSTANTS
  MaxRuns = 3
  MaxHand = 2
  MaxInterrupts = 1
  HandJobs <- MCHandJobs
  TraceList <- MCTraceList
  DelayList <- MCDelayList
  FactorList <- MCFactorList
  BatchArgs <- MCBatchArgs
INVARIANTS
  TypeOK
  BatchRunsAlone
  LeavesNothing
  ShowsOwnLogs
  RowsAreTrue
  BatchComplete
PROPERTIES
  ScriptsEnd
