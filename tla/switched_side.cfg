SPECIFICATION Spec
CONSTANTS
  MaxRuns = 3
  MaxHand = 2
  MaxInterrupts = 1
  HandJobs <- MCSwitchedJobs
  TraceList <- MCTraceList
  DelayList <- MCDelayList
  FactorList <- MCFactorList
  BatchArgs = {}
INVARIANT
  SwitchedShowsOwnLog
