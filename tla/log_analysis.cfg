SPECIFICATION Spec
CONSTANTS
  MaxLog = 4
  MaxMs = 4
  MaxLen = 2
  BaseTimes = {0, 1}
  BinWidths = {1, 2}
  MaxTrace = 4
  MaxTime = 7
  MaxUnits = 2
  Steps = {2}
  MaxPackets = 4
  MaxGap = 4
  Intervals = {2, 3}
  ProbeLength = 2
INVARIANTS
  LogIsAccounted
  DelaysAtArrival
  IntervalsKeepTheirs
  LinesAreKept
  ProbesInOrder
