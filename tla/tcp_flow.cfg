SPECIFICATION FairSpec
CONSTANTS
  Modes = {"ttr", "nblocks", "trace"}
  Ttr = 1
  NBlocks = 3
  BlkSize = 2
  Micros = {0, 1, 3}
  UsecPerSec = 2
  USeconds = 4
  IntMax = 7
  JunkSeqs = {0, 2}
  JunkTimes <- MCJunkTimes
  SockBuf = 2
  MaxLines = 3
  MaxSeq = 2
  MaxClock = 3
  MaxInts = 1
INVARIANTS
  LogsAgree
  DelayIsDifference
  PacketsAreLines
PROPERTIES
  OnePacketEarly
  FlowEnds
