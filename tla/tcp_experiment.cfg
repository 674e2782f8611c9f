SPECIFICATION FairSpec
CONSTANTS
  Conns = {c1, c2}
  MaxBlocks = 2
  ClientsMax = {0, 1, 2}
  Restarts = {TRUE, FALSE}
  Interrupts = 1
  Faults = 1
  SockBuf = 1
INVARIANTS
  ServesWhatItCounts
  WaitsForChildren
PROPERTIES
  ZombiesReaped
  QuitEnds
  ScriptEnds
