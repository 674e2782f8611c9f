SPECIFICATION FairSpec
CONSTANTS
  SendRates = {4, 8, 16, 32}
  SendTimes = {0, 1}
  NumPktsBlocks = {0, 3}
  NumBlocks = 2
  InterBlockTime = 1
  PktSize = 2
  BufferSize = 5
  BurstUs = 2
  UsPerMs = 2
  MsPerS = 2
  U32 = 16
  MaxClock = 9
INVARIANTS
  Paced
  BufferHoldsPrefix
  CountsWhatItHands
PROPERTIES
  SourceEnds
