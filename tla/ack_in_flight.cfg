SPECIFICATION Spec
CONSTANTS
  Ordered = FALSE
  Duplicating = FALSE
  MaxDrops = 0
  BacklogLen = 1
  Scale = 2
  Preprocess = "EXP"
  Rtts <- MCRtts
  U32 = 8
  Exp <- MCExp
  ExpOverflow = {0, 5}
  InitCwnd = 2
  CwndMax = 6
  MaxPayload = 2
  AlphaThres = 1
  HdrTypes = {"DATA"}
  MaxPktId = 2
  MaxClock = 1
  SendTime = 9
  ServerSignals = FALSE
  ClientSignals = FALSE
INVARIANTS
  AckIsInFlight
