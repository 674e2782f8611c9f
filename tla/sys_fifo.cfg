SPECIFICATION Spec
CONSTANTS
  Ordered = TRUE
  Duplicating = FALSE
  MaxDrops = 1
  BacklogLen = 2
  Scale = 2
  Preprocess = "NONE"
  Rtts <- MCRtts
  U32 = 8
  Exp <- MCExp
  ExpOverflow = {0}
  InitCwnd = 1
  CwndMax = 4
  MaxPayload = 1
  AlphaThres = 1
  HdrTypes = {"DATA", "ACK"}
  MaxPktId = 4
  MaxClock = 1
  SendTime = 1
  ServerSignals = FALSE
  ClientSignals = FALSE
INVARIANTS
  WindowRespected
  AckIsInFlight
  LossMeansDrop
PROPERTIES
  StallIsPermanent
