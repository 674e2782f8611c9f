SPECIFICATION LiveSpec
CONSTANTS
  Ordered = TRUE
  Duplicating = FALSE
  MaxDrops = 1
  BacklogLen = 1
  Scale = 2
  Preprocess = "TANH"
  Rtts <- MCRtts
  U32 = 32
  Exp <- MCExp
  ExpOverflow = {0}
  InitCwnd = 2
  CwndMax = 4
  MaxPayload = 2
  AlphaThres = 1
  HdrTypes = {"DATA", "ACK"}
  MaxPktId = 3
  MaxClock = 0
  SendTime = 0
  ServerSignals = TRUE
  ClientSignals = TRUE
PROPERTIES
  
  ServerStops
  ClientStops
