SPECIFICATION ClustersSpec
CONSTANTS
  BacklogLen = 3
  Scale = 6
  Preprocess = "NONE"
  Rtts = {0, 2, 9, 10, 11, 20}
  U32 = 32
  Exp <- MCExp
  ExpOverflow = {0}
INVARIANTS
  CentroidsOrdered
PROPERTIES
  AlphaFollowsBacklog
  WidestGapFreezes
