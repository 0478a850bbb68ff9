CONSTANTS
  p1 = p1
  p2 = p2
  p3 = p3
  None = None
  Peers <- MCPeers
SPECIFICATION FairSpec
INVARIANTS TypeOK OkIsComplete
PROPERTIES FailureEnds CancelEnds OnlyErrorsLeave
CHECK_DEADLOCK FALSE
