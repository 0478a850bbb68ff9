CONSTANTS
  Peers = {p1, p2}
  Stale = {}
SPECIFICATION Spec
INVARIANT SuccessIsReported
CHECK_DEADLOCK FALSE
