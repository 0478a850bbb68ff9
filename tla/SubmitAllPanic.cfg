CONSTANTS
  Peers = {p1, p2}
  Stale = {}
SPECIFICATION Spec
INVARIANT NoPanic
CHECK_DEADLOCK FALSE
