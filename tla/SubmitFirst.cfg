CONSTANTS
  Peers = {p1, p2}
  Stale = {}
SPECIFICATION FairSpec
INVARIANTS TypeOK UnreportedOnlyIf
PROPERTIES WaitsOnlyWhenStuck CancelReleases ImplementsFirstReport
CHECK_DEADLOCK FALSE
