CONSTANTS
  Peers = {p1, p2}
  Stale = {}
SPECIFICATION FairSpec
INVARIANTS TypeOK SuccessIsUnanimous WatchedBeforeSent
PROPERTIES WaitsOnlyWhenStuck CancelReleases ImplementsSubmission
CHECK_DEADLOCK FALSE
