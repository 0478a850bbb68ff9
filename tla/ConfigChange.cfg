CONSTANTS
  r1 = r1
  r2 = r2
  None = None
  Requests <- MCRequests
  Paths <- MCPaths
  Groups <- MCGroups
  Root = "Channel"
  Parent <- MCParent
  Orgs <- MCOrgs
  Consensus = "ConsensusType"
  Anchors = "AnchorPeers"
  Operations <- MCOperations
  InitialConfig <- MCInitialConfig
  Free <- MCFree
  Optional <- MCOptional
  MaxMoves = 2
SYMMETRY MCSymmetry
SPECIFICATION Spec
INVARIANTS TypeOK FreshIsAccepted
PROPERTIES NothingLost StayingKept ImplementsRoster
CHECK_DEADLOCK FALSE
