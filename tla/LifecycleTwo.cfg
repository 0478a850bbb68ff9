CONSTANTS
  o1 = o1
  o2 = o2
  o3 = o3
  r1 = r1
  r2 = r2
  None = None
  Orgs <- TwoOrgs
  Quorums <- BothAgree
  Definitions <- TwoDefinitions
  Requests <- TwoRequests
  Of <- TwoOf
  MaxMoves = 1
  MaxFaults = 1
SPECIFICATION TwoSpec
PROPERTIES AgreedIsCommitted
CHECK_DEADLOCK FALSE
