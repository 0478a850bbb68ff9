CONSTANTS
  o1 = o1
  o2 = o2
  o3 = o3
  r1 = r1
  r2 = r2
  None = None
  Orgs <- MCOrgs
  Quorums <- MCQuorums
  Definitions <- TwoDefinitions
  Requests <- OneRequest
  Of <- OneOf
  MaxMoves = 2
  MaxFaults = 2
SPECIFICATION OneSpec
INVARIANTS TypeOK SequenceFits CommittedIsTrue UnforcedIsUnanimous
PROPERTIES RepeatingCommits
CHECK_DEADLOCK FALSE
