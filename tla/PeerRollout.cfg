CONSTANTS
  p1 = p1
  p2 = p2
  r1 = r1
  r2 = r2
  i1 = i1
  i2 = i2
  i3 = i3
  Peers <- MCPeers
  Requests <- MCRequests
  Items <- MCItems
  Label <- MCLabel
  MaxFaults = 1
SPECIFICATION FairSpec
INVARIANTS TypeOK NewOnce ResultIsTrue AlikeOnlyByRace
PROPERTIES RepeatingInstalls
CHECK_DEADLOCK FALSE
