CONSTANTS
  c1 = c1
  c2 = c2
  s1 = s1
  None = None
  Calls <- MCCalls
  Subscribers <- MCSubscribers
  CallOf <- MCCallOf
  PeerKeys = {"p", "q"}
  LocalKeys = {"p"}
  NamedKeys = {"p", "q"}
  OrdererKeys = {"o"}
  Suspect = {"q", "o"}
SPECIFICATION Spec
INVARIANTS TypeOK ConnectionsAccounted
PROPERTIES ShutdownEnds
CHECK_DEADLOCK FALSE
