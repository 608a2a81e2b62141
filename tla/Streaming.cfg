SPECIFICATION FairSpec
CONSTANTS
  Budget = 3
  EventCapacity = 1
  LiveCapacity = 1
  Clients = {c1}
  Forwarding = TRUE
INVARIANTS
  TokensAccounted
  ClientSeesLog
  LateBound
PROPERTIES
  Lands
  ResultReaches
CHECK_DEADLOCK FALSE
