SPECIFICATION FairSpec
CONSTANTS
  Budget = 3
  EventCapacity = 1
  LiveCapacity = 1
  Clients = {c1}
  Forwarding = FALSE
PROPERTIES
  Lands
CHECK_DEADLOCK FALSE
