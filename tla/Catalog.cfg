SPECIFICATION FairSpec
CONSTANTS
  Clients = {c1, c2}
  Versions = {1, 2}
  Artifacts = {x, y, z}
  Malformed = {z}
  Nobody = Nobody
  Requests <- MCRequests
  MaxCalls = 3
  MaxFaults = 1
  MaxClock = 1
  StatFails = FALSE
  SteadyClock = TRUE
  x = x
  y = y
  z = z
INVARIANTS
  OneContent
  FilesWhole
PROPERTIES
  LatestIsRecent
  KeepsPromise
  Answered
CHECK_DEADLOCK FALSE
