SPECIFICATION FairSpec
CONSTANTS
  Nodes <- MCNodes
  Models = {m0, m1, m2, mx}
  Default = m0
  Alternates = {m1, m2}
  NoModel = NoModel
  Allowance <- MCAllowance
  m0 = m0
  m1 = m1
  m2 = m2
  mx = mx
INVARIANTS
  EveryRungClimbed
  AcceptedPassed
  RerouteHolds
  ErrorCodeKept
PROPERTIES
  LadderEnds
CHECK_DEADLOCK FALSE
