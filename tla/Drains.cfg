SPECIFICATION Spec
CONSTANTS
  Jobs = {j1, j2}
  Rows = {r1, r2, r3}
  JobOf <- MCJobOf
  WholeNode = {r1}
  Legacy = {r2}
  Clients = {c1, c2}
  Faults = TRUE
  MaxSerial = 2
  MaxDeaths = 1
  j1 = j1
  j2 = j2
  r1 = r1
  r2 = r2
  r3 = r3
SYMMETRY ClientSymmetry
INVARIANTS
  MarksAccountedFor
  RepeatsExplained
CHECK_DEADLOCK FALSE
