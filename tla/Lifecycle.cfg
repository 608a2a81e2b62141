SPECIFICATION FairSpec
CONSTANTS
  Daemons = {d1}
  Jobs = {j1}
  Specs = {1, 3}
  GraphFingerprint <- MCGraphFingerprint
  Requests = {q1, q2, q3}
  Lingers = FALSE
  Faults = FALSE
  MaxStops = 3
  Submitter = Submitter
  NoSpec = NoSpec
  NoIntake = NoIntake
  Idle = Idle
INVARIANTS
  OneRunPerLedger
  StatusServed
PROPERTIES
  StatusFinal
  ResumeStarts
CHECK_DEADLOCK FALSE
