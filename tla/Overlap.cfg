SPECIFICATION Spec
CONSTANTS
  Daemons = {d1, d2}
  Jobs = {j1}
  Specs = {1, 2, 3}
  GraphFingerprint <- MCGraphFingerprint
  Requests = {q1, q2}
  Lingers = TRUE
  Faults = TRUE
  MaxStops = 2
  Submitter = Submitter
  NoSpec = NoSpec
  NoIntake = NoIntake
  Idle = Idle
INVARIANTS
  TasksAreTheirJobs
CHECK_DEADLOCK FALSE
