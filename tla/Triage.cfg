SPECIFICATION Spec
CONSTANTS
  N = 7
  Inputs <- TriageInputs
  Exclusive <- TriageExclusive
  Fanout = {4}
  Escalating = {4, 5}
  Labels = {x, y}
  Values = {vx, vy, vn}
  Route <- MCRoute
  Manifests = {m1}
  ManifestLen <- MCManifestLen
  MaxItems = 2
  StorageFaults = TRUE
  Warehouse = TRUE
  NoBranch = NoBranch
  NoRoute = NoRoute
  NoOutput = NoOutput
  NoManifest = NoManifest
  NoFiles = NoFiles
  NoWarehouse = NoWarehouse
  NoVerdict = NoVerdict
  x = x
  y = y
  vx = vx
  vy = vy
  vn = vn
  m0 = m0
  m1 = m1
  m2 = m2
INVARIANTS
  MemoryMatchesLedger
  CompletedMeansDecided
  DispatchRespected
PROPERTIES
  CrashTransparent
CHECK_DEADLOCK FALSE
