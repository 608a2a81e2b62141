SPECIFICATION FairSpec
CONSTANTS
  N = 2
  Inputs <- CampaignInputs
  Exclusive <- CampaignExclusive
  Fanout = {1}
  Escalating = {1}
  Labels = {x, y}
  Values = {vx, vn}
  Route <- MCRoute
  Manifests = {m0, m1, m2}
  ManifestLen <- MCManifestLen
  MaxItems = 2
  StorageFaults = FALSE
  Warehouse = FALSE
  NoBranch = NoBranch
  NoRoute = NoRoute
  NoOutput = NoOutput
  NoManifest = NoManifest
  NoFiles = NoFiles
  NoWarehouse = NoWarehouse
  NoVerdict = NoVerdict
  x = x
  y = y
  vx = vx
  vy = vy
  vn = vn
  m0 = m0
  m1 = m1
  m2 = m2
INVARIANTS
  ItemsMatchPin
  CollectionMatchesLedger
PROPERTIES
  ConclusionsFinal
  RunReturns
CHECK_DEADLOCK FALSE
