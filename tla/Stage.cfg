SPECIFICATION FairStageSpec
CONSTANTS
  Files = {doc}
  Urls = {url}
  Elsewhere = Elsewhere
  Versions <- MCVersions
  Malformed <- MCMalformed
  Segments <- MCSegments
  Widths <- MCWidths
  Lengths = {0, 1, 2}
  Embeds = TRUE
  Sees = TRUE
  MaxHandles = 2
INVARIANTS
  PagesConsistent
  HandlesWhole
  WindowsTile
PROPERTIES
  CancelEnds
CHECK_DEADLOCK FALSE
