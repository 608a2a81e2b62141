SPECIFICATION FairSpec
CONSTANTS
  N = 4
  Unknown = 0
  Labels = {x, y}
  Graphs <- MCGraphs
  Declares <- MCDeclares
  Free = Free
  NoVerdict = NoVerdict
  Kinds = {"text", "number", "json"}
  Fields <- MCFields
  Scalars = {"string", "number"}
  Depth = 2
  Width = 2
  x = x
  y = y
INVARIANTS
  VerdictSound
  SeamsSound
PROPERTIES
  CheckReturns
CHECK_DEADLOCK FALSE
