SPECIFICATION FairSpec
CONSTANTS
  Scripts <- MCScripts
  Act <- MCAct
  Catching <- MCCatching
  NotJson = {closure}
  Answers = {yes, no}
  Suspended = Suspended
  MaxLines = 3
  yes = yes
  no = no
  closure = closure
INVARIANTS
  EndsLikeOneRun
PROPERTIES
  RunsOnce
  ScriptEnds
CHECK_DEADLOCK FALSE
