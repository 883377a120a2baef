CONSTANTS
  Programs <- Actions
  Sizes = {1, 2}
  Limit = 6
  MaxCount = 2
SPECIFICATION Spec
INVARIANTS
  ScopesMatch
  RecoveredNeverBlamed
  StopIsFinal
PROPERTY CleanupRuns
CHECK_DEADLOCK FALSE
