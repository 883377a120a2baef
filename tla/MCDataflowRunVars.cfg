CONSTANTS
  a = a
  b = b
  c = c
  p = p
  Steps = {a, b, p}
  Deps <- DepsLine
  LongRunning = {p}
  Writers = {a, p}
  EventsCap = 1
  Unset = Unset
SPECIFICATION Safety
INVARIANT InheritedNeverMerged
CHECK_DEADLOCK FALSE
