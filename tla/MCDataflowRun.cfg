CONSTANTS
  a = a
  b = b
  c = c
  p = p
  Steps = {a, b, c, p}
  Deps <- DepsFork
  LongRunning = {p}
  Writers = {p}
  EventsCap = 1
  Unset = Unset
SPECIFICATION Spec
INVARIANTS
  ValuesBeforeStart
  NothingLeftBehind
  OneTerminator
  BlameIsRight
PROPERTIES
  RunResolves
  TerminatorArrives
CHECK_DEADLOCK FALSE
