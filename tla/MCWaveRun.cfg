CONSTANTS
  N = 3
  Kinds = {"plain", "writer", "nested"}
  Sizes = {0, 1}
  Limit = 1
SPECIFICATION Spec
INVARIANTS
  RejectsExactlyTheBad
  WavesAreTheDepths
  NoStepOnMissingResult
  ErrorIsTheFirstDeclared
  MidWaveCancelIsReported
CHECK_DEADLOCK FALSE
