CONSTANTS
  Writers = {w1, w2}
  Capacity = 1
  MaxWrites = 2
SPECIFICATION CallSpec
INVARIANTS
  AckedIsDelivered
  EndTellsTheOutcome
PROPERTIES
  CancelReleasesWrites
  FailureReachesCaller
CHECK_DEADLOCK FALSE
