CONSTANTS
  b1 = b1
  b2 = b2
  b3 = b3
  Branches = {b1, b2}
  Capacity = 1
  Length = 3
  Variants = {"streaming"}
  Before <- OneAfterTheOther
SPECIFICATION Spec
PROPERTY EveryReaderFinishes
CHECK_DEADLOCK FALSE
