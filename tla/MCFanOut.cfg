CONSTANTS
  b1 = b1
  b2 = b2
  b3 = b3
  Branches = {b1, b2, b3}
  Capacity = 2
  Length = 4
  Variants = {"streaming", "eager"}
  Before <- AsRequired
SPECIFICATION Spec
PROPERTIES
  ImplementsBroadcast
  EveryReaderFinishes
CHECK_DEADLOCK FALSE
