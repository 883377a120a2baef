SPECIFICATION Spec
CONSTANTS
  Modules <- MCModules
  MaxMemory = 3
  MaxTable = 2
  MaxObjects = 2
  MaxCalls = 3
INVARIANTS
  StoreFitsTheCap
  BlameFitsTheCause
  StashAnswersLastCall
CHECK_DEADLOCK FALSE
