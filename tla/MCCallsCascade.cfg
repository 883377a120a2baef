SPECIFICATION Spec
CONSTANTS
  WellFormed <- Names
  DigitLed = {}
  Globby <- MCGlobby
  AppCategories <- MCNone
  Tables <- MCTables
  ReservedNames <- MCReserved
  InvokeMaxDepth = 2
  DispatchMaxDepth = 1
  DefaultTimeout = 2
  Ceiling <- MCNone
  Starts <- MCStarts
  StartRoles <- MCStartRoles
  Events = {"changed"}
  Targets <- MCTargets
  Redirects <- MCRedirects
  Answers <- MCAnswers
  MaxStack = 4
INVARIANT CascadesAreCapped
CHECK_DEADLOCK FALSE
