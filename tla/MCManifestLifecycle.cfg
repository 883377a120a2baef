SPECIFICATION KernelSpec
CONSTANTS
  WellFormed <- MCWellFormed
  DigitLed <- MCDigitLed
  Globby <- MCGlobby
  AppCategories <- MCAppCategories
  Templated <- MCTemplated
  ReservedStepTypes <- MCReserved
  TrustedProviders <- MCTrusted
  NativeBindings <- MCBindings
  Inventory <- MCInventory
  Seeds <- MCSeeds
  IntrinsicBodies <- MCIntrinsicBodies
  Documents <- MCDocuments
  Presented <- MCPresented
  Direct <- MCDirect
  Intrinsics <- MCIntrinsics
  MaxHandles = 4
INVARIANTS
  TablesMatchLoaded
  RoleIndexesAgree
  LiteralInvokesAcyclic
  ForeignBodiesTrusted
PROPERTIES
  RollbackRestores
  KeepsTheStore
VIEW MCView
CHECK_DEADLOCK FALSE
