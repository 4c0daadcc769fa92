CONSTANTS
  HeaderCells = 2
  DataCells = 2
  Layouts <- MCLayouts
  PreallocCells = 4
  MaxInvalid = 2
  SkipThreshold = 2
  SkipBlock = 3
  Ops <- MCOps
  MaxItems = 3
  MaxFaults = 2
  MaxRestarts = 1
SPECIFICATION Spec
INVARIANTS  WalReadable LockReleased
CHECK_DEADLOCK FALSE
