CONSTANTS
  HeaderCells = 2
  DataCells = 2
  Layouts <- MCPlain
  PreallocCells = 4
  MaxInvalid = 2
  SkipThreshold = 2
  SkipBlock = 3
  Ops <- MCInserts
  MaxItems = 2
  MaxFaults = 0
  MaxRestarts = 1
SPECIFICATION Spec
INVARIANT ScanFindsAll
CHECK_DEADLOCK FALSE
