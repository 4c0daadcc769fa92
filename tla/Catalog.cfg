CONSTANTS
  CtNames = {t,u}
  CtShapes <- MCShapes
  CtCols = {"a","b","c"}
  CtSizes = {2}
  CtCells = {0,1}
  CtRecords = 2
  CtLogFields = 2
  CtMaxTables = 2
  CtMaxLog = 4
  CtMaxVersion = 1
  CtMaxCrash = 1
  MaxRecords = 3
  LowPowerMax = 1
  VersionMod = 2
  StaleTxIds <- MCZero
  UniqueVal = FALSE
  Pks <- MCPks
  Vals <- MCVals
  SnIds = {0,1}
  SnConfigured = {0}
  SnMaxOps = 5
  LpMaxBatch = 2
  MaxCount = 3
  Supported = TRUE
SPECIFICATION MCSpec
SYMMETRY MCSymmetry
INVARIANT CtConsistent
PROPERTIES CtAlterSound  SnRestoreExact LpExact
CHECK_DEADLOCK FALSE
