CONSTANTS
  conn1 = conn1
  NoTx = NoTx
  MaxRecords = 2
  LowPowerMax = 2
  VersionMod = 1
  StaleTxIds <- MCZero
  UniqueVal = FALSE
  Pks <- MCPks
  Vals <- MCZero
  Payloads <- MCPayloads
  Clients <- MCOne
  MaxLog = 2
  MaxTx = 2
  IdMod = 2
  PowerModes <- MCNormal
  KeyChanges = FALSE
  SqBits <- MCBits
  SqMantissa = 3
  SqStrMax = 3
  SqMaxDepth = 2
  SqC = conn1
  SqColumns <- MCColumns
  SqKeyLits <- MCKeyLits
  SqValLits <- MCValLits
  SqConds <- MCConds
  SqSets <- MCSets
  SqMaxRows = 2
  SqMaxStmts = 3
  SrRecords <- MCSrRecords
  SrAggregations <- MCSrAggregations
  SrDuration = 2
  SrRetention = 2
  SrMaxParts = 2
  SrSecond = 2
  SrClocks = {0,4,6}
  SrMaxWrites = 3
  SrConditions <- MCSrConditions
  SrSamples <- MCSrSamples
  SrMaxRows = 3
  SrU64 = 64
  DmNames = {"","default","a","b"}
  DmMax = 3
  DmMaxLog = 5
  AcRoles = {"admin","r","s"}
  AcUsers = {"root","u"}
  AcPermissions <- MCPermissions
  AcGrants <- MCGrants
  AcValues = {"float16","other"}
  AcCap = 4
  AcMaxOps = 6
  MwNames = {"a","b"}
  MwPaths = {"p","q"}
  MwArgs <- MCMwArgs
  MwSize <- MCMwSize
  MwMaxModels = 1
  MwMaxRestarts = 1
  MwMaxEntries = 2
  MwMaxMemory = 3
  MwMaxOps = 5
SPECIFICATION MCSpec
INVARIANTS StatementsSound SrQueriesExact MwSound
PROPERTIES   ParserExact SqNoneLeft SrSound  AcSound
CHECK_DEADLOCK FALSE
