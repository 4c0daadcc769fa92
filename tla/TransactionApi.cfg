CONSTANTS
  a = a
  b = b
  NoTx = NoTx
  MaxRecords = 2
  LowPowerMax = 2
  VersionMod = 1
  StaleTxIds <- MCZero
  UniqueVal = TRUE
  Pks <- MCPks
  Vals <- MCVals
  Payloads <- MCAny
  Clients <- MCOneClient
  MaxLog = 2
  MaxTx = 2
  IdMod = 2
  PowerModes <- MCNormal
  KeyChanges = FALSE
SPECIFICATION ApiSpec
INVARIANTS TableConsistent RollbackRestores KeysAndIndex
