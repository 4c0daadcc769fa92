CONSTANTS
  a = a
  b = b
  NoTx = NoTx
  MaxRecords = 2
  LowPowerMax = 2
  VersionMod = 1
  StaleTxIds <- MCZero
  UniqueVal = FALSE
  Pks <- MCPks
  Vals <- MCOneVal
  Payloads <- MCAny
  Clients <- MCOneClient
  IdMod = 2
  PowerModes <- MCNormal
  KeyChanges = TRUE
  Outside = FALSE
  MaxCrashes = 2
  MaxLog = 2
  MaxTx = 2
SPECIFICATION RSpec
INVARIANTS TableConsistent 
