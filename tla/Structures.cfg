CONSTANTS
  t1 = t1
  t2 = t2
  m = m
  s = s
  Keys <- MCKeys
  Rids = {0,1}
  SaMax = 4
  BTREE_ORDER = 4
  BtNodes = {1,2,3}
  BtMaxItems = 5
  TTREE_ORDER = 3
  TtNodes = {1,2,6}
  TtMaxItems = 7
  Vectors = {0,1,3}
  VRids = {0,1}
  VxMax = 3
  HnM = 1
  HnEf = 2
  IvfLists = 2
  VxMaxInserts = 3
  Threads <- MCThreads
  Bases <- MCBases
  PoolSize = 136
  Header = 24
  Sizes <- MCSizes
  MaxAllocs = 4
  TrAsked = 3
  TrTimes = {0,1}
  TrTtls = {1,3}
  TrTimeMod = 4
  HaNodes = {m,s}
  HaRoles <- MCRoles
  HaChunk = 2
  HaMaxSubs = 3
  HaMaxOps = 4
  HaMaxInbox = 2
  HaMaxLost = 1
  MaxRecords = 1
  LowPowerMax = 1
  VersionMod = 1
  StaleTxIds <- MCZero
  Pks <- MCPks
  Vals <- MCZero
  UniqueVal = FALSE
SPECIFICATION MCSpec
SYMMETRY Symmetry
INVARIANTS    BlocksTile TablesDisjoint NoFalseOutOfMemory StatsExact TrSound
PROPERTIES SaExact 
CHECK_DEADLOCK FALSE
