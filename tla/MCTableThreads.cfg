CONSTANTS
  t1 = t1
  t2 = t2
  Absent = Absent
  Threads <- MCThreads
  MaxRecords = 2
  LowPowerMax = 2
  VersionMod = 2
  StaleTxIds <- MCZero
  UniqueVal = FALSE
  Pks <- MCPks
  Vals <- MCVals
  MaxBatch = 2
SPECIFICATION Spec
SYMMETRY Symmetry
INVARIANTS FreeStackExact BatchesDisjoint
PROPERTY ImplementsAtomicTable
