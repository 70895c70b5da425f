SPECIFICATION Spec
CONSTANTS
  Threads = {t1, t2, t3}
  None = None
  NKeys = 2
  Unique = {0, 1}
  NBuckets = 2
  BucketOf <- MCBucketOf
  Vals = {0, 1, 2, 3}
  NullVals = {3}
  Images <- Mixed
  ChunkSize = 2
  MaxRecords = 4
  Loaded <- TwoRows2
  Mixes = {{"insert", "select", "clear"}, {"update", "delete"}}
  MaxOps = 1
SYMMETRY Perms
INVARIANTS IndexIntegrity FreelistIntegrity UniqueKeys RecordsExact LockOrder
