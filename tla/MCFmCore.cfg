SPECIFICATION FairSpec
CONSTANTS
  Threads = {t1, t2}
  None = None
  NKeys = 1
  Unique = {0}
  NBuckets = 2
  BucketOf <- MCBucketOf
  Vals = {0, 1}
  NullVals = {1}
  Images <- OneKeyMoved
  ChunkSize = 2
  MaxRecords = 3
  Loaded <- OneRow
  Mixes = {{"select", "insert", "update", "delete"}}
  MaxOps = 2
INVARIANTS TypeOK IndexIntegrity FreelistIntegrity RowLimit RecordsExact LockOrder
PROPERTIES StatementsEnd
