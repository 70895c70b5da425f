SPECIFICATION Spec
CONSTANTS
  Threads = {t1, t2}
  None = None
  NKeys = 1
  Unique = {}
  NBuckets = 2
  BucketOf <- MCBucketOf
  Vals = {0, 1}
  NullVals = {}
  Images <- OneKey
  ChunkSize = 2
  MaxRecords = 3
  Loaded <- NoRow
  Mixes = {{"insert", "delete"}}
  MaxOps = 1
SYMMETRY Perms
INVARIANTS RecordsNeverNegative
