SPECIFICATION Spec
CONSTANTS
  Threads = {t1}
  None = None
  NKeys = 1
  Unique = {}
  NBuckets = 2
  BucketOf <- MCBucketOf
  Vals = {0, 1}
  NullVals = {}
  Images <- OneKey
  ChunkSize = 2
  MaxRecords = 1
  Loaded <- OneRow
  Mixes = {{"insert", "clear"}}
  MaxOps = 3
INVARIANTS RowLimit
