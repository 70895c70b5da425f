SPECIFICATION Spec
CONSTANTS
  Threads = {t1, t2}
  None = None
  NKeys = 1
  Unique = {0}
  NBuckets = 2
  BucketOf <- MCBucketOf
  Vals = {0, 1}
  NullVals = {}
  Images <- OneKeyMoved
  ChunkSize = 2
  MaxRecords = 3
  Loaded <- OneRow
  Mixes = {{"insert", "update"}}
  MaxOps = 1
SYMMETRY Perms
INVARIANTS UniqueKeys
