SPECIFICATION Spec
CONSTANTS
  Threads = {t1, t2}
  None = None
  NKeys = 2
  Unique = {0, 1}
  NBuckets = 2
  BucketOf <- MCBucketOf
  Vals = {0, 1}
  NullVals = {}
  Images <- TwoKeys
  ChunkSize = 2
  MaxRecords = 3
  Loaded <- OneRow2
  Mixes = {{"insert"}}
  MaxOps = 1
SYMMETRY Perms
INVARIANTS ErrKeyNamesKey
