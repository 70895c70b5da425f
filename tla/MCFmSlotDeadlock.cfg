SPECIFICATION Spec
CHECK_DEADLOCK FALSE
CONSTANTS
  Threads = {t1, t2}
  None = None
  Words = {1, 2}
  Vals = {0, 2}
  Images <- MCImages
  Keys = {0, 1}
  KeyOf <- MCKeyOf
  NBuckets = 2
  BucketOf <- MCBucketOf
  NoRow = NoRow
  Busy = Busy
  Ok = Ok
  Deleted = Deleted
  NotFound = NotFound
  DupKey = DupKey
  MaxOps = 1
SYMMETRY Perms
INVARIANTS NoCircularWait
