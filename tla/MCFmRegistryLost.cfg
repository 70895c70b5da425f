SPECIFICATION Spec
CONSTANTS
  Threads = {t1, t2}
  Names = {a, b}
  MaxShares = 4
  MaxOps = 2
  Failures = FALSE
  Mdl = {TRUE}
SYMMETRY Perms
INVARIANTS NoLostRows
