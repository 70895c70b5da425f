SPECIFICATION Spec
CONSTANTS
  Threads = {t1, t2, t3}
  Names = {a, b}
  MaxShares = 3
  MaxOps = 2
  Failures = TRUE
  Mdl = {TRUE, FALSE}
SYMMETRY Perms
INVARIANTS TypeOK NoDangling CountExact Reclaimed OneShare NoGhostRows
