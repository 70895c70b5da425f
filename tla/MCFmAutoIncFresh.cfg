SPECIFICATION Spec
CONSTANTS
  Threads = {t1, t2}
  Top = 16
  Offsets = {0, 2, 5}
  Incs = {0, 3}
  Counts = {0, 4}
  Explicit = {1}
  Resets = {0, 7}
  MaxOps = 1
INVARIANTS GeneratedFresh
