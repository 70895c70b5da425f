SPECIFICATION Spec
CONSTANTS
  Threads = {t1}
  Top = 16
  Offsets = {0, 2, 5}
  Incs = {0, 3}
  Counts = {0, 4}
  Explicit <- MCExplicit
  Resets = {0, 7}
  MaxOps = 2
INVARIANTS SmallestCongruent
