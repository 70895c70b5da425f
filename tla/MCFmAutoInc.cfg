SPECIFICATION FairSpec
CONSTANTS
  Threads = {t1, t2, t3}
  Top = 16
  Offsets = {0, 5}
  Incs = {0, 3}
  Counts = {0, 4}
  Explicit <- MCExplicit
  Resets = {0, 7}
  MaxOps = 1
INVARIANTS TypeOK DisjointIntervals FollowsSeries ExplicitCovered
PROPERTIES NeverBack LoopsEnd
