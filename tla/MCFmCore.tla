------------------------------ MODULE MCFmCore ------------------------------
(* Instances of FmCore for TLC.  A record has one column per key and one     *)
(* column that is in no key.                                                 *)
EXTENDS FmCore, TLC

\* One key: two records that agree on the key, and one that does not.
Rec1(a, p) == [j \in 0 .. 1 |-> IF j = 0 THEN a ELSE p]
OneKey == {Rec1(0, 0), Rec1(0, 1), Rec1(1, 0)}
OneKeyMoved == {Rec1(0, 0), Rec1(1, 0)}
OneRow == [n \in 1 .. 1 |-> Rec1(0, 0)]
TwinRows == [n \in 1 .. 2 |-> Rec1(0, 0)]
NoRow == [n \in 1 .. 0 |-> Rec1(0, 0)]

\* Two keys: records that agree on one of them, and one with a NULL (3).
Rec2(a, b) == [j \in 0 .. 2 |-> CASE j = 0 -> a [] j = 1 -> b [] OTHER -> 0]
TwoKeys == {Rec2(0, 0), Rec2(0, 1), Rec2(1, 0)}
Mixed == {Rec2(0, 1), Rec2(2, 0), Rec2(2, 1), Rec2(2, 3)}
OneRow2 == [n \in 1 .. 1 |-> Rec2(0, 0)]
TwoRows2 == [n \in 1 .. 2 |-> Rec2(n - 1, n - 1)]

MCBucketOf == [v \in Vals |-> v % NBuckets]
Perms == Permutations(Threads)
=============================================================================
