------------------------------ MODULE MCFmSlot ------------------------------
(* Instances of FmSlot for TLC.  A record has two equal words when it is     *)
(* whole; two of the three images have the same key.                         *)
EXTENDS FmSlotInv, TLC

MCImages == {[w \in Words |-> v] : v \in Vals}
MCKeyOf == [r \in Rows |-> IF r[1] = 2 THEN 1 ELSE 0]
MCBucketOf == [k \in Keys |-> k]
Perms == Permutations(Threads)
=============================================================================
