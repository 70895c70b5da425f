---------------------------- MODULE MCFmAutoInc ----------------------------
(* Instances of FmAutoInc for TLC. *)
EXTENDS FmAutoInc, TLC

MCExplicit == {-1, 3, 14}
Perms == Permutations(Threads)
=============================================================================
