---------------------------- MODULE MCFmRegistry ----------------------------
(* Instances of FmRegistry for TLC. *)
EXTENDS FmRegistry, TLC

Perms == Permutations(Threads) \cup Permutations(Names)
=============================================================================
