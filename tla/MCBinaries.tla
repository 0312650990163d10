----------------------------- MODULE MCBinaries -----------------------------
(***************************************************************************)
(* Two groups and one release more than the cache keeps.                   *)
(***************************************************************************)
EXTENDS Binaries, TLC

Symmetry == Permutations(Groups) \cup Permutations(Versions)
=============================================================================
