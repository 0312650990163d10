------------------------------ MODULE MCScaler ------------------------------
(***************************************************************************)
(* Small groups for TLC.                                                   *)
(***************************************************************************)
EXTENDS Scaler, TLC

Symmetry == Permutations(Runners)
=============================================================================
