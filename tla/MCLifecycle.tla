---------------------------- MODULE MCLifecycle ----------------------------
(***************************************************************************)
(* Two processes at a time, either service manager.                        *)
(***************************************************************************)
EXTENDS Lifecycle
=============================================================================
