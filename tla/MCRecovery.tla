----------------------------- MODULE MCRecovery -----------------------------
(***************************************************************************)
(* Two runners whose daemon dies at any moment, any number of times.       *)
(***************************************************************************)
EXTENDS Recovery

(* One cgroup at a time: those of two runners have nothing in common.      *)
OneCgroup == Cardinality(cgroups) <= 1
=============================================================================
