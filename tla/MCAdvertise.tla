---------------------------- MODULE MCAdvertise -----------------------------
(***************************************************************************)
(* Three groups that queue for a small host and share what is free of it:  *)
(* hi outranks x and y, x is promised a runner.                            *)
(***************************************************************************)
EXTENDS Advertise, TLC

CONSTANTS hi, x, y

Pair(m, c) == [d \in Dims |-> IF d = "memory" THEN m ELSE c]

Symmetry == Permutations(Leases)

ShareGroups == {hi, x, y}
SharePriority == hi :> 1 @@ x :> 0 @@ y :> 0
ShareMin == hi :> 0 @@ x :> 1 @@ y :> 0
ShareMax == hi :> 2 @@ x :> 2 @@ y :> 1
ShareReserve == hi :> Pair(1, 1) @@ x :> Pair(1, 1) @@ y :> Pair(2, 1)
ShareTotal == Pair(3, 0)
ShareRank == hi :> 2 @@ x :> 1 @@ y :> 0

(* The wake loop and the notifications change neither the shares nor the   *)
(* line: a pass asks like a listener does, and Cancel gives back what      *)
(* Release does.  Nor does it matter how a group that takes no part came   *)
(* to be without listener.                                                 *)
OnlyShares ==
    /\ ~wakeCh
    /\ notifying = {}
    /\ ~cancelled
    /\ registered \cup closed = Groups \/ (held = NoPlan /\ waiting = NoPlan /\ closed = {})
    /\ closed \subseteq {y}
    /\ Cardinality({l \in Leases : done[l]}) <= 1

(* The steps that stay among these states.  TLC evaluates the shares in    *)
(* every state it generates, outside a state constraint too.               *)
SharesSpec == Init /\ [][Next /\ OnlyShares']_vars
=============================================================================
