---------------------------- MODULE MCListeners -----------------------------
(***************************************************************************)
(* Two groups that share a host with room for two runners.                 *)
(***************************************************************************)
EXTENDS Listeners, TLC

CONSTANTS hi, x

Pair(m, c) == [d \in Dims |-> IF d = "memory" THEN m ELSE c]

Symmetry == Permutations(Leases)

HostGroups == {hi, x}
HostPriority == hi :> 1 @@ x :> 0
HostMin == hi :> 0 @@ x :> 0
HostMax == hi :> 2 @@ x :> 1
HostReserve == hi :> Pair(1, 1) @@ x :> Pair(1, 1)
HostTotal == Pair(2, 0)
HostRank == hi :> 0 @@ x :> 1

(* Finished leases are dropped one at a time, only one of the listeners    *)
(* ends, a listener that has read what was advertised and not reported yet *)
(* meets the notifier and the leases but no listener handling a message,   *)
(* and a wake pass, which asks like a listener, belongs to MCCapacity.     *)
OnlyListeners ==
    /\ ~wakeCh
    /\ closed \subseteq {x}
    /\ Cardinality({l \in Leases : done[l]}) <= 1
    /\ \A g, h \in Groups :
        stage[g] \in {"full", "spare"} /\ h # g
            => stage[h] \in {"stopped", "registered", "attached", "poll"}
=============================================================================
