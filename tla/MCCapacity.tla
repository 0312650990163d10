----------------------------- MODULE MCCapacity -----------------------------
(***************************************************************************)
(* Small hosts for TLC: MCCapacity.cfg takes three groups with different   *)
(* shapes of reserve through everything that moves leases, and             *)
(* MCCapacityRun.cfg two groups through the loops of Run up to the end of  *)
(* the daemon.                                                             *)
(***************************************************************************)
EXTENDS Capacity, Config, TLC

CONSTANTS hi, HI, x, z

Pair(m, c) == [d \in Dims |-> IF d = "memory" THEN m ELSE c]

Symmetry == Permutations(Leases)

(* hi outranks x, x is promised a runner, and z reserves nothing.  Memory  *)
(* is not limited.                                                         *)
LeaseGroups == {hi, x, z}
LeasePriority == hi :> 1 @@ x :> 0 @@ z :> 0
LeaseMin == hi :> 0 @@ x :> 1 @@ z :> 0
LeaseMax == hi :> 2 @@ x :> 2 @@ z :> 1
LeaseReserve == hi :> Pair(1, 1) @@ x :> Pair(1, 2) @@ z :> Pair(0, 0)
LeaseTotal == Pair(0, 4)

(* Two groups on a host with room for one runner at a time.                *)
RunGroups == {hi, x}
RunPriority == hi :> 1 @@ x :> 0
NoMin == hi :> 0 @@ x :> 0
OneMax == hi :> 1 @@ x :> 1
RunReserve == hi :> Pair(1, 1) @@ x :> Pair(1, 2)
OneTotal == Pair(1, 0)

(* Saturation, the notifications and the end of the daemon change nothing  *)
(* the safety of leases depends on; MCCapacityRun.cfg covers them.         *)
OnlyLeases ==
    /\ saturated = {}
    /\ notifying = {}
    /\ ~cancelled

-----------------------------------------------------------------------------
(* The hosts above are configurations that validate accepts.               *)
LowerCase == hi :> hi @@ HI :> hi @@ x :> x @@ z :> z

Given(r) == [memory |-> IF r["memory"] = 0 THEN Absent ELSE r["memory"],
             cpus |-> 10 * r["cpu"]]

NoLimits == [memoryMax |-> Absent, memoryHigh |-> Absent, cpuWeight |-> 0]

GroupOf(name, min, max, reserve) ==
    [name |-> name, minRunners |-> min, maxRunners |-> max,
     reserve |-> Given(reserve), resources |-> NoLimits]

ASSUME HostAccepted ==
    \A names \in Permutations(Groups) :
        LET order == CHOOSE s \in [1 .. Cardinality(Groups) -> Groups] :
                        \A i, j \in DOMAIN s : s[i] = s[j] => i = j
            of(g) == GroupOf(g, MinRunners[g], MaxRunners[g], Reserve[g])
        IN  Validate([groups |-> [i \in DOMAIN order |-> of(names[order[i]])],
                      capacity |-> Given(Total)])

(* Of all pairs of groups of up to three runners, on a host with room for  *)
(* three or none, validate accepts those with scale sets of their own      *)
(* whose minimums fit together - and, because their sum is an int64 (here  *)
(* of four bits), one pair whose minimums do not.                          *)
Pairs ==
    {<<GroupOf(m, i, 3, Pair(a, 0)), GroupOf(n, j, 3, Pair(b, 0))>> :
        m \in {hi, HI}, n \in {hi, x}, i, j \in -1 .. 3, a, b \in 0 .. 3}

Hosts == {[groups |-> gs, capacity |-> [memory |-> t, cpus |-> 0]] : gs \in Pairs, t \in {0, 3}}

FitsTogether(c) == FloorOf(c, "memory") <= c.capacity.memory

ASSUME AcceptedFits ==
    \A c \in Hosts :
        Validate(c) => /\ ScaleSet(c, 1) # ScaleSet(c, 2)
                       /\ c.capacity.memory = 3
                       /\ FloorOf(c, "memory") <= MaxInt64 => FitsTogether(c)

ASSUME AcceptsWhatFits ==
    \A c \in Hosts :
        /\ ValidGroups(c)
        /\ ScaleSet(c, 1) # ScaleSet(c, 2)
        /\ c.capacity.memory = 3
        /\ \A i \in 1 .. 2 : Reserves(c)[i]["memory"] <= 3
        /\ FitsTogether(c)
        => Validate(c)

ASSUME WrapIsAccepted == \E c \in Hosts : Validate(c) /\ ~FitsTogether(c)
=============================================================================
