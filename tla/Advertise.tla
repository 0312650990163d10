----------------------------- MODULE Advertise ------------------------------
(***************************************************************************)
(* What every group advertises to GitHub as its capacity: the runners it   *)
(* holds and its share of the free budget (capacity/advertise.go).  The    *)
(* shares are a function of the allocator's state and add no state.        *)
(***************************************************************************)
EXTENDS Capacity

CONSTANT NameRank  \* [Groups -> Nat], the groups' order by name

ASSUME NamesDiffer ==
    /\ NameRank \in [Groups -> Nat]
    /\ \A g, h \in Groups : NameRank[g] = NameRank[h] => g = h

-----------------------------------------------------------------------------
(* Who takes part, and in which order (advertisingGroups).                 *)

Advertising == {g \in Groups : g \notin closed /\ ~IsZero(Reserve[g])}

Contended == \E g \in Advertising : waiting[g] > 0

ServedBefore(g, h) ==
    \/ Priority[g] > Priority[h]
    \/ /\ Priority[g] = Priority[h]
       /\ \/ waiting[g] > 0 /\ waiting[h] = 0
          \/ waiting[g] > 0 /\ waiting[h] > 0 /\ g \in ahead[h]
          \/ waiting[g] = 0 /\ waiting[h] = 0 /\ NameRank[g] < NameRank[h]

ServiceOrder ==
    CHOOSE s \in [1 .. Cardinality(Advertising) -> Advertising] :
        \A i, j \in DOMAIN s : i < j => ServedBefore(s[i], s[j])

-----------------------------------------------------------------------------
(* The plan p gives every group a number of runners beyond those it holds. *)

Plans == [Groups -> Nat]

UsedBy(p) == Plus(used, [d \in Dims |-> Sum(InUse(p, d))])

Room(p, e) == held[e] + p[e] < MaxRunners[e]

(* Mutant: what the plan has given out already is not in use.              *)
TakesAgainstHeld(p, e) == Room(p, e) /\ Admit(e, held, p, used)

Takes(p, e) == Room(p, e) /\ Admit(e, held, p, UsedBy(p))

Take(p, e) == IF Takes(p, e) THEN [p EXCEPT ![e] = @ + 1] ELSE p

TakeUpTo(p, e, n) ==
    LET taken[k \in 0 .. n] == IF k = 0 THEN p ELSE Take(taken[k - 1], e)
    IN taken[n]

(* Mutant: the deferred demand is not claimed before the rest is dealt.    *)
NoClaims(p) == p

Claim(p, e) == TakeUpTo(p, e, Pending(e, p))

Claims(p) ==
    LET order == ServiceOrder
        claimed[k \in 0 .. Len(order)] ==
            IF k = 0 THEN p ELSE Claim(claimed[k - 1], order[k])
    IN claimed[Len(order)]

TakeIf(p, e, eligible) == IF e \in eligible THEN Take(p, e) ELSE p

Round(p, eligible) ==
    LET order == ServiceOrder
        after[k \in 0 .. Len(order)] ==
            IF k = 0 THEN p ELSE TakeIf(after[k - 1], order[k], eligible)
    IN after[Len(order)]

(* Rounds of one runner each until one deals nothing, which is so before   *)
(* there are more of them than runners.                                    *)
Deal(p, eligible) ==
    LET dealt[k \in 0 .. Sum(MaxRunners)] ==
            IF k = 0 THEN p ELSE Round(dealt[k - 1], eligible)
    IN dealt[CHOOSE k \in 0 .. Sum(MaxRunners) : Round(dealt[k], eligible) = dealt[k]]

(* Mutant: the saturated groups are dealt the rest and nobody after them.  *)
ShareToSaturated ==
    LET claimed == Claims(NoPlan)
        headroom == Round(claimed, Groups \ saturated)
    IN Deal(headroom, saturated)

Share ==
    LET ramp == [p \in Plans |-> Deal(Round(p, Groups \ saturated), saturated)]
        rest == [p \in Plans |-> Deal(p, Groups)]
    IN rest[ramp[Claims(NoPlan)]]

(* A group left without a share shows one runner more if it would get it   *)
(* on its own, unless somebody waits.                                      *)
Plan ==
    LET p == Share
    IN IF Contended THEN p
       ELSE [e \in Groups |->
               IF e \in Advertising /\ p[e] = 0 /\ held[e] < MaxRunners[e]
                     /\ Admit(e, held, NoPlan, used)
               THEN 1 ELSE p[e]]

(* Allocator.Capacity.                                                     *)
CapacityOf(g) == IF IsZero(Reserve[g]) THEN MaxRunners[g] ELSE held[g] + Plan[g]

-----------------------------------------------------------------------------
(* Each free runner is advertised once: beside what is in use, all the     *)
(* runners the groups advertise fit the host together with every minimum   *)
(* still unmet.  Only while nobody waits may a group show one runner that  *)
(* another group shows as well (README, host budget; advertise.go:57-63).  *)
EachCountedOnce ==
    \A shown \in {Plan} :
       \E extra \in SUBSET {g \in Groups : shown[g] = 1} :
         LET shared == [g \in Groups |-> IF g \in extra THEN 0 ELSE shown[g]]
         IN /\ Contended => extra = {}
            /\ Fits(Total, UsedBy(shared),
                    [d \in Dims |->
                        Sum([g \in Groups |-> Reserve[g][d] * Missing(held, shared, g)])])

(* No capacity is kept from GitHub: no group with a listener could be      *)
(* given one more runner on top of what all of them advertise.             *)
NothingLeftOver ==
    \A shown \in {Plan} :
       \A g \in Advertising : ~Takes(shown, g)

(* The shares respect strict priority: while part of a group's deferred    *)
(* demand has no share, a group that comes after it gets one only up to    *)
(* its minimum, and a group of its own priority that waited before it only *)
(* for its own deferred demand.                                            *)
SharesByPriority ==
    \A shown \in {Plan} :
       \A g, h \in Advertising :
         /\ g # h
         /\ Pending(h, shown) > 0
         /\ Priority[h] >= Priority[g]
         => held[g] + shown[g] <=
                Larger(held[g] + IF Priority[h] = Priority[g] /\ g \in ahead[h]
                                 THEN waiting[g] ELSE 0,
                       MinRunners[g])

(* Deferred demand has the first claim on what is free: leaving aside what *)
(* the groups are shown beyond the demand they wait for, a group with      *)
(* demand left over could not be given one runner more.  A group of higher *)
(* priority that waits for nothing does not come first (README, host       *)
(* budget; advertise.go:24-31).                                            *)
DeferredDemandFirst ==
    \A shown \in {Plan} :
       LET claimed == [g \in Groups |-> IF shown[g] < waiting[g] THEN shown[g] ELSE waiting[g]]
       IN \A g \in Advertising : Pending(g, shown) > 0 => ~Takes(claimed, g)
=============================================================================
