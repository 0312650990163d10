------------------------------- MODULE Budget -------------------------------
(***************************************************************************)
(* What the host capacity budget promises, without saying how: every group *)
(* holds a number of runners, a group may grow only if the host can still  *)
(* give every other group the minimum it was configured with, and a group  *)
(* may shrink whenever it likes.  Capacity implements this specification.  *)
(***************************************************************************)
EXTENDS Naturals, Sums, Resources

CONSTANTS
    Groups,      \* the groups of the configuration
    MinRunners,  \* the warm runners a group is promised
    Reserve,     \* what one runner of a group reserves
    Total        \* what the host has; 0 in a dimension: not limited

VARIABLE held    \* runners every group holds

(* What the groups of h hold or, below their minimum, are still owed.      *)
Committed(h) ==
    [d \in Dims |->
        Sum([g \in Groups |-> Reserve[g][d] * Larger(h[g], MinRunners[g])])]

Honourable(h) == Fits(Total, Committed(h), Zero)

BudgetInit == held = [g \in Groups |-> 0]

Grow(g) ==
    /\ held'[g] \in Nat
    /\ held'[g] > held[g]
    /\ held' = [held EXCEPT ![g] = held'[g]]
    /\ Honourable(held')

Shrink(g) ==
    /\ held[g] > 0
    /\ held' = [held EXCEPT ![g] = @ - 1]

BudgetNext == \E g \in Groups : Grow(g) \/ Shrink(g)

BudgetSpec == BudgetInit /\ [][BudgetNext]_held
=============================================================================
