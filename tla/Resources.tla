----------------------------- MODULE Resources ------------------------------
(***************************************************************************)
(* The amounts of internal/capacity/resources.go: a pair of a memory and a *)
(* CPU quantity.  The unit (bytes, thousandths of a CPU) does not matter   *)
(* to any property; the two dimensions do, because a runner is admitted    *)
(* only when both fit and a total of 0 means that the dimension is not     *)
(* limited at all.                                                         *)
(***************************************************************************)
EXTENDS Naturals

Dims == {"memory", "cpu"}

Amount == [Dims -> Nat]

Zero == [d \in Dims |-> 0]

IsZero(r) == \A d \in Dims : r[d] = 0

Plus(r, s) == [d \in Dims |-> r[d] + s[d]]

Minus(r, s) == [d \in Dims |-> r[d] - s[d]]

Times(r, n) == [d \in Dims |-> r[d] * n]

Fits(total, used, need) ==
    \A d \in Dims : total[d] > 0 => used[d] + need[d] <= total[d]
=============================================================================
