-------------------------------- MODULE Sums --------------------------------
(***************************************************************************)
(* The sum of a function with natural values over a finite domain, written *)
(* without recursion: one token <<x, i>> for every unit of f[x], and the   *)
(* sum is the number of tokens.  SumTheorems proves how it changes when    *)
(* one value of f changes.                                                 *)
(***************************************************************************)
EXTENDS Naturals, FiniteSets

Tokens(f, x) == {x} \X (1 .. f[x])

Sum(f) == Cardinality(UNION {Tokens(f, x) : x \in DOMAIN f})

(* m - n when it is positive and 0 otherwise (Go: max(m-n, 0)).            *)
Monus(m, n) == IF m > n THEN m - n ELSE 0

Larger(m, n) == IF m > n THEN m ELSE n
=============================================================================
