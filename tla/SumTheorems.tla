---------------------------- MODULE SumTheorems -----------------------------
(***************************************************************************)
(* How the sum of a function over a finite domain behaves, from the        *)
(* cardinality facts of the library alone: no induction is needed, because *)
(* Sum counts the elements of a set.                                       *)
(***************************************************************************)
EXTENDS Sums, Integers, FiniteSetTheorems, TLAPS

(* The tokens of everything but s.                                         *)
Others(f, s) == UNION {Tokens(f, x) : x \in DOMAIN f \ {s}}

(* There are f[x] tokens for x: a value is counted once for every unit.    *)
LEMMA TokensCount ==
    ASSUME NEW f, NEW x, f[x] \in Nat
    PROVE  IsFiniteSet(Tokens(f, x)) /\ Cardinality(Tokens(f, x)) = f[x]
<1>1. IsFiniteSet(1 .. f[x]) /\ Cardinality(1 .. f[x]) = f[x]
  <2>1. PICK n \in Nat : n = f[x]
      OBVIOUS
  <2>2. IsFiniteSet(1 .. n) /\ Cardinality(1 .. n) = IF 1 > n THEN 0 ELSE n - 1 + 1
      BY FS_Interval
  <2>3. IsFiniteSet(1 .. n) /\ Cardinality(1 .. n) = n
      BY <2>2, SMT
  <2> QED BY <2>1, <2>3, Zenon
<1>2. IsFiniteSet({x}) /\ Cardinality({x}) = 1
    BY FS_Singleton
<1>3. Cardinality({x} \X (1 .. f[x])) = 1 * f[x] /\ IsFiniteSet({x} \X (1 .. f[x]))
    BY <1>1, <1>2, FS_Product
<1> QED BY <1>3, SMT DEF Tokens

(* The tokens of a finite part of the domain are finitely many.            *)
LEMMA TokensFinite ==
    ASSUME NEW S, IsFiniteSet(S), NEW f, \A x \in S : f[x] \in Nat
    PROVE  IsFiniteSet(UNION {Tokens(f, x) : x \in S})
<1> DEFINE T == {Tokens(f, x) : x \in S}
           h == [x \in S |-> Tokens(f, x)]
<1>1. h \in Surjection(S, T)
    BY Zenon DEF Surjection
<1>2. IsFiniteSet(T)
    BY <1>1, FS_Surjection
<1>3. \A t \in T : IsFiniteSet(t)
    BY TokensCount
<1> QED BY <1>2, <1>3, FS_UNION

(* A sum is the value at one argument and the tokens of the others.        *)
LEMMA SumSplit ==
    ASSUME NEW S, IsFiniteSet(S), NEW f \in [S -> Nat], NEW s \in S
    PROVE  /\ Cardinality(Others(f, s)) \in Nat
           /\ Sum(f) = Cardinality(Others(f, s)) + f[s]
<1>1. IsFiniteSet(S \ {s})
    BY FS_Subset
<1>2. IsFiniteSet(Others(f, s))
  <2>1. \A x \in S \ {s} : f[x] \in Nat
    OBVIOUS
  <2>2. IsFiniteSet(UNION {Tokens(f, x) : x \in S \ {s}})
    BY <1>1, <2>1, TokensFinite
  <2>3. DOMAIN f = S
    OBVIOUS
  <2> QED BY <2>2, <2>3 DEF Others
<1>3. IsFiniteSet(Tokens(f, s)) /\ Cardinality(Tokens(f, s)) = f[s]
    BY TokensCount
<1>4. Others(f, s) \cap Tokens(f, s) = {}
    BY DEF Others, Tokens
<1>5. UNION {Tokens(f, x) : x \in DOMAIN f} = Others(f, s) \cup Tokens(f, s)
    BY DEF Others
<1>6. Cardinality(Others(f, s)) \in Nat
    BY <1>2, FS_CardinalityType
<1>7. Cardinality(Others(f, s) \cup Tokens(f, s)) = Cardinality(Others(f, s)) + f[s]
  <2>1. Cardinality({}) = 0
    BY FS_EmptySet
  <2>2. Cardinality(Others(f, s) \cup Tokens(f, s)) =
          Cardinality(Others(f, s)) + Cardinality(Tokens(f, s)) - 0
    BY <1>2, <1>3, <1>4, <2>1, FS_Union
  <2> QED BY <1>3, <1>6, <2>2, SMT
<1> QED BY <1>5, <1>6, <1>7 DEF Sum

(* A sum is a natural number.                                              *)
LEMMA SumNat ==
    ASSUME NEW S, IsFiniteSet(S), NEW f \in [S -> Nat]
    PROVE  Sum(f) \in Nat
<1>1. IsFiniteSet(UNION {Tokens(f, x) : x \in S})
    BY TokensFinite
<1> QED BY <1>1, FS_CardinalityType DEF Sum

(* When two functions agree everywhere but at s, their sums differ by what *)
(* they differ by at s.                                                    *)
THEOREM SumUpdate ==
    ASSUME NEW S, IsFiniteSet(S), NEW f \in [S -> Nat], NEW g \in [S -> Nat],
           NEW s \in S, \A x \in S \ {s} : f[x] = g[x]
    PROVE  Sum(g) = Sum(f) - f[s] + g[s]
<1>1. Others(f, s) = Others(g, s)
  <2>1. \A x \in S \ {s} : Tokens(f, x) = Tokens(g, x)
    BY DEF Tokens
  <2> QED BY <2>1 DEF Others
<1>2. f[s] \in Nat /\ g[s] \in Nat
    OBVIOUS
<1>3. /\ Cardinality(Others(f, s)) \in Nat
      /\ Sum(f) = Cardinality(Others(f, s)) + f[s]
    BY SumSplit
<1>4. Sum(g) = Cardinality(Others(g, s)) + g[s]
    BY SumSplit
<1> QED BY <1>1, <1>2, <1>3, <1>4, SMT

(* One value of a function is at most its sum.                             *)
LEMMA SumAtLeast ==
    ASSUME NEW S, IsFiniteSet(S), NEW f \in [S -> Nat], NEW s \in S
    PROVE  f[s] <= Sum(f)
<1>1. f[s] \in Nat
    OBVIOUS
<1>2. /\ Cardinality(Others(f, s)) \in Nat
      /\ Sum(f) = Cardinality(Others(f, s)) + f[s]
    BY SumSplit
<1> QED BY <1>1, <1>2, SMT

(* The sum of a function that is zero everywhere is zero.                  *)
LEMMA SumOfZero ==
    ASSUME NEW S, NEW f \in [S -> Nat], \A x \in S : f[x] = 0
    PROVE  Sum(f) = 0
<1>1. \A x \in S : Tokens(f, x) = {}
    BY SMT DEF Tokens
<1>2. UNION {Tokens(f, x) : x \in DOMAIN f} = {}
    BY <1>1
<1> QED BY <1>2, FS_EmptySet DEF Sum

(* What the tokens are.                                                    *)
LEMMA TokensMember ==
    ASSUME NEW S, NEW f
    PROVE  \A t : t \in UNION {Tokens(f, x) : x \in S}
                    <=> \E x \in S : \E i \in 1 .. f[x] : t = <<x, i>>
<1>1. \A x : \A t : t \in Tokens(f, x) <=> \E i \in 1 .. f[x] : t = <<x, i>>
    BY DEF Tokens
<1>2. \A t : t \in UNION {Tokens(f, x) : x \in S} <=> \E x \in S : t \in Tokens(f, x)
    OBVIOUS
<1> QED BY <1>1, <1>2, ZenonT(60)

(* The sum of two functions, argument by argument, is the sum of their     *)
(* sums: the tokens of the second are put behind those of the first.       *)
THEOREM SumAdd ==
    ASSUME NEW S, IsFiniteSet(S), NEW f \in [S -> Nat], NEW g \in [S -> Nat]
    PROVE  Sum([x \in S |-> f[x] + g[x]]) = Sum(f) + Sum(g)
<1>h. PICK h \in [S -> Nat] : h = [x \in S |-> f[x] + g[x]]
  <2>1. [x \in S |-> f[x] + g[x]] \in [S -> Nat]
      OBVIOUS
  <2> QED BY <2>1, Zenon
<1> DEFINE A == UNION {Tokens(f, x) : x \in S}
           G == UNION {Tokens(g, x) : x \in S}
           H == UNION {Tokens(h, x) : x \in S}
           shift == [t \in G |-> <<t[1], f[t[1]] + t[2]>>]
           B == {shift[t] : t \in G}
<1>a. \A x \in S : f[x] \in Nat /\ g[x] \in Nat /\ h[x] = f[x] + g[x]
    BY <1>h
<1>b. \A t : t \in A <=> \E x \in S : \E i \in 1 .. f[x] : t = <<x, i>>
    BY TokensMember
<1>c. \A t : t \in G <=> \E x \in S : \E i \in 1 .. g[x] : t = <<x, i>>
    BY TokensMember
<1>d. \A t : t \in H <=> \E x \in S : \E i \in 1 .. h[x] : t = <<x, i>>
    BY TokensMember
<1>e. \A x \in S : \A i \in 1 .. g[x] : <<x, i>> \in G /\ shift[<<x, i>>] = <<x, f[x] + i>>
  <2> SUFFICES ASSUME NEW x \in S, NEW i \in 1 .. g[x]
               PROVE  <<x, i>> \in G /\ shift[<<x, i>>] = <<x, f[x] + i>>
      OBVIOUS
  <2>1. <<x, i>> \in G
      BY <1>c
  <2> QED BY <2>1
<1>f. \A t : t \in B <=> \E x \in S : \E i \in 1 .. g[x] : t = <<x, f[x] + i>>
  <2>1. \A t : t \in B <=> \E s \in G : t = shift[s]
      OBVIOUS
  <2> HIDE DEF A, B, H, shift, G
  <2>2. ASSUME NEW t, t \in B
        PROVE  \E x \in S : \E i \in 1 .. g[x] : t = <<x, f[x] + i>>
    <3>1. PICK s \in G : t = shift[s]
        BY <2>1, <2>2
    <3>2. PICK x \in S : \E i \in 1 .. g[x] : s = <<x, i>>
        BY <1>c
    <3>3. PICK i \in 1 .. g[x] : s = <<x, i>>
        BY <3>2
    <3> QED BY <3>1, <3>3, <1>e
  <2>3. ASSUME NEW x \in S, NEW i \in 1 .. g[x]
        PROVE  <<x, f[x] + i>> \in B
      BY <2>1, <1>e
  <2> QED BY <2>2, <2>3
<1> HIDE DEF A, B, G, H, shift
<1>2. H = A \cup B
  <2>1. \A t : t \in H => t \in A \cup B
    <3> SUFFICES ASSUME NEW x \in S, NEW i \in 1 .. h[x]
                 PROVE  <<x, i>> \in A \cup B
        BY <1>d
    <3>1. CASE i \in 1 .. f[x]
        BY <3>1, <1>b
    <3>2. CASE i \notin 1 .. f[x]
      <4>1. i - f[x] \in 1 .. g[x] /\ f[x] + (i - f[x]) = i
          BY <3>2, <1>a, SMT
      <4> QED BY <4>1, <1>f
    <3> QED BY <3>1, <3>2
  <2>2. \A t : t \in A => t \in H
    <3>1. \A x \in S : \A i \in 1 .. f[x] : i \in 1 .. h[x]
        BY <1>a, SMT
    <3> QED BY <3>1, <1>b, <1>d, Zenon
  <2>3. \A t : t \in B => t \in H
    <3>1. \A x \in S : \A i \in 1 .. g[x] : f[x] + i \in 1 .. h[x]
        BY <1>a, SMT
    <3> QED BY <3>1, <1>f, <1>d, Zenon
  <2> QED BY <2>1, <2>2, <2>3
<1>3. A \cap B = {}
  <2> SUFFICES ASSUME NEW t, t \in A, t \in B
               PROVE  FALSE
      OBVIOUS
  <2>1. PICK x \in S : \E i \in 1 .. f[x] : t = <<x, i>>
      BY <1>b
  <2>2. PICK i \in 1 .. f[x] : t = <<x, i>>
      BY <2>1
  <2>3. PICK y \in S : \E j \in 1 .. g[y] : t = <<y, f[y] + j>>
      BY <1>f
  <2>4. PICK j \in 1 .. g[y] : t = <<y, f[y] + j>>
      BY <2>3
  <2>5. x = y /\ i = f[y] + j
      BY <2>2, <2>4
  <2> QED BY <2>5, <1>a, SMT
<1>4. IsFiniteSet(A) /\ IsFiniteSet(G)
    BY TokensFinite, <1>a DEF A, G
<1>5. shift \in Bijection(G, B)
  <2>1. \A s, t \in G : shift[s] = shift[t] => s = t
    <3> SUFFICES ASSUME NEW s \in G, NEW t \in G, shift[s] = shift[t]
                 PROVE  s = t
        OBVIOUS
    <3>1. PICK x \in S : \E k \in 1 .. g[x] : s = <<x, k>>
        BY <1>c
    <3>2. PICK i \in 1 .. g[x] : s = <<x, i>>
        BY <3>1
    <3>3. PICK y \in S : \E k \in 1 .. g[y] : t = <<y, k>>
        BY <1>c
    <3>4. PICK j \in 1 .. g[y] : t = <<y, j>>
        BY <3>3
    <3>5. x = y /\ f[x] + i = f[y] + j
        BY <3>2, <3>4, <1>e
    <3>6. i = j
        BY <3>5, <1>a, SMT
    <3> QED BY <3>2, <3>4, <3>5, <3>6
  <2>2. shift \in [G -> B] /\ \A b \in B : \E t \in G : shift[t] = b
      BY DEF B, shift
  <2> QED BY <2>1, <2>2, Zenon DEF Bijection, Injection, Surjection, IsInjective
<1>6. IsFiniteSet(B) /\ Cardinality(B) = Cardinality(G)
  <2>1. ExistsBijection(G, B)
      BY <1>5 DEF ExistsBijection
  <2> QED BY <1>4, <2>1, FS_Bijection
<1>7. Cardinality(H) = Cardinality(A) + Cardinality(G)
  <2>1. Cardinality({}) = 0
      BY FS_EmptySet
  <2>2. Cardinality(H) = Cardinality(A) + Cardinality(G) - 0
      BY <1>2, <1>3, <1>4, <1>6, <2>1, FS_Union
  <2>3. Cardinality(A) \in Nat /\ Cardinality(G) \in Nat
      BY <1>4, FS_CardinalityType
  <2> QED BY <2>2, <2>3, SMT
<1>8. Sum(f) = Cardinality(A) /\ Sum(g) = Cardinality(G) /\ Sum(h) = Cardinality(H)
    BY <1>h DEF Sum, A, G, H
<1> QED BY <1>7, <1>8, <1>h
=============================================================================
