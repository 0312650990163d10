-------------------------- MODULE AdvertiseProofs ---------------------------
(***************************************************************************)
(* Proofs about the shares that the groups advertise (Advertise), for any  *)
(* number of groups, priorities, minimums, maximums, reserves and total,   *)
(* in every state of the allocator.                                        *)
(*                                                                         *)
(* planAdvertised is three loops inside one another.  What it promises is  *)
(* proved of one take first, and then carried through the loops by         *)
(* LoopKeeps: a set of plans that every turn stays in is never left.       *)
(***************************************************************************)
EXTENDS Listeners, CapacityProofs

-----------------------------------------------------------------------------
(* Loops.                                                                  *)

(* What is true at turn i and survives each turn after it is true from     *)
(* there on.                                                               *)
LEMMA LoopKeeps ==
    ASSUME NEW S, NEW n \in Nat, NEW h, NEW i \in 0 .. n, h[i] \in S,
           \A k \in i + 1 .. n : h[k - 1] \in S => h[k] \in S
    PROVE  \A k \in i .. n : h[k] \in S
<1> SUFFICES ASSUME NEW j \in i .. n, h[j] \notin S
             PROVE  FALSE
    OBVIOUS
<1> DEFINE Bad == {k \in i .. n : h[k] \notin S}
<1>1. Bad \subseteq Nat /\ Bad # {}
    BY SMT
<1>2. PICK first \in Bad : \A k \in Bad : first <= k
    BY <1>1, FirstOfNaturals
<1>3. first # i /\ first \in i .. n
    BY <1>2
<1>4. first \in i + 1 .. n /\ first - 1 \in i .. n /\ first - 1 \notin Bad
    BY <1>2, <1>3, SMT
<1> QED BY <1>2, <1>4

(* A loop of n turns, each a function of its own on the set S, has a       *)
(* result for each turn.                                                   *)
LEMMA LoopExists ==
    ASSUME NEW S, NEW p \in S, NEW n \in Nat, NEW step \in [1 .. n -> [S -> S]]
    PROVE  \E f \in [0 .. n -> S] :
              f[0] = p /\ \A k \in 1 .. n : f[k] = step[k][f[k - 1]]
<1> DEFINE Good(m, f) == /\ f \in [0 .. m -> S]
                         /\ f[0] = p
                         /\ \A k \in 1 .. m : f[k] = step[k][f[k - 1]]
           Bad == {m \in 0 .. n : ~\E f : Good(m, f)}
<1>1. Bad = {}
  <2> SUFFICES ASSUME Bad # {} PROVE FALSE
      OBVIOUS
  <2>1. Bad \subseteq Nat
      BY SMT
  <2>2. PICK first \in Bad : \A k \in Bad : first <= k
      BY <2>1, FirstOfNaturals
  <2>3. first # 0
    <3>1. Good(0, [k \in 0 .. 0 |-> p])
        BY SMT
    <3> QED BY <3>1
  <2>4. first - 1 \in 0 .. n /\ first - 1 \notin Bad /\ first \in 1 .. n
    <3>1. first \in 0 .. n
        OBVIOUS
    <3>2. first - 1 \in 0 .. n /\ first \in 1 .. n /\ ~(first <= first - 1)
        BY <3>1, <2>3, SMT
    <3>3. first - 1 \notin Bad
      <4> HIDE DEF Bad
      <4> QED BY <3>2, <2>2
    <3> QED BY <3>2, <3>3
  <2>5. PICK f : Good(first - 1, f)
      BY <2>4
  <2> DEFINE g == [k \in 0 .. first |-> IF k = first THEN step[first][f[first - 1]] ELSE f[k]]
  <2>6. f[first - 1] \in S /\ step[first] \in [S -> S]
      BY <2>4, <2>5, SMT
  <2>7. g \in [0 .. first -> S]
      BY <2>4, <2>5, <2>6, SMT
  <2>8. g[0] = p
      BY <2>4, <2>5, SMT
  <2>9. \A k \in 1 .. first : g[k] = step[k][g[k - 1]]
      BY <2>4, <2>5, SMT
  <2> QED BY <2>7, <2>8, <2>9
<1>2. PICK f : Good(n, f)
  <2>1. n \in 0 .. n
      BY SMT
  <2> HIDE DEF Good
  <2> QED BY <1>1, <2>1, Zenon
<1> QED BY <1>2

(* What is true before the first turn and survives each turn.              *)
LEMMA LoopStays ==
    ASSUME NEW S, NEW n \in Nat, NEW h, h[0] \in S,
           \A k \in 1 .. n : h[k - 1] \in S => h[k] \in S
    PROVE  /\ \A k \in 0 .. n : h[k] \in S
           /\ n \in 0 .. n /\ h[n] \in S
<1>1. 0 \in 0 .. n /\ 0 + 1 = 1 /\ n \in 0 .. n
    BY SMT
<1>2. \A k \in 0 + 1 .. n : h[k - 1] \in S => h[k] \in S
    BY <1>1
<1>3. \A k \in 0 .. n : h[k] \in S
    BY <1>1, <1>2, LoopKeeps
<1> QED BY <1>1, <1>3

(* Two loops that agree step by step end alike.                            *)
Agree(f, g, n, S) == \A k \in 0 .. n : f[k] \in S /\ g[k] = f[k]

LEMMA LoopsAgree ==
    ASSUME NEW S, NEW n \in Nat, NEW f, NEW g, f[0] \in S, g[0] = f[0],
           \A k \in 1 .. n : f[k - 1] \in S /\ g[k - 1] = f[k - 1] => f[k] \in S /\ g[k] = f[k]
    PROVE  Agree(f, g, n, S)
<1> DEFINE h == [k \in 0 .. n |-> <<f[k], g[k]>>]
           T == {t \in S \X S : t[1] = t[2]}
<1>1. \A k \in 0 .. n : h[k] \in T <=> f[k] \in S /\ g[k] = f[k]
    OBVIOUS
<1>2. /\ 0 \in 0 .. n
      /\ \A k \in 1 .. n : k \in 0 .. n /\ k - 1 \in 0 .. n
    BY SMT
<1>3. h[0] \in T /\ \A k \in 1 .. n : h[k - 1] \in T => h[k] \in T
  <2> HIDE DEF h, T
  <2> QED BY <1>1, <1>2
<1>4. \A k \in 0 .. n : h[k] \in T
  <2> HIDE DEF h, T
  <2> QED BY <1>3, LoopStays
<1> HIDE DEF h, T
<1> QED BY <1>1, <1>4 DEF Agree

-----------------------------------------------------------------------------
(* The order of service.                                                   *)

(* The members of a finite set that a relation orders completely can be    *)
(* put in that order: each goes to the place that the number of those      *)
(* before it says.                                                         *)
LEMMA SortedExists ==
    ASSUME NEW S, IsFiniteSet(S), NEW R,
           \A a, b, c \in S : <<a, b>> \in R /\ <<b, c>> \in R => <<a, c>> \in R,
           \A a \in S : <<a, a>> \notin R,
           \A a, b \in S : a # b => <<a, b>> \in R \/ <<b, a>> \in R
    PROVE  \E s \in [1 .. Cardinality(S) -> S] :
              \A i, j \in 1 .. Cardinality(S) : i < j => <<s[i], s[j]>> \in R
<1> DEFINE n == Cardinality(S)
           before(a) == {b \in S : <<b, a>> \in R}
           place == [a \in S |-> Cardinality(before(a)) + 1]
<1>1. n \in Nat /\ IsFiniteSet(1 .. n) /\ Cardinality(1 .. n) = n
  <2>1. n \in Nat
      BY FS_CardinalityType
  <2>2. IsFiniteSet(1 .. n) /\ Cardinality(1 .. n) = IF 1 > n THEN 0 ELSE n - 1 + 1
      BY <2>1, FS_Interval
  <2> QED BY <2>1, <2>2, SMT
<1>2. ASSUME NEW a \in S
      PROVE  IsFiniteSet(before(a)) /\ Cardinality(before(a)) \in Nat
    BY FS_Subset, FS_CardinalityType
<1>3. ASSUME NEW a \in S, NEW b \in S, <<a, b>> \in R
      PROVE  Cardinality(before(a)) < Cardinality(before(b))
  <2>1. before(a) \subseteq before(b) /\ a \in before(b) /\ a \notin before(a)
      BY <1>3
  <2>2. /\ Cardinality(before(a)) <= Cardinality(before(b))
        /\ Cardinality(before(b)) # Cardinality(before(a))
      BY <1>2, <2>1, FS_Subset
  <2> QED BY <1>2, <2>2, SMT
<1>4. place \in Injection(S, 1 .. n)
  <2>1. ASSUME NEW a \in S
        PROVE  Cardinality(before(a)) + 1 \in 1 .. n
    <3>1. before(a) \subseteq S /\ a \notin before(a)
        OBVIOUS
    <3>2. Cardinality(before(a)) <= n /\ Cardinality(before(a)) # n
        BY <3>1, FS_Subset
    <3> QED BY <1>1, <1>2, <3>2, SMT
  <2>2. ASSUME NEW a \in S, NEW b \in S, place[a] = place[b]
        PROVE  a = b
    <3>1. Cardinality(before(a)) = Cardinality(before(b))
      <4>1. Cardinality(before(a)) + 1 = Cardinality(before(b)) + 1
          BY <2>2
      <4> HIDE DEF before
      <4> QED BY <4>1, <1>2, SMT
    <3>2. <<a, b>> \notin R /\ <<b, a>> \notin R
      <4> HIDE DEF before
      <4> QED BY <3>1, <1>2, <1>3, SMT
    <3> QED BY <3>2
  <2>3. place \in [S -> 1 .. n]
      BY <2>1
  <2> QED BY <2>2, <2>3, Zenon DEF Injection, IsInjective
<1>5. place \in Surjection(S, 1 .. n)
    BY <1>1, <1>4, FS_Injection
<1>6. \A i \in 1 .. n : \E a \in S : place[a] = i
    BY <1>5 DEF Surjection
<1> DEFINE s == [i \in 1 .. n |-> CHOOSE a \in S : place[a] = i]
<1>7. \A i \in 1 .. n : s[i] \in S /\ place[s[i]] = i
  <2> SUFFICES ASSUME NEW i \in 1 .. n
               PROVE  s[i] \in S /\ place[s[i]] = i
      OBVIOUS
  <2>1. \E a \in S : place[a] = i
      BY <1>6
  <2>2. s[i] = CHOOSE a \in S : place[a] = i
      OBVIOUS
  <2> HIDE DEF s, place
  <2> QED BY <2>1, <2>2, Zenon
<1>8. ASSUME NEW i \in 1 .. n, NEW j \in 1 .. n, i < j
      PROVE  <<s[i], s[j]>> \in R
  <2> HIDE DEF s
  <2>1. s[i] # s[j]
    <3> HIDE DEF place
    <3> QED BY <1>7, <1>8
  <2>2. place[s[i]] = Cardinality(before(s[i])) + 1 /\ place[s[j]] = Cardinality(before(s[j])) + 1
      BY <1>7
  <2>3. <<s[j], s[i]>> \notin R
    <3> HIDE DEF place, before
    <3> QED BY <1>1, <1>2, <1>3, <1>7, <1>8, <2>2, SMT
  <2> QED BY <1>7, <2>1, <2>3
<1>9. s \in [1 .. n -> S]
    BY <1>7
<1> QED BY <1>8, <1>9

(* Priority, then the line of those that wait, then the others by name:    *)
(* one order of all groups that take part.                                 *)
LEMMA ServiceIsOrdered ==
    ASSUME TypeOK, OneLine
    PROVE  /\ \A a, b, c \in Advertising :
                 ServedBefore(a, b) /\ ServedBefore(b, c) => ServedBefore(a, c)
           /\ \A a \in Advertising : ~ServedBefore(a, a)
           /\ \A a, b \in Advertising : a # b => ServedBefore(a, b) \/ ServedBefore(b, a)
<1> DEFINE A == Advertising
<1>1. /\ \A a \in A : Priority[a] \in Int /\ waiting[a] \in Nat /\ NameRank[a] \in Nat
      /\ \A a, b \in A : NameRank[a] = NameRank[b] => a = b
    BY GroupsAssumption, NamesDiffer DEF Advertising, TypeOK
<1>2. /\ \A a \in A : a \notin ahead[a]
      /\ \A a, b \in A : waiting[a] > 0 /\ waiting[b] > 0 /\ a # b
                         => a \in ahead[b] \/ b \in ahead[a]
      /\ \A a, b, c \in A : waiting[a] > 0 /\ waiting[b] > 0 /\ waiting[c] > 0
                            /\ a \in ahead[b] /\ b \in ahead[c] => a \in ahead[c]
    BY DEF OneLine, Advertising, Waiters
<1>3. ASSUME NEW a \in A, NEW b \in A, NEW c \in A, ServedBefore(a, b), ServedBefore(b, c)
      PROVE  ServedBefore(a, c)
  <2> HIDE DEF A
  <2> QED BY <1>1, <1>2, <1>3, SMT DEF ServedBefore
<1>4. ASSUME NEW a \in A
      PROVE  ~ServedBefore(a, a)
  <2> HIDE DEF A
  <2> QED BY <1>1, <1>2, SMT DEF ServedBefore
<1>5. ASSUME NEW a \in A, NEW b \in A, a # b
      PROVE  ServedBefore(a, b) \/ ServedBefore(b, a)
  <2> HIDE DEF A
  <2> QED BY <1>1, <1>2, <1>5, SMT DEF ServedBefore
<1> QED BY <1>3, <1>4, <1>5

(* So the order of service exists, and every group that takes part has one *)
(* place in it.                                                            *)
LEMMA OrderIsRight ==
    ASSUME TypeOK, OneLine
    PROVE  /\ Len(ServiceOrder) \in Nat
           /\ Len(ServiceOrder) = Cardinality(Advertising)
           /\ ServiceOrder \in [1 .. Len(ServiceOrder) -> Advertising]
           /\ \A i, j \in 1 .. Len(ServiceOrder) :
                 i < j => ServedBefore(ServiceOrder[i], ServiceOrder[j])
           /\ \A i, j \in 1 .. Len(ServiceOrder) : ServiceOrder[i] = ServiceOrder[j] => i = j
           /\ \A g \in Advertising : \E i \in 1 .. Len(ServiceOrder) : ServiceOrder[i] = g
<1> DEFINE A == Advertising
           n == Cardinality(A)
           R == {ab \in A \X A : ServedBefore(ab[1], ab[2])}
<1>1. IsFiniteSet(A) /\ n \in Nat
    BY GroupsAssumption, FS_Subset, FS_CardinalityType DEF Advertising
<1>2. \A a, b \in A : <<a, b>> \in R <=> ServedBefore(a, b)
    OBVIOUS
<1> HIDE DEF R, A
<1>3. /\ \A a, b, c \in A : <<a, b>> \in R /\ <<b, c>> \in R => <<a, c>> \in R
      /\ \A a \in A : <<a, a>> \notin R
      /\ \A a, b \in A : a # b => <<a, b>> \in R \/ <<b, a>> \in R
    BY <1>2, ServiceIsOrdered DEF A
<1>4. PICK t \in [1 .. n -> A] : \A i, j \in 1 .. n : i < j => <<t[i], t[j]>> \in R
    BY <1>1, <1>3, SortedExists
<1>5. \E t1 \in [1 .. n -> A] : \A i, j \in DOMAIN t1 : i < j => ServedBefore(t1[i], t1[j])
    BY <1>2, <1>4
<1>6. PICK s \in [1 .. n -> A] :
          s = ServiceOrder /\ \A i, j \in DOMAIN s : i < j => ServedBefore(s[i], s[j])
    BY <1>5, Zenon DEF ServiceOrder, A
<1>7. Len(s) = n
    BY <1>1, <1>6, LenProperties
<1>8. \A i, j \in 1 .. n : i < j => ServedBefore(s[i], s[j])
    BY <1>6
<1>9. \A i, j \in 1 .. n : s[i] = s[j] => i = j
  <2>1. \A a \in A : ~ServedBefore(a, a)
      BY ServiceIsOrdered DEF A
  <2> SUFFICES ASSUME NEW i \in 1 .. n, NEW j \in 1 .. n, i # j
               PROVE  s[i] # s[j]
      OBVIOUS
  <2>2. i < j \/ j < i
      BY <1>1, SMT
  <2>3. s[i] \in A /\ s[j] \in A
      OBVIOUS
  <2> QED BY <1>8, <2>1, <2>2, <2>3
<1>10. s \in Surjection(1 .. n, A)
  <2>1. s \in Injection(1 .. n, A)
      BY <1>9, Zenon DEF Injection, IsInjective
  <2>2. Cardinality(1 .. n) = n
    <3>1. Cardinality(1 .. n) = IF 1 > n THEN 0 ELSE n - 1 + 1
        BY <1>1, FS_Interval
    <3> QED BY <1>1, <3>1, SMT
  <2> QED BY <1>1, <2>1, <2>2, FS_Injection
<1>11. \A g \in A : \E i \in 1 .. n : s[i] = g
    BY <1>10 DEF Surjection
<1> QED BY <1>1, <1>6, <1>7, <1>8, <1>9, <1>11 DEF A

-----------------------------------------------------------------------------
(* The loops of planAdvertised, turn by turn.                              *)

LEMMA NoPlanTyped == NoPlan \in Plans
BY DEF NoPlan, Plans

(* Whoever takes a runner has one more in the plan.                        *)
LEMMA TakeTyped ==
    ASSUME NEW q \in Plans, NEW e \in Groups
    PROVE  /\ Take(q, e) \in Plans
           /\ ~Takes(q, e) => Take(q, e) = q
           /\ Takes(q, e) => /\ Take(q, e)[e] = q[e] + 1
                             /\ \A x \in Groups \ {e} : Take(q, e)[x] = q[x]
BY DEF Plans, Take

LEMMA TakeUpToLoop ==
    ASSUME NEW p \in Plans, NEW e \in Groups, NEW n \in Nat
    PROVE  \E f \in [0 .. n -> Plans] :
              /\ f[0] = p
              /\ \A k \in 1 .. n : f[k] = Take(f[k - 1], e)
              /\ f[n] = TakeUpTo(p, e, n)
<1> DEFINE step == [k \in 1 .. n |-> [q \in Plans |-> Take(q, e)]]
           Is(f) == f = [k \in 0 .. n |-> IF k = 0 THEN p ELSE Take(f[k - 1], e)]
<1>1. step \in [1 .. n -> [Plans -> Plans]]
    BY TakeTyped
<1>2. PICK f \in [0 .. n -> Plans] :
          f[0] = p /\ \A k \in 1 .. n : f[k] = step[k][f[k - 1]]
  <2> HIDE DEF step
  <2> QED BY <1>1, LoopExists
<1>3. \A k \in 1 .. n : k # 0 /\ k - 1 \in 0 .. n
    BY SMT
<1>4. \A k \in 1 .. n : f[k] = Take(f[k - 1], e)
    BY <1>2, <1>3
<1>5. Is(f)
  <2>1. \A k \in 0 .. n : k = 0 \/ k \in 1 .. n
      BY SMT
  <2>2. \A k \in 0 .. n : f[k] = IF k = 0 THEN p ELSE Take(f[k - 1], e)
      BY <1>2, <1>3, <1>4, <2>1, Zenon
  <2> QED BY <2>2
<1>6. PICK h : Is(h) /\ TakeUpTo(p, e, n) = h[n]
  <2>1. Is(CHOOSE h : Is(h))
    <3> HIDE DEF Is
    <3> QED BY <1>5, Zenon
  <2>2. TakeUpTo(p, e, n) = (CHOOSE h : Is(h))[n]
      BY Zenon DEF TakeUpTo
  <2> QED BY <2>1, <2>2, Zenon
<1>7. h[0] = p /\ \A k \in 1 .. n : h[k] = Take(h[k - 1], e)
  <2>1. \A k \in 0 .. n : h[k] = IF k = 0 THEN p ELSE Take(h[k - 1], e)
      BY <1>6, Zenon
  <2> QED BY <2>1, SMT
<1>8. \A k \in 0 .. n : h[k] \in Plans
  <2>1. \A k \in 1 .. n : h[k - 1] \in Plans => h[k] \in Plans
      BY <1>7, TakeTyped
  <2>2. h[0] \in Plans
      BY <1>7
  <2> HIDE DEF Is
  <2> QED BY <2>1, <2>2, LoopStays
<1>9. h \in [0 .. n -> Plans]
    BY <1>6, <1>8
<1> QED BY <1>6, <1>7, <1>9

LEMMA TakeUpToTyped ==
    ASSUME NEW p \in Plans, NEW e \in Groups, NEW n \in Nat
    PROVE  TakeUpTo(p, e, n) \in Plans
BY TakeUpToLoop

LEMMA ClaimTyped ==
    ASSUME TypeOK, NEW p \in Plans, NEW e \in Groups
    PROVE  Pending(e, p) \in Nat /\ Claim(p, e) \in Plans
<1>1. Pending(e, p) \in Nat
    BY SMT DEF Pending, Monus, TypeOK, Plans
<1> QED BY <1>1, TakeUpToTyped DEF Claim

LEMMA TakeIfTyped ==
    ASSUME NEW p \in Plans, NEW e \in Groups, NEW eligible
    PROVE  TakeIf(p, e, eligible) \in Plans
BY TakeTyped DEF TakeIf

(* The deferred demand, claimed by one group after the other.              *)
LEMMA ClaimsLoop ==
    ASSUME TypeOK, OneLine, NEW p \in Plans
    PROVE  \E f \in [0 .. Len(ServiceOrder) -> Plans] :
              /\ f[0] = p
              /\ \A k \in 1 .. Len(ServiceOrder) : f[k] = Claim(f[k - 1], ServiceOrder[k])
              /\ f[Len(ServiceOrder)] = Claims(p)
<1>0. Len(ServiceOrder) \in Nat /\ \A k \in 1 .. Len(ServiceOrder) : ServiceOrder[k] \in Groups
    BY OrderIsRight DEF Advertising
<1> DEFINE step == [k \in 1 .. Len(ServiceOrder) |-> [q \in Plans |-> Claim(q, ServiceOrder[k])]]
           Is(f) == f = [k \in 0 .. Len(ServiceOrder) |-> IF k = 0 THEN p ELSE Claim(f[k - 1], ServiceOrder[k])]
<1>1. step \in [1 .. Len(ServiceOrder) -> [Plans -> Plans]]
    BY <1>0, ClaimTyped
<1>2. PICK f \in [0 .. Len(ServiceOrder) -> Plans] :
          f[0] = p /\ \A k \in 1 .. Len(ServiceOrder) : f[k] = step[k][f[k - 1]]
  <2> HIDE DEF step
  <2>1. PICK n \in Nat : n = Len(ServiceOrder)
      BY <1>0
  <2>2. step \in [1 .. n -> [Plans -> Plans]]
      BY <1>1, <2>1
  <2>3. \E f \in [0 .. n -> Plans] :
            f[0] = p /\ \A k \in 1 .. n : f[k] = step[k][f[k - 1]]
      BY <2>2, LoopExists
  <2> QED BY <2>1, <2>3
<1>3. \A k \in 1 .. Len(ServiceOrder) : k # 0 /\ k - 1 \in 0 .. Len(ServiceOrder)
    BY <1>0, SMT
<1>4. \A k \in 1 .. Len(ServiceOrder) : f[k] = Claim(f[k - 1], ServiceOrder[k])
    BY <1>2, <1>3
<1>5. Is(f)
  <2>1. \A k \in 0 .. Len(ServiceOrder) : k = 0 \/ k \in 1 .. Len(ServiceOrder)
      BY <1>0, SMT
  <2>2. \A k \in 0 .. Len(ServiceOrder) : f[k] = IF k = 0 THEN p ELSE Claim(f[k - 1], ServiceOrder[k])
      BY <1>2, <1>3, <1>4, <2>1, Zenon
  <2> QED BY <2>2
<1>6. PICK h : Is(h) /\ h[Len(ServiceOrder)] = Claims(p)
  <2>1. Is(CHOOSE h : Is(h))
    <3> HIDE DEF Is
    <3> QED BY <1>5, Zenon
  <2>2. (CHOOSE h : Is(h))[Len(ServiceOrder)] = Claims(p)
      BY Zenon DEF Claims
  <2> QED BY <2>1, <2>2, Zenon
<1>7. h[0] = p /\ \A k \in 1 .. Len(ServiceOrder) : h[k] = Claim(h[k - 1], ServiceOrder[k])
  <2>1. \A k \in 0 .. Len(ServiceOrder) : h[k] = IF k = 0 THEN p ELSE Claim(h[k - 1], ServiceOrder[k])
      BY <1>6, Zenon
  <2> QED BY <1>0, <2>1, SMT
<1>8. \A k \in 0 .. Len(ServiceOrder) : h[k] \in Plans
  <2>1. \A k \in 1 .. Len(ServiceOrder) : h[k - 1] \in Plans => h[k] \in Plans
      BY <1>0, <1>7, ClaimTyped
  <2>2. h[0] \in Plans
      BY <1>7
  <2> HIDE DEF Is
  <2> QED BY <1>0, <2>1, <2>2, LoopStays
<1>9. h \in [0 .. Len(ServiceOrder) -> Plans]
    BY <1>6, <1>8
<1> QED BY <1>6, <1>7, <1>9

(* One round.                                                              *)
LEMMA RoundLoop ==
    ASSUME TypeOK, OneLine, NEW p \in Plans, NEW eligible
    PROVE  \E f \in [0 .. Len(ServiceOrder) -> Plans] :
              /\ f[0] = p
              /\ \A k \in 1 .. Len(ServiceOrder) : f[k] = TakeIf(f[k - 1], ServiceOrder[k], eligible)
              /\ f[Len(ServiceOrder)] = Round(p, eligible)
<1>0. Len(ServiceOrder) \in Nat /\ \A k \in 1 .. Len(ServiceOrder) : ServiceOrder[k] \in Groups
    BY OrderIsRight DEF Advertising
<1> DEFINE step == [k \in 1 .. Len(ServiceOrder) |-> [q \in Plans |-> TakeIf(q, ServiceOrder[k], eligible)]]
           Is(f) == f = [k \in 0 .. Len(ServiceOrder) |-> IF k = 0 THEN p ELSE TakeIf(f[k - 1], ServiceOrder[k], eligible)]
<1>1. step \in [1 .. Len(ServiceOrder) -> [Plans -> Plans]]
    BY <1>0, TakeIfTyped
<1>2. PICK f \in [0 .. Len(ServiceOrder) -> Plans] :
          f[0] = p /\ \A k \in 1 .. Len(ServiceOrder) : f[k] = step[k][f[k - 1]]
  <2> HIDE DEF step
  <2>1. PICK n \in Nat : n = Len(ServiceOrder)
      BY <1>0
  <2>2. step \in [1 .. n -> [Plans -> Plans]]
      BY <1>1, <2>1
  <2>3. \E f \in [0 .. n -> Plans] :
            f[0] = p /\ \A k \in 1 .. n : f[k] = step[k][f[k - 1]]
      BY <2>2, LoopExists
  <2> QED BY <2>1, <2>3
<1>3. \A k \in 1 .. Len(ServiceOrder) : k # 0 /\ k - 1 \in 0 .. Len(ServiceOrder)
    BY <1>0, SMT
<1>4. \A k \in 1 .. Len(ServiceOrder) : f[k] = TakeIf(f[k - 1], ServiceOrder[k], eligible)
    BY <1>2, <1>3
<1>5. Is(f)
  <2>1. \A k \in 0 .. Len(ServiceOrder) : k = 0 \/ k \in 1 .. Len(ServiceOrder)
      BY <1>0, SMT
  <2>2. \A k \in 0 .. Len(ServiceOrder) : f[k] = IF k = 0 THEN p ELSE TakeIf(f[k - 1], ServiceOrder[k], eligible)
      BY <1>2, <1>3, <1>4, <2>1, Zenon
  <2> QED BY <2>2
<1>6. PICK h : Is(h) /\ h[Len(ServiceOrder)] = Round(p, eligible)
  <2>1. Is(CHOOSE h : Is(h))
    <3> HIDE DEF Is
    <3> QED BY <1>5, Zenon
  <2>2. (CHOOSE h : Is(h))[Len(ServiceOrder)] = Round(p, eligible)
      BY Zenon DEF Round
  <2> QED BY <2>1, <2>2, Zenon
<1>7. h[0] = p /\ \A k \in 1 .. Len(ServiceOrder) : h[k] = TakeIf(h[k - 1], ServiceOrder[k], eligible)
  <2>1. \A k \in 0 .. Len(ServiceOrder) : h[k] = IF k = 0 THEN p ELSE TakeIf(h[k - 1], ServiceOrder[k], eligible)
      BY <1>6, Zenon
  <2> QED BY <1>0, <2>1, SMT
<1>8. \A k \in 0 .. Len(ServiceOrder) : h[k] \in Plans
  <2>1. \A k \in 1 .. Len(ServiceOrder) : h[k - 1] \in Plans => h[k] \in Plans
      BY <1>0, <1>7, TakeIfTyped
  <2>2. h[0] \in Plans
      BY <1>7
  <2> HIDE DEF Is
  <2> QED BY <1>0, <2>1, <2>2, LoopStays
<1>9. h \in [0 .. Len(ServiceOrder) -> Plans]
    BY <1>6, <1>8
<1> QED BY <1>6, <1>7, <1>9

LEMMA RoundTyped ==
    ASSUME TypeOK, OneLine, NEW p \in Plans, NEW eligible
    PROVE  Round(p, eligible) \in Plans
<1>1. Len(ServiceOrder) \in Nat
    BY OrderIsRight
<1>2. Len(ServiceOrder) \in 0 .. Len(ServiceOrder)
    BY <1>1, SMT
<1> QED BY <1>2, RoundLoop

(* Rounds, as many as there are runners at most.                           *)
DealsBy(f, p, eligible) ==
    /\ f[0] = p
    /\ \A k \in 1 .. Sum(MaxRunners) : f[k] = Round(f[k - 1], eligible)
    /\ Deal(p, eligible) = f[CHOOSE k \in 0 .. Sum(MaxRunners) : Round(f[k], eligible) = f[k]]

LEMMA DealLoop ==
    ASSUME TypeOK, OneLine, NEW p \in Plans, NEW eligible
    PROVE  \E f \in [0 .. Sum(MaxRunners) -> Plans] : DealsBy(f, p, eligible)
<1>0. Sum(MaxRunners) \in Nat
    BY GroupsAssumption, SumNat
<1> DEFINE step == [k \in 1 .. Sum(MaxRunners) |-> [q \in Plans |-> Round(q, eligible)]]
           Is(f) == f = [k \in 0 .. Sum(MaxRunners) |-> IF k = 0 THEN p ELSE Round(f[k - 1], eligible)]
<1>1. step \in [1 .. Sum(MaxRunners) -> [Plans -> Plans]]
    BY RoundTyped
<1>2. PICK f \in [0 .. Sum(MaxRunners) -> Plans] :
          f[0] = p /\ \A k \in 1 .. Sum(MaxRunners) : f[k] = step[k][f[k - 1]]
  <2> HIDE DEF step
  <2>1. PICK n \in Nat : n = Sum(MaxRunners)
      BY <1>0
  <2>2. step \in [1 .. n -> [Plans -> Plans]]
      BY <1>1, <2>1
  <2>3. \E f \in [0 .. n -> Plans] :
            f[0] = p /\ \A k \in 1 .. n : f[k] = step[k][f[k - 1]]
      BY <2>2, LoopExists
  <2> QED BY <2>1, <2>3
<1>3. \A k \in 1 .. Sum(MaxRunners) : k # 0 /\ k - 1 \in 0 .. Sum(MaxRunners)
    BY <1>0, SMT
<1>4. \A k \in 1 .. Sum(MaxRunners) : f[k] = Round(f[k - 1], eligible)
    BY <1>2, <1>3
<1>5. Is(f)
  <2>1. \A k \in 0 .. Sum(MaxRunners) : k = 0 \/ k \in 1 .. Sum(MaxRunners)
      BY <1>0, SMT
  <2>2. \A k \in 0 .. Sum(MaxRunners) : f[k] = IF k = 0 THEN p ELSE Round(f[k - 1], eligible)
      BY <1>2, <1>3, <1>4, <2>1, Zenon
  <2> QED BY <2>2
<1>6. PICK h : Is(h) /\ Deal(p, eligible) = h[CHOOSE k \in 0 .. Sum(MaxRunners) : Round(h[k], eligible) = h[k]]
  <2>1. Is(CHOOSE h : Is(h))
    <3> HIDE DEF Is
    <3> QED BY <1>5, Zenon
  <2>2. Deal(p, eligible) = (CHOOSE h : Is(h))[CHOOSE k \in 0 .. Sum(MaxRunners) : Round((CHOOSE h : Is(h))[k], eligible) = (CHOOSE h : Is(h))[k]]
      BY Zenon DEF Deal
  <2> QED BY <2>1, <2>2, Zenon
<1>7. h[0] = p /\ \A k \in 1 .. Sum(MaxRunners) : h[k] = Round(h[k - 1], eligible)
  <2>1. \A k \in 0 .. Sum(MaxRunners) : h[k] = IF k = 0 THEN p ELSE Round(h[k - 1], eligible)
      BY <1>6, Zenon
  <2> QED BY <1>0, <2>1, SMT
<1>8. \A k \in 0 .. Sum(MaxRunners) : h[k] \in Plans
  <2>1. \A k \in 1 .. Sum(MaxRunners) : h[k - 1] \in Plans => h[k] \in Plans
      BY <1>0, <1>7, RoundTyped
  <2>2. h[0] \in Plans
      BY <1>7
  <2> HIDE DEF Is
  <2> QED BY <1>0, <2>1, <2>2, LoopStays
<1>9. h \in [0 .. Sum(MaxRunners) -> Plans]
    BY <1>6, <1>8
<1> QED BY <1>6, <1>7, <1>9, Zenon DEF DealsBy

LEMMA DealResult ==
    ASSUME TypeOK, OneLine, NEW p \in Plans, NEW eligible
    PROVE  \E f \in [0 .. Sum(MaxRunners) -> Plans] :
              /\ f[0] = p
              /\ \A k \in 1 .. Sum(MaxRunners) : f[k] = Round(f[k - 1], eligible)
              /\ (\E k \in 0 .. Sum(MaxRunners) : Round(f[k], eligible) = f[k])
                 => \E k \in 0 .. Sum(MaxRunners) :
                        Round(f[k], eligible) = f[k] /\ Deal(p, eligible) = f[k]
<1>1. PICK f \in [0 .. Sum(MaxRunners) -> Plans] : DealsBy(f, p, eligible)
    BY DealLoop
<1> QED BY <1>1, Zenon DEF DealsBy

-----------------------------------------------------------------------------
(* A round that deals nothing comes before the rounds run out.             *)

(* A sum with larger values is larger.                                     *)
LEMMA SumMonotone ==
    ASSUME NEW S, IsFiniteSet(S), NEW f \in [S -> Nat], NEW g \in [S -> Nat],
           \A x \in S : f[x] <= g[x]
    PROVE  Sum(f) <= Sum(g)
<1>1. PICK h \in [S -> Nat] : h = [x \in S |-> g[x] - f[x]]
  <2>1. \A x \in S : g[x] - f[x] \in Nat
      BY SMT
  <2> QED BY <2>1
<1>2. g = [x \in S |-> f[x] + h[x]]
  <2>1. \A x \in S : g[x] = f[x] + h[x]
      BY <1>1, SMT
  <2> QED BY <2>1
<1>3. Sum([x \in S |-> f[x] + h[x]]) = Sum(f) + Sum(h)
    BY SumAdd
<1>4. Sum(f) \in Nat /\ Sum(h) \in Nat
    BY SumNat
<1> QED BY <1>2, <1>3, <1>4, SMT

(* Whoever takes a runner makes the plan larger by one.                    *)
LEMMA TakeGrows ==
    ASSUME NEW q \in Plans, NEW e \in Groups
    PROVE  /\ Sum(q) \in Nat
           /\ Takes(q, e) => Sum(Take(q, e)) = Sum(q) + 1
<1>1. q \in [Groups -> Nat] /\ Take(q, e) \in [Groups -> Nat]
    BY TakeTyped DEF Plans
<1>2. Sum(q) \in Nat /\ Sum(Take(q, e)) \in Nat
    BY <1>1, SumNat, GroupsAssumption
<1>3. ASSUME Takes(q, e)
      PROVE  Sum(Take(q, e)) = Sum(q) + 1
  <2>1. PICK r \in [Groups -> Nat] : r = Take(q, e)
      BY <1>1
  <2>2. r[e] = q[e] + 1 /\ \A x \in Groups \ {e} : q[x] = r[x]
      BY <1>3, <2>1, TakeTyped
  <2>3. Sum(r) = Sum(q) - q[e] + r[e]
      BY <1>1, <2>2, SumUpdate, GroupsAssumption
  <2>4. q[e] \in Nat
      BY <1>1
  <2> QED BY <1>2, <2>1, <2>2, <2>3, <2>4, SMT
<1> QED BY <1>2, <1>3

(* A set of plans that no take leaves is not left by a loop.               *)
LEMMA ClaimStays ==
    ASSUME TypeOK, NEW S \in SUBSET Plans, NEW e \in Groups,
           \A q \in S : Take(q, e) \in S, NEW p \in S
    PROVE  Claim(p, e) \in S
<1>1. PICK n \in Nat : n = Pending(e, p)
    BY ClaimTyped
<1>2. PICK f \in [0 .. n -> Plans] : /\ f[0] = p
                                     /\ \A k \in 1 .. n : f[k] = Take(f[k - 1], e)
                                     /\ f[n] = TakeUpTo(p, e, n)
    BY TakeUpToLoop
<1>3. \A k \in 1 .. n : f[k - 1] \in S => f[k] \in S
    BY <1>2
<1>4. f[n] \in S
    BY <1>2, <1>3, LoopStays
<1> QED BY <1>1, <1>2, <1>4 DEF Claim

LEMMA ClaimsStay ==
    ASSUME TypeOK, OneLine, NEW S \in SUBSET Plans,
           \A q \in S, e \in Advertising : Take(q, e) \in S, NEW p \in S
    PROVE  Claims(p) \in S
<1>1. PICK n \in Nat : n = Len(ServiceOrder) /\ \A k \in 1 .. n : ServiceOrder[k] \in Advertising
    BY OrderIsRight
<1>2. PICK f \in [0 .. n -> Plans] : /\ f[0] = p
                                     /\ \A k \in 1 .. n : f[k] = Claim(f[k - 1], ServiceOrder[k])
                                     /\ f[n] = Claims(p)
    BY <1>1, ClaimsLoop
<1>3. \A k \in 1 .. n : f[k - 1] \in S => f[k] \in S
    BY <1>1, <1>2, ClaimStays DEF Advertising
<1>4. f[n] \in S
    BY <1>2, <1>3, LoopStays
<1> QED BY <1>2, <1>4

LEMMA RoundStays ==
    ASSUME TypeOK, OneLine, NEW S \in SUBSET Plans,
           \A q \in S, e \in Advertising : Take(q, e) \in S, NEW p \in S, NEW eligible
    PROVE  Round(p, eligible) \in S
<1>1. PICK n \in Nat : n = Len(ServiceOrder) /\ \A k \in 1 .. n : ServiceOrder[k] \in Advertising
    BY OrderIsRight
<1>2. PICK f \in [0 .. n -> Plans] :
          /\ f[0] = p
          /\ \A k \in 1 .. n : f[k] = TakeIf(f[k - 1], ServiceOrder[k], eligible)
          /\ f[n] = Round(p, eligible)
    BY <1>1, RoundLoop
<1>3. \A k \in 1 .. n : f[k - 1] \in S => f[k] \in S
    BY <1>1, <1>2 DEF TakeIf
<1>4. f[n] \in S
    BY <1>2, <1>3, LoopStays
<1> QED BY <1>2, <1>4

(* A round deals nothing, or it deals runners.                             *)
LEMMA RoundGrows ==
    ASSUME TypeOK, OneLine, NEW p \in Plans, NEW eligible
    PROVE  Round(p, eligible) = p \/ Sum(Round(p, eligible)) >= Sum(p) + 1
<1> DEFINE S == {q \in Plans : q = p \/ Sum(q) >= Sum(p) + 1}
<1>1. ASSUME NEW q \in S, NEW e \in Advertising
      PROVE  Take(q, e) \in S
  <2>1. q \in Plans /\ e \in Groups
      BY DEF Advertising
  <2>2. Sum(p) \in Nat /\ Sum(q) \in Nat /\ Take(q, e) \in Plans
      BY <2>1, TakeGrows, TakeTyped
  <2>3. Take(q, e) = q \/ Sum(Take(q, e)) = Sum(q) + 1
      BY <2>1, TakeGrows, TakeTyped
  <2> QED BY <2>2, <2>3, SMT
<1>2. S \in SUBSET Plans /\ p \in S
    OBVIOUS
<1>3. Round(p, eligible) \in S
  <2> HIDE DEF S
  <2> QED BY <1>1, <1>2, RoundStays
<1> QED BY <1>3

(* No plan gives a group more than its maximum.                            *)
Small == {q \in Plans : \A g \in Groups : q[g] <= MaxRunners[g]}

LEMMA TakeStaysSmall ==
    ASSUME TypeOK, NEW q \in Small, NEW e \in Groups
    PROVE  Take(q, e) \in Small
<1>1. q \in Plans /\ Take(q, e) \in Plans
    BY TakeTyped DEF Small
<1>2. ASSUME NEW g \in Groups
      PROVE  Take(q, e)[g] <= MaxRunners[g]
  <2>1. /\ q[g] \in Nat /\ q[g] <= MaxRunners[g]
        /\ held[g] \in Nat /\ MaxRunners[g] \in Nat
      BY ConstantsTyped DEF Small, Plans, TypeOK
  <2>2. Take(q, e)[g] = q[g] \/ (g = e /\ Takes(q, e) /\ Take(q, e)[g] = q[g] + 1)
      BY <1>1, TakeTyped
  <2>3. Takes(q, g) => held[g] + q[g] < MaxRunners[g]
      BY DEF Takes, Room
  <2> QED BY <2>1, <2>2, <2>3, SMT
<1> QED BY <1>1, <1>2 DEF Small

LEMMA SmallSum ==
    ASSUME NEW q \in Small
    PROVE  Sum(q) \in Nat /\ Sum(q) <= Sum(MaxRunners)
<1>1. q \in [Groups -> Nat] /\ \A g \in Groups : q[g] <= MaxRunners[g]
    BY DEF Small, Plans
<1> QED BY <1>1, SumNat, SumMonotone, GroupsAssumption

(* The rounds of a deal, which all stay in S, and where they end.          *)
Rounds(f, p, eligible, S) ==
    /\ f \in [0 .. Sum(MaxRunners) -> Plans]
    /\ f[0] = p
    /\ \A k \in 1 .. Sum(MaxRunners) : f[k] = Round(f[k - 1], eligible)
    /\ \A k \in 0 .. Sum(MaxRunners) : f[k] \in S
    /\ \E k \in 0 .. Sum(MaxRunners) :
          Round(f[k], eligible) = f[k] /\ Deal(p, eligible) = f[k]

(* Dealing ends with a plan of which a round deals nothing, and never      *)
(* leaves a set of plans that no take leaves.                              *)
LEMMA DealReaches ==
    ASSUME TypeOK, OneLine, NEW S \in SUBSET Plans,
           \A q \in S, e \in Advertising : Take(q, e) \in S,
           NEW p \in S, p \in Small, NEW eligible
    PROVE  \E f : Rounds(f, p, eligible, S)
<1>1. PICK m \in Nat : m = Sum(MaxRunners)
    BY GroupsAssumption, SumNat
<1>2. PICK f \in [0 .. m -> Plans] :
          /\ f[0] = p
          /\ \A k \in 1 .. m : f[k] = Round(f[k - 1], eligible)
          /\ (\E k \in 0 .. m : Round(f[k], eligible) = f[k])
             => \E k \in 0 .. m : Round(f[k], eligible) = f[k] /\ Deal(p, eligible) = f[k]
  <2>1. p \in Plans
      OBVIOUS
  <2>2. \E f \in [0 .. Sum(MaxRunners) -> Plans] :
            /\ f[0] = p
            /\ \A k \in 1 .. Sum(MaxRunners) : f[k] = Round(f[k - 1], eligible)
            /\ (\E k \in 0 .. Sum(MaxRunners) : Round(f[k], eligible) = f[k])
               => \E k \in 0 .. Sum(MaxRunners) :
                      Round(f[k], eligible) = f[k] /\ Deal(p, eligible) = f[k]
      BY <2>1, DealResult, ZenonT(60)
  <2> QED BY <1>1, <2>2
<1>3. \A k \in 0 .. m : f[k] \in S
  <2>1. \A k \in 1 .. m : f[k - 1] \in S => f[k] \in S
      BY <1>2, RoundStays
  <2> QED BY <1>2, <2>1, LoopStays
<1>4. /\ \A q \in Small, e \in Advertising : Take(q, e) \in Small
      /\ Small \in SUBSET Plans
    BY TakeStaysSmall DEF Advertising, Small
<1>5. \A k \in 0 .. m : f[k] \in Small
  <2>1. \A k \in 1 .. m : f[k - 1] \in Small => f[k] \in Small
      BY <1>2, <1>4, RoundStays
  <2> QED BY <1>2, <2>1, LoopStays
<1>6. \E k \in 0 .. m : Round(f[k], eligible) = f[k]
  <2> SUFFICES ASSUME \A k \in 0 .. m : Round(f[k], eligible) # f[k]
               PROVE  FALSE
      OBVIOUS
  <2> DEFINE h == [k \in 0 .. m |-> <<k, f[k]>>]
             T == {t \in Nat \X Plans : Sum(t[2]) >= t[1]}
  <2>1. ASSUME NEW k \in 0 .. m
        PROVE  /\ Sum(f[k]) \in Nat
               /\ Sum(Round(f[k], eligible)) >= Sum(f[k]) + 1
    <3>1. f[k] \in Plans /\ Round(f[k], eligible) # f[k]
        OBVIOUS
    <3>2. Sum(f[k]) \in Nat
        BY <1>5, SmallSum
    <3> QED BY <3>1, <3>2, RoundGrows
  <2>2. h[0] \in T
    <3>1. 0 \in 0 .. m /\ Sum(f[0]) >= 0
        BY <2>1, SMT
    <3> QED BY <3>1
  <2>3. ASSUME NEW k \in 1 .. m, h[k - 1] \in T
        PROVE  h[k] \in T
    <3>1. k \in 0 .. m /\ k - 1 \in 0 .. m /\ k \in Nat
        BY SMT
    <3>2. Sum(f[k - 1]) >= k - 1
        BY <2>3, <3>1
    <3>3. f[k] = Round(f[k - 1], eligible)
        BY <1>2
    <3>4. Sum(f[k]) >= k
        BY <2>1, <3>1, <3>2, <3>3, SMT
    <3>5. f[k] \in Plans
        BY <3>1
    <3> QED BY <3>1, <3>4, <3>5
  <2>4. h[m] \in T /\ m \in 0 .. m
    <3> HIDE DEF h, T
    <3> QED BY <2>2, <2>3, LoopStays
  <2>5. Sum(f[m]) >= m
      BY <2>4
  <2>6. Round(f[m], eligible) \in Small
      BY <1>4, <1>5, <2>4, RoundStays
  <2>7. Sum(Round(f[m], eligible)) \in Nat /\ Sum(Round(f[m], eligible)) <= m
      BY <1>1, <2>6, SmallSum
  <2> QED BY <2>1, <2>4, <2>5, <2>7, SMT
<1>7. \E j \in 0 .. m : Round(f[j], eligible) = f[j] /\ Deal(p, eligible) = f[j]
    BY <1>2, <1>6
<1>8. Rounds(f, p, eligible, S)
    BY <1>1, <1>2, <1>3, <1>7 DEF Rounds
<1> QED BY <1>8

LEMMA DealStays ==
    ASSUME TypeOK, OneLine, NEW S \in SUBSET Plans,
           \A q \in S, e \in Advertising : Take(q, e) \in S,
           NEW p \in S, p \in Small, NEW eligible
    PROVE  /\ Deal(p, eligible) \in S
           /\ Round(Deal(p, eligible), eligible) = Deal(p, eligible)
<1>1. PICK f : Rounds(f, p, eligible, S)
    BY DealReaches
<1> QED BY <1>1 DEF Rounds

(* The loops of planAdvertised, one after the other.                       *)
ShareIs ==
    \A unsaturated, few \in SUBSET Groups, a, b, c \in Plans :
        /\ unsaturated = Groups \ saturated /\ few = saturated
        /\ a = Claims(NoPlan)
        /\ b = Round(a, unsaturated)
        /\ c = Deal(b, few)
        => Share = Deal(c, Groups)

LEMMA ShareIsAlways == ShareIs
<1> SUFFICES ASSUME NEW a \in Plans, NEW b \in Plans, NEW c \in Plans,
                    a = Claims(NoPlan),
                    b = Round(a, Groups \ saturated),
                    c = Deal(b, saturated)
             PROVE  Share = Deal(c, Groups)
    BY Zenon DEF ShareIs
<1> DEFINE ramp == [p \in Plans |-> Deal(Round(p, Groups \ saturated), saturated)]
           rest == [p \in Plans |-> Deal(p, Groups)]
<1>1. Share = rest[ramp[a]]
    BY Zenon DEF Share
<1>2. ramp[a] = c
    BY Zenon
<1>3. rest[c] = Deal(c, Groups)
    BY Zenon
<1> HIDE DEF ramp, rest
<1> QED BY <1>1, <1>2, <1>3

(* planAdvertised stays, up to its last loop, in any set of plans that no  *)
(* take leaves, and ends with one of which a round deals nothing.          *)
LEMMA ShareStays ==
    ASSUME TypeOK, OneLine, NEW S \in SUBSET Small,
           \A q \in S, e \in Advertising : Take(q, e) \in S
    PROVE  /\ Claims(NoPlan) \in S => Share \in S
           /\ NoPlan \in S => Claims(NoPlan) \in S
           /\ Claims(NoPlan) \in S => Round(Share, Groups) = Share
<1>1. S \in SUBSET Plans /\ \A q \in S : q \in Small
    BY DEF Small
<1>2. NoPlan \in S => Claims(NoPlan) \in S
    BY <1>1, ClaimsStay
<1>3. ASSUME Claims(NoPlan) \in S
      PROVE  Share \in S /\ Round(Share, Groups) = Share
  <2>1. PICK headroom \in S : headroom = Round(Claims(NoPlan), Groups \ saturated)
      BY <1>1, <1>3, RoundStays
  <2>2. PICK ramped \in S : ramped = Deal(headroom, saturated)
      BY <1>1, DealStays
  <2>3. Deal(ramped, Groups) \in S /\ Round(Deal(ramped, Groups), Groups) = Deal(ramped, Groups)
      BY <1>1, DealStays
  <2>4. Share = Deal(ramped, Groups)
    <3>1. Claims(NoPlan) \in Plans /\ headroom \in Plans /\ ramped \in Plans
        BY <1>1, <1>3
    <3>2. saturated \in SUBSET Groups /\ Groups \ saturated \in SUBSET Groups
        BY DEF TypeOK
    <3> QED BY <2>1, <2>2, <3>1, <3>2, ShareIsAlways, Zenon DEF ShareIs
  <2> QED BY <2>3, <2>4
<1> QED BY <1>2, <1>3

-----------------------------------------------------------------------------
(* What a plan takes of the host.  A plan beside what the groups hold is   *)
(* as if they held it (Beside), so that the lemmas about holdings apply.   *)

Beside(p) == [g \in Groups |-> held[g] + p[g]]

LEMMA BesideTyped ==
    ASSUME TypeOK, NEW p \in Plans
    PROVE  /\ Beside(p) \in [Groups -> Nat]
           /\ \A g \in Groups : Beside(p)[g] = held[g] + p[g]
           /\ \A g \in Groups : Missing(held, p, g) = Missing(Beside(p), NoPlan, g)
           /\ \A e \in Groups : UnmetFloors(e, held, p) = UnmetFloors(e, Beside(p), NoPlan)
<1>1. \A g \in Groups : held[g] \in Nat /\ p[g] \in Nat
    BY DEF TypeOK, Plans
<1>2. /\ Beside(p) \in [Groups -> Nat]
      /\ \A g \in Groups : Beside(p)[g] = held[g] + p[g]
    BY <1>1, SMT DEF Beside
<1>3. \A g \in Groups : Missing(held, p, g) = Missing(Beside(p), NoPlan, g)
  <2>1. \A g \in Groups : Beside(p)[g] + NoPlan[g] = held[g] + p[g]
      BY <1>1, <1>2, SMT DEF NoPlan
  <2> QED BY <2>1 DEF Missing
<1>4. \A e \in Groups : UnmetFloors(e, held, p) = UnmetFloors(e, Beside(p), NoPlan)
    BY <1>3 DEF UnmetFloors
<1> QED BY <1>2, <1>3, <1>4

LEMMA UsedByTyped ==
    ASSUME TypeOK, NEW p \in Plans, NEW d \in Dims
    PROVE  /\ Sum(InUse(p, d)) \in Nat
           /\ UsedBy(p)[d] = used[d] + Sum(InUse(p, d))
           /\ UsedBy(p)[d] \in Nat
<1>1. InUse(p, d) \in [Groups -> Nat]
    BY InUseTyped DEF Plans
<1>2. Sum(InUse(p, d)) \in Nat
    BY <1>1, SumNat, GroupsAssumption
<1>3. UsedBy(p)[d] = used[d] + Sum(InUse(p, d))
    BY DEF UsedBy, Plus
<1>4. used[d] \in Nat
    BY DEF TypeOK, Amount
<1> QED BY <1>2, <1>3, <1>4, SMT

(* One runner more takes one reserve more.                                 *)
LEMMA TakeUses ==
    ASSUME TypeOK, NEW q \in Plans, NEW e \in Groups, Takes(q, e), NEW d \in Dims
    PROVE  UsedBy(Take(q, e))[d] = UsedBy(q)[d] + Reserve[e][d]
<1>1. Take(q, e) = [q EXCEPT ![e] = @ + 1] /\ Take(q, e) \in Plans
    BY TakeTyped DEF Take
<1>2. Sum(InUse(Take(q, e), d)) = Sum(InUse(q, d)) + Reserve[e][d] * 1
  <2>1. q \in [Groups -> Nat] /\ 1 \in Nat
      BY SMT DEF Plans
  <2>2. Sum(InUse([q EXCEPT ![e] = @ + 1], d)) = Sum(InUse(q, d)) + Reserve[e][d] * 1
      BY <2>1, HoldMore
  <2> QED BY <1>1, <2>2
<1>3. Reserve[e][d] \in Nat
    BY ConstantsTyped
<1>4. Reserve[e][d] * 1 = Reserve[e][d]
    BY <1>3, SMT
<1>5. /\ UsedBy(q)[d] = used[d] + Sum(InUse(q, d))
      /\ UsedBy(Take(q, e))[d] = used[d] + Sum(InUse(Take(q, e), d))
      /\ Sum(InUse(q, d)) \in Nat /\ used[d] \in Nat
    BY <1>1, UsedByTyped DEF TypeOK, Amount
<1> QED BY <1>2, <1>3, <1>4, <1>5, SMT

(* What is planned, what is in use and the minimums still unmet beside it  *)
(* fit the host.                                                           *)
FitTogether(p) ==
    Fits(Total, UsedBy(p),
         [d \in Dims |-> Sum([g \in Groups |-> Reserve[g][d] * Missing(held, p, g)])])

LEMMA FitTogetherOwing ==
    ASSUME TypeOK, NEW p \in Plans
    PROVE  FitTogether(p) <=>
              \A d \in Dims : Total[d] > 0 =>
                  UsedBy(p)[d] + Sum(Owing(Beside(p), d)) <= Total[d]
<1>1. \A d \in Dims :
          [g \in Groups |-> Reserve[g][d] * Missing(held, p, g)] = Owing(Beside(p), d)
    BY BesideTyped DEF Owing
<1> QED BY <1>1 DEF FitTogether, Fits

(* A take leaves them fitting: below the minimum it turns what is owed into*)
(* what is planned, above it admission has looked at what is owed.         *)
LEMMA TakeKeepsFit ==
    ASSUME TypeOK, NEW q \in Plans, NEW e \in Groups, FitTogether(q)
    PROVE  FitTogether(Take(q, e))
<1>1. CASE ~Takes(q, e)
    BY <1>1, TakeTyped
<1>2. CASE Takes(q, e)
  <2>1. PICK r \in Plans : r = Take(q, e)
      BY TakeTyped
  <2>2. SUFFICES ASSUME NEW d \in Dims, Total[d] > 0
                 PROVE  UsedBy(r)[d] + Sum(Owing(Beside(r), d)) <= Total[d]
      BY <2>1, FitTogetherOwing
  <2>3. PICK b \in [Groups -> Nat], c \in [Groups -> Nat] : b = Beside(q) /\ c = Beside(r)
      BY BesideTyped
  <2>4. /\ r[e] = q[e] + 1
        /\ \A x \in Groups \ {e} : r[x] = q[x]
      BY <1>2, <2>1, TakeTyped
  <2>5. /\ b[e] = held[e] + q[e]
        /\ c[e] = b[e] + 1
        /\ \A x \in Groups \ {e} : b[x] = c[x]
    <3>1. \A x \in Groups : b[x] = held[x] + q[x] /\ c[x] = held[x] + r[x]
        BY <2>3, BesideTyped
    <3>2. held[e] \in Nat /\ q[e] \in Nat
        BY DEF TypeOK, Plans
    <3>3. c[e] = held[e] + (q[e] + 1)
        BY <2>4, <3>1
    <3>4. c[e] = b[e] + 1
        BY <3>1, <3>2, <3>3, SMT
    <3> QED BY <2>4, <3>1, <3>4
  <2> DEFINE R == Reserve[e][d]
             owing == Sum(Owing(b, d))
             owedThen == Sum(Owing(c, d))
             missing == Missing(b, NoPlan, e)
             missingThen == Missing(c, NoPlan, e)
  <2>6. /\ owedThen = owing - R * missing + R * missingThen
        /\ owing \in Nat /\ R * missing <= owing
      BY <2>5, OweUpdate
  <2>7. /\ missing \in Nat /\ missing = IF b[e] < MinRunners[e] THEN MinRunners[e] - b[e] ELSE 0
        /\ missingThen \in Nat
        /\ missingThen = IF c[e] < MinRunners[e] THEN MinRunners[e] - c[e] ELSE 0
      BY MissingTyped
  <2>8. UsedBy(r)[d] = UsedBy(q)[d] + R /\ UsedBy(q)[d] \in Nat
      BY <1>2, <2>1, TakeUses, UsedByTyped
  <2>9. R \in Nat /\ MinRunners[e] \in Nat /\ b[e] \in Nat /\ Total[d] \in Nat
      BY ConstantsTyped
  <2>10. UsedBy(q)[d] + owing <= Total[d]
      BY <2>2, <2>3, FitTogetherOwing
  <2>11. R * missing \in Nat /\ R * missingThen \in Nat
      BY <2>7, <2>9, Products
  <2>12. R * 0 = 0
      BY <2>9, Products
  <2>13. Takes(q, e) => /\ b[e] < MinRunners[e]
                           \/ UsedBy(q)[d] + (R + UnmetFloors(e, b, NoPlan)[d]) <= Total[d]
    <3>1. Takes(q, e) => \/ held[e] + q[e] < MinRunners[e]
                         \/ Fits(Total, UsedBy(q), Plus(Reserve[e], UnmetFloors(e, held, q)))
        BY DEF Takes, Admit
    <3>2. UnmetFloors(e, held, q) = UnmetFloors(e, b, NoPlan)
        BY <2>3, BesideTyped
    <3> QED BY <2>2, <2>5, <3>1, <3>2 DEF Fits, Plus
  <2>14. UnmetFloors(e, b, NoPlan)[d] = owing - R * missing
      BY UnmetIsOwedToOthers
  <2> HIDE DEF R, owing, owedThen, missing, missingThen
  <2>15. CASE b[e] < MinRunners[e]
    <3>1. missing > 0 /\ missingThen = missing - 1
        BY <2>5, <2>7, <2>9, <2>15, SMT
    <3>2. R * missing = R * missingThen + R
        BY <2>7, <2>9, <3>1, Products
    <3>3. UsedBy(r)[d] + owedThen <= Total[d]
        BY <2>6, <2>8, <2>9, <2>10, <2>11, <3>2, SMT
    <3> QED BY <2>3, <3>3 DEF owedThen
  <2>16. CASE ~(b[e] < MinRunners[e])
    <3>1. missing = 0 /\ missingThen = 0
        BY <2>5, <2>7, <2>9, <2>16, SMT
    <3>2. UsedBy(q)[d] + (R + owing) <= Total[d]
        BY <1>2, <2>6, <2>9, <2>12, <2>13, <2>14, <2>16, <3>1, SMT
    <3>3. UsedBy(r)[d] + owedThen <= Total[d]
        BY <2>6, <2>8, <2>9, <2>12, <3>1, <3>2, SMT
    <3> QED BY <2>3, <3>3 DEF owedThen
  <2> QED BY <2>15, <2>16
<1> QED BY <1>1, <1>2

LEMMA NoPlanUsesNothing ==
    ASSUME TypeOK
    PROVE  UsedBy(NoPlan) = used
<1>1. NoPlan \in Plans /\ \A g \in Groups : NoPlan[g] = 0
    BY NoPlanTyped DEF NoPlan
<1>2. ASSUME NEW d \in Dims
      PROVE  UsedBy(NoPlan)[d] = used[d]
  <2>1. InUse(NoPlan, d) \in [Groups -> Nat]
      BY <1>1, InUseTyped DEF Plans
  <2>2. \A g \in Groups : InUse(NoPlan, d)[g] = 0
    <3>1. \A g \in Groups : InUse(NoPlan, d)[g] = Reserve[g][d] * 0
        BY <1>1 DEF InUse
    <3> QED BY <3>1, ConstantsTyped, Products
  <2>3. Sum(InUse(NoPlan, d)) = 0
      BY <2>1, <2>2, SumOfZero
  <2>4. UsedBy(NoPlan)[d] = used[d] + 0 /\ used[d] \in Nat
      BY <1>1, <2>3, UsedByTyped DEF TypeOK, Amount
  <2> QED BY <2>4, SMT
<1>3. UsedBy(NoPlan) = [d \in Dims |-> UsedBy(NoPlan)[d]]
    BY DEF UsedBy, Plus
<1>4. used = [d \in Dims |-> used[d]]
    BY DEF TypeOK, Amount
<1> QED BY <1>2, <1>3, <1>4, Zenon

LEMMA NoPlanFits ==
    ASSUME TypeOK, FloorsProtected
    PROVE  FitTogether(NoPlan) /\ NoPlan \in Small
<1>1. NoPlan \in Plans /\ \A g \in Groups : NoPlan[g] = 0
    BY NoPlanTyped DEF NoPlan
<1>2. held \in [Groups -> Nat]
    BY DEF TypeOK
<1>3. Beside(NoPlan) = held
  <2>1. \A g \in Groups : held[g] + NoPlan[g] = held[g]
      BY <1>1, <1>2, SMT
  <2>2. Beside(NoPlan) = [g \in Groups |-> held[g]]
      BY <2>1, Zenon DEF Beside
  <2> QED BY <1>2, <2>2
<1>4. \A d \in Dims : UsedBy(NoPlan)[d] = used[d]
    BY NoPlanUsesNothing
<1>5. FitTogether(NoPlan)
    BY <1>1, <1>3, <1>4, FitTogetherOwing DEF FloorsProtected, Fits
<1>6. NoPlan \in Small
    BY <1>1, ConstantsTyped, SMT DEF Small
<1> QED BY <1>5, <1>6

(* What the loops have dealt out fits, and nobody takes more of it.        *)
LEMMA ShareFits ==
    ASSUME TypeOK, OneLine, FloorsProtected
    PROVE  Share \in Small /\ FitTogether(Share) /\ Round(Share, Groups) = Share
<1> DEFINE S == {q \in Small : FitTogether(q)}
<1>1. ASSUME NEW q \in S, NEW e \in Advertising
      PROVE  Take(q, e) \in S
  <2>1. q \in Small /\ q \in Plans /\ e \in Groups /\ FitTogether(q)
      BY DEF Advertising, Small
  <2> QED BY <2>1, TakeStaysSmall, TakeKeepsFit
<1>2. NoPlan \in S /\ S \in SUBSET Small
    BY NoPlanFits
<1>3. Share \in S /\ Round(Share, Groups) = Share
  <2> HIDE DEF S
  <2> QED BY <1>1, <1>2, ShareStays
<1> QED BY <1>3

(* What a group shows beyond its share.                                    *)
LEMMA PlanIsShareOrOne ==
    ASSUME Share \in Plans
    PROVE  /\ Plan \in Plans
           /\ Contended => Plan = Share
           /\ \A e \in Groups : \/ Plan[e] = Share[e]
                                \/ Share[e] = 0 /\ Plan[e] = 1
<1>1. CASE Contended
  <2>1. Plan = Share
      BY <1>1, Zenon DEF Plan
  <2> QED BY <2>1
<1>2. CASE ~Contended
  <2>1. Plan = [e \in Groups |->
                  IF e \in Advertising /\ Share[e] = 0 /\ held[e] < MaxRunners[e]
                        /\ Admit(e, held, NoPlan, used)
                  THEN 1 ELSE Share[e]]
      BY <1>2, Zenon DEF Plan
  <2>2. \A e \in Groups : \/ Plan[e] = Share[e]
                          \/ Share[e] = 0 /\ Plan[e] = 1
      BY <2>1
  <2>3. \A e \in Groups : Plan[e] \in Nat
      BY <2>2, SMT DEF Plans
  <2> QED BY <1>2, <2>1, <2>2, <2>3 DEF Plans
<1> QED BY <1>1, <1>2

(* In every state the runners shown fit the host beside what is in use and *)
(* every unmet minimum, leaving aside the one runner that groups without a *)
(* share may show while nobody waits (planAdvertised, advertise.go:57-63). *)
THEOREM SharesAreCountedOnce == Spec => []EachCountedOnce
<1>1. TypeOK /\ OneLine /\ FloorsProtected => EachCountedOnce
  <2> SUFFICES ASSUME TypeOK, OneLine, FloorsProtected
               PROVE  EachCountedOnce
      OBVIOUS
  <2>1. /\ Share \in Plans /\ Plan \in Plans
        /\ FitTogether(Share)
        /\ Contended => Plan = Share
        /\ \A e \in Groups : \/ Plan[e] = Share[e]
                             \/ Share[e] = 0 /\ Plan[e] = 1
      BY ShareFits, PlanIsShareOrOne DEF Small
  <2> DEFINE extra == {g \in Groups : Plan[g] # Share[g]}
             shared == [g \in Groups |-> IF g \in extra THEN 0 ELSE Plan[g]]
  <2>2. extra \in SUBSET {g \in Groups : Plan[g] = 1} /\ (Contended => extra = {})
      BY <2>1
  <2>3. shared = Share
    <3>1. \A g \in Groups : shared[g] = Share[g]
        BY <2>1
    <3> QED BY <2>1, <3>1 DEF Plans
  <2>4. Fits(Total, UsedBy(shared),
             [d \in Dims |->
                 Sum([g \in Groups |-> Reserve[g][d] * Missing(held, shared, g)])])
      BY <2>1, <2>3, Zenon DEF FitTogether
  <2>5. \E x \in SUBSET {g \in Groups : Plan[g] = 1} :
           LET s == [g \in Groups |-> IF g \in x THEN 0 ELSE Plan[g]]
           IN /\ Contended => x = {}
              /\ Fits(Total, UsedBy(s),
                      [d \in Dims |->
                          Sum([g \in Groups |-> Reserve[g][d] * Missing(held, s, g)])])
      BY <2>2, <2>4, Zenon
  <2>6. ASSUME NEW shown, shown = Plan
        PROVE  \E x \in SUBSET {g \in Groups : shown[g] = 1} :
                  LET s == [g \in Groups |-> IF g \in x THEN 0 ELSE shown[g]]
                  IN /\ Contended => x = {}
                     /\ Fits(Total, UsedBy(s),
                             [d \in Dims |->
                                 Sum([g \in Groups |-> Reserve[g][d] * Missing(held, s, g)])])
    <3> HIDE DEF extra, shared
    <3> QED BY <2>5, <2>6, Zenon
  <2>7. \A shown \in {Plan} : shown = Plan
      OBVIOUS
  <2> QED BY <2>6, <2>7, Zenon DEF EachCountedOnce
<1>2. Spec => [](TypeOK /\ OneLine) /\ []FloorsProtected
  <2>1. TypeOK /\ LineInv => TypeOK /\ OneLine
      BY DEF LineInv
  <2> QED BY <2>1, LineInvariance, FloorsStayProtected, PTL
<1> QED BY <1>1, <1>2, PTL

-----------------------------------------------------------------------------
(* Strict priority.                                                        *)

LEMMA PendingTyped ==
    ASSUME TypeOK, NEW p \in Plans, NEW g \in Groups
    PROVE  /\ Pending(g, p) = IF waiting[g] > p[g] THEN waiting[g] - p[g] ELSE 0
           /\ Pending(g, p) \in Nat
           /\ Pending(g, p) > 0 <=> waiting[g] > p[g]
           /\ waiting[g] \in Nat /\ p[g] \in Nat
BY SMT DEF Pending, Monus, TypeOK, Plans

(* What SharesByPriority says of what is shown, said of any plan.          *)
ByPriority(p) ==
    \A g, h \in Advertising :
        /\ g # h
        /\ Pending(h, p) > 0
        /\ Priority[h] >= Priority[g]
        => held[g] + p[g] <=
               Larger(held[g] + IF Priority[h] = Priority[g] /\ g \in ahead[h]
                                THEN waiting[g] ELSE 0,
                      MinRunners[g])

(* Whoever takes a runner past a pending group of its priority waited      *)
(* before it and waits for that runner, or is below its minimum.           *)
LEMMA TakerComesFirst ==
    ASSUME TypeOK, OneLine, NEW q \in Plans, NEW g \in Advertising, NEW h \in Advertising,
           g # h, Takes(q, g), Pending(h, q) > 0, Priority[h] >= Priority[g]
    PROVE  \/ held[g] + q[g] < MinRunners[g]
           \/ /\ Priority[h] = Priority[g] /\ g \in ahead[h]
              /\ q[g] + 1 <= waiting[g]
<1>1. g \in Groups /\ h \in Groups /\ ~IsZero(Reserve[h])
    BY DEF Advertising
<1>2. SUFFICES ASSUME ~(held[g] + q[g] < MinRunners[g])
               PROVE  /\ Priority[h] = Priority[g] /\ g \in ahead[h]
                      /\ q[g] + 1 <= waiting[g]
    OBVIOUS
<1>3. ~BlockedByPriority(g, q)
    BY <1>2 DEF Takes, Admit
<1>4. ~Precedes(h, g, q)
    BY <1>1, <1>3 DEF BlockedByPriority
<1>5. Priority[h] = Priority[g]
    BY <1>1, <1>4, GroupsAssumption, SMT DEF Precedes
<1>6. Pending(g, q) # 0 /\ h \notin ahead[g]
    BY <1>4, <1>5 DEF Precedes
<1>7. waiting[g] > q[g] /\ waiting[g] > 0 /\ waiting[h] > 0 /\ q[g] + 1 <= waiting[g]
    BY <1>1, <1>6, PendingTyped, SMT
<1>8. g \in Waiters /\ h \in Waiters
    BY <1>1, <1>7 DEF Waiters
<1> QED BY <1>5, <1>6, <1>7, <1>8 DEF OneLine

LEMMA TakeKeepsPriority ==
    ASSUME TypeOK, OneLine, NEW q \in Plans, NEW e \in Advertising, ByPriority(q)
    PROVE  ByPriority(Take(q, e))
<1>1. PICK r \in Plans : r = Take(q, e)
    BY TakeTyped DEF Advertising
<1>2. SUFFICES ASSUME NEW g \in Advertising, NEW h \in Advertising, g # h,
                      Pending(h, r) > 0, Priority[h] >= Priority[g]
               PROVE  held[g] + r[g] <=
                        Larger(held[g] + IF Priority[h] = Priority[g] /\ g \in ahead[h]
                                         THEN waiting[g] ELSE 0,
                               MinRunners[g])
    BY <1>1, Zenon DEF ByPriority
<1>3. g \in Groups /\ h \in Groups /\ e \in Groups
    BY DEF Advertising
<1>4. /\ \A x \in Groups : r[x] = q[x] \/ (x = e /\ Takes(q, e) /\ r[x] = q[x] + 1)
      /\ \A x \in Groups : q[x] \in Nat
    BY <1>1, <1>3, TakeTyped DEF Plans
<1>5. Pending(h, q) > 0
    BY <1>2, <1>3, <1>4, PendingTyped, SMT
<1>6. held[g] \in Nat /\ waiting[g] \in Nat /\ MinRunners[g] \in Nat
    BY <1>3, ConstantsTyped DEF TypeOK
<1>7. CASE r[g] = q[g]
    BY <1>2, <1>5, <1>7 DEF ByPriority
<1>8. CASE g = e /\ Takes(q, e) /\ r[g] = q[g] + 1
  <2>1. \/ held[g] + q[g] < MinRunners[g]
        \/ /\ Priority[h] = Priority[g] /\ g \in ahead[h]
           /\ q[g] + 1 <= waiting[g]
      BY <1>2, <1>5, <1>8, TakerComesFirst
  <2> QED BY <1>3, <1>4, <1>6, <1>8, <2>1, SMT DEF Larger
<1> QED BY <1>3, <1>4, <1>7, <1>8

(* While part of a group's deferred demand has no share, a group that comes*)
(* after it in strict priority gets one only up to its minimum             *)
(* (planAdvertised and precedes, admission.go:44-52).                      *)
THEOREM SharesRespectPriority == Spec => []SharesByPriority
<1>1. TypeOK /\ OneLine /\ FloorsProtected => SharesByPriority
  <2> SUFFICES ASSUME TypeOK, OneLine, FloorsProtected
               PROVE  SharesByPriority
      OBVIOUS
  <2> DEFINE S == {q \in Small : ByPriority(q)}
  <2>1. ASSUME NEW q \in S, NEW e \in Advertising
        PROVE  Take(q, e) \in S
    <3>1. q \in Small /\ q \in Plans /\ e \in Groups /\ ByPriority(q)
        BY DEF Advertising, Small
    <3> QED BY <3>1, TakeStaysSmall, TakeKeepsPriority
  <2>2. ByPriority(NoPlan)
    <3> SUFFICES ASSUME NEW g \in Advertising, NEW h \in Advertising
                 PROVE  held[g] + NoPlan[g] <=
                          Larger(held[g] + IF Priority[h] = Priority[g] /\ g \in ahead[h]
                                           THEN waiting[g] ELSE 0,
                                 MinRunners[g])
        BY DEF ByPriority
    <3>1. g \in Groups /\ NoPlan[g] = 0
        BY DEF Advertising, NoPlan
    <3>2. held[g] \in Nat /\ waiting[g] \in Nat /\ MinRunners[g] \in Nat
        BY <3>1, ConstantsTyped DEF TypeOK
    <3> QED BY <3>1, <3>2, SMT DEF Larger
  <2>3. NoPlan \in S /\ S \in SUBSET Small
      BY <2>2, NoPlanFits
  <2>4. Share \in S
    <3> HIDE DEF S
    <3> QED BY <2>1, <2>3, ShareStays
  <2>5. Share \in Plans /\ ByPriority(Share)
      BY <2>4 DEF Small
  <2>6. Plan \in Plans /\ (Contended => Plan = Share)
      BY <2>5, PlanIsShareOrOne
  <2>7. ByPriority(Plan)
    <3>1. CASE Contended
        BY <2>5, <2>6, <3>1
    <3>2. CASE ~Contended
      <4>1. \A h \in Advertising : ~(Pending(h, Plan) > 0)
          BY <2>6, <3>2, PendingTyped, SMT DEF Contended, Advertising
      <4> QED BY <4>1 DEF ByPriority
    <3> QED BY <3>1, <3>2
  <2> QED BY <2>7, Zenon DEF SharesByPriority, ByPriority
<1>2. Spec => [](TypeOK /\ OneLine) /\ []FloorsProtected
  <2>1. TypeOK /\ LineInv => TypeOK /\ OneLine
      BY DEF LineInv
  <2> QED BY <2>1, LineInvariance, FloorsStayProtected, PTL
<1> QED BY <1>1, <1>2, PTL

-----------------------------------------------------------------------------
(* Nothing is left over.                                                   *)

(* When a round deals nothing, nobody who took part in it could take one.  *)
LEMMA SettledRound ==
    ASSUME TypeOK, OneLine, NEW p \in Plans, Round(p, Groups) = p
    PROVE  \A g \in Advertising : ~Takes(p, g)
<1> SUFFICES ASSUME NEW g \in Advertising, Takes(p, g)
             PROVE  FALSE
    OBVIOUS
<1> DEFINE n == Len(ServiceOrder)
           Within == {q \in Plans : q = p \/ Sum(q) >= Sum(p) + 1}
           Beyond == {q \in Plans : Sum(q) >= Sum(p) + 1}
<1>1. /\ n \in Nat
      /\ \A k \in 1 .. n : ServiceOrder[k] \in Advertising /\ ServiceOrder[k] \in Groups
    BY OrderIsRight DEF Advertising
<1>2. PICK i \in 1 .. n : ServiceOrder[i] = g
    BY OrderIsRight
<1>3. PICK f \in [0 .. n -> Plans] :
          /\ f[0] = p
          /\ \A k \in 1 .. n : f[k] = TakeIf(f[k - 1], ServiceOrder[k], Groups)
          /\ f[n] = Round(p, Groups)
    BY RoundLoop
<1>4. \A k \in 1 .. n : f[k] = Take(f[k - 1], ServiceOrder[k])
    BY <1>1, <1>3 DEF TakeIf
<1>5. ASSUME NEW q \in Plans, NEW e \in Groups, Sum(q) >= Sum(p) + 1
      PROVE  Take(q, e) \in Plans /\ Sum(Take(q, e)) >= Sum(p) + 1
  <2>1. Sum(p) \in Nat /\ Sum(q) \in Nat
      BY <1>5, TakeGrows
  <2>2. Take(q, e) \in Plans /\ (Take(q, e) = q \/ Sum(Take(q, e)) = Sum(q) + 1)
      BY TakeTyped, TakeGrows
  <2> QED BY <1>5, <2>1, <2>2, SMT
<1>6. ASSUME NEW e \in Groups
      PROVE  Take(p, e) \in Plans /\ (Take(p, e) = p \/ Sum(Take(p, e)) >= Sum(p) + 1)
  <2>1. Sum(p) \in Nat
      BY TakeGrows
  <2>2. Take(p, e) \in Plans /\ (Take(p, e) = p \/ Sum(Take(p, e)) = Sum(p) + 1)
      BY TakeTyped, TakeGrows
  <2> QED BY <2>1, <2>2, SMT
<1>7. \A k \in 0 .. n : f[k] \in Within
  <2>1. ASSUME NEW k \in 1 .. n, f[k - 1] \in Within
        PROVE  f[k] \in Within
    <3>1. f[k - 1] \in Plans /\ (f[k - 1] = p \/ Sum(f[k - 1]) >= Sum(p) + 1)
        BY <2>1
    <3>2. f[k] \in Plans /\ (f[k] = p \/ Sum(f[k]) >= Sum(p) + 1)
        BY <1>1, <1>4, <1>5, <1>6, <3>1, Zenon
    <3> QED BY <3>2
  <2>2. f[0] \in Within
      BY <1>3
  <2> HIDE DEF Within
  <2> QED BY <1>1, <2>1, <2>2, LoopStays
<1>8. f[i] \in Beyond
  <2>1. i - 1 \in 0 .. n
      BY <1>1, SMT
  <2>2. f[i - 1] \in Plans /\ (f[i - 1] = p \/ Sum(f[i - 1]) >= Sum(p) + 1)
      BY <1>7, <2>1
  <2>3. g \in Groups /\ Take(p, g) \in Plans /\ Sum(p) \in Nat /\ Sum(Take(p, g)) = Sum(p) + 1
      BY TakeTyped, TakeGrows DEF Advertising
  <2>4. Sum(Take(p, g)) >= Sum(p) + 1
      BY <2>3, SMT
  <2>5. f[i] \in Plans /\ Sum(f[i]) >= Sum(p) + 1
      BY <1>2, <1>4, <1>5, <2>2, <2>3, <2>4, Zenon
  <2> QED BY <2>5
<1>9. \A k \in i + 1 .. n : f[k - 1] \in Beyond => f[k] \in Beyond
  <2>1. \A k \in i + 1 .. n : k \in 1 .. n
      BY <1>1, SMT
  <2>2. ASSUME NEW k \in i + 1 .. n, f[k - 1] \in Beyond
        PROVE  f[k] \in Beyond
    <3>1. f[k] \in Plans /\ Sum(f[k]) >= Sum(p) + 1
        BY <1>1, <1>4, <1>5, <2>1, <2>2
    <3> QED BY <3>1
  <2> QED BY <2>2
<1>10. f[n] \in Beyond
  <2>1. i \in 0 .. n /\ n \in i .. n
      BY <1>1, SMT
  <2> HIDE DEF Beyond
  <2>2. \A k \in i .. n : f[k] \in Beyond
      BY <1>1, <1>8, <1>9, <2>1, LoopKeeps
  <2> QED BY <2>1, <2>2
<1>11. Sum(p) >= Sum(p) + 1 /\ Sum(p) \in Nat
  <2>1. f[n] = p
      BY <1>3
  <2>2. p \in Beyond
      BY <1>10, <2>1
  <2>3. Sum(p) \in Nat
      BY TakeGrows, OrderIsRight, <1>2 DEF Advertising
  <2> QED BY <2>2, <2>3
<1> QED BY <1>11, SMT

(* A larger plan uses more, and what it leaves the other groups to be owed *)
(* is less by no more than that.                                           *)
LEMMA BudgetMonotone ==
    ASSUME TypeOK, NEW p \in Plans, NEW q \in Plans, \A x \in Groups : p[x] <= q[x],
           NEW e \in Groups, NEW d \in Dims
    PROVE  /\ UsedBy(p)[d] \in Nat /\ UsedBy(q)[d] \in Nat
           /\ UsedBy(p)[d] <= UsedBy(q)[d]
           /\ UnmetFloors(e, held, p)[d] \in Nat /\ UnmetFloors(e, held, q)[d] \in Nat
           /\ UsedBy(p)[d] + UnmetFloors(e, held, p)[d]
                 <= UsedBy(q)[d] + UnmetFloors(e, held, q)[d]
<1> DEFINE Short(r, x) == IF x = e THEN 0 ELSE Missing(held, r, x)
           Unmet(r) == [x \in Groups |-> IF x = e THEN 0 ELSE Reserve[x][d] * Missing(held, r, x)]
           Both(r) == [x \in Groups |-> InUse(r, d)[x] + Unmet(r)[x]]
<1>1. ASSUME NEW r \in Plans, NEW x \in Groups
      PROVE  /\ Reserve[x][d] \in Nat /\ r[x] \in Nat /\ held[x] \in Nat
             /\ MinRunners[x] \in Nat
             /\ Missing(held, r, x) \in Nat
             /\ Missing(held, r, x) = IF MinRunners[x] > held[x] + r[x]
                                      THEN MinRunners[x] - (held[x] + r[x]) ELSE 0
  <2>1. Reserve[x][d] \in Nat /\ r[x] \in Nat /\ held[x] \in Nat /\ MinRunners[x] \in Nat
      BY ConstantsTyped DEF TypeOK, Plans
  <2> QED BY <2>1, SMT DEF Missing, Monus
<1>2. ASSUME NEW r \in Plans
      PROVE  /\ InUse(r, d) \in [Groups -> Nat]
             /\ Unmet(r) \in [Groups -> Nat]
             /\ Both(r) \in [Groups -> Nat]
             /\ Sum(InUse(r, d)) \in Nat /\ Sum(Unmet(r)) \in Nat
             /\ Sum(Both(r)) = Sum(InUse(r, d)) + Sum(Unmet(r))
  <2>1. InUse(r, d) \in [Groups -> Nat]
      BY InUseTyped DEF Plans
  <2>2. Unmet(r) \in [Groups -> Nat]
    <3>1. \A x \in Groups : Reserve[x][d] * Missing(held, r, x) \in Nat
        BY <1>1, Products
    <3> QED BY <3>1
  <2> HIDE DEF Unmet
  <2>3. \A x \in Groups : InUse(r, d)[x] + Unmet(r)[x] \in Nat
      BY <2>1, <2>2, SMT
  <2> QED BY <2>1, <2>2, <2>3, SumNat, SumAdd, GroupsAssumption
<1>3. ASSUME NEW x \in Groups
      PROVE  /\ InUse(p, d)[x] <= InUse(q, d)[x]
             /\ Both(p)[x] <= Both(q)[x]
  <2>1. /\ InUse(p, d)[x] = Reserve[x][d] * p[x]
        /\ InUse(q, d)[x] = Reserve[x][d] * q[x]
      BY DEF InUse
  <2>2. PICK R \in Nat, a \in Nat, b \in Nat, m \in Nat, n \in Nat :
            /\ R = Reserve[x][d] /\ a = p[x] /\ b = q[x]
            /\ m = Short(p, x) /\ n = Short(q, x)
    <3>1. Short(p, x) \in Nat /\ Short(q, x) \in Nat
        BY <1>1
    <3> HIDE DEF Short
    <3> QED BY <1>1, <3>1
  <2>3. a <= b /\ a + m <= b + n
      BY <1>1, <2>2, SMT
  <2>4. R * a <= R * b /\ R * (a + m) <= R * (b + n)
    <3>1. b - a \in Nat /\ (b + n) - (a + m) \in Nat
          /\ b = a + (b - a) /\ b + n = (a + m) + ((b + n) - (a + m))
        BY <2>3, SMT
    <3>2. R * b = R * a + R * (b - a)
        BY <3>1, Products
    <3>3. a + m \in Nat
        BY SMT
    <3>4. R * (b + n) = R * (a + m) + R * ((b + n) - (a + m))
        BY <3>1, <3>3, Products
    <3>5. R * (b - a) \in Nat /\ R * ((b + n) - (a + m)) \in Nat
          /\ R * a \in Nat /\ R * (a + m) \in Nat
        BY <3>1, <3>3, Products
    <3> QED BY <3>2, <3>4, <3>5, SMT
  <2>5. R * (a + m) = R * a + R * m /\ R * (b + n) = R * b + R * n
      BY Products
  <2>6. Unmet(p)[x] = R * m /\ Unmet(q)[x] = R * n
    <3>1. R * 0 = 0
        BY Products
    <3> QED BY <2>2, <3>1
  <2>7. Both(p)[x] = R * a + R * m /\ Both(q)[x] = R * b + R * n
      BY <2>1, <2>2, <2>6
  <2> QED BY <2>1, <2>2, <2>4, <2>5, <2>7
<1>4. /\ Sum(InUse(p, d)) <= Sum(InUse(q, d))
      /\ Sum(Both(p)) <= Sum(Both(q))
  <2> HIDE DEF Both
  <2> QED BY <1>2, <1>3, SumMonotone, GroupsAssumption
<1>5. ASSUME NEW r \in Plans
      PROVE  /\ UsedBy(r)[d] = used[d] + Sum(InUse(r, d))
             /\ UnmetFloors(e, held, r)[d] = Sum(Unmet(r))
  <2>1. UsedBy(r)[d] = used[d] + Sum(InUse(r, d))
      BY UsedByTyped
  <2> QED BY <2>1 DEF UnmetFloors
<1>6. used[d] \in Nat
    BY DEF TypeOK, Amount
<1> HIDE DEF Unmet, Both
<1> QED BY <1>2, <1>4, <1>5, <1>6, SMT

(* So whoever could take a runner beside a larger plan could take it beside*)
(* a smaller one, unless it is held back by priority only beside that.     *)
LEMMA TakesMonotone ==
    ASSUME TypeOK, NEW p \in Plans, NEW q \in Plans, \A x \in Groups : p[x] <= q[x],
           NEW e \in Groups, Takes(q, e),
           BlockedByPriority(e, p) => BlockedByPriority(e, q)
    PROVE  Takes(p, e)
<1>1. /\ p[e] \in Nat /\ q[e] \in Nat /\ p[e] <= q[e] /\ held[e] \in Nat
      /\ MinRunners[e] \in Nat /\ MaxRunners[e] \in Nat
    BY ConstantsTyped DEF TypeOK, Plans
<1>2. Room(p, e) /\ (held[e] + q[e] < MinRunners[e] => held[e] + p[e] < MinRunners[e])
  <2>1. held[e] + q[e] < MaxRunners[e]
      BY DEF Takes, Room
  <2> QED BY <1>1, <2>1, SMT DEF Room
<1>3. \A d \in Dims : Reserve[e][d] \in Nat /\ Total[d] \in Nat
    BY ConstantsTyped
<1>4. Fits(Total, UsedBy(p), Reserve[e])
  <2> SUFFICES ASSUME NEW d \in Dims, Total[d] > 0
               PROVE  UsedBy(p)[d] + Reserve[e][d] <= Total[d]
      BY DEF Fits
  <2>1. UsedBy(q)[d] + Reserve[e][d] <= Total[d]
      BY DEF Takes, Admit, Fits
  <2>2. UsedBy(p)[d] \in Nat /\ UsedBy(q)[d] \in Nat /\ UsedBy(p)[d] <= UsedBy(q)[d]
      BY BudgetMonotone
  <2> QED BY <1>3, <2>1, <2>2, SMT
<1>5. ASSUME Fits(Total, UsedBy(q), Plus(Reserve[e], UnmetFloors(e, held, q)))
      PROVE  Fits(Total, UsedBy(p), Plus(Reserve[e], UnmetFloors(e, held, p)))
  <2> SUFFICES ASSUME NEW d \in Dims, Total[d] > 0
               PROVE  UsedBy(p)[d] + (Reserve[e][d] + UnmetFloors(e, held, p)[d]) <= Total[d]
      BY DEF Fits, Plus
  <2>1. UsedBy(q)[d] + (Reserve[e][d] + UnmetFloors(e, held, q)[d]) <= Total[d]
      BY <1>5 DEF Fits, Plus
  <2>2. /\ UsedBy(p)[d] \in Nat /\ UsedBy(q)[d] \in Nat
        /\ UnmetFloors(e, held, p)[d] \in Nat /\ UnmetFloors(e, held, q)[d] \in Nat
        /\ UsedBy(p)[d] + UnmetFloors(e, held, p)[d]
              <= UsedBy(q)[d] + UnmetFloors(e, held, q)[d]
      BY BudgetMonotone
  <2> QED BY <1>3, <2>1, <2>2, SMT
<1> QED BY <1>2, <1>4, <1>5 DEF Takes, Admit

(* Who waits takes part in the shares: a group without a listener has left *)
(* the line, and one that reserves nothing is never deferred.              *)
WaitersTakePart == Waiters \subseteq Advertising /\ NobodyWaitsUnheard

(* A group that asks waits afterwards only if it takes part.               *)
LEMMA AskKeepsPart ==
    ASSUME TypeOK, WaitersTakePart, NEW g \in Groups, NEW want \in Nat, Ask(g, want)
    PROVE  WaitersTakePart'
<1> USE DEF WaitersTakePart, NobodyWaitsUnheard, Waiters, Advertising
<1>1. CASE GrantUnbounded(g, want)
    BY <1>1 DEF GrantUnbounded, entries
<1>2. CASE GrantBounded(g, want)
  <2>1. /\ closed' = closed /\ registered' = registered /\ ~IsZero(Reserve[g])
        /\ \/ waiting' = waiting
           \/ /\ g \notin closed /\ g \in registered
              /\ \A x \in Groups \ {g} : waiting'[x] = waiting[x]
    <3>1. waiting \in [Groups -> Nat]
        BY DEF TypeOK
    <3> QED BY <1>2, <3>1 DEF GrantBounded, UpdateWaiting, Ask
  <2> QED BY <2>1
<1> QED BY <1>1, <1>2 DEF Ask

LEMMA StepTakesPart == TypeOK /\ WaitersTakePart /\ [Next]_vars => WaitersTakePart'
<1> SUFFICES ASSUME TypeOK, WaitersTakePart, [Next]_vars PROVE WaitersTakePart'
    OBVIOUS
<1> USE DEF WaitersTakePart, NobodyWaitsUnheard, Waiters, Advertising
<1>1. CASE UNCHANGED vars
    BY <1>1 DEF vars, entries
<1>2. ASSUME NEW g \in Groups,
             \/ Register(g) \/ NotifyCall(g)
             \/ \E loaded \in BOOLEAN : SetSaturated(g, loaded)
      PROVE  WaitersTakePart'
  <2>1. waiting' = waiting /\ closed' \subseteq closed /\ registered \subseteq registered'
      BY <1>2 DEF Register, NotifyCall, SetSaturated, entries
  <2> QED BY <2>1
<1>3. ASSUME NEW g \in Groups, Unregister(g)
      PROVE  WaitersTakePart'
  <2>1. /\ waiting' \in [Groups -> Nat] /\ waiting'[g] = 0
        /\ \A x \in Groups \ {g} : waiting'[x] = waiting[x]
        /\ closed' = closed \cup {g} /\ registered' = registered \ {g}
      BY <1>3, SMT DEF Unregister, TypeOK
  <2>2. ~(waiting'[g] > 0)
      BY <2>1, SMT
  <2> QED BY <2>1, <2>2
<1>4. ASSUME NEW g \in Groups, NEW want \in 0 .. MaxRunners[g],
             Acquire(g, want) \/ (g = Head(queue) /\ WakeCall(want))
      PROVE  WaitersTakePart'
  <2>1. want \in Nat /\ Ask(g, want)
      BY <1>4, ConstantsTyped, SMT DEF Acquire, WakeCall
  <2> QED BY <2>1, AskKeepsPart
<1>5. ASSUME \/ \E l \in Leases : Release(l) \/ Cancel(l) \/ Forget(l)
             \/ WakeTake \/ WakeAbort \/ NotifyTake \/ CtxDone
             \/ \E loop \in {"wake", "notify"} : LoopReturns(loop)
      PROVE  WaitersTakePart'
  <2>1. waiting' = waiting /\ closed' = closed /\ registered' = registered
      BY <1>5 DEF Release, Cancel, Forget, Finish, WakeTake, WakeAbort, NotifyTake,
                  CtxDone, LoopReturns, entries
  <2> QED BY <2>1
<1>6. ASSUME queue # <<>>, NEW want \in 0 .. MaxRunners[Head(queue)], WakeCall(want)
      PROVE  WaitersTakePart'
  <2>1. PICK g \in Groups : g = Head(queue)
      BY <1>6, SMT DEF TypeOK
  <2> QED BY <1>4, <1>6, <2>1
<1>7. CASE Next
    BY <1>2, <1>3, <1>4, <1>5, <1>6, <1>7 DEF Next
<1> QED BY <1>1, <1>7

(* What the theorems about the shares need of the allocator's state.       *)
SharesInv == TypeOK /\ OneLine /\ FloorsProtected /\ WaitersTakePart

(* It holds in every state, whatever the groups ask for and whenever their *)
(* listeners come and go (allocator.go:113-176).                           *)
THEOREM SharesInvariance == Spec => []SharesInv
<1>1. Init => WaitersTakePart
    BY SMT DEF Init, WaitersTakePart, NobodyWaitsUnheard, Waiters
<1>2. Spec => []TypeOK /\ []OneLine /\ []FloorsProtected
    BY TypeCorrect, WaitersFormALine, FloorsStayProtected
<1>3. Spec => []WaitersTakePart
    BY <1>1, <1>2, StepTakesPart, PTL DEF Spec
<1> QED BY <1>2, <1>3, PTL DEF SharesInv

(* Whoever waits can be woken, for any number of groups, although calls    *)
(* outlive the listeners they are made for (allocator.go:78-87, 107).      *)
THEOREM WaitersAreHeard == Spec => []NobodyWaitsUnheard
<1>1. SharesInv => NobodyWaitsUnheard
    BY DEF SharesInv, WaitersTakePart
<1> QED BY <1>1, SharesInvariance, PTL

LEMMA NobodyBlocksWhenNobodyWaits ==
    ASSUME TypeOK, WaitersTakePart, ~Contended, NEW p \in Plans, NEW e \in Groups
    PROVE  ~BlockedByPriority(e, p)
<1> SUFFICES ASSUME NEW h \in Groups, Pending(h, p) > 0
             PROVE  FALSE
    BY DEF BlockedByPriority
<1>1. waiting[h] > 0
    BY PendingTyped, SMT
<1>2. h \in Advertising
    BY <1>1 DEF WaitersTakePart, Waiters
<1> QED BY <1>1, <1>2 DEF Contended

(* No capacity is kept from GitHub: in every state no group with a listener*)
(* could be given one runner more on top of what all of them advertise     *)
(* (dealRounds, advertise.go:84-108).                                      *)
THEOREM SharesLeaveNothingOver == Spec => []NothingLeftOver
<1>1. SharesInv => NothingLeftOver
  <2> SUFFICES ASSUME SharesInv, NEW g \in Advertising, Takes(Plan, g)
               PROVE  FALSE
      BY Zenon DEF NothingLeftOver
  <2>1. TypeOK /\ OneLine /\ FloorsProtected /\ WaitersTakePart /\ g \in Groups
      BY DEF SharesInv, Advertising
  <2>2. Share \in Plans /\ Round(Share, Groups) = Share
      BY <2>1, ShareFits DEF Small
  <2>3. ~Takes(Share, g)
      BY <2>1, <2>2, SettledRound
  <2>4. /\ Plan \in Plans
        /\ Contended => Plan = Share
        /\ \A e \in Groups : Plan[e] = Share[e] \/ (Share[e] = 0 /\ Plan[e] = 1)
      BY <2>2, PlanIsShareOrOne
  <2>5. ~Contended
      BY <2>3, <2>4
  <2>6. \A e \in Groups : Share[e] <= Plan[e]
      BY <2>2, <2>4, SMT DEF Plans
  <2>7. ~BlockedByPriority(g, Share)
      BY <2>1, <2>2, <2>5, NobodyBlocksWhenNobodyWaits
  <2> QED BY <2>1, <2>2, <2>3, <2>4, <2>6, <2>7, TakesMonotone
<1> QED BY <1>1, SharesInvariance, PTL

-----------------------------------------------------------------------------
(* Deferred demand comes first.                                            *)

(* A group claims runners until it waits for none or is refused one, and   *)
(* nobody else's part of the plan changes.                                 *)
LEMMA ClaimUntilRefused ==
    ASSUME TypeOK, NEW p \in Plans, NEW e \in Groups, p[e] <= waiting[e]
    PROVE  /\ Claim(p, e) \in Plans
           /\ \A x \in Groups \ {e} : Claim(p, e)[x] = p[x]
           /\ p[e] <= Claim(p, e)[e] /\ Claim(p, e)[e] <= waiting[e]
           /\ Pending(e, Claim(p, e)) > 0 => ~Takes(Claim(p, e), e)
<1>1. PICK n \in Nat : n = Pending(e, p) /\ p[e] + n = waiting[e]
  <2>1. /\ Pending(e, p) \in Nat /\ waiting[e] \in Nat /\ p[e] \in Nat
        /\ Pending(e, p) = IF waiting[e] > p[e] THEN waiting[e] - p[e] ELSE 0
      BY PendingTyped
  <2>2. p[e] + Pending(e, p) = waiting[e]
      BY <2>1, SMT
  <2> QED BY <2>1, <2>2
<1>2. PICK f \in [0 .. n -> Plans] : /\ f[0] = p
                                     /\ \A k \in 1 .. n : f[k] = Take(f[k - 1], e)
                                     /\ f[n] = Claim(p, e)
  <2>1. PICK f \in [0 .. n -> Plans] : /\ f[0] = p
                                       /\ \A k \in 1 .. n : f[k] = Take(f[k - 1], e)
                                       /\ f[n] = TakeUpTo(p, e, n)
      BY TakeUpToLoop
  <2> QED BY <1>1, <2>1 DEF Claim
<1> DEFINE h == [k \in 0 .. n |-> <<k, f[k]>>]
           T == {t \in Nat \X Plans :
                    /\ \A x \in Groups \ {e} : t[2][x] = p[x]
                    /\ p[e] <= t[2][e] /\ t[2][e] <= p[e] + t[1]
                    /\ t[2][e] = p[e] + t[1] \/ ~Takes(t[2], e)}
<1>3. p[e] \in Nat
    BY DEF Plans
<1>4. h[0] \in T
  <2>1. 0 \in 0 .. n /\ p[e] <= p[e] /\ p[e] <= p[e] + 0 /\ p[e] = p[e] + 0
      BY <1>3, SMT
  <2>2. h[0] = <<0, p>>
      BY <1>2, <2>1
  <2> QED BY <2>1, <2>2
<1>5. ASSUME NEW k \in 1 .. n, h[k - 1] \in T
      PROVE  h[k] \in T
  <2>1. k \in 0 .. n /\ k - 1 \in 0 .. n /\ k \in Nat /\ k - 1 \in Nat
      BY SMT
  <2>2. PICK q \in Plans : q = f[k - 1]
      BY <2>1
  <2>3. /\ \A x \in Groups \ {e} : q[x] = p[x]
        /\ p[e] <= q[e] /\ q[e] <= p[e] + (k - 1)
        /\ q[e] = p[e] + (k - 1) \/ ~Takes(q, e)
      BY <1>5, <2>1, <2>2
  <2>4. PICK r \in Plans : r = Take(q, e) /\ r = f[k]
      BY <1>2, <2>1, <2>2
  <2>5. q[e] \in Nat
      BY DEF Plans
  <2>6. /\ \A x \in Groups \ {e} : r[x] = p[x]
        /\ p[e] <= r[e] /\ r[e] <= p[e] + k
        /\ r[e] = p[e] + k \/ ~Takes(r, e)
    <3>1. CASE Takes(q, e)
      <4>1. /\ Take(q, e)[e] = q[e] + 1
            /\ \A x \in Groups \ {e} : Take(q, e)[x] = q[x]
          BY <3>1, TakeTyped
      <4>2. r[e] = q[e] + 1 /\ \A x \in Groups \ {e} : r[x] = q[x]
          BY <2>4, <4>1, Zenon
      <4> QED BY <1>3, <2>1, <2>3, <2>5, <3>1, <4>2, SMT
    <3>2. CASE ~Takes(q, e)
      <4>1. r = q
          BY <2>4, <3>2, TakeTyped
      <4>2. q[e] <= p[e] + k
          BY <1>3, <2>1, <2>3, <2>5, SMT
      <4> QED BY <2>3, <3>2, <4>1, <4>2
    <3> QED BY <3>1, <3>2
  <2>7. h[k] = <<k, r>>
      BY <2>1, <2>4
  <2> QED BY <2>1, <2>6, <2>7
<1>6. h[n] \in T /\ n \in 0 .. n
  <2> HIDE DEF h, T
  <2> QED BY <1>4, <1>5, LoopStays
<1>7. PICK r \in Plans : r = Claim(p, e) /\ h[n] = <<n, r>>
    BY <1>2, <1>6
<1>8. /\ \A x \in Groups \ {e} : r[x] = p[x]
      /\ p[e] <= r[e] /\ r[e] <= p[e] + n
      /\ r[e] = p[e] + n \/ ~Takes(r, e)
    BY <1>6, <1>7
<1>9. Pending(e, r) > 0 => r[e] # p[e] + n
    BY <1>1, PendingTyped, SMT
<1> QED BY <1>1, <1>7, <1>8, <1>9

(* After the claims a group that still waits for runners was refused one   *)
(* beside what those served before it had claimed.                         *)
LEMMA ClaimsAreRefused ==
    ASSUME TypeOK, OneLine, NEW c, c = Claims(NoPlan)
    PROVE  /\ c \in Plans
           /\ \A x \in Groups : c[x] <= waiting[x]
           /\ \A g \in Advertising : \E q \in Plans :
                /\ \A x \in Groups : q[x] <= c[x]
                /\ q[g] = c[g]
                /\ \A h \in Advertising : ServedBefore(h, g) => q[h] = c[h]
                /\ Pending(g, c) > 0 => ~Takes(q, g)
<1>1. PICK n \in Nat : n = Len(ServiceOrder)
    BY OrderIsRight
<1>2. PICK s \in [1 .. n -> Advertising] :
          /\ s = ServiceOrder
          /\ \A i, j \in 1 .. n : i < j => ServedBefore(s[i], s[j])
          /\ \A i, j \in 1 .. n : s[i] = s[j] => i = j
          /\ \A g \in Advertising : \E i \in 1 .. n : s[i] = g
    BY <1>1, OrderIsRight
<1>3. PICK f \in [0 .. n -> Plans] : /\ f[0] = NoPlan
                                     /\ \A k \in 1 .. n : f[k] = Claim(f[k - 1], s[k])
                                     /\ f[n] = c
    BY <1>1, <1>2, ClaimsLoop, NoPlanTyped
<1>4. \A k \in 1 .. n : s[k] \in Groups
    BY <1>2 DEF Advertising
<1> DEFINE S == {q \in Plans : \A x \in Groups : q[x] <= waiting[x]}
<1>5. \A k \in 0 .. n : f[k] \in S
  <2>1. f[0] \in S
    <3>1. \A x \in Groups : NoPlan[x] <= waiting[x]
        BY SMT DEF NoPlan, TypeOK
    <3> QED BY <1>3, <3>1, NoPlanTyped
  <2>2. ASSUME NEW k \in 1 .. n, f[k - 1] \in S
        PROVE  f[k] \in S
    <3>1. /\ f[k] \in Plans
          /\ \A x \in Groups \ {s[k]} : f[k][x] = f[k - 1][x]
          /\ f[k][s[k]] <= waiting[s[k]]
        BY <1>3, <1>4, <2>2, ClaimUntilRefused
    <3> QED BY <2>2, <3>1
  <2> HIDE DEF S
  <2> QED BY <2>1, <2>2, LoopStays
<1>6. ASSUME NEW k \in 1 .. n
      PROVE  /\ f[k - 1] \in Plans /\ f[k] \in Plans
             /\ \A x \in Groups \ {s[k]} : f[k][x] = f[k - 1][x]
             /\ f[k - 1][s[k]] <= f[k][s[k]]
             /\ Pending(s[k], f[k]) > 0 => ~Takes(f[k], s[k])
  <2>1. k - 1 \in 0 .. n
      BY SMT
  <2>2. f[k - 1] \in S
      BY <1>5, <2>1
  <2>3. f[k - 1] \in Plans /\ f[k - 1][s[k]] <= waiting[s[k]]
      BY <1>4, <2>2
  <2> QED BY <1>3, <1>4, <2>3, ClaimUntilRefused
<1>7. ASSUME NEW i \in 1 .. n
      PROVE  \A k \in i .. n : /\ f[k][s[i]] = f[i][s[i]]
                               /\ \A x \in Groups : f[i][x] <= f[k][x]
  <2> DEFINE U == {q \in Plans : q[s[i]] = f[i][s[i]] /\ \A x \in Groups : f[i][x] <= q[x]}
  <2>1. i \in 0 .. n /\ \A k \in i + 1 .. n : k \in 1 .. n /\ k # i
      BY SMT
  <2>2. f[i] \in U
    <3>1. f[i] \in Plans
        BY <2>1
    <3>2. \A x \in Groups : f[i][x] <= f[i][x]
        BY <3>1, SMT DEF Plans
    <3> QED BY <3>1, <3>2
  <2>3. ASSUME NEW k \in i + 1 .. n, f[k - 1] \in U
        PROVE  f[k] \in U
    <3>1. PICK q \in Plans : /\ q = f[k - 1]
                             /\ q[s[i]] = f[i][s[i]] /\ \A x \in Groups : f[i][x] <= q[x]
        BY <2>3
    <3>2. k \in 1 .. n /\ k # i /\ s[k] # s[i]
        BY <1>2, <2>1
    <3>3. PICK r \in Plans : /\ r = f[k]
                             /\ \A x \in Groups \ {s[k]} : r[x] = q[x]
                             /\ q[s[k]] <= r[s[k]]
        BY <1>6, <3>1, <3>2
    <3>4. r[s[i]] = f[i][s[i]]
        BY <1>4, <3>1, <3>2, <3>3
    <3>5. \A x \in Groups : f[i][x] \in Nat /\ q[x] \in Nat /\ r[x] \in Nat
      <4>1. f[i] \in Plans
          BY <2>1
      <4> QED BY <4>1 DEF Plans
    <3>6. \A x \in Groups : f[i][x] <= r[x]
      <4>1. ASSUME NEW x \in Groups
            PROVE  f[i][x] <= r[x]
        <5>1. q[x] <= r[x]
            BY <3>3, <3>5, SMT
        <5> QED BY <3>1, <3>5, <5>1, SMT
      <4> QED BY <4>1
    <3> QED BY <3>3, <3>4, <3>6
  <2>4. \A k \in i .. n : f[k] \in U
    <3> HIDE DEF U
    <3> QED BY <2>1, <2>2, <2>3, LoopKeeps
  <2> QED BY <2>4
<1>8. n \in 0 .. n /\ c \in S
    BY <1>3, <1>5, SMT
<1>9. ASSUME NEW g \in Advertising
      PROVE  \E q \in Plans :
                /\ \A x \in Groups : q[x] <= c[x]
                /\ q[g] = c[g]
                /\ \A h \in Advertising : ServedBefore(h, g) => q[h] = c[h]
                /\ Pending(g, c) > 0 => ~Takes(q, g)
  <2>1. PICK i \in 1 .. n : s[i] = g
      BY <1>2
  <2>2. PICK q \in Plans : q = f[i]
      BY <1>6
  <2>3. n \in i .. n
      BY SMT
  <2>4. q[g] = c[g] /\ \A x \in Groups : q[x] <= c[x]
      BY <1>3, <1>7, <2>1, <2>2, <2>3
  <2>5. ASSUME NEW h \in Advertising, ServedBefore(h, g)
        PROVE  q[h] = c[h]
    <3>1. PICK j \in 1 .. n : s[j] = h
        BY <1>2
    <3>2. ~(i < j) /\ i # j
      <4>1. ~ServedBefore(g, h) /\ g # h
          BY <2>5, ServiceIsOrdered
      <4> QED BY <1>2, <2>1, <3>1, <4>1
    <3>3. i \in j .. n /\ n \in j .. n
        BY <3>2, SMT
    <3>4. f[i][h] = f[j][h] /\ f[n][h] = f[j][h]
        BY <1>7, <3>1, <3>3
    <3> QED BY <1>3, <2>2, <3>4
  <2>6. Pending(g, c) > 0 => ~Takes(q, g)
    <3>1. g \in Groups /\ c \in Plans
        BY <1>8 DEF Advertising
    <3>2. Pending(g, c) = Pending(g, q)
        BY <2>4 DEF Pending
    <3> QED BY <1>6, <2>1, <2>2, <3>2
  <2> QED BY <2>4, <2>5, <2>6
<1> QED BY <1>8, <1>9

(* It stays refused whatever the others are given beyond their claims: the *)
(* plan only grows, and who blocks it was served before it and still waits.*)
LEMMA RefusedStaysRefused ==
    ASSUME SharesInv, NEW c, c = Claims(NoPlan), NEW r \in Plans,
           \A x \in Groups : c[x] <= r[x],
           \A h \in Advertising : Pending(h, c) > 0 => r[h] = c[h],
           NEW g \in Advertising, Pending(g, c) > 0
    PROVE  ~Takes(r, g)
<1> SUFFICES ASSUME Takes(r, g) PROVE FALSE
    OBVIOUS
<1>1. TypeOK /\ OneLine /\ WaitersTakePart /\ g \in Groups /\ c \in Plans
    BY ClaimsAreRefused DEF SharesInv, Advertising
<1>2. PICK q \in Plans :
          /\ \A x \in Groups : q[x] <= c[x]
          /\ q[g] = c[g]
          /\ \A h \in Advertising : ServedBefore(h, g) => q[h] = c[h]
          /\ ~Takes(q, g)
    BY <1>1, ClaimsAreRefused
<1>3. \A x \in Groups : q[x] <= r[x]
  <2>1. \A x \in Groups : q[x] \in Nat /\ c[x] \in Nat /\ r[x] \in Nat
      BY <1>1 DEF Plans
  <2> QED BY <1>2, <2>1, SMT
<1>4. ASSUME BlockedByPriority(g, q)
      PROVE  BlockedByPriority(g, r)
  <2>1. PICK h \in Groups \ {g} :
            Pending(h, q) > 0 /\ ~IsZero(Reserve[h]) /\ Precedes(h, g, q)
      BY <1>4 DEF BlockedByPriority
  <2>2. waiting[h] > 0 /\ waiting[g] > 0
      BY <1>1, <2>1, PendingTyped, SMT
  <2>3. h \in Advertising
      BY <1>1, <2>2 DEF WaitersTakePart, Waiters
  <2>4. Pending(g, q) = Pending(g, c) /\ Pending(g, q) # 0
    <3>1. Pending(g, q) = Pending(g, c)
        BY <1>2 DEF Pending
    <3> QED BY <1>1, <3>1, PendingTyped, SMT
  <2>5. Priority[h] > Priority[g] \/ (Priority[h] = Priority[g] /\ h \in ahead[g])
      BY <2>1, <2>4 DEF Precedes
  <2>6. ServedBefore(h, g)
      BY <2>2, <2>5 DEF ServedBefore
  <2>7. q[h] = c[h]
      BY <1>2, <2>3, <2>6
  <2>8. Pending(h, c) > 0
      BY <2>1, <2>7 DEF Pending
  <2>9. Pending(h, r) > 0
      BY <2>3, <2>8 DEF Pending
  <2>10. Precedes(h, g, r)
      BY <2>5 DEF Precedes
  <2> QED BY <2>1, <2>9, <2>10 DEF BlockedByPriority
<1> QED BY <1>1, <1>2, <1>3, <1>4, TakesMonotone

(* Deferred demand has the first claim on what is free: leaving aside what *)
(* is shown beyond the demand the groups wait for, a group with demand left*)
(* over could not be given one runner more (advertise.go:24-31).           *)
THEOREM DeferredDemandIsFirst == Spec => []DeferredDemandFirst
<1>1. SharesInv => DeferredDemandFirst
  <2> DEFINE claimed(p) ==
                 [x \in Groups |-> IF p[x] < waiting[x] THEN p[x] ELSE waiting[x]]
  <2> SUFFICES ASSUME SharesInv, NEW g \in Advertising, Pending(g, Plan) > 0
               PROVE  ~Takes(claimed(Plan), g)
      BY Zenon DEF DeferredDemandFirst
  <2>1. TypeOK /\ OneLine /\ FloorsProtected /\ WaitersTakePart /\ g \in Groups
      BY DEF SharesInv, Advertising
  <2>2. PICK c : c = Claims(NoPlan)
      OBVIOUS
  <2>3. c \in Plans /\ \A x \in Groups : c[x] <= waiting[x]
      BY <2>1, <2>2, ClaimsAreRefused
  <2> DEFINE S == {r \in Small :
                     /\ \A x \in Groups : c[x] <= r[x]
                     /\ \A h \in Advertising : Pending(h, c) > 0 => r[h] = c[h]}
  <2>4. ASSUME NEW r \in S, NEW e \in Advertising
        PROVE  Take(r, e) \in S
    <3>1. /\ r \in Small /\ r \in Plans /\ e \in Groups
          /\ \A x \in Groups : c[x] <= r[x]
          /\ \A h \in Advertising : Pending(h, c) > 0 => r[h] = c[h]
        BY DEF Small, Advertising
    <3>2. PICK t \in Small : t = Take(r, e)
        BY <2>1, <3>1, TakeStaysSmall
    <3>3. /\ ~Takes(r, e) => t = r
          /\ Takes(r, e) => t[e] = r[e] + 1 /\ \A x \in Groups \ {e} : t[x] = r[x]
        BY <3>1, <3>2, TakeTyped
    <3>4. \A x \in Groups : c[x] \in Nat /\ r[x] \in Nat
        BY <2>3, <3>1 DEF Plans
    <3>5. \A x \in Groups : c[x] <= t[x]
        BY <3>1, <3>3, <3>4, SMT
    <3>6. Pending(e, c) > 0 => ~Takes(r, e)
        BY <2>2, <3>1, RefusedStaysRefused
    <3>7. \A h \in Advertising : Pending(h, c) > 0 => t[h] = c[h]
        BY <3>1, <3>3, <3>6 DEF Advertising
    <3> QED BY <3>2, <3>5, <3>7
  <2>5. Claims(NoPlan) \in Small
    <3>1. \A q \in Small, e \in Advertising : Take(q, e) \in Small
        BY <2>1, TakeStaysSmall DEF Advertising
    <3> QED BY <2>1, <3>1, NoPlanFits, ShareStays
  <2>6. c \in S
    <3>1. \A x \in Groups : c[x] <= c[x]
        BY <2>3, SMT DEF Plans
    <3> QED BY <2>2, <2>5, <3>1
  <2>7. Share \in S
    <3>1. S \in SUBSET Small
        OBVIOUS
    <3> HIDE DEF S
    <3> QED BY <2>1, <2>2, <2>4, <2>6, <3>1, ShareStays
  <2>8. /\ Share \in Plans
        /\ \A x \in Groups : c[x] <= Share[x]
        /\ \A h \in Advertising : Pending(h, c) > 0 => Share[h] = c[h]
      BY <2>7 DEF Small
  <2>9. Plan = Share
    <3>1. Plan \in Plans /\ (Contended => Plan = Share)
        BY <2>8, PlanIsShareOrOne
    <3>2. waiting[g] > 0
        BY <2>1, <3>1, PendingTyped, SMT
    <3> QED BY <3>1, <3>2 DEF Contended
  <2>10. \A x \in Groups : c[x] \in Nat /\ Share[x] \in Nat /\ waiting[x] \in Nat
      BY <2>1, <2>3, <2>8 DEF Plans, TypeOK
  <2>11. PICK r \in Plans : /\ r = claimed(Share)
                            /\ \A x \in Groups :
                                 r[x] = IF Share[x] < waiting[x] THEN Share[x] ELSE waiting[x]
    <3>1. claimed(Share) \in Plans
        BY <2>10 DEF Plans
    <3> QED BY <3>1
  <2>12. \A x \in Groups : c[x] <= r[x]
      BY <2>3, <2>8, <2>10, <2>11, SMT
  <2>13. ASSUME NEW h \in Advertising, Pending(h, c) > 0
         PROVE  r[h] = c[h]
    <3>1. h \in Groups /\ Share[h] = c[h] /\ waiting[h] > c[h]
        BY <2>1, <2>3, <2>8, <2>13, PendingTyped DEF Advertising
    <3> QED BY <2>10, <2>11, <3>1, SMT
  <2>14. Pending(g, c) > 0
    <3>1. waiting[g] > Share[g]
        BY <2>1, <2>8, <2>9, PendingTyped
    <3>2. waiting[g] > c[g]
        BY <2>1, <2>8, <2>10, <3>1, SMT
    <3> QED BY <2>1, <2>3, <3>2, PendingTyped
  <2>15. ~Takes(r, g)
      BY <2>2, <2>12, <2>13, <2>14, RefusedStaysRefused
  <2> QED BY <2>9, <2>11, <2>15
<1> QED BY <1>1, SharesInvariance, PTL

-----------------------------------------------------------------------------
(* The listeners and the notifications (Listeners).                        *)

(* Every step of the listeners and of notifyChanges is a step of the       *)
(* allocator or leaves it alone, so that all that is proved of the         *)
(* allocator and of the shares holds beside them (group.go:56-115,         *)
(* scaler_capacity.go).                                                    *)
THEOREM ListenersUseTheAllocator == AdvSpec => Spec
<1>1. AdvInit => Init
    BY DEF AdvInit
<1>2. ASSUME [AdvNext]_allVars
      PROVE  [Next]_vars
  <2>1. CASE UNCHANGED allVars
      BY <2>1 DEF allVars
  <2>2. ASSUME NEW g \in Groups,
               \/ Attach(g) \/ ListenerComputes(g) \/ ListenerSets(g) \/ NotifierComputes(g)
               \/ \E count \in 0 .. Sum(MaxRunners) : ReadAssigned(g, count)
        PROVE  UNCHANGED vars
      BY <2>2 DEF Attach, ReadAssigned, ListenerComputes, ListenerSets, NotifierComputes
  <2>3. ASSUME NEW g \in Groups, ListenerRegisters(g)
        PROVE  Next
      BY <2>3 DEF ListenerRegisters, Next
  <2>4. ASSUME NEW g \in Groups, ListenerEnds(g)
        PROVE  Next
      BY <2>4 DEF ListenerEnds, Next
  <2>5. ASSUME NEW g \in Groups, ReportAssigned(g)
        PROVE  Next
      BY <2>5 DEF ReportAssigned, Next
  <2>6. ASSUME NEW g \in Groups, NEW want \in 0 .. MaxRunners[g], Provision(g, want)
        PROVE  Next
      BY <2>6 DEF Provision, Next
  <2>7. ASSUME NEW g \in Groups, NotifierSkips(g) \/ NotifierSets(g)
        PROVE  Next
      BY <2>7 DEF NotifierSkips, NotifierSets, Next
  <2>8. ASSUME \/ \E l \in Leases : Release(l) \/ Cancel(l) \/ Forget(l)
               \/ WakeTake
               \/ queue # <<>> /\ \E want \in 0 .. MaxRunners[Head(queue)] : WakeCall(want)
               \/ NotifyTake
        PROVE  Next
      BY <2>8 DEF Next
  <2>9. CASE AdvNext
    <3>1. CASE \E g \in Groups :
                  \/ ListenerRegisters(g)
                  \/ Attach(g)
                  \/ ListenerEnds(g)
                  \/ \E count \in 0 .. Sum(MaxRunners) : ReadAssigned(g, count)
                  \/ ReportAssigned(g)
                  \/ \E want \in 0 .. MaxRunners[g] : Provision(g, want)
                  \/ ListenerComputes(g)
                  \/ ListenerSets(g)
                  \/ NotifierSkips(g)
                  \/ NotifierComputes(g)
                  \/ NotifierSets(g)
        BY <2>2, <2>3, <2>4, <2>5, <2>6, <2>7, <3>1
    <3> QED BY <2>8, <2>9, <3>1, Zenon DEF AdvNext
  <2> QED BY <1>2, <2>1, <2>9
<1> QED BY <1>1, <1>2, PTL DEF AdvSpec, Spec

(* What a group advertises is a number of runners.                         *)
LEMMA CapacityTyped ==
    ASSUME SharesInv, NEW g \in Groups
    PROVE  CapacityOf(g) \in Nat
<1>1. TypeOK /\ Plan \in Plans
  <2>1. TypeOK /\ Share \in Plans
      BY ShareFits DEF SharesInv, Small
  <2> QED BY <2>1, PlanIsShareOrOne
<1>2. held[g] \in Nat /\ Plan[g] \in Nat /\ MaxRunners[g] \in Nat
    BY <1>1, ConstantsTyped DEF TypeOK, Plans
<1> QED BY <1>2, SMT DEF CapacityOf

(* A value is computed, and set, as a number of runners of its group.      *)
LEMMA ComputingTyped ==
    ASSUME SharesInv, AdvTypeOK, NEW g \in Groups, NEW by \in {"listener", "notifier"},
           Compute(g, by)
    PROVE  computed' \in SUBSET [group : Groups, by : {"listener", "notifier"}, value : Nat]
<1>1. CapacityOf(g) \in Nat
    BY CapacityTyped
<1> QED BY <1>1 DEF Compute, AdvTypeOK

LEMMA SettingTyped ==
    ASSUME AdvTypeOK, NEW c \in computed, SetMaxRunners(c)
    PROVE  /\ advertised' \in [Groups -> Nat]
           /\ computed' \in SUBSET [group : Groups, by : {"listener", "notifier"}, value : Nat]
<1>1. c.group \in Groups /\ c.value \in Nat
    BY DEF AdvTypeOK
<1> QED BY <1>1 DEF SetMaxRunners, AdvTypeOK

LEMMA StepAdvTyped == SharesInv /\ AdvTypeOK /\ [AdvNext]_allVars => AdvTypeOK'
<1> SUFFICES ASSUME SharesInv, AdvTypeOK, [AdvNext]_allVars PROVE AdvTypeOK'
    OBVIOUS
<1>1. CASE UNCHANGED advVars
    BY <1>1 DEF advVars, AdvTypeOK
<1>2. ASSUME NEW g \in Groups,
             \/ ListenerRegisters(g) \/ ListenerEnds(g) \/ ReportAssigned(g)
             \/ \E count \in 0 .. Sum(MaxRunners) : ReadAssigned(g, count)
             \/ \E want \in 0 .. MaxRunners[g] : Provision(g, want)
      PROVE  AdvTypeOK'
  <2>1. /\ UNCHANGED <<listening, advertised, computed>>
        /\ \E s \in Stages : stage' = [stage EXCEPT ![g] = s]
      BY <1>2 DEF ListenerRegisters, ListenerEnds, ReadAssigned, ReportAssigned, Provision, Moves,
                  Stages
  <2> QED BY <2>1 DEF AdvTypeOK
<1>3. ASSUME NEW g \in Groups, Attach(g)
      PROVE  AdvTypeOK'
    BY <1>3 DEF Attach, Moves, Stages, AdvTypeOK
<1>4. ASSUME NEW g \in Groups, ListenerComputes(g) \/ NotifierComputes(g)
      PROVE  AdvTypeOK'
    BY <1>4, ComputingTyped DEF ListenerComputes, NotifierComputes, AdvTypeOK
<1>5. ASSUME NEW g \in Groups, ListenerSets(g)
      PROVE  AdvTypeOK'
  <2>1. /\ listening' = listening
        /\ stage' = [stage EXCEPT ![g] = "poll"]
        /\ \E c \in computed : SetMaxRunners(c)
      BY <1>5 DEF ListenerSets, Moves
  <2> QED BY <2>1, SettingTyped DEF AdvTypeOK, Stages
<1>6. ASSUME NEW g \in Groups, NotifierSkips(g) \/ NotifierSets(g)
      PROVE  AdvTypeOK'
  <2>1. CASE NotifierSkips(g)
      BY <1>1, <2>1 DEF NotifierSkips
  <2>2. CASE NotifierSets(g)
      BY <2>2, SettingTyped DEF NotifierSets, AdvTypeOK
  <2> QED BY <1>6, <2>1, <2>2
<1>7. CASE AdvNext
  <2>1. CASE \E g \in Groups :
                \/ ListenerRegisters(g)
                \/ Attach(g)
                \/ ListenerEnds(g)
                \/ \E count \in 0 .. Sum(MaxRunners) : ReadAssigned(g, count)
                \/ ReportAssigned(g)
                \/ \E want \in 0 .. MaxRunners[g] : Provision(g, want)
                \/ ListenerComputes(g)
                \/ ListenerSets(g)
                \/ NotifierSkips(g)
                \/ NotifierComputes(g)
                \/ NotifierSets(g)
      BY <1>2, <1>3, <1>4, <1>5, <1>6, <2>1
  <2> QED BY <1>1, <1>7, <2>1, Zenon DEF AdvNext
<1> QED BY <1>1, <1>7 DEF allVars

(* What a scaler advertises, and what it has computed and not set yet, is a*)
(* number of runners (scaler_capacity.go:66-75).                           *)
THEOREM ListenersTyped == AdvSpec => []AdvTypeOK
<1>1. AdvInit => AdvTypeOK
    BY SMT DEF AdvInit, AdvTypeOK, Stages
<1>2. AdvSpec => []SharesInv
    BY ListenersUseTheAllocator, SharesInvariance, PTL
<1> QED BY <1>1, <1>2, StepAdvTyped, PTL DEF AdvSpec

-----------------------------------------------------------------------------
(* What the groups show stays right until a change is announced.           *)

(* Nobody who waits could be served: the allocator has nothing to give.    *)
NobodyServed == \A g \in Waiters : ~Admit(g, held, NoPlan, used)

Settled == ~changeCh /\ NobodyServed

(* Who advertises, for whom a value is on its way, and who is still going  *)
(* to be told: a value is set before the next one for its group is         *)
(* computed (advertiseMu), by the listener between two polls and by the    *)
(* notifier for a group of its list.                                       *)
ListenerInv ==
    /\ \A g \in Groups : stage[g] # "stopped" => g \in registered
    /\ \A g \in Groups : stage[g] \notin {"stopped", "registered"} => g \in listening
    /\ \A c, e \in computed : c.group = e.group => c = e
    /\ \A c \in computed : c.by = "notifier" => c.group \in notifying \cap listening
    /\ \A c \in computed : c.by = "listener" => stage[c.group] \in {"attached", "reconciled"}

(* While no change is announced, every value shown or about to be set is   *)
(* the right one, or the notifier has not come to its group yet.           *)
FreshInv ==
    Settled =>
        /\ \A c \in computed : \/ c.value = CapacityOf(c.group)
                               \/ c.by = "listener" /\ c.group \in notifying
        /\ \A g \in Polling : UpToDate(g) \/ g \in notifying

(* A step that nobody needs to be told of: what is in use, who takes part, *)
(* who waits and in which line stay what they are.  A group that waits may *)
(* wait for more or for less, and one without reserve may hold more.       *)
Silent ==
    /\ used' = used /\ closed' = closed /\ saturated' = saturated
    /\ \A g \in Groups : ~IsZero(Reserve[g]) => held'[g] = held[g]
    /\ \A g \in Groups : (waiting'[g] > 0) <=> (waiting[g] > 0)
    /\ \A g \in Waiters : ahead'[g] = ahead[g]

(* There is only one order of a set.                                       *)
Strict(S, R) ==
    /\ \A a, b, c \in S : <<a, b>> \in R /\ <<b, c>> \in R => <<a, c>> \in R
    /\ \A a \in S : <<a, a>> \notin R

Sorted(s, n, S, R) ==
    /\ s \in [1 .. n -> S]
    /\ \A i, j \in 1 .. n : i < j => <<s[i], s[j]>> \in R
    /\ \A a \in S : \E i \in 1 .. n : s[i] = a

LEMMA SameValues ==
    ASSUME NEW S, NEW T, NEW f \in [S -> T], NEW g \in [S -> T], \A x \in S : f[x] = g[x]
    PROVE  f = g
OBVIOUS

LEMMA SortedUnique ==
    ASSUME NEW S, NEW R, Strict(S, R), NEW n \in Nat,
           NEW s, Sorted(s, n, S, R), NEW t, Sorted(t, n, S, R)
    PROVE  s = t
<1> USE DEF Strict, Sorted
<1> SUFFICES ASSUME s # t PROVE FALSE
    OBVIOUS
<1> DEFINE Bad == {i \in 1 .. n : s[i] # t[i]}
<1>1. Bad \subseteq Nat /\ Bad # {}
  <2>1. Bad \subseteq Nat
      BY SMT
  <2>3. Bad # {}
    <3> SUFFICES ASSUME \A i \in 1 .. n : s[i] = t[i]
                 PROVE  s = t
        OBVIOUS
    <3> QED BY SameValues
  <2> QED BY <2>1, <2>3
<1>2. PICK i \in Bad : \A k \in Bad : i <= k
    BY <1>1, FirstOfNaturals
<1>3. i \in 1 .. n /\ s[i] # t[i] /\ s[i] \in S /\ t[i] \in S
    BY <1>2
<1>4. \A k \in 1 .. n : k < i => s[k] = t[k]
  <2> SUFFICES ASSUME NEW k \in 1 .. n, k < i, s[k] # t[k]
               PROVE  FALSE
      OBVIOUS
  <2>1. i <= k
      BY <1>2
  <2> QED BY <1>3, <2>1, SMT
<1>5. PICK j \in 1 .. n : t[j] = s[i]
    BY <1>3
<1>6. PICK m \in 1 .. n : s[m] = t[i]
    BY <1>3
<1>7. i < j
  <2>1. j # i
      BY <1>3, <1>5
  <2>2. ~(j < i)
    <3> SUFFICES ASSUME j < i PROVE FALSE
        OBVIOUS
    <3>1. s[j] = s[i]
        BY <1>4, <1>5
    <3>2. <<s[j], s[i]>> \in R
        BY <1>3
    <3> QED BY <1>3, <3>1, <3>2
  <2> QED BY <1>3, <2>1, <2>2, SMT
<1>8. i < m
  <2>1. m # i
      BY <1>3, <1>6
  <2>2. ~(m < i)
    <3> SUFFICES ASSUME m < i PROVE FALSE
        OBVIOUS
    <3>1. t[m] = t[i]
        BY <1>4, <1>6
    <3>2. <<t[m], t[i]>> \in R
        BY <1>3
    <3> QED BY <1>3, <3>1, <3>2
  <2> QED BY <1>3, <2>1, <2>2, SMT
<1>9. <<t[i], s[i]>> \in R
    BY <1>3, <1>5, <1>7
<1>10. <<s[i], t[i]>> \in R
    BY <1>3, <1>6, <1>8
<1> QED BY <1>3, <1>9, <1>10

LEMMA PartAlike ==
    ASSUME SharesInv, SharesInv', Silent
    PROVE  /\ Waiters' = Waiters /\ Advertising' = Advertising
           /\ (Contended' <=> Contended)
           /\ \A a, b \in Advertising : ServedBefore(a, b)' <=> ServedBefore(a, b)
<1>1. Waiters' = Waiters
    BY DEF Silent, Waiters
<1>2. Advertising' = Advertising
    BY DEF Silent, Advertising
<1>3. \A g \in Advertising : /\ (waiting'[g] > 0) <=> (waiting[g] > 0)
                             /\ waiting'[g] \in Nat /\ waiting[g] \in Nat
                             /\ waiting[g] > 0 => ahead'[g] = ahead[g]
    BY DEF Silent, Advertising, Waiters, SharesInv, TypeOK
<1>4. Contended' <=> Contended
    BY <1>2, <1>3 DEF Contended
<1>5. \A g \in Advertising : (waiting'[g] = 0) <=> (waiting[g] = 0)
    BY <1>3, SMT
<1>6. \A a, b \in Advertising : ServedBefore(a, b)' <=> ServedBefore(a, b)
    BY <1>3, <1>5 DEF ServedBefore
<1> QED BY <1>1, <1>2, <1>4, <1>6

OrderIs ==
    /\ Len(ServiceOrder) \in Nat
    /\ Len(ServiceOrder) = Cardinality(Advertising)
    /\ ServiceOrder \in [1 .. Len(ServiceOrder) -> Advertising]
    /\ \A i, j \in 1 .. Len(ServiceOrder) :
          i < j => ServedBefore(ServiceOrder[i], ServiceOrder[j])
    /\ \A g \in Advertising : \E i \in 1 .. Len(ServiceOrder) : ServiceOrder[i] = g

LEMMA OrderIsAlways == SharesInv => OrderIs
BY OrderIsRight DEF OrderIs, SharesInv

LEMMA OrderIsThen == SharesInv' => OrderIs'
BY OrderIsAlways, PTL

LEMMA OrderAlike ==
    ASSUME SharesInv, SharesInv', Silent
    PROVE  ServiceOrder' = ServiceOrder
<1> DEFINE A == Advertising
           R == {ab \in A \X A : ServedBefore(ab[1], ab[2])}
<1>1. OrderIs /\ OrderIs'
    BY OrderIsAlways, OrderIsThen
<1>2. /\ Advertising' = A
      /\ \A a, b \in A : ServedBefore(a, b)' <=> ServedBefore(a, b)
    BY PartAlike
<1>3. \A a, b \in A : <<a, b>> \in R <=> ServedBefore(a, b)
    OBVIOUS
<1>4. /\ \A a, b, c \in A : ServedBefore(a, b) /\ ServedBefore(b, c) => ServedBefore(a, c)
      /\ \A a \in A : ~ServedBefore(a, a)
    BY ServiceIsOrdered DEF SharesInv
<1> HIDE DEF R
<1>5. Strict(A, R)
    BY <1>3, <1>4 DEF Strict
<1>0. PICK n \in Nat : n = Len(ServiceOrder) /\ n = Cardinality(A)
    BY <1>1 DEF OrderIs
<1>6. PICK s \in [1 .. n -> A] :
          /\ s = ServiceOrder
          /\ \A i, j \in 1 .. n : i < j => ServedBefore(s[i], s[j])
          /\ \A g \in A : \E i \in 1 .. n : s[i] = g
    BY <1>0, <1>1 DEF OrderIs
<1>7. PICK t \in [1 .. n -> A] :
          /\ t = ServiceOrder'
          /\ \A i, j \in 1 .. n : i < j => ServedBefore(t[i], t[j])'
          /\ \A g \in A : \E i \in 1 .. n : t[i] = g
  <2>1. n = Len(ServiceOrder')
      BY <1>0, <1>1, <1>2 DEF OrderIs
  <2> QED BY <1>1, <1>2, <2>1 DEF OrderIs
<1> HIDE DEF A
<1>8. Sorted(s, n, A, R) /\ Sorted(t, n, A, R)
    BY <1>0, <1>2, <1>3, <1>6, <1>7 DEF Sorted
<1>9. s = t
    BY <1>0, <1>5, <1>8, SortedUnique
<1> QED BY <1>6, <1>7, <1>9

(* A plan that gives nothing to those who wait.                            *)
Idle == {q \in Small : \A g \in Waiters : q[g] = 0}

LEMMA NoPlanIdle ==
    ASSUME SharesInv
    PROVE  NoPlan \in Idle
BY NoPlanFits DEF Idle, SharesInv, NoPlan, Waiters

LEMMA BlockedAlike ==
    ASSUME SharesInv, SharesInv', Silent, NEW q \in Idle, NEW e \in Groups
    PROVE  BlockedByPriority(e, q)' <=> BlockedByPriority(e, q)
<1>1. /\ q \in Plans /\ TypeOK /\ Waiters' = Waiters
      /\ \A g \in Groups : waiting[g] \in Nat /\ waiting'[g] \in Nat /\ q[g] \in Nat
      /\ \A g \in Groups : g \in Waiters <=> waiting[g] > 0
      /\ \A g \in Groups : g \in Waiters <=> waiting'[g] > 0
  <2>1. q \in Plans /\ TypeOK /\ TypeOK'
      BY DEF Idle, Small, SharesInv
  <2> QED BY <2>1, PartAlike DEF Plans, TypeOK, Waiters, Silent
<1>2. \A g \in Waiters : q[g] = 0
    BY DEF Idle
<1>3. \A g \in Groups : /\ Pending(g, q) > 0 <=> g \in Waiters
                        /\ Pending(g, q)' > 0 <=> g \in Waiters
                        /\ Pending(g, q) = 0 <=> g \notin Waiters
                        /\ Pending(g, q)' = 0 <=> g \notin Waiters
  <2> SUFFICES ASSUME NEW g \in Groups
               PROVE  /\ Pending(g, q) > 0 <=> g \in Waiters
                      /\ Pending(g, q)' > 0 <=> g \in Waiters
                      /\ Pending(g, q) = 0 <=> g \notin Waiters
                      /\ Pending(g, q)' = 0 <=> g \notin Waiters
      OBVIOUS
  <2>1. /\ Pending(g, q) = IF waiting[g] > q[g] THEN waiting[g] - q[g] ELSE 0
        /\ Pending(g, q)' = IF waiting'[g] > q[g] THEN waiting'[g] - q[g] ELSE 0
      BY DEF Pending, Monus
  <2> QED BY <1>1, <1>2, <2>1, SMT
<1>4. ASSUME NEW h \in Waiters, h \in Groups
      PROVE  Precedes(h, e, q)' <=> Precedes(h, e, q)
  <2>1. e \in Waiters => ahead'[e] = ahead[e]
      BY DEF Silent
  <2> QED BY <1>3, <2>1 DEF Precedes
<1>5. BlockedByPriority(e, q) <=>
        \E h \in Groups \ {e} : h \in Waiters /\ ~IsZero(Reserve[h]) /\ Precedes(h, e, q)
    BY <1>3 DEF BlockedByPriority
<1>6. BlockedByPriority(e, q)' <=>
        \E h \in Groups \ {e} : h \in Waiters /\ ~IsZero(Reserve[h]) /\ Precedes(h, e, q)'
    BY <1>3 DEF BlockedByPriority
<1> QED BY <1>4, <1>5, <1>6

LEMMA AdmitAlike ==
    ASSUME SharesInv, SharesInv', Silent, NEW q \in Idle, NEW e \in Advertising
    PROVE  /\ Takes(q, e)' <=> Takes(q, e)
           /\ Admit(e, held, q, used)' <=> Admit(e, held, q, used)
           /\ held'[e] = held[e]
<1>1. q \in Plans /\ TypeOK /\ TypeOK' /\ e \in Groups
    BY DEF Idle, Small, SharesInv, Advertising
<1>2. held'[e] = held[e] /\ used' = used
    BY DEF Silent, Advertising
<1>3. UsedBy(q)' = UsedBy(q)
    BY <1>2 DEF UsedBy
<1>4. UnmetFloors(e, held, q)' = UnmetFloors(e, held, q)
  <2>1. ASSUME NEW d \in Dims, NEW g \in Groups
        PROVE  Reserve[g][d] * Missing(held, q, g)' = Reserve[g][d] * Missing(held, q, g)
    <3>1. CASE IsZero(Reserve[g])
      <4>1. Reserve[g][d] = 0
          BY <3>1 DEF IsZero
      <4>2. Missing(held, q, g) \in Nat /\ Missing(held, q, g)' \in Nat
        <5>1. /\ held[g] \in Nat /\ held'[g] \in Nat /\ q[g] \in Nat
              /\ MinRunners[g] \in Nat
            BY <1>1, ConstantsTyped DEF TypeOK, Plans
        <5> QED BY <5>1, SMT DEF Missing, Monus
      <4>3. \A a \in Nat : 0 * a = 0
          BY SMT
      <4> QED BY <4>1, <4>2, <4>3
    <3>2. CASE ~IsZero(Reserve[g])
      <4>1. held'[g] = held[g]
          BY <3>2 DEF Silent
      <4> QED BY <4>1 DEF Missing
    <3> QED BY <3>1, <3>2
  <2> QED BY <2>1 DEF UnmetFloors
<1>5. BlockedByPriority(e, q)' <=> BlockedByPriority(e, q)
    BY <1>1, BlockedAlike
<1>6. Admit(e, held, q, used)' <=> Admit(e, held, q, used)
    BY <1>2, <1>4, <1>5 DEF Admit
<1>7. Takes(q, e)' <=> Takes(q, e)
    BY <1>2, <1>3, <1>4, <1>5 DEF Takes, Room, Admit
<1> QED BY <1>2, <1>6, <1>7

LEMMA TakeAlike ==
    ASSUME SharesInv, SharesInv', Silent, NEW q \in Idle, NEW e \in Advertising
    PROVE  Take(q, e)' = Take(q, e)
BY AdmitAlike DEF Take

(* When nobody who waits could be served, the claims give nothing out, and *)
(* nor do the rounds to those who wait.                                    *)
LEMMA NothingClaimed == SharesInv /\ NobodyServed => Claims(NoPlan) = NoPlan
<1> SUFFICES ASSUME SharesInv, NobodyServed PROVE Claims(NoPlan) = NoPlan
    OBVIOUS
<1>1. TypeOK /\ OneLine /\ NoPlan \in Plans /\ UsedBy(NoPlan) = used
    BY NoPlanTyped, NoPlanUsesNothing DEF SharesInv
<1>2. ASSUME NEW e \in Groups
      PROVE  Claim(NoPlan, e) = NoPlan
  <2>1. PICK n \in Nat : n = Pending(e, NoPlan)
      BY <1>1, ClaimTyped
  <2>2. PICK f \in [0 .. n -> Plans] : /\ f[0] = NoPlan
                                       /\ \A k \in 1 .. n : f[k] = Take(f[k - 1], e)
                                       /\ f[n] = TakeUpTo(NoPlan, e, n)
      BY <1>1, TakeUpToLoop
  <2>3. CASE e \in Waiters
    <3>1. ~Takes(NoPlan, e)
        BY <1>1, <2>3 DEF NobodyServed, Takes
    <3>2. Take(NoPlan, e) = NoPlan
        BY <1>1, <3>1, TakeTyped
    <3>0. PICK X : X = {NoPlan}
        OBVIOUS
    <3>3. \A k \in 1 .. n : f[k - 1] \in X => f[k] \in X
        BY <2>2, <3>0, <3>2
    <3>4. f[0] \in X
        BY <2>2, <3>0
    <3>5. f[n] \in X
        BY <3>3, <3>4, LoopStays
    <3> QED BY <2>1, <2>2, <3>0, <3>5 DEF Claim
  <2>4. CASE e \notin Waiters
    <3>1. n = 0
        BY <1>1, <2>1, <2>4, PendingTyped, SMT DEF Waiters, NoPlan
    <3> QED BY <2>1, <2>2, <3>1 DEF Claim
  <2> QED BY <2>3, <2>4
<1>3. PICK n \in Nat : n = Len(ServiceOrder) /\ \A k \in 1 .. n : ServiceOrder[k] \in Groups
    BY <1>1, OrderIsRight DEF Advertising
<1>4. PICK f \in [0 .. n -> Plans] : /\ f[0] = NoPlan
                                     /\ \A k \in 1 .. n : f[k] = Claim(f[k - 1], ServiceOrder[k])
                                     /\ f[n] = Claims(NoPlan)
    BY <1>1, <1>3, ClaimsLoop
<1>0. PICK X : X = {NoPlan}
    OBVIOUS
<1>5. \A k \in 1 .. n : f[k - 1] \in X => f[k] \in X
    BY <1>0, <1>2, <1>3, <1>4
<1>6. f[0] \in X
    BY <1>0, <1>4
<1>7. f[n] \in X
    BY <1>5, <1>6, LoopStays
<1> QED BY <1>0, <1>4, <1>7

LEMMA NothingClaimedThen == SharesInv' /\ NobodyServed' => Claims(NoPlan)' = NoPlan
<1>1. NoPlan' = NoPlan
    BY DEF NoPlan
<1>2. SharesInv' /\ NobodyServed' => (Claims(NoPlan) = NoPlan)'
    BY NothingClaimed, PTL
<1> QED BY <1>1, <1>2

LEMMA IdleStays ==
    ASSUME SharesInv, NobodyServed, NEW q \in Idle, NEW e \in Advertising
    PROVE  Take(q, e) \in Idle
<1>1. /\ TypeOK /\ e \in Groups /\ q \in Small /\ q \in Plans
      /\ \A g \in Groups : NoPlan[g] = 0
    BY DEF Idle, Small, SharesInv, Advertising, NoPlan
<1>2. Take(q, e) \in Small
    BY <1>1, TakeStaysSmall
<1>3. Claims(NoPlan) = NoPlan
    BY NothingClaimed
<1>4. \A h \in Groups : Pending(h, NoPlan) > 0 <=> h \in Waiters
    BY <1>1, NoPlanTyped, PendingTyped, SMT DEF Waiters
<1>5. e \in Waiters => ~Takes(q, e)
  <2>1. \A x \in Groups : NoPlan[x] <= q[x]
      BY <1>1, SMT DEF Plans
  <2>2. \A h \in Advertising : Pending(h, NoPlan) > 0 => q[h] = NoPlan[h]
      BY <1>1, <1>4 DEF Advertising, Idle
  <2> QED BY <1>1, <1>3, <1>4, <2>1, <2>2, RefusedStaysRefused
<1>6. \A g \in Waiters : Take(q, e)[g] = 0
  <2>1. \A g \in Waiters : q[g] = 0 /\ g \in Groups
      BY DEF Idle, Waiters
  <2> QED BY <1>1, <1>5, <2>1, TakeTyped
<1> QED BY <1>2, <1>6 DEF Idle


RoundIs ==
    \A p \in Plans, eligible \in SUBSET Groups :
        \E f \in [0 .. Len(ServiceOrder) -> Plans] :
              /\ f[0] = p
              /\ \A k \in 1 .. Len(ServiceOrder) :
                    f[k] = TakeIf(f[k - 1], ServiceOrder[k], eligible)
              /\ f[Len(ServiceOrder)] = Round(p, eligible)

LEMMA RoundIsAlways == SharesInv => RoundIs
BY RoundLoop DEF RoundIs, SharesInv

LEMMA RoundIsThen == SharesInv' => RoundIs'
BY RoundIsAlways, PTL

LEMMA RoundAlike ==
    ASSUME SharesInv, SharesInv', Silent, NobodyServed,
           NEW q \in Idle, NEW eligible \in SUBSET Groups
    PROVE  Round(q, eligible)' = Round(q, eligible) /\ Round(q, eligible) \in Idle
<1>0. q \in Plans /\ ServiceOrder' = ServiceOrder
    BY OrderAlike DEF Idle, Small
<1>1. PICK n \in Nat : n = Len(ServiceOrder)
    BY OrderIsAlways DEF OrderIs
<1>2. PICK o \in [1 .. n -> Advertising] : o = ServiceOrder
    BY <1>1, OrderIsAlways DEF OrderIs
<1>3. PICK f \in [0 .. n -> Plans] :
          /\ f[0] = q
          /\ \A k \in 1 .. n : f[k] = TakeIf(f[k - 1], o[k], eligible)
          /\ f[n] = Round(q, eligible)
    BY <1>0, <1>1, <1>2, RoundIsAlways DEF RoundIs
<1>4. PICK g \in [0 .. n -> Plans] :
          /\ g[0] = q
          /\ \A k \in 1 .. n : g[k] = TakeIf(g[k - 1], o[k], eligible)'
          /\ g[n] = Round(q, eligible)'
  <2>1. n = Len(ServiceOrder') /\ o = ServiceOrder'
      BY <1>0, <1>1, <1>2
  <2> QED BY <1>0, <2>1, RoundIsThen DEF RoundIs
<1>5. ASSUME NEW k \in 1 .. n, f[k - 1] \in Idle, g[k - 1] = f[k - 1]
      PROVE  f[k] \in Idle /\ g[k] = f[k]
  <2>1. o[k] \in Advertising
      BY <1>2
  <2>2. Take(f[k - 1], o[k])' = Take(f[k - 1], o[k]) /\ Take(f[k - 1], o[k]) \in Idle
      BY <1>5, <2>1, TakeAlike, IdleStays
  <2>3. /\ f[k] = IF o[k] \in eligible THEN Take(f[k - 1], o[k]) ELSE f[k - 1]
        /\ g[k] = IF o[k] \in eligible THEN Take(f[k - 1], o[k])' ELSE f[k - 1]
      BY <1>3, <1>4, <1>5 DEF TakeIf
  <2> QED BY <1>5, <2>2, <2>3
<1>6. \A k \in 0 .. n : f[k] \in Idle /\ g[k] = f[k]
  <2>1. PICK X : X = Idle
      OBVIOUS
  <2>2. \A k \in 1 .. n : f[k - 1] \in X /\ g[k - 1] = f[k - 1] => f[k] \in X /\ g[k] = f[k]
      BY <1>5, <2>1
  <2>3. f[0] \in X /\ g[0] = f[0]
      BY <1>3, <1>4, <2>1
  <2>4. Agree(f, g, n, X)
      BY <2>2, <2>3, LoopsAgree
  <2> QED BY <2>1, <2>4 DEF Agree
<1>7. n \in 0 .. n
    BY SMT
<1> QED BY <1>3, <1>4, <1>6, <1>7

(* Once a round deals nothing, no later one does.                          *)
LEMMA DealtStays ==
    ASSUME NEW f, NEW p, NEW eligible, NEW S, Rounds(f, p, eligible, S),
           NEW k \in 0 .. Sum(MaxRunners), Round(f[k], eligible) = f[k],
           NEW l \in 0 .. Sum(MaxRunners), k <= l
    PROVE  f[l] = f[k]
<1>1. PICK X : X = {f[k]}
    OBVIOUS
<1>2. PICK m \in Nat : m = Sum(MaxRunners)
    BY GroupsAssumption, SumNat
<1>3. k \in 0 .. m /\ l \in k .. m /\ k \in Int /\ \A j \in k + 1 .. m : j \in 1 .. m
    BY <1>2, SMT
<1>4. f[k] \in X /\ \A j \in k + 1 .. m : f[j - 1] \in X => f[j] \in X
    BY <1>1, <1>2, <1>3 DEF Rounds
<1>5. \A j \in k .. m : f[j] \in X
    BY <1>3, <1>4, LoopKeeps
<1> QED BY <1>1, <1>3, <1>5

DealIs == \A p \in Small, eligible \in SUBSET Groups : \E f : Rounds(f, p, eligible, Small)

LEMMA DealIsAlways == SharesInv => DealIs
<1> SUFFICES ASSUME SharesInv, NEW p \in Small, NEW eligible \in SUBSET Groups
             PROVE  \E f : Rounds(f, p, eligible, Small)
    BY DEF DealIs
<1>1. TypeOK /\ OneLine
    BY DEF SharesInv
<1>2. /\ \A q \in Small, e \in Advertising : Take(q, e) \in Small
      /\ Small \in SUBSET Plans
    BY <1>1, TakeStaysSmall DEF Advertising, Small
<1> QED BY <1>1, <1>2, DealReaches

LEMMA DealIsThen == SharesInv' => DealIs'
BY DealIsAlways, PTL

LEMMA DealAlike ==
    ASSUME SharesInv, SharesInv', Silent, NobodyServed,
           NEW q \in Idle, NEW eligible \in SUBSET Groups
    PROVE  Deal(q, eligible)' = Deal(q, eligible) /\ Deal(q, eligible) \in Idle
<1>1. PICK X : X = Idle
    OBVIOUS
<1>2. PICK m \in Nat : m = Sum(MaxRunners)
    BY GroupsAssumption, SumNat
<1>3. PICK f : Rounds(f, q, eligible, X)
  <2>1. TypeOK /\ OneLine /\ q \in X /\ q \in Small
      BY <1>1 DEF SharesInv, Idle
  <2>2. X \in SUBSET Plans /\ \A p \in X, e \in Advertising : Take(p, e) \in X
      BY <1>1, IdleStays DEF Idle, Small
  <2> QED BY <2>1, <2>2, DealReaches
<1>4. PICK g : Rounds(g, q, eligible, Small)'
    BY DealIsThen DEF DealIs, Idle
<1>5. /\ f[0] = q
      /\ \A k \in 1 .. m : f[k] = Round(f[k - 1], eligible)
      /\ \E k \in 0 .. m : Round(f[k], eligible) = f[k] /\ Deal(q, eligible) = f[k]
    BY <1>2, <1>3 DEF Rounds
<1>6. /\ g[0] = q
      /\ \A k \in 1 .. m : g[k] = Round(g[k - 1], eligible)'
      /\ \E k \in 0 .. m : Round(g[k], eligible)' = g[k] /\ Deal(q, eligible)' = g[k]
    BY <1>2, <1>4 DEF Rounds
<1>7. \A k \in 0 .. m : f[k] \in X /\ g[k] = f[k]
  <2>1. f[0] \in X /\ g[0] = f[0]
      BY <1>1, <1>5, <1>6
  <2>2. \A k \in 1 .. m : f[k - 1] \in X /\ g[k - 1] = f[k - 1] => f[k] \in X /\ g[k] = f[k]
      BY <1>1, <1>5, <1>6, RoundAlike
  <2>3. Agree(f, g, m, X)
      BY <2>1, <2>2, LoopsAgree
  <2> QED BY <2>3 DEF Agree
<1>8. PICK i \in 0 .. m : Round(f[i], eligible) = f[i] /\ Deal(q, eligible) = f[i]
    BY <1>5
<1>9. PICK j \in 0 .. m : Round(g[j], eligible)' = g[j] /\ Deal(q, eligible)' = g[j]
    BY <1>6
<1>10. Round(f[j], eligible) = f[j] /\ g[j] = f[j] /\ f[i] \in X
    BY <1>1, <1>7, <1>9, RoundAlike
<1>11. f[i] = f[j]
  <2>1. i <= j \/ j <= i
      BY SMT
  <2> QED BY <1>2, <1>3, <1>8, <1>10, <2>1, DealtStays
<1> QED BY <1>1, <1>8, <1>9, <1>10, <1>11

LEMMA ShareIsThen == ShareIs'
BY ShareIsAlways, PTL

(* No step but one that is announced changes what a group is to show.      *)
LEMMA ShareAlike ==
    ASSUME SharesInv, SharesInv', Silent, NobodyServed, NobodyServed'
    PROVE  Share' = Share
<1>1. PICK few \in SUBSET Groups : few = saturated /\ few = saturated'
    BY DEF SharesInv, TypeOK, Silent
<1>2. PICK unsaturated \in SUBSET Groups : unsaturated = Groups \ few
    OBVIOUS
<1>3. PICK a \in Idle : a = NoPlan
    BY NoPlanIdle
<1>4. a = Claims(NoPlan) /\ a = Claims(NoPlan)'
    BY <1>3, NothingClaimed, NothingClaimedThen
<1>5. PICK b \in Idle : b = Round(a, unsaturated) /\ b = Round(a, unsaturated)'
    BY RoundAlike
<1>6. PICK c \in Idle : c = Deal(b, few) /\ c = Deal(b, few)'
    BY DealAlike
<1>7. Deal(c, Groups)' = Deal(c, Groups)
    BY DealAlike
<1>8. a \in Plans /\ b \in Plans /\ c \in Plans
    BY DEF Idle, Small
<1>9. Share = Deal(c, Groups)
    BY <1>1, <1>2, <1>4, <1>5, <1>6, <1>8, ShareIsAlways DEF ShareIs
<1>10. Share' = Deal(c, Groups)'
    BY <1>1, <1>2, <1>4, <1>5, <1>6, <1>8, ShareIsThen DEF ShareIs
<1> QED BY <1>7, <1>9, <1>10

LEMMA CapacityAlike ==
    ASSUME SharesInv, SharesInv', Silent, NobodyServed, NobodyServed', NEW g \in Groups
    PROVE  CapacityOf(g)' = CapacityOf(g)
<1>1. Share' = Share /\ NoPlan' = NoPlan /\ Advertising' = Advertising
      /\ (Contended' <=> Contended)
    BY ShareAlike, PartAlike DEF NoPlan
<1>2. \A e \in Advertising : /\ Admit(e, held, NoPlan, used)' <=> Admit(e, held, NoPlan, used)
                             /\ held'[e] = held[e]
    BY AdmitAlike, NoPlanIdle
<1>3. \A e \in Groups : e \in Advertising /\ Share[e] = 0 /\ held[e] < MaxRunners[e]
                                /\ Admit(e, held, NoPlan, used)
        <=> e \in Advertising' /\ Share'[e] = 0 /\ held'[e] < MaxRunners[e]
                                /\ Admit(e, held, NoPlan, used)'
    BY <1>1, <1>2
<1>4. Plan' = Plan
    BY <1>1, <1>3 DEF Plan
<1>5. ~IsZero(Reserve[g]) => held'[g] = held[g]
    BY DEF Silent
<1> QED BY <1>4, <1>5 DEF CapacityOf

LEMMA NobodyServedBefore ==
    ASSUME SharesInv, SharesInv', Silent, NobodyServed'
    PROVE  NobodyServed
<1>1. Waiters' = Waiters /\ Waiters \subseteq Advertising
    BY PartAlike DEF SharesInv, WaitersTakePart
<1>2. \A e \in Advertising : Admit(e, held, NoPlan, used)' <=> Admit(e, held, NoPlan, used)
    BY AdmitAlike, NoPlanIdle
<1> QED BY <1>1, <1>2 DEF NobodyServed

(* A group that asks and changes nothing that is announced got nothing and *)
(* waits if it waited before, or has no reserve.                           *)
LEMMA AskSilent ==
    ASSUME SharesInv, NEW g \in Groups, NEW want \in Nat, Ask(g, want), ~changeCh'
    PROVE  Silent /\ ~changeCh
<1>0. TypeOK /\ OneLine
    BY DEF SharesInv
<1>1. CASE GrantUnbounded(g, want)
  <2>1. /\ used' = used /\ closed' = closed /\ saturated' = saturated
        /\ waiting' = waiting /\ ahead' = ahead /\ changeCh' = changeCh
      BY <1>1 DEF GrantUnbounded, entries, signals
  <2>2. \A x \in Groups : ~IsZero(Reserve[x]) => held'[x] = held[x]
      BY <1>0, <1>1 DEF GrantUnbounded, Issue, HeldWith, TypeOK
  <2> QED BY <2>1, <2>2 DEF Silent
<1>2. CASE GrantBounded(g, want)
  <2>1. PICK n \in 0 .. want :
            /\ held' = HeldWith(g, n)
            /\ used' = UsedWith(g, n)
            /\ IF g \in closed
               THEN UNCHANGED <<waiting, ahead>>
               ELSE UpdateWaiting(g, want - n)
            /\ changeCh' = (changeCh \/ n > 0 \/ (waiting'[g] > 0) # (waiting[g] > 0))
      BY <1>2 DEF GrantBounded, Issue
  <2>2. n \in Nat /\ ~(n > 0) /\ ~changeCh /\ (waiting'[g] > 0 <=> waiting[g] > 0)
    <3>1. n \in Nat
        BY SMT
    <3>2. ~(changeCh \/ n > 0 \/ (waiting'[g] > 0) # (waiting[g] > 0))
        BY <2>1, Zenon
    <3> QED BY <3>1, <3>2
  <2>3. n = 0
      BY <2>2, SMT
  <2>4. held' = held
    <3>1. \A x \in Groups : held[x] \in Nat
        BY <1>0 DEF TypeOK
    <3>2. held[g] + 0 = held[g]
        BY <3>1, SMT
    <3> QED BY <1>0, <2>1, <2>3, <3>2 DEF HeldWith, TypeOK
  <2>5. used' = used
    <3>1. \A d \in Dims : used[d] \in Nat /\ Reserve[g][d] \in Nat
        BY <1>0, ConstantsTyped DEF TypeOK, Amount
    <3>2. \A a \in Nat : a + 0 = a /\ a * 0 = 0
        BY SMT
    <3>3. used' = [d \in Dims |-> used[d] + Reserve[g][d] * 0]
        BY <2>1, <2>3 DEF UsedWith, Plus, Times
    <3>4. used' = [d \in Dims |-> used[d]]
        BY <3>1, <3>2, <3>3
    <3> QED BY <1>0, <3>4 DEF TypeOK, Amount
  <2>6. /\ \A x \in Groups : (waiting'[x] > 0) <=> (waiting[x] > 0)
        /\ \A x \in Waiters : ahead'[x] = ahead[x]
    <3>1. CASE UNCHANGED <<waiting, ahead>>
        BY <3>1
    <3>2. CASE UpdateWaiting(g, want - n)
      <4>1. PICK w : w = want - n /\ waiting' = [waiting EXCEPT ![g] = w]
                     /\ ahead' = IF w > 0 /\ waiting[g] = 0 THEN [ahead EXCEPT ![g] = Waiters]
                                 ELSE IF w = 0 THEN LeaveLine(g) ELSE ahead
          BY <3>2 DEF UpdateWaiting
      <4>2. waiting'[g] = w /\ \A x \in Groups \ {g} : waiting'[x] = waiting[x]
          BY <1>0, <4>1 DEF TypeOK
      <4>3. \A x \in Groups : (waiting'[x] > 0) <=> (waiting[x] > 0)
          BY <2>2, <4>2
      <4>4. waiting[g] \in Nat /\ (w > 0 <=> waiting[g] > 0)
          BY <1>0, <2>2, <4>2 DEF TypeOK
      <4>5. ~(w > 0 /\ waiting[g] = 0)
          BY <4>4, SMT
      <4>6. ASSUME NEW x \in Waiters
            PROVE  ahead'[x] = ahead[x]
        <5>1. CASE w = 0
          <6>1. g \notin Waiters /\ x # g
              BY <4>4, <5>1, SMT DEF Waiters
          <6>2. g \notin ahead[x]
              BY <1>0, <6>1 DEF OneLine, Waiters
          <6>3. x \in Groups /\ ahead'[x] = ahead[x] \ {g}
              BY <4>1, <4>5, <5>1, <6>1 DEF LeaveLine, Waiters
          <6> QED BY <6>2, <6>3
        <5>2. CASE w # 0
            BY <4>1, <4>5, <5>2
        <5> QED BY <5>1, <5>2
      <4> QED BY <4>3, <4>6
    <3> QED BY <2>1, <3>1, <3>2
  <2>7. closed' = closed /\ saturated' = saturated
      BY <1>2 DEF GrantBounded
  <2> QED BY <2>2, <2>4, <2>5, <2>6, <2>7 DEF Silent
<1> QED BY <1>1, <1>2 DEF Ask

(* A step that leaves no announcement behind is silent, and only           *)
(* notifyChanges takes one up.                                             *)
LEMMA StepSilent ==
    ASSUME SharesInv, [Next]_vars, ~changeCh'
    PROVE  Silent /\ (NotifyTake \/ ~changeCh)
<1>0. TypeOK
    BY DEF SharesInv
<1>1. ASSUME used' = used, held' = held, entries' = entries
      PROVE  Silent
    BY <1>1 DEF entries, Silent
<1>2. CASE UNCHANGED vars
    BY <1>1, <1>2 DEF vars, budget, signals
<1>3. ASSUME NEW g \in Groups, Register(g) \/ Unregister(g)
      PROVE  FALSE
    BY <1>3 DEF Register, Unregister
<1>4. ASSUME NEW g \in Groups, NEW loaded \in BOOLEAN, SetSaturated(g, loaded)
      PROVE  Silent /\ ~changeCh
  <2>1. saturated' = saturated /\ ~changeCh
      BY <1>4, Zenon DEF SetSaturated
  <2>2. /\ used' = used /\ held' = held /\ waiting' = waiting /\ ahead' = ahead
        /\ closed' = closed
      BY <1>4 DEF SetSaturated, budget
  <2> QED BY <2>1, <2>2 DEF Silent
<1>5. ASSUME NEW g \in Groups, NEW want \in 0 .. MaxRunners[g],
             Acquire(g, want) \/ (g = Head(queue) /\ WakeCall(want))
      PROVE  Silent /\ ~changeCh
  <2>1. want \in Nat /\ Ask(g, want)
      BY <1>5, ConstantsTyped, SMT DEF Acquire, WakeCall
  <2> QED BY <2>1, AskSilent
<1>6. ASSUME \/ \E g \in Groups : NotifyCall(g)
             \/ \E l \in Leases : Forget(l)
             \/ WakeTake \/ WakeAbort \/ CtxDone
             \/ \E loop \in {"wake", "notify"} : LoopReturns(loop)
      PROVE  Silent /\ ~changeCh
  <2>1. used' = used /\ held' = held /\ entries' = entries /\ changeCh' = changeCh
      BY <1>6 DEF NotifyCall, Forget, WakeTake, WakeAbort, CtxDone, LoopReturns, budget, signals
  <2> QED BY <1>1, <2>1
<1>7. CASE NotifyTake
    BY <1>1, <1>7 DEF NotifyTake, budget
<1>8. ASSUME NEW l \in Leases, Release(l) \/ Cancel(l)
      PROVE  FALSE
    BY <1>8 DEF Release, Cancel, Finish
<1>9. ASSUME queue # <<>>, NEW want \in 0 .. MaxRunners[Head(queue)], WakeCall(want)
      PROVE  Silent /\ ~changeCh
  <2>1. PICK g \in Groups : g = Head(queue)
      BY <1>0, <1>9, SMT DEF TypeOK
  <2> QED BY <1>5, <1>9, <2>1
<1>10. CASE Next
    BY <1>3, <1>4, <1>5, <1>6, <1>7, <1>8, <1>9, <1>10 DEF Next
<1> QED BY <1>2, <1>10 DEF vars, signals

(* The listeners and the notifier keep to their order, and to advertiseMu. *)
LEMMA StepListener == AdvTypeOK /\ ListenerInv /\ [AdvNext]_allVars => ListenerInv'
<1> SUFFICES ASSUME AdvTypeOK, ListenerInv, [AdvNext]_allVars PROVE ListenerInv'
    OBVIOUS
<1>0. stage \in [Groups -> Stages]
    BY DEF AdvTypeOK
<1>1. ASSUME UNCHANGED advVars, registered' = registered, notifying \subseteq notifying'
      PROVE  ListenerInv'
    BY <1>1 DEF ListenerInv, advVars
<1>2. ASSUME NEW g \in Groups, ListenerRegisters(g)
      PROVE  ListenerInv'
  <2>1. /\ stage[g] = "stopped" /\ stage' = [stage EXCEPT ![g] = "registered"]
        /\ registered' = registered \cup {g} /\ notifying' = notifying
        /\ listening' = listening /\ computed' = computed
      BY <1>2 DEF ListenerRegisters, Moves, Register, loops
  <2> QED BY <1>0, <2>1 DEF ListenerInv
<1>3. ASSUME NEW g \in Groups, Attach(g)
      PROVE  ListenerInv'
  <2>1. /\ stage[g] = "registered" /\ stage' = [stage EXCEPT ![g] = "attached"]
        /\ registered' = registered /\ notifying' = notifying
        /\ listening' = listening \cup {g} /\ computed' = computed
      BY <1>3 DEF Attach, Moves, vars, entries, loops
  <2> QED BY <1>0, <2>1 DEF ListenerInv
<1>4. ASSUME NEW g \in Groups, ListenerEnds(g)
      PROVE  ListenerInv'
  <2>1. /\ stage[g] = "registered" \/ stage[g] = "poll"
        /\ stage' = [stage EXCEPT ![g] = "stopped"]
        /\ registered' = registered \ {g} /\ notifying' = notifying
        /\ listening' = listening /\ computed' = computed
      BY <1>4 DEF ListenerEnds, Moves, Unregister, loops
  <2> QED BY <1>0, <2>1 DEF ListenerInv
<1>5. ASSUME NEW g \in Groups,
             \/ \E count \in 0 .. Sum(MaxRunners) : ReadAssigned(g, count)
             \/ ReportAssigned(g)
             \/ \E want \in 0 .. MaxRunners[g] : Provision(g, want)
      PROVE  ListenerInv'
  <2>1. /\ stage[g] \in {"poll", "full", "spare", "reported"}
        /\ \E s \in {"full", "spare", "reported", "reconciled"} : stage' = [stage EXCEPT ![g] = s]
        /\ registered' = registered /\ notifying' = notifying
        /\ listening' = listening /\ computed' = computed
    <3>1. CASE \E count \in 0 .. Sum(MaxRunners) : ReadAssigned(g, count)
        BY <3>1 DEF ReadAssigned, Moves, vars, entries, loops
    <3>2. CASE ReportAssigned(g)
        BY <3>2 DEF ReportAssigned, Moves, SetSaturated, loops
    <3>3. CASE \E want \in 0 .. MaxRunners[g] : Provision(g, want)
        BY <3>3 DEF Provision, Moves, Acquire, Ask, GrantBounded, GrantUnbounded, entries, loops
    <3> QED BY <1>5, <3>1, <3>2, <3>3
  <2>2. PICK s \in {"full", "spare", "reported", "reconciled"} : stage' = [stage EXCEPT ![g] = s]
      BY <2>1
  <2> QED BY <1>0, <2>1, <2>2 DEF ListenerInv
<1>6. ASSUME NEW g \in Groups, ListenerComputes(g) \/ NotifierComputes(g)
      PROVE  ListenerInv'
  <2>1. PICK by \in {"listener", "notifier"} :
            /\ by = "listener" => stage[g] \in {"attached", "reconciled"}
            /\ by = "notifier" => g \in notifying \cap listening
            /\ LockFree(g)
            /\ computed' = computed \cup {[group |-> g, by |-> by, value |-> CapacityOf(g)]}
      BY <1>6 DEF ListenerComputes, NotifierComputes, Compute
  <2>2. /\ stage' = stage /\ registered' = registered /\ notifying' = notifying
        /\ listening' = listening
      BY <1>6 DEF ListenerComputes, NotifierComputes, vars, entries, loops
  <2> QED BY <2>1, <2>2 DEF ListenerInv, LockFree
<1>7. ASSUME NEW g \in Groups, ListenerSets(g)
      PROVE  ListenerInv'
  <2>1. PICK c \in computed : c.group = g /\ c.by = "listener" /\ computed' = computed \ {c}
      BY <1>7 DEF ListenerSets, SetMaxRunners
  <2>2. /\ stage[g] = "attached" \/ stage[g] = "reconciled"
        /\ stage' = [stage EXCEPT ![g] = "poll"]
        /\ registered' = registered /\ notifying' = notifying /\ listening' = listening
      BY <1>7 DEF ListenerSets, Moves, vars, entries, loops
  <2> QED BY <1>0, <2>1, <2>2 DEF ListenerInv
<1>8. ASSUME NEW g \in Groups, NotifierSkips(g)
      PROVE  ListenerInv'
    BY <1>8 DEF NotifierSkips, NotifyCall, ListenerInv, advVars, entries
<1>9. ASSUME NEW g \in Groups, NotifierSets(g)
      PROVE  ListenerInv'
  <2>1. PICK c \in computed : c.group = g /\ c.by = "notifier" /\ computed' = computed \ {c}
      BY <1>9 DEF NotifierSets, SetMaxRunners
  <2>2. /\ stage' = stage /\ registered' = registered /\ notifying' = notifying \ {g}
        /\ listening' = listening
      BY <1>9 DEF NotifierSets, NotifyCall, entries
  <2> QED BY <2>1, <2>2 DEF ListenerInv
<1>10. ASSUME \/ \E l \in Leases : Release(l) \/ Cancel(l) \/ Forget(l)
              \/ WakeTake
              \/ queue # <<>> /\ \E want \in 0 .. MaxRunners[Head(queue)] : WakeCall(want)
              \/ NotifyTake,
              UNCHANGED advVars
      PROVE  ListenerInv'
  <2>1. registered' = registered /\ notifying \subseteq notifying'
    <3>1. CASE \E l \in Leases : Release(l) \/ Cancel(l) \/ Forget(l)
        BY <3>1 DEF Release, Cancel, Forget, Finish, entries, loops
    <3>2. CASE WakeTake \/ NotifyTake
        BY <3>2 DEF WakeTake, NotifyTake, entries
    <3>3. CASE \E want \in 0 .. MaxRunners[Head(queue)] : WakeCall(want)
        BY <3>3 DEF WakeCall, Ask, GrantBounded, GrantUnbounded, entries
    <3> QED BY <1>10, <3>1, <3>2, <3>3
  <2> QED BY <1>1, <1>10, <2>1
<1>11. CASE AdvNext
  <2>1. CASE \E g \in Groups :
                \/ ListenerRegisters(g)
                \/ Attach(g)
                \/ ListenerEnds(g)
                \/ \E count \in 0 .. Sum(MaxRunners) : ReadAssigned(g, count)
                \/ ReportAssigned(g)
                \/ \E want \in 0 .. MaxRunners[g] : Provision(g, want)
                \/ ListenerComputes(g)
                \/ ListenerSets(g)
                \/ NotifierSkips(g)
                \/ NotifierComputes(g)
                \/ NotifierSets(g)
      BY <1>2, <1>3, <1>4, <1>5, <1>6, <1>7, <1>8, <1>9, <2>1
  <2> QED BY <1>10, <1>11, <2>1, Zenon DEF AdvNext
<1>12. CASE UNCHANGED allVars
    BY <1>1, <1>12 DEF allVars, vars, entries, loops
<1> QED BY <1>11, <1>12

(* FreshInv, once everybody who waits has to wait, with cap for what the   *)
(* groups are to show.                                                     *)
Told(cap) ==
    /\ \A c \in computed : \/ c.value = cap[c.group]
                           \/ c.by = "listener" /\ c.group \in notifying
    /\ \A g \in Groups : stage[g] = "poll" => advertised[g] = cap[g] \/ g \in notifying

LEMMA FreshIsTold ==
    ASSUME AdvTypeOK, NEW cap, \A g \in Groups : cap[g] = CapacityOf(g)
    PROVE  FreshInv <=> (Settled => Told(cap))
<1>1. \A c \in computed : c.group \in Groups
    BY DEF AdvTypeOK
<1> QED BY <1>1 DEF FreshInv, Told, Polling, UpToDate

LEMMA FreshIsToldThen ==
    ASSUME AdvTypeOK', NEW cap, \A g \in Groups : cap[g] = CapacityOf(g)'
    PROVE  FreshInv' <=> (Settled' => Told(cap)')
<1>1. \A c \in computed' : c.group \in Groups
    BY DEF AdvTypeOK
<1> QED BY <1>1 DEF FreshInv, Told, Polling, UpToDate

LEMMA AskKeepsAnnouncement ==
    ASSUME NEW g, NEW want, Ask(g, want), ~changeCh'
    PROVE  ~changeCh
<1>1. CASE GrantUnbounded(g, want)
    BY <1>1 DEF GrantUnbounded, signals
<1>2. CASE GrantBounded(g, want)
  <2>1. PICK n : changeCh' = (changeCh \/ n > 0 \/ (waiting'[g] > 0) # (waiting[g] > 0))
      BY <1>2, Zenon DEF GrantBounded
  <2> QED BY <2>1, Zenon
<1> QED BY <1>1, <1>2 DEF Ask

(* Every step but one that is announced keeps the values right, or the     *)
(* groups they are wrong for on the notifier's list.                       *)
LEMMA StepTold ==
    ASSUME AdvTypeOK, ListenerInv, [AdvNext]_allVars, ~changeCh',
           NEW cap, \A g \in Groups : cap[g] = CapacityOf(g), ~changeCh => Told(cap)
    PROVE  Told(cap)'
<1>0. /\ stage \in [Groups -> Stages] /\ advertised \in [Groups -> Nat]
      /\ \A c \in computed : c.group \in Groups
    BY DEF AdvTypeOK
<1>1. ASSUME UNCHANGED advVars, changeCh' = changeCh, notifying' = notifying
      PROVE  Told(cap)'
    BY <1>1 DEF Told, advVars
<1>2. ASSUME NEW g \in Groups, ListenerRegisters(g) \/ ListenerEnds(g)
      PROVE  Told(cap)'
    BY <1>2 DEF ListenerRegisters, Register, ListenerEnds, Unregister
<1>3. ASSUME NEW g \in Groups,
             \/ Attach(g) \/ ReportAssigned(g)
             \/ \E count \in 0 .. Sum(MaxRunners) : ReadAssigned(g, count)
             \/ \E want \in 0 .. MaxRunners[g] : Provision(g, want)
      PROVE  Told(cap)'
  <2>1. ~changeCh /\ notifying' = notifying
    <3>1. CASE Attach(g)
        BY <3>1 DEF Attach, vars, signals, loops
    <3>2. CASE ReportAssigned(g)
        BY <3>2, Zenon DEF ReportAssigned, SetSaturated, loops
    <3>3. CASE \E want \in 0 .. MaxRunners[g] : Provision(g, want)
        BY <3>3, AskKeepsAnnouncement DEF Provision, Acquire, loops
    <3>4. CASE \E count \in 0 .. Sum(MaxRunners) : ReadAssigned(g, count)
        BY <3>4 DEF ReadAssigned, vars, signals, loops
    <3> QED BY <1>3, <3>1, <3>2, <3>3, <3>4
  <2>2. /\ computed' = computed /\ advertised' = advertised
        /\ \E s \in {"attached", "full", "spare", "reported", "reconciled"} :
              stage' = [stage EXCEPT ![g] = s]
      BY <1>3 DEF Attach, ReadAssigned, ReportAssigned, Provision, Moves
  <2>3. \A x \in Groups : stage'[x] = "poll" => stage[x] = "poll"
      BY <1>0, <2>2
  <2> QED BY <2>1, <2>2, <2>3 DEF Told
<1>4. ASSUME NEW g \in Groups, ListenerComputes(g) \/ NotifierComputes(g)
      PROVE  Told(cap)'
  <2>1. \E by \in {"listener", "notifier"} :
            computed' = computed \cup {[group |-> g, by |-> by, value |-> CapacityOf(g)]}
      BY <1>4 DEF ListenerComputes, NotifierComputes, Compute
  <2>2. /\ ~changeCh /\ notifying' = notifying /\ advertised' = advertised /\ stage' = stage
      BY <1>4 DEF ListenerComputes, NotifierComputes, vars, signals, loops
  <2> QED BY <2>1, <2>2 DEF Told
<1>5. ASSUME NEW g \in Groups, ListenerSets(g)
      PROVE  Told(cap)'
  <2>1. PICK c \in computed : /\ c.group = g /\ c.by = "listener"
                              /\ advertised' = [advertised EXCEPT ![g] = c.value]
                              /\ computed' = computed \ {c}
      BY <1>5 DEF ListenerSets, SetMaxRunners
  <2>2. /\ ~changeCh /\ notifying' = notifying
        /\ stage' = [stage EXCEPT ![g] = "poll"]
      BY <1>5 DEF ListenerSets, Moves, vars, signals, loops
  <2>3. /\ advertised'[g] = c.value /\ \A x \in Groups \ {g} : advertised'[x] = advertised[x]
        /\ \A x \in Groups \ {g} : stage'[x] = stage[x]
      BY <1>0, <2>1, <2>2
  <2>4. c.value = cap[g] \/ g \in notifying
      BY <2>1, <2>2 DEF Told
  <2> QED BY <2>1, <2>2, <2>3, <2>4 DEF Told
<1>6. ASSUME NEW g \in Groups, NotifierSkips(g)
      PROVE  Told(cap)'
  <2>1. /\ g \notin listening /\ ~changeCh /\ notifying' = notifying \ {g}
        /\ computed' = computed /\ advertised' = advertised /\ stage' = stage
      BY <1>6 DEF NotifierSkips, NotifyCall, signals, advVars
  <2>2. stage[g] # "poll" /\ \A c \in computed : c.by = "listener" => c.group # g
    <3>1. stage[g] \in {"stopped", "registered"}
        BY <2>1 DEF ListenerInv
    <3> QED BY <3>1 DEF ListenerInv
  <2> QED BY <2>1, <2>2 DEF Told
<1>7. ASSUME NEW g \in Groups, NotifierSets(g)
      PROVE  Told(cap)'
  <2>1. PICK c \in computed : /\ c.group = g /\ c.by = "notifier"
                              /\ advertised' = [advertised EXCEPT ![g] = c.value]
                              /\ computed' = computed \ {c}
      BY <1>7 DEF NotifierSets, SetMaxRunners
  <2>2. /\ ~changeCh /\ notifying' = notifying \ {g} /\ stage' = stage
      BY <1>7 DEF NotifierSets, NotifyCall, signals
  <2>3. advertised'[g] = c.value /\ \A x \in Groups \ {g} : advertised'[x] = advertised[x]
      BY <1>0, <2>1
  <2>4. c.value = cap[g]
      BY <2>1, <2>2 DEF Told
  <2>5. \A e \in computed \ {c} : e.group # g
      BY <2>1 DEF ListenerInv
  <2> QED BY <2>1, <2>2, <2>3, <2>4, <2>5 DEF Told
<1>8. ASSUME NotifyTake, UNCHANGED advVars
      PROVE  Told(cap)'
  <2>1. notifying = {} /\ notifying' = registered
      BY <1>8 DEF NotifyTake
  <2>2. \A c \in computed : c.by = "listener" /\ c.group \in registered
    <3>1. \A c \in computed : c.by = "listener"
        BY <2>1 DEF ListenerInv, AdvTypeOK
    <3>2. \A c \in computed : stage[c.group] # "stopped"
        BY <3>1 DEF ListenerInv
    <3> QED BY <1>0, <3>1, <3>2 DEF ListenerInv
  <2>3. \A g \in Groups : stage[g] = "poll" => g \in registered
      BY DEF ListenerInv
  <2> QED BY <1>8, <2>1, <2>2, <2>3 DEF Told, advVars
<1>9. ASSUME \/ \E l \in Leases : Release(l) \/ Cancel(l) \/ Forget(l)
             \/ WakeTake
             \/ queue # <<>> /\ \E want \in 0 .. MaxRunners[Head(queue)] : WakeCall(want),
             UNCHANGED advVars
      PROVE  Told(cap)'
  <2>1. CASE \E l \in Leases : Release(l) \/ Cancel(l)
      BY <2>1 DEF Release, Cancel, Finish
  <2>2. CASE \E l \in Leases : Forget(l)
      BY <1>1, <1>9, <2>2 DEF Forget, signals, loops
  <2>3. CASE WakeTake
      BY <1>1, <1>9, <2>3 DEF WakeTake
  <2>4. CASE \E want \in 0 .. MaxRunners[Head(queue)] : WakeCall(want)
    <3>1. ~changeCh /\ notifying' = notifying
        BY <2>4, AskKeepsAnnouncement DEF WakeCall
    <3> QED BY <1>9, <3>1 DEF Told, advVars
  <2> QED BY <1>9, <2>1, <2>2, <2>3, <2>4
<1>10. CASE AdvNext
  <2>1. CASE \E g \in Groups :
                \/ ListenerRegisters(g)
                \/ Attach(g)
                \/ ListenerEnds(g)
                \/ \E count \in 0 .. Sum(MaxRunners) : ReadAssigned(g, count)
                \/ ReportAssigned(g)
                \/ \E want \in 0 .. MaxRunners[g] : Provision(g, want)
                \/ ListenerComputes(g)
                \/ ListenerSets(g)
                \/ NotifierSkips(g)
                \/ NotifierComputes(g)
                \/ NotifierSets(g)
      BY <1>2, <1>3, <1>4, <1>5, <1>6, <1>7, <2>1
  <2> QED BY <1>8, <1>9, <1>10, <2>1, Zenon DEF AdvNext
<1>11. CASE UNCHANGED allVars
    BY <1>1, <1>11 DEF allVars, vars, signals, loops
<1> QED BY <1>10, <1>11

LEMMA StepFresh ==
    ASSUME SharesInv, SharesInv', AdvTypeOK, AdvTypeOK', ListenerInv, FreshInv,
           [Next]_vars, [AdvNext]_allVars
    PROVE  FreshInv'
<1> SUFFICES ASSUME Settled' PROVE FreshInv'
    BY DEF FreshInv
<1>1. Silent /\ ~changeCh' /\ NobodyServed'
    BY StepSilent DEF Settled
<1>2. NobodyServed
    BY <1>1, NobodyServedBefore
<1>3. PICK cap : cap = [g \in Groups |-> CapacityOf(g)]
    OBVIOUS
<1>4. \A g \in Groups : cap[g] = CapacityOf(g) /\ cap[g] = CapacityOf(g)'
    BY <1>1, <1>2, <1>3, CapacityAlike
<1>5. ~changeCh => Told(cap)
    BY <1>2, <1>4, FreshIsTold DEF Settled
<1>6. Told(cap)'
    BY <1>1, <1>4, <1>5, StepTold
<1> QED BY <1>4, <1>6, FreshIsToldThen

(* Once nobody waits who could be served at once, a polling group shows    *)
(* the right value as soon as the notification has been delivered: a step  *)
(* that is not announced changes what no group is to show, and what a group*)
(* is told late was computed after the announcement (scaler_capacity.go:   *)
(* 63-75, allocator.go:107-113).                                           *)
THEOREM FreshShares == AdvSpec => []FreshOnceServed
<1>1. AdvInit => ListenerInv /\ FreshInv
    BY DEF AdvInit, ListenerInv, FreshInv, Polling
<1>2. AdvSpec => [](SharesInv /\ AdvTypeOK) /\ [][Next]_vars
    BY ListenersUseTheAllocator, SharesInvariance, ListenersTyped, PTL DEF Spec
<1>3. AdvSpec => [](ListenerInv /\ FreshInv)
    BY <1>1, <1>2, StepListener, StepFresh, PTL DEF AdvSpec
<1>4. AdvTypeOK /\ FreshInv => FreshOnceServed
    BY DEF FreshInv, FreshOnceServed, Quiet, Settled, NobodyServed
<1> QED BY <1>2, <1>3, <1>4, PTL
=============================================================================
