--------------------------- MODULE CapacityProofs ---------------------------
(***************************************************************************)
(* Proofs about Capacity for every number of groups and leases, every      *)
(* priority, minimum, maximum, reserve and total a valid configuration can *)
(* have, and callers that ask, release and cancel in any order.            *)
(*                                                                         *)
(* The inductive invariant adds one fact to what the model checker checks: *)
(* a lease identity nobody refers to has not been finished.  The accounts  *)
(* (used is the sum of the live leases) and the floors (what is in use and *)
(* what is owed fit together) need one another: a release may subtract     *)
(* only what was added, and an admission past the own minimum is what      *)
(* keeps the other minimums payable.                                       *)
(***************************************************************************)
EXTENDS Config, Capacity, SumTheorems, SequenceTheorems, NaturalsInduction

(* An identity without an owner is ready to be issued.                     *)
FreshLeases == \A l \in Leases : owner[l] = NoGroup => done[l] = FALSE

Inductive == TypeOK /\ LeaseAccounting /\ FreshLeases /\ FloorsProtected

-----------------------------------------------------------------------------
(* Arithmetic of reservations.                                             *)

(* What a valid configuration holds is made of natural numbers.            *)
LEMMA ConstantsTyped ==
    /\ \A g \in Groups, d \in Dims : Reserve[g][d] \in Nat
    /\ \A d \in Dims : Total[d] \in Nat
    /\ \A g \in Groups : MinRunners[g] \in Nat /\ MaxRunners[g] \in Nat
BY GroupsAssumption DEF Amount

(* The few facts about products of naturals that the accounts need.        *)
LEMMA Products ==
    /\ \A a, b \in Nat : a * b \in Nat
    /\ \A a, b, c \in Nat : a * (b + c) = a * b + a * c
    /\ \A a, b \in Nat : b > 0 => a * b = a * (b - 1) + a
    /\ \A a, b \in Nat : b > 0 => a <= a * b
    /\ \A a \in Nat : a * 0 = 0
<1>1. \A a, b, c \in Nat : a * (b + c) = a * b + a * c
    BY SMT
<1>2. \A a, b \in Nat : a * b \in Nat
    BY SMT
<1>3. \A a, b \in Nat : b > 0 => a * b = a * (b - 1) + a
    BY SMT
<1>4. \A a, b \in Nat : b > 0 => a <= a * b
  <2> SUFFICES ASSUME NEW a \in Nat, NEW b \in Nat, b > 0
               PROVE  a <= a * b
      OBVIOUS
  <2>1. b - 1 \in Nat
      BY SMT
  <2>2. a * (b - 1) \in Nat
      BY <2>1, <1>2
  <2> QED BY <2>2, <1>3, SMT
<1>5. \A a \in Nat : a * 0 = 0
    BY SMT
<1> QED BY <1>1, <1>2, <1>3, <1>4, <1>5

(* What a group is missing to its minimum, given what all groups hold.     *)
LEMMA MissingTyped ==
    ASSUME NEW h \in [Groups -> Nat], NEW g \in Groups
    PROVE  /\ Missing(h, NoPlan, g) \in Nat
           /\ Missing(h, NoPlan, g) = IF h[g] < MinRunners[g]
                                      THEN MinRunners[g] - h[g] ELSE 0
BY ConstantsTyped, SMT DEF Missing, Monus, NoPlan

(* What the groups hold is a function to the naturals, per dimension.      *)
LEMMA InUseTyped ==
    ASSUME NEW h \in [Groups -> Nat], NEW d \in Dims
    PROVE  InUse(h, d) \in [Groups -> Nat]
BY ConstantsTyped, Products DEF InUse

(* So is what they are owed.                                               *)
LEMMA OwingTyped ==
    ASSUME NEW h \in [Groups -> Nat], NEW d \in Dims
    PROVE  Owing(h, d) \in [Groups -> Nat]
BY ConstantsTyped, Products, MissingTyped DEF Owing

(* Granting n more leases to g adds n of its reserves to what is in use.   *)
LEMMA HoldMore ==
    ASSUME NEW h \in [Groups -> Nat], NEW g \in Groups, NEW n \in Nat, NEW d \in Dims
    PROVE  Sum(InUse([h EXCEPT ![g] = @ + n], d)) = Sum(InUse(h, d)) + Reserve[g][d] * n
<1> DEFINE k == [h EXCEPT ![g] = @ + n]
<1>1. k \in [Groups -> Nat] /\ k[g] = h[g] + n /\ \A x \in Groups \ {g} : k[x] = h[x]
    OBVIOUS
<1> HIDE DEF k
<1>2. InUse(h, d) \in [Groups -> Nat] /\ InUse(k, d) \in [Groups -> Nat]
    BY <1>1, InUseTyped
<1>3. \A x \in Groups \ {g} : InUse(h, d)[x] = InUse(k, d)[x]
    BY <1>1 DEF InUse
<1>4. Sum(InUse(k, d)) = Sum(InUse(h, d)) - InUse(h, d)[g] + InUse(k, d)[g]
    BY <1>2, <1>3, SumUpdate, GroupsAssumption
<1>5. InUse(k, d)[g] = InUse(h, d)[g] + Reserve[g][d] * n
    BY <1>1, ConstantsTyped, Products DEF InUse
<1>6. Sum(InUse(h, d)) \in Nat
    BY <1>2, SumNat, GroupsAssumption
<1>7. InUse(h, d)[g] \in Nat /\ Reserve[g][d] * n \in Nat
    BY <1>2, ConstantsTyped, Products
<1> QED BY <1>4, <1>5, <1>6, <1>7, SMT DEF k

(* Taking one lease back from a group that holds one subtracts one reserve,*)
(* which was there to be subtracted.                                       *)
LEMMA HoldLess ==
    ASSUME NEW h \in [Groups -> Nat], NEW g \in Groups, h[g] > 0, NEW d \in Dims
    PROVE  /\ Sum(InUse([h EXCEPT ![g] = @ - 1], d)) = Sum(InUse(h, d)) - Reserve[g][d]
           /\ Reserve[g][d] <= Sum(InUse(h, d))
<1> DEFINE k == [h EXCEPT ![g] = @ - 1]
<1>0. h[g] \in Nat
    OBVIOUS
<1>1. k \in [Groups -> Nat] /\ k[g] = h[g] - 1 /\ \A x \in Groups \ {g} : k[x] = h[x]
    BY <1>0, SMT
<1> HIDE DEF k
<1>2. InUse(h, d) \in [Groups -> Nat] /\ InUse(k, d) \in [Groups -> Nat]
    BY <1>1, InUseTyped
<1>3. \A x \in Groups \ {g} : InUse(h, d)[x] = InUse(k, d)[x]
    BY <1>1 DEF InUse
<1>4. Sum(InUse(k, d)) = Sum(InUse(h, d)) - InUse(h, d)[g] + InUse(k, d)[g]
    BY <1>2, <1>3, SumUpdate, GroupsAssumption
<1>5. InUse(h, d)[g] = InUse(k, d)[g] + Reserve[g][d]
    BY <1>0, <1>1, ConstantsTyped, Products DEF InUse
<1>6. Sum(InUse(h, d)) \in Nat
    BY <1>2, SumNat, GroupsAssumption
<1>7. InUse(h, d)[g] \in Nat /\ InUse(k, d)[g] \in Nat /\ Reserve[g][d] \in Nat
    BY <1>2, ConstantsTyped
<1>8. InUse(h, d)[g] <= Sum(InUse(h, d))
    BY <1>2, SumAtLeast, GroupsAssumption
<1> QED BY <1>4, <1>5, <1>6, <1>7, <1>8, SMT DEF k

(* What is owed changes only by what the one group is missing.             *)
LEMMA OweUpdate ==
    ASSUME NEW h \in [Groups -> Nat], NEW k \in [Groups -> Nat], NEW g \in Groups,
           \A x \in Groups \ {g} : h[x] = k[x], NEW d \in Dims
    PROVE  /\ Sum(Owing(k, d)) = Sum(Owing(h, d))
                                 - Reserve[g][d] * Missing(h, NoPlan, g)
                                 + Reserve[g][d] * Missing(k, NoPlan, g)
           /\ Sum(Owing(h, d)) \in Nat
           /\ Reserve[g][d] * Missing(h, NoPlan, g) <= Sum(Owing(h, d))
<1>1. Owing(h, d) \in [Groups -> Nat] /\ Owing(k, d) \in [Groups -> Nat]
    BY OwingTyped
<1>2. \A x \in Groups \ {g} : Owing(h, d)[x] = Owing(k, d)[x]
    BY DEF Owing, Missing
<1>3. Sum(Owing(k, d)) = Sum(Owing(h, d)) - Owing(h, d)[g] + Owing(k, d)[g]
    BY <1>1, <1>2, SumUpdate, GroupsAssumption
<1>4. Owing(h, d)[g] <= Sum(Owing(h, d)) /\ Sum(Owing(h, d)) \in Nat
    BY <1>1, SumAtLeast, SumNat, GroupsAssumption
<1> QED BY <1>3, <1>4 DEF Owing

(* The floors admission protects for g are those of all groups but g.      *)
LEMMA UnmetIsOwedToOthers ==
    ASSUME NEW h \in [Groups -> Nat], NEW g \in Groups, NEW d \in Dims
    PROVE  /\ UnmetFloors(g, h, NoPlan)[d] =
                  Sum(Owing(h, d)) - Reserve[g][d] * Missing(h, NoPlan, g)
           /\ UnmetFloors(g, h, NoPlan)[d] \in Nat
<1> DEFINE u == [x \in Groups |->
                    IF x = g THEN 0 ELSE Reserve[x][d] * Missing(h, NoPlan, x)]
<1>1. Owing(h, d) \in [Groups -> Nat]
    BY OwingTyped
<1>2. /\ u \in [Groups -> Nat]
      /\ u[g] = 0
      /\ \A x \in Groups \ {g} : Owing(h, d)[x] = u[x]
    BY <1>1 DEF Owing
<1>3. UnmetFloors(g, h, NoPlan)[d] = Sum(u)
    BY DEF UnmetFloors
<1> HIDE DEF u
<1>4. Sum(u) = Sum(Owing(h, d)) - Owing(h, d)[g] + u[g]
    BY <1>1, <1>2, SumUpdate, GroupsAssumption
<1>5. Sum(u) \in Nat /\ Sum(Owing(h, d)) \in Nat
    BY <1>1, <1>2, SumNat, GroupsAssumption
<1>6. Owing(h, d)[g] = Reserve[g][d] * Missing(h, NoPlan, g) /\ Owing(h, d)[g] \in Nat
    BY <1>1 DEF Owing
<1> QED BY <1>2, <1>3, <1>4, <1>5, <1>6, SMT

-----------------------------------------------------------------------------
(* Granting leases.                                                        *)

(* After the leases of one call, what is in use and what is owed still fit *)
(* the host.  Only the last grant matters: below the minimum it turns      *)
(* something owed into something used, above it nothing is owed to g any   *)
(* more and admission has checked the others' floors.                      *)
LEMMA GrantsKeepFloors ==
    ASSUME TypeOK, FloorsProtected,
           NEW g \in Groups, NEW want \in Nat, NEW n \in 0 .. want, Grants(g, want, n)
    PROVE  Fits(Total, UsedWith(g, n), [d \in Dims |-> Sum(Owing(HeldWith(g, n), d))])
<1>1. SUFFICES ASSUME NEW d \in Dims, Total[d] > 0
               PROVE  UsedWith(g, n)[d] + Sum(Owing(HeldWith(g, n), d)) <= Total[d]
    BY DEF Fits
<1>2. /\ held \in [Groups -> Nat]
      /\ used[d] \in Nat
      /\ Total[d] \in Nat
      /\ Reserve[g][d] \in Nat
      /\ MinRunners[g] \in Nat
      /\ held[g] \in Nat
      /\ n \in Nat
    BY ConstantsTyped DEF TypeOK, Amount
<1>3. used[d] + Sum(Owing(held, d)) <= Total[d]
    BY <1>1 DEF FloorsProtected, Fits
<1>4. ASSUME NEW k \in Nat
      PROVE  /\ HeldWith(g, k) \in [Groups -> Nat]
             /\ HeldWith(g, k)[g] = held[g] + k
             /\ \A x \in Groups \ {g} : held[x] = HeldWith(g, k)[x]
             /\ UsedWith(g, k)[d] = used[d] + Reserve[g][d] * k
    BY <1>2 DEF HeldWith, UsedWith, Plus, Times
<1>5. CASE n = 0
  <2>1. HeldWith(g, n) = held
      BY <1>2, <1>5, SMT DEF HeldWith
  <2>2. UsedWith(g, n)[d] = used[d]
    <3>1. UsedWith(g, n)[d] = used[d] + Reserve[g][d] * 0
        BY <1>2, <1>4, <1>5
    <3> QED BY <3>1, <1>2, Products, SMT
  <2> QED BY <2>1, <2>2, <1>3
<1>6. CASE n > 0
  <2> DEFINE k == n - 1
             Owed(h) == Sum(Owing(h, d))
             MissingAt(h) == Missing(h, NoPlan, g)
  <2>1. k \in Nat /\ k \in 0 .. n - 1 /\ k + 1 = n
      BY <1>2, <1>6, SMT
  <2>2. Admit(g, HeldWith(g, k), NoPlan, UsedWith(g, k))
      BY <2>1 DEF Grants, AdmitsNext
  <2>3. UsedWith(g, n)[d] = UsedWith(g, k)[d] + Reserve[g][d]
    <3>1. Reserve[g][d] * n = Reserve[g][d] * (n - 1) + Reserve[g][d]
        BY <1>2, <1>6, Products
    <3>2. Reserve[g][d] * n \in Nat /\ Reserve[g][d] * k \in Nat
        BY <1>2, <2>1, Products
    <3>3. UsedWith(g, n)[d] = used[d] + Reserve[g][d] * n
        BY <1>2, <1>4
    <3>4. UsedWith(g, k)[d] = used[d] + Reserve[g][d] * k
        BY <2>1, <1>4
    <3> QED BY <3>1, <3>2, <3>3, <3>4, <1>2, SMT
  <2>4. ASSUME NEW j \in Nat
        PROVE  /\ Owed(HeldWith(g, j)) = Owed(held) - Reserve[g][d] * MissingAt(held)
                                         + Reserve[g][d] * MissingAt(HeldWith(g, j))
               /\ Owed(held) \in Nat
               /\ Reserve[g][d] * MissingAt(held) <= Owed(held)
               /\ MissingAt(HeldWith(g, j)) \in Nat
               /\ MissingAt(HeldWith(g, j)) = IF held[g] + j < MinRunners[g]
                                              THEN MinRunners[g] - (held[g] + j) ELSE 0
               /\ UnmetFloors(g, HeldWith(g, j), NoPlan)[d] =
                      Owed(HeldWith(g, j)) - Reserve[g][d] * MissingAt(HeldWith(g, j))
               /\ UnmetFloors(g, HeldWith(g, j), NoPlan)[d] \in Nat
    <3>1. PICK h : h = HeldWith(g, j)
        OBVIOUS
    <3>2. h \in [Groups -> Nat] /\ h[g] = held[g] + j /\ \A x \in Groups \ {g} : held[x] = h[x]
        BY <3>1, <1>4
    <3>3. /\ Sum(Owing(h, d)) = Sum(Owing(held, d))
                                - Reserve[g][d] * Missing(held, NoPlan, g)
                                + Reserve[g][d] * Missing(h, NoPlan, g)
          /\ Sum(Owing(held, d)) \in Nat
          /\ Reserve[g][d] * Missing(held, NoPlan, g) <= Sum(Owing(held, d))
        BY <3>2, <1>2, OweUpdate
    <3>4. /\ Missing(h, NoPlan, g) \in Nat
          /\ Missing(h, NoPlan, g) = IF h[g] < MinRunners[g] THEN MinRunners[g] - h[g] ELSE 0
        BY <3>2, MissingTyped
    <3>5. /\ UnmetFloors(g, h, NoPlan)[d] =
                 Sum(Owing(h, d)) - Reserve[g][d] * Missing(h, NoPlan, g)
          /\ UnmetFloors(g, h, NoPlan)[d] \in Nat
        BY <3>2, UnmetIsOwedToOthers
    <3> QED BY <3>1, <3>2, <3>3, <3>4, <3>5
  <2>5. /\ MissingAt(held) \in Nat
        /\ MissingAt(held) = IF held[g] < MinRunners[g] THEN MinRunners[g] - held[g] ELSE 0
      BY <1>2, MissingTyped
  <2>6. /\ Owed(HeldWith(g, n)) = Owed(held) - Reserve[g][d] * MissingAt(held)
                                  + Reserve[g][d] * MissingAt(HeldWith(g, n))
        /\ MissingAt(HeldWith(g, n)) = IF held[g] + n < MinRunners[g]
                                       THEN MinRunners[g] - (held[g] + n) ELSE 0
      BY <1>2, <2>4
  <2>7. /\ Owed(HeldWith(g, k)) = Owed(held) - Reserve[g][d] * MissingAt(held)
                                  + Reserve[g][d] * MissingAt(HeldWith(g, k))
        /\ MissingAt(HeldWith(g, k)) = IF held[g] + k < MinRunners[g]
                                       THEN MinRunners[g] - (held[g] + k) ELSE 0
        /\ UnmetFloors(g, HeldWith(g, k), NoPlan)[d] =
               Owed(HeldWith(g, k)) - Reserve[g][d] * MissingAt(HeldWith(g, k))
      BY <2>1, <2>4
  <2>8. Owed(held) \in Nat /\ Reserve[g][d] * MissingAt(held) \in Nat
      BY <1>2, <2>4, <2>5, Products
  <2> HIDE DEF Owed, MissingAt, k
  <2>10. CASE held[g] + k < MinRunners[g]
    <3>1. MissingAt(held) = MissingAt(HeldWith(g, n)) + n
        BY <2>1, <2>5, <2>6, <2>10, <1>2, SMT
    <3>2. Reserve[g][d] * MissingAt(held) =
              Reserve[g][d] * MissingAt(HeldWith(g, n)) + Reserve[g][d] * n
        BY <3>1, <2>4, <1>2, Products
    <3>3. /\ Reserve[g][d] * MissingAt(held) \in Nat
          /\ Reserve[g][d] * MissingAt(HeldWith(g, n)) \in Nat
          /\ Reserve[g][d] * n \in Nat
        BY <2>4, <2>5, <1>2, Products
    <3>4. UsedWith(g, n)[d] = used[d] + Reserve[g][d] * n
        BY <1>2, <1>4
    <3>5. used[d] + Owed(held) <= Total[d]
        BY <1>3 DEF Owed
    <3>6. UsedWith(g, n)[d] + Owed(HeldWith(g, n)) = used[d] + Owed(held)
        BY <2>4, <3>2, <3>3, <3>4, <1>2, SMT
    <3> QED BY <3>5, <3>6 DEF Owed
  <2>11. CASE ~(held[g] + k < MinRunners[g])
    <3>1. HeldWith(g, k)[g] + NoPlan[g] = held[g] + k
        BY <1>2, <1>4, <2>1, SMT DEF NoPlan
    <3>2. Fits(Total, UsedWith(g, k),
               Plus(Reserve[g], UnmetFloors(g, HeldWith(g, k), NoPlan)))
        BY <2>2, <2>11, <3>1 DEF Admit
    <3>3. UsedWith(g, k)[d] + (Reserve[g][d] + UnmetFloors(g, HeldWith(g, k), NoPlan)[d])
              <= Total[d]
        BY <3>2, <1>1 DEF Fits, Plus
    <3>4. MissingAt(HeldWith(g, n)) = 0 /\ MissingAt(HeldWith(g, k)) = 0
        BY <2>1, <2>6, <2>7, <2>11, <1>2, SMT
    <3>5. Reserve[g][d] * 0 = 0
        BY <1>2, Products
    <3>6. Owed(HeldWith(g, n)) = UnmetFloors(g, HeldWith(g, k), NoPlan)[d]
        BY <2>6, <2>7, <2>8, <3>4, <3>5, SMT
    <3>7. UsedWith(g, k)[d] \in Nat
      <4>1. Reserve[g][d] * k \in Nat
          BY <1>2, <2>1, Products
      <4>2. UsedWith(g, k)[d] = used[d] + Reserve[g][d] * k
          BY <2>1, <1>4
      <4>3. \A a, b \in Nat : a + b \in Nat
          BY SMT
      <4> QED BY <4>1, <4>2, <4>3, <1>2
    <3>8. UsedWith(g, n)[d] + Owed(HeldWith(g, n)) <= Total[d]
        BY <2>1, <2>3, <2>4, <3>3, <3>6, <3>7, <1>2, SMT
    <3> QED BY <3>8 DEF Owed
  <2> QED BY <2>10, <2>11
<1> QED BY <1>2, <1>5, <1>6, SMT

-----------------------------------------------------------------------------
(* Leases.                                                                 *)

(* A group has finitely many unfinished leases.                            *)
LEMMA LiveFinite ==
    ASSUME NEW g \in Groups
    PROVE  IsFiniteSet(Live(g)) /\ Cardinality(Live(g)) \in Nat
<1>1. IsFiniteSet(Live(g))
    BY GroupsAssumption, FS_Subset DEF Live
<1> QED BY <1>1, FS_CardinalityType

(* The identities handed out become live leases of g and of nobody else.   *)
LEMMA IssueAccounts ==
    ASSUME TypeOK, LeaseAccounting, FreshLeases,
           NEW g \in Groups, NEW n \in Nat, Issue(g, n)
    PROVE  /\ held' \in [Groups -> Nat]
           /\ owner' \in [Leases -> Groups \cup {NoGroup}]
           /\ done' \in [Leases -> BOOLEAN]
           /\ FreshLeases'
           /\ \A h \in Groups : held'[h] = Cardinality(Live(h)')
<1>1. PICK S \in SUBSET {l \in Leases : owner[l] = NoGroup} :
          /\ Cardinality(S) = n
          /\ owner' = [l \in Leases |-> IF l \in S THEN g ELSE owner[l]]
    BY DEF Issue
<1>2. /\ held' = [held EXCEPT ![g] = @ + n]
      /\ done' = done
      /\ held \in [Groups -> Nat]
      /\ owner \in [Leases -> Groups \cup {NoGroup}]
      /\ done \in [Leases -> BOOLEAN]
    BY DEF Issue, HeldWith, TypeOK
<1>3. held' \in [Groups -> Nat] /\ owner' \in [Leases -> Groups \cup {NoGroup}]
    BY <1>1, <1>2
<1>4. FreshLeases'
    BY <1>1, <1>2, GroupsAssumption DEF FreshLeases
<1>5. \A l \in S : l \in Leases /\ owner[l] = NoGroup /\ done[l] = FALSE
    BY <1>1 DEF FreshLeases
<1>6. Live(g)' = Live(g) \cup S
    BY <1>1, <1>2, <1>5 DEF Live
<1>7. Live(g) \cap S = {}
    BY <1>5, GroupsAssumption DEF Live
<1>8. \A h \in Groups \ {g} : Live(h)' = Live(h)
    BY <1>1, <1>2, <1>5, GroupsAssumption DEF Live
<1>9. Cardinality(Live(g)') = Cardinality(Live(g)) + n
  <2>1. IsFiniteSet(S)
      BY <1>1, GroupsAssumption, FS_Subset
  <2>2. IsFiniteSet(Live(g)) /\ Cardinality(Live(g)) \in Nat
      BY LiveFinite
  <2>3. Cardinality({}) = 0
      BY FS_EmptySet
  <2>4. Cardinality(Live(g) \cup S) = Cardinality(Live(g)) + Cardinality(S) - 0
      BY <1>7, <2>1, <2>2, <2>3, FS_Union
  <2> QED BY <1>1, <1>6, <2>2, <2>4, SMT
<1>10. \A h \in Groups : held'[h] = Cardinality(Live(h)')
  <2>1. \A h \in Groups : held[h] = Cardinality(Live(h))
      BY DEF LeaseAccounting
  <2>2. held'[g] = Cardinality(Live(g)')
      BY <1>2, <1>9, <2>1
  <2>3. \A h \in Groups \ {g} : held'[h] = Cardinality(Live(h)')
      BY <1>2, <1>8, <2>1
  <2> QED BY <2>2, <2>3
<1> QED BY <1>2, <1>3, <1>4, <1>10

(* A lease that is finished for the first time was live, so its group holds*)
(* at least one and its reserve is in use.                                 *)
LEMMA FinishAccounts ==
    ASSUME Inductive, NEW l \in Leases, Finish(l)
    PROVE  /\ used' \in Amount
           /\ held' \in [Groups -> Nat]
           /\ done' \in [Leases -> BOOLEAN]
           /\ LeaseAccounting'
           /\ FreshLeases'
           /\ FloorsProtected'
<1>0. PICK g \in Groups : g = owner[l]
    BY DEF Finish, Inductive, TypeOK
<1>1. /\ g = owner[l]
      /\ done[l] = FALSE
      /\ done' = [done EXCEPT ![l] = TRUE]
      /\ owner' = owner
      /\ used' = Minus(used, Reserve[g])
      /\ held' = [held EXCEPT ![g] = @ - 1]
      /\ held \in [Groups -> Nat]
      /\ used \in Amount
      /\ owner \in [Leases -> Groups \cup {NoGroup}]
      /\ done \in [Leases -> BOOLEAN]
    BY <1>0 DEF Finish, Inductive, TypeOK
<1>2. l \in Live(g) /\ Live(g)' = Live(g) \ {l}
    BY <1>1 DEF Live
<1>3. \A h \in Groups \ {g} : Live(h)' = Live(h)
    BY <1>1 DEF Live
<1>4. /\ Cardinality(Live(g)') = Cardinality(Live(g)) - 1
      /\ held[g] = Cardinality(Live(g))
      /\ held[g] > 0
  <2>1. IsFiniteSet(Live(g)) /\ Cardinality(Live(g)) \in Nat
      BY <1>1, LiveFinite
  <2>2. IsFiniteSet(Live(g) \ {l}) /\ Cardinality(Live(g) \ {l}) = Cardinality(Live(g)) - 1
      BY <1>2, <2>1, FS_RemoveElement
  <2>3. Cardinality(Live(g) \ {l}) \in Nat
      BY <2>2, FS_CardinalityType
  <2>4. held[g] = Cardinality(Live(g))
      BY <1>1 DEF Inductive, LeaseAccounting
  <2> QED BY <1>2, <2>1, <2>2, <2>3, <2>4, SMT
<1>5. held' \in [Groups -> Nat]
    BY <1>1, <1>4, SMT
<1>6. \A h \in Groups : held'[h] = Cardinality(Live(h)')
  <2>1. \A h \in Groups : held[h] = Cardinality(Live(h))
      BY DEF Inductive, LeaseAccounting
  <2>2. held'[g] = Cardinality(Live(g)')
      BY <1>1, <1>4
  <2>3. \A h \in Groups \ {g} : held'[h] = Cardinality(Live(h)')
      BY <1>1, <1>3, <2>1
  <2> QED BY <2>2, <2>3
<1>7. ASSUME NEW d \in Dims
      PROVE  /\ used'[d] = Sum(InUse(held', d))
             /\ used'[d] \in Nat
             /\ used[d] = used'[d] + Reserve[g][d]
             /\ Reserve[g][d] \in Nat
  <2>1. /\ Sum(InUse(held', d)) = Sum(InUse(held, d)) - Reserve[g][d]
        /\ Reserve[g][d] <= Sum(InUse(held, d))
      BY <1>1, <1>4, HoldLess
  <2>2. used[d] = Sum(InUse(held, d))
      BY DEF Inductive, LeaseAccounting
  <2>3. used'[d] = used[d] - Reserve[g][d] /\ used[d] \in Nat /\ Reserve[g][d] \in Nat
      BY <1>1, ConstantsTyped DEF Minus, Amount
  <2> QED BY <2>1, <2>2, <2>3, SMT
<1>8. used' \in Amount
  <2>1. used' = [d \in Dims |-> used'[d]]
      BY <1>1 DEF Minus
  <2> QED BY <1>7, <2>1 DEF Amount
<1>9. LeaseAccounting'
    BY <1>6, <1>7 DEF LeaseAccounting, InUse
<1>10. FreshLeases'
    BY <1>1, GroupsAssumption DEF FreshLeases, Inductive
<1>11. FloorsProtected'
  <2> SUFFICES ASSUME NEW d \in Dims, Total[d] > 0
               PROVE  used'[d] + Sum(Owing(held', d)) <= Total[d]
      BY DEF FloorsProtected, Fits, Owing, Missing
  <2>1. used[d] + Sum(Owing(held, d)) <= Total[d]
      BY DEF Inductive, FloorsProtected, Fits
  <2>2. \A x \in Groups \ {g} : held[x] = held'[x]
      BY <1>1
  <2>3. /\ Sum(Owing(held', d)) = Sum(Owing(held, d))
                                  - Reserve[g][d] * Missing(held, NoPlan, g)
                                  + Reserve[g][d] * Missing(held', NoPlan, g)
        /\ Sum(Owing(held, d)) \in Nat
    <3>1. PICK h, k : h = held /\ k = held'
        OBVIOUS
    <3>2. /\ h \in [Groups -> Nat]
          /\ k \in [Groups -> Nat]
          /\ \A x \in Groups \ {g} : h[x] = k[x]
        BY <1>1, <1>5, <2>2, <3>1
    <3>3. /\ Sum(Owing(k, d)) = Sum(Owing(h, d))
                                - Reserve[g][d] * Missing(h, NoPlan, g)
                                + Reserve[g][d] * Missing(k, NoPlan, g)
          /\ Sum(Owing(h, d)) \in Nat
        BY <3>2, OweUpdate
    <3> QED BY <3>1, <3>3
  <2>4. /\ Missing(held, NoPlan, g) \in Nat
        /\ Missing(held', NoPlan, g) \in Nat
        /\ \/ Missing(held', NoPlan, g) = Missing(held, NoPlan, g)
           \/ Missing(held', NoPlan, g) = Missing(held, NoPlan, g) + 1
    <3>1. /\ Missing(held, NoPlan, g) \in Nat
          /\ Missing(held, NoPlan, g) = IF held[g] < MinRunners[g]
                                        THEN MinRunners[g] - held[g] ELSE 0
        BY <1>1, MissingTyped
    <3>2. /\ Missing(held', NoPlan, g) \in Nat
          /\ Missing(held', NoPlan, g) = IF held'[g] < MinRunners[g]
                                         THEN MinRunners[g] - held'[g] ELSE 0
        BY <1>1, <1>5, MissingTyped
    <3>3. held'[g] = held[g] - 1 /\ held[g] \in Nat /\ MinRunners[g] \in Nat
        BY <1>1, ConstantsTyped
    <3> QED BY <3>1, <3>2, <3>3, SMT
  <2>5. /\ Reserve[g][d] * Missing(held, NoPlan, g) \in Nat
        /\ Reserve[g][d] * Missing(held', NoPlan, g)
               <= Reserve[g][d] * Missing(held, NoPlan, g) + Reserve[g][d]
        /\ Reserve[g][d] * Missing(held', NoPlan, g) \in Nat
    <3>1. Reserve[g][d] * 1 = Reserve[g][d]
        BY <1>7, SMT
    <3>2. Reserve[g][d] * (Missing(held, NoPlan, g) + 1)
              = Reserve[g][d] * Missing(held, NoPlan, g) + Reserve[g][d] * 1
        BY <1>7, <2>4, Products
    <3>3. /\ Reserve[g][d] * Missing(held, NoPlan, g) \in Nat
          /\ Reserve[g][d] * Missing(held', NoPlan, g) \in Nat
        BY <1>7, <2>4, Products
    <3> QED BY <3>1, <3>2, <3>3, <2>4, <1>7, SMT
  <2> QED BY <2>1, <2>3, <2>5, <1>7, ConstantsTyped, SMT
<1> QED BY <1>1, <1>5, <1>8, <1>9, <1>10, <1>11

-----------------------------------------------------------------------------
(* One request: Acquire, and the request a woken group makes.              *)
LEMMA AskKeeps ==
    ASSUME Inductive, NEW g \in Groups, NEW want \in Nat, Ask(g, want)
    PROVE  /\ used' \in Amount
           /\ held' \in [Groups -> Nat]
           /\ waiting' \in [Groups -> Nat]
           /\ ahead' \in [Groups -> SUBSET Groups]
           /\ closed' = closed /\ registered' = registered /\ saturated' = saturated
           /\ owner' \in [Leases -> Groups \cup {NoGroup}]
           /\ done' \in [Leases -> BOOLEAN]
           /\ wakeCh' = wakeCh
           /\ changeCh' \in BOOLEAN
           /\ owed' \in SUBSET Groups
           /\ LeaseAccounting'
           /\ FreshLeases'
           /\ FloorsProtected'
<1>1. /\ used \in Amount /\ held \in [Groups -> Nat]
      /\ waiting \in [Groups -> Nat] /\ ahead \in [Groups -> SUBSET Groups]
      /\ changeCh \in BOOLEAN /\ owed \in SUBSET Groups
    BY DEF Inductive, TypeOK
<1>2. owed' \in SUBSET Groups
    BY <1>1 DEF Ask
<1>3. CASE GrantUnbounded(g, want)
  <2>1. /\ held' \in [Groups -> Nat]
        /\ owner' \in [Leases -> Groups \cup {NoGroup}]
        /\ done' \in [Leases -> BOOLEAN]
        /\ FreshLeases'
        /\ \A h \in Groups : held'[h] = Cardinality(Live(h)')
      BY <1>3, IssueAccounts DEF GrantUnbounded, Inductive
  <2>2. /\ held' = [held EXCEPT ![g] = @ + want]
        /\ used' = used
        /\ UNCHANGED <<entries, signals>>
        /\ \A d \in Dims : Reserve[g][d] = 0
      BY <1>3 DEF GrantUnbounded, Issue, HeldWith, IsZero
  <2>3. ASSUME NEW d \in Dims
        PROVE  /\ used'[d] = Sum(InUse(held', d))
               /\ Sum(Owing(held', d)) = Sum(Owing(held, d))
    <3>1. InUse(held', d) = InUse(held, d)
      <4>1. \A h \in Groups : Reserve[h][d] * held'[h] = Reserve[h][d] * held[h]
        <5>1. \A h \in Groups \ {g} : held'[h] = held[h]
            BY <1>1, <2>2
        <5>2. held[g] \in Nat /\ held'[g] \in Nat
            BY <1>1, <2>1
        <5>3. Reserve[g][d] * held'[g] = 0 /\ Reserve[g][d] * held[g] = 0
            BY <2>2, <5>2, SMT
        <5> QED BY <5>1, <5>3
      <4> QED BY <4>1 DEF InUse
    <3>2. Owing(held', d) = Owing(held, d)
      <4>1. \A h \in Groups : Reserve[h][d] * Missing(held', NoPlan, h)
                                  = Reserve[h][d] * Missing(held, NoPlan, h)
        <5>1. \A h \in Groups \ {g} : Missing(held', NoPlan, h) = Missing(held, NoPlan, h)
            BY <1>1, <2>2 DEF Missing
        <5>2. Missing(held, NoPlan, g) \in Nat /\ Missing(held', NoPlan, g) \in Nat
            BY <1>1, <2>1, MissingTyped
        <5>3. /\ Reserve[g][d] * Missing(held', NoPlan, g) = 0
              /\ Reserve[g][d] * Missing(held, NoPlan, g) = 0
            BY <2>2, <5>2, SMT
        <5> QED BY <5>1, <5>3
      <4> QED BY <4>1 DEF Owing
    <3> QED BY <2>2, <3>1, <3>2 DEF Inductive, LeaseAccounting
  <2>4. LeaseAccounting'
      BY <2>1, <2>3 DEF LeaseAccounting, InUse
  <2>5. FloorsProtected'
    <3>1. \A d \in Dims : Total[d] > 0 => used'[d] + Sum(Owing(held', d)) <= Total[d]
        BY <2>2, <2>3 DEF Inductive, FloorsProtected, Fits
    <3> QED BY <3>1 DEF FloorsProtected, Fits, Owing, Missing
  <2> QED BY <1>1, <1>2, <2>1, <2>2, <2>4, <2>5 DEF entries, signals
<1>4. CASE GrantBounded(g, want)
  <2>1. PICK n \in 0 .. want :
            /\ Grants(g, want, n)
            /\ Issue(g, n)
            /\ used' = UsedWith(g, n)
            /\ IF g \in closed
               THEN UNCHANGED <<waiting, ahead>>
               ELSE UpdateWaiting(g, want - n)
            /\ changeCh' = (changeCh \/ n > 0 \/ (waiting'[g] > 0) # (waiting[g] > 0))
      BY <1>4 DEF GrantBounded
  <2>2. n \in Nat /\ want - n \in Nat
      BY SMT
  <2>3. /\ held' \in [Groups -> Nat]
        /\ owner' \in [Leases -> Groups \cup {NoGroup}]
        /\ done' \in [Leases -> BOOLEAN]
        /\ FreshLeases'
        /\ \A h \in Groups : held'[h] = Cardinality(Live(h)')
      BY <2>1, <2>2, IssueAccounts DEF Inductive
  <2>4. held' = HeldWith(g, n) /\ held' = [held EXCEPT ![g] = @ + n]
      BY <2>1 DEF Issue, HeldWith
  <2>5. waiting' \in [Groups -> Nat] /\ ahead' \in [Groups -> SUBSET Groups]
    <3>1. CASE g \in closed
        BY <1>1, <2>1, <3>1
    <3>2. CASE g \notin closed
      <4>1. waiting' = [waiting EXCEPT ![g] = want - n]
          BY <2>1, <3>2 DEF UpdateWaiting
      <4>2. Waiters \in SUBSET Groups /\ LeaveLine(g) \in [Groups -> SUBSET Groups]
          BY <1>1 DEF Waiters, LeaveLine
      <4>3. \/ ahead' = [ahead EXCEPT ![g] = Waiters]
            \/ ahead' = LeaveLine(g)
            \/ ahead' = ahead
          BY <2>1, <3>2 DEF UpdateWaiting
      <4> QED BY <1>1, <2>2, <4>1, <4>2, <4>3
    <3> QED BY <3>1, <3>2
  <2>6. changeCh' \in BOOLEAN
      BY <2>1
  <2>7. ASSUME NEW d \in Dims
        PROVE  used'[d] = Sum(InUse(held', d)) /\ used'[d] \in Nat
    <3>1. PICK h : h = held
        OBVIOUS
    <3>2. Sum(InUse([h EXCEPT ![g] = @ + n], d)) = Sum(InUse(h, d)) + Reserve[g][d] * n
        BY <1>1, <2>2, <3>1, HoldMore
    <3>3. used'[d] = used[d] + Reserve[g][d] * n
        BY <2>1 DEF UsedWith, Plus, Times
    <3>4. used[d] = Sum(InUse(held, d)) /\ used[d] \in Nat
        BY <1>1 DEF Inductive, LeaseAccounting, Amount
    <3>5. Reserve[g][d] * n \in Nat
        BY <2>2, ConstantsTyped, Products
    <3> QED BY <2>4, <3>1, <3>2, <3>3, <3>4, <3>5, SMT
  <2>8. used' \in Amount
    <3>1. used' = [d \in Dims |-> used'[d]]
        BY <2>1 DEF UsedWith, Plus
    <3> QED BY <2>7, <3>1 DEF Amount
  <2>9. LeaseAccounting'
      BY <2>3, <2>7 DEF LeaseAccounting, InUse
  <2>10. FloorsProtected'
    <3>1. Fits(Total, UsedWith(g, n), [d \in Dims |-> Sum(Owing(HeldWith(g, n), d))])
        BY <2>1, GrantsKeepFloors DEF Inductive
    <3>2. \A d \in Dims : Total[d] > 0 => used'[d] + Sum(Owing(held', d)) <= Total[d]
        BY <2>1, <2>4, <3>1 DEF Fits
    <3> QED BY <3>2 DEF FloorsProtected, Fits, Owing, Missing
  <2>11. closed' = closed /\ registered' = registered /\ saturated' = saturated /\ wakeCh' = wakeCh
      BY <1>4 DEF GrantBounded
  <2> QED BY <1>2, <2>3, <2>5, <2>6, <2>8, <2>9, <2>10, <2>11
<1> QED BY <1>3, <1>4 DEF Ask

-----------------------------------------------------------------------------
(* The inductive invariant.                                                *)

(* An allocator without leases satisfies the invariant, because the        *)
(* minimums of a valid configuration fit the host.                         *)
LEMMA InitInductive == Init => Inductive
<1> SUFFICES ASSUME Init PROVE Inductive
    OBVIOUS
<1>1. TypeOK
  <2>1. used \in Amount
      BY SMT DEF Init, Zero, Amount
  <2>2. held \in [Groups -> Nat] /\ waiting \in [Groups -> Nat]
      BY SMT DEF Init
  <2>3. ahead \in [Groups -> SUBSET Groups]
      BY DEF Init
  <2>4. queue \in Seq(Groups)
      BY SMT DEF Init
  <2>5. /\ owner \in [Leases -> Groups \cup {NoGroup}]
        /\ done \in [Leases -> BOOLEAN]
      BY DEF Init
  <2>6. /\ closed \in SUBSET Groups /\ registered \in SUBSET Groups
        /\ saturated \in SUBSET Groups /\ notifying \in SUBSET Groups
        /\ owed \in SUBSET Groups
        /\ wakeCh \in BOOLEAN /\ changeCh \in BOOLEAN /\ cancelled \in BOOLEAN
        /\ running \in SUBSET {"wake", "notify"}
      BY DEF Init
  <2> QED BY <2>1, <2>2, <2>3, <2>4, <2>5, <2>6 DEF TypeOK
<1>2. \A g \in Groups : held[g] = 0 /\ held \in [Groups -> Nat]
    BY SMT DEF Init
<1>3. \A g \in Groups : Live(g) = {}
    BY GroupsAssumption DEF Init, Live
<1>4. LeaseAccounting
  <2>1. \A g \in Groups : held[g] = Cardinality(Live(g))
      BY <1>2, <1>3, FS_EmptySet
  <2>2. ASSUME NEW d \in Dims
        PROVE  used[d] = Sum(InUse(held, d))
    <3>1. PICK h : h = held
        OBVIOUS
    <3>2. h = [g \in Groups |-> 0]
        BY <3>1 DEF Init
    <3>3. InUse(h, d) \in [Groups -> Nat] /\ \A g \in Groups : InUse(h, d)[g] = 0
        BY <3>2, ConstantsTyped, Products DEF InUse
    <3>4. Sum(InUse(h, d)) = 0
        BY <3>3, SumOfZero
    <3> QED BY <3>1, <3>4 DEF Init, Zero
  <2> QED BY <2>1, <2>2 DEF LeaseAccounting
<1>5. FreshLeases
    BY DEF Init, FreshLeases
<1>6. FloorsProtected
  <2> SUFFICES ASSUME NEW d \in Dims, Total[d] > 0
               PROVE  used[d] + Sum(Owing(held, d)) <= Total[d]
      BY DEF FloorsProtected, Fits
  <2>1. Owing(held, d) = [g \in Groups |-> Reserve[g][d] * MinRunners[g]]
    <3>1. \A g \in Groups : Missing(held, NoPlan, g) = MinRunners[g]
        BY <1>2, ConstantsTyped, SMT DEF Missing, Monus, NoPlan
    <3> QED BY <3>1 DEF Owing
  <2>2. Sum([g \in Groups |-> Reserve[g][d] * MinRunners[g]]) + Zero[d] <= Total[d]
      BY FloorsFit DEF Fits
  <2>3. PICK f : f = [g \in Groups |-> Reserve[g][d] * MinRunners[g]]
      OBVIOUS
  <2>4. f \in [Groups -> Nat]
      BY <2>3, ConstantsTyped, Products
  <2>5. Sum(f) \in Nat
      BY <2>4, SumNat, GroupsAssumption
  <2>6. used[d] = 0 /\ Zero[d] = 0
      BY DEF Init, Zero
  <2> QED BY <2>1, <2>2, <2>3, <2>5, <2>6, ConstantsTyped, SMT
<1> QED BY <1>1, <1>4, <1>5, <1>6 DEF Inductive

(* A step that leaves the budget alone leaves the accounts alone.          *)
LEMMA BudgetUntouched ==
    ASSUME Inductive, UNCHANGED budget
    PROVE  LeaseAccounting' /\ FreshLeases' /\ FloorsProtected'
BY DEF Inductive, budget, LeaseAccounting, FreshLeases, FloorsProtected, Live, InUse,
       Owing, Missing

(* The order in which a pass calls its wakers is a sequence of groups.     *)
LEMMA QueueTyped ==
    ASSUME NEW S \in SUBSET Groups, NEW q \in [1 .. Cardinality(S) -> S]
    PROVE  q \in Seq(Groups)
<1>1. IsFiniteSet(S)
    BY GroupsAssumption, FS_Subset
<1>2. Cardinality(S) \in Nat
    BY <1>1, FS_CardinalityType
<1>3. q \in [1 .. Cardinality(S) -> Groups]
    OBVIOUS
<1> QED BY <1>2, <1>3, SMT

(* Every call, and every step of the loops, preserves the invariant.       *)
LEMMA StepInductive == Inductive /\ [Next]_vars => Inductive'
<1> SUFFICES ASSUME Inductive, [Next]_vars PROVE Inductive'
    OBVIOUS
<1>0. TypeOK
    BY DEF Inductive
<1>1. CASE UNCHANGED vars
  <2>1. TypeOK'
      BY <1>0, <1>1 DEF TypeOK, vars, budget, entries, signals, loops
  <2>2. UNCHANGED budget
      BY <1>1 DEF vars
  <2> QED BY <2>1, <2>2, BudgetUntouched DEF Inductive
<1>2. ASSUME NEW g \in Groups, Register(g)
      PROVE  Inductive'
  <2>1. TypeOK'
      BY <1>0, <1>2 DEF TypeOK, Register, budget, loops
  <2> QED BY <1>2, <2>1, BudgetUntouched DEF Inductive, Register
<1>3. ASSUME NEW g \in Groups, Unregister(g)
      PROVE  Inductive'
  <2>1. LeaveLine(g) \in [Groups -> SUBSET Groups]
      BY <1>0 DEF TypeOK, LeaveLine
  <2>2. TypeOK'
      BY <1>0, <1>3, <2>1 DEF TypeOK, Unregister, budget, loops
  <2> QED BY <1>3, <2>2, BudgetUntouched DEF Inductive, Unregister
<1>4. ASSUME NEW g \in Groups, NEW loaded \in BOOLEAN, SetSaturated(g, loaded)
      PROVE  Inductive'
  <2>1. TypeOK'
      BY <1>0, <1>4 DEF TypeOK, SetSaturated, budget, loops
  <2> QED BY <1>4, <2>1, BudgetUntouched DEF Inductive, SetSaturated
<1>5. ASSUME NEW g \in Groups, NEW want \in 0 .. MaxRunners[g], Acquire(g, want)
      PROVE  Inductive'
  <2>1. want \in Nat
      BY ConstantsTyped, SMT
  <2>2. Ask(g, want) /\ UNCHANGED loops
      BY <1>5 DEF Acquire
  <2> QED BY <1>0, <2>1, <2>2, AskKeeps DEF Inductive, TypeOK, loops
<1>6. ASSUME NEW g \in Groups, NotifyCall(g)
      PROVE  Inductive'
  <2>1. TypeOK'
      BY <1>0, <1>6 DEF TypeOK, NotifyCall, budget, entries, signals
  <2> QED BY <1>6, <2>1, BudgetUntouched DEF Inductive, NotifyCall
<1>7. ASSUME NEW l \in Leases, Release(l)
      PROVE  Inductive'
  <2>1. Finish(l)
      BY <1>7 DEF Release
  <2>2. owed' \in SUBSET Groups
      BY <1>0, <1>7 DEF Release, TypeOK
  <2> QED BY <1>0, <1>7, <2>1, <2>2, FinishAccounts
          DEF Inductive, TypeOK, Release, Finish, entries, loops
<1>8. ASSUME NEW l \in Leases, Cancel(l)
      PROVE  Inductive'
  <2>1. Finish(l)
      BY <1>8 DEF Cancel
  <2> QED BY <1>0, <1>8, <2>1, FinishAccounts
          DEF Inductive, TypeOK, Cancel, Finish, entries, loops
<1>9. ASSUME NEW l \in Leases, Forget(l)
      PROVE  Inductive'
  <2>1. TypeOK'
      BY <1>0, <1>9 DEF TypeOK, Forget, entries, signals, loops
  <2>2. \A g \in Groups : Live(g)' = Live(g)
      BY <1>0, <1>9, GroupsAssumption DEF Live, Forget, TypeOK
  <2>3. LeaseAccounting'
      BY <1>9, <2>2 DEF Inductive, LeaseAccounting, Forget, InUse
  <2>4. FreshLeases'
      BY <1>0, <1>9 DEF Inductive, FreshLeases, Forget, TypeOK
  <2>5. FloorsProtected'
      BY <1>9 DEF Inductive, FloorsProtected, Forget, Owing, Missing
  <2> QED BY <2>1, <2>3, <2>4, <2>5 DEF Inductive
<1>10. ASSUME WakeTake
       PROVE  Inductive'
  <2>1. PICK S \in SUBSET Groups : S = Waiters \cap registered
      BY <1>0 DEF TypeOK
  <2>2. PICK q \in [1 .. Cardinality(S) -> S] : queue' = q
      BY <1>10, <2>1 DEF WakeTake
  <2>3. queue' \in Seq(Groups)
      BY <2>2, QueueTyped
  <2>4. TypeOK'
      BY <1>0, <1>10, <2>3 DEF TypeOK, WakeTake, budget, entries
  <2> QED BY <1>10, <2>4, BudgetUntouched DEF Inductive, WakeTake
<1>11. ASSUME queue # <<>>, NEW want \in 0 .. MaxRunners[Head(queue)], WakeCall(want)
       PROVE  Inductive'
  <2>1. PICK g \in Groups : g = Head(queue)
      BY <1>0, <1>11, SMT DEF TypeOK
  <2>2. want \in Nat
      BY <1>11, <2>1, ConstantsTyped, SMT
  <2>3. Ask(g, want) /\ queue' = Tail(queue) /\ UNCHANGED <<notifying, cancelled, running>>
      BY <1>11, <2>1 DEF WakeCall
  <2>4. queue' \in Seq(Groups)
      BY <1>0, <1>11, <2>3, SMT DEF TypeOK
  <2> QED BY <1>0, <2>2, <2>3, <2>4, AskKeeps DEF Inductive, TypeOK
<1>12. ASSUME WakeAbort
       PROVE  Inductive'
  <2>1. TypeOK'
      BY <1>0, <1>12 DEF TypeOK, WakeAbort, budget, entries, signals
  <2> QED BY <1>12, <2>1, BudgetUntouched DEF Inductive, WakeAbort
<1>13. ASSUME NotifyTake
       PROVE  Inductive'
  <2>1. TypeOK'
      BY <1>0, <1>13 DEF TypeOK, NotifyTake, budget, entries
  <2> QED BY <1>13, <2>1, BudgetUntouched DEF Inductive, NotifyTake
<1>14. ASSUME CtxDone
       PROVE  Inductive'
  <2>1. TypeOK'
      BY <1>0, <1>14 DEF TypeOK, CtxDone, budget, entries, signals
  <2> QED BY <1>14, <2>1, BudgetUntouched DEF Inductive, CtxDone
<1>15. ASSUME NEW loop \in {"wake", "notify"}, LoopReturns(loop)
       PROVE  Inductive'
  <2>1. TypeOK'
      BY <1>0, <1>15 DEF TypeOK, LoopReturns, budget, entries, signals
  <2> QED BY <1>15, <2>1, BudgetUntouched DEF Inductive, LoopReturns
<1>16. CASE Next
    BY <1>2, <1>3, <1>4, <1>5, <1>6, <1>7, <1>8, <1>9, <1>10, <1>11, <1>12, <1>13,
       <1>14, <1>15, <1>16 DEF Next
<1> QED BY <1>1, <1>16

(* The invariant holds in every reachable state.                           *)
THEOREM Invariance == Spec => []Inductive
BY InitInductive, StepInductive, PTL DEF Spec

-----------------------------------------------------------------------------
(* Every variable keeps its type, in every configuration.                  *)
THEOREM TypeCorrect == Spec => []TypeOK
<1>1. Inductive => TypeOK
    BY DEF Inductive
<1> QED BY <1>1, Invariance, PTL

(* Every unit in use belongs to exactly one unfinished lease, however often*)
(* and by whomever leases are released and cancelled (lease.go:21-38).     *)
THEOREM LeasesAccountForUse == Spec => []LeaseAccounting
<1>1. Inductive => LeaseAccounting
    BY DEF Inductive
<1> QED BY <1>1, Invariance, PTL

(* The minimums of all groups remain payable (admission.go:10-15).         *)
THEOREM FloorsStayProtected == Spec => []FloorsProtected
<1>1. Inductive => FloorsProtected
    BY DEF Inductive
<1> QED BY <1>1, Invariance, PTL

(* No mix of groups, reserves and calls overcommits the host.              *)
THEOREM NeverOvercommitted == Spec => []NoOvercommit
<1>1. Inductive => NoOvercommit
  <2> SUFFICES ASSUME Inductive, NEW d \in Dims, Total[d] > 0
               PROVE  used[d] + Zero[d] <= Total[d]
      BY DEF NoOvercommit, Fits
  <2>1. used[d] + Sum(Owing(held, d)) <= Total[d]
      BY DEF Inductive, FloorsProtected, Fits
  <2>2. held \in [Groups -> Nat] /\ used[d] \in Nat /\ Total[d] \in Nat
      BY ConstantsTyped DEF Inductive, TypeOK, Amount
  <2>3. Sum(Owing(held, d)) \in Nat
      BY <2>2, OwingTyped, SumNat, GroupsAssumption
  <2> QED BY <2>1, <2>2, <2>3, SMT DEF Zero
<1> QED BY <1>1, Invariance, PTL

(* A group below its minimum is admitted in every reachable state: nothing *)
(* the other groups may have done before can have taken its place.         *)
THEOREM FloorsAreAdmitted == Spec => []FloorAlwaysAdmitted
<1>1. Inductive => FloorAlwaysAdmitted
  <2> SUFFICES ASSUME Inductive, NEW g \in Groups, held[g] < MinRunners[g]
               PROVE  Admit(g, held, NoPlan, used)
      BY DEF FloorAlwaysAdmitted
  <2>1. held \in [Groups -> Nat] /\ held[g] \in Nat /\ MinRunners[g] \in Nat
      BY ConstantsTyped DEF Inductive, TypeOK
  <2>2. held[g] + NoPlan[g] < MinRunners[g]
      BY <2>1, SMT DEF NoPlan
  <2>3. ASSUME NEW d \in Dims, Total[d] > 0
        PROVE  used[d] + Reserve[g][d] <= Total[d]
    <3>1. PICK h \in [Groups -> Nat] : h = held
        BY <2>1
    <3>2. Missing(h, NoPlan, g) \in Nat /\ Missing(h, NoPlan, g) > 0
      <4>1. /\ Missing(h, NoPlan, g) \in Nat
            /\ Missing(h, NoPlan, g) = IF h[g] < MinRunners[g]
                                       THEN MinRunners[g] - h[g] ELSE 0
          BY <3>1, MissingTyped
      <4> QED BY <2>1, <3>1, <4>1, SMT
    <3>3. Reserve[g][d] <= Reserve[g][d] * Missing(h, NoPlan, g)
        BY <3>2, ConstantsTyped, Products
    <3>4. /\ Reserve[g][d] * Missing(h, NoPlan, g) <= Sum(Owing(h, d))
          /\ Sum(Owing(h, d)) \in Nat
        BY <3>1, OweUpdate
    <3>5. used[d] + Sum(Owing(held, d)) <= Total[d]
        BY <2>3 DEF Inductive, FloorsProtected, Fits
    <3>6. /\ used[d] \in Nat /\ Total[d] \in Nat /\ Reserve[g][d] \in Nat
          /\ Reserve[g][d] * Missing(h, NoPlan, g) \in Nat
        BY <3>2, ConstantsTyped, Products DEF Inductive, TypeOK, Amount
    <3> QED BY <3>1, <3>3, <3>4, <3>5, <3>6, SMT
  <2>4. Fits(Total, used, Reserve[g])
      BY <2>3 DEF Fits
  <2> QED BY <2>2, <2>4 DEF Admit
<1> QED BY <1>1, Invariance, PTL

-----------------------------------------------------------------------------
(* The refinement.  What every group holds starts at nothing, and each     *)
(* call either leaves it alone, takes one runner from a group, or gives a  *)
(* group more runners with every minimum still payable afterwards.         *)

(* What Budget sums for a group is what the group holds and what it is     *)
(* missing to its minimum.                                                 *)
LEMMA CommittedSplits ==
    ASSUME NEW h \in [Groups -> Nat], NEW d \in Dims
    PROVE  Promise!Committed(h)[d] = Sum(InUse(h, d)) + Sum(Owing(h, d))
<1>1. PICK a \in [Groups -> Nat] : a = InUse(h, d)
    BY InUseTyped
<1>2. PICK b \in [Groups -> Nat] : b = Owing(h, d)
    BY OwingTyped
<1>3. \A g \in Groups :
        Reserve[g][d] * Larger(h[g], MinRunners[g]) = a[g] + b[g]
  <2> SUFFICES ASSUME NEW g \in Groups
               PROVE  Reserve[g][d] * Larger(h[g], MinRunners[g]) = a[g] + b[g]
      OBVIOUS
  <2>1. /\ Missing(h, NoPlan, g) \in Nat
        /\ Missing(h, NoPlan, g) = IF h[g] < MinRunners[g]
                                   THEN MinRunners[g] - h[g] ELSE 0
      BY MissingTyped
  <2>2. h[g] \in Nat /\ MinRunners[g] \in Nat /\ Reserve[g][d] \in Nat
      BY ConstantsTyped
  <2>3. Larger(h[g], MinRunners[g]) = h[g] + Missing(h, NoPlan, g)
      BY <2>1, <2>2, SMT DEF Larger
  <2>4. Reserve[g][d] * (h[g] + Missing(h, NoPlan, g))
          = Reserve[g][d] * h[g] + Reserve[g][d] * Missing(h, NoPlan, g)
    <3>1. \A i, j, k \in Nat : i * (j + k) = i * j + i * k
        BY Products
    <3> QED BY <3>1, <2>1, <2>2, Zenon
  <2>5. /\ a[g] = Reserve[g][d] * h[g]
        /\ b[g] = Reserve[g][d] * Missing(h, NoPlan, g)
      BY <1>1, <1>2 DEF InUse, Owing
  <2> QED BY <2>3, <2>4, <2>5
<1>4. [g \in Groups |-> Reserve[g][d] * Larger(h[g], MinRunners[g])]
        = [g \in Groups |-> a[g] + b[g]]
    BY <1>3
<1>5. Sum([g \in Groups |-> a[g] + b[g]]) = Sum(a) + Sum(b)
    BY SumAdd, GroupsAssumption
<1>6. Promise!Committed(h)[d]
        = Sum([g \in Groups |-> Reserve[g][d] * Larger(h[g], MinRunners[g])])
  <2>1. \A m, n : Promise!Larger(m, n) = Larger(m, n)
      BY DEF Promise!Larger, Larger
  <2>2. \A f : Promise!Sum(f) = Sum(f)
      BY Zenon DEF Promise!Sum, Promise!Tokens, Promise!Cardinality, Sum, Tokens, Cardinality
  <2>3. Promise!Dims = Dims
      BY DEF Promise!Dims, Dims
  <2> QED BY <2>1, <2>2, <2>3 DEF Promise!Committed
<1> QED BY <1>1, <1>2, <1>4, <1>5, <1>6

(* Accounts that agree and floors that fit make the holdings honourable.   *)
LEMMA AccountsHonourable ==
    ASSUME NEW h \in [Groups -> Nat], NEW u \in Amount,
           \A d \in Dims : u[d] = Sum(InUse(h, d)),
           Fits(Total, u, [d \in Dims |-> Sum(Owing(h, d))])
    PROVE  Promise!Honourable(h)
<1> SUFFICES ASSUME NEW d \in Dims, Total[d] > 0
             PROVE  Promise!Committed(h)[d] + Zero[d] <= Total[d]
    BY DEF Promise!Honourable, Promise!Fits, Promise!Dims, Dims, Promise!Zero, Zero
<1>1. u[d] + Sum(Owing(h, d)) <= Total[d]
    BY DEF Fits
<1>2. Promise!Committed(h)[d] = u[d] + Sum(Owing(h, d))
    BY CommittedSplits
<1>3. Sum(Owing(h, d)) \in Nat /\ u[d] \in Nat /\ Zero[d] = 0
    BY OwingTyped, SumNat, GroupsAssumption DEF Amount, Zero
<1> QED BY <1>1, <1>2, <1>3, SMT

(* Leases handed out make a group grow, or leave everything as it is.      *)
LEMMA IssueGrows ==
    ASSUME Inductive, Inductive', NEW g \in Groups, NEW n \in Nat, Issue(g, n)
    PROVE  Promise!Grow(g) \/ held' = held
<1>1. /\ held \in [Groups -> Nat]
      /\ held' = [held EXCEPT ![g] = @ + n]
      /\ held' \in [Groups -> Nat] /\ used' \in Amount
    BY DEF Issue, HeldWith, Inductive, TypeOK
<1>2. CASE n = 0
  <2>1. \A h \in Groups : held'[h] = held[h]
      BY <1>1, <1>2, SMT
  <2> QED BY <1>1, <2>1
<1>3. CASE n # 0
  <2>1. held'[g] = held[g] + n /\ held[g] \in Nat /\ held'[g] \in Nat
      BY <1>1
  <2>2. held'[g] > held[g]
      BY <1>3, <2>1, SMT
  <2>3. held' = [held EXCEPT ![g] = held'[g]]
      BY <1>1, <2>1
  <2>4. Promise!Honourable(held')
    <3>1. \A d \in Dims : used'[d] = Sum(InUse(held', d))
        BY DEF Inductive, LeaseAccounting, InUse
    <3>2. Fits(Total, used', [d \in Dims |-> Sum(Owing(held', d))])
        BY DEF Inductive, FloorsProtected, Owing, Missing, Fits
    <3> QED BY <1>1, <3>1, <3>2, AccountsHonourable
  <2> QED BY <2>1, <2>2, <2>3, <2>4 DEF Promise!Grow
<1> QED BY <1>2, <1>3

(* A finished lease makes its group shrink.                                *)
LEMMA FinishShrinks ==
    ASSUME Inductive, NEW l \in Leases, Finish(l)
    PROVE  \E g \in Groups : Promise!Shrink(g)
<1>1. PICK g \in Groups : g = owner[l]
    BY DEF Finish, Inductive, TypeOK
<1>2. held' = [held EXCEPT ![g] = @ - 1]
    BY <1>1 DEF Finish
<1>3. held[g] > 0
  <2>1. l \in Live(g)
      BY <1>1 DEF Finish, Live, Inductive, TypeOK
  <2>2. IsFiniteSet(Live(g)) /\ Cardinality(Live(g)) \in Nat
      BY LiveFinite
  <2>3. Cardinality(Live(g)) # 0
      BY <2>1, <2>2, FS_EmptySet
  <2>4. held[g] = Cardinality(Live(g))
      BY DEF Inductive, LeaseAccounting
  <2> QED BY <2>2, <2>3, <2>4, SMT
<1> QED BY <1>2, <1>3 DEF Promise!Shrink

(* A request makes the group that asked grow, or changes nothing held.     *)
LEMMA AskGrows ==
    ASSUME Inductive, Inductive', NEW g \in Groups, NEW want \in Nat, Ask(g, want)
    PROVE  Promise!Grow(g) \/ held' = held
<1>1. CASE GrantUnbounded(g, want)
    BY <1>1, IssueGrows DEF GrantUnbounded
<1>2. CASE GrantBounded(g, want)
  <2>1. PICK n \in 0 .. want : Issue(g, n)
      BY <1>2 DEF GrantBounded
  <2> QED BY <2>1, IssueGrows, SMT
<1> QED BY <1>1, <1>2 DEF Ask

(* Every step of the allocator is a step of the budget or leaves it alone. *)
LEMMA StepImplements ==
    Inductive /\ Inductive' /\ [Next]_vars => [Promise!BudgetNext]_held
<1> SUFFICES ASSUME Inductive, Inductive', [Next]_vars
             PROVE  Promise!BudgetNext \/ held' = held
    OBVIOUS
<1>1. ASSUME NEW g \in Groups, NEW want \in 0 .. MaxRunners[g], Acquire(g, want)
      PROVE  Promise!BudgetNext \/ held' = held
  <2>1. want \in Nat
      BY ConstantsTyped, SMT
  <2> QED BY <1>1, <2>1, AskGrows DEF Acquire, Promise!BudgetNext
<1>2. ASSUME queue # <<>>, NEW want \in 0 .. MaxRunners[Head(queue)], WakeCall(want)
      PROVE  Promise!BudgetNext \/ held' = held
  <2>1. PICK g \in Groups : g = Head(queue)
      BY <1>2, SMT DEF Inductive, TypeOK
  <2>2. want \in Nat /\ Ask(g, want)
      BY <1>2, <2>1, ConstantsTyped, SMT DEF WakeCall
  <2> QED BY <2>2, AskGrows DEF Promise!BudgetNext
<1>3. ASSUME NEW l \in Leases, Release(l) \/ Cancel(l)
      PROVE  Promise!BudgetNext \/ held' = held
    BY <1>3, FinishShrinks DEF Release, Cancel, Promise!BudgetNext
<1>4. ASSUME UNCHANGED held
      PROVE  Promise!BudgetNext \/ held' = held
    BY <1>4
<1>5. CASE UNCHANGED vars
    BY <1>5 DEF vars, budget
<1>6. ASSUME NEW g \in Groups,
             \/ Register(g) \/ Unregister(g) \/ NotifyCall(g)
             \/ \E loaded \in BOOLEAN : SetSaturated(g, loaded)
      PROVE  held' = held
    BY <1>6 DEF Register, Unregister, NotifyCall, SetSaturated, budget
<1>7. ASSUME \/ \E l \in Leases : Forget(l)
             \/ WakeTake \/ WakeAbort \/ NotifyTake \/ CtxDone
             \/ \E loop \in {"wake", "notify"} : LoopReturns(loop)
      PROVE  held' = held
    BY <1>7 DEF Forget, WakeTake, WakeAbort, NotifyTake, CtxDone, LoopReturns, budget
<1>8. CASE Next
    BY <1>1, <1>2, <1>3, <1>6, <1>7, <1>8 DEF Next
<1> QED BY <1>5, <1>8

(* The allocator implements the abstract budget: admission, as the code    *)
(* computes it lease by lease, never lets a group grow unless the minimums *)
(* of all the others remain payable (admission.go:16-39).                  *)
THEOREM CapacityImplementsBudget == Spec => ImplementsBudget
<1>1. Init => Promise!BudgetInit
    BY DEF Init, Promise!BudgetInit
<1>2. Spec => []Inductive
    BY Invariance
<1> QED BY <1>1, <1>2, StepImplements, PTL DEF Spec, ImplementsBudget, Promise!BudgetSpec

-----------------------------------------------------------------------------
(* The line of waiting groups: they never form a circle, one of them is    *)
(* always first, no group overtakes another past its minimum, and no       *)
(* wake-up is lost.                                                        *)

(* The groups that are to be re-evaluated still wait and have a waker.     *)
OwedWait == owed \subseteq Waiters \cap registered

LineInv == OneLine /\ OwedWait /\ NoLostWake

-----------------------------------------------------------------------------
(* Operations on the line.                                                 *)

(* A group that leaves the line leaves the others in their order.          *)
LEMMA LeavingKeepsLine ==
    ASSUME TypeOK, OneLine, NEW g \in Groups,
           waiting' = [waiting EXCEPT ![g] = 0], ahead' = LeaveLine(g)
    PROVE  OneLine'
<1>1. Waiters' = Waiters \ {g}
    BY SMT DEF Waiters, TypeOK
<1>2. \A h \in Groups : ahead'[h] = IF h = g THEN {} ELSE ahead[h] \ {g}
    BY DEF LeaveLine
<1>3. \A h \in Groups : ahead'[h] \subseteq Waiters' \ {h}
  <2> SUFFICES ASSUME NEW h \in Groups, NEW x \in ahead'[h]
               PROVE  x \in Waiters' \ {h}
      OBVIOUS
  <2>1. h # g /\ x \in ahead[h] \ {g}
      BY <1>2
  <2> QED BY <1>1, <2>1 DEF OneLine
<1>4. ASSUME NEW a \in Waiters', NEW b \in Waiters', a # b
      PROVE  (a \in ahead'[b]) # (b \in ahead'[a])
  <2>1. a \in Waiters /\ b \in Waiters /\ a # g /\ b # g
      BY <1>1
  <2>2. (a \in ahead'[b] <=> a \in ahead[b]) /\ (b \in ahead'[a] <=> b \in ahead[a])
      BY <1>2, <2>1 DEF Waiters
  <2> QED BY <1>4, <2>1, <2>2 DEF OneLine
<1>5. ASSUME NEW a \in Waiters', NEW b \in Waiters', a \in ahead'[b]
      PROVE  ahead'[a] \subseteq ahead'[b]
  <2>1. a \in Waiters /\ b \in Waiters /\ a # g /\ b # g /\ a \in Groups /\ b \in Groups
      BY <1>1 DEF Waiters
  <2>2. ahead'[a] = ahead[a] \ {g} /\ ahead'[b] = ahead[b] \ {g}
      BY <1>2, <2>1
  <2>3. ahead[a] \subseteq ahead[b]
      BY <1>5, <2>1, <2>2 DEF OneLine
  <2> QED BY <2>2, <2>3
<1> QED BY <1>3, <1>4, <1>5 DEF OneLine

(* A group that begins to wait is behind all the others, and nobody is     *)
(* behind it.                                                              *)
LEMMA JoiningKeepsLine ==
    ASSUME TypeOK, OneLine, NEW g \in Groups, g \notin Waiters, NEW w \in Nat \ {0},
           waiting' = [waiting EXCEPT ![g] = w], ahead' = [ahead EXCEPT ![g] = Waiters]
    PROVE  OneLine'
<1>1. Waiters' = Waiters \cup {g}
    BY SMT DEF Waiters, TypeOK
<1>2. \A h \in Groups : ahead'[h] = IF h = g THEN Waiters ELSE ahead[h]
    BY DEF TypeOK
<1>3. \A h \in Groups : g \notin ahead[h]
    BY DEF OneLine
<1>4. \A h \in Groups : ahead'[h] \subseteq Waiters' \ {h}
    BY <1>1, <1>2 DEF OneLine
<1>5. ASSUME NEW a \in Waiters', NEW b \in Waiters', a # b
      PROVE  (a \in ahead'[b]) # (b \in ahead'[a])
  <2>0. a \in Groups /\ b \in Groups
      BY <1>1 DEF Waiters
  <2>1. CASE a = g
    <3>1. b \in ahead'[a] /\ a \notin ahead'[b]
        BY <1>1, <1>2, <1>3, <1>5, <2>0, <2>1
    <3> QED BY <3>1
  <2>2. CASE b = g
    <3>1. a \in ahead'[b] /\ b \notin ahead'[a]
        BY <1>1, <1>2, <1>3, <1>5, <2>0, <2>2
    <3> QED BY <3>1
  <2>3. CASE a # g /\ b # g
    <3>1. ahead'[a] = ahead[a] /\ ahead'[b] = ahead[b] /\ a \in Waiters /\ b \in Waiters
        BY <1>1, <1>2, <2>0, <2>3
    <3> QED BY <1>5, <3>1 DEF OneLine
  <2> QED BY <2>1, <2>2, <2>3
<1>6. ASSUME NEW a \in Waiters', NEW b \in Waiters', a \in ahead'[b]
      PROVE  ahead'[a] \subseteq ahead'[b]
  <2>0. a \in Groups /\ b \in Groups
      BY <1>1 DEF Waiters
  <2>1. a # g /\ a \in Waiters /\ ahead'[a] = ahead[a] /\ ahead[a] \subseteq Waiters
      BY <1>1, <1>2, <1>3, <1>6, <2>0 DEF OneLine
  <2>2. CASE b = g
      BY <1>2, <2>0, <2>1, <2>2
  <2>3. CASE b # g
      BY <1>1, <1>2, <1>6, <2>0, <2>1, <2>3 DEF OneLine
  <2> QED BY <2>2, <2>3
<1> QED BY <1>4, <1>5, <1>6 DEF OneLine

(* What a request does to the line.                                        *)
LEMMA UpdatingKeepsLine ==
    ASSUME TypeOK, OneLine, NEW g \in Groups, NEW w \in Nat, UpdateWaiting(g, w)
    PROVE  OneLine'
<1>0. waiting \in [Groups -> Nat] /\ waiting[g] \in Nat
    BY DEF TypeOK
<1>1. CASE w = 0
  <2>1. waiting' = [waiting EXCEPT ![g] = 0] /\ ahead' = LeaveLine(g)
      BY <1>1, SMT DEF UpdateWaiting
  <2> QED BY <2>1, LeavingKeepsLine
<1>2. CASE w > 0 /\ waiting[g] = 0
  <2>1. g \notin Waiters /\ w \in Nat \ {0}
      BY <1>2, SMT DEF Waiters
  <2> QED BY <1>2, <2>1, JoiningKeepsLine DEF UpdateWaiting
<1>3. CASE w > 0 /\ waiting[g] > 0
  <2>1. Waiters' = Waiters
      BY <1>0, <1>3, SMT DEF UpdateWaiting, Waiters
  <2>2. ahead' = ahead
      BY <1>0, <1>3, SMT DEF UpdateWaiting
  <2> QED BY <2>1, <2>2 DEF OneLine
<1> QED BY <1>0, <1>1, <1>2, <1>3, SMT

(* A request keeps the line in order, and changes whether a group waits    *)
(* for nobody but the group that asks.                                     *)
LEMMA AskKeepsLine ==
    ASSUME TypeOK, OneLine, NEW g \in Groups, NEW want \in Nat, Ask(g, want)
    PROVE  /\ OneLine'
           /\ Waiters \ {g} \subseteq Waiters'
           /\ owed' = owed \ {g} /\ registered' = registered /\ wakeCh' = wakeCh
<1>1. CASE GrantUnbounded(g, want)
  <2>1. waiting' = waiting /\ ahead' = ahead /\ registered' = registered /\ wakeCh' = wakeCh
      BY <1>1 DEF GrantUnbounded, entries, signals
  <2> QED BY <2>1 DEF Ask, OneLine, Waiters
<1>2. CASE GrantBounded(g, want)
  <2>1. /\ registered' = registered /\ wakeCh' = wakeCh
        /\ \/ UNCHANGED <<waiting, ahead>>
           \/ \E n \in 0 .. want : UpdateWaiting(g, want - n)
      BY <1>2 DEF GrantBounded
  <2>2. CASE UNCHANGED <<waiting, ahead>>
      BY <2>1, <2>2 DEF Ask, OneLine, Waiters
  <2>3. CASE \E n \in 0 .. want : UpdateWaiting(g, want - n)
    <3>1. PICK n \in 0 .. want : UpdateWaiting(g, want - n)
        BY <2>3
    <3>2. want - n \in Nat
        BY SMT
    <3>3. OneLine'
        BY <3>1, <3>2, UpdatingKeepsLine
    <3>4. Waiters \ {g} \subseteq Waiters'
        BY <3>1 DEF UpdateWaiting, Waiters, TypeOK
    <3> QED BY <2>1, <3>3, <3>4 DEF Ask
  <2> QED BY <2>1, <2>2, <2>3
<1> QED BY <1>1, <1>2 DEF Ask

-----------------------------------------------------------------------------
(* A pass calls every waker it took: the order it calls them in has no     *)
(* repetition, so a queue as long as the set has all of it.                *)
LEMMA PassCallsAll ==
    ASSUME TypeOK, OneLine, NEW q, WaitingWakers(q), NEW g \in Waiters \cap registered
    PROVE  \E i \in DOMAIN q : q[i] = g
<1> DEFINE S == Waiters \cap registered
           D == 1 .. Cardinality(S)
<1>1. IsFiniteSet(S) /\ S \subseteq Groups /\ S \subseteq Waiters
    BY GroupsAssumption, FS_Subset DEF Waiters
<1>2. Cardinality(S) \in Nat
    BY <1>1, FS_CardinalityType
<1>3. IsFiniteSet(D) /\ Cardinality(D) = Cardinality(S)
    BY <1>2, FS_Interval, SMT
<1>4. q \in [D -> S] /\ \A i, j \in D : i < j => WokenBefore(q[i], q[j])
    BY DEF WaitingWakers
<1> HIDE DEF S, D
<1>5. \A h \in S : ~WokenBefore(h, h)
  <2> SUFFICES ASSUME NEW h \in S PROVE ~WokenBefore(h, h)
      OBVIOUS
  <2>1. h \notin ahead[h] /\ Priority[h] \in Int
      BY <1>1, GroupsAssumption DEF OneLine
  <2> QED BY <2>1, SMT DEF WokenBefore
<1>6. \A i, j \in D : q[i] = q[j] => i = j
  <2> SUFFICES ASSUME NEW i \in D, NEW j \in D, q[i] = q[j] PROVE i = j
      OBVIOUS
  <2>1. i < j \/ j < i \/ i = j
      BY <1>2, SMT DEF D
  <2> QED BY <1>4, <1>5, <2>1
<1>7. q \in Injection(D, S)
    BY <1>4, <1>6 DEF Injection, IsInjective
<1>8. q \in Surjection(D, S)
    BY <1>1, <1>3, <1>7, FS_Injection
<1> QED BY <1>4, <1>8 DEF Surjection, S

-----------------------------------------------------------------------------
(* Nobody waits at the start.                                              *)
LEMMA InitLine == Init => LineInv
<1> SUFFICES ASSUME Init PROVE LineInv
    OBVIOUS
<1>1. Waiters = {}
    BY SMT DEF Init, Waiters
<1>2. OneLine
    BY <1>1 DEF Init, OneLine
<1> QED BY <1>1, <1>2 DEF Init, LineInv, OwedWait, NoLostWake

(* A step that leaves the line, the queue and who is owed alone.           *)
LEMMA LineUntouched ==
    ASSUME LineInv, UNCHANGED <<waiting, ahead, owed, queue>>,
           registered \subseteq registered', wakeCh => wakeCh', cancelled => cancelled'
    PROVE  LineInv'
BY DEF LineInv, OneLine, OwedWait, NoLostWake, Waiters

(* Every call, and every step of the loops, keeps the line in order and    *)
(* the groups that are owed a call in the reach of the wake loop.          *)
LEMMA StepLine == TypeOK /\ LineInv /\ [Next]_vars => LineInv'
<1> SUFFICES ASSUME TypeOK, LineInv, [Next]_vars PROVE LineInv'
    OBVIOUS
<1>0. OneLine /\ OwedWait /\ NoLostWake
    BY DEF LineInv
<1>1. CASE UNCHANGED vars
    BY <1>1, LineUntouched DEF vars, budget, entries, signals, loops
<1>2. ASSUME NEW g \in Groups,
             \/ Register(g) \/ NotifyCall(g)
             \/ \E loaded \in BOOLEAN : SetSaturated(g, loaded)
      PROVE  LineInv'
  <2>1. /\ UNCHANGED <<waiting, ahead, owed, queue>>
        /\ registered \subseteq registered' /\ wakeCh' = wakeCh /\ cancelled' = cancelled
      BY <1>2 DEF Register, NotifyCall, SetSaturated, budget, entries, signals, loops
  <2> QED BY <2>1, LineUntouched
<1>3. ASSUME NEW g \in Groups, Unregister(g)
      PROVE  LineInv'
  <2>1. OneLine'
      BY <1>0, <1>3, LeavingKeepsLine DEF Unregister
  <2>2. Waiters' = Waiters \ {g}
      BY <1>3, SMT DEF Unregister, Waiters, TypeOK
  <2>3. /\ registered' = registered \ {g} /\ owed' = owed \ {g}
        /\ wakeCh' = wakeCh /\ queue' = queue /\ cancelled' = cancelled
      BY <1>3 DEF Unregister, loops
  <2> QED BY <1>0, <2>1, <2>2, <2>3 DEF LineInv, OwedWait, NoLostWake
<1>4. ASSUME NEW g \in Groups, NEW want \in 0 .. MaxRunners[g], Acquire(g, want)
      PROVE  LineInv'
  <2>1. want \in Nat /\ Ask(g, want) /\ UNCHANGED loops
      BY <1>4, ConstantsTyped, SMT DEF Acquire
  <2>2. /\ OneLine' /\ Waiters \ {g} \subseteq Waiters'
        /\ owed' = owed \ {g} /\ registered' = registered /\ wakeCh' = wakeCh
      BY <1>0, <2>1, AskKeepsLine
  <2>3. queue' = queue /\ cancelled' = cancelled
      BY <2>1 DEF loops
  <2> QED BY <1>0, <2>2, <2>3 DEF LineInv, OwedWait, NoLostWake
<1>5. ASSUME NEW l \in Leases, Release(l)
      PROVE  LineInv'
  <2>1. /\ UNCHANGED <<waiting, ahead, registered>>
        /\ wakeCh' = TRUE /\ owed' = Waiters \cap registered
      BY <1>5 DEF Release, Finish, entries
  <2> QED BY <1>0, <2>1 DEF LineInv, OneLine, OwedWait, NoLostWake, Waiters
<1>6. ASSUME NEW l \in Leases, Cancel(l) \/ Forget(l)
      PROVE  LineInv'
  <2>1. /\ UNCHANGED <<waiting, ahead, owed, queue, registered>>
        /\ wakeCh' = wakeCh /\ cancelled' = cancelled
      BY <1>6 DEF Cancel, Forget, Finish, entries, signals, loops
  <2> QED BY <2>1, LineUntouched
<1>7. ASSUME WakeTake
      PROVE  LineInv'
  <2>1. /\ WaitingWakers(queue')
        /\ UNCHANGED <<waiting, ahead, owed, registered, cancelled>>
      BY <1>7 DEF WakeTake, entries
  <2>2. \A g \in Waiters \cap registered : \E i \in DOMAIN queue' : queue'[i] = g
      BY <1>0, <2>1, PassCallsAll
  <2> QED BY <1>0, <2>1, <2>2 DEF LineInv, OneLine, OwedWait, NoLostWake, Waiters
<1>8. ASSUME queue # <<>>, NEW want \in 0 .. MaxRunners[Head(queue)], WakeCall(want)
      PROVE  LineInv'
  <2>1. PICK g \in Groups : g = Head(queue)
      BY <1>8, SMT DEF TypeOK
  <2>2. want \in Nat /\ Ask(g, want) /\ queue' = Tail(queue) /\ cancelled' = cancelled
      BY <1>8, <2>1, ConstantsTyped, SMT DEF WakeCall
  <2>3. /\ OneLine' /\ Waiters \ {g} \subseteq Waiters'
        /\ owed' = owed \ {g} /\ registered' = registered /\ wakeCh' = wakeCh
      BY <1>0, <2>2, AskKeepsLine
  <2>4. ASSUME NEW h \in Groups \ {g}, NEW i \in DOMAIN queue, queue[i] = h
        PROVE  \E j \in DOMAIN queue' : queue'[j] = h
    <3>1. i # 1 /\ i - 1 \in DOMAIN Tail(queue) /\ Tail(queue)[i - 1] = queue[i]
      <4>1. queue \in Seq(Groups) /\ i \in 1 .. Len(queue) /\ Len(queue) \in Nat
          BY SMTT(40) DEF TypeOK
      <4>2. i # 1
          BY <2>1, <2>4, <4>1
      <4>3. /\ DOMAIN Tail(queue) = 1 .. Len(queue) - 1
            /\ \A j \in 1 .. Len(queue) - 1 : Tail(queue)[j] = queue[j + 1]
          BY <1>8, <4>1, HeadTailProperties
      <4>4. i - 1 \in 1 .. Len(queue) - 1 /\ (i - 1) + 1 = i
          BY <4>1, <4>2, SMT
      <4> QED BY <4>2, <4>3, <4>4
    <3> QED BY <2>2, <2>4, <3>1
  <2>5. owed' \subseteq Groups \ {g}
      BY <2>3 DEF TypeOK
  <2>6. NoLostWake'
      BY <1>0, <2>2, <2>3, <2>4, <2>5 DEF NoLostWake
  <2> QED BY <1>0, <2>3, <2>6 DEF LineInv, OwedWait
<1>9. ASSUME WakeAbort
      PROVE  LineInv'
  <2>1. cancelled' = TRUE /\ UNCHANGED <<waiting, ahead, owed, registered>>
      BY <1>9 DEF WakeAbort, entries, TypeOK
  <2> QED BY <1>0, <2>1 DEF LineInv, OneLine, OwedWait, NoLostWake, Waiters
<1>10. ASSUME \/ NotifyTake \/ CtxDone
              \/ \E loop \in {"wake", "notify"} : LoopReturns(loop)
       PROVE  LineInv'
  <2>1. /\ UNCHANGED <<waiting, ahead, owed, queue, registered>>
        /\ wakeCh' = wakeCh /\ (cancelled => cancelled')
      BY <1>10 DEF NotifyTake, CtxDone, LoopReturns, entries, signals
  <2> QED BY <2>1, LineUntouched
<1>11. CASE Next
    BY <1>2, <1>3, <1>4, <1>5, <1>6, <1>7, <1>8, <1>9, <1>10, <1>11 DEF Next
<1> QED BY <1>1, <1>11

(* The line stays a line, and nobody is lost from it.                      *)
THEOREM LineInvariance == Spec => [](TypeOK /\ LineInv)
<1>1. Spec => []TypeOK
    BY TypeCorrect
<1> QED BY <1>1, InitLine, StepLine, PTL DEF Spec

-----------------------------------------------------------------------------
(* The groups that wait form one line, whatever they ask for and whenever  *)
(* they come and go (waitSeq, allocator.go:163-176).                       *)
THEOREM WaitersFormALine == Spec => []OneLine
<1>1. LineInv => OneLine
    BY DEF LineInv
<1> QED BY <1>1, LineInvariance, PTL

(* A release that finds a token in wakeCh drops its own, and still no group*)
(* that waited is forgotten (allocator.go:209-214, wake.go).               *)
THEOREM NoWakeIsLost == Spec => []NoLostWake
<1>1. LineInv => NoLostWake
    BY DEF LineInv
<1> QED BY <1>1, LineInvariance, PTL

(* The groups that may hold e back.                                        *)
Blockers(e) == {h \in Waiters : ~IsZero(Reserve[h]) /\ Precedes(h, e, NoPlan)}

(* While groups wait, one of them has nobody to let pass: take the one with*)
(* the fewest blockers; a blocker of it would have fewer still.            *)
THEOREM SomebodyIsAlwaysFirst == Spec => []SomebodyIsFirst
<1>1. TypeOK /\ LineInv => SomebodyIsFirst
  <2> SUFFICES ASSUME TypeOK, OneLine,
                      {g \in Waiters : ~IsZero(Reserve[g])} # {}
               PROVE  \E g \in {h \in Waiters : ~IsZero(Reserve[h])} :
                          ~BlockedByPriority(g, NoPlan)
      BY DEF SomebodyIsFirst, LineInv
  <2> DEFINE B == {g \in Waiters : ~IsZero(Reserve[g])}
             T == {Blockers(g) : g \in B}
  <2>1. /\ \A g \in Groups : Priority[g] \in Int /\ waiting[g] \in Nat
        /\ \A g \in Groups : Pending(g, NoPlan) = waiting[g]
      BY GroupsAssumption, SMT DEF TypeOK, Pending, Monus, NoPlan
  <2>2. \A g \in B, h \in B : Precedes(h, g, NoPlan)
            <=> \/ Priority[h] > Priority[g]
                \/ Priority[h] = Priority[g] /\ h \in ahead[g]
      BY <2>1, SMT DEF Precedes, Waiters
  <2>3. \A g \in B, h \in B, k \in B :
            Precedes(k, h, NoPlan) /\ Precedes(h, g, NoPlan) => Precedes(k, g, NoPlan)
    <3>1. \A g \in B, h \in B : h \in ahead[g] => ahead[h] \subseteq ahead[g]
        BY DEF OneLine
    <3> QED BY <2>1, <2>2, <3>1, SMT DEF Waiters
  <2>4. \A g \in B : ~Precedes(g, g, NoPlan)
    <3>1. \A g \in B : g \notin ahead[g] /\ g \in Groups
        BY DEF OneLine, Waiters
    <3> QED BY <2>1, <2>2, <3>1, SMT
  <2>5. \A g \in B : Blockers(g) = {h \in B : Precedes(h, g, NoPlan)}
      BY DEF Blockers
  <2> HIDE DEF B
  <2>6. IsWellFoundedOn(StrictSubsetOrdering(Groups), SUBSET Groups)
    <3>1. IsFiniteSet(Groups)
        BY GroupsAssumption
    <3>2. FiniteSubsetsOf(Groups) = SUBSET Groups
        BY <3>1, FS_FiniteSubsetsOfFinite
    <3>3. IsWellFoundedOn(StrictSubsetOrdering(Groups), FiniteSubsetsOf(Groups))
        BY FS_StrictSubsetOrderingWellFounded
    <3> QED BY <3>2, <3>3
  <2>7. T \subseteq SUBSET Groups /\ T # {}
      BY DEF B, Blockers, Waiters
  <2>8. PICK b \in T : \A c \in T : ~(<<c, b>> \in StrictSubsetOrdering(Groups))
      BY <2>6, <2>7, WFMin
  <2>9. PICK g \in B : b = Blockers(g)
      BY <2>8
  <2>10. ASSUME BlockedByPriority(g, NoPlan)
         PROVE  FALSE
    <3>1. PICK h \in Groups : /\ Pending(h, NoPlan) > 0 /\ ~IsZero(Reserve[h])
                              /\ Precedes(h, g, NoPlan)
        BY <2>10 DEF BlockedByPriority
    <3>2. h \in B
        BY <2>1, <3>1 DEF B, Waiters
    <3>3. Blockers(h) \subseteq Blockers(g) /\ h \in Blockers(g) /\ h \notin Blockers(h)
        BY <2>3, <2>4, <2>5, <2>9, <3>1, <3>2
    <3>4. Blockers(h) \in T
        BY <3>2
    <3>5. <<Blockers(h), b>> \in StrictSubsetOrdering(Groups)
        BY <2>7, <2>8, <2>9, <3>3, <3>4 DEF StrictSubsetOrdering
    <3> QED BY <2>8, <3>4, <3>5
  <2> QED BY <2>9, <2>10 DEF B
<1> QED BY <1>1, LineInvariance, PTL

-----------------------------------------------------------------------------
(* The step that NoOvertaking allows.                                      *)
Patient ==
    \A g, h \in Groups :
        /\ waiting[h] > 0
        /\ ~IsZero(Reserve[h])
        /\ \/ Priority[h] > Priority[g]
           \/ Priority[h] = Priority[g] /\ (waiting[g] = 0 \/ h \in ahead[g])
        /\ ~IsZero(Reserve[g])
        => held'[g] <= Larger(held[g], MinRunners[g])

(* The last lease of a call that raises g above its minimum was admitted   *)
(* past the minimum, so nobody outranked g.                                *)
LEMMA GrantsArePatient ==
    ASSUME TypeOK, OneLine, NEW e \in Groups, NEW want \in Nat, Ask(e, want)
    PROVE  Patient
<1> SUFFICES ASSUME NEW g \in Groups, NEW h \in Groups,
                    waiting[h] > 0,
                    ~IsZero(Reserve[h]),
                    \/ Priority[h] > Priority[g]
                    \/ Priority[h] = Priority[g] /\ (waiting[g] = 0 \/ h \in ahead[g]),
                    ~IsZero(Reserve[g])
             PROVE  held'[g] <= Larger(held[g], MinRunners[g])
    BY DEF Patient
<1>0. /\ held \in [Groups -> Nat] /\ held[g] \in Nat /\ MinRunners[g] \in Nat
      /\ waiting[h] \in Nat /\ waiting[g] \in Nat
      /\ Priority[g] \in Int /\ Priority[h] \in Int
    BY ConstantsTyped, GroupsAssumption DEF TypeOK
<1>1. held[g] <= Larger(held[g], MinRunners[g])
    BY <1>0, SMT DEF Larger
<1>2. CASE g # e
  <2>1. held'[g] = held[g]
    <3>1. \E n \in Nat : held' = [held EXCEPT ![e] = @ + n]
        BY SMT DEF Ask, GrantUnbounded, GrantBounded, Issue, HeldWith
    <3> QED BY <1>0, <1>2, <3>1
  <2> QED BY <1>1, <2>1
<1>3. CASE g = e
  <2>1. PICK n \in 0 .. want : Grants(g, want, n) /\ Issue(g, n)
      BY <1>3 DEF Ask, GrantUnbounded, GrantBounded
  <2>2. n \in Nat /\ held'[g] = held[g] + n
      BY <1>0, <2>1, SMT DEF Issue, HeldWith
  <2>3. CASE n = 0
      BY <1>0, <1>1, <2>2, <2>3, SMT
  <2>4. CASE n > 0
    <3>1. n - 1 \in 0 .. n - 1
        BY <2>2, <2>4, SMT
    <3>2. Admit(g, HeldWith(g, n - 1), NoPlan, UsedWith(g, n - 1))
        BY <2>1, <3>1 DEF Grants, AdmitsNext
    <3>3. BlockedByPriority(g, NoPlan)
      <4>1. h # g
          BY <1>0, SMT DEF OneLine
      <4>2. Pending(h, NoPlan) > 0 /\ (waiting[g] = 0 => Pending(g, NoPlan) = 0)
          BY <1>0, SMT DEF Pending, Monus, NoPlan
      <4> QED BY <4>1, <4>2 DEF BlockedByPriority, Precedes
    <3>4. HeldWith(g, n - 1)[g] + NoPlan[g] < MinRunners[g]
        BY <3>2, <3>3 DEF Admit
    <3>5. HeldWith(g, n - 1)[g] + NoPlan[g] = held[g] + (n - 1)
        BY <1>0, <2>2, SMT DEF HeldWith, NoPlan
    <3> QED BY <1>0, <2>2, <3>4, <3>5, SMT DEF Larger
  <2> QED BY <2>2, <2>3, <2>4, SMT
<1> QED BY <1>2, <1>3

(* A step that gives no group more than it had is patient.                 *)
LEMMA NoGrowthIsPatient ==
    ASSUME TypeOK, \A g \in Groups : held'[g] \in Int /\ held'[g] <= held[g]
    PROVE  Patient
BY ConstantsTyped, SMT DEF Patient, Larger, TypeOK

(* No group rises above its minimum past one that outranks it, however many*)
(* leases a call grants (admission.go:16-52).                              *)
THEOREM NobodyOvertakes == Spec => NoOvertaking
<1>1. TypeOK /\ LineInv /\ [Next]_vars => [Patient]_vars
  <2> SUFFICES ASSUME TypeOK, OneLine, Next PROVE Patient
      BY DEF LineInv
  <2>1. ASSUME NEW g \in Groups, NEW want \in 0 .. MaxRunners[g], Acquire(g, want)
        PROVE  Patient
    <3>1. want \in Nat
        BY ConstantsTyped, SMT
    <3> QED BY <2>1, <3>1, GrantsArePatient DEF Acquire
  <2>2. ASSUME queue # <<>>, NEW want \in 0 .. MaxRunners[Head(queue)], WakeCall(want)
        PROVE  Patient
    <3>1. PICK g \in Groups : g = Head(queue)
        BY <2>2, SMT DEF TypeOK
    <3>2. want \in Nat /\ Ask(g, want)
        BY <2>2, <3>1, ConstantsTyped, SMT DEF WakeCall
    <3> QED BY <3>2, GrantsArePatient
  <2>3. ASSUME NEW l \in Leases, Finish(l)
        PROVE  Patient
    <3>1. PICK g \in Groups : held' = [held EXCEPT ![g] = @ - 1]
        BY <2>3 DEF Finish, TypeOK
    <3>2. \A h \in Groups : held'[h] \in Int /\ held'[h] <= held[h]
        BY <3>1, SMT DEF TypeOK
    <3> QED BY <3>2, NoGrowthIsPatient
  <2>4. ASSUME UNCHANGED held
        PROVE  Patient
    <3>1. \A h \in Groups : held'[h] \in Int /\ held'[h] <= held[h]
        BY <2>4, SMT DEF TypeOK
    <3> QED BY <3>1, NoGrowthIsPatient
  <2>5. ASSUME NEW g \in Groups,
               \/ Register(g) \/ Unregister(g) \/ NotifyCall(g)
               \/ \E loaded \in BOOLEAN : SetSaturated(g, loaded)
        PROVE  UNCHANGED held
      BY <2>5 DEF Register, Unregister, NotifyCall, SetSaturated, budget
  <2>6. ASSUME \/ \E l \in Leases : Forget(l)
               \/ WakeTake \/ WakeAbort \/ NotifyTake \/ CtxDone
               \/ \E loop \in {"wake", "notify"} : LoopReturns(loop)
        PROVE  UNCHANGED held
      BY <2>6 DEF Forget, WakeTake, WakeAbort, NotifyTake, CtxDone, LoopReturns, budget
  <2>7. ASSUME NEW l \in Leases, Release(l) \/ Cancel(l)
        PROVE  Patient
      BY <2>3, <2>7 DEF Release, Cancel
  <2> QED BY <2>1, <2>2, <2>4, <2>5, <2>6, <2>7 DEF Next
<1>2. NoOvertaking <=> [][Patient]_vars
    BY DEF NoOvertaking, Patient
<1> QED BY <1>1, <1>2, LineInvariance, PTL DEF Spec

-----------------------------------------------------------------------------
(* What an accepted configuration guarantees to those who are built from   *)
(* it: the assumptions above, and scale sets of their own for all groups.  *)

(* An amount that resolves is one of the allocator's.                      *)
LEMMA ResolvedTyped ==
    ASSUME NEW a \in ResourceAmount, Resolves(a)
    PROVE  ResolveAmount(a) \in Amount
<1>1. Bytes(a.memory) \in Nat
    BY ConfigAssumption DEF ResourceAmount, Size, Resolves, Bytes
<1>2. CPUMilli(a.cpus) \in Nat
  <2>1. a.cpus \in Int /\ a.cpus >= 0
      BY DEF ResourceAmount, Resolves
  <2> QED BY <2>1, SMT DEF CPUMilli
<1> QED BY <1>1, <1>2 DEF ResolveAmount, Amount, Dims

(* In 64 bits a natural number that fits stays what it is.                 *)
LEMMA Int64Fits ==
    ASSUME NEW n \in Nat, n <= MaxInt64
    PROVE  Int64(n) = n
<1>1. MaxInt64 \in Nat
    BY ConfigAssumption
<1>2. n + MaxInt64 + 1 \in 0 .. 2 * MaxInt64 + 1
    BY <1>1, SMT
<1>3. (n + MaxInt64 + 1) % (2 * MaxInt64 + 2) = n + MaxInt64 + 1
    BY <1>1, <1>2, SMT
<1> QED BY <1>1, <1>3, SMT DEF Int64

(* The groups of an accepted configuration: finitely many, with a minimum  *)
(* and a reserve each.                                                     *)
LEMMA GroupsTyped ==
    ASSUME NEW c \in Configuration, Validate(c)
    PROVE  /\ IsFiniteSet(DOMAIN c.groups)
           /\ \A i \in DOMAIN c.groups :
                /\ c.groups[i] \in GroupConfig
                /\ Minimums(c)[i] \in Nat
                /\ Reserves(c)[i] \in Amount
<1>1. c.groups \in Seq(GroupConfig)
    BY DEF Configuration
<1>2. DOMAIN c.groups = 1 .. Len(c.groups) /\ Len(c.groups) \in Nat
    BY <1>1
<1>3. IsFiniteSet(DOMAIN c.groups)
  <2>1. IsFiniteSet(1 .. Len(c.groups))
      BY <1>2, 1 \in Int, Len(c.groups) \in Int, FS_Interval
  <2> QED BY <1>2, <2>1
<1>4. ASSUME NEW i \in DOMAIN c.groups
      PROVE  /\ c.groups[i] \in GroupConfig
             /\ Minimums(c)[i] \in Nat
             /\ Reserves(c)[i] \in Amount
  <2>1. c.groups[i] \in GroupConfig
      BY <1>1
  <2>2. c.groups[i].minRunners \in Int /\ 0 <= c.groups[i].minRunners
      BY <2>1 DEF GroupConfig, Validate, ValidGroups
  <2>3. c.groups[i].reserve \in ResourceAmount /\ Resolves(c.groups[i].reserve)
      BY <2>1 DEF GroupConfig, Validate, ValidCapacity
  <2>4. ResolveAmount(c.groups[i].reserve) \in Amount
      BY <2>3, ResolvedTyped
  <2> QED BY <2>1, <2>2, <2>4, SMT DEF Minimums, Reserves
<1> QED BY <1>3, <1>4

(* validateCapacity keeps what it is for: for an accepted configuration    *)
(* with a budget, min_runners never exceeds max_runners, one runner of     *)
(* every group fits the host, and so do the minimums of all groups         *)
(* together - the assumptions of Capacity - as long as their sum, which    *)
(* the code takes in 64 bits, does not overflow.                           *)
THEOREM AcceptedIsHonourable ==
    ASSUME NEW c \in Configuration, Validate(c), c.capacity # Absent,
           \A d \in Dims : FloorOf(c, d) <= MaxInt64
    PROVE  /\ Minimums(c) \in [DOMAIN c.groups -> Nat]
           /\ Reserves(c) \in [DOMAIN c.groups -> Amount]
           /\ BuiltTotal(c) \in Amount
           /\ \A i \in DOMAIN c.groups : Minimums(c)[i] <= c.groups[i].maxRunners
           /\ \A i \in DOMAIN c.groups : Fits(BuiltTotal(c), Reserves(c)[i], Zero)
           /\ Fits(BuiltTotal(c), [d \in Dims |-> FloorOf(c, d)], Zero)
<1> DEFINE D == DOMAIN c.groups
           total == BuiltTotal(c)
<1>1. Minimums(c) \in [D -> Nat] /\ Reserves(c) \in [D -> Amount]
    BY GroupsTyped DEF Minimums, Reserves
<1>2. c.capacity \in ResourceAmount /\ Resolves(c.capacity)
    BY DEF Configuration, Validate, ValidCapacity
<1>3. total \in Amount
    BY <1>2, ResolvedTyped DEF BuiltTotal
<1>4. \A i \in D : Minimums(c)[i] <= c.groups[i].maxRunners
    BY DEF Validate, ValidGroups, Minimums
<1>5. \A d \in Dims : /\ \A i \in D : ~Exceeds(total, d, Reserves(c)[i])
                      /\ ~Exceeds(total, d, Floor(c))
    BY DEF Validate, ValidCapacity, BuiltTotal
<1>6. ASSUME NEW i \in D
      PROVE  Fits(total, Reserves(c)[i], Zero)
  <2>1. \A d \in Dims : Reserves(c)[i][d] \in Nat /\ total[d] \in Nat
      BY <1>1, <1>3 DEF Amount
  <2> QED BY <1>5, <2>1, SMT DEF Exceeds, Fits, Zero
<1>7. Fits(total, [d \in Dims |-> FloorOf(c, d)], Zero)
  <2>1. ASSUME NEW d \in Dims
        PROVE  total[d] > 0 => FloorOf(c, d) + 0 <= total[d]
    <3>1. FloorOf(c, d) \in Nat
      <4> DEFINE f == [i \in D |-> Reserves(c)[i][d] * Minimums(c)[i]]
      <4>1. \A i \in D : Reserves(c)[i][d] \in Nat /\ Minimums(c)[i] \in Nat
          BY <1>1 DEF Amount
      <4>2. \A i \in D : Reserves(c)[i][d] * Minimums(c)[i] \in Nat
          BY <4>1, SMT
      <4>3. f \in [D -> Nat]
          BY <4>2
      <4>4. IsFiniteSet(D)
          BY GroupsTyped
      <4> HIDE DEF f
      <4>5. Sum(f) \in Nat
          BY <4>3, <4>4, SumNat
      <4> QED BY <4>5 DEF FloorOf, f
    <3>2. Floor(c)[d] = FloorOf(c, d)
        BY <3>1, Int64Fits DEF Floor
    <3>3. total[d] \in Nat
        BY <1>3 DEF Amount
    <3>4. ~(total[d] > 0 /\ Floor(c)[d] > total[d])
        BY <1>5 DEF Exceeds
    <3> QED BY <3>1, <3>2, <3>3, <3>4, SMT
  <2> QED BY <2>1, Zenon DEF Fits, Zero
<1> QED BY <1>1, <1>3, <1>4, <1>6, <1>7

(* A set of natural numbers that is not empty has a least member.          *)
LEMMA FirstOfNaturals ==
    ASSUME NEW S, S \subseteq Nat, S # {}
    PROVE  \E n \in S : \A k \in S : n <= k
<1> DEFINE Less == {ss \in Nat \X Nat : ss[1] < ss[2]}
<1>1. IsWellFoundedOn(Less, Nat)
    BY NatLessThanWellFounded, Zenon DEF OpToRel
<1>2. PICK n \in S : \A k \in S : <<k, n>> \notin Less
  <2> HIDE DEF Less
  <2> QED BY <1>1, WFMin
<1>3. ASSUME NEW k \in S
      PROVE  n <= k
  <2>1. k \in Nat /\ n \in Nat
      OBVIOUS
  <2>2. ~(k < n)
      BY <1>2, <2>1
  <2> QED BY <2>1, <2>2, SMT
<1> QED BY <1>3

(* No two groups of an accepted configuration share a scale set, although  *)
(* validateScaleSetNames compares each group with the first one of its     *)
(* scale set only, and lets it pass if the two have the same name.         *)
THEOREM ScaleSetsAreDistinct ==
    ASSUME NEW c \in Configuration, Validate(c),
           NEW i \in DOMAIN c.groups, NEW j \in DOMAIN c.groups, i # j
    PROVE  ScaleSet(c, i) # ScaleSet(c, j)
<1> SUFFICES ASSUME ScaleSet(c, i) = ScaleSet(c, j)
             PROVE  FALSE
    OBVIOUS
<1>1. DOMAIN c.groups = 1 .. Len(c.groups) /\ Len(c.groups) \in Nat
    BY DEF Configuration
<1> DEFINE Taken == {k \in DOMAIN c.groups : ScaleSet(c, k) = ScaleSet(c, i)}
<1>2. Taken \subseteq Nat /\ i \in Taken /\ j \in Taken
    BY <1>1, SMT
<1>3. PICK first \in Taken : \A k \in Taken : first <= k
    BY <1>2, FirstOfNaturals
<1>4. PICK later \in Taken : later # first
    BY <1>2
<1>5. first \in DOMAIN c.groups /\ later \in DOMAIN c.groups /\ first < later
    BY <1>1, <1>2, <1>3, <1>4, SMT
<1>6. \A k \in 1 .. first - 1 : ScaleSet(c, k) # ScaleSet(c, later)
    BY <1>1, <1>2, <1>3, <1>5, SMT
<1>7. c.groups[first].name = c.groups[later].name
    BY <1>5, <1>6 DEF Validate, ValidScaleSetNames
<1> QED BY <1>5, <1>7 DEF Validate, ValidGroups
=============================================================================
