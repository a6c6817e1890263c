---------------------------- MODULE OrderLemmas -----------------------------
(***************************************************************************)
(* What the proofs use of the order of the natural numbers.  Induction and *)
(* recursion are stated with sets and functions where the library's        *)
(* theorems have operators as parameters.                                  *)
(***************************************************************************)
EXTENDS Integers, FiniteSetTheorems, WellFoundedInduction, TLAPS

(* A set of natural numbers that is not empty has a least element. *)
LEMMA LeastNat ==
  ASSUME NEW S \in SUBSET Nat, S # {}
  PROVE  \E n \in S : \A m \in S : n <= m
<1> DEFINE T == {0 .. n : n \in S}
<1>1. T \subseteq FiniteSubsetsOf(Nat)
  <2> SUFFICES ASSUME NEW n \in S PROVE 0 .. n \in FiniteSubsetsOf(Nat)
    OBVIOUS
  <2>1. IsFiniteSet(0 .. n)
    BY FS_Interval, 0 \in Int, n \in Int
  <2>2. 0 .. n \in SUBSET Nat
    OBVIOUS
  <2> QED BY <2>1, <2>2 DEF FiniteSubsetsOf
<1>2. T # {}
  OBVIOUS
<1>3. PICK x \in T : \A y \in T : ~ (<<y, x>> \in StrictSubsetOrdering(Nat))
  BY <1>1, <1>2, WFMin, FS_StrictSubsetOrderingWellFounded
<1>4. PICK n \in S : x = 0 .. n
  OBVIOUS
<1>5. ASSUME NEW m \in S, m < n PROVE FALSE
  <2>1. 0 .. m \in T /\ 0 .. m \subseteq 0 .. n /\ 0 .. m # 0 .. n
    BY <1>5
  <2>2. <<0 .. m, x>> \in StrictSubsetOrdering(Nat)
    BY <2>1, <1>4, <1>1 DEF StrictSubsetOrdering
  <2> QED BY <1>3, <2>1, <2>2
<1> QED BY <1>5

(* Induction up to a bound, over the numbers with a property.              *)
LEMMA InductUpTo ==
  ASSUME NEW N \in Nat, NEW S, 0 \in S, \A n \in 0 .. N - 1 : n \in S => n + 1 \in S
  PROVE  \A n \in 0 .. N : n \in S
<1> DEFINE Bad == {n \in 0 .. N : n \notin S}
<1> SUFFICES ASSUME Bad # {} PROVE FALSE
  OBVIOUS
<1>1. Bad \in SUBSET Nat
  OBVIOUS
<1>2. PICK n \in Bad : \A m \in Bad : n <= m
  BY <1>1, LeastNat
<1>3. n # 0 /\ n \in 0 .. N /\ n \notin S
  BY <1>2
<1>4. n - 1 \in 0 .. N - 1 /\ n - 1 \notin Bad
  BY <1>2, <1>3
<1> QED BY <1>3, <1>4

(* From each point of D outside a base B, next leads to a point of lower   *)
(* rank.                                                                   *)
LeadsDown(next, D, B, rank, N) ==
  /\ N \in Nat /\ rank \in [D -> 0 .. N] /\ next \in [D \ B -> D]
  /\ \A d \in D \ B : rank[next[d]] < rank[d]

(* f is given on the base and elsewhere computed from its value at next.   *)
Recurs(f, next, D, B, base, G) ==
  \A d \in D : f[d] = IF d \in B THEN base[d] ELSE G[d][f[next[d]]]

(* Such a function exists.                                                 *)
LEMMA RecursionDownwards ==
  ASSUME NEW D, NEW B, NEW N, NEW rank, NEW next, LeadsDown(next, D, B, rank, N),
         NEW V, NEW base \in [D -> V], NEW G \in [D \ B -> [V -> V]]
  PROVE  \E f \in [D -> V] : Recurs(f, next, D, B, base, G)
<1> USE DEF LeadsDown, Recurs
<1> DEFINE Below(k) == {d \in D : rank[d] < k}
           Right(f, k) == \A d \in Below(k) : f[d] = IF d \in B THEN base[d] ELSE G[d][f[next[d]]]
           S == {k \in Nat : \E f \in [D -> V] : Right(f, k)}
<1>1. 0 \in S
  <2>1. Right(base, 0)
    OBVIOUS
  <2> QED BY <2>1
<1>2. ASSUME NEW k \in 0 .. N, k \in S PROVE k + 1 \in S
  <2>1. PICK f \in [D -> V] : Right(f, k)
    BY <1>2
  <2> DEFINE h == [d \in D |-> IF d \in B THEN base[d] ELSE G[d][f[next[d]]]]
  <2>2. h \in [D -> V]
    OBVIOUS
  <2>3. ASSUME NEW d \in Below(k) PROVE h[d] = f[d]
    BY <2>1
  <2>4. ASSUME NEW d \in Below(k + 1), d \notin B PROVE h[d] = G[d][h[next[d]]]
    <3>1. next[d] \in Below(k)
      BY <2>4
    <3> QED BY <2>3, <2>4, <3>1
  <2>5. Right(h, k + 1)
    BY <2>4
  <2>6. k + 1 \in Nat
    OBVIOUS
  <2> HIDE DEF h, Right
  <2> QED BY <2>2, <2>5, <2>6
<1> HIDE DEF S
<1>3. N + 1 \in S
  <2>1. N \in S
    BY <1>1, <1>2, InductUpTo, N \in 0 .. N, \A k \in 0 .. N - 1 : k \in 0 .. N
  <2> QED BY <1>2, <2>1
<1>4. PICK f \in [D -> V] : Right(f, N + 1)
  BY <1>3 DEF S
<1>5. \A d \in D : d \in Below(N + 1)
  OBVIOUS
<1> QED BY <1>4, <1>5

(* The sums of the first elements of a list of numbers are such a function.*)
LEMMA SumsOfFirst ==
  ASSUME NEW N \in Nat, NEW w \in [1 .. N -> Nat]
  PROVE  \E sum \in [0 .. N -> Nat] :
           sum[0] = 0 /\ \A n \in 1 .. N : sum[n] = sum[n - 1] + w[n]
<1> DEFINE D == 0 .. N
           B == {0}
           rank == [n \in D |-> n]
           next == [n \in D \ B |-> n - 1]
           base == [n \in D |-> 0]
           G == [n \in D \ B |-> [v \in Nat |-> v + w[n]]]
<1>1. \A n \in D \ B : n \in 1 .. N /\ n - 1 \in D /\ n - 1 < n
  OBVIOUS
<1>2. LeadsDown(next, D, B, rank, N)
  <2>1. next \in [D \ B -> D] /\ rank \in [D -> 0 .. N]
    BY <1>1
  <2>2. \A n \in D \ B : rank[next[n]] < rank[n]
    BY <1>1
  <2> HIDE DEF next, rank, D, B
  <2> QED BY <2>1, <2>2 DEF LeadsDown
<1>3. base \in [D -> Nat] /\ G \in [D \ B -> [Nat -> Nat]]
  BY <1>1
<1>4. 0 \in D /\ 0 \in B /\ base[0] = 0 /\ \A n \in 1 .. N : n \in D \ B
  OBVIOUS
<1>5. \A n \in 1 .. N : next[n] = n - 1 /\ n - 1 \in D /\ \A v \in Nat : G[n][v] = v + w[n]
  BY <1>4
<1> HIDE DEF next, rank, base, G, B
<1>6. PICK f \in [D -> Nat] : Recurs(f, next, D, B, base, G)
  BY <1>2, <1>3, RecursionDownwards
<1>7. f[0] = 0
  BY <1>4, <1>6 DEF Recurs
<1>8. ASSUME NEW n \in 1 .. N PROVE f[n] = f[n - 1] + w[n]
  <2>1. f[n] = G[n][f[n - 1]]
    BY <1>4, <1>5, <1>6 DEF Recurs
  <2>2. f[n - 1] \in Nat
    BY <1>5
  <2> QED BY <1>5, <2>1, <2>2
<1> QED BY <1>7, <1>8
=============================================================================
