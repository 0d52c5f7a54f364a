------------------------------ MODULE Extremes ------------------------------
(***************************************************************************)
(* Facts about bounded sets of numbers that the proofs share: they have a  *)
(* greatest and a least member, FiniteSetsExt's Max and Min name them, and *)
(* the rank of a member, how many lie below it, numbers the set from 0.    *)
(***************************************************************************)
EXTENDS Integers, FiniteSets, FiniteSetsExt, FiniteSetTheorems, TLAPS

\* A set of numbers that is bounded has a greatest one.
LEMMA GreatestExists ==
    ASSUME NEW T \in SUBSET Nat, T # {}, NEW N \in Nat, \A s \in T : s <= N
    PROVE  \E m \in T : \A s \in T : s <= m
  <1> DEFINE Past(k) == {x \in T : k < x}
             Pasts == {Past(k) : k \in T}
  <1>1. \A U \in SUBSET T : IsFiniteSet(U)
    BY FS_BoundedSetOfNaturals, FS_Subset
  <1>2. Pasts \subseteq FiniteSubsetsOf(T) /\ Pasts # {}
    BY <1>1 DEF FiniteSubsetsOf
  <1>3. PICK U \in Pasts : \A V \in Pasts : ~(<<V, U>> \in StrictSubsetOrdering(T))
    <2> HIDE DEF Pasts
    <2> QED BY <1>2, FS_StrictSubsetOrderingWellFounded, WFMin
  <1>4. PICK m \in T : U = Past(m)
    OBVIOUS
  <1>5. ASSUME NEW s \in T, m < s PROVE FALSE
    <2>0. Past(s) \in Pasts
      OBVIOUS
    <2> HIDE DEF Pasts
    <2>2. \A x \in T : x \in Nat
      OBVIOUS
    <2>3. \A y \in T : s < y => m < y
      BY <1>5, <2>2
    <2>4. Past(s) \subseteq Past(m)
      BY <2>3
    <2>5. s \in Past(m)
      BY <1>5
    <2>6. s \notin Past(s)
      BY <2>2
    <2> QED
      BY <1>3, <1>4, <2>0, <2>4, <2>5, <2>6 DEF StrictSubsetOrdering
  <1> QED
    BY <1>5

\* A set of numbers with a member has a least one.
LEMMA LeastExists ==
    ASSUME NEW T \in SUBSET Nat, T # {}
    PROVE  \E m \in T : \A s \in T : m <= s
  <1>1. PICK k \in T : TRUE
    OBVIOUS
  <1> DEFINE U == {k - x : x \in {y \in T : y <= k}}
  <1>2. U \in SUBSET Nat /\ U # {} /\ \A d \in U : d <= k
    <2>1. k - k \in U
      BY <1>1
    <2> QED
      BY <1>1, <2>1
  <1>3. PICK d \in U : \A e \in U : e <= d
    <2> HIDE DEF U
    <2> QED
      BY <1>1, <1>2, GreatestExists
  <1>4. PICK m \in T : m <= k /\ d = k - m
    BY <1>3
  <1>5. ASSUME NEW s \in T PROVE m <= s
    <2>1. CASE s <= k
      <3>1. k - s \in U
        BY <2>1
      <3>2. k - s <= d
        BY <1>3, <3>1
      <3> QED
        BY <1>1, <1>4, <3>2
    <2>2. CASE k < s
      BY <1>4, <2>2
    <2> QED
      BY <2>1, <2>2, <1>1
  <1> QED
    BY <1>5

\* Max names the greatest member of a bounded set.
LEMMA MaxOf ==
    ASSUME NEW T \in SUBSET Nat, T # {}, NEW N \in Nat, \A s \in T : s <= N
    PROVE  Max(T) \in T /\ Max(T) \in Nat /\ Max(T) <= N /\ \A s \in T : s <= Max(T)
  <1>1. PICK m \in T : \A s \in T : s <= m
    BY GreatestExists
  <1>2. \E x \in T : \A y \in T : x >= y
    BY <1>1
  <1> QED
    BY <1>2 DEF Max

\* Min names the least member.
LEMMA MinOf ==
    ASSUME NEW T \in SUBSET Nat, T # {}
    PROVE  Min(T) \in T /\ Min(T) \in Nat /\ \A s \in T : Min(T) <= s
  <1>1. PICK m \in T : \A s \in T : m <= s
    BY LeastExists
  <1>2. \E x \in T : \A y \in T : x =< y
    BY <1>1
  <1> QED
    BY <1>2 DEF Min

\* What is a member and bounds every member is the Max.
LEMMA MaxIs ==
    ASSUME NEW T \in SUBSET Nat, NEW m \in T, \A s \in T : s <= m
    PROVE  Max(T) = m
  <1>1. Max(T) \in T /\ \A s \in T : s <= Max(T)
    BY MaxOf
  <1>2. Max(T) \in Nat /\ m \in Nat /\ Max(T) <= m /\ m <= Max(T)
    BY <1>1
  <1> QED
    BY <1>2

\* Two bounded sets each of which has a member past every member of the other
\* have one Max.
LEMMA SameMax ==
    ASSUME NEW A \in SUBSET Nat, NEW B \in SUBSET Nat, A # {},
           NEW N \in Nat, \A x \in A : x <= N, \A y \in B : y <= N,
           \A x \in A : \E y \in B : x <= y, \A y \in B : \E x \in A : y <= x
    PROVE  Max(A) = Max(B)
  <1>1. Max(A) \in A /\ Max(A) \in Nat /\ \A x \in A : x <= Max(A)
    BY MaxOf
  <1>2. B # {}
    OBVIOUS
  <1>3. Max(B) \in B /\ Max(B) \in Nat /\ \A y \in B : y <= Max(B)
    BY <1>2, MaxOf
  <1>4. PICK y \in B : Max(A) <= y
    BY <1>1
  <1>5. PICK x \in A : Max(B) <= x
    BY <1>3
  <1> QED
    BY <1>1, <1>3, <1>4, <1>5

-----------------------------------------------------------------------------
(* Ranks *)

\* How many members of T lie below k.
Rank(T, k) == Cardinality({i \in T : i < k})

\* A member's rank is a number below the cardinality, and grows with it.
LEMMA RankGrows ==
    ASSUME NEW T \in SUBSET Nat, IsFiniteSet(T)
    PROVE  /\ Cardinality(T) \in Nat
           /\ \A k \in T : Rank(T, k) \in 0 .. (Cardinality(T) - 1)
           /\ \A j, k \in T : j < k => Rank(T, j) < Rank(T, k)
  <1> DEFINE Below(k) == {i \in T : i < k}
  <1>1. Cardinality(T) \in Nat
    BY FS_CardinalityType
  <1>2. ASSUME NEW k \in T
        PROVE  /\ IsFiniteSet(Below(k)) /\ Cardinality(Below(k)) \in Nat
               /\ Cardinality(Below(k)) < Cardinality(T)
    <2>1. Below(k) \in SUBSET T /\ k \notin Below(k)
      OBVIOUS
    <2>2. IsFiniteSet(Below(k)) /\ Cardinality(Below(k)) <= Cardinality(T)
          /\ Cardinality(Below(k)) # Cardinality(T)
      BY <2>1, FS_Subset
    <2>3. Cardinality(Below(k)) \in Nat
      BY <2>2, FS_CardinalityType
    <2> QED
      BY <1>1, <2>2, <2>3
  <1>3. ASSUME NEW j \in T, NEW k \in T, j < k
        PROVE  Cardinality(Below(j)) < Cardinality(Below(k))
    <2>1. \A i \in T : i \in Nat
      OBVIOUS
    <2>2. /\ \A i \in T : i < j => i < k
          /\ ~(j < j)
      BY <1>3, <2>1
    <2>2a. Below(j) \in SUBSET Below(k) /\ j \in Below(k) /\ j \notin Below(j)
      BY <1>3, <2>2
    <2> HIDE DEF Below
    <2>3. Cardinality(Below(j)) <= Cardinality(Below(k))
          /\ Cardinality(Below(j)) # Cardinality(Below(k))
      BY <1>2, <2>2a, FS_Subset
    <2> QED
      BY <1>2, <2>3
  <1> QED
    BY <1>1, <1>2, <1>3 DEF Rank

\* Every number below the cardinality is the rank of exactly one member.
LEMMA RankNumbers ==
    ASSUME NEW T \in SUBSET Nat, IsFiniteSet(T)
    PROVE  /\ \A j, k \in T : Rank(T, j) = Rank(T, k) => j = k
           /\ \A r \in 0 .. (Cardinality(T) - 1) : \E k \in T : Rank(T, k) = r
  <1> DEFINE n == Cardinality(T)
             f == [k \in T |-> Rank(T, k)]
  <1>1. /\ n \in Nat
        /\ \A k \in T : Rank(T, k) \in 0 .. (n - 1)
        /\ \A j, k \in T : j < k => Rank(T, j) < Rank(T, k)
    BY RankGrows
  <1>2. ASSUME NEW j \in T, NEW k \in T, Rank(T, j) = Rank(T, k) PROVE j = k
    <2>1. j \in Nat /\ k \in Nat /\ Rank(T, j) \in Nat
      BY <1>1
    <2> QED
      BY <1>1, <1>2, <2>1
  <1>3. f \in Injection(T, 0 .. (n - 1))
    BY <1>1, <1>2 DEF Injection, IsInjective
  <1>4. IsFiniteSet(0 .. (n - 1)) /\ Cardinality(0 .. (n - 1)) = n
    <2> DEFINE m == n - 1
    <2>1. 0 \in Int /\ m \in Int
      BY <1>1
    <2> HIDE DEF m
    <2>2. /\ IsFiniteSet(0 .. m)
          /\ Cardinality(0 .. m) = IF 0 > m THEN 0 ELSE m - 0 + 1
      BY <2>1, FS_Interval
    <2>3. (IF 0 > m THEN 0 ELSE m - 0 + 1) = n
      BY <1>1 DEF m
    <2> QED
      BY <2>2, <2>3 DEF m
  <1>5. f \in Surjection(T, 0 .. (n - 1))
    <2> HIDE DEF f
    <2> QED BY <1>3, <1>4, FS_Injection
  <1> QED
    BY <1>2, <1>5 DEF Surjection
=============================================================================
