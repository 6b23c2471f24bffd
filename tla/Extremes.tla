------------------------------ MODULE Extremes ------------------------------
(* Bounded sets of numbers have a largest and a smallest element: facts the   *)
(* proofs of several components rest on.  Induction is avoided by counting    *)
(* the numbers up to those of the set.                                        *)
EXTENDS Naturals, FiniteSets, FiniteSetTheorems, TLAPS

\* A set of positive numbers with a bound has a largest one.
LEMMA LargestExists ==
    ASSUME NEW n \in Nat, NEW S \in SUBSET (1..n), S # {}
    PROVE  \E m \in S : \A x \in S : x <= m
<1> DEFINE U == UNION {1..x : x \in S}
           k == Cardinality(U)
<1>1. IsFiniteSet(U)
  <2>1. U \in SUBSET (1..n)
    OBVIOUS
  <2>2. IsFiniteSet(1..n)
    BY FS_Interval
  <2> HIDE DEF U
  <2> QED BY <2>1, <2>2, FS_Subset
<1>2. k \in Nat
  BY <1>1, FS_CardinalityType
<1>3. \A x \in S : x <= k
  <2> SUFFICES ASSUME NEW x \in S PROVE x <= k
    OBVIOUS
  <2>1. 1..x \in SUBSET U
    OBVIOUS
  <2>2. Cardinality(1..x) <= k
    BY <1>1, <2>1, FS_Subset
  <2>3. Cardinality(1..x) = x
    <3>1. x \in Int /\ ~(1 > x)
      OBVIOUS
    <3>2. Cardinality(1..x) = x - 1 + 1
      BY <3>1, FS_Interval
    <3> QED BY <3>1, <3>2
  <2> QED BY <2>2, <2>3
<1>4. k \in U
  <2> SUFFICES ASSUME k \notin U PROVE FALSE
    OBVIOUS
  <2>1. U \in SUBSET (1..(k - 1))
    <3> SUFFICES ASSUME NEW u \in U PROVE u \in 1..(k - 1)
      OBVIOUS
    <3>1. PICK x \in S : u \in 1..x
      OBVIOUS
    <3>2. x <= k /\ u # k
      BY <1>3
    <3>3. x \in Nat /\ u \in Nat /\ 1 <= u /\ u <= x
      BY <3>1
    <3> HIDE DEF k, U
    <3> QED BY <1>2, <3>2, <3>3
  <2>2. k >= 1
    <3>1. PICK x \in S : TRUE
      OBVIOUS
    <3>2. x \in Nat /\ 1 <= x /\ x <= k
      BY <1>3
    <3> HIDE DEF k
    <3> QED BY <1>2, <3>2
  <2> HIDE DEF k, U
  <2>3. Cardinality(1..(k - 1)) = k - 1
    <3>1. k - 1 \in Int /\ (1 > k - 1 => k - 1 = 0)
      BY <1>2, <2>2
    <3>2. Cardinality(1..(k - 1)) = IF 1 > k - 1 THEN 0 ELSE (k - 1) - 1 + 1
      BY <3>1, FS_Interval
    <3> QED BY <3>1, <3>2
  <2>4. Cardinality(U) <= Cardinality(1..(k - 1))
    <3>1. IsFiniteSet(1..(k - 1))
      BY <1>2, FS_Interval
    <3> QED BY <2>1, <3>1, FS_Subset
  <2>5. Cardinality(U) = k
    BY DEF k
  <2> QED BY <1>2, <2>3, <2>4, <2>5
<1>5. PICK m \in S : k \in 1..m
  BY <1>4
<1>6. m = k
  <2>1. m <= k /\ k <= m /\ m \in Nat
    BY <1>3, <1>5
  <2> HIDE DEF k
  <2> QED BY <1>2, <2>1
<1> QED BY <1>3, <1>6

\* And a smallest one.
LEMMA SmallestExists ==
    ASSUME NEW n \in Nat, NEW S \in SUBSET (1..n), S # {}
    PROVE  \E m \in S : \A x \in S : m <= x
<1> DEFINE Mirror == {n + 1 - x : x \in S}
<1>1. Mirror \in SUBSET (1..n)
  OBVIOUS
<1>2. Mirror # {}
  OBVIOUS
<1>3. PICK m \in Mirror : \A x \in Mirror : x <= m
  <2> HIDE DEF Mirror
  <2> QED BY <1>1, <1>2, LargestExists
<1>4. PICK y \in S : m = n + 1 - y
  OBVIOUS
<1>5. \A x \in S : n + 1 - x <= n + 1 - y
  BY <1>3, <1>4
<1>6. \A x \in S : y <= x
  <2> SUFFICES ASSUME NEW x \in S PROVE y <= x
    OBVIOUS
  <2>1. x \in Nat /\ y \in Nat
    OBVIOUS
  <2>2. n + 1 - x <= n + 1 - y
    BY <1>5
  <2> HIDE DEF Mirror
  <2> QED BY <2>1, <2>2
<1> QED BY <1>6
=============================================================================
