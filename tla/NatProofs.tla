----------------------------- MODULE NatProofs -----------------------------
(***************************************************************************)
(* Facts about natural numbers on which the proofs of recursive functions  *)
(* and of arithmetic on words rest.                                        *)
(*                                                                         *)
(* Induction is stated with sets of numbers in place of predicates, so     *)
(* that it can be cited like any other fact: to prove that all numbers     *)
(* have a property, take the set of those that have it.                    *)
(***************************************************************************)
EXTENDS Integers, WellFoundedInduction, FiniteSetTheorems, TLAPS

\* Numbers in a set have a least one.
LEMMA LeastNumber ==
  ASSUME NEW T \in SUBSET Nat, T # {}
  PROVE  \E m \in T : \A k \in T : m <= k
  <1> DEFINE R == OpToRel(<, Nat)
  <1>1. IsWellFoundedOn(R, Nat)
    BY NatLessThanWellFounded
  <1>2. R = {ss \in Nat \X Nat : ss[1] < ss[2]}
    BY DEF OpToRel
  <1> HIDE DEF R
  <1>3. PICK m \in T : \A k \in T : <<k, m>> \notin R
    BY <1>1, WFMin
  <1>4. \A k \in T : m <= k
    <2> TAKE k \in T
    <2>1. <<k, m>> \in Nat \X Nat /\ <<k, m>>[1] = k /\ <<k, m>>[2] = m
      OBVIOUS
    <2>2. ~ (k < m)
      BY <1>2, <1>3, <2>1
    <2> QED
      BY <2>2
  <1> QED
    BY <1>4

\* Induction: a set with 0 that is closed under successor has all numbers.
LEMMA Induction ==
  ASSUME NEW S \in SUBSET Nat, 0 \in S, \A n \in S : n + 1 \in S
  PROVE  S = Nat
  <1> SUFFICES ASSUME Nat \ S # {} PROVE FALSE
    OBVIOUS
  <1>1. PICK m \in Nat \ S : \A k \in Nat \ S : m <= k
     BY LeastNumber, Nat \ S \in SUBSET Nat
  <1>2. m - 1 \in Nat \ S \/ m - 1 \in S
     BY <1>1
  <1> QED
    BY <1>1, <1>2

\* Induction over all smaller numbers.
LEMMA StrongInduction ==
  ASSUME NEW S \in SUBSET Nat, \A n \in Nat : 0..n - 1 \subseteq S => n \in S
  PROVE  S = Nat
  <1> SUFFICES ASSUME Nat \ S # {} PROVE FALSE
    OBVIOUS
  <1>1. PICK m \in Nat \ S : \A k \in Nat \ S : m <= k
     BY LeastNumber, Nat \ S \in SUBSET Nat
  <1>2. 0..m - 1 \subseteq S
     BY <1>1
  <1> QED
    BY <1>1, <1>2

---------------------------------------------------------------------------
(* Powers of two count the subsets of 1..n. *)

LEMMA PowerCounts ==
  ASSUME NEW n \in Nat
  PROVE  IsFiniteSet(SUBSET (1..n)) /\ Cardinality(SUBSET (1..n)) = 2^n
  <1>1. IsFiniteSet(1..n) /\ Cardinality(1..n) = n
    BY FS_Interval
  <1>2. IsFiniteSet(SUBSET (1..n)) /\ Cardinality(SUBSET (1..n)) = 2^Cardinality(1..n)
    BY <1>1, FS_SUBSET
  <1> QED
    BY <1>1, <1>2

LEMMA PowerZero == 2^0 = 1
  <1>1. SUBSET (1..0) = {{}}
    OBVIOUS
  <1>2. Cardinality({{}}) = 1
    BY FS_Singleton
  <1> QED
    BY <1>1, <1>2, PowerCounts

LEMMA PowerNext ==
  ASSUME NEW n \in Nat
  PROVE  2^(n + 1) = 2 * 2^n /\ 2^n \in Nat
  <1> DEFINE A == SUBSET (1..n)
             B == (SUBSET (1..n + 1)) \ A
             f == [s \in A |-> s \cup {n + 1}]
  <1>1. /\ n + 1 \notin 1..n /\ n + 1 \in 1..n + 1
        /\ \A i : i \in 1..n + 1 <=> i = n + 1 \/ i \in 1..n
    OBVIOUS
  <1>2. f \in Bijection(A, B)
    <2>1. \A s \in A : s \cup {n + 1} \in B
      BY <1>1
    <2>2. \A s, t \in A : f[s] = f[t] => s = t
      BY <1>1
    <2>3. \A t \in B : \E s \in A : f[s] = t
      <3> TAKE t \in B
      <3>1. n + 1 \in t
        BY <1>1
      <3>2. t \ {n + 1} \in A
        BY <1>1
      <3>3. f[t \ {n + 1}] = t
        BY <3>1, <3>2
      <3> QED
        BY <3>2, <3>3
    <2>4. f \in [A -> B]
      BY <2>1
    <2> HIDE DEF A, B, f
    <2> QED
      BY <2>2, <2>3, <2>4 DEF Bijection, Injection, Surjection, IsInjective
  <1>3. IsFiniteSet(A) /\ Cardinality(A) = 2^n
    BY PowerCounts
  <1>4. IsFiniteSet(B) /\ Cardinality(B) = 2^n
    BY <1>2, <1>3, FS_Bijection DEF ExistsBijection
  <1>5. A \cup B = SUBSET (1..n + 1) /\ A \cap B = {}
    BY <1>1
  <1>6. Cardinality(SUBSET (1..n + 1)) = 2^(n + 1)
    BY PowerCounts, n + 1 \in Nat
  <1> HIDE DEF A, B
  <1>7. Cardinality(A \cup B) = Cardinality(A) + Cardinality(B) - Cardinality(A \cap B)
    BY <1>3, <1>4, FS_Union
  <1>8. Cardinality(A \cap B) = 0 /\ Cardinality(A) \in Nat
    BY <1>3, <1>5, FS_EmptySet, FS_CardinalityType
  <1> QED
    BY <1>3, <1>4, <1>5, <1>6, <1>7, <1>8

LEMMA PowerPositive ==
  ASSUME NEW n \in Nat
  PROVE  2^n \in Nat \ {0}
  <1> DEFINE S == {i \in Nat : 2^i \in Nat \ {0}}
  <1>1. 0 \in S
    BY PowerZero
  <1>2. \A i \in S : i + 1 \in S
    BY PowerNext
  <1> HIDE DEF S
  <1>3. S = Nat
    BY <1>1, <1>2, Induction, S \in SUBSET Nat DEF S
  <1> QED
    BY <1>3 DEF S

\* The powers multiply.
LEMMA PowerSum ==
  ASSUME NEW m \in Nat, NEW n \in Nat
  PROVE  2^(m + n) = 2^m * 2^n
  <1> DEFINE S == {i \in Nat : 2^(m + i) = 2^m * 2^i}
  <1>1. 0 \in S
    BY PowerZero, PowerPositive
  <1>2. ASSUME NEW i \in S PROVE i + 1 \in S
    <2>1. 2^(m + (i + 1)) = 2 * 2^(m + i)
      BY PowerNext, m + i \in Nat, (m + i) + 1 = m + (i + 1)
    <2>2. 2^(i + 1) = 2 * 2^i
      BY PowerNext
    <2>3. PICK x \in Nat : x = 2^m
      BY PowerPositive
    <2>4. PICK y \in Nat : y = 2^i
      BY PowerPositive
    <2>5. x * (2 * y) = 2 * (x * y)
      BY SMT
    <2> QED
      BY <2>1, <2>2, <2>3, <2>4, <2>5
  <1> HIDE DEF S
  <1>3. S = Nat
    BY <1>1, <1>2, Induction, S \in SUBSET Nat DEF S
  <1> QED
    BY <1>3 DEF S

\* The powers increase.
LEMMA PowerGrows ==
  ASSUME NEW m \in Nat, NEW n \in Nat, m < n
  PROVE  2 * 2^m <= 2^n
  <1>1. PICK k \in Nat : n = (m + 1) + k
    BY n - (m + 1) \in Nat, n = (m + 1) + (n - (m + 1))
  <1>2. 2^n = (2 * 2^m) * 2^k
    BY <1>1, PowerSum, PowerNext, m + 1 \in Nat, ZenonT(30)
  <1>3. PICK x \in Nat : x = 2 * 2^m
    BY PowerPositive
  <1>4. PICK y \in Nat \ {0} : y = 2^k
    BY PowerPositive
  <1>5. x <= x * y
    BY SMT
  <1> QED
    BY <1>2, <1>3, <1>4, <1>5

LEMMA PowerMono ==
  ASSUME NEW m \in Nat, NEW n \in Nat, m <= n
  PROVE  2^m <= 2^n
  <1>1. 2^m \in Nat
    BY PowerPositive
  <1> QED
    BY <1>1, PowerGrows

LEMMA PowerSquare ==
  ASSUME NEW n \in Nat
  PROVE  2^n * 2^n = 2^(2 * n)
  BY PowerSum, n + n = 2 * n

LEMMA SmallPowers == 2^0 = 1 /\ 2^1 = 2 /\ 2^2 = 4 /\ 2^3 = 8 /\ 2^4 = 16
  BY PowerZero, PowerNext, 0 + 1 = 1, 1 + 1 = 2, 2 + 1 = 3, 3 + 1 = 4

---------------------------------------------------------------------------
(* Square roots. *)

\* Every number has a square root, rounded down: the least number s for which
\* (s + 1)^2 exceeds it.
LEMMA RootExists ==
  ASSUME NEW a \in Nat
  PROVE  \E s \in 0..a : s * s <= a /\ a < (s + 1) * (s + 1)
  <1> DEFINE T == {s \in Nat : a < (s + 1) * (s + 1)}
  <1>1. a \in T
    <2>1. a < (a + 1) * (a + 1)
      BY SMT
    <2> QED
      BY <2>1
  <1>2. PICK s \in T : \A r \in T : s <= r
    BY <1>1, LeastNumber, T \in SUBSET Nat
  <1>3. s * s <= a
    <2>1. CASE s = 0
      BY <2>1
    <2>2. CASE s # 0
      <3>1. s - 1 \in Nat /\ s - 1 \notin T
        BY <1>2, <2>2
      <3> QED
        BY <1>2, <3>1
    <2> QED
      BY <2>1, <2>2
  <1> QED
    BY <1>1, <1>2, <1>3
=============================================================================
