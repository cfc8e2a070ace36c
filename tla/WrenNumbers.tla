---------------------------- MODULE WrenNumbers -----------------------------
(***************************************************************************)
(* Facts about natural numbers that the proofs about the stack and the map  *)
(* need: least elements, which stand in for induction, and powers of two.   *)
(***************************************************************************)
EXTENDS FiniteSetTheorems, FiniteSetsExt, TLAPS

\* A set of natural numbers that is not empty has a least element.  The
\* intervals from 0 to its elements are finite, and strict inclusion of finite
\* sets is well-founded.
LEMMA LeastExists ==
  ASSUME NEW S \in SUBSET Nat, S # {}
  PROVE  \E x \in S : \A y \in S : x <= y
<1> DEFINE R == StrictSubsetOrdering(Nat)
           T == {0..n : n \in S}
<1>1. IsWellFoundedOn(R, FiniteSubsetsOf(Nat))
  BY FS_StrictSubsetOrderingWellFounded
<1>2. T \subseteq FiniteSubsetsOf(Nat)
  <2>1. ASSUME NEW n \in S
        PROVE  0..n \in SUBSET Nat /\ IsFiniteSet(0..n)
    BY FS_Interval
  <2>. QED  BY <2>1 DEF FiniteSubsetsOf
<1>3. T # {}
  OBVIOUS
<1>4. \E t \in T : \A u \in T : <<u, t>> \notin R
  <2> HIDE DEF R, T
  <2>. QED  BY <1>1, <1>2, <1>3, WFMin
<1>5. PICK x \in S : \A y \in S : <<0..y, 0..x>> \notin R
  BY <1>4
<1>6. ASSUME NEW y \in S, y < x
      PROVE  FALSE
  <2>1. 0..y \subseteq 0..x /\ 0..y # 0..x
    <3>1. x \in 0..x /\ x \notin 0..y
      BY <1>6
    <3>. QED  BY <1>6, <3>1
  <2>2. 0..y \in SUBSET Nat /\ 0..x \in SUBSET Nat
    OBVIOUS
  <2>. QED  BY <1>5, <2>1, <2>2 DEF StrictSubsetOrdering
<1>. QED
  BY <1>6

\* Min() returns it.
LEMMA MinIsLeast ==
  ASSUME NEW S \in SUBSET Nat, S # {}
  PROVE  /\ Min(S) \in S
         /\ Min(S) \in Nat
         /\ \A y \in S : Min(S) <= y
  BY LeastExists DEF Min

\* And Max() of two numbers is the larger one.
LEMMA MaxOfTwo ==
  ASSUME NEW a \in Int, NEW b \in Int
  PROVE  Max({a, b}) = IF a >= b THEN a ELSE b
<1> DEFINE m == IF a >= b THEN a ELSE b
<1>1. m \in {a, b} /\ \A y \in {a, b} : m >= y
  OBVIOUS
<1>2. \A x \in {a, b} : (\A y \in {a, b} : x >= y) => x = m
  OBVIOUS
<1>. QED
  BY <1>1, <1>2 DEF Max

-----------------------------------------------------------------------------
(* Powers of two, as the number of subsets.                                 *)

LEMMA PowerOf2Type ==
  ASSUME NEW k \in Nat
  PROVE  2^k \in Nat
<1>1. IsFiniteSet(1..k) /\ Cardinality(1..k) = k
  BY FS_Interval
<1>. QED
  BY <1>1, FS_SUBSET, FS_CardinalityType

LEMMA PowerOf2Double ==
  ASSUME NEW k \in Nat
  PROVE  2^(k + 1) = 2 * 2^k
<1> DEFINE S == SUBSET (1..k)
           T == {s \cup {k + 1} : s \in S}
           f == [s \in S |-> s \cup {k + 1}]
<1>1. IsFiniteSet(1..k) /\ Cardinality(1..k) = k
  BY FS_Interval
<1>2. IsFiniteSet(1..k + 1) /\ Cardinality(1..k + 1) = k + 1
  BY FS_Interval
<1>3. IsFiniteSet(S) /\ Cardinality(S) = 2^k
  BY <1>1, FS_SUBSET
<1>4. Cardinality(SUBSET (1..k + 1)) = 2^(k + 1)
  BY <1>2, FS_SUBSET
<1>5. f \in Bijection(S, T)
  <2>1. k + 1 \notin 1..k
    OBVIOUS
  <2>2. \A s, t \in S : s \cup {k + 1} = t \cup {k + 1} => s = t
    BY <2>1
  <2>3. f \in [S -> T] /\ \A t \in T : \E s \in S : f[s] = t
    OBVIOUS
  <2>4. \A s, t \in S : f[s] = f[t] => s = t
    BY <2>2
  <2>5. DOMAIN f = S
    OBVIOUS
  <2> HIDE DEF S, T, f
  <2>. QED  BY <2>3, <2>4, <2>5 DEF Bijection, Injection, Surjection, IsInjective
<1>6. IsFiniteSet(T) /\ Cardinality(T) = 2^k
  BY <1>3, <1>5, FS_Bijection DEF ExistsBijection
<1>7. S \cup T = SUBSET (1..k + 1)
  <2>1. 1..k + 1 = 1..k \cup {k + 1}
    OBVIOUS
  <2>2. ASSUME NEW s \in SUBSET (1..k + 1), k + 1 \in s
        PROVE  s \in T
    <3>1. s \ {k + 1} \in S
      BY <2>1
    <3>2. s = (s \ {k + 1}) \cup {k + 1}
      BY <2>2
    <3>. QED  BY <3>1, <3>2
  <2>. QED  BY <2>1, <2>2
<1>8. S \cap T = {}
  OBVIOUS
<1>9. Cardinality(SUBSET (1..k + 1)) = 2^k + 2^k
  <2> HIDE DEF S, T
  <2>1. Cardinality(S \cap T) = 0
    BY <1>8, FS_EmptySet
  <2>2. Cardinality(S \cup T) = Cardinality(S) + Cardinality(T) - Cardinality(S \cap T)
    BY <1>3, <1>6, FS_Union
  <2>3. 2^k \in Nat
    BY PowerOf2Type
  <2>. QED  BY <1>3, <1>6, <1>7, <2>1, <2>2, <2>3
<1>. QED
  BY <1>4, <1>9, PowerOf2Type

\* Some power of two is not less than n but less than 2 * n.
LEMMA PowerOf2Above ==
  ASSUME NEW n \in Nat \ {0}
  PROVE  \E k \in 0..n : 2^k >= n /\ 2^k < 2 * n
<1> DEFINE Has(m) == \E k \in 0..m : 2^k >= m /\ 2^k < 2 * m
           Lacking == {m \in Nat \ {0} : ~Has(m)}
<1>1. Has(1)
  <2>1. 2^0 = 1
    OBVIOUS
  <2>. QED  BY <2>1
<1>2. ASSUME NEW m \in Nat \ {0}, Has(m)
      PROVE  Has(m + 1)
  <2>1. PICK k \in 0..m : 2^k >= m /\ 2^k < 2 * m
    BY <1>2
  <2>2. 2^k \in Nat /\ 2^(k + 1) = 2 * 2^k
    BY PowerOf2Type, PowerOf2Double
  <2>3. CASE 2^k >= m + 1
    BY <2>1, <2>2, <2>3
  <2>4. CASE 2^k = m
    <3>1. k + 1 \in 0..m + 1 /\ 2^(k + 1) >= m + 1 /\ 2^(k + 1) < 2 * (m + 1)
      BY <2>2, <2>4
    <3>. QED  BY <3>1
  <2>. QED  BY <2>1, <2>2, <2>3, <2>4
<1>3. Lacking = {}
  <2> SUFFICES ASSUME Lacking # {} PROVE FALSE
    OBVIOUS
  <2>1. PICK m \in Lacking : \A l \in Lacking : m <= l
    <3> HIDE DEF Has
    <3>1. Lacking \in SUBSET Nat
      OBVIOUS
    <3> HIDE DEF Lacking
    <3>. QED  BY <3>1, LeastExists
  <2>2. m # 1
    BY <1>1, <2>1
  <2>3. m - 1 \in Nat \ {0} /\ Has(m - 1)
    <3> HIDE DEF Has
    <3>. QED  BY <2>1, <2>2
  <2>. QED
    <3>1. Has((m - 1) + 1)
      <4> HIDE DEF Has
      <4>. QED  BY <1>2, <2>3
    <3>2. (m - 1) + 1 = m
      BY <2>1
    <3> HIDE DEF Has
    <3>. QED  BY <2>1, <3>1, <3>2
<1>. QED
  <2> HIDE DEF Has
  <2>1. Has(n)  BY <1>3
  <2>. QED  BY <2>1 DEF Has
=============================================================================
