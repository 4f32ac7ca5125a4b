----------------------------- MODULE NumberSets -----------------------------
(***************************************************************************)
(* Facts about sets of natural numbers that the proofs about the           *)
(* components rest on.  Induction is done by taking the least number for   *)
(* which a statement fails.                                                *)
(***************************************************************************)
EXTENDS Integers, FiniteSetsExt, WellFoundedInduction, TLAPS

LessThan == {pair \in Nat \X Nat : pair[1] < pair[2]}

LEMMA LessThanWellFounded == IsWellFoundedOn(LessThan, Nat)
  BY NatLessThanWellFounded DEF OpToRel, LessThan

\* A set of natural numbers that is not empty has a least element.
LEMMA LeastNat ==
    ASSUME NEW S \in SUBSET Nat, S # {}
    PROVE  \E m \in S : \A x \in S : m <= x
<1>1. PICK m \in S : \A y \in S : ~(<<y, m>> \in LessThan)
  BY LessThanWellFounded, WFMin
<1>2. ASSUME NEW x \in S
      PROVE  m <= x
  <2>1. m \in Nat /\ x \in Nat
    OBVIOUS
  <2>2. x < m => <<x, m>> \in LessThan
    BY <2>1 DEF LessThan
  <2>. QED  BY <1>1, <2>1, <2>2
<1>. QED  BY <1>2

LEMMA MinOfNats ==
    ASSUME NEW S \in SUBSET Nat, S # {}
    PROVE  Min(S) \in S /\ \A x \in S : Min(S) <= x
  BY LeastNat DEF Min

\* One that is bounded besides has a greatest element.
LEMMA GreatestNat ==
    ASSUME NEW S \in SUBSET Nat, S # {}, NEW n \in Nat, \A x \in S : x <= n
    PROVE  \E m \in S : \A x \in S : m >= x
<1>. DEFINE Above == {u \in Nat : \A x \in S : x <= u}
<1>1. Above # {} /\ Above \in SUBSET Nat
  OBVIOUS
<1>2. PICK m \in Above : \A u \in Above : m <= u
  <2>. HIDE DEF Above
  <2>. QED  BY <1>1, LeastNat
<1>3. m \in Nat /\ \A x \in S : x <= m
  BY <1>2
<1>4. ASSUME m \notin S
      PROVE  FALSE
  <2>1. \A x \in S : x <= m - 1
    BY <1>3, <1>4
  <2>2. m - 1 \in Nat
    <3>1. PICK x \in S : x # m
      BY <1>4
    <3>. QED  BY <3>1, <1>3
  <2>3. m - 1 \in Above
    BY <2>1, <2>2
  <2>. QED  BY <1>2, <1>3, <2>3
<1>. QED  BY <1>3, <1>4

LEMMA MaxOfNats ==
    ASSUME NEW S \in SUBSET Nat, S # {}, NEW n \in Nat, \A x \in S : x <= n
    PROVE  Max(S) \in S /\ \A x \in S : Max(S) >= x
  BY GreatestNat DEF Max

LEMMA MaxOfInterval ==
    ASSUME NEW m \in Nat, NEW n \in Nat, m <= n
    PROVE  Max(m..n) = n
  BY DEF Max

\* A function on 1..n with numbers as values is bounded.
LEMMA ValuesAreBounded ==
    ASSUME NEW n \in Nat, NEW f \in [1..n -> Nat]
    PROVE  \E d \in Nat : \A i \in 1..n : f[i] <= d
<1>. DEFINE Bounded(k) == \E d \in Nat : \A i \in 1..k : f[i] <= d
            Failing == {k \in 0..n : ~Bounded(k)}
<1>1. SUFFICES ASSUME Failing # {}
               PROVE  FALSE
  <2>1. n \notin Failing => Bounded(n)
    OBVIOUS
  <2>. QED  BY <2>1
<1>2. PICK k \in Failing : \A x \in Failing : k <= x
  <2>1. Failing \in SUBSET Nat
    OBVIOUS
  <2>. HIDE DEF Failing
  <2>. QED  BY <1>1, <2>1, LeastNat
<1>3. k \in 0..n /\ ~Bounded(k)
  OBVIOUS
<1>4. k # 0
  <2>1. \A i \in 1..0 : f[i] <= 0
    OBVIOUS
  <2>. QED  BY <2>1, <1>3
<1>5. k - 1 \in 0..n /\ Bounded(k - 1)
  <2>1. k - 1 \in 0..n /\ ~(k <= k - 1)
    BY <1>3, <1>4
  <2>2. k - 1 \notin Failing
    BY <1>2, <2>1
  <2>. QED  BY <2>1, <2>2
<1>6. PICK d \in Nat : \A i \in 1..(k - 1) : f[i] <= d
  BY <1>5
<1>7. PICK e \in Nat : e >= d /\ e >= f[k]
  <2>1. f[k] \in Nat
    BY <1>3, <1>4
  <2>2. CASE d >= f[k]
    BY <2>1, <2>2
  <2>3. CASE d < f[k]
    BY <2>1, <2>3
  <2>. QED  BY <2>1, <2>2, <2>3
<1>8. \A i \in 1..k : f[i] <= e
  <2>. TAKE i \in 1..k
  <2>1. i \in 1..(k - 1) \/ i = k
    BY <1>3
  <2>2. f[i] \in Nat
    BY <1>3
  <2>. QED  BY <2>1, <2>2, <1>6, <1>7
<1>. QED  BY <1>3, <1>8
=============================================================================
