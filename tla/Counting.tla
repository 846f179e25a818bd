------------------------------ MODULE Counting ------------------------------
(***************************************************************************)
(* Numbers, for the proofs: a least one, counting up, the greatest of      *)
(* finitely many, and how many are left when one of a set moves.           *)
(***************************************************************************)
EXTENDS Integers, FiniteSetTheorems, WellFoundedInduction, TLAPS

\* Some relation holds of every two numbers in order, and has no endless descent.
LEMMA Below == \E R : IsWellFoundedOn(R, Nat) /\ \A i, j \in Nat : i < j => <<i, j>> \in R
<1>1. IsWellFoundedOn(OpToRel(<, Nat), Nat)
  BY NatLessThanWellFounded, Zenon
<1>2. \A i, j \in Nat : i < j => <<i, j>> \in OpToRel(<, Nat)
  BY DEF OpToRel
<1> QED
  BY <1>1, <1>2, Zenon

\* A set of numbers has a least one: what takes the place of induction.
LEMMA LeastNat == ASSUME NEW T \in SUBSET Nat, T # {} PROVE \E m \in T : \A k \in T : m <= k
<1>1. PICK R : IsWellFoundedOn(R, Nat) /\ \A i, j \in Nat : i < j => <<i, j>> \in R
  BY Below
<1>2. IsWellFoundedOn(R, Nat)
  BY <1>1
<1>3. T \subseteq Nat
  OBVIOUS
<1>4. \E m \in T : \A k \in T : ~(<<k, m>> \in R)
  BY <1>2, <1>3, WFMin, Zenon
<1>5. PICK m \in T : \A k \in T : ~(<<k, m>> \in R)
  BY <1>4
<1>6. \A k \in T : ~(k < m)
  BY <1>1, <1>3, <1>5
<1> QED
  BY <1>3, <1>6, SMT

\* Counting up: what holds at 0, and at every next number, holds of all up to N.
LEMMA CountingUp ==
    ASSUME NEW T, 0 \in T, NEW N \in Nat, \A n \in 0 .. N : n # 0 /\ n - 1 \in T => n \in T
    PROVE  \A n \in 0 .. N : n \in T
<1> DEFINE Bad == {n \in 0 .. N : n \notin T}
<1>1. ASSUME Bad # {} PROVE FALSE
  <2>1. PICK m \in Bad : \A k \in Bad : m <= k
    <3>1. Bad \in SUBSET Nat
      OBVIOUS
    <3> HIDE DEF Bad
    <3> QED
      BY <1>1, <3>1, LeastNat
  <2>2. m \in 0 .. N /\ m \notin T
    BY <2>1
  <2>3. m # 0
    BY <2>2
  <2>4. m - 1 \in 0 .. N /\ ~(m <= m - 1)
    BY <2>2, <2>3
  <2>5. m - 1 \notin Bad
    <3> HIDE DEF Bad
    <3> QED
      BY <2>1, <2>4
  <2>6. m - 1 \in T
    BY <2>4, <2>5
  <2> QED
    BY <2>2, <2>3, <2>6
<1> QED
  BY <1>1

\* Of finitely many numbers, at least one, one is the greatest.
LEMMA GreatestNat ==
    ASSUME NEW S \in SUBSET Nat, IsFiniteSet(S), S # {}
    PROVE  \E m \in S : \A k \in S : k <= m
<1>1. PICK n \in Nat : ExistsSurjection(1 .. n, S)
  BY FS_NatSurjection
<1>2. PICK f \in [1 .. n -> S] : \A s \in S : \E i \in 1 .. n : f[i] = s
  BY <1>1 DEF ExistsSurjection, Surjection
<1> DEFINE T == {j \in 0 .. n : j = 0 \/ \E k \in 1 .. j : \A i \in 1 .. j : f[i] <= f[k]}
<1>3. \A i \in 1 .. n : f[i] \in Nat
  BY <1>2
<1>4. 0 \in T
  OBVIOUS
<1>5. ASSUME NEW j \in 0 .. n, j # 0, j - 1 \in T PROVE j \in T
  <2>1. CASE j = 1
    <3>1. \A i \in 1 .. j : f[i] <= f[1]
      BY <1>3, <2>1
    <3> QED
      BY <2>1, <3>1
  <2>2. CASE j # 1
    <3>1. PICK k \in 1 .. j - 1 : \A i \in 1 .. j - 1 : f[i] <= f[k]
      BY <1>5, <2>2
    <3>2. j \in 1 .. n /\ k \in 1 .. n /\ k \in 1 .. j /\ j \in 1 .. j
      BY <1>5, <3>1
    <3>3. \A i \in 1 .. j : i \in 1 .. j - 1 \/ i = j
      BY <3>2
    <3>4. CASE f[j] <= f[k]
      <4>1. \A i \in 1 .. j : f[i] <= f[k]
        BY <3>1, <3>3, <3>4
      <4> QED
        BY <3>2, <4>1
    <3>5. CASE f[k] <= f[j]
      <4>1. ASSUME NEW i \in 1 .. j PROVE f[i] <= f[j]
        <5>1. f[i] \in Nat /\ f[j] \in Nat /\ f[k] \in Nat
          BY <1>3, <3>2
        <5> QED
          BY <3>1, <3>3, <3>5, <5>1
      <4> QED
        BY <3>2, <4>1
    <3> QED
      BY <1>3, <3>2, <3>4, <3>5
  <2> QED
    BY <2>1, <2>2
<1>6. n \in T
  <2> HIDE DEF T
  <2> QED
    BY <1>4, <1>5, CountingUp
<1>7. n # 0
  <2>1. PICK s : s \in S
    OBVIOUS
  <2>2. PICK i \in 1 .. n : f[i] = s
    BY <1>2, <2>1
  <2> QED
    BY <2>2
<1>8. PICK k \in 1 .. n : \A i \in 1 .. n : f[i] <= f[k]
  BY <1>6, <1>7
<1> QED
  BY <1>2, <1>8

\* A set of workers, before and after one of them moved.
LEMMA OneMoved ==
    ASSUME NEW W, IsFiniteSet(W), NEW S \in SUBSET W, NEW T \in SUBSET W, NEW w, T \ {w} = S \ {w}
    PROVE  /\ Cardinality(S) \in Nat /\ Cardinality(T) \in Nat
           /\ (w \in S <=> w \in T) => Cardinality(T) = Cardinality(S)
           /\ w \notin S /\ w \in T => Cardinality(T) = Cardinality(S) + 1
           /\ w \in S /\ w \notin T => Cardinality(T) = Cardinality(S) - 1
<1>1. IsFiniteSet(S) /\ IsFiniteSet(T)
  BY FS_Subset
<1>2. Cardinality(S) \in Nat /\ Cardinality(T) \in Nat
  BY <1>1, FS_CardinalityType
<1>3. (w \in S <=> w \in T) => T = S
  OBVIOUS
<1>4. ASSUME w \notin S, w \in T PROVE Cardinality(T) = Cardinality(S) + 1
  <2>1. T = S \cup {w}
    BY <1>4
  <2> QED
    BY <1>1, <1>4, <2>1, FS_AddElement
<1>5. ASSUME w \in S, w \notin T PROVE Cardinality(T) = Cardinality(S) - 1
  <2>1. T = S \ {w}
    BY <1>5
  <2> QED
    BY <1>1, <1>5, <2>1, FS_RemoveElement
<1> QED
  BY <1>2, <1>3, <1>4, <1>5

\* Fewer of a finite set are counted as fewer.
LEMMA FewerOf ==
    ASSUME NEW W, IsFiniteSet(W), NEW S \in SUBSET W, NEW T \in SUBSET S
    PROVE  Cardinality(S) \in Nat /\ Cardinality(T) \in Nat /\ Cardinality(T) <= Cardinality(S)
<1>1. IsFiniteSet(S)
  BY FS_Subset
<1> QED
  BY <1>1, FS_Subset, FS_CardinalityType

\* What the members of a finite set each have one of is no more than they are.
LEMMA OneOfEach ==
    ASSUME NEW W, IsFiniteSet(W), NEW f, NEW T \in SUBSET {f[w] : w \in W}
    PROVE  Cardinality(T) \in Nat /\ Cardinality(W) \in Nat /\ Cardinality(T) <= Cardinality(W)
<1> DEFINE R == {f[w] : w \in W}
           g == [w \in W |-> f[w]]
<1>1. g \in Surjection(W, R)
  BY DEF Surjection
<1> HIDE DEF R, g
<1>2. IsFiniteSet(R) /\ Cardinality(R) <= Cardinality(W)
  BY <1>1, FS_Surjection
<1>3. T \in SUBSET R
  BY DEF R
<1>4. Cardinality(W) \in Nat
  BY FS_CardinalityType
<1> QED
  BY <1>2, <1>3, <1>4, FewerOf, FS_CardinalityType
=============================================================================
