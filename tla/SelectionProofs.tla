--------------------------- MODULE SelectionProofs ---------------------------
(***************************************************************************)
(* Facts several of the proofs rest on: a set of numbers has a least one,  *)
(* induction on numbers and on finite sets, a fold has a value, and        *)
(* [x for x in s if ...], written as the n-th position chosen for each n,  *)
(* is a sequence of elements of s.                                         *)
(***************************************************************************)
EXTENDS Integers, Sequences, FiniteSets, FiniteSetTheorems, WellFoundedInduction, TLAPS

LEMMA LeastNat ==
    ASSUME NEW T, T \subseteq Nat, T # {}
    PROVE  \E m \in T : \A n \in T : m <= n
<1>1. PICK m \in T : \A n \in T : ~(<<n, m>> \in OpToRel(<, Nat))
  BY WFMin, NatLessThanWellFounded
<1>2. ASSUME NEW n \in T PROVE m <= n
  <2>1. m \in Nat /\ n \in Nat
    OBVIOUS
  <2>2. n < m => <<n, m>> \in OpToRel(<, Nat)
    BY <2>1 DEF OpToRel
  <2>3. ~(<<n, m>> \in OpToRel(<, Nat))
    BY <1>1
  <2>4. ~(n < m)
    BY <2>2, <2>3
  <2> QED
    BY <2>1, <2>4
<1> QED
  BY <1>2

\* Induction on numbers, said of a set.
LEMMA FromZero ==
    ASSUME NEW T, 0 \in T, \A n \in Nat : n \in T => n + 1 \in T
    PROVE  \A n \in Nat : n \in T
<1> DEFINE Not == {n \in Nat : n \notin T}
<1> SUFFICES ASSUME Not # {} PROVE FALSE
  OBVIOUS
<1>1. PICK m \in Not : \A n \in Not : m <= n
  <2>1. Not \subseteq Nat
    OBVIOUS
  <2> HIDE DEF Not
  <2> QED
    BY <2>1, LeastNat
<1>2. m \in Nat /\ m # 0 /\ m \notin T
  OBVIOUS
<1>3. m - 1 \in Nat /\ m - 1 \notin Not
  BY <1>1, <1>2
<1>4. m - 1 \in T
  BY <1>3
<1>5. (m - 1) + 1 \in T
  BY <1>3, <1>4
<1> QED
  BY <1>2, <1>5

\* One element taken from a finite set leaves one fewer.
LEMMA OneFewer ==
    ASSUME NEW D, IsFiniteSet(D), NEW s \in SUBSET D, NEW x \in s
    PROVE  /\ IsFiniteSet(s) /\ s \ {x} \in SUBSET D
           /\ Cardinality(s) \in Nat /\ Cardinality(s \ {x}) \in Nat
           /\ Cardinality(s \ {x}) = Cardinality(s) - 1
<1>1. IsFiniteSet(s)
  BY FS_Subset
<1>2. s \ {x} \in SUBSET D /\ IsFiniteSet(s \ {x})
  BY <1>1, FS_Subset
<1> QED
  BY <1>1, <1>2, FS_RemoveElement, FS_CardinalityType

\* Induction on finite sets, said of a set of sets.
LEMMA FromEmpty ==
    ASSUME NEW D, IsFiniteSet(D), NEW G, {} \in G,
           \A s \in SUBSET D : s # {} => \E x \in s : s \ {x} \in G => s \in G
    PROVE  \A s \in SUBSET D : s \in G
<1> DEFINE T == {n \in Nat : \A s \in SUBSET D : Cardinality(s) = n => s \in G}
<1>1. ASSUME NEW s \in SUBSET D
      PROVE  Cardinality(s) \in Nat /\ (Cardinality(s) = 0 => s = {})
  <2>1. IsFiniteSet(s)
    BY FS_Subset
  <2> QED
    BY <2>1, FS_CardinalityType, FS_EmptySet
<1>2. 0 \in T
  BY <1>1
<1>3. ASSUME NEW n \in Nat, n \in T PROVE n + 1 \in T
  <2>1. ASSUME NEW s \in SUBSET D, Cardinality(s) = n + 1 PROVE s \in G
    <3>1. s # {}
      <4>1. s = {} => Cardinality(s) = 0
        BY FS_EmptySet
      <4> QED
        BY <2>1, <4>1
    <3>2. PICK x \in s : s \ {x} \in G => s \in G
      BY <3>1
    <3>3. s \ {x} \in SUBSET D /\ Cardinality(s \ {x}) = n
      BY <2>1, OneFewer
    <3> QED
      BY <1>3, <3>2, <3>3
  <2> QED
    BY <2>1
<1>4. \A n \in Nat : n \in T
  <2> HIDE DEF T
  <2> QED
    BY <1>2, <1>3, FromZero
<1> QED
  BY <1>1, <1>4

\* A fold over a set: a value for every subset, each one step from a subset
\* with one element fewer.  The step and the choice are functions.
Picks(pick, D) == \A s \in SUBSET D : s # {} => pick[s] \in s
StepsIn(step, D, V) == \A x \in D : \A v \in V : step[<< x, v >>] \in V
Iterated(it, D, b, pick, step) ==
    it = [s \in SUBSET D |->
            IF s = {} THEN b ELSE step[<< pick[s], it[s \ {pick[s]}] >>]]

\* The fold exists, and has its values where the steps have theirs.
LEMMA Iterates ==
    ASSUME NEW D, IsFiniteSet(D), NEW V, NEW b \in V, NEW pick, NEW step,
           Picks(pick, D), StepsIn(step, D, V)
    PROVE  /\ \E it : Iterated(it, D, b, pick, step)
           /\ \A it : Iterated(it, D, b, pick, step) => it \in [SUBSET D -> V]
<1> USE DEF Picks, StepsIn
<1> DEFINE Upto(n) == {s \in SUBSET D : Cardinality(s) <= n}
           Then(it, s) == IF s = {} THEN b ELSE step[<< pick[s], it[s \ {pick[s]}] >>]
           Good(it, n) == it \in [Upto(n) -> V] /\ \A s \in Upto(n) : it[s] = Then(it, s)
           T == {n \in Nat : \E it : Good(it, n)}
<1>1. ASSUME NEW s \in SUBSET D
      PROVE  Cardinality(s) \in Nat /\ (Cardinality(s) = 0 <=> s = {})
  <2>1. IsFiniteSet(s)
    BY FS_Subset
  <2> QED
    BY <2>1, FS_CardinalityType, FS_EmptySet
<1>2. 0 \in T
  <2> DEFINE it == [s \in Upto(0) |-> b]
  <2>1. \A s \in Upto(0) : s = {}
    BY <1>1
  <2>2. Good(it, 0)
    BY <2>1
  <2> QED
    BY <2>2
<1>3. ASSUME NEW n \in Nat, n \in T PROVE n + 1 \in T
  <2>1. PICK it : Good(it, n)
    BY <1>3
  <2> DEFINE more == [s \in Upto(n + 1) |-> Then(it, s)]
  <2>2. ASSUME NEW s \in Upto(n + 1), s # {}
        PROVE  pick[s] \in s /\ pick[s] \in D /\ s \ {pick[s]} \in Upto(n)
    <3>1. s \in SUBSET D /\ pick[s] \in s
      BY <2>2
    <3>2. PICK x \in s : x = pick[s]
      BY <3>1
    <3>3. /\ s \ {x} \in SUBSET D /\ Cardinality(s \ {x}) = Cardinality(s) - 1
          /\ Cardinality(s) \in Nat
      BY <3>1, OneFewer
    <3> QED
      BY <2>2, <3>1, <3>2, <3>3
  <2>3. Upto(n) \subseteq Upto(n + 1)
    BY <1>1
  <2>4. \A s \in Upto(n + 1) : Then(it, s) \in V
    BY <2>1, <2>2
  <2>5. more \in [Upto(n + 1) -> V]
    BY <2>4
  <2>6. \A s \in Upto(n) : more[s] = it[s]
    BY <2>1, <2>3
  <2>7. \A s \in Upto(n + 1) : more[s] = Then(more, s)
    <3> SUFFICES ASSUME NEW s \in Upto(n + 1) PROVE more[s] = Then(more, s)
      OBVIOUS
    <3>1. more[s] = Then(it, s)
      OBVIOUS
    <3>2. s # {} => more[s \ {pick[s]}] = it[s \ {pick[s]}]
      BY <2>2, <2>6
    <3> HIDE DEF more
    <3> QED
      BY <3>1, <3>2
  <2> HIDE DEF more
  <2>8. Good(more, n + 1)
    BY <2>5, <2>7
  <2> HIDE DEF Good
  <2> QED
    BY <2>8
<1>4. Cardinality(D) \in T
  <2>1. Cardinality(D) \in Nat
    BY FS_CardinalityType
  <2> HIDE DEF T
  <2> QED
    BY <1>2, <1>3, <2>1, FromZero
<1>5. PICK it : Good(it, Cardinality(D))
  BY <1>4
<1>6. Upto(Cardinality(D)) = SUBSET D
  <2>1. \A s \in SUBSET D : Cardinality(s) <= Cardinality(D)
    BY FS_Subset
  <2> QED
    BY <2>1
<1>7. Iterated(it, D, b, pick, step)
  <2>1. \A s \in SUBSET D : it[s] = Then(it, s)
    BY <1>5, <1>6
  <2>2. it = [s \in SUBSET D |-> it[s]]
    BY <1>5, <1>6
  <2> QED
    BY <2>1, <2>2 DEF Iterated
<1>8. ASSUME NEW is, Iterated(is, D, b, pick, step)
      PROVE  is \in [SUBSET D -> V]
  <2> DEFINE G == {s \in SUBSET D : is[s] \in V}
  <2>1. is = [s \in SUBSET D |-> Then(is, s)]
    BY <1>8 DEF Iterated
  <2>2. {} \in G
    BY <2>1
  <2>3. \A s \in SUBSET D : s # {} => \E x \in s : s \ {x} \in G => s \in G
    <3>1. ASSUME NEW s \in SUBSET D, s # {}, s \ {pick[s]} \in G PROVE s \in G
      <4>1. is[s] = step[<< pick[s], is[s \ {pick[s]}] >>] /\ pick[s] \in D
        BY <2>1, <3>1
      <4>2. is[s \ {pick[s]}] \in V
        BY <3>1
      <4> QED
        BY <4>1, <4>2
    <3> QED
      BY <3>1
  <2>4. \A s \in SUBSET D : s \in G
    <3> HIDE DEF G
    <3> QED
      BY <2>2, <2>3, FromEmpty
  <2>5. \A s \in SUBSET D : is[s] \in V
    BY <2>4
  <2>6. DOMAIN is = SUBSET D /\ is = [s \in SUBSET D |-> is[s]]
    BY <2>1
  <2> HIDE DEF Then
  <2> QED
    BY <2>5, <2>6
<1> QED
  BY <1>7, <1>8

\* Of K positions, the n-th is one with n of them up to it.
LEMMA NthExists ==
    ASSUME NEW N \in Nat, NEW K, K \subseteq 1 .. N, NEW n \in 1 .. Cardinality(K)
    PROVE  \E k \in K : Cardinality({j \in K : j <= k}) = n
<1> DEFINE Below(x) == {j \in K : j <= x}
           T == {x \in Nat : Cardinality(Below(x)) >= n}
<1>0. \A j \in K : j \in Nat /\ j >= 1 /\ j <= N
  OBVIOUS
<1>1. IsFiniteSet(K) /\ Cardinality(K) \in Nat
  <2>1. IsFiniteSet(1 .. N)
    BY FS_Interval
  <2> QED
    BY <2>1, FS_Subset, FS_CardinalityType
<1>2. ASSUME NEW x
      PROVE  IsFiniteSet(Below(x)) /\ Cardinality(Below(x)) \in Nat
  <2>1. Below(x) \in SUBSET K
    OBVIOUS
  <2> HIDE DEF Below
  <2> QED
    BY <1>1, <2>1, FS_Subset, FS_CardinalityType
<1>3. n \in Nat /\ n >= 1 /\ n <= Cardinality(K)
  BY <1>1
<1>4. N \in T
  <2>1. Below(N) = K
    BY <1>0
  <2> HIDE DEF Below
  <2> QED
    BY <1>3, <1>1, <2>1
<1>5. PICK x \in T : \A y \in T : x <= y
  <2>1. T \subseteq Nat
    OBVIOUS
  <2> HIDE DEF T
  <2> QED
    BY <1>4, <2>1, LeastNat
<1>6. x \in Nat /\ Cardinality(Below(x)) >= n
  BY <1>5
<1>7. x > 0
  <2>1. Below(0) = {}
    <3>1. \A j \in K : ~ (j <= 0)
      BY <1>0
    <3> QED
      BY <3>1
  <2> HIDE DEF Below
  <2>2. Cardinality(Below(0)) = 0
    BY <2>1, FS_EmptySet
  <2>3. x # 0
    BY <1>3, <1>6, <2>2
  <2> QED
    BY <1>6, <2>3
<1>8. Cardinality(Below(x - 1)) < n
  <2>1. x - 1 \in Nat /\ ~ (x <= x - 1)
    BY <1>6, <1>7
  <2>2. x - 1 \notin T
    BY <1>5, <2>1
  <2>3. Cardinality(Below(x - 1)) \in Nat
    BY <1>2
  <2> HIDE DEF Below
  <2> QED
    BY <1>3, <2>1, <2>2, <2>3
<1>9. x \in K
  <2> SUFFICES ASSUME x \notin K PROVE FALSE
    OBVIOUS
  <2>1. ASSUME NEW j \in K PROVE j <= x <=> j <= x - 1
    <3>1. j \in Nat /\ j # x
      BY <1>0
    <3> QED
      BY <1>6, <3>1
  <2>2. Below(x) = Below(x - 1)
    BY <2>1
  <2>3. Cardinality(Below(x)) \in Nat
    BY <1>2
  <2> HIDE DEF Below
  <2> QED
    BY <1>3, <1>6, <1>8, <2>2, <2>3
<1>10. Cardinality(Below(x)) = Cardinality(Below(x - 1)) + 1
  <2>1. ASSUME NEW j \in K PROVE j <= x <=> (j <= x - 1 \/ j = x)
    <3>1. j \in Nat
      BY <1>0
    <3> QED
      BY <1>6, <3>1
  <2>2. Below(x) = Below(x - 1) \cup {x}
    BY <1>9, <2>1
  <2>3. x \notin Below(x - 1)
    BY <1>6
  <2>4. IsFiniteSet(Below(x - 1))
    BY <1>2
  <2> HIDE DEF Below
  <2> QED
    BY <2>2, <2>3, <2>4, FS_AddElement
<1>11. Cardinality(Below(x)) = n
  <2>1. Cardinality(Below(x - 1)) \in Nat
    BY <1>2
  <2> HIDE DEF Below
  <2> QED
    BY <1>3, <1>6, <1>8, <1>10, <2>1
<1> QED
  BY <1>9, <1>11

\* The elements of s at the positions K, in their order.
Chosen(s, K) == [n \in 1 .. Cardinality(K) |->
                   s[CHOOSE k \in K : Cardinality({j \in K : j <= k}) = n]]

LEMMA Choosing ==
    ASSUME NEW S, NEW s \in Seq(S), NEW K, K \subseteq DOMAIN s
    PROVE  /\ Chosen(s, K) \in Seq(S)
           /\ \A n \in DOMAIN Chosen(s, K) : \E k \in K : Chosen(s, K)[n] = s[k]
           /\ K # {} => 1 \in DOMAIN Chosen(s, K)
<1> DEFINE nth(n) == CHOOSE k \in K : Cardinality({j \in K : j <= k}) = n
           c == Chosen(s, K)
<1>1. Len(s) \in Nat /\ DOMAIN s = 1 .. Len(s)
  OBVIOUS
<1>2. IsFiniteSet(K) /\ Cardinality(K) \in Nat
  <2>1. IsFiniteSet(1 .. Len(s))
    BY <1>1, FS_Interval
  <2> QED
    BY <1>1, <2>1, FS_Subset, FS_CardinalityType
<1>3. \A n \in 1 .. Cardinality(K) : nth(n) \in K
  BY <1>1, NthExists
<1>4. c = [n \in 1 .. Cardinality(K) |-> s[nth(n)]]
  BY DEF Chosen
<1> HIDE DEF nth, c
<1>5. \A n \in 1 .. Cardinality(K) : c[n] = s[nth(n)] /\ c[n] \in S
  BY <1>1, <1>3, <1>4
<1>6. c \in Seq(S)
  BY <1>2, <1>4, <1>5
<1>7. DOMAIN c = 1 .. Cardinality(K)
  BY <1>4
<1>8. K # {} => 1 \in DOMAIN c
  <2>1. K # {} => Cardinality(K) # 0
    BY <1>2, FS_EmptySet
  <2> QED
    BY <1>2, <1>7, <2>1
<1> QED
  BY <1>3, <1>5, <1>6, <1>7, <1>8 DEF c
==============================================================================
