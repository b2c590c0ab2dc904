------------------------------ MODULE Induction ------------------------------
(***************************************************************************)
(* Induction over the natural numbers and what follows from it, with sets  *)
(* in the place of predicates: a fact about every number is proved by      *)
(* taking the set of the numbers that have it.  It rests on the strict     *)
(* subset ordering of finite sets being well founded.                      *)
(***************************************************************************)
EXTENDS Integers, FiniteSets, FiniteSetTheorems, WellFoundedInduction, TLAPS

(* A set of natural numbers has a least one. *)
LEMMA LeastNumber ==
    ASSUME NEW T, T \subseteq Nat, T # {}
    PROVE  \E n \in T : \A m \in T : n <= m
<1> DEFINE Below == {0 .. n : n \in T}
<1>1. Below # {} /\ Below \subseteq FiniteSubsetsOf(Nat)
  <2>1. ASSUME NEW n \in T
        PROVE  0 .. n \in FiniteSubsetsOf(Nat)
    <3>1. IsFiniteSet(0 .. n)
      BY <2>1, FS_Interval
    <3> QED BY <3>1 DEF FiniteSubsetsOf
  <2> QED BY <2>1
<1>2. IsWellFoundedOn(StrictSubsetOrdering(Nat), FiniteSubsetsOf(Nat))
  BY FS_StrictSubsetOrderingWellFounded
<1> HIDE DEF Below
<1>3. \E x \in Below : \A y \in Below : ~ (<<y, x>> \in StrictSubsetOrdering(Nat))
  BY <1>1, <1>2, WFMin
<1>4. PICK n \in T : \A y \in Below : ~ (<<y, 0 .. n>> \in StrictSubsetOrdering(Nat))
  BY <1>3 DEF Below
<1>5. ASSUME NEW m \in T, m < n
      PROVE  FALSE
  <2>1. 0 .. m \in Below
    BY DEF Below
  <2>2. <<0 .. m, 0 .. n>> \in StrictSubsetOrdering(Nat)
    BY <1>5 DEF StrictSubsetOrdering
  <2> QED BY <1>4, <2>1, <2>2
<1> QED BY <1>5

(* Induction from k up to n. *)
LEMMA InductionUpTo ==
    ASSUME NEW k \in Nat, NEW n \in Nat, NEW T, k \in T,
           \A i \in Nat : k <= i /\ i < n /\ i \in T => i + 1 \in T
    PROVE  \A i \in k .. n : i \in T
<1> DEFINE Bad == (k .. n) \ T
<1>1. ASSUME Bad # {}
      PROVE  FALSE
  <2>1. PICK i \in Bad : \A j \in Bad : i <= j
    <3>1. Bad \subseteq Nat
      OBVIOUS
    <3> HIDE DEF Bad
    <3> QED BY <1>1, <3>1, LeastNumber
  <2>2. i \in k .. n /\ i # k
    BY <2>1
  <2>3. i - 1 \in Nat /\ k <= i - 1 /\ i - 1 < n /\ i - 1 \notin Bad
    BY <2>1, <2>2
  <2> QED BY <2>1, <2>2, <2>3
<1> QED BY <1>1

LEMMA InductionOnNat ==
    ASSUME NEW T, 0 \in T, \A i \in Nat : i \in T => i + 1 \in T
    PROVE  \A i \in Nat : i \in T
<1>1. ASSUME NEW n \in Nat
      PROVE  n \in T
  <2>1. \A i \in 0 .. n : i \in T
    BY InductionUpTo
  <2> QED BY <2>1
<1> QED BY <1>1

(* A function that is defined by its value at 0 and a step exists. *)
Recurs(g, S, b, n, F) == g \in [0 .. n -> S] /\ g[0] = b /\ \A i \in 1 .. n : g[i] = F[<<g[i - 1], i>>]

LEMMA RecursionExists ==
    ASSUME NEW S, NEW b \in S, NEW n \in Nat, NEW F \in [S \X (1 .. n) -> S]
    PROVE  \E g : Recurs(g, S, b, n, F)
<1> DEFINE Upto(m) == \E g \in [0 .. m -> S] : g[0] = b /\ \A i \in 1 .. m : g[i] = F[<<g[i - 1], i>>]
           T == {m \in Nat : m <= n => Upto(m)}
<1>1. 0 \in T
  <2>1. PICK g : g = [i \in 0 .. 0 |-> b]
    OBVIOUS
  <2>2. g \in [0 .. 0 -> S] /\ g[0] = b /\ \A i \in 1 .. 0 : g[i] = F[<<g[i - 1], i>>]
    BY <2>1
  <2>3. Upto(0)
    BY <2>2
  <2> QED BY <2>3
<1>2. ASSUME NEW m \in Nat, m \in T
      PROVE  m + 1 \in T
  <2>1. SUFFICES ASSUME m + 1 <= n
                 PROVE  Upto(m + 1)
    OBVIOUS
  <2>2. PICK g \in [0 .. m -> S] : g[0] = b /\ \A i \in 1 .. m : g[i] = F[<<g[i - 1], i>>]
    BY <1>2, <2>1
  <2>3. PICK last \in S : last = F[<<g[m], m + 1>>]
    <3>1. <<g[m], m + 1>> \in S \X (1 .. n)
      BY <2>1
    <3> QED BY <3>1
  <2>4. PICK h : h = [i \in 0 .. (m + 1) |-> IF i = m + 1 THEN last ELSE g[i]]
    OBVIOUS
  <2>5. h \in [0 .. (m + 1) -> S] /\ h[m + 1] = last /\ \A i \in 0 .. m : h[i] = g[i]
    BY <2>4
  <2>6. h[0] = b
    BY <2>2, <2>5
  <2>7. ASSUME NEW i \in 1 .. (m + 1)
        PROVE  h[i] = F[<<h[i - 1], i>>]
    <3>1. CASE i = m + 1
      BY <2>3, <2>5, <3>1
    <3>2. CASE i \in 1 .. m
      BY <2>2, <2>5, <3>2
    <3> QED BY <3>1, <3>2
  <2> QED BY <2>5, <2>6, <2>7
<1> HIDE DEF Upto
<1>3. \A m \in Nat : m \in T
  BY <1>1, <1>2, InductionOnNat
<1>4. Upto(n)
  BY <1>3
<1> QED BY <1>4 DEF Upto, Recurs

(* A finite set has an element of lowest and one of highest order. *)
LEMMA ExtremesExist ==
    ASSUME NEW A, IsFiniteSet(A), A # {}, NEW order \in [A -> Int]
    PROVE  /\ \E x \in A : \A y \in A : order[x] <= order[y]
           /\ \E x \in A : \A y \in A : order[x] >= order[y]
<1> DEFINE Has(B) == /\ \E x \in B : \A y \in B : order[x] <= order[y]
                     /\ \E x \in B : \A y \in B : order[x] >= order[y]
           T == {m \in Nat : \A B \in SUBSET A : IsFiniteSet(B) /\ B # {} /\ Cardinality(B) = m => Has(B)}
<1>1. 0 \in T
  BY FS_EmptySet
<1>2. ASSUME NEW m \in Nat, m \in T
      PROVE  m + 1 \in T
  <2>1. SUFFICES ASSUME NEW B \in SUBSET A, IsFiniteSet(B), B # {}, Cardinality(B) = m + 1
                 PROVE  Has(B)
    OBVIOUS
  <2>2. PICK z \in B : TRUE
    BY <2>1
  <2>3. IsFiniteSet(B \ {z}) /\ Cardinality(B \ {z}) = m
    <3>1. IsFiniteSet(B \ {z}) /\ Cardinality(B \ {z}) = Cardinality(B) - 1
      BY <2>1, <2>2, FS_RemoveElement
    <3> QED BY <2>1, <3>1
  <2>4. CASE B \ {z} = {}
    <3>1. B = {z} /\ order[z] \in Int
      BY <2>2, <2>4
    <3> QED BY <3>1
  <2>5. CASE B \ {z} # {}
    <3>1. Has(B \ {z})
      BY <1>2, <2>3, <2>5
    <3>2. PICK lo \in B \ {z}, hi \in B \ {z} :
              \A y \in B \ {z} : order[lo] <= order[y] /\ order[hi] >= order[y]
      BY <3>1
    <3>3. order[z] \in Int /\ order[lo] \in Int /\ order[hi] \in Int /\ \A y \in B : order[y] \in Int
      BY <2>2
    <3>4. \E x \in B : \A y \in B : order[x] <= order[y]
      <4>1. CASE order[lo] <= order[z]
        BY <3>2, <4>1
      <4>2. CASE order[z] < order[lo]
        BY <3>2, <3>3, <4>2
      <4> QED BY <3>3, <4>1, <4>2
    <3>5. \E x \in B : \A y \in B : order[x] >= order[y]
      <4>1. CASE order[hi] >= order[z]
        BY <3>2, <4>1
      <4>2. CASE order[z] > order[hi]
        BY <3>2, <3>3, <4>2
      <4> QED BY <3>3, <4>1, <4>2
    <3> QED BY <3>4, <3>5
  <2> QED BY <2>4, <2>5
<1> HIDE DEF Has
<1>3. \A m \in Nat : m \in T
  BY <1>1, <1>2, InductionOnNat
<1>4. Has(A)
  BY <1>3, FS_CardinalityType
<1> QED BY <1>4 DEF Has
=============================================================================
