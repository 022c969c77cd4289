------------------------------ MODULE Induction ------------------------------
(***************************************************************************)
(* Induction over data, in the form the proofs of this project use it: a   *)
(* set of numbers, or of subsets of a finite set, that contains the first  *)
(* and with each one the next contains them all. The least element of what *)
(* is left out would contradict it; it exists by well-foundedness.         *)
(***************************************************************************)
EXTENDS Integers, FiniteSets, FiniteSetTheorems, WellFoundedInduction, TLAPS

\* A set of natural numbers has a least element.
LEMMA LeastNumber ==
  ASSUME NEW T \in SUBSET Nat, T # {}
  PROVE  \E n \in T : \A m \in T : n <= m
<1>1. PICK n \in T : \A m \in T : ~(<<m, n>> \in OpToRel(<, Nat))
  BY WFMin, NatLessThanWellFounded, Zenon
<1>2. ASSUME NEW m \in T
      PROVE  n <= m
  <2>1. n \in Nat /\ m \in Nat
    BY <1>1
  <2>2. m < n => <<m, n>> \in OpToRel(<, Nat)
    BY <2>1, Zenon DEF OpToRel
  <2>3. ~(m < n)
    BY <1>1, <2>2, Zenon
  <2> QED BY <2>1, <2>3
<1> QED BY <1>2

\* Zero, and with each number the next: all numbers.
LEMMA EveryNumber ==
  ASSUME NEW T, 0 \in T, \A n \in Nat : n \in T => n + 1 \in T
  PROVE  Nat \subseteq T
<1> DEFINE Missing == Nat \ T
<1> SUFFICES Missing = {}
  BY Zenon
<1> SUFFICES ASSUME Missing # {} PROVE FALSE
  OBVIOUS
<1>1. PICK n \in Missing : \A m \in Missing : n <= m
  BY LeastNumber
<1>2. n \in Nat /\ n \notin T /\ n # 0
  BY <1>1
<1>3. n - 1 \in Nat /\ (n - 1) + 1 = n /\ ~(n <= n - 1)
  BY <1>2
<1>4. n - 1 \in T
  BY <1>1, <1>3
<1> QED BY <1>2, <1>3, <1>4

\* A recursion over numbers has a solution: step[n] leads from the value at n - 1
\* to the value at n.
Solves(g, base, step, N) ==
    g = [n \in 0 .. N |-> IF n = 0 THEN base ELSE step[n][g[n - 1]]]

LEMMA RecursionExists ==
  ASSUME NEW V, NEW base \in V, NEW N \in Nat, NEW step \in [1 .. N -> [V -> V]]
  PROVE  \E g \in [0 .. N -> V] : Solves(g, base, step, N)
<1> DEFINE Solved == {m \in Nat : m <= N => \E g \in [0 .. m -> V] : Solves(g, base, step, m)}
<1>1. 0 \in Solved
  <2> DEFINE g == [n \in 0 .. 0 |-> base]
  <2>1. g \in [0 .. 0 -> V] /\ Solves(g, base, step, 0)
    BY DEF Solves
  <2> HIDE DEF g
  <2> QED BY <2>1
<1>2. ASSUME NEW m \in Nat, m \in Solved
      PROVE  m + 1 \in Solved
  <2> SUFFICES ASSUME m + 1 <= N
               PROVE  \E h \in [0 .. m + 1 -> V] : Solves(h, base, step, m + 1)
    OBVIOUS
  <2>1. PICK g \in [0 .. m -> V] : Solves(g, base, step, m)
    BY <1>2
  <2> DEFINE h == [n \in 0 .. m + 1 |-> IF n = m + 1 THEN step[m + 1][g[m]] ELSE g[n]]
  <2>2. g[m] \in V /\ m + 1 \in 1 .. N
    OBVIOUS
  <2>3. step[m + 1][g[m]] \in V
    BY <2>2
  <2>4. h \in [0 .. m + 1 -> V]
    BY <2>3
  <2>5. ASSUME NEW n \in 0 .. m + 1
        PROVE  h[n] = IF n = 0 THEN base ELSE step[n][h[n - 1]]
    <3>1. CASE n = m + 1
      <4>1. h[n] = step[m + 1][g[m]] /\ n # 0
        BY <3>1
      <4>2. h[n - 1] = g[m]
        BY <3>1
      <4> QED BY <3>1, <4>1, <4>2
    <3>2. CASE n # m + 1
      <4>1. n \in 0 .. m /\ h[n] = g[n]
        BY <3>2
      <4>2. n # 0 => n - 1 \in 0 .. m /\ h[n - 1] = g[n - 1]
        BY <4>1
      <4>3. g[n] = IF n = 0 THEN base ELSE step[n][g[n - 1]]
        BY <2>1, <4>1 DEF Solves
      <4> QED BY <4>1, <4>2, <4>3
    <3> QED BY <3>1, <3>2
  <2> HIDE DEF h
  <2>6. Solves(h, base, step, m + 1)
    BY <2>4, <2>5 DEF Solves
  <2> QED BY <2>4, <2>6
<1>3. Nat \subseteq Solved
  <2> HIDE DEF Solved
  <2> QED BY <1>1, <1>2, EveryNumber
<1> QED BY <1>3

\* A set that contains each subset of S of which it contains all that are one
\* element smaller: all subsets.
LEMMA EverySubset ==
  ASSUME NEW S, IsFiniteSet(S), NEW F,
         \A A \in SUBSET S : (\A x \in A : A \ {x} \in F) => A \in F
  PROVE  SUBSET S \subseteq F
<1> DEFINE Reached == {n \in Nat : \A A \in SUBSET S : Cardinality(A) = n => A \in F}
<1>1. 0 \in Reached
  <2>1. ASSUME NEW A \in SUBSET S, Cardinality(A) = 0
        PROVE  A \in F
    <3>1. A = {}
      BY <2>1, FS_Subset, FS_EmptySet
    <3> QED BY <3>1
  <2> QED BY <2>1
<1>2. ASSUME NEW n \in Nat, n \in Reached
      PROVE  n + 1 \in Reached
  <2>1. ASSUME NEW A \in SUBSET S, Cardinality(A) = n + 1
        PROVE  A \in F
    <3>1. IsFiniteSet(A)
      BY FS_Subset
    <3>2. ASSUME NEW x \in A
          PROVE  A \ {x} \in F
      <4>1. Cardinality(A \ {x}) = Cardinality(A) - 1
        BY <3>1, FS_RemoveElement
      <4>2. Cardinality(A \ {x}) = n /\ A \ {x} \in SUBSET S
        BY <2>1, <4>1
      <4> QED BY <1>2, <4>2
    <3> QED BY <3>2
  <2> QED BY <2>1
<1>3. Nat \subseteq Reached
  <2> HIDE DEF Reached
  <2> QED BY <1>1, <1>2, EveryNumber
<1>4. ASSUME NEW A \in SUBSET S
      PROVE  A \in F
  <2>1. Cardinality(A) \in Nat
    BY FS_Subset, FS_CardinalityType
  <2> QED BY <1>3, <2>1
<1> QED BY <1>4
=============================================================================
