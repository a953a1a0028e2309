------------------------------- MODULE Induction -------------------------------
(***************************************************************************)
(* Induction over the natural numbers, stated for sets instead of          *)
(* predicates, and what follows from it for the recursive functions of the *)
(* other modules.                                                          *)
(***************************************************************************)
EXTENDS Integers, FiniteSets, FiniteSetTheorems, TLAPS

\* A set with 0 and, with each number, its successor contains every number: the
\* successor function would otherwise map a finite set, injectively, into itself
\* without 0.
LEMMA NatInSet ==
    ASSUME NEW S, 0 \in S, \A n \in Nat : n \in S => n + 1 \in S
    PROVE  Nat \subseteq S
<1> SUFFICES ASSUME NEW n \in Nat, n \notin S PROVE FALSE
  OBVIOUS
<1> DEFINE T == S \cap (0 .. n)
           f == [k \in T |-> k + 1]
<1>1. IsFiniteSet(T)
  <2>1. IsFiniteSet(0 .. n)
    BY FS_Interval
  <2> QED
    BY <2>1, FS_Intersection
<1>2. 0 \in T
  OBVIOUS
<1>3. IsFiniteSet(T \ {0}) /\ Cardinality(T \ {0}) = Cardinality(T) - 1
  BY <1>1, <1>2, FS_RemoveElement
<1>4. Cardinality(T \ {0}) < Cardinality(T)
  BY <1>1, <1>3, FS_CardinalityType
<1>5. f \in [T -> T \ {0}]
  <2>1. ASSUME NEW k \in T PROVE k + 1 \in T \ {0}
    <3>1. k # n /\ k + 1 \in S
      OBVIOUS
    <3> QED
      BY <3>1
  <2> QED
    BY <2>1
<1>6. \E x, y \in T : x # y /\ f[x] = f[y]
  <2> HIDE DEF T, f
  <2> QED
    BY <1>1, <1>3, <1>4, <1>5, FS_PigeonHole
<1> QED
  BY <1>6

\* The same up to a bound.
LEMMA IntervalInSet ==
    ASSUME NEW m \in Nat, NEW S, 0 \in S, \A n \in 0 .. m - 1 : n \in S => n + 1 \in S
    PROVE  0 .. m \subseteq S
<1> DEFINE T == {n \in Nat : n <= m => n \in S}
<1>1. 0 \in T
  OBVIOUS
<1>2. \A n \in Nat : n \in T => n + 1 \in T
  OBVIOUS
<1>3. Nat \subseteq T
  BY <1>1, <1>2, NatInSet
<1> QED
  BY <1>3

\* g is what recursion with a first value and a next value gives, up to m.
Recursion(g, m, base, next) == g[0] = base /\ \A n \in 1 .. m : g[n] = next[n][g[n - 1]]

\* Recursion ends in a function, up to any bound.
LEMMA RecursionExists ==
    ASSUME NEW m \in Nat, NEW V, NEW base \in V, NEW next \in [Nat -> [V -> V]]
    PROVE  \E g \in [0 .. m -> V] : Recursion(g, m, base, next)
<1> DEFINE S == {k \in Nat : \E g \in [0 .. k -> V] : Recursion(g, k, base, next)}
<1>1. 0 \in S
  <2> DEFINE g == [n \in 0 .. 0 |-> base]
  <2>1. g \in [0 .. 0 -> V] /\ Recursion(g, 0, base, next)
    BY DEF Recursion
  <2> QED
    BY <2>1
<1>2. ASSUME NEW k \in Nat, k \in S PROVE k + 1 \in S
  <2>1. PICK g \in [0 .. k -> V] : Recursion(g, k, base, next)
    BY <1>2
  <2> DEFINE h == [n \in 0 .. k + 1 |-> IF n = k + 1 THEN next[n][g[k]] ELSE g[n]]
  <2>2. h \in [0 .. k + 1 -> V]
    OBVIOUS
  <2>3. h[0] = base
    BY <2>1 DEF Recursion
  <2>4. ASSUME NEW n \in 1 .. k + 1 PROVE h[n] = next[n][h[n - 1]]
    <3>1. CASE n = k + 1
      BY <3>1
    <3>2. CASE n # k + 1
      <4>1. n \in 1 .. k /\ n - 1 \in 0 .. k /\ n - 1 # k + 1
        BY <3>2
      <4>2. h[n] = g[n] /\ h[n - 1] = g[n - 1]
        BY <3>2, <4>1
      <4> QED
        BY <2>1, <4>1, <4>2 DEF Recursion
    <3> QED
      BY <3>1, <3>2
  <2> HIDE DEF h
  <2>5. k + 1 \in Nat
    OBVIOUS
  <2> QED
    BY <2>2, <2>3, <2>4, <2>5 DEF Recursion
<1>3. Nat \subseteq S
  <2> HIDE DEF S
  <2> QED
    BY <1>1, <1>2, NatInSet
<1> QED
  BY <1>3

\* A set of numbers has a least element.
LEMMA LeastElement ==
    ASSUME NEW T \in SUBSET Nat, NEW m \in T
    PROVE  \E l \in T : \A k \in T : l <= k
<1> DEFINE S == {n \in Nat : (\E k \in T : k <= n) => \E l \in T : \A k \in T : l <= k}
<1>1. 0 \in S
  OBVIOUS
<1>2. ASSUME NEW n \in Nat, n \in S PROVE n + 1 \in S
  <2>1. CASE \E k \in T : k <= n
    BY <1>2, <2>1
  <2>2. CASE \A k \in T : ~(k <= n)
    <3>1. \A k \in T : n + 1 <= k
      BY <2>2
    <3> QED
      BY <3>1
  <2> QED
    BY <2>1, <2>2
<1>3. Nat \subseteq S
  <2> HIDE DEF S
  <2> QED
    BY <1>1, <1>2, NatInSet
<1> QED
  BY <1>3
=============================================================================
