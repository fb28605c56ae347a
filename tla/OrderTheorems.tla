---------------------------- MODULE OrderTheorems ----------------------------
(* Facts about orders, about induction and about functions defined by        *)
(* recursion, which the proofs of several components rest on.  Induction     *)
(* over positions is stated with the set of the positions at which a claim   *)
(* holds, so that no lemma takes an operator.                                *)
EXTENDS Integers, FiniteSetTheorems, WellFoundedInduction, TLAPS

\* A non-empty set of naturals has a least element.
LEMMA LeastNatural ==
  ASSUME NEW T \in SUBSET Nat, T # {}
  PROVE  \E x \in T : \A y \in T : x <= y
  <1> DEFINE R == OpToRel(<, Nat)
  <1>1. IsWellFoundedOn(R, Nat)
    BY NatLessThanWellFounded
  <1>2. PICK x \in T : \A y \in T : <<y, x>> \notin R
    <2> HIDE DEF R
    <2> QED BY <1>1, WFMin
  <1>3. \A y \in T : ~(y < x)
    BY <1>2 DEF OpToRel
  <1> QED BY <1>3

\* A finite non-empty set has an element that nothing precedes, for any
\* relation that is irreflexive and transitive on it.
LEMMA FiniteHasFirst ==
  ASSUME NEW S, IsFiniteSet(S), S # {}, NEW R,
         \A x \in S : <<x, x>> \notin R,
         \A x, y, z \in S : <<x, y>> \in R /\ <<y, z>> \in R => <<x, z>> \in R
  PROVE  \E x \in S : \A y \in S : <<y, x>> \notin R
  <1> DEFINE below(x) == {y \in S : <<y, x>> \in R}
             T == {Cardinality(below(x)) : x \in S}
  <1>1. \A x \in S : IsFiniteSet(below(x)) /\ Cardinality(below(x)) \in Nat
    BY FS_Subset, FS_CardinalityType
  <1>2. T \in SUBSET Nat /\ T # {}
    <2> HIDE DEF below
    <2> QED BY <1>1
  <1>3. PICK n \in T : \A m \in T : n <= m
    <2> HIDE DEF T
    <2> QED BY <1>2, LeastNatural
  <1>4. PICK x \in S : n = Cardinality(below(x))
    <2> HIDE DEF below
    <2> QED OBVIOUS
  <1>5. ASSUME NEW y \in S, <<y, x>> \in R
        PROVE  FALSE
    <2>1. below(y) \in SUBSET below(x) /\ y \in below(x) /\ y \notin below(y)
      BY <1>5
    <2>2. Cardinality(below(y)) <= Cardinality(below(x))
          /\ Cardinality(below(x)) # Cardinality(below(y))
      BY <2>1, <1>1, FS_Subset
    <2> HIDE DEF below
    <2>3. n <= Cardinality(below(y))
      BY <1>3
    <2> QED BY <2>2, <2>3, <1>1, <1>4
  <1> QED BY <1>5

\* Induction over the positions from 0 to N: T is where the claim holds.
LEMMA PositionInduction ==
  ASSUME NEW N \in Nat, NEW T, 0 \in T, \A n \in 0 .. N - 1 : n \in T => n + 1 \in T
  PROVE  \A n \in 0 .. N : n \in T
  <1> SUFFICES ASSUME NEW k \in 0 .. N, k \notin T
               PROVE  FALSE
    OBVIOUS
  <1> DEFINE Missing == {n \in 0 .. N : n \notin T}
  <1>1. Missing \in SUBSET Nat /\ Missing # {}
    OBVIOUS
  <1>2. PICK n \in Missing : \A m \in Missing : n <= m
    <2> HIDE DEF Missing
    <2> QED BY <1>1, LeastNatural
  <1>3. n # 0 /\ n \in 0 .. N
    OBVIOUS
  <1>4. n - 1 \in 0 .. N - 1 /\ n - 1 \notin Missing
    BY <1>2, <1>3
  <1> QED BY <1>4

\* A function on 0 .. N that is given at 0, and at each later position by its
\* value at the one before, exists.
IsStep(Step, N, V) == Step \in [(1 .. N) \X V -> V]
IsChain(f, N, V, base, Step) ==
  /\ f \in [0 .. N -> V] /\ f[0] = base
  /\ \A i \in 1 .. N : f[i] = Step[<<i, f[i - 1]>>]
LEMMA ChainExists ==
  ASSUME NEW N \in Nat, NEW V, NEW base \in V, NEW Step, IsStep(Step, N, V)
  PROVE  \E f : IsChain(f, N, V, base, Step)
  <1> USE DEF IsStep
  <1> DEFINE Chain(n, f) == IsChain(f, n, V, base, Step)
             T == {n \in 0 .. N : \E f : Chain(n, f)}
  <1>1. 0 \in T
    <2>1. Chain(0, [i \in 0 .. 0 |-> base])
      BY DEF IsChain
    <2> HIDE DEF Chain
    <2> QED BY <2>1
  <1>2. ASSUME NEW n \in 0 .. N - 1, n \in T
        PROVE  n + 1 \in T
    <2>1. PICK f : Chain(n, f)
      BY <1>2
    <2> USE DEF IsChain
    <2> DEFINE g == [i \in 0 .. n + 1 |-> IF i = n + 1 THEN Step[<<n + 1, f[n]>>] ELSE f[i]]
    <2>2. f[n] \in V /\ n + 1 \in 1 .. N
      BY <2>1
    <2>3. Step[<<n + 1, f[n]>>] \in V
      BY <2>2
    <2>4. g \in [0 .. n + 1 -> V] /\ g[0] = base
      BY <2>1, <2>3
    <2>5. ASSUME NEW i \in 1 .. n + 1
          PROVE  g[i] = Step[<<i, g[i - 1]>>]
      <3>1. i - 1 \in 0 .. n + 1 /\ i - 1 # n + 1 /\ i \in 0 .. n + 1
        OBVIOUS
      <3>2. g[i - 1] = f[i - 1]
        BY <3>1
      <3>3. CASE i = n + 1
        BY <3>2, <3>3
      <3>4. CASE i # n + 1
        BY <2>1, <3>1, <3>2, <3>4
      <3> QED BY <3>3, <3>4
    <2>6. Chain(n + 1, g)
      BY <2>4, <2>5 DEF IsChain
    <2> HIDE DEF g, Chain
    <2> QED BY <2>6
  <1>3. N \in T
    <2> HIDE DEF T
    <2> QED BY <1>1, <1>2, PositionInduction
  <1> QED BY <1>3

\* The image of a finite set by a function.
LEMMA FiniteImage ==
  ASSUME NEW S, IsFiniteSet(S), NEW f
  PROVE  IsFiniteSet({f[x] : x \in S})
  <1> DEFINE T == {f[x] : x \in S}
             g == [x \in S |-> f[x]]
  <1>1. g \in Surjection(S, T)
    BY DEF Surjection
  <1> HIDE DEF g, T
  <1>2. IsFiniteSet(T)
    BY <1>1, FS_Surjection
  <1> QED BY <1>2 DEF T

\* Of a finite set in a strict total order R, the elements with less than n
\* before them: when any is left out, they are n, and all before it.
IsStrictOrder(R, S) ==
  /\ \A x \in S : <<x, x>> \notin R
  /\ \A x, y, z \in S : <<x, y>> \in R /\ <<y, z>> \in R => <<x, z>> \in R
  /\ \A x, y \in S : x = y \/ <<x, y>> \in R \/ <<y, x>> \in R
BelowIn(R, S, x) == {y \in S : <<y, x>> \in R}
LEMMA FirstElements ==
  ASSUME NEW S, IsFiniteSet(S), NEW R, IsStrictOrder(R, S), NEW n \in Nat, NEW kept,
         kept = {x \in S : Cardinality(BelowIn(R, S, x)) < n}, NEW out \in S \ kept
  PROVE  Cardinality(kept) = n /\ \A y \in kept : <<y, out>> \in R
  <1>1. \A x \in S : IsFiniteSet(BelowIn(R, S, x)) /\ Cardinality(BelowIn(R, S, x)) \in Nat
    BY FS_Subset, FS_CardinalityType DEF BelowIn
  <1>2. kept \subseteq S /\ \A x \in S : x \in kept <=> Cardinality(BelowIn(R, S, x)) < n
    OBVIOUS
  <1>3. IsFiniteSet(kept) /\ Cardinality(kept) \in Nat /\ IsFiniteSet(S \ kept)
    BY <1>2, FS_Subset, FS_CardinalityType
  <1>4. ASSUME NEW x \in S \ kept, NEW y \in kept
        PROVE  <<y, x>> \in R
    <2>1. x # y /\ x \in S /\ y \in S
      BY <1>2
    <2>2. ASSUME <<x, y>> \in R PROVE FALSE
      <3>1. BelowIn(R, S, x) \in SUBSET BelowIn(R, S, y)
        BY <2>1, <2>2 DEF IsStrictOrder, BelowIn
      <3>2. Cardinality(BelowIn(R, S, x)) <= Cardinality(BelowIn(R, S, y))
        BY <1>1, <2>1, <3>1, FS_Subset
      <3> QED BY <1>1, <1>2, <2>1, <3>2
    <2> QED BY <2>1, <2>2 DEF IsStrictOrder
  <1>5. Cardinality(kept) >= n
    <2> DEFINE left == S \ kept
    <2>1. /\ IsFiniteSet(left) /\ left # {}
          /\ \A x \in left : <<x, x>> \notin R
          /\ \A x, y, z \in left : <<x, y>> \in R /\ <<y, z>> \in R => <<x, z>> \in R
      BY <1>3 DEF IsStrictOrder
    <2>2. PICK z \in left : \A y \in left : <<y, z>> \notin R
      <3> HIDE DEF left
      <3> QED BY <2>1, FiniteHasFirst
    <2>3. BelowIn(R, S, z) = kept
      BY <1>2, <1>4, <2>2 DEF BelowIn
    <2> QED BY <1>1, <1>2, <2>2, <2>3
  <1>6. Cardinality(kept) <= n
    <2>1. CASE kept = {}
      BY <2>1, FS_EmptySet
    <2>2. CASE kept # {}
      <3> DEFINE Q == {p \in S \X S : <<p[2], p[1]>> \in R}
      <3>1. /\ \A x \in kept : <<x, x>> \notin Q
            /\ \A x, y, z \in kept : <<x, y>> \in Q /\ <<y, z>> \in Q => <<x, z>> \in Q
        BY <1>2 DEF IsStrictOrder
      <3>2. PICK w \in kept : \A y \in kept : <<y, w>> \notin Q
        <4> HIDE DEF Q
        <4> QED BY <1>3, <2>2, <3>1, FiniteHasFirst
      <3>3. \A y \in kept : y = w \/ <<y, w>> \in R
        BY <1>2, <3>2 DEF IsStrictOrder
      <3>4. kept \in SUBSET (BelowIn(R, S, w) \cup {w})
        BY <1>2, <3>3 DEF BelowIn
      <3>5. w \in S /\ Cardinality(BelowIn(R, S, w)) < n
        BY <1>2, <3>2
      <3>6. /\ IsFiniteSet(BelowIn(R, S, w) \cup {w})
            /\ Cardinality(BelowIn(R, S, w) \cup {w}) <= Cardinality(BelowIn(R, S, w)) + 1
        <4>1. IsFiniteSet(BelowIn(R, S, w)) /\ Cardinality(BelowIn(R, S, w)) \in Nat
          BY <1>1, <3>5
        <4>2. w \notin BelowIn(R, S, w)
          BY <3>5 DEF IsStrictOrder, BelowIn
        <4> DEFINE B == BelowIn(R, S, w)
        <4>3. IsFiniteSet(B) /\ w \notin B /\ Cardinality(B) \in Nat
          BY <4>1, <4>2
        <4>4. IsFiniteSet(B \cup {w}) /\ Cardinality(B \cup {w}) = Cardinality(B) + 1
          <5> HIDE DEF B
          <5> QED BY <4>3, FS_AddElement
        <4> QED BY <4>3, <4>4
      <3>7. Cardinality(kept) <= Cardinality(BelowIn(R, S, w) \cup {w})
        BY <3>4, <3>6, FS_Subset
      <3>8. Cardinality(BelowIn(R, S, w) \cup {w}) \in Nat
        BY <3>6, FS_CardinalityType
      <3> QED BY <1>1, <1>3, <3>5, <3>6, <3>7, <3>8
    <2> QED BY <2>1, <2>2
  <1> QED BY <1>3, <1>4, <1>5, <1>6
=============================================================================
