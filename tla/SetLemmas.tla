------------------------------ MODULE SetLemmas ------------------------------
(***************************************************************************)
(* What the proofs need of finite sets: induction and recursion over their *)
(* subsets, and sums over them.                                            *)
(***************************************************************************)
EXTENDS Sums, FiniteSetTheorems, TLAPS

-----------------------------------------------------------------------------
(* Induction and recursion over the subsets of a finite set, as the folds   *)
(* of module Folds walk them, stated of sets and functions: the property to *)
(* be shown is the set of the subsets that have it, the step of a fold is a *)
(* function on the set of its accumulators.                                 *)

\* What holds of {}, and of a set whenever it holds of the set without one of its
\* elements, holds of every subset.
LEMMA SubsetInduction ==
    ASSUME NEW S, IsFiniteSet(S), NEW T, {} \in T,
           \A s \in SUBSET S : s # {} => \E x \in s : (s \ {x} \in T => s \in T)
    PROVE  \A s \in SUBSET S : s \in T
<1> DEFINE B == {s \in SUBSET S : s \notin T}
<1> SUFFICES ASSUME B # {} PROVE FALSE
  OBVIOUS
<1>1. \A s \in SUBSET S : s \in FiniteSubsetsOf(S)
  BY FS_Subset DEF FiniteSubsetsOf
<1>2. \E x \in B : \A y \in B : ~ (<<y, x>> \in StrictSubsetOrdering(S))
  <2>1. IsWellFoundedOn(StrictSubsetOrdering(S), FiniteSubsetsOf(S))
    BY FS_StrictSubsetOrderingWellFounded
  <2>2. B \subseteq FiniteSubsetsOf(S) BY <1>1
  <2> HIDE DEF B
  <2> QED BY <2>1, <2>2, WFMin
<1>3. PICK s \in B : \A y \in B : ~ (<<y, s>> \in StrictSubsetOrdering(S)) BY <1>2
<1>4. s # {} OBVIOUS
<1>5. PICK x \in s : s \ {x} \in T => s \in T BY <1>4
<1>6. s \ {x} \in B BY <1>5
<1>7. <<s \ {x}, s>> \in StrictSubsetOrdering(S) BY <1>6 DEF StrictSubsetOrdering
<1> QED BY <1>3, <1>6, <1>7

\* Removing an element of a finite set takes one off its cardinality.
LEMMA CardRemove ==
    ASSUME NEW S, IsFiniteSet(S), NEW x \in S
    PROVE  /\ IsFiniteSet(S \ {x}) /\ Cardinality(S) \in Nat /\ Cardinality(S \ {x}) \in Nat
           /\ Cardinality(S) = Cardinality(S \ {x}) + 1
<1>1. IsFiniteSet(S \ {x}) BY FS_RemoveElement
<1>2. Cardinality(S) \in Nat /\ Cardinality(S \ {x}) \in Nat BY <1>1, FS_CardinalityType
<1>3. Cardinality(S \ {x}) = IF x \in S THEN Cardinality(S) - 1 ELSE Cardinality(S)
  BY FS_RemoveElement, Zenon
<1>4. Cardinality(S \ {x}) = Cardinality(S) - 1 BY <1>3, Zenon
<1> QED BY <1>1, <1>2, <1>4

\* Adding a new element adds one.
LEMMA CardAdd ==
    ASSUME NEW S, IsFiniteSet(S), NEW x, x \notin S
    PROVE  /\ IsFiniteSet(S \cup {x}) /\ Cardinality(S) \in Nat
           /\ Cardinality(S \cup {x}) = Cardinality(S) + 1
<1>1. IsFiniteSet(S \cup {x}) BY FS_AddElement
<1>2. Cardinality(S) \in Nat BY FS_CardinalityType
<1>3. Cardinality(S \cup {x}) = IF x \in S THEN Cardinality(S) ELSE Cardinality(S) + 1
  BY FS_AddElement, Zenon
<1>4. Cardinality(S \cup {x}) = Cardinality(S) + 1 BY <1>3, Zenon
<1> QED BY <1>1, <1>2, <1>4

\* g is the fold of f from base at subset s, taking pick[s] last.
Follows(g, base, pick, f, s) ==
    IF s = {} THEN g[s] = base ELSE g[s] = f[<<g[s \ {pick[s]}], pick[s]>>]

\* A fold with a step from A to A exists, and its values are in A.
LEMMA FoldExists ==
    ASSUME NEW S, IsFiniteSet(S), NEW A, NEW base \in A, NEW pick, NEW f \in [A \X S -> A],
           \A s \in SUBSET S : s # {} => pick[s] \in s
    PROVE  \E g \in [SUBSET S -> A] : \A s \in SUBSET S : Follows(g, base, pick, f, s)
<1> DEFINE T == {u \in SUBSET S : \E g \in [SUBSET S -> A] :
                    \A s \in SUBSET S : Cardinality(s) <= Cardinality(u) =>
                        Follows(g, base, pick, f, s)}
<1>0. \A s \in SUBSET S : IsFiniteSet(s) /\ Cardinality(s) \in Nat
  BY FS_Subset, FS_CardinalityType
<1>1. {} \in T
  <2>1. PICK g : g = [s \in SUBSET S |-> base] OBVIOUS
  <2>2. ASSUME NEW s \in SUBSET S, Cardinality(s) <= Cardinality({})
        PROVE  Follows(g, base, pick, f, s)
    <3>1. s = {} BY <1>0, <2>2, FS_EmptySet
    <3> QED BY <2>1, <3>1 DEF Follows
  <2> QED BY <2>1, <2>2
<1>2. ASSUME NEW u \in SUBSET S, u # {} PROVE \E x \in u : (u \ {x} \in T => u \in T)
  <2>1. PICK x \in u : TRUE BY <1>2
  <2> SUFFICES ASSUME u \ {x} \in T PROVE u \in T OBVIOUS
  <2>2. PICK g \in [SUBSET S -> A] :
           \A s \in SUBSET S : Cardinality(s) <= Cardinality(u \ {x}) =>
               Follows(g, base, pick, f, s)
    OBVIOUS
  <2>3. Cardinality(u) = Cardinality(u \ {x}) + 1 /\ Cardinality(u \ {x}) \in Nat
    BY <1>0, <2>1, CardRemove
  <2>4. PICK n \in Nat : n = Cardinality(u \ {x}) BY <2>3
  <2>5. PICK h : h = [s \in SUBSET S |->
           IF Cardinality(s) <= n THEN g[s] ELSE f[<<g[s \ {pick[s]}], pick[s]>>]]
    OBVIOUS
  <2>6. ASSUME NEW s \in SUBSET S, s # {}
        PROVE  /\ pick[s] \in S /\ s \ {pick[s]} \in SUBSET S
               /\ Cardinality(s) = Cardinality(s \ {pick[s]}) + 1
               /\ f[<<g[s \ {pick[s]}], pick[s]>>] \in A
    <3>1. pick[s] \in s /\ IsFiniteSet(s) BY <1>0, <2>6
    <3>2. PICK o : o = pick[s] OBVIOUS
    <3>3. Cardinality(s) = Cardinality(s \ {o}) + 1 BY <3>1, <3>2, CardRemove
    <3>4. s \ {o} \in SUBSET S /\ o \in S BY <3>1, <3>2
    <3>5. f[<<g[s \ {o}], o>>] \in A BY <3>4
    <3> QED BY <3>2, <3>3, <3>4, <3>5
  <2>7. \A s \in SUBSET S : Cardinality(s) > n => s # {}
    <3>1. Cardinality({}) = 0 BY FS_EmptySet
    <3>2. ~(0 > n) OBVIOUS
    <3> QED BY <3>1, <3>2, Zenon
  <2>8. h \in [SUBSET S -> A]
    <3> SUFFICES ASSUME NEW s \in SUBSET S
                 PROVE  (IF Cardinality(s) <= n THEN g[s]
                         ELSE f[<<g[s \ {pick[s]}], pick[s]>>]) \in A
      BY <2>5
    <3>1. CASE Cardinality(s) <= n BY <3>1
    <3>2. CASE ~(Cardinality(s) <= n)
      <4>1. s # {} BY <1>0, <2>7, <3>2
      <4> QED BY <2>6, <3>2, <4>1
    <3> QED BY <3>1, <3>2
  <2>9. ASSUME NEW s \in SUBSET S, Cardinality(s) <= Cardinality(u)
        PROVE  Follows(h, base, pick, f, s)
    <3>1. CASE s = {}
      <4>1. Cardinality(s) <= n BY <3>1, <2>4, FS_EmptySet
      <4>2. h[s] = g[s] BY <2>5, <4>1
      <4> QED BY <2>2, <2>4, <3>1, <4>1, <4>2 DEF Follows
    <3>2. CASE s # {}
      <4>1. Cardinality(s \ {pick[s]}) <= n
        <5>1. Cardinality(s) = Cardinality(s \ {pick[s]}) + 1 BY <2>6, <3>2
        <5>2. Cardinality(s \ {pick[s]}) \in Nat /\ Cardinality(s) <= n + 1
          BY <1>0, <2>3, <2>4, <2>6, <2>9, <3>2
        <5> QED BY <5>1, <5>2
      <4>2. h[s \ {pick[s]}] = g[s \ {pick[s]}] BY <2>5, <2>6, <3>2, <4>1
      <4>3. h[s] = f[<<g[s \ {pick[s]}], pick[s]>>]
        BY <2>2, <2>4, <2>5, <3>2 DEF Follows
      <4> QED BY <3>2, <4>2, <4>3 DEF Follows
    <3> QED BY <3>1, <3>2
  <2> QED BY <2>8, <2>9
<1> HIDE DEF T
<1>3. S \in T
  <2>1. \A s \in SUBSET S : s \in T BY <1>1, <1>2, SubsetInduction, Zenon
  <2> QED BY <2>1
<1>4. PICK g \in [SUBSET S -> A] :
         \A s \in SUBSET S : Cardinality(s) <= Cardinality(S) => Follows(g, base, pick, f, s)
  BY <1>3 DEF T
<1>5. \A s \in SUBSET S : Cardinality(s) <= Cardinality(S) BY FS_Subset
<1> QED BY <1>4, <1>5

\* A finite set of numbers that is not empty has a largest one.
LEMMA LargestIn ==
    ASSUME NEW S, IsFiniteSet(S), S \subseteq Nat, S # {}
    PROVE  \E x \in S : \A y \in S : y <= x
<1> DEFINE T == {s \in SUBSET S : s = {} \/ \E x \in s : \A y \in s : y <= x}
<1>1. {} \in T OBVIOUS
<1>2. ASSUME NEW s \in SUBSET S, s # {} PROVE \E x \in s : (s \ {x} \in T => s \in T)
  <2>1. PICK x \in s : TRUE BY <1>2
  <2>2. ASSUME s \ {x} \in T PROVE s \in T
    <3>1. CASE s \ {x} = {} BY <2>1, <3>1
    <3>2. CASE s \ {x} # {}
      <4>1. PICK z \in s \ {x} : \A y \in s \ {x} : y <= z BY <2>2, <3>2
      <4>2. \A y \in s : y \in Nat OBVIOUS
      <4>3. CASE z <= x
        <5>1. \A y \in s : y <= x BY <2>1, <4>1, <4>2, <4>3
        <5> QED BY <2>1, <5>1
      <4>4. CASE ~(z <= x)
        <5>1. \A y \in s : y <= z BY <2>1, <4>1, <4>2, <4>4
        <5> QED BY <4>1, <5>1
      <4> QED BY <4>3, <4>4
    <3> QED BY <3>1, <3>2
  <2> QED BY <2>1, <2>2
<1>3. S \in T
  <2> HIDE DEF T
  <2>1. \A s \in SUBSET S : s \in T BY <1>1, <1>2, SubsetInduction, Zenon
  <2> QED BY <2>1
<1> QED BY <1>3

-----------------------------------------------------------------------------
(* Sums are natural numbers, split at any element of their set, depend on  *)
(* the values only, and change by what one value changes.                  *)

\* The pairs that count one value are finite, and as many as the value.
LEMMA ColumnCount ==
    ASSUME NEW x, NEW n \in Nat
    PROVE  /\ IsFiniteSet({x} \X (1..n))
           /\ Cardinality({x} \X (1..n)) = n
<1>1. IsFiniteSet(1..n) /\ Cardinality(1..n) = n
  BY FS_Interval, SMT
<1>2. IsFiniteSet({x}) /\ Cardinality({x}) = 1
  BY FS_Singleton
<1>3. /\ IsFiniteSet({x} \X (1..n))
      /\ Cardinality({x} \X (1..n)) = Cardinality({x}) * Cardinality(1..n)
  BY <1>1, <1>2, FS_Product
<1>4. 1 * n = n
  BY SMT
<1> QED BY <1>1, <1>2, <1>3, <1>4

\* The units of a function with natural values on a finite set are finite.
LEMMA UnitsFinite ==
    ASSUME NEW S, IsFiniteSet(S), NEW f, \A x \in S : f[x] \in Nat
    PROVE  IsFiniteSet(Units(S, f))
<1> DEFINE C == { {x} \X (1..f[x]) : x \in S }
           h == [x \in S |-> {x} \X (1..f[x])]
<1>1. h \in Surjection(S, C)
  BY DEF Surjection
<1>2. IsFiniteSet(C)
  <2> HIDE DEF C, h
  <2> QED BY <1>1, FS_Surjection
<1>3. \A T \in C : IsFiniteSet(T)
  <2> SUFFICES ASSUME NEW x \in S PROVE IsFiniteSet({x} \X (1..f[x]))
    OBVIOUS
  <2>1. f[x] \in Nat
    OBVIOUS
  <2> QED BY <2>1, ColumnCount
<1> HIDE DEF C
<1>4. IsFiniteSet(UNION C)
  BY <1>2, <1>3, FS_UNION
<1> QED BY <1>4 DEF Units, C

\* A sum of naturals is a natural.
LEMMA SumTyped ==
    ASSUME NEW S, IsFiniteSet(S), NEW f, \A x \in S : f[x] \in Nat
    PROVE  Sum(S, f) \in Nat
  BY UnitsFinite, FS_CardinalityType DEF Sum

\* A sum only depends on the values.
LEMMA SumSame ==
    ASSUME NEW S, NEW f, NEW g, \A x \in S : f[x] = g[x]
    PROVE  Sum(S, f) = Sum(S, g)
<1>1. { {x} \X (1..f[x]) : x \in S } = { {x} \X (1..g[x]) : x \in S }
  OBVIOUS
<1> QED BY <1>1, Zenon DEF Sum, Units

\* Zeros sum to zero.
LEMMA SumZero ==
    ASSUME NEW S, NEW f, \A x \in S : f[x] = 0
    PROVE  Sum(S, f) = 0
<1>1. 1..0 = {}
  BY SMT
<1>2. \A x \in S : {x} \X (1..f[x]) = {}
  BY <1>1
<1>3. Units(S, f) = {}
  BY <1>2, Zenon DEF Units
<1> QED BY <1>3, FS_EmptySet DEF Sum

\* Any element can be split off.
LEMMA SumSplit ==
    ASSUME NEW S, IsFiniteSet(S), NEW f, \A x \in S : f[x] \in Nat, NEW c \in S
    PROVE  /\ Sum(S \ {c}, f) \in Nat
           /\ Sum(S, f) = Sum(S \ {c}, f) + f[c]
<1> DEFINE A == Units(S \ {c}, f)
           B == {c} \X (1..f[c])
<1>1. IsFiniteSet(S \ {c})
  BY FS_RemoveElement
<1>2. IsFiniteSet(A) /\ Cardinality(A) \in Nat
  BY <1>1, UnitsFinite, FS_CardinalityType
<1>3. IsFiniteSet(B) /\ Cardinality(B) = f[c]
  BY ColumnCount
<1>4. Units(S, f) = A \cup B
  BY Zenon DEF Units
<1>5. A \cap B = {}
  <2> SUFFICES ASSUME NEW u, u \in A, u \in B PROVE FALSE
    OBVIOUS
  <2>1. PICK x \in S \ {c} : u \in {x} \X (1..f[x])
    BY Zenon DEF Units
  <2> QED BY <2>1, SMT
<1> HIDE DEF A, B
<1>6. Cardinality(A \cup B) = Cardinality(A) + Cardinality(B) - Cardinality(A \cap B)
  BY <1>2, <1>3, FS_Union
<1>7. Cardinality(A \cap B) = 0
  BY <1>5, FS_EmptySet
<1> QED BY <1>2, <1>3, <1>4, <1>6, <1>7, SMT DEF Sum, A

\* No value exceeds the sum.
LEMMA SumBound ==
    ASSUME NEW S, IsFiniteSet(S), NEW f, \A x \in S : f[x] \in Nat, NEW c \in S
    PROVE  f[c] <= Sum(S, f)
<1>1. Sum(S \ {c}, f) \in Nat /\ Sum(S, f) = Sum(S \ {c}, f) + f[c]
  BY SumSplit
<1>2. f[c] \in Nat
  OBVIOUS
<1> QED BY <1>1, <1>2, SMT

\* When one value changes, the sum changes by as much.
LEMMA SumChange ==
    ASSUME NEW S, IsFiniteSet(S), NEW f, NEW g, NEW c \in S,
           \A x \in S : f[x] \in Nat /\ g[x] \in Nat,
           \A x \in S : x # c => f[x] = g[x]
    PROVE  Sum(S, g) = (Sum(S, f) - f[c]) + g[c]
<1>1. Sum(S \ {c}, f) = Sum(S \ {c}, g)
  BY SumSame
<1>2. Sum(S \ {c}, f) \in Nat /\ Sum(S, f) = Sum(S \ {c}, f) + f[c]
  BY SumSplit
<1>3. Sum(S, g) = Sum(S \ {c}, g) + g[c]
  BY SumSplit
<1>4. f[c] \in Nat /\ g[c] \in Nat
  OBVIOUS
<1> QED BY <1>1, <1>2, <1>3, <1>4, SMT

\* A new element adds its value.
LEMMA SumAdd ==
    ASSUME NEW S, IsFiniteSet(S), NEW f, NEW c, c \notin S, \A x \in S \cup {c} : f[x] \in Nat
    PROVE  /\ Sum(S, f) \in Nat
           /\ Sum(S \cup {c}, f) = Sum(S, f) + f[c]
<1>1. IsFiniteSet(S \cup {c}) BY FS_AddElement
<1>2. (S \cup {c}) \ {c} = S OBVIOUS
<1> QED BY <1>1, <1>2, SumSplit

=============================================================================
