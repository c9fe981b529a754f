----------------------------- MODULE SumProofs ------------------------------
(***************************************************************************)
(* What the other proofs need of sums over finite sets, which the queries  *)
(* of the code compute (select sum(...)), as the library of FiniteSetsExt  *)
(* and Functions defines them: by recursion over an arbitrary choice of    *)
(* elements.                                                               *)
(***************************************************************************)
EXTENDS Integers, FiniteSetsExt, FiniteSetTheorems, TLAPS

(* A set of numbers has a least one: what induction comes down to here,    *)
(* where a theorem cannot be applied to a predicate.                       *)
LEMMA LeastNatural ==
  ASSUME NEW S \in SUBSET Nat, S # {}
  PROVE  \E m \in S : \A n \in S : m <= n
<1> DEFINE R == OpToRel(<, Nat)
<1>1. IsWellFoundedOn(R, Nat)
  BY NatLessThanWellFounded
<1>2. \A x, y \in Nat : x < y => <<x, y>> \in R
  BY DEF OpToRel
<1> HIDE DEF R
<1>3. PICK m \in S : \A n \in S : ~ (<<n, m>> \in R)
  BY <1>1, WFMin
<1>4. \A n \in S : ~ (n < m)
  BY <1>2, <1>3
<1>5. QED
  BY <1>4

(* The same, as it is used: a property that every set of the subsets of a  *)
(* finite set inherits from the smaller ones holds for all of them.        *)
LEMMA InheritedByAll ==
  ASSUME NEW S, IsFiniteSet(S), NEW Good,
         \A s \in SUBSET S :
           (\A x \in s : s \ {x} \in Good) => s \in Good
  PROVE  \A s \in SUBSET S : s \in Good
<1> DEFINE Bad(s, n) == s \notin Good /\ Cardinality(s) = n
           Sizes == {n \in Nat : \E s \in SUBSET S : Bad(s, n)}
<1>1. ASSUME NEW s \in SUBSET S PROVE IsFiniteSet(s) /\ Cardinality(s) \in Nat
  BY FS_Subset, FS_CardinalityType
<1>2. SUFFICES ASSUME NEW s \in SUBSET S, s \notin Good PROVE FALSE
  OBVIOUS
<1>3. Sizes \in SUBSET Nat /\ Sizes # {}
  BY <1>1, <1>2
<1>4. PICK n \in Sizes : \A m \in Sizes : n <= m
  BY <1>3, LeastNatural
<1>5. PICK u \in SUBSET S : Bad(u, n)
  BY <1>4
<1>6. ASSUME NEW x \in u PROVE u \ {x} \in Good
  <2>1. u \ {x} \in SUBSET S
    OBVIOUS
  <2>2. Cardinality(u \ {x}) \in Nat /\ Cardinality(u \ {x}) = n - 1
    BY <1>1, <1>5, <2>1, FS_RemoveElement
  <2>3. n - 1 \notin Sizes
    BY <1>3, <1>4, <2>2
  <2>4. ~ Bad(u \ {x}, n - 1)
    BY <2>1, <2>2, <2>3
  <2>5. QED
    BY <2>2, <2>4
<1>7. QED
  BY <1>5, <1>6

-----------------------------------------------------------------------------
(* The equation by which the library defines the sums of f.                *)
Some(s) == CHOOSE x \in s : TRUE

AddsUp(it, f, S) ==
  it = [s \in SUBSET S |-> IF s = {} THEN 0 ELSE f[Some(s)] + it[s \ {Some(s)}]]

LEMMA SomeIsOne == ASSUME NEW s, s # {} PROVE Some(s) \in s
  BY DEF Some

(* It has a solution for a finite set, built up by size.                   *)
LEMMA SolutionExists ==
  ASSUME NEW f, NEW S, IsFiniteSet(S)
  PROVE  \E it : AddsUp(it, f, S)
<1> DEFINE Rest(s) == s \ {Some(s)}
           UpTo(it, n) == \A s \in SUBSET S : Cardinality(s) <= n =>
                            it[s] = IF s = {} THEN 0 ELSE f[Some(s)] + it[Rest(s)]
           Missing == {n \in Nat : ~ \E it : UpTo(it, n)}
<1>1. \A s \in SUBSET S : IsFiniteSet(s) /\ Cardinality(s) \in Nat
  BY FS_Subset, FS_CardinalityType
<1>2. \A s \in SUBSET S : s # {} =>
        Rest(s) \in SUBSET S /\ Cardinality(Rest(s)) = Cardinality(s) - 1
  BY <1>1, SomeIsOne, FS_RemoveElement
<1> HIDE DEF UpTo
<1>3. Missing = {}
  <2>1. SUFFICES ASSUME Missing # {} PROVE FALSE
    OBVIOUS
  <2>2. PICK n \in Missing : \A m \in Missing : n <= m
    BY <2>1, LeastNatural
  <2>3. n # 0
    <3>1. \A s \in SUBSET S : Cardinality(s) <= 0 => s = {}
      BY <1>1, FS_EmptySet
    <3>2. UpTo([s \in SUBSET S |-> 0], 0)
      BY <3>1 DEF UpTo
    <3>3. QED
      BY <3>2
  <2>4. n - 1 \in Nat /\ n - 1 \notin Missing
    <3>1. n \in Nat
      OBVIOUS
    <3>2. QED
      BY <2>2, <2>3, <3>1
  <2>5. PICK it : UpTo(it, n - 1)
    BY <2>4
  <2> DEFINE jt == [s \in SUBSET S |->
                      IF Cardinality(s) = n THEN f[Some(s)] + it[Rest(s)] ELSE it[s]]
  <2>6. ASSUME NEW s \in SUBSET S, Cardinality(s) <= n
        PROVE  jt[s] = IF s = {} THEN 0 ELSE f[Some(s)] + jt[Rest(s)]
    <3>1. CASE s = {}
      <4>1. Cardinality(s) = 0
        BY <3>1, FS_EmptySet
      <4>2. Cardinality(s) <= n - 1
        BY <2>4, <4>1
      <4>3. it[s] = IF s = {} THEN 0 ELSE f[Some(s)] + it[Rest(s)]
        BY <2>5, <4>2 DEF UpTo
      <4>4. QED
        BY <2>3, <3>1, <4>1, <4>3
    <3>2. CASE s # {}
      <4>1. /\ Rest(s) \in SUBSET S /\ Cardinality(s) \in Nat
            /\ Cardinality(Rest(s)) = Cardinality(s) - 1
        BY <1>1, <1>2, <3>2
      <4>2. Cardinality(Rest(s)) # n
        BY <2>6, <4>1
      <4>3. jt[Rest(s)] = it[Rest(s)]
        BY <4>1, <4>2
      <4>4. CASE Cardinality(s) = n
        BY <3>2, <4>3, <4>4
      <4>5. CASE Cardinality(s) # n
        <5>1. Cardinality(s) <= n - 1
          BY <2>4, <2>6, <4>1, <4>5
        <5>2. it[s] = f[Some(s)] + it[Rest(s)]
          BY <2>5, <3>2, <5>1 DEF UpTo
        <5>3. QED
          BY <3>2, <4>3, <4>5, <5>2
      <4>6. QED
        BY <4>4, <4>5
    <3>3. QED
      BY <3>1, <3>2
  <2>7. UpTo(jt, n)
    BY <2>6 DEF UpTo
  <2>8. QED
    BY <2>2, <2>7
<1>4. PICK it : UpTo(it, Cardinality(S))
  BY <1>1, <1>3
<1>5. \A s \in SUBSET S : Cardinality(s) <= Cardinality(S)
  BY FS_Subset
<1>6. \A s \in SUBSET S : it[s] = IF s = {} THEN 0 ELSE f[Some(s)] + it[Rest(s)]
  BY <1>4, <1>5 DEF UpTo
<1>7. AddsUp([s \in SUBSET S |-> it[s]], f, S)
  BY <1>2, <1>6 DEF AddsUp
<1>8. QED
  BY <1>7

(* Whatever solves it takes numbers to numbers and counts every element    *)
(* of the set, whichever one the recursion takes first.                    *)
LEMMA SolutionCounts ==
  ASSUME NEW f, NEW S, IsFiniteSet(S), \A x \in S : f[x] \in Int,
         NEW it, AddsUp(it, f, S)
  PROVE  \A s \in SUBSET S :
           it[s] \in Int /\ \A x \in s : it[s] = f[x] + it[s \ {x}]
<1>1. /\ it[{}] = 0
      /\ \A s \in SUBSET S : s # {} => it[s] = f[Some(s)] + it[s \ {Some(s)}]
  BY DEF AddsUp
<1>2. \A s \in SUBSET S : it[s] \in Int
  <2> DEFINE Good == {s \in SUBSET S : it[s] \in Int}
  <2>1. ASSUME NEW s \in SUBSET S, \A x \in s : s \ {x} \in Good
        PROVE  s \in Good
    <3>1. CASE s = {}
      BY <1>1, <3>1
    <3>2. CASE s # {}
      <4>1. Some(s) \in s /\ it[s] = f[Some(s)] + it[s \ {Some(s)}]
        BY <1>1, <3>2, SomeIsOne
      <4>2. it[s \ {Some(s)}] \in Int /\ f[Some(s)] \in Int
        BY <2>1, <4>1
      <4>3. QED
        BY <4>1, <4>2
    <3>3. QED
      BY <3>1, <3>2
  <2> HIDE DEF Good
  <2>2. \A s \in SUBSET S : s \in Good
    BY <2>1, InheritedByAll
  <2>3. QED
    BY <2>2 DEF Good
<1>3. \A s \in SUBSET S : \A x \in s : it[s] = f[x] + it[s \ {x}]
  <2> DEFINE Good == {s \in SUBSET S : \A x \in s : it[s] = f[x] + it[s \ {x}]}
  <2>1. ASSUME NEW s \in SUBSET S, \A x \in s : s \ {x} \in Good
        PROVE  s \in Good
    <3>1. ASSUME NEW x \in s PROVE it[s] = f[x] + it[s \ {x}]
      <4> DEFINE y == Some(s)
      <4>1. y \in s /\ it[s] = f[y] + it[s \ {y}]
        BY <1>1, SomeIsOne
      <4> HIDE DEF y
      <4>2. CASE x = y
        BY <4>1, <4>2
      <4>3. CASE x # y
        <5>1. PICK r \in SUBSET S : r = (s \ {x}) \ {y} /\ r = (s \ {y}) \ {x}
          OBVIOUS
        <5>2. it[s \ {x}] = f[y] + it[r]
          BY <2>1, <4>1, <4>3, <5>1
        <5>3. it[s \ {y}] = f[x] + it[r]
          BY <2>1, <4>1, <4>3, <5>1
        <5>4. f[x] \in Int /\ f[y] \in Int /\ it[r] \in Int
          BY <1>2, <4>1
        <5>5. QED
          BY <4>1, <5>2, <5>3, <5>4
      <4>4. QED
        BY <4>2, <4>3
    <3>2. QED
      BY <3>1
  <2> HIDE DEF Good
  <2>2. \A s \in SUBSET S : s \in Good
    BY <2>1, InheritedByAll
  <2>3. QED
    BY <2>2 DEF Good
<1>4. QED
  BY <1>2, <1>3

(* What a part of the set adds up to does not exceed the whole of it, for  *)
(* functions one of which is below the other.                              *)
LEMMA SolutionsCompare ==
  ASSUME NEW f, NEW S, IsFiniteSet(S), NEW it, AddsUp(it, f, S),
         NEW g, NEW T, IsFiniteSet(T), NEW jt, AddsUp(jt, g, T),
         S \subseteq T, \A x \in S : f[x] \in Int /\ f[x] <= g[x],
         \A x \in T : g[x] \in Nat
  PROVE  it[S] <= jt[T]
<1> DEFINE Good == {s \in SUBSET T : it[s \cap S] <= jt[s]}
<1>1. /\ \A s \in SUBSET S : it[s] \in Int /\ \A x \in s : it[s] = f[x] + it[s \ {x}]
      /\ \A s \in SUBSET T : jt[s] \in Int /\ \A x \in s : jt[s] = g[x] + jt[s \ {x}]
  <2>1. \A s \in SUBSET S : it[s] \in Int /\ \A x \in s : it[s] = f[x] + it[s \ {x}]
    BY SolutionCounts
  <2>2. \A x \in T : g[x] \in Int
    OBVIOUS
  <2>3. \A s \in SUBSET T : jt[s] \in Int /\ \A x \in s : jt[s] = g[x] + jt[s \ {x}]
    <3>1. IsFiniteSet(T) /\ AddsUp(jt, g, T)
      OBVIOUS
    <3> HIDE DEF Good
    <3>2. QED
      BY ONLY <2>2, <3>1, SolutionCounts, Z3
  <2>4. QED
    BY <2>1, <2>3
<1>2. it[{}] = 0 /\ jt[{}] = 0
  BY DEF AddsUp
<1>3. ASSUME NEW s \in SUBSET T, \A x \in s : s \ {x} \in Good
      PROVE  s \in Good
  <2>1. CASE s = {}
    BY <1>2, <2>1
  <2>2. ASSUME NEW x \in s PROVE s \in Good
    <3>1. PICK r \in SUBSET T : r = s \ {x}
      OBVIOUS
    <3>2. PICK q \in SUBSET S : q = r \cap S
      OBVIOUS
    <3>3. it[q] <= jt[r] /\ it[q] \in Int /\ jt[r] \in Int
      BY <1>1, <1>3, <3>1, <3>2
    <3>4. jt[s] = g[x] + jt[r] /\ g[x] \in Nat
      BY <1>1, <3>1
    <3>5. CASE x \in S
      <4>1. x \in s \cap S /\ q = (s \cap S) \ {x}
        BY <3>1, <3>2, <3>5
      <4>2. it[s \cap S] = f[x] + it[q] /\ f[x] \in Int /\ f[x] <= g[x]
        BY <1>1, <3>5, <4>1
      <4>3. it[s \cap S] <= jt[s]
        BY <3>3, <3>4, <4>2
      <4>4. QED
        BY <4>3
    <3>6. CASE x \notin S
      <4>1. s \cap S = q
        BY <3>1, <3>2, <3>6
      <4>2. it[q] <= jt[s]
        BY <3>3, <3>4
      <4>3. QED
        BY <4>1, <4>2
    <3>7. QED
      BY <3>5, <3>6
  <2>3. QED
    BY <2>1, <2>2
<1> HIDE DEF Good
<1>4. \A s \in SUBSET T : s \in Good
  BY <1>3, InheritedByAll
<1>5. it[T \cap S] <= jt[T]
  BY <1>4 DEF Good
<1>6. T \cap S = S
  OBVIOUS
<1>7. QED
  BY <1>5, <1>6

-----------------------------------------------------------------------------
(* The sums of the library.                                                *)
LEMMA SumSolves ==
  ASSUME NEW f, NEW S, IsFiniteSet(S)
  PROVE  \E it : AddsUp(it, f, S) /\ SumFunctionOnSet(f, S) = it[S]
<1>1. PICK jt : AddsUp(jt, f, S)
  BY SolutionExists
<1>2. QED
  BY <1>1, Zenon
     DEF AddsUp, Some, SumFunctionOnSet, FoldFunctionOnSet, MapThenFoldSet

(* What solves the equation is the sum, whatever f takes its values in:    *)
(* two solutions agree, first of all on the smaller sets.                  *)
LEMMA SolutionIsSum ==
  ASSUME NEW f, NEW S, IsFiniteSet(S), NEW it, AddsUp(it, f, S)
  PROVE  it[S] = SumFunctionOnSet(f, S)
<1>1. PICK jt : AddsUp(jt, f, S) /\ SumFunctionOnSet(f, S) = jt[S]
  BY SumSolves
<1> DEFINE Good == {s \in SUBSET S : it[s] = jt[s]}
<1>2. ASSUME NEW s \in SUBSET S, \A x \in s : s \ {x} \in Good
      PROVE  s \in Good
  <2>1. CASE s = {}
    BY <1>1, <2>1 DEF AddsUp
  <2>2. CASE s # {}
    <3>1. Some(s) \in s
      BY <2>2, SomeIsOne
    <3>2. it[s \ {Some(s)}] = jt[s \ {Some(s)}]
      BY <1>2, <3>1
    <3>3. /\ it[s] = f[Some(s)] + it[s \ {Some(s)}]
          /\ jt[s] = f[Some(s)] + jt[s \ {Some(s)}]
      BY <1>1, <2>2 DEF AddsUp
    <3>4. QED
      BY <3>2, <3>3
  <2>3. QED
    BY <2>1, <2>2
<1> HIDE DEF Good
<1>3. \A s \in SUBSET S : s \in Good
  BY <1>2, InheritedByAll
<1>4. QED
  BY <1>1, <1>3 DEF Good

LEMMA SumOfNone == ASSUME NEW f PROVE SumFunctionOnSet(f, {}) = 0
<1>1. PICK it : AddsUp(it, f, {}) /\ SumFunctionOnSet(f, {}) = it[{}]
  BY SumSolves, FS_EmptySet
<1>2. QED
  BY <1>1 DEF AddsUp

(* The sum of integers is an integer, of natural numbers a natural number. *)
LEMMA SumIsAnInteger ==
  ASSUME NEW f, NEW S, IsFiniteSet(S), \A x \in S : f[x] \in Int
  PROVE  SumFunctionOnSet(f, S) \in Int
BY SumSolves, SolutionCounts

LEMMA SumIsANumber ==
  ASSUME NEW f, NEW S, IsFiniteSet(S), \A x \in S : f[x] \in Nat
  PROVE  SumFunctionOnSet(f, S) \in Nat
<1>1. PICK it : AddsUp(it, f, S) /\ SumFunctionOnSet(f, S) = it[S]
  BY SumSolves
<1>2. PICK jt : AddsUp(jt, f, {})
  BY SolutionExists, FS_EmptySet
<1>3. jt[{}] = 0
  BY <1>2 DEF AddsUp
<1>4. jt[{}] <= it[S]
  BY <1>1, <1>2, SolutionsCompare, FS_EmptySet
<1>5. it[S] \in Int
  BY <1>1, SolutionCounts
<1>6. QED
  BY <1>1, <1>3, <1>4, <1>5

(* A smaller set of smaller numbers has a smaller sum.                     *)
LEMMA SumGrows ==
  ASSUME NEW T, IsFiniteSet(T), NEW S \in SUBSET T, NEW f, NEW g,
         \A x \in S : f[x] \in Nat /\ f[x] <= g[x], \A x \in T : g[x] \in Nat
  PROVE  SumFunctionOnSet(f, S) <= SumFunctionOnSet(g, T)
<1>1. IsFiniteSet(S)
  BY FS_Subset
<1>2. /\ \E it : AddsUp(it, f, S) /\ SumFunctionOnSet(f, S) = it[S]
      /\ \E it : AddsUp(it, g, T) /\ SumFunctionOnSet(g, T) = it[T]
  BY <1>1, SumSolves
<1>3. QED
  BY <1>1, <1>2, SolutionsCompare

(* One more element adds its number.                                       *)
LEMMA SumAdds ==
  ASSUME NEW S, IsFiniteSet(S), NEW y, y \notin S, NEW f,
         \A x \in S \cup {y} : f[x] \in Int
  PROVE  SumFunctionOnSet(f, S \cup {y}) = f[y] + SumFunctionOnSet(f, S)
<1> DEFINE T == S \cup {y}
<1>1. IsFiniteSet(T)
  BY FS_AddElement
<1> HIDE DEF T
<1>2. PICK it : AddsUp(it, f, T) /\ SumFunctionOnSet(f, T) = it[T]
  BY <1>1, SumSolves
<1>3. it[T] = f[y] + it[S]
  <2>1. y \in T /\ T \ {y} = S
    BY DEF T
  <2>2. \A x \in T : f[x] \in Int
    BY DEF T
  <2>3. QED
    BY <1>1, <1>2, <2>1, <2>2, SolutionCounts
<1>4. it[S] = SumFunctionOnSet(f, S)
  <2> DEFINE jt == [s \in SUBSET S |-> it[s]]
  <2>1. S \in SUBSET T /\ \A s \in SUBSET S : s # {} => Some(s) \in s
    BY SomeIsOne DEF T
  <2>2. AddsUp(jt, f, S)
    BY <1>2, <2>1 DEF AddsUp
  <2> HIDE DEF jt
  <2>3. jt[S] = SumFunctionOnSet(f, S)
    BY <2>2, SolutionIsSum
  <2>4. QED
    BY <2>3 DEF jt
<1>5. QED
  BY <1>2, <1>3, <1>4 DEF T
=============================================================================
