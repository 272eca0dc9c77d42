----------------------------- MODULE FiniteSums -----------------------------
(***************************************************************************)
(* Sums over finite sets, as SumFunctionOnSet of the community modules     *)
(* defines them, and the induction they need. The library states induction *)
(* for a predicate, which is an operator; here it is for a set of sets,    *)
(* and follows from the well-founded ordering of the finite subsets. Folds *)
(* over sequences are treated the same way, by induction over their        *)
(* places, and there are least elements of sets of naturals.               *)
(***************************************************************************)
EXTENDS Integers, Functions, FiniteSetTheorems, WellFoundedInduction, TLAPS

\* A set of subsets of S that has the empty one, and with a set any that is one
\* element larger, has S.
LEMMA SubsetInduction ==
  ASSUME NEW S, IsFiniteSet(S), NEW Good, {} \in Good,
         \A T \in SUBSET S : \A x \in S \ T : T \in Good => T \cup {x} \in Good
  PROVE  S \in Good
<1> DEFINE Bad == {T \in SUBSET S : T \notin Good}
<1>1. SUFFICES ASSUME S \notin Good PROVE FALSE
  OBVIOUS
<1>2. FiniteSubsetsOf(S) = SUBSET S
  BY FS_FiniteSubsetsOfFinite
<1>3. IsWellFoundedOn(StrictSubsetOrdering(S), SUBSET S)
  BY <1>2, FS_StrictSubsetOrderingWellFounded
<1>4. Bad \subseteq SUBSET S /\ Bad # {}
  BY <1>1
<1> HIDE DEF Bad
<1>5. PICK T \in Bad : \A U \in Bad : <<U, T>> \notin StrictSubsetOrdering(S)
  BY <1>3, <1>4, WFMin
<1>6. T \in SUBSET S /\ T \notin Good
  BY DEF Bad
<1>7. PICK x \in T : TRUE
  BY <1>6
<1>8. T \ {x} \in SUBSET S /\ x \in S \ (T \ {x}) /\ (T \ {x}) \cup {x} = T
  BY <1>6, <1>7
<1>9. T \ {x} \notin Good
  BY <1>6, <1>8
<1>10. T \ {x} \in Bad
  BY <1>8, <1>9 DEF Bad
<1>11. <<T \ {x}, T>> \in StrictSubsetOrdering(S)
  BY <1>6, <1>7, <1>8 DEF StrictSubsetOrdering
<1>12. QED
  BY <1>5, <1>10, <1>11

Choice(T) == CHOOSE x \in T : TRUE

\* The recursion of the fold, as a condition on a function over the subsets of S.
SumsUp(g, f, S) ==
  g = [T \in SUBSET S |-> IF T = {} THEN 0 ELSE f[Choice(T)] + g[T \ {Choice(T)}]]

Sums(f, S) == CHOOSE g : SumsUp(g, f, S)

LEMMA FoldIsSum ==
  ASSUME NEW f, NEW S
  PROVE  SumFunctionOnSet(f, S) = Sums(f, S)[S]
BY DEF SumFunctionOnSet, FoldFunctionOnSet, MapThenFoldSet, Sums, SumsUp, Choice

\* A set of subsets of S that has a set whenever it has all smaller ones has
\* them all.
LEMMA SmallerSubsetInduction ==
  ASSUME NEW S, IsFiniteSet(S), NEW Good,
         \A T \in SUBSET S : (\A U \in SUBSET T : U # T => U \in Good) => T \in Good
  PROVE  SUBSET S \subseteq Good
<1> DEFINE Bad == {T \in SUBSET S : T \notin Good}
<1>1. SUFFICES ASSUME Bad # {} PROVE FALSE
  OBVIOUS
<1>2. IsWellFoundedOn(StrictSubsetOrdering(S), SUBSET S)
  BY FS_FiniteSubsetsOfFinite, FS_StrictSubsetOrderingWellFounded
<1>3. Bad \subseteq SUBSET S
  OBVIOUS
<1> HIDE DEF Bad
<1>4. PICK T \in Bad : \A U \in Bad : <<U, T>> \notin StrictSubsetOrdering(S)
  BY <1>1, <1>2, <1>3, WFMin
<1>5. T \in SUBSET S /\ T \notin Good
  BY DEF Bad
<1>6. \A U \in SUBSET T : U # T => <<U, T>> \in StrictSubsetOrdering(S)
  BY <1>5 DEF StrictSubsetOrdering
<1>7. \A U \in SUBSET T : U # T => U \in Good
  <2> SUFFICES ASSUME NEW U \in SUBSET T, U # T PROVE U \in Good
    OBVIOUS
  <2>1. U \notin Bad
    BY <1>4, <1>6
  <2>2. QED
    BY <2>1, <1>5 DEF Bad
<1>8. QED
  BY <1>5, <1>7

\* There is a function that satisfies the recursion: subset sizes are reached
\* one after the other.
LEMMA SumsExist ==
  ASSUME NEW f, NEW S, IsFiniteSet(S), \A x \in S : f[x] \in Int
  PROVE  SumsUp(Sums(f, S), f, S)
<1> DEFINE Body(g, U) == IF U = {} THEN 0 ELSE f[Choice(U)] + g[U \ {Choice(U)}]
           UpTo(g, T) == \A U \in SUBSET S : Cardinality(U) <= Cardinality(T) => g[U] = Body(g, U)
           Good == {T \in SUBSET S : \E g \in [SUBSET S -> Int] : UpTo(g, T)}
<1>1. \A U \in SUBSET S : IsFiniteSet(U) /\ Cardinality(U) \in Nat /\ (Cardinality(U) = 0 <=> U = {})
                          /\ Cardinality(U) <= Cardinality(S)
  BY FS_Subset, FS_CardinalityType, FS_EmptySet
<1>2. \A U \in SUBSET S : U # {} => /\ Choice(U) \in U
                                    /\ Cardinality(U \ {Choice(U)}) = Cardinality(U) - 1
  BY <1>1, FS_RemoveElement DEF Choice
<1>3. {} \in Good
  <2>1. [U \in SUBSET S |-> 0] \in [SUBSET S -> Int]
    OBVIOUS
  <2>2. UpTo([U \in SUBSET S |-> 0], {})
    BY <1>1, FS_EmptySet
  <2>3. QED
    BY <2>1, <2>2
<1>4. \A T \in SUBSET S : \A x \in S \ T : T \in Good => T \cup {x} \in Good
  <2> SUFFICES ASSUME NEW T \in SUBSET S, NEW x \in S \ T, T \in Good PROVE T \cup {x} \in Good
    OBVIOUS
  <2>1. PICK g \in [SUBSET S -> Int] : UpTo(g, T)
    OBVIOUS
  <2> DEFINE h == [U \in SUBSET S |-> Body(g, U)]
  <2>2. \A U \in SUBSET S : Body(g, U) \in Int
    <3> SUFFICES ASSUME NEW U \in SUBSET S, U # {} PROVE f[Choice(U)] + g[U \ {Choice(U)}] \in Int
      OBVIOUS
    <3>1. f[Choice(U)] \in Int /\ U \ {Choice(U)} \in SUBSET S
      BY <1>2
    <3>2. QED
      BY <3>1
  <2>3. h \in [SUBSET S -> Int]
    BY <2>2
  <2>4. Cardinality(T \cup {x}) = Cardinality(T) + 1
    BY <1>1, FS_AddElement
  <2>5. ASSUME NEW U \in SUBSET S, Cardinality(U) <= Cardinality(T \cup {x})
        PROVE  h[U] = Body(h, U)
    <3>1. CASE U = {}
      BY <3>1
    <3>2. CASE U # {}
      <4> DEFINE c == Choice(U)
      <4>1. /\ U \ {c} \in SUBSET S /\ Cardinality(U \ {c}) = Cardinality(U) - 1
            /\ Cardinality(U) \in Nat /\ Cardinality(T) \in Nat /\ Cardinality(U \ {c}) \in Nat
        BY <1>1, <1>2, <3>2
      <4>2. Cardinality(U \ {c}) <= Cardinality(T)
        BY <4>1, <2>4, <2>5
      <4>3. g[U \ {c}] = Body(g, U \ {c})
        BY <4>1, <4>2, <2>1
      <4>4. h[U \ {c}] = Body(g, U \ {c}) /\ h[U] = Body(g, U)
        BY <4>1
      <4>5. QED
        BY <3>2, <4>3, <4>4
    <3>3. QED
      BY <3>1, <3>2
  <2>6. UpTo(h, T \cup {x})
    BY <2>5
  <2>7. QED
    BY <2>3, <2>6
<1>5. S \in Good
  <2> HIDE DEF Good
  <2>1. QED
    BY <1>3, <1>4, SubsetInduction
<1>6. PICK g \in [SUBSET S -> Int] : UpTo(g, S)
  BY <1>5
<1>7. \A U \in SUBSET S : g[U] = Body(g, U)
  BY <1>1, <1>6
<1>8. SumsUp(g, f, S)
  BY <1>7 DEF SumsUp
<1>9. QED
  BY <1>8 DEF Sums

\* In whatever order the fold takes them, elements count one by one.
LEMMA SumsTakeAny ==
  ASSUME NEW f, NEW S, IsFiniteSet(S), \A x \in S : f[x] \in Int, NEW g, SumsUp(g, f, S)
  PROVE  \A T \in SUBSET S : /\ g[T] \in Int
                             /\ T = {} => g[T] = 0
                             /\ \A x \in T : g[T] = f[x] + g[T \ {x}]
<1> DEFINE Good == {T \in SUBSET S : g[T] \in Int /\ (T = {} => g[T] = 0)
                                     /\ \A x \in T : g[T] = f[x] + g[T \ {x}]}
<1>1. ASSUME NEW T \in SUBSET S, \A U \in SUBSET T : U # T => U \in Good
      PROVE  T \in Good
  <2>1. CASE T = {}
    BY <2>1 DEF SumsUp
  <2>2. CASE T # {}
    <3> DEFINE c == Choice(T)
    <3>1. c \in T
      BY <2>2 DEF Choice
    <3>2. g[T] = f[c] + g[T \ {c}]
      BY <2>2 DEF SumsUp
    <3>3. T \ {c} \in Good
      BY <1>1, <3>1
    <3> HIDE DEF c
    <3>4. g[T] \in Int
      BY <3>1, <3>2, <3>3
    <3>5. ASSUME NEW x \in T PROVE g[T] = f[x] + g[T \ {x}]
      <4>1. CASE x = c
        BY <3>2, <4>1
      <4>2. CASE x # c
        <5>1. T \ {x} \in Good
          BY <1>1
        <5>2. x \in T \ {c} /\ c \in T \ {x} /\ (T \ {c}) \ {x} = (T \ {x}) \ {c}
          BY <3>1, <4>2
        <5>3. g[T \ {c}] = f[x] + g[(T \ {c}) \ {x}] /\ g[T \ {x}] = f[c] + g[(T \ {x}) \ {c}]
          BY <3>3, <5>1, <5>2
        <5>4. (T \ {c}) \ {x} \in Good
          BY <1>1, <3>1
        <5>5. g[(T \ {c}) \ {x}] \in Int /\ f[x] \in Int /\ f[c] \in Int
          BY <5>4, <3>1
        <5> DEFINE rest == g[(T \ {c}) \ {x}]
        <5>6. g[T] = f[c] + (f[x] + rest) /\ g[T \ {x}] = f[c] + rest
          BY <3>2, <5>2, <5>3
        <5>7. rest \in Int /\ f[x] \in Int /\ f[c] \in Int
          BY <5>5
        <5> HIDE DEF rest
        <5>8. f[c] + (f[x] + rest) = f[x] + (f[c] + rest)
          BY <5>7
        <5>9. QED
          BY <5>6, <5>8
      <4>3. QED
        BY <4>1, <4>2
    <3>6. QED
      BY <2>2, <3>4, <3>5
  <2>3. QED
    BY <2>1, <2>2
<1> HIDE DEF Good
<1>2. SUBSET S \subseteq Good
  BY <1>1, SmallerSubsetInduction
<1>3. QED
  BY <1>2 DEF Good

\* The sum of a subset does not depend on the set the recursion was over.
LEMMA SumsOfSubset ==
  ASSUME NEW f, NEW S, IsFiniteSet(S), \A x \in S : f[x] \in Int, NEW T \in SUBSET S
  PROVE  SumFunctionOnSet(f, T) = Sums(f, S)[T]
<1> DEFINE a == Sums(f, T)
           b == Sums(f, S)
           Good == {U \in SUBSET T : a[U] = b[U]}
<1>1. IsFiniteSet(T) /\ \A x \in T : f[x] \in Int
  BY FS_Subset
<1>2. SumsUp(a, f, T) /\ SumsUp(b, f, S)
  BY <1>1, SumsExist
<1> HIDE DEF a, b
<1>3. ASSUME NEW U \in SUBSET T, \A W \in SUBSET U : W # U => W \in Good
      PROVE  U \in Good
  <2>1. CASE U = {}
    BY <1>2, <2>1 DEF SumsUp
  <2>2. CASE U # {}
    <3>1. Choice(U) \in U
      BY <2>2 DEF Choice
    <3>2. U \ {Choice(U)} \in Good
      BY <3>1, <1>3
    <3>3. a[U] = f[Choice(U)] + a[U \ {Choice(U)}] /\ b[U] = f[Choice(U)] + b[U \ {Choice(U)}]
      BY <1>2, <2>2 DEF SumsUp
    <3>4. QED
      BY <3>2, <3>3
  <2>3. QED
    BY <2>1, <2>2
<1> HIDE DEF Good
<1>4. SUBSET T \subseteq Good
  BY <1>1, <1>3, SmallerSubsetInduction
<1>5. a[T] = b[T]
  BY <1>4 DEF Good
<1>6. QED
  BY <1>5, FoldIsSum DEF a, b

-----------------------------------------------------------------------------
(* What the proofs about the models cite.                                    *)

LEMMA SumOfNone == ASSUME NEW f PROVE SumFunctionOnSet(f, {}) = 0
<1>1. IsFiniteSet({}) /\ \A x \in {} : f[x] \in Int
  BY FS_EmptySet
<1>2. SumsUp(Sums(f, {}), f, {})
  BY <1>1, SumsExist
<1>3. QED
  BY <1>2, FoldIsSum DEF SumsUp

LEMMA SumIsInt ==
  ASSUME NEW f, NEW S, IsFiniteSet(S), \A x \in S : f[x] \in Int
  PROVE  SumFunctionOnSet(f, S) \in Int
<1>1. SumsUp(Sums(f, S), f, S)
  BY SumsExist
<1>2. Sums(f, S)[S] \in Int
  BY <1>1, SumsTakeAny
<1>3. QED
  BY <1>2, FoldIsSum

\* One element more.
LEMMA SumWith ==
  ASSUME NEW f, NEW S, IsFiniteSet(S), NEW x, x \notin S, \A y \in S \cup {x} : f[y] \in Int
  PROVE  SumFunctionOnSet(f, S \cup {x}) = f[x] + SumFunctionOnSet(f, S)
<1> DEFINE U == S \cup {x}
<1>1. IsFiniteSet(U) /\ S \in SUBSET U /\ U \in SUBSET U /\ x \in U /\ U \ {x} = S
  BY FS_AddElement
<1>2. \A y \in U : f[y] \in Int
  OBVIOUS
<1> HIDE DEF U
<1>3. SumsUp(Sums(f, U), f, U)
  BY <1>1, <1>2, SumsExist
<1>4. Sums(f, U)[U] = f[x] + Sums(f, U)[U \ {x}]
  BY <1>1, <1>2, <1>3, SumsTakeAny
<1>5. SumFunctionOnSet(f, U) = Sums(f, U)[U] /\ SumFunctionOnSet(f, S) = Sums(f, U)[S]
  BY <1>1, <1>2, SumsOfSubset
<1>6. QED
  BY <1>1, <1>4, <1>5 DEF U

\* One element less.
LEMMA SumWithout ==
  ASSUME NEW f, NEW S, IsFiniteSet(S), NEW x \in S, \A y \in S : f[y] \in Int
  PROVE  /\ SumFunctionOnSet(f, S) = f[x] + SumFunctionOnSet(f, S \ {x})
         /\ SumFunctionOnSet(f, S \ {x}) \in Int
<1>1. IsFiniteSet(S \ {x}) /\ x \notin S \ {x} /\ (S \ {x}) \cup {x} = S
  BY FS_RemoveElement
<1>2. \A y \in (S \ {x}) \cup {x} : f[y] \in Int
  OBVIOUS
<1>3. SumFunctionOnSet(f, (S \ {x}) \cup {x}) = f[x] + SumFunctionOnSet(f, S \ {x})
  BY <1>1, <1>2, SumWith
<1>4. SumFunctionOnSet(f, S \ {x}) \in Int
  BY <1>1, <1>2, SumIsInt
<1>5. QED
  BY <1>1, <1>3, <1>4

\* Term by term no more, no more in all.
LEMMA SumMonotone ==
  ASSUME NEW f, NEW g, NEW S, IsFiniteSet(S),
         \A x \in S : f[x] \in Int /\ g[x] \in Int /\ f[x] <= g[x]
  PROVE  SumFunctionOnSet(f, S) <= SumFunctionOnSet(g, S)
<1> DEFINE Good == {T \in SUBSET S : SumFunctionOnSet(f, T) <= SumFunctionOnSet(g, T)}
<1>1. {} \in Good
  BY SumOfNone
<1>2. ASSUME NEW T \in SUBSET S, NEW x \in S \ T, T \in Good PROVE T \cup {x} \in Good
  <2>1. IsFiniteSet(T) /\ x \notin T
    BY FS_Subset
  <2>2. \A y \in T \cup {x} : f[y] \in Int /\ g[y] \in Int
    OBVIOUS
  <2>3. /\ SumFunctionOnSet(f, T \cup {x}) = f[x] + SumFunctionOnSet(f, T)
        /\ SumFunctionOnSet(g, T \cup {x}) = g[x] + SumFunctionOnSet(g, T)
    BY <2>1, <2>2, SumWith
  <2>4. SumFunctionOnSet(f, T) \in Int /\ SumFunctionOnSet(g, T) \in Int
    BY <2>1, <2>2, SumIsInt
  <2>5. f[x] <= g[x] /\ f[x] \in Int /\ g[x] \in Int
    OBVIOUS
  <2>6. SumFunctionOnSet(f, T) <= SumFunctionOnSet(g, T)
    BY <1>2
  <2>7. SumFunctionOnSet(f, T \cup {x}) <= SumFunctionOnSet(g, T \cup {x})
    BY <2>3, <2>4, <2>5, <2>6
  <2>8. QED
    BY <2>7
<1> HIDE DEF Good
<1>3. S \in Good
  BY <1>1, <1>2, SubsetInduction
<1>4. QED
  BY <1>3 DEF Good

\* What functions agree on has one sum.
LEMMA SumSame ==
  ASSUME NEW f, NEW g, NEW S, IsFiniteSet(S), \A x \in S : f[x] \in Int /\ g[x] = f[x]
  PROVE  SumFunctionOnSet(g, S) = SumFunctionOnSet(f, S)
<1>1. \A x \in S : f[x] \in Int /\ g[x] \in Int /\ f[x] <= g[x] /\ g[x] <= f[x]
  OBVIOUS
<1>2. SumFunctionOnSet(f, S) <= SumFunctionOnSet(g, S) /\ SumFunctionOnSet(g, S) <= SumFunctionOnSet(f, S)
  BY <1>1, SumMonotone
<1>3. SumFunctionOnSet(f, S) \in Int /\ SumFunctionOnSet(g, S) \in Int
  BY <1>1, SumIsInt
<1>4. QED
  BY <1>2, <1>3

\* One term changes, and the sum by as much.
LEMMA SumChanges ==
  ASSUME NEW f, NEW g, NEW S, IsFiniteSet(S), NEW x \in S,
         \A y \in S : f[y] \in Int /\ g[y] \in Int,
         \A y \in S \ {x} : g[y] = f[y]
  PROVE  SumFunctionOnSet(g, S) = SumFunctionOnSet(f, S) - f[x] + g[x]
<1>1. IsFiniteSet(S \ {x}) /\ \A y \in S \ {x} : f[y] \in Int /\ g[y] = f[y]
  BY FS_RemoveElement
<1>2. SumFunctionOnSet(g, S \ {x}) = SumFunctionOnSet(f, S \ {x})
  BY <1>1, SumSame
<1>3. /\ SumFunctionOnSet(f, S) = f[x] + SumFunctionOnSet(f, S \ {x})
      /\ SumFunctionOnSet(f, S \ {x}) \in Int
      /\ SumFunctionOnSet(g, S) = g[x] + SumFunctionOnSet(g, S \ {x})
  BY SumWithout
<1>4. f[x] \in Int /\ g[x] \in Int
  OBVIOUS
<1>5. QED
  BY <1>2, <1>3, <1>4

LEMMA SumIsNat ==
  ASSUME NEW f, NEW S, IsFiniteSet(S), \A x \in S : f[x] \in Nat
  PROVE  SumFunctionOnSet(f, S) \in Nat
<1> DEFINE Good == {T \in SUBSET S : SumFunctionOnSet(f, T) \in Nat}
<1>1. {} \in Good
  BY SumOfNone
<1>2. ASSUME NEW T \in SUBSET S, NEW x \in S \ T, T \in Good PROVE T \cup {x} \in Good
  <2>1. IsFiniteSet(T) /\ x \notin T
    BY FS_Subset
  <2>2. \A y \in T \cup {x} : f[y] \in Int
    OBVIOUS
  <2>3. SumFunctionOnSet(f, T \cup {x}) = f[x] + SumFunctionOnSet(f, T)
    BY <2>1, <2>2, SumWith
  <2>4. f[x] \in Nat /\ SumFunctionOnSet(f, T) \in Nat
    BY <1>2
  <2>5. QED
    BY <2>3, <2>4
<1> HIDE DEF Good
<1>3. S \in Good
  BY <1>1, <1>2, SubsetInduction
<1>4. QED
  BY <1>3 DEF Good

\* A function on a finite set has a largest value.
LEMMA LargestExists ==
  ASSUME NEW f, NEW S, IsFiniteSet(S), S # {}, \A x \in S : f[x] \in Int
  PROVE  \E m \in S : \A x \in S : f[m] >= f[x]
<1> DEFINE Good == {T \in SUBSET S : T = {} \/ \E m \in T : \A x \in T : f[m] >= f[x]}
<1>1. {} \in Good
  OBVIOUS
<1>2. ASSUME NEW T \in SUBSET S, NEW x \in S \ T, T \in Good PROVE T \cup {x} \in Good
  <2>1. CASE T = {}
    BY <2>1
  <2>2. CASE T # {}
    <3>1. PICK m \in T : \A y \in T : f[m] >= f[y]
      BY <1>2, <2>2
    <3>2. CASE f[x] <= f[m]
      <4>1. \A y \in T \cup {x} : f[m] >= f[y]
        BY <3>1, <3>2
      <4>2. QED
        BY <3>1, <4>1
    <3>3. CASE ~(f[x] <= f[m])
      <4>1. \A y \in T \cup {x} : f[x] >= f[y]
        BY <3>1, <3>3
      <4>2. QED
        BY <4>1
    <3>4. QED
      BY <3>2, <3>3
  <2>3. QED
    BY <2>1, <2>2
<1> HIDE DEF Good
<1>3. S \in Good
  BY <1>1, <1>2, SubsetInduction
<1>4. QED
  BY <1>3 DEF Good

\* So many terms, none above a bound.
LEMMA SumBounded ==
  ASSUME NEW f, NEW S, IsFiniteSet(S), NEW m \in Nat, \A x \in S : f[x] \in Nat /\ f[x] <= m
  PROVE  SumFunctionOnSet(f, S) <= Cardinality(S) * m
<1> DEFINE Good == {T \in SUBSET S : SumFunctionOnSet(f, T) <= Cardinality(T) * m}
<1>1. {} \in Good
  BY SumOfNone, FS_EmptySet
<1>2. ASSUME NEW T \in SUBSET S, NEW x \in S \ T, T \in Good PROVE T \cup {x} \in Good
  <2>1. IsFiniteSet(T) /\ x \notin T
    BY FS_Subset
  <2>2. \A y \in T \cup {x} : f[y] \in Int
    OBVIOUS
  <2>3. SumFunctionOnSet(f, T \cup {x}) = f[x] + SumFunctionOnSet(f, T)
    BY <2>1, <2>2, SumWith
  <2>4. SumFunctionOnSet(f, T) \in Int
    BY <2>1, <2>2, SumIsInt
  <2>5. Cardinality(T) \in Nat /\ Cardinality(T \cup {x}) = Cardinality(T) + 1
    BY <2>1, FS_CardinalityType, FS_AddElement
  <2>6. SumFunctionOnSet(f, T) <= Cardinality(T) * m /\ f[x] \in Nat /\ f[x] <= m
    BY <1>2
  <2>7. (Cardinality(T) + 1) * m = Cardinality(T) * m + m
    BY <2>5
  <2>8. SumFunctionOnSet(f, T \cup {x}) <= Cardinality(T \cup {x}) * m
    BY <2>3, <2>4, <2>5, <2>6, <2>7
  <2>9. QED
    BY <2>8
<1> HIDE DEF Good
<1>3. S \in Good
  BY <1>1, <1>2, SubsetInduction
<1>4. QED
  BY <1>3 DEF Good

\* The sum of a set is no more than that of a larger one, of naturals.
LEMMA SumOfFewer ==
  ASSUME NEW f, NEW S, IsFiniteSet(S), \A x \in S : f[x] \in Nat, NEW T \in SUBSET S
  PROVE  SumFunctionOnSet(f, T) <= SumFunctionOnSet(f, S)
<1> DEFINE Good == {U \in SUBSET S : SumFunctionOnSet(f, T \cap U) <= SumFunctionOnSet(f, U)}
<1>1. {} \in Good
  BY SumOfNone
<1>2. ASSUME NEW U \in SUBSET S, NEW x \in S \ U, U \in Good PROVE U \cup {x} \in Good
  <2>1. IsFiniteSet(U) /\ IsFiniteSet(T \cap U) /\ x \notin U /\ f[x] \in Nat
    BY FS_Subset
  <2>2. SumFunctionOnSet(f, U \cup {x}) = f[x] + SumFunctionOnSet(f, U)
    BY <2>1, SumWith
  <2>3. SumFunctionOnSet(f, U) \in Int /\ SumFunctionOnSet(f, T \cap U) \in Int
    BY <2>1, SumIsInt
  <2>4. SumFunctionOnSet(f, T \cap U) <= SumFunctionOnSet(f, U)
    BY <1>2
  <2>5. CASE x \in T
    <3>1. T \cap (U \cup {x}) = (T \cap U) \cup {x}
      BY <2>5
    <3>2. SumFunctionOnSet(f, (T \cap U) \cup {x}) = f[x] + SumFunctionOnSet(f, T \cap U)
      BY <2>1, SumWith
    <3>3. SumFunctionOnSet(f, T \cap (U \cup {x})) = f[x] + SumFunctionOnSet(f, T \cap U)
      BY <3>1, <3>2, Zenon
    <3>4. SumFunctionOnSet(f, T \cap (U \cup {x})) <= SumFunctionOnSet(f, U \cup {x})
      BY <2>1, <2>2, <2>3, <2>4, <3>3
    <3>5. QED
      BY <3>4
  <2>6. CASE x \notin T
    <3>1. T \cap (U \cup {x}) = T \cap U
      BY <2>6
    <3>2. SumFunctionOnSet(f, T \cap U) <= SumFunctionOnSet(f, U \cup {x})
      BY <2>1, <2>2, <2>3, <2>4
    <3>3. SumFunctionOnSet(f, T \cap (U \cup {x})) <= SumFunctionOnSet(f, U \cup {x})
      BY <3>1, <3>2, Zenon
    <3>4. QED
      BY <3>3
  <2>7. QED
    BY <2>5, <2>6
<1> HIDE DEF Good
<1>3. S \in Good
  BY <1>1, <1>2, SubsetInduction
<1>4. T \cap S = T
  OBVIOUS
<1>5. QED
  BY <1>3, <1>4 DEF Good

\* Two sets apart.
LEMMA SumOfBoth ==
  ASSUME NEW f, NEW S, IsFiniteSet(S), \A x \in S : f[x] \in Int,
         NEW T, IsFiniteSet(T), \A x \in T : f[x] \in Int, S \cap T = {}
  PROVE  SumFunctionOnSet(f, S \cup T) = SumFunctionOnSet(f, S) + SumFunctionOnSet(f, T)
<1> DEFINE Good == {U \in SUBSET T : SumFunctionOnSet(f, S \cup U)
                                       = SumFunctionOnSet(f, S) + SumFunctionOnSet(f, U)}
<1>1. {} \in Good
  <2>1. S \cup {} = S /\ SumFunctionOnSet(f, S) \in Int
    BY SumIsInt
  <2>2. SumFunctionOnSet(f, S \cup {}) = SumFunctionOnSet(f, S) + SumFunctionOnSet(f, {})
    BY <2>1, SumOfNone
  <2>3. QED
    BY <2>2
<1>2. ASSUME NEW U \in SUBSET T, NEW x \in T \ U, U \in Good PROVE U \cup {x} \in Good
  <2>1. IsFiniteSet(U) /\ IsFiniteSet(S \cup U) /\ x \notin U /\ x \notin S \cup U /\ f[x] \in Int
    BY FS_Subset, FS_Union
  <2>2. /\ SumFunctionOnSet(f, U \cup {x}) = f[x] + SumFunctionOnSet(f, U)
        /\ SumFunctionOnSet(f, (S \cup U) \cup {x}) = f[x] + SumFunctionOnSet(f, S \cup U)
    BY <2>1, SumWith
  <2>3. SumFunctionOnSet(f, U) \in Int /\ SumFunctionOnSet(f, S) \in Int
    BY <2>1, SumIsInt
  <2>4. SumFunctionOnSet(f, S \cup U) = SumFunctionOnSet(f, S) + SumFunctionOnSet(f, U)
    BY <1>2
  <2>5. S \cup (U \cup {x}) = (S \cup U) \cup {x}
    OBVIOUS
  <2>6. SumFunctionOnSet(f, S \cup (U \cup {x})) = f[x] + SumFunctionOnSet(f, S \cup U)
    BY <2>2, <2>5, Zenon
  <2>7. SumFunctionOnSet(f, S \cup (U \cup {x})) = SumFunctionOnSet(f, S) + SumFunctionOnSet(f, U \cup {x})
    BY <2>1, <2>2, <2>3, <2>4, <2>6
  <2>8. QED
    BY <2>7
<1> HIDE DEF Good
<1>3. T \in Good
  BY <1>1, <1>2, SubsetInduction
<1>4. QED
  BY <1>3 DEF Good

Top(T) == CHOOSE x \in T : \A y \in T : x >= y

LEMMA TopIsTop ==
  ASSUME NEW n \in Nat, NEW T \in SUBSET (1..n), T # {}
  PROVE  Top(T) \in T /\ \A y \in T : Top(T) >= y
<1> DEFINE id == [x \in T |-> x]
<1>0. IsFiniteSet(1..n)
  BY FS_Interval
<1>1. IsFiniteSet(T)
  BY <1>0, FS_Subset
<1>2. \A x \in T : id[x] \in Int
  OBVIOUS
<1>3. \E m \in T : \A x \in T : id[m] >= id[x]
  <2> HIDE DEF id
  <2>1. QED
    BY <1>1, <1>2, LargestExists
<1>4. \E m \in T : \A x \in T : m >= x
  BY <1>3
<1>5. QED
  BY <1>4 DEF Top

\* The recursion of a fold from the left over n places, as a condition on a
\* function over the sets of places.
Folds(g, base, step, n) ==
  \A T \in SUBSET (1..n) : g[T] = IF T = {} THEN base ELSE step[<<g[T \ {Top(T)}], Top(T)>>]

LEMMA FoldExists ==
  ASSUME NEW V, NEW n \in Nat, NEW base \in V, NEW step,
         \A v \in V : \A k \in 1..n : step[<<v, k>>] \in V
  PROVE  \E g \in [SUBSET (1..n) -> V] : Folds(g, base, step, n)
<1> DEFINE S == 1..n
           Body(g, U) == IF U = {} THEN base ELSE step[<<g[U \ {Top(U)}], Top(U)>>]
           UpTo(g, T) == \A U \in SUBSET S : Cardinality(U) <= Cardinality(T) => g[U] = Body(g, U)
           Good == {T \in SUBSET S : \E g \in [SUBSET S -> V] : UpTo(g, T)}
<1>0. IsFiniteSet(S)
  BY FS_Interval
<1>1. \A U \in SUBSET S : IsFiniteSet(U) /\ Cardinality(U) \in Nat /\ (Cardinality(U) = 0 <=> U = {})
                          /\ Cardinality(U) <= Cardinality(S)
  BY <1>0, FS_Subset, FS_CardinalityType, FS_EmptySet
<1>2. \A U \in SUBSET S : U # {} => Top(U) \in U /\ Cardinality(U \ {Top(U)}) = Cardinality(U) - 1
  BY <1>1, FS_RemoveElement, TopIsTop
<1>3. {} \in Good
  <2>1. [U \in SUBSET S |-> base] \in [SUBSET S -> V]
    OBVIOUS
  <2>2. UpTo([U \in SUBSET S |-> base], {})
    BY <1>1, FS_EmptySet
  <2>3. QED
    BY <2>1, <2>2
<1>4. \A T \in SUBSET S : \A x \in S \ T : T \in Good => T \cup {x} \in Good
  <2> SUFFICES ASSUME NEW T \in SUBSET S, NEW x \in S \ T, T \in Good PROVE T \cup {x} \in Good
    OBVIOUS
  <2>1. PICK g \in [SUBSET S -> V] : UpTo(g, T)
    OBVIOUS
  <2> DEFINE h == [U \in SUBSET S |-> Body(g, U)]
  <2>2. \A U \in SUBSET S : Body(g, U) \in V
    <3> SUFFICES ASSUME NEW U \in SUBSET S, U # {} PROVE step[<<g[U \ {Top(U)}], Top(U)>>] \in V
      OBVIOUS
    <3>1. Top(U) \in S /\ U \ {Top(U)} \in SUBSET S
      BY <1>2
    <3>2. QED
      BY <3>1
  <2>3. h \in [SUBSET S -> V]
    BY <2>2
  <2>4. Cardinality(T \cup {x}) = Cardinality(T) + 1
    BY <1>1, FS_AddElement
  <2>5. ASSUME NEW U \in SUBSET S, Cardinality(U) <= Cardinality(T \cup {x})
        PROVE  h[U] = Body(h, U)
    <3>1. CASE U = {}
      BY <3>1
    <3>2. CASE U # {}
      <4> DEFINE c == Top(U)
      <4>1. /\ U \ {c} \in SUBSET S /\ Cardinality(U \ {c}) = Cardinality(U) - 1
            /\ Cardinality(U) \in Nat /\ Cardinality(T) \in Nat /\ Cardinality(U \ {c}) \in Nat
        BY <1>1, <1>2, <3>2
      <4>2. Cardinality(U \ {c}) <= Cardinality(T)
        BY <4>1, <2>4, <2>5
      <4>3. g[U \ {c}] = Body(g, U \ {c})
        BY <4>1, <4>2, <2>1
      <4>4. h[U \ {c}] = Body(g, U \ {c}) /\ h[U] = Body(g, U)
        BY <4>1
      <4>5. QED
        BY <3>2, <4>3, <4>4
    <3>3. QED
      BY <3>1, <3>2
  <2>6. UpTo(h, T \cup {x})
    BY <2>5
  <2>7. QED
    BY <2>3, <2>6
<1>5. S \in Good
  <2> HIDE DEF Good, S
  <2>1. QED
    BY <1>0, <1>3, <1>4, SubsetInduction
<1>6. PICK g \in [SUBSET S -> V] : UpTo(g, S)
  BY <1>5
<1>7. \A U \in SUBSET S : g[U] = Body(g, U)
  BY <1>1, <1>6
<1>8. QED
  BY <1>7 DEF Folds

\* The first places, and the last of them.
LEMMA FirstPlaces ==
  ASSUME NEW n \in Nat, NEW k \in 1..n
  PROVE  /\ 1..k \in SUBSET (1..n) /\ 1..k # {}
         /\ Top(1..k) = k /\ (1..k) \ {k} = 1..(k - 1)
<1>1. k \in Nat /\ 1 <= k /\ k <= n
  OBVIOUS
<1>2. \A i \in 1..k : i \in 1..n
  BY <1>1
<1>3. k \in 1..k
  BY <1>1
<1>4. Top(1..k) \in 1..k /\ Top(1..k) >= k
  BY <1>1, <1>2, <1>3, TopIsTop
<1>5. Top(1..k) = k
  BY <1>1, <1>4
<1>6. (1..k) \ {k} = 1..(k - 1)
  BY <1>1
<1>7. QED
  BY <1>2, <1>3, <1>5, <1>6

\* What holds of 0 and, with a place, of the next.
LEMMA PlaceInduction ==
  ASSUME NEW n \in Nat, NEW Good, 0 \in Good, \A k \in 1..n : k - 1 \in Good => k \in Good
  PROVE  \A k \in 0..n : k \in Good
<1> DEFINE Bad == {k \in 0..n : k \notin Good}
<1>1. SUFFICES ASSUME Bad # {} PROVE FALSE
  OBVIOUS
<1>2. Bad \subseteq Nat
  OBVIOUS
<1> HIDE DEF Bad
<1>3. PICK k \in Bad : \A j \in Bad : <<j, k>> \notin OpToRel(<, Nat)
  BY <1>1, <1>2, NatLessThanWellFounded, WFMin
<1>4. k \in 0..n /\ k \notin Good
  BY DEF Bad
<1>5. k # 0 /\ k - 1 \in 0..n /\ k \in 1..n
  BY <1>4
<1>6. <<k - 1, k>> \in OpToRel(<, Nat)
  BY <1>5 DEF OpToRel
<1>7. k - 1 \in Good
  BY <1>3, <1>5, <1>6 DEF Bad
<1>8. QED
  BY <1>4, <1>5, <1>7

\* A finite set of numbers that is not empty has a least one.
LEMMA LeastExists ==
  ASSUME NEW S, IsFiniteSet(S), S # {}, \A i \in S : i \in Int
  PROVE  \E i \in S : \A j \in S : i <= j
<1> DEFINE f == [i \in S |-> -i]
<1>1. \A i \in S : f[i] \in Int
  OBVIOUS
<1> HIDE DEF f
<1>2. PICK m \in S : \A j \in S : f[m] >= f[j]
  BY <1>1, LargestExists
<1>3. \A j \in S : m <= j
  BY <1>2 DEF f
<1>4. QED
  BY <1>3

\* So has a set of places.
LEMMA FirstPlace ==
  ASSUME NEW n \in Nat, NEW T \in SUBSET (1..n), T # {}
  PROVE  \E m \in T : \A x \in T : m <= x
<1>1. IsFiniteSet(1..n)
  BY FS_Interval
<1>2. IsFiniteSet(T)
  BY <1>1, FS_Subset
<1>3. \A i \in T : i \in Int
  OBVIOUS
<1>4. QED
  BY <1>2, <1>3, LeastExists
=============================================================================
