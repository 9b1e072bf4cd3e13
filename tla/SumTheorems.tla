----------------------------- MODULE SumTheorems -----------------------------
(***************************************************************************)
(* Facts about sums over finite sets, for the reports of this tool, which  *)
(* add up minutes, money, downtime and scores.                             *)
(*                                                                         *)
(* The terms of a sum are a function, as they are in the reports. The      *)
(* facts are proved by well-founded induction over the subsets of a finite *)
(* set; so that they are of first order, what is to be shown of a subset   *)
(* is a set, too: that of the subsets it is true of.                       *)
(***************************************************************************)
EXTENDS Functions, FiniteSetTheorems, WellFoundedInduction, TLAPS

SumOver(f, S) == SumFunctionOnSet(f, S)

\* The values of a function are as many as its arguments at most.
LEMMA ImageFinite ==
    ASSUME NEW f, NEW S, IsFiniteSet(S)
    PROVE  /\ IsFiniteSet({f[x] : x \in S})
           /\ Cardinality({f[x] : x \in S}) <= Cardinality(S)
  <1> DEFINE T == {f[x] : x \in S}
             g == [x \in S |-> f[x]]
  <1>1. g \in Surjection(S, T)
    BY DEF Surjection
  <1> QED
    BY <1>1, FS_Surjection

\* The sum of all values of a function (Total, Downtime, Average).
LEMMA SumOfAll == ASSUME NEW f PROVE SumFunction(f) = SumOver(f, DOMAIN f)
  BY DEF SumFunction, SumOver

\* Induction over the subsets of a finite set: one of which all proper subsets are
\* good is good, so all of them are.
LEMMA SubsetInduction ==
    ASSUME NEW S, IsFiniteSet(S), NEW Good,
           \A T \in SUBSET S : (\A U \in SUBSET T : U # T => U \in Good) => T \in Good
    PROVE  \A T \in SUBSET S : T \in Good
  <1> DEFINE Bad == {T \in SUBSET S : T \notin Good}
  <1> SUFFICES ASSUME Bad # {} PROVE FALSE
    OBVIOUS
  <1>1. IsWellFoundedOn(StrictSubsetOrdering(S), SUBSET S)
    <2>1. IsWellFoundedOn(StrictSubsetOrdering(S), FiniteSubsetsOf(S))
      BY FS_StrictSubsetOrderingWellFounded
    <2>2. FiniteSubsetsOf(S) = SUBSET S
      BY FS_FiniteSubsetsOfFinite, Zenon
    <2> QED
      BY <2>1, <2>2
  <1>2. \E T \in Bad : \A U \in Bad : <<U, T>> \notin StrictSubsetOrdering(S)
    <2>1. Bad \subseteq SUBSET S
      OBVIOUS
    <2> HIDE DEF Bad
    <2> QED
      BY <1>1, <2>1, WFMin, SMT
  <1>3. PICK T \in Bad : \A U \in Bad : <<U, T>> \notin StrictSubsetOrdering(S)
    BY <1>2
  <1>4. \A U \in SUBSET T : U # T => U \in Good
    BY <1>3 DEF StrictSubsetOrdering
  <1> QED
    BY <1>3, <1>4

\* Induction over how a finite set is put together, element by element.
LEMMA SetInduction ==
    ASSUME NEW S, IsFiniteSet(S), NEW Good, {} \in Good,
           \A T \in SUBSET S, x \in S : T \in Good /\ x \notin T => T \cup {x} \in Good
    PROVE  S \in Good
  <1>1. ASSUME NEW T \in SUBSET S, \A U \in SUBSET T : U # T => U \in Good, T # {}
        PROVE  T \in Good
    <2>1. PICK x \in T : TRUE
      BY <1>1
    <2>2. T \ {x} \in Good /\ (T \ {x}) \cup {x} = T
      BY <1>1, <2>1
    <2> QED
      BY <2>1, <2>2
  <1>2. ASSUME NEW T \in SUBSET S, \A U \in SUBSET T : U # T => U \in Good
        PROVE  T \in Good
    <2>1. CASE T = {}
      BY <2>1
    <2>2. CASE T # {}
      BY <1>1, <1>2, <2>2
    <2> QED
      BY <2>1, <2>2
  <1>3. \A T \in SUBSET S : T \in Good
    BY <1>2, SubsetInduction, Zenon
  <1> QED
    BY <1>3

\* A set of numbers has a least one.
LEMMA LeastNatural ==
    ASSUME NEW S, S \subseteq Nat, S # {} PROVE \E n \in S : \A m \in S : n <= m
  <1>1. PICK n \in S : \A m \in S : ~(<<m, n>> \in OpToRel(<, Nat))
    BY NatLessThanWellFounded, WFMin
  <1>2. \A m \in S : ~(m < n)
    BY <1>1 DEF OpToRel
  <1> QED
    BY <1>2

\* Of finitely many numbers one is the greatest.
LEMMA GreatestValue ==
    ASSUME NEW S, IsFiniteSet(S), S # {}, NEW f, \A x \in S : f[x] \in Int
    PROVE  \E m \in S : \A x \in S : f[m] >= f[x]
  <1> DEFINE Good == {T \in SUBSET S : T = {} \/ \E m \in T : \A x \in T : f[m] >= f[x]}
  <1>1. ASSUME NEW T \in SUBSET S, NEW x \in S, T \in Good, x \notin T
        PROVE  T \cup {x} \in Good
    BY <1>1
  <1>2. {} \in Good
    OBVIOUS
  <1>3. S \in Good
    <2> HIDE DEF Good
    <2> QED
      BY <1>1, <1>2, SetInduction
  <1> QED
    BY <1>3

\* ------------------------- the equation of a sum -------------------------

\* The element a sum starts with, and the function that a sum is a value of.
Pick(T) == CHOOSE x \in T : TRUE
Body(h, f, T) == IF T = {} THEN 0 ELSE f[Pick(T)] + h[T \ {Pick(T)}]
Unfolds(h, f, S) == h = [T \in SUBSET S |-> Body(h, f, T)]

\* What the sum of the library stands for.
LEMMA SumUnfolded ==
    ASSUME NEW f, NEW S
    PROVE  SumOver(f, S) = (CHOOSE h : Unfolds(h, f, S))[S]
  BY DEF SumOver, SumFunctionOnSet, FoldFunctionOnSet, MapThenFoldSet, Unfolds, Body, Pick

\* There is such a function: it is extended from the subsets of one size to those
\* of the next.
LEMMA UnfoldingExists ==
    ASSUME NEW f, NEW S, IsFiniteSet(S)
    PROVE  \E h : Unfolds(h, f, S)
  <1> DEFINE Upto(h, n) == \A T \in SUBSET S : Cardinality(T) <= n => h[T] = Body(h, f, T)
             Bad == {n \in Nat : ~\E h : Upto(h, n)}
  <1>1. \A T \in SUBSET S : IsFiniteSet(T) /\ Cardinality(T) \in Nat
    BY FS_Subset, FS_CardinalityType
  <1>2. \A T \in SUBSET S : T # {} =>
           /\ T \ {Pick(T)} \in SUBSET S
           /\ Cardinality(T \ {Pick(T)}) = Cardinality(T) - 1
           /\ Cardinality(T) > 0
    <2> SUFFICES ASSUME NEW T \in SUBSET S, T # {}
                 PROVE  /\ T \ {Pick(T)} \in SUBSET S
                        /\ Cardinality(T \ {Pick(T)}) = Cardinality(T) - 1
                        /\ Cardinality(T) > 0
      OBVIOUS
    <2>1. Pick(T) \in T
      BY DEF Pick
    <2>2. IsFiniteSet(T) /\ Cardinality(T) \in Nat /\ Cardinality(T) # 0
      BY <1>1, FS_EmptySet
    <2>3. Cardinality(T \ {Pick(T)}) = Cardinality(T) - 1
      BY <2>1, <2>2, FS_RemoveElement
    <2> QED
      BY <2>2, <2>3
  <1>3. Bad = {}
    <2> SUFFICES ASSUME Bad # {} PROVE FALSE
      OBVIOUS
    <2>1. PICK n \in Bad : \A m \in Bad : n <= m
      <3>1. Bad \in SUBSET Nat
        OBVIOUS
      <3> HIDE DEF Bad
      <3> QED
        BY <3>1, LeastNatural
    <2>2. CASE n = 0
      <3>1. Upto([T \in SUBSET S |-> 0], 0)
        <4> SUFFICES ASSUME NEW T \in SUBSET S, Cardinality(T) <= 0
                     PROVE  Body([U \in SUBSET S |-> 0], f, T) = 0
          OBVIOUS
        <4>1. Cardinality(T) = 0
          BY <1>1
        <4>2. T = {}
          BY <1>1, <4>1, FS_EmptySet
        <4> QED
          BY <4>2 DEF Body
      <3> QED
        BY <2>2, <3>1
    <2>3. CASE n # 0
      <3>1. n \in Nat /\ n - 1 \in Nat /\ n - 1 \notin Bad
        BY <2>1, <2>3
      <3>2. PICK h : Upto(h, n - 1)
        BY <3>1
      <3> DEFINE k == [T \in SUBSET S |-> IF Cardinality(T) < n THEN h[T] ELSE Body(h, f, T)]
      <3>3. ASSUME NEW T \in SUBSET S, Cardinality(T) <= n
            PROVE  k[T] = Body(k, f, T)
        <4>1. Body(k, f, T) = Body(h, f, T)
          BY <1>1, <1>2, <3>1, <3>3 DEF Body
        <4>2. CASE Cardinality(T) < n
          BY <1>1, <3>1, <3>2, <4>1, <4>2
        <4>3. CASE ~(Cardinality(T) < n)
          BY <4>1, <4>3
        <4> QED
          BY <4>2, <4>3
      <3>4. Upto(k, n)
        BY <3>3
      <3> HIDE DEF k
      <3> QED
        BY <2>1, <3>4
    <2> QED
      BY <2>2, <2>3
  <1>4. PICK h : Upto(h, Cardinality(S))
    BY <1>1, <1>3
  <1>5. \A T \in SUBSET S : Cardinality(T) <= Cardinality(S)
    BY FS_Subset
  <1> DEFINE k == [T \in SUBSET S |-> h[T]]
  <1>6. \A T \in SUBSET S : k[T] = Body(k, f, T)
    BY <1>2, <1>4, <1>5 DEF Body
  <1>7. k = [T \in SUBSET S |-> Body(k, f, T)]
    BY <1>6
  <1> HIDE DEF k
  <1> QED
    BY <1>7 DEF Unfolds

\* Two of them agree where both are defined.
LEMMA UnfoldingsAgree ==
    ASSUME NEW f, NEW S, IsFiniteSet(S), NEW U \in SUBSET S, NEW h, NEW k,
           Unfolds(h, f, S), Unfolds(k, f, U)
    PROVE  \A T \in SUBSET U : h[T] = k[T]
  <1> DEFINE Good == {T \in SUBSET U : h[T] = k[T]}
  <1>1. \A T \in SUBSET U : h[T] = Body(h, f, T) /\ k[T] = Body(k, f, T)
    BY DEF Unfolds
  <1>2. ASSUME NEW T \in SUBSET U, \A V \in SUBSET T : V # T => V \in Good
        PROVE  T \in Good
    <2>1. CASE T = {}
      BY <1>1, <2>1 DEF Body
    <2>2. CASE T # {}
      <3>1. Pick(T) \in T
        BY <2>2 DEF Pick
      <3>2. h[T \ {Pick(T)}] = k[T \ {Pick(T)}]
        BY <1>2, <3>1
      <3> QED
        BY <1>1, <2>2, <3>2 DEF Body
    <2> QED
      BY <2>1, <2>2
  <1>3. IsFiniteSet(U)
    BY FS_Subset
  <1>4. \A T \in SUBSET U : T \in Good
    <2> HIDE DEF Good
    <2> QED
      BY <1>2, <1>3, SubsetInduction
  <1> QED
    BY <1>4

\* A sum is that of one element and of the others.
LEMMA SumEquation ==
    ASSUME NEW f, NEW S, IsFiniteSet(S)
    PROVE  SumOver(f, S) = IF S = {} THEN 0 ELSE f[Pick(S)] + SumOver(f, S \ {Pick(S)})
  <1> DEFINE h == CHOOSE g : Unfolds(g, f, S)
             U == S \ {Pick(S)}
             k == CHOOSE g : Unfolds(g, f, U)
  <1>1. Unfolds(h, f, S)
    BY UnfoldingExists
  <1>2. IsFiniteSet(U)
    BY FS_Subset
  <1>3. Unfolds(k, f, U)
    BY <1>2, UnfoldingExists
  <1>4. SumOver(f, S) = h[S] /\ SumOver(f, U) = k[U]
    BY SumUnfolded
  <1> HIDE DEF h, k
  <1>5. h[U] = k[U]
    BY <1>1, <1>3, UnfoldingsAgree
  <1>6. h[S] = Body(h, f, S)
    BY <1>1 DEF Unfolds
  <1> QED
    BY <1>4, <1>5, <1>6 DEF Body

\* Nothing adds up to nothing.
LEMMA SumEmpty == ASSUME NEW f PROVE SumOver(f, {}) = 0
  BY SumEquation, FS_EmptySet

\* Terms that are numbers have a sum that is one.
LEMMA SumType ==
    ASSUME NEW f, NEW S, IsFiniteSet(S), \A x \in S : f[x] \in Nat
    PROVE  SumOver(f, S) \in Nat
  <1> DEFINE Good == {T \in SUBSET S : SumOver(f, T) \in Nat}
  <1>1. ASSUME NEW T \in SUBSET S, \A U \in SUBSET T : U # T => U \in Good
        PROVE  T \in Good
    <2>1. IsFiniteSet(T)
      BY FS_Subset
    <2>2. SumOver(f, T) = IF T = {} THEN 0 ELSE f[Pick(T)] + SumOver(f, T \ {Pick(T)})
      BY <2>1, SumEquation, Zenon
    <2>3. CASE T = {}
      BY <2>2, <2>3
    <2>4. CASE T # {}
      <3>1. Pick(T) \in T
        BY <2>4 DEF Pick
      <3>2. f[Pick(T)] \in Nat /\ SumOver(f, T \ {Pick(T)}) \in Nat
        BY <1>1, <3>1
      <3> QED
        BY <2>2, <2>4, <3>2
    <2> QED
      BY <2>3, <2>4
  <1>2. \A T \in SUBSET S : T \in Good
    <2> HIDE DEF Good
    <2> QED
      BY <1>1, SubsetInduction
  <1> QED
    BY <1>2

\* Any element may be the first, as addition commutes.
LEMMA SumRemove ==
    ASSUME NEW f, NEW S, IsFiniteSet(S), \A x \in S : f[x] \in Nat, NEW a \in S
    PROVE  SumOver(f, S) = f[a] + SumOver(f, S \ {a})
  <1> DEFINE Good == {T \in SUBSET S :
                        \A x \in T : SumOver(f, T) = f[x] + SumOver(f, T \ {x})}
  <1>1. \A T \in SUBSET S : IsFiniteSet(T) /\ SumOver(f, T) \in Nat
    BY FS_Subset, SumType
  <1>2. ASSUME NEW T \in SUBSET S, \A U \in SUBSET T : U # T => U \in Good
        PROVE  T \in Good
    <2> SUFFICES ASSUME NEW x \in T
                 PROVE  SumOver(f, T) = f[x] + SumOver(f, T \ {x})
      OBVIOUS
    <2> DEFINE c == Pick(T)
    <2>1. c \in T
      BY DEF Pick
    <2>2. SumOver(f, T) = f[c] + SumOver(f, T \ {c})
      BY <1>1, SumEquation
    <2> HIDE DEF c
    <2>3. CASE x = c
      BY <2>2, <2>3
    <2>4. CASE x # c
      <3>1. T \ {c} \in Good /\ T \ {x} \in Good
        BY <1>2, <2>1
      <3>2. /\ SumOver(f, T \ {c}) = f[x] + SumOver(f, (T \ {c}) \ {x})
            /\ SumOver(f, T \ {x}) = f[c] + SumOver(f, (T \ {x}) \ {c})
        BY <2>1, <2>4, <3>1
      <3>3. (T \ {c}) \ {x} = (T \ {x}) \ {c}
        OBVIOUS
      <3>4. SumOver(f, (T \ {x}) \ {c}) \in Nat /\ f[x] \in Nat /\ f[c] \in Nat
        BY <1>1, <2>1
      <3> QED
        BY <2>2, <3>2, <3>3, <3>4
    <2> QED
      BY <2>3, <2>4
  <1>3. \A T \in SUBSET S : T \in Good
    <2> HIDE DEF Good
    <2> QED
      BY <1>2, SubsetInduction
  <1> QED
    BY <1>3

\* -------------------------- what sums keep needing -----------------------

\* One more term.
LEMMA SumAdd ==
    ASSUME NEW f, NEW S, IsFiniteSet(S), NEW a, a \notin S,
           \A x \in S \cup {a} : f[x] \in Nat
    PROVE  SumOver(f, S \cup {a}) = f[a] + SumOver(f, S)
  <1>1. IsFiniteSet(S \cup {a})
    BY FS_AddElement
  <1>2. (S \cup {a}) \ {a} = S
    OBVIOUS
  <1>3. SumOver(f, S \cup {a}) = f[a] + SumOver(f, (S \cup {a}) \ {a})
    BY <1>1, SumRemove
  <1> QED
    BY <1>2, <1>3

\* Terms that are less make a sum that is less.
LEMMA SumLess ==
    ASSUME NEW f, NEW g, NEW S, IsFiniteSet(S),
           \A x \in S : f[x] \in Nat /\ g[x] \in Nat /\ f[x] <= g[x]
    PROVE  SumOver(f, S) <= SumOver(g, S)
  <1> DEFINE Good == {T \in SUBSET S : SumOver(f, T) <= SumOver(g, T)}
  <1>1. {} \in Good
    BY SumEmpty
  <1>2. ASSUME NEW T \in SUBSET S, NEW x \in S, T \in Good, x \notin T
        PROVE  T \cup {x} \in Good
    <2>1. IsFiniteSet(T)
      BY FS_Subset
    <2>2. SumOver(f, T) \in Nat /\ SumOver(g, T) \in Nat
      BY <2>1, SumType
    <2>3. /\ SumOver(f, T \cup {x}) = f[x] + SumOver(f, T)
          /\ SumOver(g, T \cup {x}) = g[x] + SumOver(g, T)
      BY <1>2, <2>1, SumAdd
    <2> QED
      BY <1>2, <2>2, <2>3
  <1>3. S \in Good
    <2> HIDE DEF Good
    <2> QED
      BY <1>1, <1>2, SetInduction
  <1> QED
    BY <1>3

\* Equal terms make equal sums.
LEMMA SumAgree ==
    ASSUME NEW f, NEW g, NEW S, IsFiniteSet(S), \A x \in S : f[x] \in Nat /\ f[x] = g[x]
    PROVE  SumOver(f, S) = SumOver(g, S)
  <1>1. SumOver(f, S) \in Nat /\ SumOver(g, S) \in Nat
    BY SumType
  <1>2. SumOver(f, S) <= SumOver(g, S) /\ SumOver(g, S) <= SumOver(f, S)
    BY SumLess
  <1> QED
    BY <1>1, <1>2

\* The terms of a subset make no more than all of them, and as much if the others
\* are 0.
LEMMA SumSubset ==
    ASSUME NEW f, NEW S, IsFiniteSet(S), \A x \in S : f[x] \in Nat, NEW T \in SUBSET S
    PROVE  /\ SumOver(f, T) <= SumOver(f, S)
           /\ (\A x \in S \ T : f[x] = 0) => SumOver(f, T) = SumOver(f, S)
  <1> DEFINE Good == {U \in SUBSET (S \ T) :
                /\ SumOver(f, T) <= SumOver(f, T \cup U)
                /\ (\A x \in U : f[x] = 0) => SumOver(f, T) = SumOver(f, T \cup U)}
  <1>1. IsFiniteSet(S \ T) /\ \A U \in SUBSET S : IsFiniteSet(U)
    BY FS_Subset
  <1>2. SumOver(f, T) \in Nat
    BY <1>1, SumType
  <1>3. {} \in Good
    <2>1. T \cup {} = T
      OBVIOUS
    <2> QED
      BY <1>2, <2>1
  <1>4. ASSUME NEW U \in SUBSET (S \ T), NEW x \in S \ T, U \in Good, x \notin U
        PROVE  U \cup {x} \in Good
    <2>1. T \cup (U \cup {x}) = (T \cup U) \cup {x} /\ x \notin T \cup U /\ T \cup U \subseteq S
      BY <1>4
    <2>2. IsFiniteSet(T \cup U) /\ SumOver(f, T \cup U) \in Nat
      BY <1>1, <2>1, SumType
    <2>3. SumOver(f, (T \cup U) \cup {x}) = f[x] + SumOver(f, T \cup U)
      BY <2>1, <2>2, SumAdd
    <2>4. f[x] \in Nat
      OBVIOUS
    <2> QED
      BY <1>2, <1>4, <2>1, <2>2, <2>3, <2>4
  <1>5. S \ T \in Good
    <2> HIDE DEF Good
    <2> QED
      BY <1>1, <1>3, <1>4, SetInduction
  <1>6. T \cup (S \ T) = S
    OBVIOUS
  <1> QED
    BY <1>5, <1>6

\* Terms of at most n make a sum of at most n for each.
LEMMA SumBound ==
    ASSUME NEW f, NEW S, IsFiniteSet(S), NEW n \in Nat, \A x \in S : f[x] \in 0..n
    PROVE  SumOver(f, S) <= n * Cardinality(S)
  <1> DEFINE Good == {T \in SUBSET S : SumOver(f, T) <= n * Cardinality(T)}
  <1>1. {} \in Good
    BY SumEmpty, FS_EmptySet
  <1>2. ASSUME NEW T \in SUBSET S, NEW x \in S, T \in Good, x \notin T
        PROVE  T \cup {x} \in Good
    <2>1. IsFiniteSet(T)
      BY FS_Subset
    <2>2. SumOver(f, T) \in Nat /\ Cardinality(T) \in Nat
      BY <2>1, SumType, FS_CardinalityType
    <2>3. SumOver(f, T \cup {x}) = f[x] + SumOver(f, T)
      BY <1>2, <2>1, SumAdd
    <2>4. Cardinality(T \cup {x}) = Cardinality(T) + 1
      BY <1>2, <2>1, FS_AddElement
    <2>5. n * (Cardinality(T) + 1) = n * Cardinality(T) + n /\ n * Cardinality(T) \in Nat
      BY <2>2
    <2>6. SumOver(f, T) <= n * Cardinality(T) /\ f[x] \in 0..n
      BY <1>2
    <2>7. SumOver(f, T \cup {x}) <= n * Cardinality(T \cup {x})
      BY <2>2, <2>3, <2>4, <2>5, <2>6
    <2> QED
      BY <2>7
  <1>3. S \in Good
    <2> HIDE DEF Good
    <2> QED
      BY <1>1, <1>2, SetInduction
  <1> QED
    BY <1>3

\* A factor of all terms is one of the sum.
LEMMA SumScaled ==
    ASSUME NEW f, NEW g, NEW S, IsFiniteSet(S), NEW n \in Nat,
           \A x \in S : f[x] \in Nat /\ g[x] = f[x] * n
    PROVE  SumOver(g, S) = SumOver(f, S) * n
  <1> DEFINE Good == {T \in SUBSET S : SumOver(g, T) = SumOver(f, T) * n}
  <1>1. {} \in Good
    BY SumEmpty
  <1>2. ASSUME NEW T \in SUBSET S, NEW x \in S, T \in Good, x \notin T
        PROVE  T \cup {x} \in Good
    <2>1. IsFiniteSet(T)
      BY FS_Subset
    <2>2. \A y \in S : g[y] \in Nat
      OBVIOUS
    <2>3. SumOver(f, T) \in Nat
      BY <2>1, SumType
    <2>4. SumOver(f, T \cup {x}) = f[x] + SumOver(f, T)
      BY <1>2, <2>1, SumAdd
    <2>5. SumOver(g, T \cup {x}) = g[x] + SumOver(g, T)
      BY <1>2, <2>1, <2>2, SumAdd
    <2>6. (f[x] + SumOver(f, T)) * n = f[x] * n + SumOver(f, T) * n
      BY <2>3
    <2> QED
      BY <1>2, <2>4, <2>5, <2>6
  <1>3. S \in Good
    <2> HIDE DEF Good
    <2> QED
      BY <1>1, <1>2, SetInduction
  <1> QED
    BY <1>3

\* A sum whose terms differ in one only.
LEMMA SumChange ==
    ASSUME NEW f, NEW g, NEW S, IsFiniteSet(S), NEW a \in S, NEW n \in Nat,
           \A x \in S : f[x] \in Nat, g[a] = f[a] + n, \A x \in S \ {a} : g[x] = f[x]
    PROVE  SumOver(g, S) = SumOver(f, S) + n
  <1>1. IsFiniteSet(S \ {a})
    BY FS_Subset
  <1>2. SumOver(g, S \ {a}) = SumOver(f, S \ {a}) /\ SumOver(f, S \ {a}) \in Nat
    BY <1>1, SumAgree, SumType
  <1>3. \A x \in S : g[x] \in Nat
    OBVIOUS
  <1>4. /\ SumOver(f, S) = f[a] + SumOver(f, S \ {a})
        /\ SumOver(g, S) = g[a] + SumOver(g, S \ {a})
    BY <1>3, SumRemove
  <1> QED
    BY <1>2, <1>4

\* The sums of the terms of each class.
ClassSums(f, class, C, S) == [c \in C |-> SumOver(f, {x \in S : class[x] = c})]

\* Terms that are added up class by class make the same sum.
LEMMA SumByClass ==
    ASSUME NEW f, NEW class, NEW C, IsFiniteSet(C), NEW S, IsFiniteSet(S),
           \A x \in S : f[x] \in Nat /\ class[x] \in C
    PROVE  /\ SumOver(ClassSums(f, class, C, S), C) = SumOver(f, S)
           /\ \A c \in C : ClassSums(f, class, C, S)[c] \in Nat
  <1> DEFINE Sums(T) == ClassSums(f, class, C, T)
             Good == {T \in SUBSET S : SumOver(Sums(T), C) = SumOver(f, T)}
  <1>1. \A T \in SUBSET S : IsFiniteSet(T) /\ SumOver(f, T) \in Nat
    BY FS_Subset, SumType
  <1>2. ASSUME NEW T \in SUBSET S, NEW c \in C PROVE Sums(T)[c] \in Nat
    <2>1. {x \in T : class[x] = c} \in SUBSET S
      OBVIOUS
    <2> QED
      BY <1>1, <2>1 DEF ClassSums
  <1>3. {} \in Good
    <2>1. \A c \in C : {x \in {} : class[x] = c} = {}
      OBVIOUS
    <2>2. \A c \in C : Sums({})[c] \in 0..0
      BY <2>1, SumEmpty DEF ClassSums
    <2>3. SumOver(Sums({}), C) <= 0 * Cardinality(C) /\ SumOver(Sums({}), C) \in Nat
      <3> HIDE DEF Sums
      <3>1. \A c \in C : Sums({})[c] \in Nat
        BY <2>2
      <3> QED
        BY <2>2, <3>1, SumBound, SumType
    <2>4. Cardinality(C) \in Nat
      BY FS_CardinalityType
    <2> HIDE DEF Sums
    <2> QED
      BY <2>3, <2>4, SumEmpty
  <1>4. ASSUME NEW T \in SUBSET S, NEW a \in S, T \in Good, a \notin T
        PROVE  T \cup {a} \in Good
    <2> DEFINE Old == {x \in T : class[x] = class[a]}
    <2>1. {x \in T \cup {a} : class[x] = class[a]} = Old \cup {a} /\ a \notin Old /\ Old \in SUBSET S
      BY <1>4
    <2>2. SumOver(f, Old \cup {a}) = f[a] + SumOver(f, Old)
      BY <1>1, <2>1, SumAdd
    <2>3. Sums(T \cup {a})[class[a]] = Sums(T)[class[a]] + f[a]
      <3>1. class[a] \in C /\ f[a] \in Nat /\ SumOver(f, Old) \in Nat
        BY <1>1, <2>1
      <3>2. /\ Sums(T)[class[a]] = SumOver(f, Old)
            /\ Sums(T \cup {a})[class[a]] = SumOver(f, {x \in T \cup {a} : class[x] = class[a]})
        BY <3>1 DEF ClassSums
      <3>3. Sums(T \cup {a})[class[a]] = SumOver(f, Old \cup {a})
        BY <2>1, <3>2
      <3> HIDE DEF Sums, Old
      <3> QED
        BY <2>2, <3>1, <3>2, <3>3
    <2>4. ASSUME NEW c \in C \ {class[a]} PROVE Sums(T \cup {a})[c] = Sums(T)[c]
      <3>1. {x \in T \cup {a} : class[x] = c} = {x \in T : class[x] = c}
        OBVIOUS
      <3> QED
        BY <3>1 DEF ClassSums
    <2>5. SumOver(f, T \cup {a}) = f[a] + SumOver(f, T)
      BY <1>1, <1>4, SumAdd
    <2>6. SumOver(Sums(T \cup {a}), C) = SumOver(Sums(T), C) + f[a]
      <3>1. \A c \in C : Sums(T)[c] \in Nat
        BY <1>2
      <3>2. \A c \in C \ {class[a]} : Sums(T \cup {a})[c] = Sums(T)[c]
        BY <2>4
      <3>3. class[a] \in C /\ f[a] \in Nat
        OBVIOUS
      <3> DEFINE g == Sums(T)
                 h == Sums(T \cup {a})
      <3> HIDE DEF Sums, g, h
      <3>4. \A c \in C : g[c] \in Nat
        BY <3>1 DEF g
      <3>5. h[class[a]] = g[class[a]] + f[a] /\ \A c \in C \ {class[a]} : h[c] = g[c]
        BY <2>3, <3>2 DEF g, h
      <3>6. SumOver(h, C) = SumOver(g, C) + f[a]
        BY <3>3, <3>4, <3>5, SumChange
      <3> QED
        BY <3>6 DEF g, h
    <2>7. SumOver(f, T) \in Nat
      BY <1>1
    <2>8. SumOver(Sums(T), C) = SumOver(f, T)
      BY <1>4
    <2> HIDE DEF Sums
    <2> QED
      BY <2>5, <2>6, <2>7, <2>8
  <1>5. S \in Good
    <2> HIDE DEF Good
    <2> QED
      BY <1>3, <1>4, SetInduction
  <1> QED
    BY <1>2, <1>5
=============================================================================
