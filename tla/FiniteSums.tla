----------------------------- MODULE FiniteSums -----------------------------
(***************************************************************************)
(* Facts about sums over finite sets, as MapThenSumSet of the community    *)
(* modules computes them. MapThenSumSet folds with a recursive function    *)
(* over the subsets of its argument; the inductions below are over finite  *)
(* sets ordered by inclusion, with a smallest counterexample in place of   *)
(* an induction rule.                                                      *)
(***************************************************************************)
EXTENDS FiniteSetsExt, FiniteSetTheorems, WellFoundedInduction, TLAPS

\* the sum of w[x] over all x in S
Total(w, S) == MapThenSumSet(LAMBDA x : w[x], S)

-----------------------------------------------------------------------------
(* The recursion *)

Pick(T) == CHOOSE x \in T : TRUE
SumStep(w, g, T) == IF T = {} THEN 0 ELSE w[Pick(T)] + g[T \ {Pick(T)}]
IsSumTable(g, w, D) == g = [T \in D |-> SumStep(w, g, T)]

(* A property that fails for some subset of a finite set fails for one     *)
(* whose smaller subsets all have it.                                      *)
LEMMA SmallestSubset ==
  ASSUME NEW S, IsFiniteSet(S), NEW X, X \subseteq SUBSET S, X # {}
  PROVE  \E T \in X : \A U \in X : ~(U \subseteq T /\ U # T)
<1>1. X \subseteq FiniteSubsetsOf(S)
  BY FS_Subset DEF FiniteSubsetsOf
<1>2. IsWellFoundedOn(StrictSubsetOrdering(S), FiniteSubsetsOf(S))
  BY FS_StrictSubsetOrderingWellFounded
<1>3. PICK T \in X : \A U \in X : ~(<<U, T>> \in StrictSubsetOrdering(S))
  BY <1>1, <1>2, WFMin
<1> QED BY <1>3 DEF StrictSubsetOrdering

(* A sum is read off the table of its recursion.                           *)
LEMMA TotalIsChosen ==
  ASSUME NEW w, NEW S
  PROVE  Total(w, S) = (CHOOSE g : IsSumTable(g, w, SUBSET S))[S]
BY DEF Total, MapThenSumSet, MapThenFoldSet, IsSumTable, SumStep, Pick

(* The recursion has a solution: tables for the sets of at most n elements *)
(* are extended to those of n + 1.                                         *)
LEMMA SumTableExists ==
  ASSUME NEW w, NEW S, IsFiniteSet(S)
  PROVE  \E g : IsSumTable(g, w, SUBSET S)
<1> DEFINE UpTo(T) == {U \in SUBSET S : Cardinality(U) <= Cardinality(T)}
           X == {T \in SUBSET S : ~ \E g : IsSumTable(g, w, UpTo(T))}
<1>s. \A U \in SUBSET S : IsFiniteSet(U) /\ Cardinality(U) \in Nat
  BY FS_Subset, FS_CardinalityType
<1>1. SUFFICES X = {}
  <2>1. UpTo(S) = SUBSET S
    BY FS_Subset
  <2> QED BY <1>1, <2>1
<1>2. SUFFICES ASSUME NEW T \in X, \A U \in X : ~(U \subseteq T /\ U # T)
               PROVE  FALSE
  <2>1. X \subseteq SUBSET S
    OBVIOUS
  <2> HIDE DEF X
  <2> QED BY <1>1, <2>1, SmallestSubset
<1>3. CASE T = {}
  <2>1. UpTo(T) = {{}}
    BY <1>3, <1>s, FS_EmptySet
  <2>2. IsSumTable([U \in {{}} |-> 0], w, {{}})
    BY DEF IsSumTable, SumStep
  <2> QED BY <2>1, <2>2, <1>2
<1>4. CASE T # {}
  <2>1. PICK x \in T : TRUE
    BY <1>4
  <2>2. T \ {x} \in SUBSET S /\ T \ {x} \notin X
    BY <2>1, <1>2
  <2>3. PICK g : IsSumTable(g, w, UpTo(T \ {x}))
    BY <2>2
  <2>4. Cardinality(T \ {x}) = Cardinality(T) - 1
    BY <2>1, <1>s, FS_RemoveElement
  <2> DEFINE h == [U \in UpTo(T) |-> SumStep(w, g, U)]
  <2>5. ASSUME NEW U \in UpTo(T) PROVE SumStep(w, g, U) = SumStep(w, h, U)
    <3>1. CASE U = {}
      BY <3>1 DEF SumStep
    <3>2. CASE U # {}
      <4>1. Pick(U) \in U
        BY <3>2 DEF Pick
      <4>2. Cardinality(U \ {Pick(U)}) = Cardinality(U) - 1
        BY <4>1, <1>s, FS_RemoveElement
      <4>3. U \ {Pick(U)} \in UpTo(T \ {x}) /\ U \ {Pick(U)} \in UpTo(T)
        BY <4>2, <2>4, <1>s
      <4>4. g[U \ {Pick(U)}] = h[U \ {Pick(U)}]
        BY <4>3, <2>3 DEF IsSumTable
      <4> QED BY <4>4 DEF SumStep
    <3> QED BY <3>1, <3>2
  <2>6. IsSumTable(h, w, UpTo(T))
    BY <2>5 DEF IsSumTable
  <2> QED BY <2>6, <1>2
<1> QED BY <1>3, <1>4

(* Tables of two sets agree on what both have, if their summands do.       *)
LEMMA SumTablesAgree ==
  ASSUME NEW S, IsFiniteSet(S), NEW T, IsFiniteSet(T),
         NEW U, U \subseteq S, U \subseteq T,
         NEW g, NEW h, NEW v, NEW w,
         IsSumTable(g, v, SUBSET S), IsSumTable(h, w, SUBSET T),
         \A x \in U : v[x] = w[x]
  PROVE  g[U] = h[U]
<1> DEFINE X == {V \in SUBSET U : g[V] # h[V]}
<1>1. SUFFICES ASSUME X # {} PROVE FALSE
  OBVIOUS
<1>2. PICK V \in X : \A W \in X : ~(W \subseteq V /\ W # V)
  <2>1. IsFiniteSet(U) /\ X \subseteq SUBSET U
    BY FS_Subset
  <2> HIDE DEF X
  <2> QED BY <1>1, <2>1, SmallestSubset
<1>3. g[V] = SumStep(v, g, V) /\ h[V] = SumStep(w, h, V)
  BY DEF IsSumTable
<1>4. V # {}
  BY <1>2, <1>3 DEF SumStep
<1>5. Pick(V) \in V
  BY <1>4 DEF Pick
<1>6. g[V \ {Pick(V)}] = h[V \ {Pick(V)}]
  BY <1>2, <1>5
<1> QED BY <1>2, <1>3, <1>4, <1>5, <1>6 DEF SumStep

-----------------------------------------------------------------------------
(* Sums *)

(* Any table of the recursion holds the sum; this is how a sum written     *)
(* with another LAMBDA is recognised as a Total.                           *)
LEMMA TableHoldsTotal ==
  ASSUME NEW S, IsFiniteSet(S), NEW w, NEW g, IsSumTable(g, w, SUBSET S)
  PROVE  g[S] = Total(w, S)
<1> DEFINE h == CHOOSE h : IsSumTable(h, w, SUBSET S)
<1>1. IsSumTable(h, w, SUBSET S)
  BY SumTableExists
<1>2. g[S] = h[S]
  <2> HIDE DEF h
  <2> QED BY <1>1, SumTablesAgree
<1> QED BY <1>2, TotalIsChosen

(* A sum takes out the element its recursion picks.                        *)
LEMMA TotalBySteps ==
  ASSUME NEW w, NEW S, IsFiniteSet(S), S # {}
  PROVE  Total(w, S) = w[Pick(S)] + Total(w, S \ {Pick(S)}) /\ Pick(S) \in S
<1> DEFINE R == S \ {Pick(S)}
           g == CHOOSE g : IsSumTable(g, w, SUBSET S)
           h == CHOOSE h : IsSumTable(h, w, SUBSET R)
<1>1. IsFiniteSet(R)
  BY FS_Subset
<1>2. IsSumTable(g, w, SUBSET S) /\ IsSumTable(h, w, SUBSET R)
  BY <1>1, SumTableExists
<1>3. g[R] = h[R]
  <2>1. R \subseteq S /\ R \subseteq R /\ \A x \in R : w[x] = w[x]
    OBVIOUS
  <2> HIDE DEF R, g, h
  <2> QED BY <1>1, <1>2, <2>1, SumTablesAgree
<1>4. g[S] = w[Pick(S)] + g[R]
  BY <1>2 DEF IsSumTable, SumStep
<1>5. Total(w, S) = g[S] /\ Total(w, R) = h[R]
  BY TotalIsChosen
<1>6. Pick(S) \in S
  BY DEF Pick
<1> QED BY <1>3, <1>4, <1>5, <1>6

(* Nothing sums to 0.                                                      *)
LEMMA TotalOfNone ==
  ASSUME NEW w
  PROVE  Total(w, {}) = 0
<1>1. \E g : IsSumTable(g, w, SUBSET {})
  BY SumTableExists, FS_EmptySet
<1> QED BY <1>1, TotalIsChosen DEF IsSumTable, SumStep

(* A sum depends on its summands only.                                     *)
LEMMA TotalAgrees ==
  ASSUME NEW S, IsFiniteSet(S), NEW v, NEW w, \A x \in S : v[x] = w[x]
  PROVE  Total(v, S) = Total(w, S)
<1> DEFINE g == CHOOSE g : IsSumTable(g, v, SUBSET S)
           h == CHOOSE h : IsSumTable(h, w, SUBSET S)
<1>1. IsSumTable(g, v, SUBSET S) /\ IsSumTable(h, w, SUBSET S)
  BY SumTableExists
<1>2. g[S] = h[S]
  <2> HIDE DEF g, h
  <2> QED BY <1>1, SumTablesAgree
<1> QED BY <1>2, TotalIsChosen

(* Natural numbers sum to one.                                             *)
LEMMA TotalIsNat ==
  ASSUME NEW S, IsFiniteSet(S), NEW w, \A x \in S : w[x] \in Nat
  PROVE  Total(w, S) \in Nat
<1> DEFINE X == {T \in SUBSET S : Total(w, T) \notin Nat}
<1>1. SUFFICES ASSUME X # {} PROVE FALSE
  OBVIOUS
<1>2. PICK T \in X : \A U \in X : ~(U \subseteq T /\ U # T)
  <2>1. X \subseteq SUBSET S
    OBVIOUS
  <2> HIDE DEF X
  <2> QED BY <1>1, <2>1, SmallestSubset
<1>3. T # {}
  BY TotalOfNone
<1>4. Total(w, T) = w[Pick(T)] + Total(w, T \ {Pick(T)}) /\ Pick(T) \in T
  BY <1>3, FS_Subset, TotalBySteps
<1>5. Total(w, T \ {Pick(T)}) \in Nat
  BY <1>2, <1>4
<1> QED BY <1>4, <1>5

(* Zeros sum to 0.                                                         *)
LEMMA TotalOfZeros ==
  ASSUME NEW S, IsFiniteSet(S), NEW w, \A x \in S : w[x] = 0
  PROVE  Total(w, S) = 0
<1> DEFINE X == {T \in SUBSET S : Total(w, T) # 0}
<1>1. SUFFICES ASSUME X # {} PROVE FALSE
  OBVIOUS
<1>2. PICK T \in X : \A U \in X : ~(U \subseteq T /\ U # T)
  <2>1. X \subseteq SUBSET S
    OBVIOUS
  <2> HIDE DEF X
  <2> QED BY <1>1, <2>1, SmallestSubset
<1>3. T # {}
  BY TotalOfNone
<1>4. Total(w, T) = w[Pick(T)] + Total(w, T \ {Pick(T)}) /\ Pick(T) \in T
  BY <1>3, FS_Subset, TotalBySteps
<1>5. Total(w, T \ {Pick(T)}) = 0
  BY <1>2, <1>4
<1> QED BY <1>4, <1>5

(* Whichever element is taken out, the sum is what it was: the choice made *)
(* by the recursion does not matter.                                       *)
LEMMA TotalWithout ==
  ASSUME NEW S, IsFiniteSet(S), NEW w, \A x \in S : w[x] \in Nat, NEW y \in S
  PROVE  Total(w, S) = w[y] + Total(w, S \ {y})
<1> DEFINE X == {T \in SUBSET S : \E x \in T : Total(w, T) # w[x] + Total(w, T \ {x})}
<1>1. SUFFICES ASSUME X # {} PROVE FALSE
  OBVIOUS
<1>2. PICK T \in X : \A U \in X : ~(U \subseteq T /\ U # T)
  <2>1. X \subseteq SUBSET S
    OBVIOUS
  <2> HIDE DEF X
  <2> QED BY <1>1, <2>1, SmallestSubset
<1>3. PICK x \in T : Total(w, T) # w[x] + Total(w, T \ {x})
  OBVIOUS
<1>i. \A U \in SUBSET S : IsFiniteSet(U) /\ Total(w, U) \in Nat
  BY FS_Subset, TotalIsNat
<1> DEFINE c == Pick(T)
<1>4. Total(w, T) = w[c] + Total(w, T \ {c}) /\ c \in T
  BY <1>i, <1>3, TotalBySteps
<1>5. x # c
  BY <1>3, <1>4
<1>6. Total(w, T \ {c}) = w[x] + Total(w, (T \ {c}) \ {x})
  BY <1>2, <1>4, <1>5
<1>7. Total(w, T \ {x}) = w[c] + Total(w, (T \ {x}) \ {c})
  BY <1>2, <1>4, <1>5
<1>8. (T \ {c}) \ {x} = (T \ {x}) \ {c}
  OBVIOUS
<1>9. w[x] \in Nat /\ w[c] \in Nat /\ Total(w, (T \ {x}) \ {c}) \in Nat
  BY <1>4, <1>i
<1> HIDE DEF c
<1>10. Total(w, T) = w[c] + (w[x] + Total(w, (T \ {x}) \ {c}))
  BY <1>4, <1>6, <1>8
<1>11. w[x] + Total(w, T \ {x}) = w[x] + (w[c] + Total(w, (T \ {x}) \ {c}))
  BY <1>7
<1> QED BY <1>3, <1>9, <1>10, <1>11

(* A set of one number sums to that number.                                *)
LEMMA SumSetOfOne ==
  ASSUME NEW n \in Nat
  PROVE  SumSet({n}) = n
<1> DEFINE v == [x \in {n} |-> x]
           Body(g) == [T \in SUBSET {n} |->
                         IF T = {} THEN 0
                         ELSE (CHOOSE x \in T : TRUE) + g[T \ {CHOOSE x \in T : TRUE}]]
           t == CHOOSE g : g = Body(g)
<1>1. SumSet({n}) = t[{n}]
  BY DEF SumSet, FoldSet, MapThenFoldSet
<1>2. ASSUME NEW g PROVE g = Body(g) <=> IsSumTable(g, v, SUBSET {n})
  <2>1. ASSUME NEW T \in SUBSET {n} PROVE Body(g)[T] = SumStep(v, g, T)
    BY DEF SumStep, Pick
  <2> QED BY <2>1 DEF IsSumTable
<1>3. IsFiniteSet({n})
  BY FS_Singleton
<1>4. IsSumTable(t, v, SUBSET {n})
  <2>1. PICK g : IsSumTable(g, v, SUBSET {n})
    BY <1>3, SumTableExists
  <2>2. g = Body(g)
    BY <1>2, <2>1
  <2>3. t = Body(t)
    BY <2>2
  <2> HIDE DEF t, Body
  <2> QED BY <1>2, <2>3
<1>5. SumSet({n}) = Total(v, {n})
  <2> HIDE DEF t, v
  <2> QED BY <1>1, <1>3, <1>4, TableHoldsTotal
<1>6. Total(v, {n}) = v[n] + Total(v, {n} \ {n})
  BY <1>3, TotalWithout
<1>7. {n} \ {n} = {}
  OBVIOUS
<1> QED BY <1>5, <1>6, <1>7, TotalOfNone

(* One more element adds its summand.                                      *)
LEMMA TotalWith ==
  ASSUME NEW S, IsFiniteSet(S), NEW y, y \notin S,
         NEW w, \A x \in S \cup {y} : w[x] \in Nat
  PROVE  Total(w, S \cup {y}) = Total(w, S) + w[y]
<1>1. IsFiniteSet(S \cup {y}) /\ (S \cup {y}) \ {y} = S
  BY FS_AddElement
<1>2. Total(w, S \cup {y}) = w[y] + Total(w, S)
  BY <1>1, TotalWithout
<1>3. Total(w, S) \in Nat
  BY TotalIsNat
<1> QED BY <1>2, <1>3

(* When one summand changes, the sum changes by as much.                   *)
LEMMA TotalChanged ==
  ASSUME NEW S, IsFiniteSet(S), NEW y \in S, NEW v, NEW w,
         \A x \in S : v[x] \in Nat /\ w[x] \in Nat,
         \A x \in S \ {y} : v[x] = w[x]
  PROVE  Total(v, S) + w[y] = Total(w, S) + v[y]
<1>1. IsFiniteSet(S \ {y})
  BY FS_RemoveElement
<1>2. Total(v, S \ {y}) = Total(w, S \ {y}) /\ Total(v, S \ {y}) \in Nat
  BY <1>1, TotalAgrees, TotalIsNat
<1>3. /\ Total(v, S) = v[y] + Total(v, S \ {y})
      /\ Total(w, S) = w[y] + Total(w, S \ {y})
  BY TotalWithout
<1> QED BY <1>2, <1>3

(* Smaller summands over fewer elements sum to less.                       *)
LEMMA TotalGrows ==
  ASSUME NEW S, IsFiniteSet(S), NEW T \in SUBSET S, NEW v, NEW w,
         \A x \in T : v[x] \in Nat, \A x \in S : w[x] \in Nat,
         \A x \in T : v[x] <= w[x]
  PROVE  Total(v, T) <= Total(w, S)
<1> DEFINE X == {U \in SUBSET S : Total(v, U \cap T) > Total(w, U)}
<1>1. SUFFICES ASSUME X # {} PROVE FALSE
  <2>1. IsFiniteSet(T) /\ S \cap T = T
    BY FS_Subset
  <2>2. Total(v, T) \in Nat /\ Total(w, S) \in Nat
    BY <2>1, TotalIsNat
  <2> QED BY <1>1, <2>1, <2>2
<1>2. PICK U \in X : \A W \in X : ~(W \subseteq U /\ W # U)
  <2>1. X \subseteq SUBSET S
    OBVIOUS
  <2> HIDE DEF X
  <2> QED BY <1>1, <2>1, SmallestSubset
<1>i. \A W \in SUBSET S : /\ IsFiniteSet(W) /\ IsFiniteSet(W \cap T)
                          /\ Total(w, W) \in Nat /\ Total(v, W \cap T) \in Nat
  <2> SUFFICES ASSUME NEW W \in SUBSET S
               PROVE  /\ IsFiniteSet(W) /\ IsFiniteSet(W \cap T)
                      /\ Total(w, W) \in Nat /\ Total(v, W \cap T) \in Nat
    OBVIOUS
  <2>1. IsFiniteSet(W) /\ IsFiniteSet(W \cap T)
    BY FS_Subset
  <2> QED BY <2>1, TotalIsNat
<1>3. U # {}
  BY TotalOfNone
<1>4. PICK y \in U : TRUE
  BY <1>3
<1>5. Total(w, U) = w[y] + Total(w, U \ {y})
  BY <1>i, TotalWithout
<1>6. Total(v, (U \ {y}) \cap T) <= Total(w, U \ {y})
  <2>1. U \ {y} \in SUBSET S /\ U \ {y} \notin X
    BY <1>2
  <2>2. ~(Total(v, (U \ {y}) \cap T) > Total(w, U \ {y}))
    BY <2>1
  <2>3. Total(v, (U \ {y}) \cap T) \in Nat /\ Total(w, U \ {y}) \in Nat
    BY <1>i, <2>1
  <2> QED BY <2>2, <2>3
<1>n. /\ Total(v, U \cap T) > Total(w, U)
      /\ Total(v, U \cap T) \in Nat /\ Total(w, U \ {y}) \in Nat
      /\ w[y] \in Nat
  BY <1>i
<1>7. CASE y \in T
  <2>1. Total(v, U \cap T) = v[y] + Total(v, (U \cap T) \ {y})
    BY <1>i, <1>7, TotalWithout
  <2>2. (U \cap T) \ {y} = (U \ {y}) \cap T
    OBVIOUS
  <2>3. v[y] \in Nat /\ v[y] <= w[y] /\ Total(v, (U \ {y}) \cap T) \in Nat
    BY <1>7, <1>i
  <2> HIDE DEF X
  <2> QED BY <1>n, <1>5, <1>6, <2>1, <2>2, <2>3
<1>8. CASE y \notin T
  <2>1. (U \ {y}) \cap T = U \cap T
    BY <1>8
  <2>2. Total(v, U \cap T) <= Total(w, U \ {y})
    BY <1>6, <2>1
  <2> HIDE DEF X
  <2> QED BY <1>n, <1>5, <2>2
<1> QED BY <1>7, <1>8
(* A sum over a set is the sum over a part of it and over the rest.        *)
LEMMA TotalSplit ==
  ASSUME NEW S, IsFiniteSet(S), NEW T \in SUBSET S, NEW w, \A x \in S : w[x] \in Nat
  PROVE  Total(w, S) = Total(w, T) + Total(w, S \ T)
<1> DEFINE X == {U \in SUBSET S : Total(w, U) # Total(w, U \cap T) + Total(w, U \ T)}
<1>1. SUFFICES ASSUME X # {} PROVE FALSE
  <2>1. S \cap T = T
    OBVIOUS
  <2> QED BY <1>1, <2>1
<1>2. PICK U \in X : \A W \in X : ~(W \subseteq U /\ W # U)
  <2>1. X \subseteq SUBSET S
    OBVIOUS
  <2> HIDE DEF X
  <2> QED BY <1>1, <2>1, SmallestSubset
<1>i. \A W \in SUBSET S : IsFiniteSet(W) /\ Total(w, W) \in Nat
  <2> SUFFICES ASSUME NEW W \in SUBSET S PROVE IsFiniteSet(W) /\ Total(w, W) \in Nat
    OBVIOUS
  <2>1. IsFiniteSet(W)
    BY FS_Subset
  <2> QED BY <2>1, TotalIsNat
<1>3. U # {}
  <2>1. {} \cap T = {} /\ {} \ T = {}
    OBVIOUS
  <2>2. Total(w, {}) = 0
    BY TotalOfNone
  <2>3. {} \notin X
    BY <2>1, <2>2
  <2> HIDE DEF X
  <2> QED BY <2>3
<1>4. PICK y \in U : TRUE
  BY <1>3
<1> DEFINE V == U \ {y}
<1>5. Total(w, U) = w[y] + Total(w, V)
  BY <1>i, TotalWithout
<1>6. Total(w, V) = Total(w, V \cap T) + Total(w, V \ T)
  BY <1>2
<1>n. /\ Total(w, U) # Total(w, U \cap T) + Total(w, U \ T)
      /\ Total(w, V \cap T) \in Nat /\ Total(w, V \ T) \in Nat /\ w[y] \in Nat
  BY <1>i
<1>7. CASE y \in T
  <2>1. Total(w, U \cap T) = w[y] + Total(w, (U \cap T) \ {y})
    BY <1>i, <1>7, TotalWithout
  <2>2. (U \cap T) \ {y} = V \cap T /\ U \ T = V \ T
    BY <1>7
  <2>3. Total(w, U \cap T) = w[y] + Total(w, V \cap T) /\ Total(w, U \ T) = Total(w, V \ T)
    BY <2>1, <2>2
  <2> HIDE DEF X, V
  <2> QED BY <1>n, <1>5, <1>6, <2>3
<1>8. CASE y \notin T
  <2>1. Total(w, U \ T) = w[y] + Total(w, (U \ T) \ {y})
    BY <1>i, <1>8, TotalWithout
  <2>2. (U \ T) \ {y} = V \ T /\ U \cap T = V \cap T
    BY <1>8
  <2>3. Total(w, U \ T) = w[y] + Total(w, V \ T) /\ Total(w, U \cap T) = Total(w, V \cap T)
    BY <2>1, <2>2
  <2> HIDE DEF X, V
  <2> QED BY <1>n, <1>5, <1>6, <2>3
<1> QED BY <1>7, <1>8
=============================================================================
