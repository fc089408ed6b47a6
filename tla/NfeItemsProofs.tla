---------------------------- MODULE NfeItemsProofs ----------------------------
(***************************************************************************)
(* Proofs about the items of the drafts of a DUIMP, for any items,         *)
(* exporters, rules, values and number of edits.                           *)
(***************************************************************************)
EXTENDS NfeItems, OrderLemmas, FiniteSetTheorems, WellFoundedInduction, TLAPS

---------------------------------------------------------------------------
(* Sums over finite sets *)

\* The element a sum takes first.
Pick(s) == CHOOSE x \in s : TRUE

\* The recursion of a sum.
Adds(g, S, f) ==
  g = [s \in SUBSET S |-> IF s = {} THEN 0 ELSE f[Pick(s)] + g[s \ {Pick(s)}]]

LEMMA SumIsChosen ==
  ASSUME NEW S, NEW f
  PROVE  SumOver(S, f) = (CHOOSE g : Adds(g, S, f))[S]
BY DEF SumOver, MapThenSumSet, MapThenFoldSet, Adds, Pick

LEMMA PickIsIn == ASSUME NEW s, s # {} PROVE Pick(s) \in s
BY DEF Pick

\* What holds of a set when it holds of its smaller subsets holds of all the
\* subsets of a finite set.
LEMMA SubsetInduction ==
  ASSUME NEW S, IsFiniteSet(S), NEW P,
         \A T \in SUBSET S : (\A U \in SUBSET T : U # T => U \in P) => T \in P
  PROVE  \A T \in SUBSET S : T \in P
<1> DEFINE Bad == {T \in SUBSET S : T \notin P}
           R == StrictSubsetOrdering(S)
<1>1. SUFFICES ASSUME Bad # {} PROVE FALSE
  OBVIOUS
<1>2. IsWellFoundedOn(R, SUBSET S)
  BY FS_StrictSubsetOrderingWellFounded, FS_FiniteSubsetsOfFinite
<1>3. PICK T \in Bad : \A U \in Bad : ~(<<U, T>> \in R)
  <2> HIDE DEF R, Bad
  <2>1. Bad \subseteq SUBSET S
    BY DEF Bad
  <2> QED BY <1>1, <1>2, <2>1, WFMin
<1>4. \A U \in SUBSET T : U # T => U \in P
  <2> SUFFICES ASSUME NEW U \in SUBSET T, U # T, U \notin P PROVE FALSE
    OBVIOUS
  <2>1. U \in Bad /\ T \in SUBSET S
    OBVIOUS
  <2>2. <<U, T>> \in R
    BY <2>1 DEF StrictSubsetOrdering
  <2> QED BY <1>3, <2>1, <2>2
<1> QED BY <1>4

\* Two recursions agree where both are defined.
LEMMA AddsAgree ==
  ASSUME NEW S, IsFiniteSet(S), NEW f, NEW A \in SUBSET S, NEW B \in SUBSET S,
         NEW g, Adds(g, A, f), NEW h, Adds(h, B, f)
  PROVE  \A T \in SUBSET (A \cap B) : g[T] = h[T]
<1> DEFINE P == {T \in SUBSET (A \cap B) : g[T] = h[T]}
<1>1. IsFiniteSet(A \cap B)
  BY FS_Subset
<1>2. ASSUME NEW T \in SUBSET (A \cap B), \A U \in SUBSET T : U # T => U \in P
      PROVE  T \in P
  <2>1. T \in SUBSET A /\ T \in SUBSET B
    OBVIOUS
  <2>2. CASE T = {}
    BY <2>1, <2>2 DEF Adds
  <2>3. CASE T # {}
    <3>1. Pick(T) \in T
      BY <2>3, PickIsIn
    <3>2. T \ {Pick(T)} \in P
      BY <1>2, <3>1
    <3>3. /\ g[T] = f[Pick(T)] + g[T \ {Pick(T)}]
          /\ h[T] = f[Pick(T)] + h[T \ {Pick(T)}]
      BY <2>1, <2>3 DEF Adds
    <3> QED BY <3>2, <3>3
  <2> QED BY <2>2, <2>3
<1>3. \A T \in SUBSET (A \cap B) : T \in P
  <2> HIDE DEF P
  <2> QED BY <1>1, <1>2, SubsetInduction
<1> QED BY <1>3

\* The recursion has a solution on a finite set.
LEMMA AddsExists ==
  ASSUME NEW S, IsFiniteSet(S), NEW f
  PROVE  \A T \in SUBSET S : \E g : Adds(g, T, f)
<1> DEFINE P == {T \in SUBSET S : \E g : Adds(g, T, f)}
           Sol(T) == CHOOSE g : Adds(g, T, f)
<1>1. ASSUME NEW T \in SUBSET S, \A U \in SUBSET T : U # T => U \in P
      PROVE  T \in P
  <2> DEFINE g == [s \in SUBSET T |->
                     IF s = {} THEN 0
                     ELSE f[Pick(s)] + Sol(s \ {Pick(s)})[s \ {Pick(s)}]]
  <2>1. ASSUME NEW s \in SUBSET T, s # {}
        PROVE  g[s \ {Pick(s)}] = Sol(s \ {Pick(s)})[s \ {Pick(s)}]
    <3> DEFINE u == s \ {Pick(s)}
               v == u \ {Pick(u)}
    <3>1. Pick(s) \in s /\ u \in SUBSET T /\ u # T
      BY <2>1, PickIsIn
    <3>2. Adds(Sol(u), u, f)
      BY <1>1, <3>1
    <3>3. CASE u = {}
      <4>1. Sol(u)[u] = 0
        BY <3>2, <3>3 DEF Adds
      <4>2. g[u] = 0
        BY <3>1, <3>3
      <4> QED BY <4>1, <4>2
    <3>4. CASE u # {}
      <4>1. Pick(u) \in u /\ v \in SUBSET T /\ v # T /\ v \in SUBSET u
        BY <3>1, <3>4, PickIsIn
      <4>2. Adds(Sol(v), v, f)
        BY <1>1, <4>1
      <4>3. Sol(u)[v] = Sol(v)[v]
        <5>1. u \in SUBSET S /\ v \in SUBSET S /\ v \in SUBSET (u \cap v)
          BY <3>1, <4>1
        <5> HIDE DEF u, v, Sol
        <5> QED BY <3>2, <4>2, <5>1, AddsAgree
      <4>4. Sol(u)[u] = f[Pick(u)] + Sol(u)[v]
        <5> HIDE DEF Sol, u
        <5> QED BY <3>2, <3>4 DEF Adds
      <4>5. g[u] = f[Pick(u)] + Sol(v)[v]
        <5> HIDE DEF Sol
        <5> QED BY <3>1, <3>4
      <4>6. g[u] = Sol(u)[u]
        <5> HIDE DEF u, v, Sol, g
        <5> QED BY <4>3, <4>4, <4>5
      <4> QED BY <4>6
    <3> HIDE DEF Sol, g
    <3> QED BY <3>3, <3>4
  <2>2. g = [s \in SUBSET T |->
               IF s = {} THEN 0 ELSE f[Pick(s)] + g[s \ {Pick(s)}]]
    <3> HIDE DEF Sol
    <3>1. ASSUME NEW s \in SUBSET T
          PROVE  g[s] = IF s = {} THEN 0 ELSE f[Pick(s)] + g[s \ {Pick(s)}]
      <4>1. g[s] = IF s = {} THEN 0
                   ELSE f[Pick(s)] + Sol(s \ {Pick(s)})[s \ {Pick(s)}]
        OBVIOUS
      <4> HIDE DEF g
      <4> QED BY <2>1, <4>1
    <3>2. g = [s \in SUBSET T |-> g[s]]
      OBVIOUS
    <3> HIDE DEF g
    <3> QED BY <3>1, <3>2
  <2>3. Adds(g, T, f)
    <3> HIDE DEF g
    <3> QED BY <2>2 DEF Adds
  <2> QED BY <2>3
<1>2. \A T \in SUBSET S : T \in P
  <2> HIDE DEF P
  <2> QED BY <1>1, SubsetInduction
<1> QED BY <1>2

\* The sum over a finite set: nothing for the empty one, or one element and the
\* sum of the rest.
LEMMA SumUnfold ==
  ASSUME NEW S, IsFiniteSet(S), NEW f
  PROVE  SumOver(S, f) = IF S = {} THEN 0
                         ELSE f[Pick(S)] + SumOver(S \ {Pick(S)}, f)
<1> DEFINE Sol(T) == CHOOSE g : Adds(g, T, f)
           U == S \ {Pick(S)}
<1>1. Adds(Sol(S), S, f) /\ Adds(Sol(U), U, f)
  BY AddsExists
<1>2. Sol(S)[S] = IF S = {} THEN 0 ELSE f[Pick(S)] + Sol(S)[U]
  <2> HIDE DEF Sol
  <2> QED BY <1>1 DEF Adds
<1>3. Sol(S)[U] = Sol(U)[U]
  <2>1. U \in SUBSET S /\ U \in SUBSET (S \cap U)
    OBVIOUS
  <2> HIDE DEF Sol, U
  <2> QED BY <1>1, <2>1, AddsAgree
<1>4. SumOver(S, f) = Sol(S)[S] /\ SumOver(U, f) = Sol(U)[U]
  BY SumIsChosen
<1> HIDE DEF Sol
<1> QED BY <1>2, <1>3, <1>4

\* A sum of integers is an integer, whatever subset it is taken over.
LEMMA SumType ==
  ASSUME NEW S, IsFiniteSet(S), NEW f, \A i \in S : f[i] \in Int
  PROVE  \A T \in SUBSET S : SumOver(T, f) \in Int
<1> DEFINE P == {T \in SUBSET S : SumOver(T, f) \in Int}
<1>1. ASSUME NEW T \in SUBSET S, \A U \in SUBSET T : U # T => U \in P
      PROVE  T \in P
  <2>1. IsFiniteSet(T)
    BY FS_Subset
  <2>2. SumOver(T, f) = IF T = {} THEN 0 ELSE f[Pick(T)] + SumOver(T \ {Pick(T)}, f)
    BY <2>1, SumUnfold
  <2>3. CASE T # {}
    <3>1. Pick(T) \in T
      BY <2>3, PickIsIn
    <3>2. T \ {Pick(T)} \in P
      BY <1>1, <3>1
    <3> QED BY <2>2, <2>3, <3>1, <3>2
  <2> QED BY <2>2, <2>3
<1>2. \A T \in SUBSET S : T \in P
  <2> HIDE DEF P
  <2> QED BY <1>1, SubsetInduction
<1> QED BY <1>2

\* A sum may take any of its elements first.
LEMMA SumRemove ==
  ASSUME NEW S, IsFiniteSet(S), NEW f, \A i \in S : f[i] \in Int
  PROVE  \A T \in SUBSET S : \A x \in T :
           SumOver(T, f) = f[x] + SumOver(T \ {x}, f)
<1> DEFINE P == {T \in SUBSET S : \A x \in T :
                   SumOver(T, f) = f[x] + SumOver(T \ {x}, f)}
<1>1. ASSUME NEW T \in SUBSET S, \A U \in SUBSET T : U # T => U \in P
      PROVE  T \in P
  <2> SUFFICES ASSUME NEW x \in T
               PROVE  SumOver(T, f) = f[x] + SumOver(T \ {x}, f)
    OBVIOUS
  <2> DEFINE p == Pick(T)
  <2>1. p \in T
    BY PickIsIn
  <2>2. SumOver(T, f) = f[p] + SumOver(T \ {p}, f)
    BY FS_Subset, SumUnfold
  <2>3. ASSUME p # x
        PROVE  SumOver(T, f) = f[x] + SumOver(T \ {x}, f)
    <3>1. T \ {p} \in P /\ T \ {x} \in P
      BY <1>1, <2>1
    <3>2. SumOver(T \ {p}, f) = f[x] + SumOver((T \ {p}) \ {x}, f)
      BY <2>3, <3>1
    <3>3. SumOver(T \ {x}, f) = f[p] + SumOver((T \ {x}) \ {p}, f)
      BY <2>1, <2>3, <3>1
    <3>4. (T \ {x}) \ {p} = (T \ {p}) \ {x}
      OBVIOUS
    <3>5. SumOver((T \ {p}) \ {x}, f) \in Int /\ f[p] \in Int /\ f[x] \in Int
      BY <2>1, SumType
    <3> DEFINE V == (T \ {p}) \ {x}
    <3>6. /\ SumOver(T \ {p}, f) = f[x] + SumOver(V, f)
          /\ SumOver(T \ {x}, f) = f[p] + SumOver(V, f)
          /\ SumOver(V, f) \in Int
      BY <3>2, <3>3, <3>4, <3>5
    <3> HIDE DEF p, V
    <3> QED BY <2>2, <3>5, <3>6
  <2> QED BY <2>2, <2>3
<1>2. \A T \in SUBSET S : T \in P
  <2> HIDE DEF P
  <2> QED BY <1>1, SubsetInduction
<1> QED BY <1>2

\* Functions that agree on a set have the same sum over it.
LEMMA SumSame ==
  ASSUME NEW S, IsFiniteSet(S), NEW f, NEW g, \A i \in S : f[i] = g[i]
  PROVE  SumOver(S, f) = SumOver(S, g)
<1> DEFINE P == {T \in SUBSET S : SumOver(T, f) = SumOver(T, g)}
<1>1. ASSUME NEW T \in SUBSET S, \A U \in SUBSET T : U # T => U \in P
      PROVE  T \in P
  <2>1. IsFiniteSet(T)
    BY FS_Subset
  <2>2. /\ SumOver(T, f) = IF T = {} THEN 0 ELSE f[Pick(T)] + SumOver(T \ {Pick(T)}, f)
        /\ SumOver(T, g) = IF T = {} THEN 0 ELSE g[Pick(T)] + SumOver(T \ {Pick(T)}, g)
    BY <2>1, SumUnfold
  <2>3. CASE T # {}
    <3>1. Pick(T) \in T
      BY <2>3, PickIsIn
    <3>2. T \ {Pick(T)} \in P
      BY <1>1, <3>1
    <3> QED BY <2>2, <2>3, <3>1, <3>2
  <2> QED BY <2>2, <2>3
<1>2. \A T \in SUBSET S : T \in P
  <2> HIDE DEF P
  <2> QED BY <1>1, SubsetInduction
<1> QED BY <1>2

\* The sum over a single element.
LEMMA SumOne ==
  ASSUME NEW x, NEW f, f[x] \in Int
  PROVE  SumOver({x}, f) = f[x]
<1>1. IsFiniteSet({x}) /\ IsFiniteSet({})
  BY FS_Singleton, FS_EmptySet
<1>2. Pick({x}) = x /\ {x} \ {x} = {}
  BY PickIsIn
<1>3. SumOver({}, f) = 0
  BY <1>1, SumUnfold
<1> QED BY <1>1, <1>2, <1>3, SumUnfold

\* The sum over two elements.
LEMMA SumTwo ==
  ASSUME NEW x, NEW y, x # y, NEW f, f[x] \in Int, f[y] \in Int
  PROVE  SumOver({x, y}, f) = f[x] + f[y]
<1>1. IsFiniteSet({x, y})
  <2>1. {x, y} = {x} \cup {y} /\ IsFiniteSet({x})
    BY FS_Singleton
  <2> QED BY <2>1, FS_AddElement
<1>2. SumOver({x, y}, f) = f[x] + SumOver({x, y} \ {x}, f)
  BY <1>1, SumRemove
<1>3. {x, y} \ {x} = {y}
  OBVIOUS
<1> QED BY <1>2, <1>3, SumOne

\* A sum of sums is the sum of the sums.
LEMMA SumAdd ==
  ASSUME NEW S, IsFiniteSet(S), NEW f, NEW g, NEW h,
         \A i \in S : f[i] \in Int /\ g[i] \in Int /\ h[i] = f[i] + g[i]
  PROVE  SumOver(S, h) = SumOver(S, f) + SumOver(S, g)
<1> DEFINE P == {T \in SUBSET S : SumOver(T, h) = SumOver(T, f) + SumOver(T, g)}
<1>1. ASSUME NEW T \in SUBSET S, \A U \in SUBSET T : U # T => U \in P
      PROVE  T \in P
  <2> DEFINE p == Pick(T)
             U == T \ {p}
  <2>1. IsFiniteSet(T)
    BY FS_Subset
  <2>2. /\ SumOver(T, f) = IF T = {} THEN 0 ELSE f[p] + SumOver(U, f)
        /\ SumOver(T, g) = IF T = {} THEN 0 ELSE g[p] + SumOver(U, g)
        /\ SumOver(T, h) = IF T = {} THEN 0 ELSE h[p] + SumOver(U, h)
    BY <2>1, SumUnfold
  <2>3. CASE T = {}
    BY <2>2, <2>3
  <2>4. CASE T # {}
    <3>1. p \in T
      BY <2>4, PickIsIn
    <3>2. U \in P
      BY <1>1, <3>1
    <3>3. SumOver(U, f) \in Int /\ SumOver(U, g) \in Int
      BY SumType
    <3>4. f[p] \in Int /\ g[p] \in Int /\ h[p] = f[p] + g[p]
      BY <3>1
    <3>5. SumOver(U, h) = SumOver(U, f) + SumOver(U, g)
      BY <3>2
    <3>6. SumOver(T, h) = SumOver(T, f) + SumOver(T, g)
      <4> HIDE DEF p, U
      <4> QED BY <2>2, <2>4, <3>3, <3>4, <3>5
    <3> QED BY <3>6
  <2> QED BY <2>3, <2>4
<1>2. \A T \in SUBSET S : T \in P
  <2> HIDE DEF P
  <2> QED BY <1>1, SubsetInduction
<1> QED BY <1>2

\* A common factor leaves a sum.
LEMMA SumScale ==
  ASSUME NEW S, IsFiniteSet(S), NEW f, NEW g, NEW c \in Int,
         \A i \in S : f[i] \in Int /\ g[i] = c * f[i]
  PROVE  SumOver(S, g) = c * SumOver(S, f)
<1> DEFINE P == {T \in SUBSET S : SumOver(T, g) = c * SumOver(T, f)}
<1>1. ASSUME NEW T \in SUBSET S, \A U \in SUBSET T : U # T => U \in P
      PROVE  T \in P
  <2> DEFINE p == Pick(T)
             U == T \ {p}
  <2>1. IsFiniteSet(T)
    BY FS_Subset
  <2>2. /\ SumOver(T, f) = IF T = {} THEN 0 ELSE f[p] + SumOver(U, f)
        /\ SumOver(T, g) = IF T = {} THEN 0 ELSE g[p] + SumOver(U, g)
    BY <2>1, SumUnfold
  <2>3. CASE T = {}
    BY <2>2, <2>3
  <2>4. CASE T # {}
    <3>1. p \in T
      BY <2>4, PickIsIn
    <3>2. U \in P
      BY <1>1, <3>1
    <3>3. SumOver(U, f) \in Int
      BY SumType
    <3>4. f[p] \in Int /\ g[p] = c * f[p]
      BY <3>1
    <3>5. SumOver(U, g) = c * SumOver(U, f)
      BY <3>2
    <3>6. SumOver(T, g) = c * SumOver(T, f)
      <4> HIDE DEF p, U
      <4> QED BY <2>2, <2>4, <3>3, <3>4, <3>5
    <3> QED BY <3>6
  <2> QED BY <2>3, <2>4
<1>2. \A T \in SUBSET S : T \in P
  <2> HIDE DEF P
  <2> QED BY <1>1, SubsetInduction
<1> QED BY <1>2

\* A sum is no less than its elements make it.
LEMMA SumAtLeast ==
  ASSUME NEW S, IsFiniteSet(S), NEW f, NEW lo \in Int,
         \A i \in S : f[i] \in Int /\ lo <= f[i]
  PROVE  lo * Cardinality(S) <= SumOver(S, f)
<1> DEFINE P == {T \in SUBSET S : lo * Cardinality(T) <= SumOver(T, f)}
<1>1. ASSUME NEW T \in SUBSET S, \A U \in SUBSET T : U # T => U \in P
      PROVE  T \in P
  <2> DEFINE p == Pick(T)
             U == T \ {p}
             n == Cardinality(T)
  <2>1. IsFiniteSet(T)
    BY FS_Subset
  <2>2. SumOver(T, f) = IF T = {} THEN 0 ELSE f[p] + SumOver(U, f)
    BY <2>1, SumUnfold
  <2>3. CASE T = {}
    BY <2>2, <2>3, FS_EmptySet
  <2>4. CASE T # {}
    <3>1. p \in T
      BY <2>4, PickIsIn
    <3>2. lo * Cardinality(U) <= SumOver(U, f)
      BY <1>1, <3>1
    <3>3. SumOver(U, f) \in Int /\ f[p] \in Int /\ lo <= f[p]
      BY <3>1, SumType
    <3>4. Cardinality(U) = n - 1 /\ n \in Nat
      BY <2>1, <3>1, FS_RemoveElement, FS_CardinalityType
    <3>5. lo * (n - 1) <= SumOver(U, f)
      BY <3>2, <3>4
    <3>6. lo * (n - 1) = lo * n - lo /\ lo * n \in Int
      <4>1. n \in Nat
        BY <3>4
      <4> HIDE DEF n
      <4> QED BY <4>1
    <3>7. lo * n <= SumOver(T, f)
      <4> HIDE DEF n, p, U
      <4> QED BY <2>2, <2>4, <3>3, <3>5, <3>6
    <3> QED BY <3>7
  <2> QED BY <2>3, <2>4
<1>2. \A T \in SUBSET S : T \in P
  <2> HIDE DEF P
  <2> QED BY <1>1, SubsetInduction
<1> QED BY <1>2

\* A sum is no more than its elements make it.
LEMMA SumAtMost ==
  ASSUME NEW S, IsFiniteSet(S), NEW f, NEW hi \in Int,
         \A i \in S : f[i] \in Int /\ f[i] <= hi
  PROVE  SumOver(S, f) <= hi * Cardinality(S)
<1> DEFINE g == [i \in S |-> (-1) * f[i]]
           n == Cardinality(S)
<1>1. SumOver(S, g) = (-1) * SumOver(S, f)
  <2>1. \A i \in S : f[i] \in Int /\ g[i] = (-1) * f[i]
    OBVIOUS
  <2>2. -1 \in Int
    OBVIOUS
  <2> HIDE DEF g
  <2> QED BY <2>1, <2>2, SumScale
<1>2. (-hi) * n <= SumOver(S, g)
  <2>1. \A i \in S : g[i] \in Int /\ -hi <= g[i]
    OBVIOUS
  <2> HIDE DEF g
  <2> QED BY <2>1, SumAtLeast
<1>3. SumOver(S, f) \in Int /\ n \in Nat
  BY SumType, FS_CardinalityType
<1> HIDE DEF g, n
<1>4. SumOver(S, f) <= hi * n
  BY <1>1, <1>2, <1>3
<1> QED BY <1>4 DEF n

\* The sum of what is 1 for some elements and 0 for the others counts the former.
LEMMA SumCounts ==
  ASSUME NEW S, IsFiniteSet(S), NEW C \in SUBSET S
  PROVE  SumOver(S, [i \in S |-> IF i \in C THEN 1 ELSE 0]) = Cardinality(C)
<1> DEFINE f == [i \in S |-> IF i \in C THEN 1 ELSE 0]
           P == {T \in SUBSET S : SumOver(T, f) = Cardinality(T \cap C)}
<1>1. ASSUME NEW T \in SUBSET S, \A U \in SUBSET T : U # T => U \in P
      PROVE  T \in P
  <2> DEFINE p == Pick(T)
             U == T \ {p}
  <2>1. IsFiniteSet(T) /\ IsFiniteSet(T \cap C)
    BY FS_Subset
  <2>2. SumOver(T, f) = IF T = {} THEN 0 ELSE f[p] + SumOver(U, f)
    BY <2>1, SumUnfold
  <2>3. CASE T = {}
    <3>1. T \cap C = {}
      BY <2>3
    <3>2. SumOver(T, f) = Cardinality(T \cap C)
      BY <2>2, <2>3, <3>1, FS_EmptySet
    <3> QED BY <3>2
  <2>4. CASE T # {}
    <3>1. p \in T
      BY <2>4, PickIsIn
    <3>2. SumOver(U, f) = Cardinality(U \cap C)
      BY <1>1, <3>1
    <3>3. U \cap C = (T \cap C) \ {p}
      OBVIOUS
    <3>4. /\ Cardinality(T \cap C) \in Nat
          /\ Cardinality(U \cap C) = IF p \in T \cap C THEN Cardinality(T \cap C) - 1
                                     ELSE Cardinality(T \cap C)
      <4> HIDE DEF p, U
      <4> QED BY <2>1, <3>3, FS_RemoveElement, FS_CardinalityType
    <3>5. f[p] = IF p \in T \cap C THEN 1 ELSE 0
      BY <3>1
    <3>6. SumOver(T, f) = Cardinality(T \cap C)
      <4> HIDE DEF p, U, f
      <4> QED BY <2>2, <2>4, <3>2, <3>4, <3>5
    <3> QED BY <3>6
  <2> QED BY <2>3, <2>4
<1>2. \A T \in SUBSET S : T \in P
  <2> HIDE DEF P
  <2> QED BY <1>1, SubsetInduction
<1>3. S \cap C = C
  OBVIOUS
<1> QED BY <1>2, <1>3

---------------------------------------------------------------------------
(* The division of a cost *)

LEMMA DivMod ==
  ASSUME NEW a \in Int, NEW b \in Nat \ {0}
  PROVE  /\ a \div b \in Int /\ a % b \in Int
         /\ 0 <= a % b /\ a % b <= b - 1
         /\ a = (b * (a \div b)) + (a % b)
OBVIOUS

\* There are m elements in the first m places.
LEMMA RankCounts ==
  ASSUME NEW S, IsFiniteSet(S), S \subseteq Nat, NEW v, \A i \in S : v[i] \in Int,
         NEW m \in 0..Cardinality(S)
  PROVE  Cardinality({i \in S : Cardinality(Ahead(v, S, i)) < m}) = m
<1> DEFINE n == Cardinality(S)
           rank == Rank(v, S)
           C == {i \in S : rank[i] < m}
           first == [i \in C |-> rank[i]]
<1>1. n \in Nat /\ rank \in Bijection(S, 0..(n - 1))
  BY RankIsBijection, FS_CardinalityType
<1>2. first \in Bijection(C, 0..(m - 1))
  <2> HIDE DEF rank
  <2>1. first \in Injection(C, 0..(m - 1))
    <3>1. /\ rank \in [S -> 0..(n - 1)]
          /\ \A i, j \in S : rank[i] = rank[j] => i = j
      <4> HIDE DEF n
      <4> QED BY <1>1 DEF Bijection, Injection, IsInjective
    <3>2. first \in [C -> 0..(m - 1)]
      <4> SUFFICES ASSUME NEW i \in C PROVE rank[i] \in 0..(m - 1)
        OBVIOUS
      <4>1. rank[i] \in Nat /\ rank[i] < m
        BY <3>1
      <4> QED BY <4>1
    <3>3. \A i, j \in C : first[i] = first[j] => i = j
      BY <3>1
    <3> HIDE DEF C, first
    <3> QED BY <3>2, <3>3 DEF Injection, IsInjective
  <2>2. ASSUME NEW k \in 0..(m - 1) PROVE \E i \in C : first[i] = k
    <3>1. k \in 0..(n - 1)
      BY <1>1
    <3>2. PICK i \in S : rank[i] = k
      BY <1>1, <3>1 DEF Bijection, Surjection
    <3> QED BY <3>2
  <2> QED BY <2>1, <2>2 DEF Bijection, Injection, Surjection
<1>3. IsFiniteSet(C)
  BY FS_Subset
<1>4. Cardinality(0..(m - 1)) = Cardinality(C)
  BY <1>2, <1>3, FS_Bijection DEF ExistsBijection
<1>5. Cardinality(0..(m - 1)) = m
  BY FS_Interval
<1>6. C = {i \in S : Cardinality(Ahead(v, S, i)) < m}
  BY DEF Rank
<1> QED BY <1>4, <1>5, <1>6

\* The whole cents of the shares of a cost, and what they leave.
Whole(total, w, S) == [i \in S |-> (total * w[i]) \div SumOver(S, w)]
Left(total, w, S) == [i \in S |-> (total * w[i]) % SumOver(S, w)]
Residue(total, w, S) == total - SumOver(S, Whole(total, w, S))

\* Positive weights have a positive sum.
LEMMA SumPositive ==
  ASSUME NEW S, IsFiniteSet(S), S # {}, NEW w, \A i \in S : w[i] \in Nat \ {0}
  PROVE  SumOver(S, w) \in Nat \ {0}
<1>1. SumOver(S, w) \in Int
  BY SumType
<1>2. 1 * Cardinality(S) <= SumOver(S, w)
  BY SumAtLeast
<1>3. Cardinality(S) \in Nat /\ Cardinality(S) # 0
  BY FS_CardinalityType, FS_EmptySet
<1> QED BY <1>1, <1>2, <1>3

\* The whole cents are integers, and leave less than a cent for each share.
LEMMA WholeLeaves ==
  ASSUME NEW S, IsFiniteSet(S), S # {}, NEW w, \A i \in S : w[i] \in Nat \ {0},
         NEW total \in Int
  PROVE  /\ \A i \in S : /\ Whole(total, w, S)[i] \in Int
                         /\ total >= 0 => Whole(total, w, S)[i] >= 0
                         /\ Left(total, w, S)[i] \in Int
         /\ Residue(total, w, S) \in 0..(Cardinality(S) - 1)
<1> DEFINE all == SumOver(S, w)
           n == Cardinality(S)
           whole == Whole(total, w, S)
           left == Left(total, w, S)
           part == [i \in S |-> total * w[i]]
           scaled == [i \in S |-> all * whole[i]]
<1>1. all \in Nat \ {0}
  BY SumPositive
<1>2. n \in Nat \ {0}
  BY FS_CardinalityType, FS_EmptySet
<1>3. ASSUME NEW i \in S
      PROVE  /\ whole[i] \in Int /\ left[i] \in Int
             /\ total >= 0 => whole[i] >= 0
             /\ 0 <= left[i] /\ left[i] <= all - 1
             /\ part[i] = scaled[i] + left[i]
             /\ part[i] \in Int /\ scaled[i] \in Int
  <2>1. whole[i] = (total * w[i]) \div all /\ left[i] = (total * w[i]) % all
    BY DEF Whole, Left
  <2>2. part[i] = total * w[i] /\ scaled[i] = all * whole[i]
    OBVIOUS
  <2>3. w[i] \in Nat /\ total * w[i] \in Int /\ (total >= 0 => total * w[i] >= 0)
    OBVIOUS
  <2> HIDE DEF all, whole, left, part, scaled
  <2> DEFINE a == total * w[i]
  <2>4. a \in Int /\ (total >= 0 => a >= 0)
    BY <2>3
  <2>5. whole[i] = a \div all /\ left[i] = a % all
    BY <2>1
  <2>6. part[i] = a
    BY <2>2
  <2> HIDE DEF a
  <2>7. total >= 0 => whole[i] >= 0
    BY <1>1, <2>4, <2>5
  <2>8. /\ a \div all \in Int /\ a % all \in Int
        /\ 0 <= a % all /\ a % all <= all - 1
        /\ a = (all * (a \div all)) + (a % all)
    BY <1>1, <2>4, DivMod
  <2>9. part[i] = scaled[i] + left[i]
    BY <2>2, <2>5, <2>6, <2>8
  <2>10. scaled[i] \in Int
    BY <1>1, <2>2, <2>5, <2>8
  <2> QED BY <2>4, <2>5, <2>6, <2>7, <2>8, <2>9, <2>10
<1>4. SumOver(S, part) = total * all
  <2>1. \A i \in S : w[i] \in Int /\ part[i] = total * w[i]
    OBVIOUS
  <2> HIDE DEF part
  <2> QED BY <2>1, SumScale
<1>5. SumOver(S, scaled) = all * SumOver(S, whole)
  <2>1. \A i \in S : whole[i] \in Int /\ scaled[i] = all * whole[i]
    BY <1>3
  <2> HIDE DEF scaled, whole, all
  <2> QED BY <1>1, <2>1, SumScale
<1>6. SumOver(S, part) = SumOver(S, scaled) + SumOver(S, left)
  <2> HIDE DEF part, scaled, left, whole, all
  <2> QED BY <1>3, SumAdd
<1>7. /\ 0 * n <= SumOver(S, left) /\ SumOver(S, left) <= (all - 1) * n
      /\ SumOver(S, whole) \in Int /\ SumOver(S, left) \in Int
  <2>1. all - 1 \in Int
    BY <1>1
  <2> HIDE DEF part, scaled, left, whole, all
  <2>2. /\ \A i \in S : left[i] \in Int /\ 0 <= left[i]
        /\ \A i \in S : left[i] \in Int /\ left[i] <= all - 1
        /\ \A i \in S : whole[i] \in Int
    BY <1>3
  <2>3. 0 * n <= SumOver(S, left)
    BY <2>2, SumAtLeast
  <2>4. SumOver(S, left) <= (all - 1) * n
    BY <2>1, <2>2, SumAtMost
  <2>5. SumOver(S, whole) \in Int /\ SumOver(S, left) \in Int
    BY <2>2, SumType
  <2> QED BY <2>3, <2>4, <2>5
<1>8. Residue(total, w, S) = total - SumOver(S, whole)
  BY DEF Residue
<1> DEFINE r == total - SumOver(S, whole)
           sl == SumOver(S, left)
<1>9. all * r = sl /\ r \in Int /\ sl \in Int /\ 0 <= sl /\ sl <= (all - 1) * n
  <2> HIDE DEF part, scaled, left, whole, all, n
  <2> DEFINE sw == SumOver(S, whole)
  <2>1. sw \in Int /\ sl \in Int /\ total * all = all * sw + sl
    BY <1>4, <1>5, <1>6, <1>7
  <2>2. 0 <= sl /\ sl <= (all - 1) * n
    BY <1>2, <1>7
  <2> HIDE DEF sw, sl
  <2>3. r = total - sw
    BY DEF sw
  <2>4. all * r = all * total - all * sw /\ all * total = total * all
    BY <1>1, <2>1, <2>3
  <2> QED BY <1>1, <2>1, <2>2, <2>3, <2>4
<1>10. r \in 0..(n - 1)
  <2> HIDE DEF r, sl, all, n
  <2>1. r >= 0
    <3>1. r < 0 => all * r < 0
      BY <1>1, <1>9
    <3> QED BY <1>9, <3>1
  <2>2. r < n
    <3>1. (all - 1) * n = all * n - n
      BY <1>1, <1>2
    <3>2. all * r < all * n
      BY <1>1, <1>2, <1>9, <3>1
    <3>3. r >= n => all * r >= all * n
      BY <1>1, <1>2, <1>9
    <3>4. all * r \in Int /\ all * n \in Int
      BY <1>1, <1>2, <1>9
    <3> QED BY <1>2, <1>9, <3>2, <3>3, <3>4
  <2> QED BY <1>2, <1>9, <2>1, <2>2
<1> HIDE DEF whole, left, part, scaled, all, n, r
<1>11. Residue(total, w, S) \in 0..(Cardinality(S) - 1)
  BY <1>8, <1>10 DEF n, r
<1> QED BY <1>3, <1>11 DEF whole, left

\* A cost divided by allocate adds up to the cent, and nobody pays less than
\* nothing.
LEMMA SplitAddsUp ==
  ASSUME NEW S, IsFiniteSet(S), S # {}, S \subseteq Nat,
         NEW total \in Int, NEW w, total = 0 \/ \A i \in S : w[i] \in Nat \ {0}
  PROVE  /\ SumOver(S, Split(total, w, S)) = total
         /\ DOMAIN Split(total, w, S) = S
         /\ \A i \in S : /\ Split(total, w, S)[i] \in Int
                         /\ total >= 0 => Split(total, w, S)[i] >= 0
<1> DEFINE whole == Whole(total, w, S)
           left == Left(total, w, S)
           r == Residue(total, w, S)
           C == {i \in S : Cardinality(Ahead(left, S, i)) < r}
           cent == [i \in S |-> IF i \in C THEN 1 ELSE 0]
           share == Split(total, w, S)
<1>1. CASE total = 0
  <2>1. share = [i \in S |-> 0]
    BY <1>1 DEF Split
  <2>2. SumOver(S, share) = 0 * SumOver(S, share)
    <3> DEFINE c == 0
    <3>1. c \in Int /\ \A i \in S : share[i] \in Int /\ share[i] = c * share[i]
      BY <2>1
    <3> HIDE DEF share, c
    <3>2. SumOver(S, share) = c * SumOver(S, share)
      BY <3>1, SumScale
    <3> QED BY <3>2 DEF c
  <2>3. SumOver(S, share) \in Int
    <3>1. \A i \in S : share[i] \in Int
      BY <2>1
    <3> HIDE DEF share
    <3> QED BY <3>1, SumType
  <2>4. SumOver(S, share) = 0
    <3> HIDE DEF share
    <3> QED BY <2>2, <2>3
  <2> QED BY <1>1, <2>1, <2>4
<1>2. CASE total # 0
  <2>1. /\ \A i \in S : /\ whole[i] \in Int /\ left[i] \in Int
                        /\ total >= 0 => whole[i] >= 0
        /\ r \in 0..(Cardinality(S) - 1)
    BY <1>2, WholeLeaves
  <2>2. /\ DOMAIN share = S
        /\ \A i \in S : share[i] = whole[i] + cent[i]
    BY <1>2 DEF Split, Whole, Left, Residue, Ahead
  <2>3. \A i \in S : cent[i] \in Int /\ cent[i] >= 0
    OBVIOUS
  <2>4. SumOver(S, cent) = Cardinality(C)
    <3>1. C \in SUBSET S
      OBVIOUS
    <3> HIDE DEF C
    <3> QED BY <3>1, SumCounts
  <2>5. Cardinality(C) = r
    <3>1. r \in 0..Cardinality(S)
      BY <2>1, FS_CardinalityType
    <3> HIDE DEF left, r
    <3> QED BY <2>1, <3>1, RankCounts
  <2>6. SumOver(S, share) = SumOver(S, whole) + SumOver(S, cent)
    <3> HIDE DEF share, whole, cent
    <3> QED BY <2>1, <2>2, <2>3, SumAdd
  <2>7. SumOver(S, whole) \in Int /\ r = total - SumOver(S, whole)
    <3>1. r = total - SumOver(S, whole)
      BY DEF Residue
    <3> HIDE DEF whole, r
    <3> QED BY <2>1, <3>1, SumType
  <2>8. SumOver(S, share) = total
    <3> HIDE DEF share, whole, cent, r, C
    <3> QED BY <2>4, <2>5, <2>6, <2>7
  <2>9. \A i \in S : share[i] \in Int /\ (total >= 0 => share[i] >= 0)
    <3> HIDE DEF share, whole, cent
    <3> QED BY <2>1, <2>2, <2>3
  <2> HIDE DEF share
  <2>10. QED BY <2>2, <2>8, <2>9 DEF share
<1> QED BY <1>1, <1>2

\* So does a cost divided by a plan.
LEMMA PlanSplitAddsUp ==
  ASSUME NEW S, IsFiniteSet(S), S # {}, S \subseteq Nat,
         NEW w, \A i \in S : w[i] \in Nat \ {0}, NEW total \in Nat
  PROVE  /\ SumOver(S, PlanSplit(total, w, S)) = total
         /\ \A i \in S : PlanSplit(total, w, S)[i] \in Nat
<1> DEFINE Largest(i) == \A j \in S : w[i] > w[j] \/ (w[i] = w[j] /\ i <= j)
           largest == CHOOSE i \in S : Largest(i)
           whole == Whole(total, w, S)
           r == Residue(total, w, S)
           one == [i \in S |-> IF i \in {largest} THEN 1 ELSE 0]
           rest == [i \in S |-> r * one[i]]
           share == PlanSplit(total, w, S)
<1>1. largest \in S
  <2>1. Rank(w, S) \in Bijection(S, 0..(Cardinality(S) - 1))
    <3>1. \A i \in S : w[i] \in Int
      OBVIOUS
    <3> QED BY <3>1, RankIsBijection
  <2>2. 0 \in 0..(Cardinality(S) - 1)
    BY FS_CardinalityType, FS_EmptySet
  <2>3. PICK i \in S : Rank(w, S)[i] = 0
    BY <2>1, <2>2 DEF Bijection, Surjection
  <2>4. Ahead(w, S, i) = {}
    <3>1. Ahead(w, S, i) \in SUBSET S
      BY DEF Ahead
    <3>2. Cardinality(Ahead(w, S, i)) = 0
      BY <2>3 DEF Rank
    <3> QED BY <3>1, <3>2, FS_Subset, FS_EmptySet
  <2>5. Largest(i)
    <3> SUFFICES ASSUME NEW j \in S PROVE w[i] > w[j] \/ (w[i] = w[j] /\ i <= j)
      OBVIOUS
    <3>1. ~(w[j] > w[i] \/ (w[j] = w[i] /\ j < i))
      BY <2>4 DEF Ahead
    <3>2. w[i] \in Int /\ w[j] \in Int /\ i \in Nat /\ j \in Nat
      OBVIOUS
    <3> QED BY <3>1, <3>2
  <2> HIDE DEF Largest
  <2> QED BY <2>5
<1>2. /\ \A i \in S : whole[i] \in Nat
      /\ r \in Nat /\ r \in Int
  <2>1. total \in Int /\ total >= 0
    OBVIOUS
  <2>2. /\ \A i \in S : whole[i] \in Int /\ (total >= 0 => whole[i] >= 0)
        /\ r \in 0..(Cardinality(S) - 1)
    BY <2>1, WholeLeaves
  <2> HIDE DEF whole, r
  <2> QED BY <2>1, <2>2
<1>3. \A i \in S : share[i] = whole[i] + rest[i]
  <2>1. ASSUME NEW i \in S
        PROVE  share[i] = whole[i] + (IF i = largest THEN r ELSE 0)
    BY DEF PlanSplit, Whole, Residue
  <2>2. \A i \in S : rest[i] = IF i = largest THEN r ELSE 0
    <3> HIDE DEF r, largest
    <3> QED BY <1>2
  <2> HIDE DEF share, whole, rest
  <2> QED BY <2>1, <2>2
<1>4. \A i \in S : one[i] \in Int /\ rest[i] = r * one[i] /\ rest[i] \in Nat
  <2> HIDE DEF r, largest
  <2> QED BY <1>2
<1>5. SumOver(S, one) = 1
  <2>1. {largest} \in SUBSET S /\ Cardinality({largest}) = 1
    BY <1>1, FS_Singleton
  <2> HIDE DEF largest
  <2> QED BY <2>1, SumCounts
<1>6. SumOver(S, rest) = r * SumOver(S, one)
  <2>1. \A i \in S : one[i] \in Int /\ rest[i] = r * one[i]
    BY <1>4
  <2> HIDE DEF rest, one, r
  <2> QED BY <1>2, <2>1, SumScale
<1>7. SumOver(S, share) = SumOver(S, whole) + SumOver(S, rest)
  <2>1. \A i \in S : whole[i] \in Int /\ rest[i] \in Int
    <3> HIDE DEF rest, whole
    <3> QED BY <1>2, <1>4
  <2> HIDE DEF rest, whole, share
  <2> QED BY <1>3, <2>1, SumAdd
<1>8. SumOver(S, whole) \in Int /\ r = total - SumOver(S, whole)
  <2>1. r = total - SumOver(S, whole)
    BY DEF Residue
  <2> HIDE DEF whole, r
  <2>2. \A i \in S : whole[i] \in Int
    BY <1>2
  <2> QED BY <2>1, <2>2, SumType
<1>9. SumOver(S, share) = total
  <2> HIDE DEF share, whole, rest, one, r
  <2> QED BY <1>2, <1>5, <1>6, <1>7, <1>8
<1>10. \A i \in S : share[i] \in Nat
  <2> HIDE DEF share, whole, rest
  <2> QED BY <1>2, <1>3, <1>4
<1> QED BY <1>9, <1>10

---------------------------------------------------------------------------
(* Rounding *)

\* q is a over d, to half a unit.
Near(a, d, q) == 2 * a - 2 * (d * q) <= d /\ -d <= 2 * a - 2 * (d * q)

\* A rounded quotient is within half a unit of the quotient.
LEMMA HalfUpNear ==
  ASSUME NEW n \in Int, NEW d \in Nat \ {0}
  PROVE  /\ HalfUp(n, d) \in Int
         /\ Near(n, d, HalfUp(n, d))
         /\ n >= 0 => HalfUp(n, d) >= 0
<1>1. CASE n >= 0
  <2> DEFINE q == (2 * n + d) \div (2 * d)
             m == (2 * n + d) % (2 * d)
  <2>1. /\ q \in Int /\ m \in Int /\ 0 <= m /\ m <= 2 * d - 1
        /\ 2 * n + d = ((2 * d) * q) + m
    <3>1. 2 * n + d \in Int /\ 2 * d \in Nat \ {0}
      OBVIOUS
    <3> QED BY <3>1, DivMod
  <2>2. HalfUp(n, d) = q
    BY <1>1 DEF HalfUp
  <2>3. q >= 0
    BY <1>1
  <2> HIDE DEF q, m
  <2>4. (2 * d) * q = 2 * (d * q) /\ d * q \in Int
    BY <2>1
  <2> QED BY <2>1, <2>2, <2>3, <2>4 DEF Near
<1>2. CASE n < 0
  <2> DEFINE q == (d - 2 * n) \div (2 * d)
             m == (d - 2 * n) % (2 * d)
  <2>1. /\ q \in Int /\ m \in Int /\ 0 <= m /\ m <= 2 * d - 1
        /\ d - 2 * n = ((2 * d) * q) + m
    <3>1. d - 2 * n \in Int /\ 2 * d \in Nat \ {0}
      OBVIOUS
    <3> QED BY <3>1, DivMod
  <2>2. HalfUp(n, d) = -q
    BY <1>2 DEF HalfUp
  <2> HIDE DEF q, m
  <2>4. (2 * d) * q = 2 * (d * q) /\ d * (-q) = -(d * q) /\ d * q \in Int
    BY <2>1
  <2> QED BY <1>2, <2>1, <2>2, <2>4 DEF Near
<1> QED BY <1>1, <1>2

\* Cents are rounded to integers.
LEMMA HalfUpCents ==
  ASSUME NEW m \in Int
  PROVE  HalfUp(m, 100) \in Int /\ Near(m, 100, HalfUp(m, 100))
<1>1. 100 \in Nat \ {0}
  OBVIOUS
<1> QED BY <1>1, HalfUpNear

\* Nothing rounds to nothing.
LEMMA NearZero ==
  ASSUME NEW q \in Int, Near(0, 100, q)
  PROVE  q = 0
BY DEF Near

\* Rates are in hundredths, and a base is grossed up with three of them.
Million == 1000000

\* The part of the base that is not the tax, in millionths.
Untaxed(cfg) == Million - cfg.rate * (100 - cfg.reduction) * (100 - cfg.deferment)

LEMMA ConfigParts ==
  ASSUME NEW cfg \in Config
  PROVE  /\ cfg.cst \in {"00", "20", "51", "90"} \cup NonTaxed
         /\ cfg.rate \in 0..99 /\ cfg.reduction \in 0..100
         /\ cfg.deferment \in 0..100
         /\ cfg.cst \in NonTaxed => cfg.rate = 0
         /\ cfg.cst = "20" => cfg.rate > 0 /\ cfg.reduction \in 1..99
         /\ cfg.cst \notin {"20", "51"} => cfg.reduction = 0
         /\ cfg.cst # "51" => cfg.deferment = 0
BY DEF Config

LEMMA UntaxedPositive ==
  ASSUME NEW cfg \in Config
  PROVE  Untaxed(cfg) \in Nat \ {0}
<1> DEFINE r == cfg.rate
           g == 100 - cfg.reduction
           h == 100 - cfg.deferment
           rg == r * g
           rgh == rg * h
<1>1. /\ r \in Int /\ 0 <= r /\ r <= 99
      /\ g \in Int /\ 0 <= g /\ g <= 100
      /\ h \in Int /\ 0 <= h /\ h <= 100
  <2>1. cfg.rate \in 0..99 /\ cfg.reduction \in 0..100 /\ cfg.deferment \in 0..100
    BY ConfigParts
  <2> QED BY <2>1
<1>2. Untaxed(cfg) = Million - rgh
  BY DEF Untaxed
<1> HIDE DEF r, g, h
<1>3. rg \in Int /\ 0 <= rg /\ rg <= 9900
  <2>1. rg \in Int /\ 0 <= rg
    BY <1>1
  <2>2. rg <= r * 100
    BY <1>1
  <2> QED BY <1>1, <2>1, <2>2
<1> HIDE DEF rg
<1>4. rgh \in Int /\ 0 <= rgh /\ rgh <= 990000
  <2>1. rgh \in Int /\ rgh >= 0
    BY <1>1, <1>3
  <2>2. rgh <= rg * 100
    BY <1>1, <1>3
  <2> QED BY <1>3, <2>1, <2>2
<1> HIDE DEF rgh
<1> QED BY <1>2, <1>4, SMT DEF Million

\* The base is the numerator over what is not taxed, to half a cent.
LEMMA GrossNear ==
  ASSUME NEW cfg \in Config, NEW n \in Int
  PROVE  /\ Gross(n, cfg) \in Int
         /\ n >= 0 => Gross(n, cfg) >= 0
         /\ Near(n * Million, Untaxed(cfg), Gross(n, cfg))
<1> DEFINE m == n * Million
           d == Untaxed(cfg)
<1>1. Gross(n, cfg) = HalfUp(m, d)
  BY SMT DEF Gross, Untaxed, Million
<1>2. d \in Nat \ {0} /\ m \in Int /\ (n >= 0 => m >= 0)
  BY UntaxedPositive, SMT DEF Million
<1> HIDE DEF m, d
<1>3. /\ HalfUp(m, d) \in Int
      /\ Near(m, d, HalfUp(m, d))
      /\ m >= 0 => HalfUp(m, d) >= 0
  BY <1>2, HalfUpNear
<1> QED BY <1>1, <1>2, <1>3 DEF m, d

\* Where the whole base is taxed, the base less its tax is the numerator.
LEMMA InsideWhole ==
  ASSUME NEW n \in Int, NEW B \in Int, NEW V \in Int, NEW r \in 1..99,
         Near(n * Million, Million - (r * 100) * 100, B), Near(B * r, 100, V)
  PROVE  B - V = n
<1> DEFINE x == B * r
           M == Million - (r * 100) * 100
<1>1. x \in Int
  OBVIOUS
<1>2. M * B = 1000000 * B - 10000 * x /\ M = 1000000 - 10000 * r
  BY SMT DEF Million
<1>3. 2 * x - 2 * (100 * V) <= 100 /\ -100 <= 2 * x - 2 * (100 * V)
  BY DEF Near
<1>4. /\ 2 * (n * 1000000) - 2 * (M * B) <= M
      /\ -M <= 2 * (n * 1000000) - 2 * (M * B)
  BY SMT DEF Near, Million
<1> HIDE DEF x, M
<1> QED BY <1>1, <1>2, <1>3, <1>4, SMT

\* Where the base is reduced to g per cent, within a cent.
LEMMA InsideReduced ==
  ASSUME NEW n \in Int, NEW P \in Int, NEW B \in Int, NEW V \in Int,
         NEW r \in 1..99, NEW g \in 1..99,
         Near(n * Million, Million - (r * g) * 100, P),
         Near(P * g, 100, B), Near(B * r, 100, V)
  PROVE  P - V - n \in -1..1
<1> DEFINE pg == P * g
           br == B * r
           rg == r * g
           rpg == r * pg
           e == 2 * pg - 200 * B
           re == r * e
           M == Million - (r * g) * 100
<1>1. pg \in Int /\ br \in Int /\ rg \in Int /\ rpg \in Int /\ e \in Int /\ re \in Int
  OBVIOUS
<1>2. M * P = 1000000 * P - 100 * rpg
  <2>1. (r * g) * P = r * (P * g)
    OBVIOUS
  <2>2. M * P = 1000000 * P - 100 * ((r * g) * P)
    BY SMT DEF Million
  <2> QED BY <2>1, <2>2, SMT
<1>3. re = 2 * rpg - 200 * br
  <2>1. r * (2 * pg - 200 * B) = 2 * (r * pg) - 200 * (B * r)
    <3> HIDE DEF pg
    <3> QED BY <1>1
  <2> QED BY <2>1
<1>4. e <= 100 /\ -100 <= e
  BY DEF Near
<1>5. re <= 100 * r /\ -(100 * r) <= re
  <2> HIDE DEF e
  <2>1. r * e <= r * 100 /\ r * (-100) <= r * e
    BY <1>1, <1>4
  <2> QED BY <2>1
<1>6. rg >= r
  OBVIOUS
<1>7. 2 * br - 200 * V <= 100 /\ -100 <= 2 * br - 200 * V
  BY DEF Near
<1>8. M = 1000000 - 100 * rg
  BY SMT DEF Million
<1>9. /\ 2 * (n * 1000000) - 2 * (M * P) <= M
      /\ -M <= 2 * (n * 1000000) - 2 * (M * P)
  BY SMT DEF Near, Million
<1> HIDE DEF pg, br, rg, rpg, e, re, M
<1> QED BY <1>1, <1>2, <1>3, <1>5, <1>6, <1>7, <1>8, <1>9, SMT

\* Where h per cent of the tax is not deferred, within a cent.
LEMMA InsideDeferred ==
  ASSUME NEW n \in Int, NEW B \in Int, NEW O \in Int, NEW F \in Int,
         NEW r \in 0..99, NEW h \in 0..100,
         Near(n * Million, Million - (r * 100) * h, B),
         Near(B * r, 100, O), Near(O * (100 - h), 100, F)
  PROVE  B - (O - F) - n \in -1..1
<1> DEFINE br == B * r
           oh == O * h
           rh == r * h
           hbr == h * br
           e == 2 * br - 200 * O
           he == h * e
           M == Million - (r * 100) * h
<1>1. br \in Int /\ oh \in Int /\ rh \in Int /\ hbr \in Int /\ e \in Int /\ he \in Int
  OBVIOUS
<1>2. M * B = 1000000 * B - 100 * hbr
  <2>1. (r * h) * B = h * (B * r)
    OBVIOUS
  <2>2. M * B = 1000000 * B - 100 * ((r * h) * B)
    BY SMT DEF Million
  <2> QED BY <2>1, <2>2, SMT
<1>3. he = 2 * hbr - 200 * oh
  <2>1. h * (2 * br - 200 * O) = 2 * (h * br) - 200 * (O * h)
    <3> HIDE DEF br
    <3> QED BY <1>1
  <2> QED BY <2>1
<1>4. e <= 100 /\ -100 <= e
  BY DEF Near
<1>5. he <= 100 * h /\ -(100 * h) <= he
  <2> HIDE DEF e
  <2>1. h * e <= h * 100 /\ h * (-100) <= h * e
    BY <1>1, <1>4
  <2> QED BY <2>1
<1>6. rh >= 0
  OBVIOUS
<1>7. /\ 200 * O - 2 * oh - 200 * F <= 100
      /\ -100 <= 200 * O - 2 * oh - 200 * F
  BY DEF Near
<1>8. M = 1000000 - 100 * rh
  BY SMT DEF Million
<1>9. /\ 2 * (n * 1000000) - 2 * (M * B) <= M
      /\ -M <= 2 * (n * 1000000) - 2 * (M * B)
  BY SMT DEF Near, Million
<1> HIDE DEF oh, br, rh, hbr, e, he, M
<1> QED BY <1>1, <1>2, <1>3, <1>5, <1>6, <1>7, <1>8, <1>9, SMT

---------------------------------------------------------------------------
(* What was set by hand *)

Fields == {"product", "other", "shares", "afrmm", "icms", "manual"}

\* A row has the fields of a draft item, and exists once its document has costs.
RowInv ==
    /\ DOMAIN row = Items /\ DOMAIN ordered = Items /\ DOMAIN costs = Exporters
    /\ duimp \in [Items -> Item]
    /\ \A i \in Items :
         /\ costs[duimp[i].exporter] = None => row[i] = None
         /\ row[i] # None => DOMAIN row[i] = Fields

\* What the operator ordered is what the row remembers and what it holds.
OrderInv ==
    \A i \in Items :
      ordered[i] # None =>
        /\ row[i] # None
        /\ row[i].manual = ordered[i]
        /\ row[i].icms = ManualIcms(ordered[i])

IInv == RowInv /\ OrderInv

---------------------------------------------------------------------------
\* Costs are not the absence of costs.
LEMMA CostsAreThere == ASSUME NEW c, DOMAIN c = Costs PROVE c # None
BY DEF Costs, None

\* The choices of an operator are costs.
LEMMA ChoicesAreCosts == ASSUME NEW c \in CostChoices PROVE DOMAIN c = Costs
BY Data

\* One row takes new values, its manual adjustment with its ICMS or neither.
LEMMA WriteInv ==
  ASSUME IInv, NEW i \in Items, row[i] # None, NEW r, Write(i, r),
         UNCHANGED <<duimp, costs>>,
         DOMAIN r = Fields,
         \/ ordered' = ordered /\ r.icms = row[i].icms /\ r.manual = row[i].manual
         \/ /\ ordered' = [ordered EXCEPT ![i] = r.manual]
            /\ r.manual # None => r.icms = ManualIcms(r.manual)
  PROVE  IInv'
<1>1. /\ row' = [row EXCEPT ![i] = r] /\ DOMAIN row' = Items
      /\ DOMAIN ordered' = Items /\ duimp' = duimp /\ costs' = costs
  BY DEF Write, IInv, RowInv
<1>2. r # None
  BY DEF None, Fields
<1>3. RowInv'
  BY <1>1, <1>2 DEF IInv, RowInv
<1>4. OrderInv'
  BY <1>1, <1>2 DEF IInv, RowInv, OrderInv
<1>5. QED
  BY <1>3, <1>4 DEF IInv

\* A document gets its rows: nothing was ordered for them.
LEMMA NewDraftInv ==
  ASSUME IInv, NEW x \in Exporters, costs[x] = None, NEW c, DOMAIN c = Costs,
         NEW shares, NewDraft(x, c, shares)
  PROVE  IInv'
<1>1. /\ costs' = [costs EXCEPT ![x] = c]
      /\ duimp' = duimp /\ ordered' = ordered
      /\ \A i \in Items \ ItemsOf(x) : row'[i] = row[i]
      /\ \A i \in ItemsOf(x) :
           DOMAIN row'[i] = Fields /\ row'[i].manual = None
      /\ DOMAIN row' = Items
  <2>1. /\ costs' = [costs EXCEPT ![x] = c]
        /\ duimp' = duimp /\ ordered' = ordered
        /\ row' = [i \in Items |-> IF i \in ItemsOf(x) THEN FirstRow(x, i, shares)
                                   ELSE row[i]]
    BY DEF NewDraft
  <2>2. \A i \in ItemsOf(x) : /\ DOMAIN FirstRow(x, i, shares) = Fields
                              /\ FirstRow(x, i, shares).manual = None
    BY DEF FirstRow, Fields
  <2>3. QED
    BY <2>1, <2>2 DEF ItemsOf
<1>2. c # None
  BY CostsAreThere
<1>3. \A i \in ItemsOf(x) : ordered[i] = None
  BY DEF IInv, RowInv, OrderInv, ItemsOf
<1>4. RowInv'
  <2>1. \A i \in Items : costs'[duimp[i].exporter] = None => row'[i] = None
    BY <1>1, <1>2 DEF IInv, RowInv, ItemsOf, Item
  <2>2. \A i \in Items : row'[i] # None => DOMAIN row'[i] = Fields
    BY <1>1 DEF IInv, RowInv
  <2>3. QED
    BY <1>1, <2>1, <2>2 DEF IInv, RowInv
<1>5. OrderInv'
  BY <1>1, <1>3 DEF IInv, OrderInv
<1>6. QED
  BY <1>4, <1>5 DEF IInv

---------------------------------------------------------------------------
(* One lemma per action that writes a row *)

LEMMA GenerateChildInv ==
  ASSUME IInv, NEW x \in Exporters, GenerateChild(x) PROVE IInv'
<1> DEFINE shares == [i \in ItemsOf(x) |-> plan.shares[i]]
           c == [k \in Costs |-> Paid(shares, k, ItemsOf(x))]
<1>1. costs[x] = None /\ NewDraft(x, c, shares)
  BY DEF GenerateChild
<1>2. DOMAIN c = Costs
  OBVIOUS
<1>3. QED
  BY <1>1, <1>2, NewDraftInv

LEMMA CreateDraftInv ==
  ASSUME IInv, NEW x \in Exporters, CreateDraft(x) PROVE IInv'
<1>1. PICK c \in CostChoices :
        NewDraft(x, c, [i \in Items |-> [k \in Costs |-> FirstShare(k, c[k], Items)[i]]])
  BY DEF CreateDraft
<1>2. costs[x] = None /\ DOMAIN c = Costs
  BY ChoicesAreCosts DEF CreateDraft
<1>3. QED
  BY <1>1, <1>2, NewDraftInv

LEMMA UpdateItemInv == ASSUME IInv, NEW i \in Items, UpdateItem(i) PROVE IInv'
<1>1. PICK p, o : Write(i, [row[i] EXCEPT !.product = p, !.other = o])
  BY DEF UpdateItem
<1>2. row[i] # None /\ UNCHANGED <<duimp, costs, ordered>>
  BY DEF UpdateItem, Editable, Drafted
<1>3. DOMAIN row[i] = Fields
  BY <1>2 DEF IInv, RowInv
<1>4. QED
  BY <1>1, <1>2, <1>3, WriteInv DEF Fields

LEMMA ReplacePayloadInv ==
  ASSUME IInv, NEW i \in Items, ReplacePayload(i) PROVE IInv'
<1>1. PICK p : Write(i, [row[i] EXCEPT !.shares = p.shares, !.afrmm = p.afrmm])
  BY DEF ReplacePayload
<1>2. row[i] # None /\ UNCHANGED <<duimp, costs, ordered>>
  BY DEF ReplacePayload, Editable, Drafted
<1>3. DOMAIN row[i] = Fields
  BY <1>2 DEF IInv, RowInv
<1>4. QED
  BY <1>1, <1>2, <1>3, WriteInv DEF Fields

LEMMA AdjustIcmsInv == ASSUME IInv, NEW i \in Items, AdjustIcms(i) PROVE IInv'
<1>1. PICK a \in Adjustments :
        /\ Write(i, [row[i] EXCEPT !.icms = ManualIcms(a), !.manual = a])
        /\ ordered' = [ordered EXCEPT ![i] = a]
  BY DEF AdjustIcms
<1>2. row[i] # None /\ UNCHANGED <<duimp, costs>>
  BY DEF AdjustIcms, Editable, Drafted
<1>3. DOMAIN row[i] = Fields
  BY <1>2 DEF IInv, RowInv
<1>4. QED
  BY <1>1, <1>2, <1>3, WriteInv DEF Fields

LEMMA ReapplyRuleInv == ASSUME IInv, NEW i \in Items, ReapplyRule(i) PROVE IInv'
<1>1. /\ Write(i, [row[i] EXCEPT !.icms = RowIcms(i, row[i].other), !.manual = None])
      /\ ordered' = [ordered EXCEPT ![i] = None]
  BY DEF ReapplyRule
<1>2. row[i] # None /\ UNCHANGED <<duimp, costs>>
  BY DEF ReapplyRule, Editable, Drafted
<1>3. DOMAIN row[i] = Fields
  BY <1>2 DEF IInv, RowInv
<1>4. QED
  BY <1>1, <1>2, <1>3, WriteInv DEF Fields

\* A division of the costs keeps what was set by hand.
LEMMA RecalculatedKeeps ==
  ASSUME NEW i \in Items, NEW shares,
         DOMAIN row[i] = Fields
  PROVE  LET r == Recalculated(i, shares)
         IN  /\ DOMAIN r = Fields /\ r.manual = row[i].manual
             /\ row[i].manual # None => r.icms = ManualIcms(row[i].manual)
BY DEF Recalculated, Fields

LEMMA UpdateCostsInv ==
  ASSUME IInv, NEW x \in Exporters, UpdateCosts(x) PROVE IInv'
<1>1. PICK c \in CostChoices : costs' = [costs EXCEPT ![x] = c] /\ row' = Redivided(x, c)
  BY DEF UpdateCosts
<1>2. /\ ItemsOf(x) \subseteq Drafted
      /\ duimp' = duimp /\ ordered' = ordered
  BY DEF UpdateCosts
<1>3. c # None
  BY CostsAreThere, ChoicesAreCosts
<1>4. \A i \in Items :
        \/ row'[i] = row[i]
        \/ /\ i \in ItemsOf(x)
           /\ row'[i] = Recalculated(i, [k \in Costs |-> Division(x, c)[k][i]])
  BY <1>1 DEF Redivided
<1>5. DOMAIN row' = Items /\ DOMAIN costs' = Exporters
  BY <1>1 DEF Redivided, IInv, RowInv
<1> DEFINE Kept(i) ==
              /\ costs'[duimp[i].exporter] = None => row'[i] = None
              /\ row'[i] # None => DOMAIN row'[i] = Fields
              /\ ordered[i] # None =>
                   /\ row'[i] # None
                   /\ row'[i].manual = ordered[i]
                   /\ row'[i].icms = ManualIcms(ordered[i])
<1>6. ASSUME NEW i \in Items PROVE Kept(i)
  <2>1. CASE row'[i] = row[i]
    BY <1>1, <1>3, <2>1 DEF IInv, RowInv, OrderInv, Item
  <2>2. ASSUME i \in ItemsOf(x),
               row'[i] = Recalculated(i, [k \in Costs |-> Division(x, c)[k][i]])
        PROVE  Kept(i)
    <3>1. row[i] # None /\ duimp[i].exporter = x
      BY <1>2, <2>2 DEF Drafted, ItemsOf
    <3>2. QED
      BY <1>1, <1>3, <2>2, <3>1, RecalculatedKeeps DEF IInv, RowInv, OrderInv, None, Fields
  <2>3. QED
    BY <1>4, <2>1, <2>2
<1>7. QED
  BY <1>2, <1>5, <1>6 DEF IInv, RowInv, OrderInv

---------------------------------------------------------------------------
LEMMA InitInv == Init => IInv
BY Data DEF Init, IInv, RowInv, OrderInv, None

LEMMA StepInv == IInv /\ [Next]_vars => IInv'
<1>1. SUFFICES ASSUME IInv, [Next]_vars PROVE IInv'
  OBVIOUS
<1>2. ASSUME UNCHANGED <<duimp, costs, row, ordered>> PROVE IInv'
  BY <1>1, <1>2 DEF IInv, RowInv, OrderInv
<1>3. CASE UNCHANGED vars
  BY <1>2, <1>3 DEF vars, ghosts
<1>4. CASE CreatePlan
  BY <1>2, <1>4 DEF CreatePlan, ghosts
<1>5. ASSUME NEW x \in Exporters, Refresh(x) PROVE IInv'
  BY <1>2, <1>5 DEF Refresh, ghosts
<1>6. ASSUME NEW r \in Rules, ChangeRule(r) PROVE IInv'
  BY <1>2, <1>6 DEF ChangeRule, ghosts
<1>7. QED
  BY <1>1, <1>3, <1>4, <1>5, <1>6, GenerateChildInv, CreateDraftInv, UpdateItemInv,
     ReplacePayloadInv, AdjustIcmsInv, ReapplyRuleInv, UpdateCostsInv DEF Next

\* An ICMS set by hand stays until the operator goes back to the rule, whatever
\* costs, values and rules change in between.
THEOREM ManualStays == Spec => []ManualIsKept
<1>1. IInv => ManualIsKept
  BY DEF IInv, OrderInv, ManualIsKept
<1>2. QED
  BY <1>1, InitInv, StepInv, PTL DEF Spec


---------------------------------------------------------------------------
(* What a calculation gives *)

\* An ICMS is inside its base, as IcmsIsInside says; alone when its item is the
\* only one of the document.
Inside(icms, numerator, alone) ==
    CASE icms.cst \in {"00", "90"} -> icms.base - icms.value = numerator
      [] icms.cst = "20" -> icms.before - icms.value - numerator \in -1..1
      [] icms.cst = "51" ->
           (alone /\ 0 \in {icms.rate, icms.reduction}) =>
             icms.base - icms.value - numerator \in -1..1
      [] OTHER -> icms.base = 0 /\ icms.value = 0

\* The parts of a rounded ICMS.
LEMMA IcmsParts ==
  ASSUME NEW cfg \in Config, NEW gross \in Int
  PROVE  LET icms == Icms(gross, cfg)
             operation == HalfUp(icms.base * cfg.rate, 100)
             deferred == HalfUp(operation * cfg.deferment, 100)
         IN  /\ icms.cst = cfg.cst /\ icms.rate = cfg.rate
             /\ icms.reduction = cfg.reduction /\ icms.before = gross
             /\ icms.base = CASE cfg.cst \in NonTaxed -> 0
                              [] cfg.cst = "20" ->
                                   HalfUp(gross * (100 - cfg.reduction), 100)
                              [] OTHER -> gross
             /\ icms.value = operation - deferred
             /\ icms.base \in Int /\ operation \in Int /\ deferred \in Int
<1> DEFINE icms == Icms(gross, cfg)
           operation == HalfUp(icms.base * cfg.rate, 100)
           deferred == HalfUp(operation * cfg.deferment, 100)
<1>1. /\ icms.cst = cfg.cst /\ icms.rate = cfg.rate
      /\ icms.reduction = cfg.reduction /\ icms.before = gross
      /\ icms.base = CASE cfg.cst \in NonTaxed -> 0
                       [] cfg.cst = "20" -> HalfUp(gross * (100 - cfg.reduction), 100)
                       [] OTHER -> gross
      /\ icms.value = operation - deferred
  BY DEF Icms
<1>2. \A m \in Int : HalfUp(m, 100) \in Int
  BY HalfUpCents
<1>3. cfg.rate \in Int /\ cfg.reduction \in Int /\ cfg.deferment \in Int
  BY ConfigParts
<1>4. gross * (100 - cfg.reduction) \in Int
  BY <1>3
<1>5. icms.base \in Int
  <2> HIDE DEF icms
  <2> QED BY <1>1, <1>2, <1>4
<1>6. operation \in Int
  <2>1. icms.base * cfg.rate \in Int
    <3> HIDE DEF icms
    <3> QED BY <1>3, <1>5
  <2> QED BY <1>2, <2>1
<1>7. deferred \in Int
  <2>1. operation * cfg.deferment \in Int
    <3> HIDE DEF operation
    <3> QED BY <1>3, <1>6
  <2> QED BY <1>2, <2>1
<1> QED BY <1>1, <1>5, <1>6, <1>7

\* A calculated ICMS has integers.
LEMMA IcmsType ==
  ASSUME NEW cfg \in Config, NEW gross \in Int
  PROVE  Icms(gross, cfg).base \in Int /\ Icms(gross, cfg).value \in Int
<1> DEFINE icms == Icms(gross, cfg)
           operation == HalfUp(icms.base * cfg.rate, 100)
           deferred == HalfUp(operation * cfg.deferment, 100)
<1>1. /\ icms.base \in Int /\ icms.value = operation - deferred
      /\ operation \in Int /\ deferred \in Int
  BY IcmsParts
<1> HIDE DEF icms, operation, deferred
<1>2. icms.base \in Int /\ icms.value \in Int
  BY <1>1
<1> QED BY <1>2 DEF icms

\* The calculation of an item by itself puts the tax inside the base.
LEMMA IcmsInside ==
  ASSUME NEW cfg \in Config, NEW n \in Int, NEW alone
  PROVE  Inside(Icms(Gross(n, cfg), cfg), n, alone)
<1> DEFINE G == Gross(n, cfg)
           icms == Icms(G, cfg)
           B == icms.base
           O == HalfUp(B * cfg.rate, 100)
           F == HalfUp(O * cfg.deferment, 100)
           r == cfg.rate
           g == 100 - cfg.reduction
           h == 100 - cfg.deferment
<1>1. G \in Int /\ Near(n * Million, Million - (r * g) * h, G)
  BY GrossNear DEF Untaxed
<1>2. /\ icms.cst = cfg.cst /\ icms.rate = r
      /\ icms.reduction = cfg.reduction /\ icms.before = G
      /\ B = CASE cfg.cst \in NonTaxed -> 0
               [] cfg.cst = "20" -> HalfUp(G * g, 100)
               [] OTHER -> G
      /\ icms.value = O - F
      /\ B \in Int /\ O \in Int /\ F \in Int
  BY <1>1, IcmsParts
<1>3. /\ cfg.cst \in {"00", "20", "51", "90"} \cup NonTaxed
      /\ r \in 0..99 /\ g \in 0..100 /\ h \in 0..100
      /\ cfg.cst \in NonTaxed => r = 0
      /\ cfg.cst = "20" => r > 0 /\ g \in 1..99
      /\ cfg.cst \notin {"20", "51"} => g = 100
      /\ cfg.cst # "51" => h = 100
      /\ cfg.deferment = 100 - h
  <2>1. /\ cfg.cst \in {"00", "20", "51", "90"} \cup NonTaxed
        /\ cfg.rate \in 0..99 /\ cfg.reduction \in 0..100
        /\ cfg.deferment \in 0..100
        /\ cfg.cst \in NonTaxed => cfg.rate = 0
        /\ cfg.cst = "20" => cfg.rate > 0 /\ cfg.reduction \in 1..99
        /\ cfg.cst \notin {"20", "51"} => cfg.reduction = 0
        /\ cfg.cst # "51" => cfg.deferment = 0
    BY ConfigParts
  <2> QED BY <2>1
<1>4. cfg.cst \in {"00", "90"} => r > 0
  BY DEF Config
<1>5. Near(B * r, 100, O)
  <2>1. B * r \in Int
    <3> HIDE DEF B, r
    <3> QED BY <1>2, <1>3
  <2> QED BY <2>1, HalfUpCents
<1>6. Near(O * (100 - h), 100, F)
  <2>1. O * cfg.deferment \in Int /\ O * cfg.deferment = O * (100 - h)
    <3> HIDE DEF O, h
    <3> QED BY <1>2, <1>3
  <2> HIDE DEF O, h
  <2> QED BY <2>1, HalfUpCents
<1>7. h = 100 => F = 0
  <2> SUFFICES ASSUME h = 100 PROVE F = 0
    OBVIOUS
  <2> HIDE DEF O, F, h
  <2>1. O * (100 - h) = 0
    BY <1>2
  <2> QED BY <1>2, <1>6, <2>1, NearZero
<1>8. CASE cfg.cst \in {"00", "90"}
  <2>1. cfg.cst \notin NonTaxed /\ cfg.cst \notin {"20", "51"}
    BY <1>8 DEF NonTaxed
  <2>2. r \in 1..99 /\ g = 100 /\ h = 100
    <3> HIDE DEF r, g, h
    <3> QED BY <1>3, <1>4, <1>8, <2>1
  <2>3. B = G /\ F = 0
    <3> HIDE DEF B, G, F, h
    <3> QED BY <1>2, <1>7, <2>1, <2>2
  <2>4. G - O = n
    <3> HIDE DEF B, G, O, F, r, g, h
    <3>1. Near(n * Million, Million - (r * 100) * 100, G)
      BY <1>1, <2>2
    <3>2. Near(G * r, 100, O)
      BY <1>5, <2>3
    <3> QED BY <1>1, <1>2, <2>2, <3>1, <3>2, InsideWhole
  <2>5. icms.cst \in {"00", "90"} /\ icms.base - icms.value = n
    <3>1. icms.value = O
      <4> HIDE DEF icms, O, F
      <4> QED BY <1>2, <2>3
    <3> HIDE DEF icms, G, O
    <3> QED BY <1>2, <1>8, <2>3, <2>4, <3>1
  <2> HIDE DEF icms
  <2>6. Inside(icms, n, alone)
    BY <2>5 DEF Inside
  <2> QED BY <2>6 DEF icms
<1>9. CASE cfg.cst = "20"
  <2>1. cfg.cst \notin NonTaxed
    BY <1>9 DEF NonTaxed
  <2>2. r \in 1..99 /\ g \in 1..99 /\ h = 100
    <3> HIDE DEF r, g, h
    <3> QED BY <1>3, <1>9
  <2>3. B = HalfUp(G * g, 100) /\ F = 0
    <3> HIDE DEF B, G, F, g, h
    <3> QED BY <1>2, <1>7, <1>9, <2>1, <2>2
  <2>4. Near(G * g, 100, B)
    <3> HIDE DEF B, G, g
    <3>1. G * g \in Int
      BY <1>1, <2>2
    <3> QED BY <2>3, <3>1, HalfUpCents
  <2>5. G - O - n \in -1..1
    <3> HIDE DEF B, G, O, F, r, g, h
    <3>1. Near(n * Million, Million - (r * g) * 100, G)
      BY <1>1, <2>2
    <3> QED BY <1>1, <1>2, <1>5, <2>2, <2>4, <3>1, InsideReduced
  <2>6. icms.cst = "20" /\ icms.before - icms.value - n \in -1..1
    <3>1. icms.value = O
      <4> HIDE DEF icms, O, F
      <4> QED BY <1>2, <2>3
    <3> HIDE DEF icms, G, O
    <3> QED BY <1>2, <1>9, <2>5, <3>1
  <2> HIDE DEF icms
  <2>7. Inside(icms, n, alone)
    BY <2>6 DEF Inside
  <2> QED BY <2>7 DEF icms
<1>10. CASE cfg.cst = "51"
  <2>1. cfg.cst \notin NonTaxed /\ cfg.cst # "20"
    BY <1>10 DEF NonTaxed
  <2>2. B = G /\ icms.cst = "51"
    <3> HIDE DEF B, G, icms
    <3> QED BY <1>2, <1>10, <2>1
  <2>3. ASSUME 0 \in {icms.rate, icms.reduction}
        PROVE  icms.base - icms.value - n \in -1..1
    <3>1. r = 0 \/ g = 100
      <4> HIDE DEF icms
      <4> QED BY <1>2, <1>3, <2>3
    <3>2. (r * g) * h = (r * 100) * h
      <4> HIDE DEF r, g, h
      <4>1. CASE r = 0
        BY <1>3, <4>1
      <4>2. CASE g = 100
        BY <4>2
      <4> QED BY <3>1, <4>1, <4>2
    <3>3. G - (O - F) - n \in -1..1
      <4> HIDE DEF B, G, O, F, r, g, h
      <4>1. Near(n * Million, Million - (r * 100) * h, G)
        BY <1>1, <3>2
      <4>2. Near(G * r, 100, O)
        BY <1>5, <2>2
      <4> QED BY <1>1, <1>2, <1>3, <1>6, <4>1, <4>2, InsideDeferred
    <3> HIDE DEF icms, G, O, F
    <3> QED BY <1>2, <2>2, <3>3
  <2> HIDE DEF icms
  <2>4. Inside(icms, n, alone)
    BY <2>2, <2>3 DEF Inside
  <2> QED BY <2>4 DEF icms
<1>11. CASE cfg.cst \in NonTaxed
  <2>1. cfg.cst # "20" /\ cfg.cst # "51" /\ cfg.cst \notin {"00", "90"}
    BY <1>11 DEF NonTaxed
  <2>2. B = 0 /\ r = 0 /\ h = 100
    <3> HIDE DEF B, G, r, h
    <3> QED BY <1>2, <1>3, <1>11, <2>1
  <2>3. O = 0
    <3> HIDE DEF B, O, r
    <3>1. B * r = 0
      BY <2>2
    <3> QED BY <1>2, <1>5, <3>1, NearZero
  <2>4. icms.base = 0 /\ icms.value = 0 /\ icms.cst = cfg.cst
    <3>1. F = 0
      BY <1>7, <2>2
    <3> HIDE DEF icms, O, F
    <3> QED BY <1>2, <2>2, <2>3, <3>1
  <2> HIDE DEF icms
  <2>5. Inside(icms, n, alone)
    BY <2>1, <2>4 DEF Inside
  <2> QED BY <2>5 DEF icms
<1> QED BY <1>3, <1>8, <1>9, <1>10, <1>11

---------------------------------------------------------------------------
(* The rows of the drafts, between two operations *)

RowType(r) ==
    /\ DOMAIN r = Fields
    /\ r.product \in Nat \ {0} /\ r.other \in Int
    /\ r.shares \in [Costs -> Nat] /\ r.afrmm \in Nat
    /\ r.icms.base \in Int /\ r.icms.value \in Int
    /\ r.manual = None \/ r.manual \in Adjustments

\* A row r of item i in the DUIMP d, with o as its own charges: it holds them and
\* its shares once, unless its payload was replaced, and its ICMS is inside its
\* base, unless it was edited or set by hand.
RowOK(d, i, r, o, isReplaced, isEdited) ==
    /\ RowType(r)
    /\ isReplaced \/ r.other = o + SumOver(Costs, r.shares)
    /\ \/ isEdited \/ r.manual # None
       \/ Inside(r.icms, r.product + d[i].due + r.other,
                 Cardinality({j \in Items : d[j].exporter = d[i].exporter}) = 1)

\* The shares of the items S in the rows r are the costs c, and the AFRMM that is
\* totalled is their share of it, unless an item of S has a payload in strange.
PaidUp(S, r, c, strange) ==
    \/ S \cap strange # {}
    \/ /\ \A i \in S : r[i].afrmm = r[i].shares["afrmm"]
       /\ \A k \in Costs : Paid([i \in S |-> r[i].shares], k, S) = c[k]

Values ==
    /\ duimp \in Duimps /\ ruleOf \in Assignments /\ config \in [Rules -> Configs]
    /\ DOMAIN costs = Exporters
    /\ \A x \in Exporters : costs[x] = None \/ costs[x] \in [Costs -> Nat]
    /\ DOMAIN row = Items /\ own \in [Items -> Int]
    /\ fresh \subseteq {x \in Exporters : costs[x] # None}
    /\ edits \in 0..MaxEdits

PlanInv ==
    plan # None =>
      /\ plan.total \in [Costs -> Nat] /\ plan.shares \in [Items -> [Costs -> Nat]]
      /\ \A k \in Costs : Paid(plan.shares, k, Items) = plan.total[k]

RowsInv ==
    \A i \in Items :
      IF costs[duimp[i].exporter] = None THEN row[i] = None
      ELSE RowOK(duimp, i, row[i], own[i], i \in replaced, i \in edited)

PaidInv ==
    \A x \in Suppliers : costs[x] = None \/ PaidUp(ItemsOf(x), row, costs[x], sent)

DraftInv == Values /\ PlanInv /\ RowsInv /\ PaidInv

---------------------------------------------------------------------------
\* What the DUIMP and the rules say of an item.
LEMMA ItemData ==
  ASSUME Values, NEW i \in Items
  PROVE  /\ duimp[i].exporter \in Exporters /\ duimp[i].product \in Nat \ {0}
         /\ duimp[i].customs \in Nat \ {0} /\ duimp[i].weight \in Nat
         /\ duimp[i].other \in Nat /\ duimp[i].due \in Nat
         /\ config[ruleOf[i]] \in Config
<1>1. duimp[i] \in Item
  BY Data DEF Values
<1>2. config[ruleOf[i]] \in Config
  BY Data DEF Values
<1> QED BY <1>1, <1>2 DEF Item

\* The items of a document.
LEMMA DocumentItems ==
  ASSUME NEW x
  PROVE  /\ IsFiniteSet(Items) /\ IsFiniteSet(ItemsOf(x))
         /\ ItemsOf(x) \subseteq Items /\ Items \subseteq Nat /\ Items # {}
<1>1. ItemsOf(x) \subseteq Items
  BY DEF ItemsOf
<1> QED BY <1>1, Data, FS_Subset

\* What an item pays is some amount.
LEMMA SumCosts ==
  ASSUME NEW s \in [Costs -> Nat]
  PROVE  SumOver(Costs, s) \in Nat
<1>1. /\ s["afrmm"] \in Nat /\ s["siscomex_fee"] \in Nat
      /\ s["afrmm"] \in Int /\ s["siscomex_fee"] \in Int
      /\ "afrmm" # "siscomex_fee"
  BY DEF Costs
<1>2. SumOver({"afrmm", "siscomex_fee"}, s) = s["afrmm"] + s["siscomex_fee"]
  BY <1>1, SumTwo, Zenon
<1>3. SumOver(Costs, s) = s["afrmm"] + s["siscomex_fee"]
  BY <1>2, Zenon DEF Costs
<1> QED BY <1>1, <1>3

\* What an operator sets by hand is an ICMS.
LEMMA ManualType ==
  ASSUME NEW a \in Adjustments
  PROVE  a # None /\ ManualIcms(a).base \in Int /\ ManualIcms(a).value \in Int
<1> DEFINE base == IF a.cst \in NonTaxed THEN 0 ELSE a.base
           operation == IF a.cst \in NonTaxed THEN 0 ELSE HalfUp(base * a.rate, 100)
<1>1. a \in [cst : {"00", "20", "51", "90"} \cup NonTaxed, base : Nat, rate : 0..99,
              reduction : 0..99, deferment : 0..100]
  BY Data
<1>2. a # None
  BY <1>1 DEF None
<1>3. base \in Int /\ a.rate \in Int /\ a.deferment \in Int
  BY <1>1
<1>4. /\ ManualIcms(a).base = base
      /\ ManualIcms(a).value = operation - HalfUp(operation * a.deferment, 100)
  BY DEF ManualIcms
<1>5. \A m \in Int : HalfUp(m, 100) \in Int
  BY HalfUpCents
<1>6. operation \in Int
  <2>1. base * a.rate \in Int
    <3> HIDE DEF base
    <3> QED BY <1>3
  <2> HIDE DEF base
  <2> QED BY <1>5, <2>1
<1>7. HalfUp(operation * a.deferment, 100) \in Int
  <2>1. operation * a.deferment \in Int
    <3> HIDE DEF operation
    <3> QED BY <1>3, <1>6
  <2> QED BY <1>5, <2>1
<1> HIDE DEF base, operation
<1> QED BY <1>2, <1>3, <1>4, <1>6, <1>7

\* The ICMS of a row on its own is inside its base.
LEMMA RowIcmsOK ==
  ASSUME Values, NEW i \in Items, row[i].product \in Nat \ {0},
         NEW other \in Int, NEW alone
  PROVE  /\ RowIcms(i, other).base \in Int /\ RowIcms(i, other).value \in Int
         /\ Inside(RowIcms(i, other), row[i].product + duimp[i].due + other, alone)
<1> DEFINE cfg == config[ruleOf[i]]
           n == row[i].product + duimp[i].due + other
<1>1. cfg \in Config /\ n \in Int
  BY ItemData
<1>2. RowIcms(i, other) = Icms(Gross(n, cfg), cfg)
  BY DEF RowIcms
<1> HIDE DEF cfg, n
<1>3. Gross(n, cfg) \in Int
  BY <1>1, GrossNear
<1>4. Icms(Gross(n, cfg), cfg).base \in Int /\ Icms(Gross(n, cfg), cfg).value \in Int
  BY <1>1, <1>3, IcmsType
<1>5. Inside(Icms(Gross(n, cfg), cfg), n, alone)
  BY <1>1, IcmsInside
<1> QED BY <1>2, <1>4, <1>5 DEF n

\* So is the first ICMS of an item, calculated with the others of its document or
\* by itself.
LEMMA FirstIcmsOK ==
  ASSUME Values, NEW x, NEW i \in ItemsOf(x), NEW num, \A j \in ItemsOf(x) : num[j] \in Int
  PROVE  /\ FirstIcms(x, num)[i].base \in Int /\ FirstIcms(x, num)[i].value \in Int
         /\ Inside(FirstIcms(x, num)[i], num[i], Cardinality(ItemsOf(x)) = 1)
<1> DEFINE S == ItemsOf(x)
           Cfg(j) == config[ruleOf[j]]
           together == \A j, k \in S :
             ruleOf[j] = ruleOf[k] /\ Cfg(j).cst = "51" /\ ~Cfg(j).perItem
           cfg == Cfg(i)
           all == SumOver(S, num)
           total == Gross(all, cfg)
           part == Split(total, Customs, S)
           icms == FirstIcms(x, num)[i]
<1>1. i \in Items /\ cfg \in Config /\ num[i] \in Int
  BY ItemData, DocumentItems
<1>2. icms = Icms(IF together THEN part[i] ELSE Gross(num[i], cfg), cfg)
  BY DEF FirstIcms
<1>3. CASE ~together
  <2>1. icms = Icms(Gross(num[i], cfg), cfg)
    BY <1>2, <1>3
  <2> HIDE DEF cfg, icms
  <2>2. Gross(num[i], cfg) \in Int
    BY <1>1, GrossNear
  <2>3. icms.base \in Int /\ icms.value \in Int
    BY <1>1, <2>1, <2>2, IcmsType
  <2>4. Inside(icms, num[i], Cardinality(S) = 1)
    BY <1>1, <2>1, IcmsInside
  <2> QED BY <2>3, <2>4 DEF icms
<1>4. CASE together
  <2>1. cfg.cst = "51"
    BY <1>4
  <2>2. icms = Icms(part[i], cfg)
    BY <1>2, <1>4
  <2>3. /\ IsFiniteSet(S) /\ S # {} /\ S \subseteq Nat
        /\ \A j \in S : Customs[j] \in Nat \ {0}
    <3>1. \A j \in S : Customs[j] \in Nat \ {0}
      BY ItemData, DocumentItems DEF Customs
    <3> QED BY <3>1, DocumentItems
  <2> HIDE DEF S, cfg, icms
  <2>4. all \in Int
    BY <2>3, SumType DEF S
  <2> HIDE DEF all
  <2>5. total \in Int
    BY <1>1, <2>4, GrossNear
  <2> HIDE DEF total
  <2>6. SumOver(S, part) = total /\ part[i] \in Int
    BY <2>3, <2>5, SplitAddsUp DEF S
  <2> HIDE DEF part
  <2>7. icms.base \in Int /\ icms.value \in Int
    BY <1>1, <2>2, <2>6, IcmsType
  <2>8. icms.cst = "51"
    BY <1>1, <2>1, <2>2, <2>6, IcmsParts
  <2>9. Inside(icms, num[i], Cardinality(S) = 1)
    <3>1. ASSUME Cardinality(S) = 1 PROVE Inside(icms, num[i], TRUE)
      <4>1. S = {i}
        BY <2>3, <3>1, FS_Singleton DEF S
      <4>2. all = num[i]
        BY <1>1, <4>1, SumOne DEF all
      <4>3. part[i] = total
        BY <2>6, <4>1, SumOne
      <4>4. icms = Icms(Gross(num[i], cfg), cfg)
        BY <2>2, <4>2, <4>3 DEF total
      <4> QED BY <1>1, <4>4, IcmsInside
    <3>2. ASSUME Cardinality(S) # 1 PROVE Inside(icms, num[i], FALSE)
      BY <2>8 DEF Inside
    <3>3. CASE Cardinality(S) = 1
      BY <3>1, <3>3 DEF Inside
    <3>4. CASE Cardinality(S) # 1
      BY <2>8, <3>4 DEF Inside
    <3> QED BY <3>3, <3>4
  <2> QED BY <2>7, <2>9 DEF S, icms
<1> HIDE DEF together
<1> QED BY <1>3, <1>4

\* The rows of a new draft are sound.
LEMMA FirstRowOK ==
  ASSUME Values, NEW x, NEW i \in ItemsOf(x), NEW shares,
         \A j \in ItemsOf(x) : shares[j] \in [Costs -> Nat],
         NEW isReplaced, NEW isEdited
  PROVE  RowOK(duimp, i, FirstRow(x, i, shares), duimp[i].other, isReplaced, isEdited)
<1> DEFINE S == ItemsOf(x)
           r == FirstRow(x, i, shares)
           other == [j \in S |-> duimp[j].other + SumOver(Costs, shares[j])]
           num == [j \in S |-> duimp[j].product + duimp[j].due + other[j]]
<1>1. /\ DOMAIN r = Fields
      /\ r.product = duimp[i].product /\ r.other = other[i] /\ r.shares = shares[i]
      /\ r.afrmm = shares[i]["afrmm"]
      /\ r.icms = FirstIcms(x, num)[i] /\ r.manual = None
  <2>1. r = [product |-> duimp[i].product, other |-> other[i], shares |-> shares[i],
             afrmm |-> shares[i]["afrmm"],
             icms |-> [j \in {i} |-> FirstIcms(x, num)[j]][i], manual |-> None]
    BY DEF FirstRow
  <2> HIDE DEF r, other, num
  <2> QED BY <2>1 DEF Fields
<1>2. \A j \in S : /\ duimp[j].product \in Nat \ {0} /\ duimp[j].due \in Nat
                   /\ other[j] \in Int /\ num[j] \in Int
  <2>1. ASSUME NEW j \in S
        PROVE  /\ duimp[j].product \in Nat \ {0} /\ duimp[j].due \in Nat
               /\ other[j] \in Int /\ num[j] \in Int
    <3>1. /\ duimp[j].product \in Nat \ {0} /\ duimp[j].due \in Nat
          /\ duimp[j].other \in Nat
      BY ItemData, DocumentItems
    <3>2. SumOver(Costs, shares[j]) \in Nat
      BY SumCosts
    <3>3. other[j] \in Int
      BY <3>1, <3>2
    <3> HIDE DEF other
    <3> QED BY <3>1, <3>3
  <2> QED BY <2>1
<1>3. num[i] = r.product + duimp[i].due + r.other
  <2> HIDE DEF r, other
  <2> QED BY <1>1
<1>4. other[i] = duimp[i].other + SumOver(Costs, shares[i])
  OBVIOUS
<1>5. S = {j \in Items : duimp[j].exporter = duimp[i].exporter}
  BY DEF ItemsOf
<1> HIDE DEF other, num, r
<1>6. r.icms.base \in Int /\ r.icms.value \in Int
      /\ Inside(r.icms, num[i], Cardinality(S) = 1)
  BY <1>1, <1>2, FirstIcmsOK
<1> HIDE DEF S
<1>7. RowType(r)
  <2>1. shares[i]["afrmm"] \in Nat
    BY DEF Costs
  <2> QED BY <1>1, <1>2, <1>6, <2>1 DEF RowType, S
<1>8. r.other = duimp[i].other + SumOver(Costs, r.shares)
  BY <1>1, <1>4
<1>9. Inside(r.icms, r.product + duimp[i].due + r.other,
             Cardinality({j \in Items : duimp[j].exporter = duimp[i].exporter}) = 1)
  BY <1>3, <1>5, <1>6
<1> QED BY <1>7, <1>8, <1>9 DEF RowOK, r

\* A division of the costs leaves a row sound, whatever an edit did to it.
LEMMA RecalculatedOK ==
  ASSUME Values, NEW i \in Items, NEW isReplaced, NEW isEdited, NEW wasEdited,
         RowOK(duimp, i, row[i], own[i], isReplaced, wasEdited),
         NEW shares \in [Costs -> Nat]
  PROVE  RowOK(duimp, i, Recalculated(i, shares), own[i], isReplaced, isEdited)
<1> DEFINE r == Recalculated(i, shares)
           other == OwnOther(i) + SumOver(Costs, shares)
           alone == Cardinality({j \in Items : duimp[j].exporter = duimp[i].exporter}) = 1
<1>1. RowType(row[i])
  BY DEF RowOK
<1>2. /\ DOMAIN r = Fields
      /\ r.product = row[i].product /\ r.other = other /\ r.shares = shares
      /\ r.afrmm = shares["afrmm"]
      /\ r.icms = (IF row[i].manual # None THEN ManualIcms(row[i].manual)
                   ELSE RowIcms(i, other))
      /\ r.manual = row[i].manual
  <2>1. DOMAIN row[i] = Fields
    BY <1>1 DEF RowType
  <2>2. r = [row[i] EXCEPT !.other = other, !.shares = shares,
               !.afrmm = shares["afrmm"],
               !.icms = IF row[i].manual # None THEN ManualIcms(row[i].manual)
                        ELSE RowIcms(i, other)]
    BY DEF Recalculated
  <2> HIDE DEF r, other
  <2> QED BY <2>1, <2>2 DEF Fields
<1>3. /\ SumOver(Costs, shares) \in Nat /\ SumOver(Costs, row[i].shares) \in Nat
      /\ row[i].other \in Int /\ own[i] \in Int
      /\ row[i].product \in Nat \ {0}
  BY <1>1, SumCosts DEF RowType, Values
<1>4. other \in Int
  BY <1>3 DEF OwnOther
<1>5. isReplaced \/ other = own[i] + SumOver(Costs, shares)
  <2>1. isReplaced \/ row[i].other = own[i] + SumOver(Costs, row[i].shares)
    BY DEF RowOK
  <2> QED BY <1>3, <2>1 DEF OwnOther
<1> HIDE DEF r, other, alone
<1>6. r.icms.base \in Int /\ r.icms.value \in Int
  <2>1. CASE row[i].manual # None
    BY <1>1, <1>2, <2>1, ManualType DEF RowType
  <2>2. CASE row[i].manual = None
    BY <1>2, <1>3, <1>4, <2>2, RowIcmsOK
  <2> QED BY <2>1, <2>2
<1>7. r.manual # None \/ Inside(r.icms, r.product + duimp[i].due + r.other, alone)
  BY <1>2, <1>3, <1>4, RowIcmsOK
<1>8. RowType(r)
  <2>1. shares["afrmm"] \in Nat
    BY DEF Costs
  <2> QED BY <1>1, <1>2, <1>3, <1>4, <1>6, <2>1 DEF RowType
<1>9. isReplaced \/ r.other = own[i] + SumOver(Costs, r.shares)
  BY <1>2, <1>5
<1> QED BY <1>7, <1>8, <1>9 DEF RowOK, r, alone

\* Rows that keep their shares keep their sums.
LEMMA PaidStays ==
  ASSUME NEW S, NEW r, NEW q, NEW c, NEW old, NEW new, S \cap old \subseteq new,
         \A j \in S : q[j].shares = r[j].shares /\ q[j].afrmm = r[j].afrmm,
         PaidUp(S, r, c, old)
  PROVE  PaidUp(S, q, c, new)
<1>1. [j \in S |-> q[j].shares] = [j \in S |-> r[j].shares]
  OBVIOUS
<1> QED BY <1>1 DEF PaidUp

\* Nothing but the rows and their costs decides of the drafts.
LEMMA SameRows ==
  ASSUME DraftInv, UNCHANGED <<duimp, costs, row, edited, replaced, sent, own>>, Values', PlanInv'
  PROVE  DraftInv'
<1>1. RowsInv'
  BY DEF DraftInv, RowsInv
<1>2. PaidInv'
  BY DEF DraftInv, PaidInv, Suppliers, ItemsOf
<1> QED BY <1>1, <1>2 DEF DraftInv

\* One sound row takes the place of another.
LEMMA WriteOK ==
  ASSUME DraftInv, NEW i \in Items, row[i] # None, edits < MaxEdits, NEW r, Write(i, r),
         UNCHANGED <<duimp, ruleOf, config, plan, costs>>,
         NEW o \in Int, own' = [own EXCEPT ![i] = o],
         replaced \subseteq replaced', sent \subseteq sent',
         \A j \in Items \ {i} : /\ j \in replaced' => j \in replaced
                                /\ j \in edited' <=> j \in edited,
         RowOK(duimp, i, r, o, i \in replaced', i \in edited'),
         i \in sent' \/ (r.shares = row[i].shares /\ r.afrmm = row[i].afrmm)
  PROVE  DraftInv'
<1>1. /\ row' = [row EXCEPT ![i] = r] /\ edits' = edits + 1
      /\ fresh' = fresh \ {duimp[i].exporter}
  BY DEF Write, Unweighted
<1>2. DOMAIN row = Items /\ own \in [Items -> Int] /\ edits \in 0..MaxEdits
  BY DEF DraftInv, Values
<1>3. /\ row'[i] = r /\ own'[i] = o
      /\ \A j \in Items \ {i} : row'[j] = row[j] /\ own'[j] = own[j]
  BY <1>1, <1>2
<1>4. Values'
  <2>1. edits' \in 0..MaxEdits
    BY <1>1, <1>2, Data
  <2>2. DOMAIN row' = Items /\ own' \in [Items -> Int]
    BY <1>1, <1>2
  <2>3. fresh' \subseteq {x \in Exporters : costs[x] # None}
    BY <1>1 DEF DraftInv, Values
  <2> QED BY <2>1, <2>2, <2>3 DEF DraftInv, Values
<1>5. PlanInv'
  BY DEF DraftInv, PlanInv
<1>6. RowsInv'
  <2>1. costs[duimp[i].exporter] # None
    BY DEF DraftInv, RowsInv
  <2>2. ASSUME NEW j \in Items
        PROVE  IF costs[duimp[j].exporter] = None THEN row'[j] = None
               ELSE RowOK(duimp, j, row'[j], own'[j], j \in replaced', j \in edited')
    <3>1. CASE j = i
      BY <1>3, <2>1, <3>1
    <3>2. CASE j # i
      <4>1. row'[j] = row[j] /\ own'[j] = own[j]
            /\ (j \in replaced' <=> j \in replaced) /\ (j \in edited' <=> j \in edited)
        BY <1>3, <3>2
      <4>2. IF costs[duimp[j].exporter] = None THEN row[j] = None
            ELSE RowOK(duimp, j, row[j], own[j], j \in replaced, j \in edited)
        BY DEF DraftInv, RowsInv
      <4> QED BY <4>1, <4>2 DEF RowOK
    <3> QED BY <3>1, <3>2
  <2> QED BY <2>2 DEF RowsInv
<1>7. PaidInv'
  <2>1. ASSUME NEW x \in Suppliers
        PROVE  costs[x] = None \/ PaidUp(ItemsOf(x), row', costs[x], sent')
    <3>1. costs[x] = None \/ PaidUp(ItemsOf(x), row, costs[x], sent)
      BY DEF DraftInv, PaidInv
    <3>2. CASE i \in ItemsOf(x) \cap sent'
      BY <3>2 DEF PaidUp
    <3>3. CASE i \notin ItemsOf(x) \cap sent'
      <4>1. \A j \in ItemsOf(x) :
              row'[j].shares = row[j].shares /\ row'[j].afrmm = row[j].afrmm
        BY <1>3, <3>3, DocumentItems
      <4> QED BY <3>1, <4>1, PaidStays
    <3> QED BY <3>2, <3>3
  <2> QED BY <2>1 DEF PaidInv, Suppliers, ItemsOf
<1> QED BY <1>4, <1>5, <1>6, <1>7 DEF DraftInv

\* What is known of the row of an item that has one.
LEMMA DraftedRow ==
  ASSUME DraftInv, NEW i \in Items, i \in Drafted
  PROVE  /\ Values /\ row[i] # None
         /\ RowOK(duimp, i, row[i], own[i], i \in replaced, i \in edited)
         /\ RowType(row[i]) /\ own[i] \in Int
         /\ SumOver(Costs, row[i].shares) \in Nat
<1>1. row[i] # None /\ Values
  BY DEF Drafted, DraftInv
<1>2. RowOK(duimp, i, row[i], own[i], i \in replaced, i \in edited)
  BY <1>1 DEF DraftInv, RowsInv
<1>3. RowType(row[i])
  BY <1>2 DEF RowOK
<1>4. SumOver(Costs, row[i].shares) \in Nat
  BY <1>3, SumCosts DEF RowType
<1> QED BY <1>1, <1>2, <1>3, <1>4 DEF Values

---------------------------------------------------------------------------
(* One lemma per action *)

LEMMA UpdateItemOK ==
  ASSUME DraftInv, NEW i \in Items, UpdateItem(i) PROVE DraftInv'
<1>1. PICK p \in Products \cup {row[i].product}, o \in Others \cup {row[i].other} :
        /\ Write(i, [row[i] EXCEPT !.product = p, !.other = o])
        /\ own' = [own EXCEPT ![i] = o - SumOver(Costs, row[i].shares)]
  BY DEF UpdateItem
<1>2. /\ i \in Drafted /\ edits < MaxEdits
      /\ edited' = edited \cup {i} /\ replaced' = replaced /\ sent' = sent
      /\ UNCHANGED <<duimp, ruleOf, config, plan, costs>>
  BY DEF UpdateItem, Editable
<1> DEFINE r == [row[i] EXCEPT !.product = p, !.other = o]
           mine == o - SumOver(Costs, row[i].shares)
<1>3. RowType(row[i]) /\ SumOver(Costs, row[i].shares) \in Nat /\ row[i] # None
  BY <1>2, DraftedRow
<1>4. p \in Nat \ {0} /\ o \in Int
  <2>1. row[i].product \in Nat \ {0} /\ row[i].other \in Int
    BY <1>3 DEF RowType
  <2>2. Products \subseteq Nat \ {0} /\ Others \subseteq Nat
    BY Data
  <2>3. p \in Nat \ {0}
    BY <2>1, <2>2
  <2>4. o \in Int
    BY <2>1, <2>2
  <2> QED BY <2>3, <2>4
<1>5. /\ DOMAIN r = Fields /\ r.product = p /\ r.other = o
      /\ r.shares = row[i].shares /\ r.afrmm = row[i].afrmm
      /\ r.icms = row[i].icms /\ r.manual = row[i].manual
  BY <1>3 DEF RowType, Fields
<1> HIDE DEF r
<1>6. RowType(r)
  BY <1>3, <1>4, <1>5 DEF RowType
<1>7. mine \in Int /\ r.other = mine + SumOver(Costs, r.shares)
  BY <1>3, <1>4, <1>5
<1> HIDE DEF mine
<1>8. RowOK(duimp, i, r, mine, i \in replaced', i \in edited')
  BY <1>2, <1>6, <1>7 DEF RowOK
<1>9. Write(i, r) /\ own' = [own EXCEPT ![i] = mine]
  BY <1>1 DEF r, mine
<1> QED BY <1>2, <1>3, <1>5, <1>7, <1>8, <1>9, WriteOK

LEMMA ReplacePayloadOK ==
  ASSUME DraftInv, NEW i \in Items, ReplacePayload(i) PROVE DraftInv'
<1>1. PICK p \in Payloads \cup {NoPayload} :
        Write(i, [row[i] EXCEPT !.shares = p.shares, !.afrmm = p.afrmm])
  BY DEF ReplacePayload
<1>2. /\ i \in Drafted /\ edits < MaxEdits
      /\ edited' = edited /\ replaced' = replaced \cup {i} /\ sent' = sent \cup {i}
      /\ own' = own /\ UNCHANGED <<duimp, ruleOf, config, plan, costs>>
  BY DEF ReplacePayload, Editable
<1> DEFINE r == [row[i] EXCEPT !.shares = p.shares, !.afrmm = p.afrmm]
<1>3. /\ RowOK(duimp, i, row[i], own[i], i \in replaced, i \in edited)
      /\ RowType(row[i]) /\ row[i] # None /\ own[i] \in Int /\ own \in [Items -> Int]
  BY <1>2, DraftedRow DEF Values
<1>4. p.shares \in [Costs -> Nat] /\ p.afrmm \in Nat
  <2>1. NoPayload.shares \in [Costs -> Nat] /\ NoPayload.afrmm \in Nat
    BY DEF NoPayload
  <2>2. \A q \in Payloads : q.shares \in [Costs -> Nat] /\ q.afrmm \in Nat
    BY Data DEF Payload
  <2> QED BY <2>1, <2>2
<1>5. /\ DOMAIN r = Fields /\ r.product = row[i].product /\ r.other = row[i].other
      /\ r.shares = p.shares /\ r.afrmm = p.afrmm
      /\ r.icms = row[i].icms /\ r.manual = row[i].manual
  BY <1>3 DEF RowType, Fields
<1>6. Write(i, r)
  BY <1>1
<1> HIDE DEF r
<1>7. RowType(r)
  BY <1>3, <1>4, <1>5 DEF RowType
<1>8. RowOK(duimp, i, r, own[i], i \in replaced', i \in edited')
  BY <1>2, <1>3, <1>5, <1>7 DEF RowOK
<1>9. own' = [own EXCEPT ![i] = own[i]]
  BY <1>2, <1>3
<1> QED BY <1>2, <1>3, <1>6, <1>8, <1>9, WriteOK

LEMMA AdjustIcmsOK ==
  ASSUME DraftInv, NEW i \in Items, AdjustIcms(i) PROVE DraftInv'
<1>1. PICK a \in Adjustments :
        Write(i, [row[i] EXCEPT !.icms = ManualIcms(a), !.manual = a])
  BY DEF AdjustIcms
<1>2. /\ i \in Drafted /\ edits < MaxEdits
      /\ edited' = edited /\ replaced' = replaced /\ sent' = sent /\ own' = own
      /\ UNCHANGED <<duimp, ruleOf, config, plan, costs>>
  BY DEF AdjustIcms, Editable
<1> DEFINE r == [row[i] EXCEPT !.icms = ManualIcms(a), !.manual = a]
<1>3. /\ RowOK(duimp, i, row[i], own[i], i \in replaced, i \in edited)
      /\ RowType(row[i]) /\ row[i] # None /\ own[i] \in Int /\ own \in [Items -> Int]
  BY <1>2, DraftedRow DEF Values
<1>4. /\ DOMAIN r = Fields /\ r.product = row[i].product /\ r.other = row[i].other
      /\ r.shares = row[i].shares /\ r.afrmm = row[i].afrmm
      /\ r.icms = ManualIcms(a) /\ r.manual = a
  BY <1>3 DEF RowType, Fields
<1> HIDE DEF r
<1>5. RowType(r) /\ r.manual # None
  BY <1>3, <1>4, ManualType DEF RowType
<1>6. RowOK(duimp, i, r, own[i], i \in replaced', i \in edited')
  BY <1>2, <1>3, <1>4, <1>5 DEF RowOK
<1>7. own' = [own EXCEPT ![i] = own[i]] /\ Write(i, r)
  BY <1>1, <1>2, <1>3 DEF r
<1> QED BY <1>2, <1>3, <1>4, <1>6, <1>7, WriteOK

LEMMA ReapplyRuleOK ==
  ASSUME DraftInv, NEW i \in Items, ReapplyRule(i) PROVE DraftInv'
<1> DEFINE icms == RowIcms(i, row[i].other)
           r == [row[i] EXCEPT !.icms = icms, !.manual = None]
           alone == Cardinality({j \in Items : duimp[j].exporter = duimp[i].exporter}) = 1
<1>1. /\ Write(i, r) /\ i \in Drafted /\ edits < MaxEdits
      /\ edited' = edited \ {i} /\ replaced' = replaced /\ sent' = sent /\ own' = own
      /\ UNCHANGED <<duimp, ruleOf, config, plan, costs>>
  BY DEF ReapplyRule, Editable
<1>2. /\ RowOK(duimp, i, row[i], own[i], i \in replaced, i \in edited) /\ Values
      /\ RowType(row[i]) /\ row[i] # None /\ own[i] \in Int /\ own \in [Items -> Int]
  BY <1>1, DraftedRow DEF Values
<1>3. /\ DOMAIN r = Fields /\ r.product = row[i].product /\ r.other = row[i].other
      /\ r.shares = row[i].shares /\ r.afrmm = row[i].afrmm
      /\ r.icms = icms /\ r.manual = None
  BY <1>2 DEF RowType, Fields
<1>4. row[i].product \in Nat \ {0} /\ row[i].other \in Int
  BY <1>2 DEF RowType
<1> HIDE DEF r, alone
<1>5. /\ icms.base \in Int /\ icms.value \in Int
      /\ Inside(icms, row[i].product + duimp[i].due + row[i].other, alone)
  BY <1>2, <1>4, RowIcmsOK
<1> HIDE DEF icms
<1>6. RowType(r)
  BY <1>2, <1>3, <1>5 DEF RowType
<1>7. RowOK(duimp, i, r, own[i], i \in replaced', i \in edited')
  <2>1. Inside(r.icms, r.product + duimp[i].due + r.other, alone)
    BY <1>3, <1>5
  <2>2. i \in replaced' \/ r.other = own[i] + SumOver(Costs, r.shares)
    BY <1>1, <1>2, <1>3 DEF RowOK
  <2> QED BY <1>6, <2>1, <2>2 DEF RowOK, alone
<1>8. own' = [own EXCEPT ![i] = own[i]]
  BY <1>1, <1>2
<1> QED BY <1>1, <1>2, <1>3, <1>7, <1>8, WriteOK

\* What the items pay of a cost is the sum of their shares of it.
LEMMA PaidSum ==
  ASSUME NEW S, IsFiniteSet(S), NEW s, NEW k, NEW f, \A i \in S : s[i][k] = f[i]
  PROVE  Paid(s, k, S) = SumOver(S, f)
<1>1. \A i \in S : [j \in S |-> s[j][k]][i] = f[i]
  OBVIOUS
<1> QED BY <1>1, SumSame DEF Paid

\* It is some amount.
LEMMA PaidType ==
  ASSUME NEW S, IsFiniteSet(S), NEW s, NEW k \in Costs, \A i \in S : s[i] \in [Costs -> Nat]
  PROVE  Paid(s, k, S) \in Nat
<1> DEFINE f == [i \in S |-> s[i][k]]
<1>1. \A i \in S : f[i] \in Int /\ 0 <= f[i]
  OBVIOUS
<1> HIDE DEF f
<1>2. 0 * Cardinality(S) <= SumOver(S, f) /\ SumOver(S, f) \in Int
  BY <1>1, SumAtLeast, SumType
<1>3. 0 * Cardinality(S) = 0
  BY FS_CardinalityType
<1> QED BY <1>2, <1>3 DEF Paid, f

\* D[k] divides the cost c[k] over the items S.
Divides(D, c, S) ==
    \A k \in Costs : SumOver(S, D[k]) = c[k] /\ \A i \in S : D[k][i] \in Nat

\* s holds the shares of each item.
SharesOf(D, s, S) == \A i \in S : s[i] = [k \in Costs |-> D[k][i]]

\* Costs that are divided one by one are shares of the items.
LEMMA DividedCosts ==
  ASSUME NEW S, IsFiniteSet(S), NEW c \in [Costs -> Nat], NEW D, Divides(D, c, S),
         NEW s, SharesOf(D, s, S)
  PROVE  /\ \A i \in S : s[i] \in [Costs -> Nat]
         /\ \A k \in Costs : Paid(s, k, S) = c[k]
<1>1. ASSUME NEW i \in S PROVE s[i] \in [Costs -> Nat]
  <2>1. s[i] = [k \in Costs |-> D[k][i]] /\ \A k \in Costs : D[k][i] \in Nat
    BY DEF Divides, SharesOf
  <2> QED BY <2>1, Zenon
<1>2. ASSUME NEW k \in Costs PROVE Paid(s, k, S) = c[k]
  <2>1. \A i \in S : s[i][k] = D[k][i]
    BY DEF SharesOf
  <2>2. Paid(s, k, S) = SumOver(S, D[k])
    BY <2>1, PaidSum
  <2> QED BY <2>2 DEF Divides
<1> QED BY <1>1, <1>2

\* A document gets its rows, with shares that add up to its costs.
LEMMA NewDraftOK ==
  ASSUME DraftInv, NEW x \in Suppliers, costs[x] = None, NEW c \in [Costs -> Nat], NEW shares,
         \A j \in ItemsOf(x) : shares[j] \in [Costs -> Nat],
         \A k \in Costs : Paid(shares, k, ItemsOf(x)) = c[k],
         NewDraft(x, c, shares)
  PROVE  DraftInv'
<1> DEFINE S == ItemsOf(x)
<1>1. /\ costs' = [costs EXCEPT ![x] = c] /\ fresh' = fresh \cup {x}
      /\ row' = [i \in Items |-> IF i \in S THEN FirstRow(x, i, shares) ELSE row[i]]
      /\ own' = [i \in Items |-> IF i \in S THEN duimp[i].other ELSE own[i]]
      /\ UNCHANGED <<duimp, ruleOf, config, plan, edits, edited, replaced, sent>>
  BY DEF NewDraft
<1>2. /\ Values /\ x \in Exporters /\ c # None
      /\ \A i \in Items : i \in S <=> duimp[i].exporter = x
  BY ItemData, CostsAreThere DEF DraftInv, Suppliers, ItemsOf
<1>3. DOMAIN costs = Exporters
  BY <1>2 DEF Values
<1>4. Values'
  <2>1. own' \in [Items -> Int]
    BY <1>1, <1>2, ItemData DEF Values
  <2>2. DOMAIN costs' = Exporters
        /\ \A y \in Exporters : costs'[y] = None \/ costs'[y] \in [Costs -> Nat]
    BY <1>1, <1>2, <1>3 DEF Values
  <2>3. fresh' \subseteq {y \in Exporters : costs'[y] # None}
    BY <1>1, <1>2, <1>3 DEF Values
  <2>4. DOMAIN row' = Items
    BY <1>1
  <2> QED BY <1>1, <1>2, <2>1, <2>2, <2>3, <2>4 DEF Values
<1>5. PlanInv'
  BY <1>1 DEF DraftInv, PlanInv
<1>6. RowsInv'
  <2>1. ASSUME NEW i \in Items
        PROVE  IF costs'[duimp[i].exporter] = None THEN row'[i] = None
               ELSE RowOK(duimp, i, row'[i], own'[i], i \in replaced, i \in edited)
    <3>1. CASE i \in S
      <4>1. RowOK(duimp, i, FirstRow(x, i, shares), duimp[i].other,
                  i \in replaced, i \in edited)
        BY <1>2, <3>1, FirstRowOK
      <4> QED BY <1>1, <1>2, <1>3, <3>1, <4>1
    <3>2. CASE i \notin S
      <4>1. row'[i] = row[i] /\ own'[i] = own[i]
        BY <1>1, <3>2
      <4>2. costs'[duimp[i].exporter] = costs[duimp[i].exporter]
        BY <1>1, <1>2, <1>3, <3>2, ItemData
      <4>3. IF costs[duimp[i].exporter] = None THEN row[i] = None
            ELSE RowOK(duimp, i, row[i], own[i], i \in replaced, i \in edited)
        BY DEF DraftInv, RowsInv
      <4> QED BY <4>1, <4>2, <4>3
    <3> QED BY <3>1, <3>2
  <2> QED BY <1>1, <2>1 DEF RowsInv
<1>7. PaidInv'
  <2>1. ASSUME NEW y \in Suppliers
        PROVE  costs'[y] = None \/ PaidUp(ItemsOf(y), row', costs'[y], sent)
    <3>1. CASE y = x
      <4>1. \A i \in S : row'[i].shares = shares[i] /\ row'[i].afrmm = shares[i]["afrmm"]
        BY <1>1, DocumentItems DEF FirstRow
      <4>2. \A k \in Costs : Paid([i \in S |-> row'[i].shares], k, S) = c[k]
        <5>1. ASSUME NEW k \in Costs
              PROVE  Paid([i \in S |-> row'[i].shares], k, S) = c[k]
          <6>1. \A i \in S : [j \in S |-> row'[j].shares][i][k] = [j \in S |-> shares[j][k]][i]
            BY <4>1
          <6>2. Paid([i \in S |-> row'[i].shares], k, S)
                  = SumOver(S, [j \in S |-> shares[j][k]])
            BY <6>1, PaidSum, DocumentItems
          <6> QED BY <6>2 DEF Paid
        <5> QED BY <5>1
      <4>3. costs'[x] = c
        BY <1>1, <1>2, <1>3
      <4> QED BY <3>1, <4>1, <4>2, <4>3 DEF PaidUp
    <3>2. CASE y # x
      <4>1. y \in Exporters
        BY <1>2, ItemData DEF Suppliers
      <4>2. costs'[y] = costs[y]
        BY <1>1, <1>2, <1>3, <3>2, <4>1
      <4>3. \A i \in ItemsOf(y) :
              row'[i].shares = row[i].shares /\ row'[i].afrmm = row[i].afrmm
        BY <1>1, <3>2 DEF ItemsOf
      <4>4. costs[y] = None \/ PaidUp(ItemsOf(y), row, costs[y], sent)
        BY DEF DraftInv, PaidInv
      <4> QED BY <4>2, <4>3, <4>4, PaidStays
    <3> QED BY <3>1, <3>2
  <2>2. duimp' = duimp /\ sent' = sent
    BY <1>1
  <2> QED BY <2>1, <2>2 DEF PaidInv, Suppliers, ItemsOf
<1> QED BY <1>4, <1>5, <1>6, <1>7 DEF DraftInv

\* The draft of a planned document.
LEMMA GenerateChildOK ==
  ASSUME DraftInv, NEW x \in Exporters, GenerateChild(x) PROVE DraftInv'
<1> DEFINE S == ItemsOf(x)
           shares == [i \in S |-> plan.shares[i]]
           c == [k \in Costs |-> Paid(shares, k, S)]
<1>1. plan # None /\ x \in Suppliers /\ costs[x] = None /\ NewDraft(x, c, shares)
  BY DEF GenerateChild
<1>2. \A j \in S : shares[j] \in [Costs -> Nat]
  BY <1>1, DocumentItems DEF DraftInv, PlanInv
<1>3. IsFiniteSet(S)
  BY DocumentItems
<1> HIDE DEF S, shares
<1>4. c \in [Costs -> Nat]
  BY <1>2, <1>3, PaidType
<1>5. \A k \in Costs : Paid(shares, k, S) = c[k]
  OBVIOUS
<1> HIDE DEF c
<1> QED BY <1>1, <1>2, <1>4, <1>5, NewDraftOK DEF S

\* A draft without a plan: every cost it divides is divided to the cent.
LEMMA CreateDraftOK ==
  ASSUME DraftInv, NEW x \in Exporters, CreateDraft(x) PROVE DraftInv'
<1>1. PICK c \in CostChoices :
        /\ Calculable(c)
        /\ NewDraft(x, c, [i \in Items |-> [k \in Costs |-> FirstShare(k, c[k], Items)[i]]])
  BY DEF CreateDraft
<1> DEFINE D == [k \in Costs |-> FirstShare(k, c[k], Items)]
           shares == [i \in Items |-> [k \in Costs |-> FirstShare(k, c[k], Items)[i]]]
<1>2. Suppliers = {x} /\ costs[x] = None /\ c \in [Costs -> Nat] /\ Values
  BY Data DEF CreateDraft, DraftInv
<1>3. ItemsOf(x) = Items
  BY <1>2 DEF Suppliers, ItemsOf
<1>4. ASSUME NEW k \in Costs
      PROVE  SumOver(Items, D[k]) = c[k] /\ \A i \in Items : D[k][i] \in Nat
  <2> DEFINE w == IF k = "afrmm" /\ Cardinality(Items) > 1 THEN Weights ELSE Customs
  <2>1. D[k] = Split(c[k], w, Items)
    BY DEF FirstShare
  <2>2. c[k] = 0 \/ \A i \in Items : w[i] \in Nat \ {0}
    <3>1. \A i \in Items : /\ Customs[i] \in Nat \ {0}
                           /\ Weights[i] = duimp[i].weight /\ Weights[i] \in Nat
      BY <1>2, ItemData DEF Customs, Weights
    <3>2. CASE k = "afrmm" /\ Cardinality(Items) > 1
      <4>1. c["afrmm"] = 0 \/ \A i \in Items : duimp[i].weight > 0
        BY <1>1, <3>2 DEF Calculable
      <4> QED BY <3>1, <3>2, <4>1
    <3>3. CASE ~(k = "afrmm" /\ Cardinality(Items) > 1)
      BY <3>1, <3>3
    <3> QED BY <3>2, <3>3
  <2> HIDE DEF w, D
  <2>3. /\ c[k] \in Nat /\ c[k] \in Int /\ c[k] >= 0
        /\ IsFiniteSet(Items) /\ Items # {} /\ Items \subseteq Nat
    BY <1>2, DocumentItems
  <2>4. /\ SumOver(Items, Split(c[k], w, Items)) = c[k]
        /\ \A i \in Items : /\ Split(c[k], w, Items)[i] \in Int
                            /\ c[k] >= 0 => Split(c[k], w, Items)[i] >= 0
    BY <2>2, <2>3, SplitAddsUp
  <2> QED BY <2>1, <2>3, <2>4
<1>5. Divides(D, c, Items) /\ SharesOf(D, shares, Items)
  BY <1>4 DEF Divides, SharesOf
<1>6. NewDraft(x, c, shares)
  BY <1>1
<1> HIDE DEF D, shares
<1>7. /\ \A i \in Items : shares[i] \in [Costs -> Nat]
      /\ \A k \in Costs : Paid(shares, k, Items) = c[k]
  BY <1>2, <1>5, DividedCosts, DocumentItems
<1>8. x \in Suppliers
  BY <1>2
<1> QED BY <1>2, <1>3, <1>6, <1>7, <1>8, NewDraftOK

\* The costs of a draft divided again: by what its payload still says.
LEMMA DivisionAddsUp ==
  ASSUME DraftInv, NEW x, ItemsOf(x) # {}, ItemsOf(x) \subseteq Drafted,
         NEW c \in [Costs -> Nat], NEW k \in Costs
  PROVE  /\ SumOver(ItemsOf(x), Division(x, c)[k]) = c[k]
         /\ \A i \in ItemsOf(x) : Division(x, c)[k][i] \in Nat
<1> DEFINE S == ItemsOf(x)
           customs == [i \in S |-> IF x \in fresh THEN duimp[i].customs ELSE row[i].product]
           weights == IF x \in fresh /\ \A i \in S : duimp[i].weight > 0
                      THEN Weights ELSE customs
           w == IF k = "afrmm" THEN weights ELSE customs
<1>1. Division(x, c)[k] = Split(c[k], w, S)
  BY DEF Division
<1>2. \A i \in S : /\ duimp[i].customs \in Nat \ {0} /\ duimp[i].weight \in Nat
                   /\ row[i].product \in Nat \ {0}
  BY ItemData, DraftedRow, DocumentItems DEF RowType, DraftInv
<1>3. \A i \in S : customs[i] \in Nat \ {0}
  BY <1>2
<1>4. (\A i \in S : duimp[i].weight > 0) => \A i \in S : Weights[i] \in Nat \ {0}
  BY <1>2, DocumentItems DEF Weights
<1> HIDE DEF customs
<1>5. \A i \in S : w[i] \in Nat \ {0}
  <2>1. \A i \in S : weights[i] \in Nat \ {0}
    BY <1>3, <1>4
  <2> HIDE DEF weights
  <2> QED BY <1>3, <2>1
<1>6. /\ c[k] \in Nat /\ c[k] \in Int /\ c[k] >= 0
      /\ IsFiniteSet(S) /\ S # {} /\ S \subseteq Nat
  BY DocumentItems
<1> HIDE DEF w, S
<1>7. /\ SumOver(S, Split(c[k], w, S)) = c[k]
      /\ \A i \in S : /\ Split(c[k], w, S)[i] \in Int
                      /\ c[k] >= 0 => Split(c[k], w, S)[i] >= 0
  BY <1>5, <1>6, SplitAddsUp
<1> QED BY <1>1, <1>6, <1>7 DEF S

LEMMA UpdateCostsOK ==
  ASSUME DraftInv, NEW x \in Exporters, UpdateCosts(x) PROVE DraftInv'
<1>1. PICK c \in CostChoices : costs' = [costs EXCEPT ![x] = c] /\ row' = Redivided(x, c)
  BY DEF UpdateCosts
<1>2. /\ ItemsOf(x) # {} /\ ItemsOf(x) \subseteq Drafted /\ edits < MaxEdits
      /\ fresh' = fresh \ {x} /\ edits' = edits + 1 /\ edited' = edited \ ItemsOf(x)
      /\ sent' = sent \ ItemsOf(x)
      /\ UNCHANGED <<duimp, ruleOf, config, plan, replaced, own>>
  BY DEF UpdateCosts, Unweighted
<1>3. c \in [Costs -> Nat] /\ c # None /\ Values
  BY Data, ChoicesAreCosts, CostsAreThere DEF DraftInv
<1> DEFINE S == ItemsOf(x)
           D == Division(x, c)
           s == [i \in S |-> [k \in Costs |-> D[k][i]]]
<1>4. /\ \A i \in S : row'[i] = Recalculated(i, s[i])
      /\ \A i \in Items \ S : row'[i] = row[i]
      /\ DOMAIN row' = Items
  BY <1>1, DocumentItems DEF Redivided
<1>5. IsFiniteSet(S) /\ S \subseteq Items /\ \A i \in Items : i \in S <=> duimp[i].exporter = x
  BY DocumentItems DEF ItemsOf
<1>6. /\ \A i \in S : s[i] \in [Costs -> Nat]
      /\ \A k \in Costs : Paid(s, k, S) = c[k]
  <2>1. Divides(D, c, S)
    BY <1>2, <1>3, DivisionAddsUp DEF Divides
  <2>2. SharesOf(D, s, S)
    BY DEF SharesOf
  <2> HIDE DEF D, s, S
  <2> QED BY <1>3, <1>5, <2>1, <2>2, DividedCosts
<1>7. \A i \in S : row'[i].shares = s[i] /\ row'[i].afrmm = s[i]["afrmm"]
  <2>1. ASSUME NEW i \in S
        PROVE  row'[i].shares = s[i] /\ row'[i].afrmm = s[i]["afrmm"]
    <3> HIDE DEF s, D
    <3>1. DOMAIN row[i] = Fields
      BY <1>2, <1>5, DraftedRow DEF RowType
    <3> QED BY <1>4, <3>1 DEF Recalculated, Fields
  <2> QED BY <2>1
<1> HIDE DEF s, D
<1>8. DOMAIN costs = Exporters
  BY <1>3 DEF Values
<1>9. Values'
  <2>1. DOMAIN costs' = Exporters
        /\ \A y \in Exporters : costs'[y] = None \/ costs'[y] \in [Costs -> Nat]
    BY <1>1, <1>3, <1>8 DEF Values
  <2>2. fresh' \subseteq {y \in Exporters : costs'[y] # None}
    BY <1>1, <1>2, <1>3, <1>8 DEF Values
  <2>3. edits' \in 0..MaxEdits
    BY <1>2, <1>3, Data DEF Values
  <2> QED BY <1>2, <1>3, <1>4, <2>1, <2>2, <2>3 DEF Values
<1>10. PlanInv'
  BY <1>2 DEF DraftInv, PlanInv
<1>11. RowsInv'
  <2>1. ASSUME NEW i \in Items
        PROVE  IF costs'[duimp[i].exporter] = None THEN row'[i] = None
               ELSE RowOK(duimp, i, row'[i], own[i], i \in replaced, i \in edited')
    <3>1. CASE i \in S
      <4>1. RowOK(duimp, i, row[i], own[i], i \in replaced, i \in edited)
        BY <1>2, <1>5, <3>1, DraftedRow
      <4>2. RowOK(duimp, i, Recalculated(i, s[i]), own[i], i \in replaced, i \in edited')
        BY <1>3, <1>6, <3>1, <4>1, RecalculatedOK
      <4> QED BY <1>1, <1>3, <1>4, <1>5, <1>8, <3>1, <4>2
    <3>2. CASE i \notin S
      <4>1. row'[i] = row[i] /\ (i \in edited' <=> i \in edited)
        BY <1>2, <1>4, <3>2
      <4>2. costs'[duimp[i].exporter] = costs[duimp[i].exporter]
        BY <1>1, <1>3, <1>5, <1>8, <3>2, ItemData
      <4>3. IF costs[duimp[i].exporter] = None THEN row[i] = None
            ELSE RowOK(duimp, i, row[i], own[i], i \in replaced, i \in edited)
        BY DEF DraftInv, RowsInv
      <4> QED BY <4>1, <4>2, <4>3 DEF RowOK
    <3> QED BY <3>1, <3>2
  <2>2. UNCHANGED <<duimp, own, replaced>>
    BY <1>2
  <2> QED BY <2>1, <2>2 DEF RowsInv
<1>12. PaidInv'
  <2>1. ASSUME NEW y \in Suppliers
        PROVE  costs'[y] = None \/ PaidUp(ItemsOf(y), row', costs'[y], sent')
    <3>1. CASE y = x
      <4>1. ASSUME NEW k \in Costs
            PROVE  Paid([i \in S |-> row'[i].shares], k, S) = c[k]
        <5>1. \A i \in S : [j \in S |-> row'[j].shares][i][k] = [j \in S |-> s[j][k]][i]
          BY <1>7
        <5>2. Paid([i \in S |-> row'[i].shares], k, S) = SumOver(S, [j \in S |-> s[j][k]])
          BY <1>5, <5>1, PaidSum
        <5> QED BY <1>6, <5>2 DEF Paid
      <4>2. costs'[x] = c
        BY <1>1, <1>8
      <4>3. \A i \in S : row'[i].afrmm = row'[i].shares["afrmm"]
        BY <1>7
      <4> QED BY <3>1, <4>1, <4>2, <4>3 DEF PaidUp
    <3>2. CASE y # x
      <4>1. y \in Exporters
        BY <1>3, ItemData DEF Suppliers
      <4>2. costs'[y] = costs[y]
        BY <1>1, <1>8, <3>2, <4>1
      <4>3. \A i \in ItemsOf(y) :
              row'[i].shares = row[i].shares /\ row'[i].afrmm = row[i].afrmm
        BY <1>4, <3>2 DEF ItemsOf
      <4>4. costs[y] = None \/ PaidUp(ItemsOf(y), row, costs[y], sent)
        BY DEF DraftInv, PaidInv
      <4>5. ItemsOf(y) \cap sent \subseteq sent'
        BY <1>2, <3>2 DEF ItemsOf
      <4> QED BY <4>2, <4>3, <4>4, <4>5, PaidStays
    <3> QED BY <3>1, <3>2
  <2>2. duimp' = duimp
    BY <1>2
  <2> QED BY <2>1, <2>2 DEF PaidInv, Suppliers, ItemsOf
<1> QED BY <1>9, <1>10, <1>11, <1>12 DEF DraftInv

LEMMA CreatePlanOK == ASSUME DraftInv, CreatePlan PROVE DraftInv'
<1>1. PICK c \in CostChoices :
        plan' = [total |-> c,
                 shares |-> [i \in Items |->
                               [k \in Costs |-> PlanSplit(c[k], Customs, Items)[i]]]]
  BY DEF CreatePlan
<1>2. UNCHANGED <<duimp, ruleOf, config, costs, row, fresh, edits, edited, replaced, sent, own>>
  BY DEF CreatePlan, ghosts
<1>3. Values /\ c \in [Costs -> Nat]
  BY Data DEF DraftInv
<1> DEFINE D == [k \in Costs |-> PlanSplit(c[k], Customs, Items)]
           s == [i \in Items |-> [k \in Costs |-> PlanSplit(c[k], Customs, Items)[i]]]
<1>4. ASSUME NEW k \in Costs
      PROVE  SumOver(Items, D[k]) = c[k] /\ \A i \in Items : D[k][i] \in Nat
  <2>1. \A i \in Items : Customs[i] \in Nat \ {0}
    BY <1>3, ItemData DEF Customs
  <2>2. c[k] \in Nat /\ D[k] = PlanSplit(c[k], Customs, Items)
    BY <1>3
  <2> HIDE DEF D
  <2>3. /\ SumOver(Items, PlanSplit(c[k], Customs, Items)) = c[k]
        /\ \A i \in Items : PlanSplit(c[k], Customs, Items)[i] \in Nat
    BY <2>1, <2>2, DocumentItems, PlanSplitAddsUp
  <2> QED BY <2>2, <2>3
<1>5. Divides(D, c, Items) /\ SharesOf(D, s, Items)
  BY <1>4 DEF Divides, SharesOf
<1>6. plan' = [total |-> c, shares |-> s] /\ DOMAIN s = Items
  BY <1>1
<1> HIDE DEF D, s
<1>7. /\ \A i \in Items : s[i] \in [Costs -> Nat]
      /\ \A k \in Costs : Paid(s, k, Items) = c[k]
  BY <1>3, <1>5, DividedCosts, DocumentItems
<1>8. plan'.total = c /\ plan'.shares = s
  BY <1>6
<1>9. s \in [Items -> [Costs -> Nat]]
  <2>1. s = [i \in Items |-> s[i]]
    BY DEF s
  <2> QED BY <1>7, <2>1
<1>10. PlanInv'
  BY <1>3, <1>7, <1>8, <1>9 DEF PlanInv
<1>11. Values'
  BY <1>2, <1>3 DEF Values
<1> QED BY <1>2, <1>10, <1>11, SameRows

LEMMA RefreshOK == ASSUME DraftInv, NEW x, Refresh(x) PROVE DraftInv'
<1>1. /\ UNCHANGED <<duimp, ruleOf, config, plan, costs, row, edits, edited, replaced, sent, own>>
      /\ fresh' = fresh \ {x}
  BY DEF Refresh, Unweighted, ghosts
<1>2. Values' /\ PlanInv'
  BY <1>1 DEF DraftInv, Values, PlanInv
<1> QED BY <1>1, <1>2, SameRows

LEMMA ChangeRuleOK == ASSUME DraftInv, NEW r \in Rules, ChangeRule(r) PROVE DraftInv'
<1>1. PICK c \in Configs : config' = [config EXCEPT ![r] = c]
  BY DEF ChangeRule
<1>2. /\ UNCHANGED <<duimp, ruleOf, plan, costs, row, fresh, edited, replaced, sent, own>>
      /\ edits < MaxEdits /\ edits' = edits + 1
  BY DEF ChangeRule, ghosts
<1>3. config' \in [Rules -> Configs]
  BY <1>1 DEF DraftInv, Values
<1>4. Values' /\ PlanInv'
  BY <1>2, <1>3, Data DEF DraftInv, Values, PlanInv
<1> QED BY <1>2, <1>4, SameRows

LEMMA DraftInit == Init => DraftInv
<1> SUFFICES ASSUME Init PROVE DraftInv
  OBVIOUS
<1>1. \A i \in Items : duimp[i].exporter \in Exporters
  BY Data DEF Init, Item
<1>2. Values
  BY Data DEF Init, Values
<1>3. PlanInv
  BY DEF Init, PlanInv
<1>4. RowsInv
  BY <1>1 DEF Init, RowsInv
<1>5. PaidInv
  BY <1>1 DEF Init, PaidInv, Suppliers
<1> QED BY <1>2, <1>3, <1>4, <1>5 DEF DraftInv

LEMMA DraftStep == DraftInv /\ [Next]_vars => DraftInv'
<1>1. SUFFICES ASSUME DraftInv, [Next]_vars PROVE DraftInv'
  OBVIOUS
<1>2. CASE UNCHANGED vars
  <2>1. UNCHANGED <<duimp, ruleOf, config, plan, costs, row, fresh, edits,
                    edited, replaced, sent, own>>
    BY <1>2 DEF vars, ghosts
  <2>2. Values' /\ PlanInv'
    BY <1>1, <2>1 DEF DraftInv, Values, PlanInv
  <2> QED BY <1>1, <2>1, <2>2, SameRows
<1>3. QED
  BY <1>1, <1>2, CreatePlanOK, GenerateChildOK, CreateDraftOK, UpdateCostsOK, RefreshOK,
     UpdateItemOK, ReplacePayloadOK, AdjustIcmsOK, ReapplyRuleOK, ChangeRuleOK DEF Next

LEMMA DraftAlways == Spec => []DraftInv
BY DraftInit, DraftStep, PTL DEF Spec

---------------------------------------------------------------------------
(* What holds of the drafts in every reachable state *)

\* A row exists exactly where its document has costs, and its values are amounts.
THEOREM TypesCorrect == Spec => []TypeOK
<1>1. DraftInv => TypeOK
  <2> SUFFICES ASSUME DraftInv PROVE TypeOK
    OBVIOUS
  <2>1. /\ duimp \in Duimps /\ ruleOf \in Assignments /\ config \in [Rules -> Configs]
        /\ \A x \in Exporters : costs[x] = None \/ costs[x] \in [Costs -> Nat]
        /\ fresh \subseteq {x \in Exporters : costs[x] # None}
        /\ edits \in 0..MaxEdits
    BY DEF DraftInv, Values
  <2>2. plan = None \/ (plan.total \in [Costs -> Nat]
                        /\ plan.shares \in [Items -> [Costs -> Nat]])
    BY DEF DraftInv, PlanInv
  <2>3. \A i \in Items :
          IF costs[duimp[i].exporter] = None THEN row[i] = None
          ELSE /\ row[i].product \in Nat \ {0} /\ row[i].other \in Int
               /\ row[i].shares \in [Costs -> Nat] /\ row[i].afrmm \in Nat
               /\ row[i].icms.base \in Int /\ row[i].icms.value \in Int
    BY DEF DraftInv, RowsInv, RowOK, RowType
  <2> QED BY <2>1, <2>2, <2>3 DEF TypeOK
<1> QED BY <1>1, DraftAlways, PTL

\* The costs are divided to the cent, by a plan, by the first calculation of a
\* draft and by every change of its costs, and the totals of a draft are its costs:
\* only an edit that replaces the import payload of an item undoes it, and only
\* until the next division.
THEOREM SharesAddUp == Spec => []CostsAddUp
<1>1. DraftInv => CostsAddUp
  <2> SUFFICES ASSUME DraftInv PROVE CostsAddUp
    OBVIOUS
  <2>1. plan # None => \A k \in Costs : Paid(plan.shares, k, Items) = plan.total[k]
    BY DEF DraftInv, PlanInv
  <2>2. ASSUME NEW x \in Suppliers, costs[x] # None, ItemsOf(x) \cap sent = {}
        PROVE  Balanced(x)
    <3> DEFINE S == ItemsOf(x)
    <3>1. /\ \A i \in S : row[i].afrmm = row[i].shares["afrmm"]
          /\ \A k \in Costs : Paid([i \in S |-> row[i].shares], k, S) = costs[x][k]
      BY <2>2 DEF DraftInv, PaidInv, PaidUp
    <3>2. \A i \in S : row[i].shares \in [Costs -> Nat]
      BY <2>2 DEF DraftInv, RowsInv, RowOK, RowType, ItemsOf
    <3>3. \A i \in S : Charged(i) = row[i].shares
      BY <3>1, <3>2 DEF Charged
    <3>4. [i \in S |-> Charged(i)] = [i \in S |-> row[i].shares]
      BY <3>3
    <3> QED BY <3>1, <3>4 DEF Balanced, Total
  <2> QED BY <2>1, <2>2 DEF CostsAddUp
<1> QED BY <1>1, DraftAlways, PTL

\* However often the costs are divided, an item holds its shares once and its own
\* charges once.
THEOREM ChargesCountOnce == Spec => []CostsCountedOnce
<1>1. DraftInv => CostsCountedOnce
  <2> SUFFICES ASSUME DraftInv, NEW i \in Drafted \ replaced
               PROVE  row[i].other = own[i] + SumOver(Costs, row[i].shares)
    BY DEF CostsCountedOnce
  <2>1. i \in Items /\ RowOK(duimp, i, row[i], own[i], i \in replaced, i \in edited)
    BY DraftedRow DEF Drafted
  <2> QED BY <2>1 DEF RowOK
<1> QED BY <1>1, DraftAlways, PTL

\* A calculated ICMS is inside its base, for every rule and value: exactly where the
\* whole base is taxed, to the cent where it is reduced or deferred.
THEOREM TaxIsInside == Spec => []IcmsIsInside
<1>1. DraftInv => IcmsIsInside
  <2> SUFFICES ASSUME DraftInv, NEW i \in Drafted \ edited, row[i].manual = None
               PROVE  Inside(row[i].icms, row[i].product + duimp[i].due + row[i].other,
                             Cardinality(ItemsOf(duimp[i].exporter)) = 1)
    BY DEF IcmsIsInside, Inside
  <2>1. i \in Items /\ RowOK(duimp, i, row[i], own[i], i \in replaced, i \in edited)
    BY DraftedRow DEF Drafted
  <2> QED BY <2>1 DEF RowOK, ItemsOf
<1> QED BY <1>1, DraftAlways, PTL

=============================================================================
