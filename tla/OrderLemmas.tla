---------------------------- MODULE OrderLemmas ----------------------------
(***************************************************************************)
(* What several components need to know about order: about Max, which      *)
(* models the queries that take the highest version of something, and      *)
(* about the place of an element among the others, which models sorted().  *)
(***************************************************************************)
EXTENDS Integers, FiniteSetsExt, FiniteSetTheorems, WellFoundedInduction, TLAPS

\* A non-empty set of naturals below a bound has a greatest element, which is
\* what the query of the latest version returns.
LEMMA BoundedMax ==
  ASSUME NEW n \in Nat, NEW S \in SUBSET (0..n), S # {}
  PROVE  Max(S) \in S /\ \A s \in S : Max(S) >= s
<1> DEFINE T == {n - s : s \in S}
           R == OpToRel(<, Nat)
<1>1. T \in SUBSET Nat /\ T # {}
  <2>1. T # {}
    OBVIOUS
  <2>2. \A s \in S : n - s \in Nat
    OBVIOUS
  <2> QED BY <2>1, <2>2
<1>2. PICK t \in T : \A u \in T : ~(<<u, t>> \in R)
  <2> HIDE DEF T
  <2>1. IsWellFoundedOn(R, Nat)
    BY NatLessThanWellFounded
  <2> HIDE DEF R
  <2> QED BY <1>1, <2>1, WFMin
<1>3. \A u \in T : ~(u < t)
  BY <1>1, <1>2 DEF OpToRel
<1>4. PICK m \in S : t = n - m
  BY <1>2
<1>5. \A s \in S : m >= s
  <2> TAKE s \in S
  <2>1. ~(n - s < n - m)
    BY <1>3, <1>4
  <2> QED BY <2>1
<1> QED BY <1>5 DEF Max

\* Who goes before i when the larger come first, and the first of equals.
Ahead(v, S, i) == {j \in S : v[j] > v[i] \/ (v[j] = v[i] /\ j < i)}
Rank(v, S) == [i \in S |-> Cardinality(Ahead(v, S, i))]

\* No two places are the same, and there is one for each element.
LEMMA RankIsBijection ==
  ASSUME NEW S, IsFiniteSet(S), S \subseteq Nat, NEW v, \A i \in S : v[i] \in Int
  PROVE  Rank(v, S) \in Bijection(S, 0..(Cardinality(S) - 1))
<1> DEFINE n == Cardinality(S)
           rank == Rank(v, S)
<1>1. n \in Nat
  BY FS_CardinalityType
<1>2. ASSUME NEW i \in S
      PROVE  IsFiniteSet(Ahead(v, S, i)) /\ rank[i] \in 0..(n - 1)
  <2>1. Ahead(v, S, i) \in SUBSET (S \ {i})
    BY DEF Ahead
  <2>2. IsFiniteSet(S \ {i}) /\ Cardinality(S \ {i}) = n - 1
    BY FS_RemoveElement
  <2>3. /\ IsFiniteSet(Ahead(v, S, i)) /\ Cardinality(Ahead(v, S, i)) <= n - 1
        /\ Cardinality(Ahead(v, S, i)) \in Nat
    BY <2>1, <2>2, FS_Subset, FS_CardinalityType
  <2>4. rank[i] = Cardinality(Ahead(v, S, i))
    BY DEF Rank
  <2> HIDE DEF n, rank
  <2> QED BY <1>1, <2>3, <2>4
<1>3. ASSUME NEW i \in S, NEW j \in S, i \in Ahead(v, S, j)
      PROVE  rank[i] < rank[j]
  <2>1. Ahead(v, S, i) \subseteq Ahead(v, S, j) /\ i \notin Ahead(v, S, i)
    <3>1. i \notin Ahead(v, S, i)
      BY DEF Ahead
    <3>2. ASSUME NEW k \in Ahead(v, S, i) PROVE k \in Ahead(v, S, j)
      <4>1. /\ v[i] \in Int /\ v[j] \in Int /\ v[k] \in Int
            /\ i \in Nat /\ j \in Nat /\ k \in Nat
            /\ k \in S
        BY <3>2 DEF Ahead
      <4>2. /\ v[k] > v[i] \/ (v[k] = v[i] /\ k < i)
            /\ v[i] > v[j] \/ (v[i] = v[j] /\ i < j)
        BY <1>3, <3>2 DEF Ahead
      <4>3. v[k] > v[j] \/ (v[k] = v[j] /\ k < j)
        BY <4>1, <4>2
      <4> QED BY <4>1, <4>3 DEF Ahead
    <3> QED BY <3>1, <3>2
  <2>2. /\ Cardinality(Ahead(v, S, i)) <= Cardinality(Ahead(v, S, j))
        /\ Cardinality(Ahead(v, S, i)) # Cardinality(Ahead(v, S, j))
    BY <1>2, <1>3, <2>1, FS_Subset
  <2>3. rank[i] = Cardinality(Ahead(v, S, i)) /\ rank[j] = Cardinality(Ahead(v, S, j))
    BY DEF Rank
  <2>4. rank[i] \in Int /\ rank[j] \in Int
    BY <1>1, <1>2
  <2> HIDE DEF rank
  <2> QED BY <2>2, <2>3, <2>4
<1>4. ASSUME NEW i \in S, NEW j \in S, i # j PROVE rank[i] # rank[j]
  <2>1. i \in Ahead(v, S, j) \/ j \in Ahead(v, S, i)
    BY <1>4 DEF Ahead
  <2>2. rank[i] \in Int /\ rank[j] \in Int
    BY <1>1, <1>2
  <2> HIDE DEF rank
  <2> QED BY <1>3, <2>1, <2>2
<1>5. rank \in Injection(S, 0..(n - 1))
  <2>1. rank \in [S -> 0..(n - 1)]
    BY <1>2 DEF Rank
  <2> HIDE DEF rank, n
  <2> QED BY <1>4, <2>1 DEF Injection, IsInjective
<1>6. IsFiniteSet(0..(n - 1)) /\ Cardinality(0..(n - 1)) = n
  <2> HIDE DEF n
  <2> QED BY <1>1, FS_Interval
<1>7. rank \in Surjection(S, 0..(n - 1))
  BY <1>5, <1>6, FS_Injection
<1> QED BY <1>5, <1>7 DEF Bijection

\* The k-th element of a set of naturals is one of its elements.
LEMMA KthElement ==
  ASSUME NEW S \in SUBSET Nat, IsFiniteSet(S), NEW k \in 1..Cardinality(S)
  PROVE  (CHOOSE x \in S : Cardinality({y \in S : y < x}) = k - 1) \in S
<1> DEFINE v == [x \in S |-> 0]
           n == Cardinality(S)
<1>1. n \in Nat
  BY FS_CardinalityType
<1>2. Rank(v, S) \in Bijection(S, 0..(n - 1))
  <2>1. \A x \in S : v[x] \in Int
    OBVIOUS
  <2> HIDE DEF v
  <2> QED BY <2>1, RankIsBijection
<1>3. k - 1 \in 0..(n - 1)
  <2> HIDE DEF n
  <2>1. k \in 1..n
    BY DEF n
  <2> QED BY <1>1, <2>1
<1>4. PICK x \in S : Rank(v, S)[x] = k - 1
  <2> HIDE DEF v, n
  <2> QED BY <1>2, <1>3 DEF Bijection, Surjection
<1>5. Ahead(v, S, x) = {y \in S : y < x}
  BY DEF Ahead
<1>6. Cardinality({y \in S : y < x}) = k - 1
  BY <1>4, <1>5 DEF Rank
<1> QED BY <1>6
=============================================================================
