------------------------------ MODULE Folding ------------------------------
(***************************************************************************)
(* What the folds of the models compute, by induction on the data in the   *)
(* form that needs no predicate as a parameter: of some naturals one is    *)
(* the least, of some finite sets one is the smallest.                     *)
(***************************************************************************)
EXTENDS Functions, FiniteSetsExt, FiniteSetTheorems, WellFoundedInduction, TLAPS

\* Of some naturals one is the least.
LEMMA LeastNatural ==
  ASSUME NEW T, T \subseteq Nat, T # {}
  PROVE  \E m \in T : \A n \in T : m <= n
<1>1. PICK m \in T : \A n \in T : ~ (<<n, m>> \in OpToRel(<, Nat))
  BY WFMin, NatLessThanWellFounded
<1>2. \A n \in T : ~ (n < m)
  BY <1>1 DEF OpToRel
<1> QED
  BY <1>2

\* Of some of the first places of a sequence one is the last.
LEMMA MaxTaken ==
  ASSUME NEW n \in Nat, NEW s \in SUBSET (1..n), s # {}
  PROVE  Max(s) \in s /\ \A i \in s : i <= Max(s)
<1> DEFINE below == {n - i : i \in s}
<1>0. \A i \in s : n - i \in Nat
  OBVIOUS
<1>1. below \subseteq Nat /\ below # {}
  BY <1>0
<1>2. PICK m \in below : \A j \in below : m <= j
  <2> HIDE DEF below
  <2> QED
    BY <1>1, LeastNatural
<1>3. PICK x \in s : m = n - x
  OBVIOUS
<1>4. \A i \in s : x >= i
  <2> TAKE i \in s
  <2>1. n - x <= n - i
    BY <1>2, <1>3
  <2> QED
    BY <2>1
<1>5. \E y \in s : \A i \in s : y >= i
  BY <1>4
<1>6. Max(s) \in s /\ \A i \in s : Max(s) >= i
  BY <1>5 DEF Max
<1> QED
  BY <1>6

\* Of some subsets of a finite set there is one that is among them no longer
\* when any element is taken from it.
LEMMA SmallestSubset ==
  ASSUME NEW S, IsFiniteSet(S), NEW T, T \subseteq SUBSET S, T # {}
  PROVE  \E s \in T : \A x \in s : s \ {x} \notin T
<1> DEFINE sizes == {Cardinality(s) : s \in T}
<1>1. \A s \in T : IsFiniteSet(s) /\ Cardinality(s) \in Nat
  BY FS_Subset, FS_CardinalityType
<1>2. sizes \subseteq Nat /\ sizes # {}
  BY <1>1
<1> HIDE DEF sizes
<1>3. PICK m \in sizes : \A n \in sizes : m <= n
  BY <1>2, LeastNatural
<1> USE DEF sizes
<1>4. PICK s \in T : Cardinality(s) = m
  OBVIOUS
<1>5. ASSUME NEW x \in s, s \ {x} \in T PROVE FALSE
  <2>1. Cardinality(s \ {x}) = Cardinality(s) - 1
    BY <1>1, FS_RemoveElement
  <2>2. m <= Cardinality(s \ {x})
    BY <1>3, <1>5
  <2> QED
    BY <1>1, <1>4, <2>1, <2>2
<1> QED
  BY <1>5

-----------------------------------------------------------------------------
(* A recursion that takes one element of a finite set after the other:     *)
(* c[s] is the one taken from s, h[s] makes the result for s of that for   *)
(* the rest.                                                               *)

Takes(c, S) == \A s \in SUBSET S : s # {} => c[s] \in s
Keeps(h, S, R) == \A s \in SUBSET S, r \in R : h[s][r] \in R
Solution(g, S, c, base, h) ==
  \A s \in SUBSET S : g[s] = IF s = {} THEN base ELSE h[s][g[s \ {c[s]}]]

\* It has a solution: one for the sets of up to m elements after another.
LEMMA RecursionSolved ==
  ASSUME NEW S, IsFiniteSet(S), NEW c, Takes(c, S),
         NEW R, NEW base \in R, NEW h, Keeps(h, S, R)
  PROVE  \E g \in [SUBSET S -> R] : Solution(g, S, c, base, h)
<1> USE DEF Takes, Keeps, Solution
<1> DEFINE Small(n) == {s \in SUBSET S : Cardinality(s) <= n}
           Solves(g, n) == \A s \in Small(n) :
                             g[s] = IF s = {} THEN base ELSE h[s][g[s \ {c[s]}]]
           Solved(n) == \E g \in [Small(n) -> R] : Solves(g, n)
<1>1. \A s \in SUBSET S : IsFiniteSet(s) /\ Cardinality(s) \in Nat
  BY FS_Subset, FS_CardinalityType
<1>2. \A s \in SUBSET S : s # {} =>
        s \ {c[s]} \in SUBSET S /\ Cardinality(s \ {c[s]}) = Cardinality(s) - 1
  BY <1>1, FS_RemoveElement
<1>3. Solved(0)
  <2> DEFINE g == [s \in Small(0) |-> base]
  <2>1. \A s \in Small(0) : s = {}
    BY <1>1, FS_EmptySet
  <2>2. g \in [Small(0) -> R] /\ Solves(g, 0)
    BY <2>1
  <2> QED
    BY <2>2
<1>4. ASSUME NEW m \in Nat, m # 0, Solved(m - 1) PROVE Solved(m)
  <2>1. PICK g \in [Small(m - 1) -> R] : Solves(g, m - 1)
    BY <1>4
  <2> DEFINE k == [s \in Small(m) |-> IF s = {} THEN base ELSE h[s][g[s \ {c[s]}]]]
  <2>2. \A s \in Small(m) : s # {} => s \ {c[s]} \in Small(m - 1)
    BY <1>1, <1>2
  <2>3. k \in [Small(m) -> R]
    BY <2>2
  <2>4. \A s \in Small(m - 1) : s \in Small(m)
    BY <1>1
  <2>5. \A s \in Small(m - 1) : k[s] = g[s]
    BY <2>1, <2>4
  <2>6. Solves(k, m)
    BY <2>2, <2>5
  <2> QED
    BY <2>3, <2>6
<1>5. Solved(Cardinality(S))
  <2> HIDE DEF Solved
  <2> DEFINE Unsolved == {n \in Nat : ~Solved(n)}
  <2>1. Unsolved = {}
    <3> SUFFICES ASSUME Unsolved # {} PROVE FALSE
      OBVIOUS
    <3>1. PICK m \in Unsolved : \A n \in Unsolved : m <= n
      BY LeastNatural
    <3>2. m # 0
      BY <1>3
    <3>3. m - 1 \in Nat /\ Solved(m - 1)
      BY <3>1, <3>2
    <3> QED
      BY <1>4, <3>2, <3>3
  <2> QED
    BY <2>1, FS_CardinalityType
<1>6. \A s \in SUBSET S : Cardinality(s) <= Cardinality(S)
  BY FS_Subset
<1>7. Small(Cardinality(S)) = SUBSET S
  BY <1>6
<1> QED
  BY <1>5, <1>7

-----------------------------------------------------------------------------
(* Sums of naturals.                                                       *)

One(s) == CHOOSE x \in s : TRUE

\* g holds the sums of f over the subsets of S.
Sums(g, f, S) ==
  /\ g \in [SUBSET S -> Nat] /\ g[{}] = 0
  /\ \A s \in SUBSET S : s # {} =>
       One(s) \in s /\ f[One(s)] \in Nat /\ g[s] = f[One(s)] + g[s \ {One(s)}]

\* The fold that defines a sum obeys its own recursion.
LEMMA SumFolds ==
  ASSUME NEW S, IsFiniteSet(S), NEW f, \A x \in S : f[x] \in Nat
  PROVE  \E g : Sums(g, f, S) /\ SumFunctionOnSet(f, S) = g[S]
<1> DEFINE c == [s \in SUBSET S |-> One(s)]
           h == [s \in SUBSET S |-> [r \in Nat |-> IF s = {} THEN 0 ELSE f[c[s]] + r]]
           step(g) == [s \in SUBSET S |->
                         IF s = {} THEN 0 ELSE f[One(s)] + g[s \ {One(s)}]]
<1>1. \A s \in SUBSET S : s # {} => One(s) \in s /\ f[One(s)] \in Nat
  BY DEF One
<1>2. Takes(c, S)
  BY <1>1 DEF Takes
<1>3. Keeps(h, S, Nat)
  BY <1>1 DEF Keeps
<1>4. \A s \in SUBSET S, r \in Nat : s # {} => h[s][r] = f[One(s)] + r
  OBVIOUS
<1>5. PICK g \in [SUBSET S -> Nat] : Solution(g, S, c, 0, h)
  <2>1. 0 \in Nat
    OBVIOUS
  <2> HIDE DEF c, h
  <2> QED
    BY <1>2, <1>3, <2>1, RecursionSolved
<1>6. \A s \in SUBSET S : g[s] = IF s = {} THEN 0 ELSE f[One(s)] + g[s \ {One(s)}]
  <2> HIDE DEF h
  <2> QED
    BY <1>1, <1>4, <1>5 DEF Solution
<1>7. g = step(g)
  BY <1>6
<1> DEFINE k == CHOOSE j : j = step(j)
<1>8. SumFunctionOnSet(f, S) = k[S]
  BY DEF SumFunctionOnSet, FoldFunctionOnSet, MapThenFoldSet, One
<1>9. k = step(k)
  BY <1>7
<1> HIDE DEF k
<1>10. \A s \in SUBSET S : k[s] = IF s = {} THEN 0 ELSE f[One(s)] + k[s \ {One(s)}]
  BY <1>9
<1>11. \A s \in SUBSET S : k[s] = g[s]
  <2> DEFINE Apart == {s \in SUBSET S : k[s] # g[s]}
  <2> SUFFICES ASSUME Apart # {} PROVE FALSE
    OBVIOUS
  <2>1. PICK s \in Apart : \A x \in s : s \ {x} \notin Apart
    BY SmallestSubset
  <2>2. s # {}
    BY <1>6, <1>10
  <2>3. k[s \ {One(s)}] = g[s \ {One(s)}]
    BY <1>1, <2>1, <2>2
  <2> QED
    BY <1>6, <1>10, <2>2, <2>3
<1>12. Sums(g, f, S)
  BY <1>1, <1>6 DEF Sums
<1> QED
  BY <1>8, <1>11, <1>12

\* A sum is a natural.
LEMMA SumIsNat ==
  ASSUME NEW S, IsFiniteSet(S), NEW f, \A x \in S : f[x] \in Nat
  PROVE  SumFunctionOnSet(f, S) \in Nat
<1>1. PICK g : Sums(g, f, S) /\ SumFunctionOnSet(f, S) = g[S]
  BY SumFolds
<1> QED
  BY <1>1 DEF Sums

\* Summands that grow make a sum that grows.
LEMMA SumGrows ==
  ASSUME NEW S, IsFiniteSet(S), NEW f, NEW e,
         \A x \in S : f[x] \in Nat /\ e[x] \in Nat /\ f[x] <= e[x]
  PROVE  SumFunctionOnSet(f, S) <= SumFunctionOnSet(e, S)
<1>1. PICK g : Sums(g, f, S) /\ SumFunctionOnSet(f, S) = g[S]
  BY SumFolds
<1>2. PICK k : Sums(k, e, S) /\ SumFunctionOnSet(e, S) = k[S]
  BY SumFolds
<1> DEFINE Apart == {s \in SUBSET S : ~ (g[s] <= k[s])}
<1> SUFFICES ASSUME Apart # {} PROVE FALSE
  BY <1>1, <1>2
<1>3. PICK s \in Apart : \A x \in s : s \ {x} \notin Apart
  BY SmallestSubset
<1>4. g[{}] = 0 /\ k[{}] = 0
  BY <1>1, <1>2 DEF Sums
<1>5. s # {}
  BY <1>4
<1>6. One(s) \in s /\ g[s \ {One(s)}] <= k[s \ {One(s)}]
  BY <1>1, <1>3, <1>5 DEF Sums
<1> QED
  BY <1>1, <1>2, <1>3, <1>5, <1>6 DEF Sums

\* The same summands make the same sum.
LEMMA SumSame ==
  ASSUME NEW S, IsFiniteSet(S), NEW f, NEW e,
         \A x \in S : f[x] \in Nat /\ e[x] = f[x]
  PROVE  SumFunctionOnSet(e, S) = SumFunctionOnSet(f, S)
<1>1. \A x \in S : e[x] \in Nat /\ f[x] <= e[x] /\ e[x] <= f[x]
  OBVIOUS
<1>2. SumFunctionOnSet(f, S) <= SumFunctionOnSet(e, S)
  BY <1>1, SumGrows
<1>3. SumFunctionOnSet(e, S) <= SumFunctionOnSet(f, S)
  BY <1>1, SumGrows
<1>4. SumFunctionOnSet(f, S) \in Nat /\ SumFunctionOnSet(e, S) \in Nat
  BY <1>1, SumIsNat
<1> QED
  BY <1>2, <1>3, <1>4

\* A sum is nought if and only if all its summands are.
LEMMA SumIsNought ==
  ASSUME NEW S, IsFiniteSet(S), NEW f, \A x \in S : f[x] \in Nat
  PROVE  SumFunctionOnSet(f, S) = 0 <=> \A x \in S : f[x] = 0
<1>1. PICK g : Sums(g, f, S) /\ SumFunctionOnSet(f, S) = g[S]
  BY SumFolds
<1> DEFINE Apart == {s \in SUBSET S : ~ (g[s] = 0 <=> \A x \in s : f[x] = 0)}
<1> SUFFICES ASSUME Apart # {} PROVE FALSE
  BY <1>1
<1>2. PICK s \in Apart : \A x \in s : s \ {x} \notin Apart
  BY SmallestSubset
<1>3. s # {}
  BY <1>1 DEF Sums
<1>4. /\ One(s) \in s /\ f[One(s)] \in Nat /\ g[s \ {One(s)}] \in Nat
      /\ g[s] = f[One(s)] + g[s \ {One(s)}]
  BY <1>1, <1>3 DEF Sums
<1>5. g[s \ {One(s)}] = 0 <=> \A x \in s \ {One(s)} : f[x] = 0
  BY <1>2, <1>4
<1>6. g[s] = 0 <=> f[One(s)] = 0 /\ g[s \ {One(s)}] = 0
  BY <1>4
<1> QED
  BY <1>4, <1>5, <1>6
=============================================================================
