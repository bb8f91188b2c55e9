----------------------------- MODULE SumTheorems -----------------------------
(***************************************************************************)
(* What SumFunctionOnSet of the community modules computes, for every      *)
(* finite set: the counters of the block pool, of the stream sets and of   *)
(* the barriers are sums over blocks and workers, and a step changes one   *)
(* summand.  The operator is a recursive function on subsets, so each fact *)
(* is an induction; it is carried out on a smallest counterexample, which  *)
(* the well-foundedness theorems of the library provide.                   *)
(***************************************************************************)
EXTENDS Integers, FiniteSetsExt, FiniteSetTheorems, TLAPS

\* The element that the fold takes out of s.
Pick(s) == CHOOSE x \in s : TRUE

\* What the fold computes for s from its values g for smaller sets.
SumStep(f, g, s) == IF s = {} THEN 0 ELSE f[Pick(s)] + g[s \ {Pick(s)}]

\* g is the function that the fold of f over S defines.
SumSolves(g, f, S) == g = [s \in SUBSET S |-> SumStep(f, g, s)]

\* Every nonempty set of naturals has a least element.
LEMMA LeastNat ==
    ASSUME NEW T, T \subseteq Nat, T # {}
    PROVE  \E n \in T : \A m \in T : n <= m
<1> DEFINE R == {ss \in Nat \X Nat : ss[1] < ss[2]}
<1>1. IsWellFoundedOn(R, Nat)
  BY NatLessThanWellFounded DEF OpToRel
<1>2. PICK n \in T : \A m \in T : ~ (<<m, n>> \in R)
  <2> HIDE DEF R
  <2> QED BY <1>1, WFMin, Zenon
<1>3. ASSUME NEW m \in T PROVE n <= m
  <2>1. m \in Nat /\ n \in Nat /\ ~ (<<m, n>> \in R)
    BY <1>2
  <2> QED BY <2>1
<1> QED BY <1>3

\* Every nonempty set of subsets of a finite set has a smallest element.
LEMMA SmallestSubset ==
    ASSUME NEW S, IsFiniteSet(S), NEW T, T \subseteq SUBSET S, T # {}
    PROVE  \E t \in T : \A u \in T : u \subseteq t => u = t
<1> DEFINE R == StrictSubsetOrdering(S)
<1>1. IsWellFoundedOn(R, SUBSET S)
  BY FS_StrictSubsetOrderingWellFounded, FS_FiniteSubsetsOfFinite
<1>2. PICK t \in T : \A u \in T : ~ (<<u, t>> \in R)
  <2> HIDE DEF R
  <2> QED BY <1>1, WFMin, Zenon
<1>3. ASSUME NEW u \in T, u \subseteq t PROVE u = t
  BY <1>2, <1>3 DEF StrictSubsetOrdering
<1> QED BY <1>3

\* The recursion of the fold has a solution on the subsets of a finite set.
LEMMA SumExists ==
    ASSUME NEW S, IsFiniteSet(S), NEW f
    PROVE  \E g : SumSolves(g, f, S)
<1> DEFINE Upto(n) == \E g : \A s \in SUBSET S :
                         Cardinality(s) <= n => g[s] = SumStep(f, g, s)
           Bad == {n \in Nat : ~ Upto(n)}
<1>1. \A s \in SUBSET S : IsFiniteSet(s) /\ Cardinality(s) \in Nat
  BY FS_Subset, FS_CardinalityType
<1>2. \A s \in SUBSET S : s # {} =>
         /\ Pick(s) \in s /\ s \ {Pick(s)} \in SUBSET S
         /\ Cardinality(s \ {Pick(s)}) = Cardinality(s) - 1
  <2> TAKE s \in SUBSET S
  <2> HAVE s # {}
  <2>1. Pick(s) \in s
    BY DEF Pick
  <2> QED BY <1>1, <2>1, FS_RemoveElement
<1>3. \A s \in SUBSET S : Cardinality(s) = 0 => s = {}
  BY <1>1, FS_EmptySet
<1>4. Bad = {}
  <2> SUFFICES ASSUME Bad # {} PROVE FALSE
    OBVIOUS
  <2>1. PICK m \in Bad : \A k \in Bad : m <= k
    <3>1. Bad \subseteq Nat
      OBVIOUS
    <3> HIDE DEF Bad
    <3> QED BY <3>1, LeastNat
  <2>2. m # 0
    <3> DEFINE g == [s \in SUBSET S |-> 0]
    <3>1. \A s \in SUBSET S : Cardinality(s) <= 0 => g[s] = SumStep(f, g, s)
      BY <1>1, <1>3 DEF SumStep
    <3>2. Upto(0)
      BY <3>1
    <3> QED BY <3>2
  <2>3. m - 1 \in Nat /\ m - 1 \notin Bad
    BY <2>1, <2>2
  <2>4. PICK g : \A s \in SUBSET S : Cardinality(s) <= m - 1 => g[s] = SumStep(f, g, s)
    BY <2>3
  <2> DEFINE h == [s \in SUBSET S |->
                     IF Cardinality(s) <= m - 1 THEN g[s] ELSE SumStep(f, g, s)]
  <2>5. \A s \in SUBSET S : h[s] = SumStep(f, g, s)
    BY <2>4
  <2>6. \A s \in SUBSET S : Cardinality(s) <= m => SumStep(f, g, s) = SumStep(f, h, s)
    <3> TAKE s \in SUBSET S
    <3> HAVE Cardinality(s) <= m
    <3>1. CASE s = {}
      BY <3>1 DEF SumStep
    <3>2. CASE s # {}
      <4>1. h[s \ {Pick(s)}] = g[s \ {Pick(s)}]
        BY <1>1, <1>2, <3>2
      <4> QED BY <3>2, <4>1 DEF SumStep
    <3> QED BY <3>1, <3>2
  <2>7. \A s \in SUBSET S : Cardinality(s) <= m => h[s] = SumStep(f, h, s)
    BY <2>5, <2>6
  <2>8. Upto(m)
    <3> HIDE DEF h
    <3> QED BY <2>7
  <2> QED BY <2>1, <2>8
<1>5. PICK g : \A s \in SUBSET S : Cardinality(s) <= Cardinality(S) => g[s] = SumStep(f, g, s)
  <2>1. Cardinality(S) \in Nat
    BY FS_CardinalityType
  <2> QED BY <1>4, <2>1
<1> DEFINE h == [s \in SUBSET S |-> g[s]]
<1>6. \A s \in SUBSET S : g[s] = SumStep(f, h, s)
  <2> TAKE s \in SUBSET S
  <2>1. g[s] = SumStep(f, g, s)
    BY <1>5, FS_Subset
  <2>2. CASE s = {}
    BY <2>1, <2>2 DEF SumStep
  <2>3. CASE s # {}
    BY <1>2, <2>1, <2>3 DEF SumStep
  <2> QED BY <2>2, <2>3
<1>7. h = [s \in SUBSET S |-> SumStep(f, h, s)]
  <2>1. \A s \in SUBSET S : h[s] = SumStep(f, h, s)
    BY <1>6
  <2> DEFINE k == [s \in SUBSET S |-> SumStep(f, h, s)]
  <2>2. h = k
    BY <2>1
  <2> QED BY <2>2
<1> HIDE DEF h
<1> QED BY <1>7 DEF SumSolves

\* The sum is the value at S of a function that satisfies the recursion on all
\* subsets of S.
LEMMA SumUnfolds ==
    ASSUME NEW S, IsFiniteSet(S), NEW f
    PROVE  \E g : /\ SumFunctionOnSet(f, S) = g[S]
                  /\ \A s \in SUBSET S : g[s] = SumStep(f, g, s)
<1> DEFINE sol == CHOOSE g : SumSolves(g, f, S)
<1>1. SumSolves(sol, f, S)
  BY SumExists, Zenon
<1>2. SumFunctionOnSet(f, S) = sol[S]
  BY Zenon DEF SumFunctionOnSet, FoldFunctionOnSet, MapThenFoldSet, SumSolves, SumStep, Pick
<1>3. \A s \in SUBSET S : sol[s] = SumStep(f, sol, s)
  <2> HIDE DEF sol
  <2> QED BY <1>1 DEF SumSolves
<1> HIDE DEF sol
<1> QED BY <1>2, <1>3

\* The sum of no values, and the sum of a set by the element that is picked.
LEMMA SumByPick ==
    ASSUME NEW S, IsFiniteSet(S), NEW f
    PROVE  SumFunctionOnSet(f, S) =
             IF S = {} THEN 0
             ELSE f[Pick(S)] + SumFunctionOnSet(f, S \ {Pick(S)})
<1>1. PICK g : /\ SumFunctionOnSet(f, S) = g[S]
               /\ \A s \in SUBSET S : g[s] = SumStep(f, g, s)
  BY SumUnfolds
<1>2. CASE S = {}
  BY <1>1, <1>2 DEF SumStep
<1>3. CASE S # {}
  <2> DEFINE T == S \ {Pick(S)}
  <2>1. IsFiniteSet(T) /\ T \subseteq S
    BY FS_RemoveElement
  <2>2. PICK h : /\ SumFunctionOnSet(f, T) = h[T]
                 /\ \A s \in SUBSET T : h[s] = SumStep(f, h, s)
    <3> HIDE DEF T
    <3> QED BY <2>1, SumUnfolds
  <2> DEFINE Bad == {s \in SUBSET T : g[s] # h[s]}
  <2>3. Bad = {}
    <3> SUFFICES ASSUME Bad # {} PROVE FALSE
      OBVIOUS
    <3>1. PICK s \in Bad : \A u \in Bad : u \subseteq s => u = s
      <4>1. Bad \subseteq SUBSET T
        OBVIOUS
      <4> HIDE DEF Bad
      <4> QED BY <2>1, <4>1, SmallestSubset
    <3>2. g[s] = SumStep(f, g, s) /\ h[s] = SumStep(f, h, s)
      BY <1>1, <2>2
    <3>3. s # {}
      BY <3>2 DEF SumStep
    <3>4. Pick(s) \in s
      BY <3>3 DEF Pick
    <3>5. g[s \ {Pick(s)}] = h[s \ {Pick(s)}]
      BY <3>1, <3>4
    <3> QED BY <3>2, <3>5 DEF SumStep
  <2>4. g[T] = h[T]
    BY <2>3
  <2>5. g[S] = f[Pick(S)] + g[T]
    BY <1>1, <1>3 DEF SumStep
  <2> QED BY <1>1, <1>3, <2>2, <2>4, <2>5
<1> QED BY <1>2, <1>3

\* A sum of integers is an integer, whatever the order in which they are added.
LEMMA SumByAny ==
    ASSUME NEW S, IsFiniteSet(S), NEW f, \A x \in S : f[x] \in Int
    PROVE  /\ SumFunctionOnSet(f, S) \in Int
           /\ \A y \in S : SumFunctionOnSet(f, S) = f[y] + SumFunctionOnSet(f, S \ {y})
<1> DEFINE Sum(s) == SumFunctionOnSet(f, s)
           Good(s) == Sum(s) \in Int /\ \A y \in s : Sum(s) = f[y] + Sum(s \ {y})
           Bad == {s \in SUBSET S : ~ Good(s)}
<1>1. \A s \in SUBSET S : IsFiniteSet(s)
  BY FS_Subset
<1>2. \A s \in SUBSET S : Sum(s) = IF s = {} THEN 0 ELSE f[Pick(s)] + Sum(s \ {Pick(s)})
  BY <1>1, SumByPick
<1>3. Bad = {}
  <2> SUFFICES ASSUME Bad # {} PROVE FALSE
    OBVIOUS
  <2>1. PICK t \in Bad : \A u \in Bad : u \subseteq t => u = t
    <3>1. Bad \subseteq SUBSET S
      OBVIOUS
    <3> HIDE DEF Bad
    <3> QED BY <3>1, SmallestSubset
  <2> HIDE DEF Sum
  <2>2. \A u \in SUBSET t : u # t => Good(u)
    BY <2>1
  <2>3. t # {}
    <3> SUFFICES ASSUME t = {} PROVE FALSE
      OBVIOUS
    <3>1. Sum(t) = 0
      BY <1>2
    <3>2. Good(t)
      BY <3>1
    <3> QED BY <3>2
  <2> DEFINE p == Pick(t)
  <2>4. p \in t
    BY <2>3 DEF Pick
  <2>5. Good(t \ {p}) /\ Sum(t) = f[p] + Sum(t \ {p})
    BY <1>2, <2>2, <2>3, <2>4
  <2>6. Sum(t) \in Int
    BY <2>4, <2>5
  <2> HIDE DEF p
  <2>7. ASSUME NEW y \in t PROVE Sum(t) = f[y] + Sum(t \ {y})
    <3>1. CASE y = p
      BY <2>5, <3>1
    <3>2. CASE y # p
      <4>1. Sum(t \ {p}) = f[y] + Sum((t \ {p}) \ {y})
        BY <2>5, <3>2
      <4>2. Good(t \ {y})
        BY <2>2
      <4>3. Sum(t \ {y}) = f[p] + Sum((t \ {y}) \ {p})
        BY <2>4, <3>2, <4>2
      <4>4. (t \ {p}) \ {y} = (t \ {y}) \ {p}
        OBVIOUS
      <4>5. Good((t \ {y}) \ {p})
        BY <2>2, <2>4
      <4>6. f[p] \in Int /\ f[y] \in Int /\ Sum((t \ {y}) \ {p}) \in Int
        BY <2>4, <4>5
      <4> DEFINE r == Sum((t \ {y}) \ {p})
      <4>7. Sum(t) = f[p] + (f[y] + r) /\ Sum(t \ {y}) = f[p] + r
        BY <2>5, <4>1, <4>3, <4>4
      <4>8. f[p] \in Int /\ f[y] \in Int /\ r \in Int
        BY <4>6
      <4> HIDE DEF r
      <4> QED BY <4>7, <4>8
    <3> QED BY <3>1, <3>2
  <2> QED BY <2>1, <2>6, <2>7
<1>4. Good(S)
  BY <1>3
<1> QED BY <1>4

\* The sum over the empty set.
LEMMA SumEmpty ==
    ASSUME NEW f
    PROVE  SumFunctionOnSet(f, {}) = 0
BY SumByPick, FS_EmptySet

\* A sum after an element is added to or taken from the set.
LEMMA SumAdd ==
    ASSUME NEW S, IsFiniteSet(S), NEW f, \A x \in S : f[x] \in Int,
           NEW y, y \notin S, f[y] \in Int
    PROVE  SumFunctionOnSet(f, S \cup {y}) = SumFunctionOnSet(f, S) + f[y]
<1> DEFINE T == S \cup {y}
<1>1. IsFiniteSet(T) /\ (\A x \in T : f[x] \in Int) /\ y \in T /\ T \ {y} = S
  BY FS_AddElement
<1> HIDE DEF T
<1>2. SumFunctionOnSet(f, T) = f[y] + SumFunctionOnSet(f, S)
  BY <1>1, SumByAny
<1>3. SumFunctionOnSet(f, S) \in Int
  BY SumByAny
<1> QED BY <1>2, <1>3 DEF T

\* An element is taken out of the set.
LEMMA SumRemove ==
    ASSUME NEW S, IsFiniteSet(S), NEW f, \A x \in S : f[x] \in Int, NEW y \in S
    PROVE  SumFunctionOnSet(f, S \ {y}) = SumFunctionOnSet(f, S) - f[y]
<1>1. SumFunctionOnSet(f, S) = f[y] + SumFunctionOnSet(f, S \ {y})
  BY SumByAny
<1>2. IsFiniteSet(S \ {y}) /\ \A x \in S \ {y} : f[x] \in Int
  BY FS_RemoveElement
<1>3. SumFunctionOnSet(f, S \ {y}) \in Int
  BY <1>2, SumByAny
<1> QED BY <1>1, <1>3

\* Functions that agree on a set have the same sum over it.
LEMMA SumSame ==
    ASSUME NEW S, IsFiniteSet(S), NEW f, NEW g,
           \A x \in S : f[x] \in Int /\ g[x] = f[x]
    PROVE  SumFunctionOnSet(g, S) = SumFunctionOnSet(f, S)
<1> DEFINE Bad == {s \in SUBSET S : SumFunctionOnSet(g, s) # SumFunctionOnSet(f, s)}
<1>1. Bad = {}
  <2> SUFFICES ASSUME Bad # {} PROVE FALSE
    OBVIOUS
  <2>1. PICK s \in Bad : \A u \in Bad : u \subseteq s => u = s
    <3>1. Bad \subseteq SUBSET S
      OBVIOUS
    <3> HIDE DEF Bad
    <3> QED BY <3>1, SmallestSubset
  <2>2. IsFiniteSet(s)
    BY FS_Subset
  <2>3. s # {}
    BY SumEmpty
  <2>4. PICK y : y \in s
    BY <2>3
  <2>5. SumFunctionOnSet(f, s) = f[y] + SumFunctionOnSet(f, s \ {y})
    BY <2>2, <2>4, SumByAny
  <2>6. SumFunctionOnSet(g, s) = g[y] + SumFunctionOnSet(g, s \ {y})
    <3>1. \A x \in s : g[x] \in Int
      OBVIOUS
    <3> QED BY <2>2, <2>4, <3>1, SumByAny
  <2>7. SumFunctionOnSet(g, s \ {y}) = SumFunctionOnSet(f, s \ {y})
    BY <2>1, <2>4
  <2> QED BY <2>4, <2>5, <2>6, <2>7
<1> QED BY <1>1

\* One summand changes.
LEMMA SumChange ==
    ASSUME NEW S, IsFiniteSet(S), NEW f, NEW g, NEW y \in S,
           \A x \in S : f[x] \in Int /\ g[x] \in Int,
           \A x \in S \ {y} : g[x] = f[x]
    PROVE  SumFunctionOnSet(g, S) = SumFunctionOnSet(f, S) + (g[y] - f[y])
<1>1. IsFiniteSet(S \ {y})
  BY FS_RemoveElement
<1>2. SumFunctionOnSet(g, S \ {y}) = SumFunctionOnSet(f, S \ {y})
  BY <1>1, SumSame
<1>3. SumFunctionOnSet(f, S) = f[y] + SumFunctionOnSet(f, S \ {y})
  BY SumByAny
<1>4. SumFunctionOnSet(g, S) = g[y] + SumFunctionOnSet(g, S \ {y})
  BY SumByAny
<1>5. SumFunctionOnSet(f, S \ {y}) \in Int
  BY <1>1, SumByAny
<1> QED BY <1>2, <1>3, <1>4, <1>5

\* A sum of naturals is a natural, and at least each of its summands.
LEMMA SumNat ==
    ASSUME NEW S, IsFiniteSet(S), NEW f, \A x \in S : f[x] \in Nat
    PROVE  /\ SumFunctionOnSet(f, S) \in Nat
           /\ \A y \in S : f[y] <= SumFunctionOnSet(f, S)
<1> DEFINE Bad == {s \in SUBSET S : SumFunctionOnSet(f, s) \notin Nat}
<1>0. ASSUME NEW s \in SUBSET S, NEW y \in s
      PROVE  SumFunctionOnSet(f, s) = f[y] + SumFunctionOnSet(f, s \ {y})
  <2>1. IsFiniteSet(s) /\ \A x \in s : f[x] \in Int
    BY FS_Subset
  <2> QED BY <2>1, SumByAny
<1>1. Bad = {}
  <2> SUFFICES ASSUME Bad # {} PROVE FALSE
    OBVIOUS
  <2>1. PICK s \in Bad : \A u \in Bad : u \subseteq s => u = s
    <3>1. Bad \subseteq SUBSET S
      OBVIOUS
    <3> HIDE DEF Bad
    <3> QED BY <3>1, SmallestSubset
  <2>2. s # {}
    BY SumEmpty
  <2>3. PICK y : y \in s
    BY <2>2
  <2>4. SumFunctionOnSet(f, s \ {y}) \in Nat
    BY <2>1, <2>3
  <2> QED BY <1>0, <2>3, <2>4
<1>2. ASSUME NEW y \in S PROVE f[y] <= SumFunctionOnSet(f, S)
  <2>1. SumFunctionOnSet(f, S \ {y}) \in Nat
    BY <1>1
  <2> QED BY <1>0, <2>1
<1> QED BY <1>1, <1>2

\* A sum of zeros is zero.
LEMMA SumZero ==
    ASSUME NEW S, IsFiniteSet(S), NEW f, \A x \in S : f[x] = 0
    PROVE  SumFunctionOnSet(f, S) = 0
<1> DEFINE Bad == {s \in SUBSET S : SumFunctionOnSet(f, s) # 0}
<1>1. Bad = {}
  <2> SUFFICES ASSUME Bad # {} PROVE FALSE
    OBVIOUS
  <2>1. PICK s \in Bad : \A u \in Bad : u \subseteq s => u = s
    <3>1. Bad \subseteq SUBSET S
      OBVIOUS
    <3> HIDE DEF Bad
    <3> QED BY <3>1, SmallestSubset
  <2>2. s # {}
    BY SumEmpty
  <2>3. PICK y : y \in s
    BY <2>2
  <2>4. SumFunctionOnSet(f, s \ {y}) = 0
    BY <2>1, <2>3
  <2>5. SumFunctionOnSet(f, s) = f[y] + SumFunctionOnSet(f, s \ {y})
    <3>1. IsFiniteSet(s) /\ \A x \in s : f[x] \in Int
      BY FS_Subset
    <3> QED BY <2>3, <3>1, SumByAny
  <2> QED BY <2>3, <2>4, <2>5
<1> QED BY <1>1

=============================================================================
