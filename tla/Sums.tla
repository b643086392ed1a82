-------------------------------- MODULE Sums --------------------------------
(* What a proof needs to know of sums over finite sets. The models add up with MapThenSumSet, a
   recursion over sets; its laws are proved here for summands given as a function, by induction in
   the form of a minimal counterexample, which quantifies over sets and over nothing else. *)
EXTENDS Integers, FiniteSets, FiniteSetsExt, FiniteSetTheorems, TLAPS

SumOf(f, S) == MapThenSumSet(LAMBDA x : f[x], S)

Pick(s) == CHOOSE x \in s : TRUE

(* g is a solution, on the subsets of S, of the recursion that defines the sum of f. *)
Adds(g, f, S) ==
    g = [s \in SUBSET S |-> IF s = {} THEN 0 ELSE f[Pick(s)] + g[s \ {Pick(s)}]]

(* Induction over a finite set: a set of its subsets that is not empty has a smallest one, none of
   whose proper subsets belongs to it. *)
LEMMA SmallestSubset ==
    ASSUME NEW S, IsFiniteSet(S), NEW T, T \subseteq SUBSET S, T # {}
    PROVE  \E s \in T : \A t \in T : t \subseteq s => t = s
<1>1. IsWellFoundedOn(StrictSubsetOrdering(S), SUBSET S)
  BY FS_StrictSubsetOrderingWellFounded, FS_FiniteSubsetsOfFinite
<1>2. PICK s \in T : \A t \in T : ~(<<t, s>> \in StrictSubsetOrdering(S))
  BY <1>1, WFMin
<1> QED
  BY <1>2 DEF StrictSubsetOrdering

(* What is picked from a set is in it. *)
LEMMA Picked == ASSUME NEW s, s # {} PROVE Pick(s) \in s
  BY DEF Pick

(* Two solutions agree wherever both are defined. *)
LEMMA SolutionsAgree ==
    ASSUME NEW f, NEW S, NEW T, IsFiniteSet(S), NEW g, NEW h, Adds(g, f, S), Adds(h, f, T)
    PROVE  \A s \in SUBSET (S \cap T) : g[s] = h[s]
<1> DEFINE Bad == {s \in SUBSET (S \cap T) : g[s] # h[s]}
<1>1. SUFFICES ASSUME Bad # {} PROVE FALSE
  OBVIOUS
<1>2. PICK s \in Bad : \A t \in Bad : t \subseteq s => t = s
  <2>1. Bad \subseteq SUBSET S
    OBVIOUS
  <2> HIDE DEF Bad
  <2> QED
    BY <1>1, <2>1, SmallestSubset
<1>3. /\ g[s] = IF s = {} THEN 0 ELSE f[Pick(s)] + g[s \ {Pick(s)}]
      /\ h[s] = IF s = {} THEN 0 ELSE f[Pick(s)] + h[s \ {Pick(s)}]
  <2>1. s \in SUBSET S /\ s \in SUBSET T
    BY <1>2
  <2> QED
    BY <2>1, Zenon DEF Adds
<1>4. s # {} /\ s \ {Pick(s)} \notin Bad
  BY <1>2, <1>3, Picked
<1> QED
  BY <1>2, <1>3, <1>4

(* Every finite set has a solution. *)
LEMMA SolutionExists ==
    ASSUME NEW f, NEW S, IsFiniteSet(S)
    PROVE  \E g : Adds(g, f, S)
<1> DEFINE Bad == {s \in SUBSET S : ~\E g : Adds(g, f, s)}
<1>1. SUFFICES ASSUME Bad # {} PROVE FALSE
  BY Zenon
<1>2. PICK s \in Bad : \A t \in Bad : t \subseteq s => t = s
  <2>1. Bad \subseteq SUBSET S
    OBVIOUS
  <2> HIDE DEF Bad
  <2> QED
    BY <1>1, <2>1, SmallestSubset
<1>3. \A t \in SUBSET s : t # s => \E g : Adds(g, f, t)
  BY <1>2
<1> DEFINE Sol(t) == CHOOSE g : Adds(g, f, t)
           Value(t) == IF t = {} THEN 0 ELSE f[Pick(t)] + Sol(t \ {Pick(t)})[t \ {Pick(t)}]
           G == [t \in SUBSET s |-> Value(t)]
<1>4. \A t \in SUBSET s : t # s => Adds(Sol(t), f, t)
  BY <1>3, Zenon
<1>5. \A t \in SUBSET s : t # s => Sol(t)[t] = G[t]
  <2> SUFFICES ASSUME NEW t \in SUBSET s, t # s PROVE Sol(t)[t] = G[t]
    OBVIOUS
  <2>1. Sol(t)[t] = IF t = {} THEN 0 ELSE f[Pick(t)] + Sol(t)[t \ {Pick(t)}]
    <3>1. Adds(Sol(t), f, t) /\ t \in SUBSET t
      BY <1>4
    <3> HIDE DEF Sol
    <3> QED
      BY <3>1, Zenon DEF Adds
  <2>2. CASE t = {}
    BY <2>1, <2>2
  <2>3. CASE t # {}
    <3> DEFINE u == t \ {Pick(t)}
    <3>1. u \in SUBSET s /\ u # s /\ u \in SUBSET t
      BY <2>3, Picked
    <3>2. IsFiniteSet(t)
      BY FS_Subset
    <3>3. Sol(t)[u] = Sol(u)[u]
      <4>1. Adds(Sol(t), f, t) /\ Adds(Sol(u), f, u)
        BY <3>1, <1>4
      <4>2. u \in SUBSET (t \cap u)
        BY <3>1
      <4> HIDE DEF Sol, u
      <4> QED
        BY <4>1, <4>2, <3>2, SolutionsAgree
    <3> QED
      BY <2>1, <2>3, <3>3
  <2> QED
    BY <2>2, <2>3
<1>6. Adds(G, f, s)
  <2>1. ASSUME NEW t \in SUBSET s, t # {}
        PROVE  Sol(t \ {Pick(t)})[t \ {Pick(t)}] = G[t \ {Pick(t)}]
    <3>1. t \ {Pick(t)} \in SUBSET s /\ t \ {Pick(t)} # s
      BY <2>1, Picked
    <3> QED
      BY <3>1, <1>5
  <2>2. G = [t \in SUBSET s |-> IF t = {} THEN 0 ELSE f[Pick(t)] + G[t \ {Pick(t)}]]
    <3>1. ASSUME NEW t \in SUBSET s
          PROVE  Value(t) = IF t = {} THEN 0 ELSE f[Pick(t)] + G[t \ {Pick(t)}]
      <4>1. CASE t = {}
        BY <4>1
      <4>2. CASE t # {}
        <5> HIDE DEF G, Sol
        <5> QED
          BY <4>2, <2>1
      <4> QED
        BY <4>1, <4>2
    <3> HIDE DEF Value
    <3> QED
      BY <3>1, Zenon
  <2> HIDE DEF G
  <2> QED
    BY <2>2 DEF Adds
<1> QED
  BY <1>2, <1>6

-----------------------------------------------------------------------------
(* The recursion the models' sums satisfy. *)

Solution(f, S) == CHOOSE g : Adds(g, f, S)

(* The sum is what a solution says of the whole set. *)
LEMMA SumIsSolution ==
    ASSUME NEW f, NEW S
    PROVE  SumOf(f, S) = Solution(f, S)[S]
BY Zenon DEF SumOf, MapThenSumSet, MapThenFoldSet, Solution, Adds, Pick

(* The empty sum is zero. *)
LEMMA SumOfEmpty == ASSUME NEW f PROVE SumOf(f, {}) = 0
<1>1. IsFiniteSet({})
  BY FS_EmptySet
<1>2. Adds(Solution(f, {}), f, {})
  BY <1>1, SolutionExists, Zenon DEF Solution
<1>3. {} \in SUBSET {}
  OBVIOUS
<1>4. Solution(f, {})[{}] = 0
  BY <1>2, <1>3, Zenon DEF Adds
<1> QED
  BY <1>4, SumIsSolution

(* Any other sum is one summand and the sum of the rest. *)
LEMMA SumOfRest ==
    ASSUME NEW f, NEW S, IsFiniteSet(S), S # {}
    PROVE  SumOf(f, S) = f[Pick(S)] + SumOf(f, S \ {Pick(S)})
<1> DEFINE R == S \ {Pick(S)}
<1>1. IsFiniteSet(R) /\ R \in SUBSET S /\ R \in SUBSET (S \cap R)
  BY FS_RemoveElement
<1>2. Adds(Solution(f, S), f, S) /\ Adds(Solution(f, R), f, R)
  <2> HIDE DEF R
  <2> QED
    BY <1>1, SolutionExists, Zenon DEF Solution
<1>3. Solution(f, S)[S] = f[Pick(S)] + Solution(f, S)[R]
  <2>1. S \in SUBSET S
    OBVIOUS
  <2> QED
    BY <1>2, <2>1, Zenon DEF Adds
<1>4. Solution(f, S)[R] = Solution(f, R)[R]
  <2> HIDE DEF R
  <2> QED
    BY <1>1, <1>2, SolutionsAgree
<1> QED
  BY <1>3, <1>4, SumIsSolution

-----------------------------------------------------------------------------
(* The laws *)

(* A sum of integers is an integer. *)
LEMMA SumOfType ==
    ASSUME NEW S, IsFiniteSet(S), NEW f, \A x \in S : f[x] \in Int
    PROVE  SumOf(f, S) \in Int
<1> DEFINE Bad == {s \in SUBSET S : SumOf(f, s) \notin Int}
<1>1. SUFFICES ASSUME Bad # {} PROVE FALSE
  BY Zenon
<1>2. PICK s \in Bad : \A t \in Bad : t \subseteq s => t = s
  <2>1. Bad \subseteq SUBSET S
    OBVIOUS
  <2> HIDE DEF Bad
  <2> QED
    BY <1>1, <2>1, SmallestSubset
<1>3. s # {} /\ IsFiniteSet(s)
  <2>1. SumOf(f, {}) \in Int
    BY SumOfEmpty
  <2> QED
    BY <1>2, <2>1, FS_Subset
<1>4. SumOf(f, s) = f[Pick(s)] + SumOf(f, s \ {Pick(s)}) /\ Pick(s) \in s
  BY <1>3, SumOfRest, Picked
<1>5. SumOf(f, s \ {Pick(s)}) \in Int
  BY <1>2, <1>4
<1> QED
  BY <1>2, <1>4, <1>5

(* Sums of the same summands are the same. *)
LEMMA SumOfSame ==
    ASSUME NEW S, IsFiniteSet(S), NEW f, NEW g, \A x \in S : f[x] = g[x]
    PROVE  SumOf(f, S) = SumOf(g, S)
<1> DEFINE Bad == {s \in SUBSET S : SumOf(f, s) # SumOf(g, s)}
<1>1. SUFFICES ASSUME Bad # {} PROVE FALSE
  BY Zenon
<1>2. PICK s \in Bad : \A t \in Bad : t \subseteq s => t = s
  <2>1. Bad \subseteq SUBSET S
    OBVIOUS
  <2> HIDE DEF Bad
  <2> QED
    BY <1>1, <2>1, SmallestSubset
<1>3. s # {} /\ IsFiniteSet(s)
  BY <1>2, SumOfEmpty, FS_Subset
<1>4. /\ SumOf(f, s) = f[Pick(s)] + SumOf(f, s \ {Pick(s)})
      /\ SumOf(g, s) = g[Pick(s)] + SumOf(g, s \ {Pick(s)})
      /\ Pick(s) \in s
  BY <1>3, SumOfRest, Picked
<1>5. SumOf(f, s \ {Pick(s)}) = SumOf(g, s \ {Pick(s)})
  BY <1>2, <1>4
<1> QED
  BY <1>2, <1>4, <1>5

(* Changing one summand changes the sum by as much. *)
LEMMA SumOfChange ==
    ASSUME NEW S, IsFiniteSet(S), NEW f, NEW g, NEW y \in S,
           \A x \in S : f[x] \in Int /\ g[x] \in Int,
           \A x \in S \ {y} : f[x] = g[x]
    PROVE  SumOf(g, S) = SumOf(f, S) + (g[y] - f[y])
<1> DEFINE Bad == {s \in SUBSET S : y \in s /\ SumOf(g, s) # SumOf(f, s) + (g[y] - f[y])}
<1>1. SUFFICES ASSUME Bad # {} PROVE FALSE
  BY Zenon
<1>2. PICK s \in Bad : \A t \in Bad : t \subseteq s => t = s
  <2>1. Bad \subseteq SUBSET S
    OBVIOUS
  <2> HIDE DEF Bad
  <2> QED
    BY <1>1, <2>1, SmallestSubset
<1> DEFINE p == Pick(s)
           r == s \ {p}
<1>3. s # {} /\ IsFiniteSet(s) /\ IsFiniteSet(r) /\ p \in s /\ r \subseteq S
  BY <1>2, FS_Subset, FS_RemoveElement, Picked
<1>4. SumOf(f, s) = f[p] + SumOf(f, r) /\ SumOf(g, s) = g[p] + SumOf(g, r)
  BY <1>3, SumOfRest
<1>5. SumOf(f, r) \in Int /\ SumOf(g, r) \in Int
  <2> HIDE DEF r
  <2> QED
    BY <1>3, SumOfType
<1>6. CASE p = y
  <2>1. \A x \in r : f[x] = g[x]
    BY <1>3, <1>6
  <2>2. SumOf(f, r) = SumOf(g, r)
    <3> HIDE DEF r
    <3> QED
      BY <1>3, <2>1, SumOfSame
  <2> QED
    BY <1>2, <1>4, <1>5, <1>6, <2>2
<1>7. CASE p # y
  <2>1. SumOf(g, r) = SumOf(f, r) + (g[y] - f[y])
    BY <1>2, <1>3, <1>7
  <2> QED
    BY <1>2, <1>3, <1>4, <1>5, <1>7, <2>1
<1> QED
  BY <1>6, <1>7

(* A sum can be taken apart at any element. *)
LEMMA SumOfSplit ==
    ASSUME NEW S, IsFiniteSet(S), NEW f, \A x \in S : f[x] \in Int, NEW y \in S
    PROVE  SumOf(f, S) = f[y] + SumOf(f, S \ {y})
<1> DEFINE Splits(s, x) == SumOf(f, s) = f[x] + SumOf(f, s \ {x})
           Bad == {s \in SUBSET S : \E x \in s : ~Splits(s, x)}
<1>1. SUFFICES ASSUME Bad # {} PROVE FALSE
  <2>1. S \in SUBSET S
    OBVIOUS
  <2> QED
    BY <2>1, Zenon
<1>2. PICK s \in Bad : \A t \in Bad : t \subseteq s => t = s
  <2>1. Bad \subseteq SUBSET S
    OBVIOUS
  <2> HIDE DEF Bad
  <2> QED
    BY <1>1, <2>1, SmallestSubset
<1>3. PICK x \in s : ~Splits(s, x)
  BY <1>2, Zenon
<1> DEFINE p == Pick(s)
           r == s \ {p}
           q == s \ {x}
           u == r \ {x}
<1>4. /\ s # {} /\ s \subseteq S /\ IsFiniteSet(s) /\ IsFiniteSet(r) /\ IsFiniteSet(q)
      /\ IsFiniteSet(u) /\ p \in s
  BY <1>2, FS_Subset, FS_RemoveElement, Picked
<1>5. SumOf(f, s) = f[p] + SumOf(f, r)
  BY <1>4, SumOfRest
<1>6. p # x
  BY <1>3, <1>5
<1>7. Splits(r, x) /\ Splits(q, p)
  <2>1. r \subseteq s /\ r # s /\ x \in r /\ q \subseteq s /\ q # s /\ p \in q
    BY <1>4, <1>6
  <2>2. r \in SUBSET S /\ q \in SUBSET S /\ r \notin Bad /\ q \notin Bad
    BY <1>2, <1>4, <2>1, Zenon
  <2> HIDE DEF Splits, r, q
  <2> QED
    BY <2>1, <2>2, Zenon
<1>8. SumOf(f, r) = f[x] + SumOf(f, u) /\ SumOf(f, q) = f[p] + SumOf(f, u)
  <2>1. q \ {p} = u
    OBVIOUS
  <2> QED
    BY <1>7, <2>1
<1>9. SumOf(f, u) \in Int /\ f[p] \in Int /\ f[x] \in Int
  <2>1. u \subseteq S
    BY <1>4
  <2> HIDE DEF u
  <2> QED
    BY <1>4, <2>1, SumOfType
<1>10. SumOf(f, s) = f[x] + SumOf(f, q)
  <2> HIDE DEF p, r, q, u
  <2> QED
    BY <1>5, <1>8, <1>9
<1> QED
  BY <1>3, <1>10

(* Of natural numbers, a part adds up to no more than the whole. *)
LEMMA SumOfPart ==
    ASSUME NEW S, IsFiniteSet(S), NEW f, \A x \in S : f[x] \in Nat, NEW T \in SUBSET S
    PROVE  SumOf(f, T) \in Nat /\ SumOf(f, T) <= SumOf(f, S)
<1>t. ASSUME NEW s \in SUBSET S PROVE SumOf(f, s) \in Int
  BY FS_Subset, SumOfType
<1>1. ASSUME NEW U \in SUBSET S, NEW V \in SUBSET U PROVE SumOf(f, V) <= SumOf(f, U)
  <2> DEFINE Bad == {s \in SUBSET S : V \subseteq s /\ ~(SumOf(f, V) <= SumOf(f, s))}
  <2>1. SUFFICES ASSUME Bad # {} PROVE FALSE
    BY <1>1, Zenon
  <2>2. PICK s \in Bad : \A t \in Bad : t \subseteq s => t = s
    <3>1. Bad \subseteq SUBSET S
      OBVIOUS
    <3> HIDE DEF Bad
    <3> QED
      BY <2>1, <3>1, SmallestSubset
  <2>3. s \in SUBSET S /\ V \subseteq s /\ SumOf(f, V) \in Int /\ SumOf(f, s) \in Int
    BY <1>t, <2>2
  <2>4. PICK x \in s : x \notin V
    <3>1. s # V
      BY <2>2, <2>3
    <3> QED
      BY <2>3, <3>1
  <2> DEFINE r == s \ {x}
  <2>5. SumOf(f, s) = f[x] + SumOf(f, r)
    <3>1. IsFiniteSet(s) /\ \A z \in s : f[z] \in Int
      BY <2>3, FS_Subset
    <3> HIDE DEF r
    <3>2. SumOf(f, s) = f[x] + SumOf(f, s \ {x})
      BY <2>4, <3>1, SumOfSplit
    <3> QED
      BY <3>2 DEF r
  <2>6. r \in SUBSET S /\ V \subseteq r /\ r \subseteq s /\ r # s
    BY <2>3, <2>4
  <2>7. SumOf(f, V) <= SumOf(f, r) /\ SumOf(f, r) \in Int /\ f[x] \in Nat
    BY <1>t, <2>2, <2>3, <2>6
  <2> QED
    BY <2>2, <2>3, <2>5, <2>7
<1>2. SumOf(f, {}) <= SumOf(f, T) /\ SumOf(f, T) <= SumOf(f, S)
  BY <1>1
<1> QED
  BY <1>t, <1>2, SumOfEmpty

(* Of summands that are no greater the sum is no greater; if one of them is less, it is less. *)
LEMMA SumOfLess ==
    ASSUME NEW S, IsFiniteSet(S), NEW f, NEW g,
           \A x \in S : f[x] \in Int /\ g[x] \in Int /\ f[x] <= g[x]
    PROVE  /\ SumOf(f, S) <= SumOf(g, S)
           /\ (\E x \in S : f[x] < g[x]) => SumOf(f, S) < SumOf(g, S)
<1>1. ASSUME NEW T \in SUBSET S PROVE SumOf(f, T) <= SumOf(g, T)
  <2> DEFINE Bad == {s \in SUBSET S : ~(SumOf(f, s) <= SumOf(g, s))}
  <2>1. SUFFICES ASSUME Bad # {} PROVE FALSE
    BY Zenon
  <2>2. PICK s \in Bad : \A t \in Bad : t \subseteq s => t = s
    <3>1. Bad \subseteq SUBSET S
      OBVIOUS
    <3> HIDE DEF Bad
    <3> QED
      BY <2>1, <3>1, SmallestSubset
  <2>3. s # {} /\ IsFiniteSet(s)
    <3>1. SumOf(f, {}) <= SumOf(g, {})
      BY SumOfEmpty
    <3> QED
      BY <2>2, <3>1, FS_Subset
  <2> DEFINE r == s \ {Pick(s)}
  <2>4. /\ SumOf(f, s) = f[Pick(s)] + SumOf(f, r)
        /\ SumOf(g, s) = g[Pick(s)] + SumOf(g, r)
        /\ Pick(s) \in s
    BY <2>3, SumOfRest, Picked
  <2>5. SumOf(f, r) <= SumOf(g, r)
    BY <2>2, <2>4
  <2>6. SumOf(f, r) \in Int /\ SumOf(g, r) \in Int
    <3>1. IsFiniteSet(r) /\ r \subseteq S
      BY <2>2, <2>3, FS_RemoveElement
    <3> HIDE DEF r
    <3> QED
      BY <3>1, SumOfType
  <2>7. f[Pick(s)] \in Int /\ g[Pick(s)] \in Int /\ f[Pick(s)] <= g[Pick(s)]
    BY <2>2, <2>4
  <2>8. SumOf(f, s) <= SumOf(g, s)
    <3> HIDE DEF r, Bad
    <3> QED
      BY <2>4, <2>5, <2>6, <2>7
  <2> QED
    BY <2>2, <2>8
<1>2. ASSUME NEW y \in S, f[y] < g[y] PROVE SumOf(f, S) < SumOf(g, S)
  <2> DEFINE r == S \ {y}
  <2>1. SumOf(f, S) = f[y] + SumOf(f, r) /\ SumOf(g, S) = g[y] + SumOf(g, r)
    BY SumOfSplit
  <2>2. SumOf(f, r) <= SumOf(g, r)
    BY <1>1
  <2>3. SumOf(f, r) \in Int /\ SumOf(g, r) \in Int
    <3>1. IsFiniteSet(r) /\ r \subseteq S
      BY FS_RemoveElement
    <3> HIDE DEF r
    <3> QED
      BY <3>1, SumOfType
  <2> QED
    BY <1>2, <2>1, <2>2, <2>3
<1> QED
  BY <1>1, <1>2

(* A sum of equal summands is their number times the summand. *)
LEMMA SumOfConstant ==
    ASSUME NEW S, IsFiniteSet(S), NEW f, NEW c \in Int, \A x \in S : f[x] = c
    PROVE  SumOf(f, S) = Cardinality(S) * c
<1> DEFINE Bad == {s \in SUBSET S : SumOf(f, s) # Cardinality(s) * c}
<1>1. SUFFICES ASSUME Bad # {} PROVE FALSE
  BY Zenon
<1>2. PICK s \in Bad : \A t \in Bad : t \subseteq s => t = s
  <2>1. Bad \subseteq SUBSET S
    OBVIOUS
  <2> HIDE DEF Bad
  <2> QED
    BY <1>1, <2>1, SmallestSubset
<1>3. s # {} /\ IsFiniteSet(s)
  BY <1>2, SumOfEmpty, FS_Subset, FS_EmptySet
<1> DEFINE r == s \ {Pick(s)}
<1>4. /\ SumOf(f, s) = f[Pick(s)] + SumOf(f, r)
      /\ Pick(s) \in s
      /\ Cardinality(r) = Cardinality(s) - 1
      /\ Cardinality(s) \in Nat
  BY <1>3, SumOfRest, Picked, FS_RemoveElement, FS_CardinalityType
<1>5. SumOf(f, r) = Cardinality(r) * c
  BY <1>2, <1>4
<1>6. (Cardinality(s) - 1) * c = Cardinality(s) * c - c
  BY <1>4
<1> QED
  BY <1>2, <1>4, <1>5, <1>6
=============================================================================
