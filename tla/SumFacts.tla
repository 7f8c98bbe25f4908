------------------------------ MODULE SumFacts ------------------------------
(***************************************************************************)
(* Sums over finite sets, for the space that directories take on a disk.   *)
(*                                                                         *)
(* The fold of the community modules is a recursive function, that is, a   *)
(* CHOOSE of some function that satisfies its equation.  That there is one *)
(* and that the order of the summands does not matter need induction over  *)
(* finite sets; here it has the form of a smallest counterexample          *)
(* (SmallestSubset), which is a first-order fact.                          *)
(***************************************************************************)
EXTENDS Integers, FiniteSetsExt, FiniteSetTheorems, TLAPS

Sum(f, S) == MapThenSumSet(LAMBDA x : f[x], S)

\* The element that the fold takes first.
Pick(S) == CHOOSE x \in S : TRUE

\* g satisfies the equation of the fold over subsets of S.
IsSum(g, f, S) ==
  g = [s \in SUBSET S |-> IF s = {} THEN 0 ELSE f[Pick(s)] + g[s \ {Pick(s)}]]

\* The sum of the model is the value at S of a solution of the equation.
LEMMA SumIsFold ==
  ASSUME NEW f, NEW S
  PROVE  Sum(f, S) = (CHOOSE g : IsSum(g, f, S))[S]
  BY DEF Sum, MapThenSumSet, MapThenFoldSet, IsSum, Pick

\* The element that the fold takes is one of the set.
LEMMA PickFact == ASSUME NEW S, S # {} PROVE Pick(S) \in S
  BY DEF Pick

\* Of some subsets of a finite set, one is smallest.
LEMMA SmallestSubset ==
  ASSUME NEW S, IsFiniteSet(S), NEW B \in SUBSET (SUBSET S), B # {}
  PROVE  \E T \in B : \A U \in B : U \subseteq T => U = T
<1>1. B \subseteq FiniteSubsetsOf(S)
  BY FS_FiniteSubsetsOfFinite
<1>2. IsWellFoundedOn(StrictSubsetOrdering(S), FiniteSubsetsOf(S))
  BY FS_StrictSubsetOrderingWellFounded
<1>3. PICK T \in B : \A U \in B : <<U, T>> \notin StrictSubsetOrdering(S)
  BY <1>1, <1>2, WFMin
<1>4. QED
  BY <1>3 DEF StrictSubsetOrdering

\* What the equation says at a single set.
LEMMA SumEquation ==
  ASSUME NEW f, NEW S, NEW g, IsSum(g, f, S), NEW s \in SUBSET S
  PROVE  g[s] = IF s = {} THEN 0 ELSE f[Pick(s)] + g[s \ {Pick(s)}]
<1> DEFINE e(t) == IF t = {} THEN 0 ELSE f[Pick(t)] + g[t \ {Pick(t)}]
<1>1. g = [t \in SUBSET S |-> e(t)]
  BY DEF IsSum
<1> HIDE DEF e
<1>2. g[s] = e(s)
  BY <1>1
<1>3. QED
  BY <1>2 DEF e

\* The equation has one solution at most, whatever the set it is over.
LEMMA SumIsUnique ==
  ASSUME NEW f, NEW S, IsFiniteSet(S), NEW T, NEW g, NEW h,
         IsSum(g, f, S), IsSum(h, f, T), NEW U \in SUBSET (S \cap T)
  PROVE  g[U] = h[U]
<1> SUFFICES ASSUME g[U] # h[U] PROVE FALSE
  OBVIOUS
<1> DEFINE B == {V \in SUBSET S : V \subseteq T /\ g[V] # h[V]}
<1>1. PICK V \in B : \A W \in B : W \subseteq V => W = V
  <2>1. B \in SUBSET (SUBSET S) /\ U \in B
    OBVIOUS
  <2> HIDE DEF B
  <2>2. QED
    BY <2>1, SmallestSubset
<1>2. V # {}
  BY <1>1, SumEquation
<1> DEFINE x == Pick(V)
<1>3. x \in V /\ V \ {x} \notin B
  BY <1>1, <1>2, PickFact
<1>4. g[V \ {x}] = h[V \ {x}]
  BY <1>3
<1>5. g[V] = f[x] + g[V \ {x}] /\ h[V] = f[x] + h[V \ {x}]
  BY <1>1, <1>2, SumEquation
<1>6. QED
  BY <1>1, <1>4, <1>5

\* It has a solution.
LEMMA SumExists ==
  ASSUME NEW f, NEW S, IsFiniteSet(S)
  PROVE  \E g : IsSum(g, f, S)
<1> SUFFICES ASSUME ~ \E g : IsSum(g, f, S) PROVE FALSE
  OBVIOUS
<1> DEFINE B == {T \in SUBSET S : ~ \E g : IsSum(g, f, T)}
<1>1. PICK T \in B : \A U \in B : U \subseteq T => U = T
  <2>1. B \in SUBSET (SUBSET S) /\ S \in B
    OBVIOUS
  <2> HIDE DEF B
  <2>2. QED
    BY <2>1, SmallestSubset
<1> DEFINE of(U) == CHOOSE g : IsSum(g, f, U)
           total(U) == of(U)[U]
           e(s) == IF s = {} THEN 0 ELSE f[Pick(s)] + total(s \ {Pick(s)})
           h == [s \in SUBSET T |-> e(s)]
<1>2. \A U \in SUBSET T : U # T => IsSum(of(U), f, U)
  BY <1>1
<1> HIDE DEF of
<1>3. \A U \in SUBSET T : U # T => total(U) = e(U)
  <2> SUFFICES ASSUME NEW U \in SUBSET T, U # T PROVE total(U) = e(U)
    OBVIOUS
  <2>1. CASE U = {}
    BY <1>2, <2>1, SumEquation
  <2>2. CASE U # {}
    <3> DEFINE V == U \ {Pick(U)}
    <3>1. Pick(U) \in U /\ V \in SUBSET T /\ V # T
      BY <2>2, PickFact
    <3>2. total(U) = f[Pick(U)] + of(U)[V]
      BY <1>2, <2>2, SumEquation
    <3>3. of(U)[V] = of(V)[V]
      <4>1. IsFiniteSet(U)
        BY FS_Subset, <1>1
      <4>2. IsSum(of(U), f, U) /\ IsSum(of(V), f, V) /\ V \in SUBSET (U \cap V)
        BY <1>2, <3>1
      <4> HIDE DEF V
      <4>3. QED
        BY <4>1, <4>2, SumIsUnique
    <3>4. QED
      BY <2>2, <3>2, <3>3
  <2>3. QED
    BY <2>1, <2>2
<1>4. \A s \in SUBSET T : e(s) = IF s = {} THEN 0 ELSE f[Pick(s)] + h[s \ {Pick(s)}]
  <2> SUFFICES ASSUME NEW s \in SUBSET T, s # {}
               PROVE  total(s \ {Pick(s)}) = h[s \ {Pick(s)}]
    OBVIOUS
  <2>1. s \ {Pick(s)} \in SUBSET T /\ s \ {Pick(s)} # T
    BY PickFact
  <2>2. total(s \ {Pick(s)}) = e(s \ {Pick(s)})
    BY <1>3, <2>1
  <2> HIDE DEF e
  <2>3. QED
    BY <2>1, <2>2
<1>5. IsSum(h, f, T)
  <2> HIDE DEF e
  <2>1. h = [s \in SUBSET T |-> IF s = {} THEN 0 ELSE f[Pick(s)] + h[s \ {Pick(s)}]]
    BY <1>4
  <2> HIDE DEF h
  <2>2. QED
    BY <2>1 DEF IsSum
<1>6. QED
  BY <1>1, <1>5

\* The sum over a set is the element that the fold takes, plus the rest.
LEMMA SumStep ==
  ASSUME NEW f, NEW S, IsFiniteSet(S)
  PROVE  Sum(f, S) = IF S = {} THEN 0 ELSE f[Pick(S)] + Sum(f, S \ {Pick(S)})
<1> DEFINE of(U) == CHOOSE g : IsSum(g, f, U)
           V == S \ {Pick(S)}
<1>1. IsSum(of(S), f, S)
  BY SumExists
<1>2. IsFiniteSet(V)
  BY FS_RemoveElement
<1> HIDE DEF V
<1>3. IsSum(of(V), f, V)
  BY <1>2, SumExists
<1>4. Sum(f, S) = of(S)[S] /\ Sum(f, V) = of(V)[V]
  BY SumIsFold
<1> HIDE DEF of
<1>5. of(S)[V] = of(V)[V]
  <2>1. V \in SUBSET (S \cap V)
    BY DEF V
  <2>2. QED
    BY <1>1, <1>3, <2>1, SumIsUnique
<1>6. of(S)[S] = IF S = {} THEN 0 ELSE f[Pick(S)] + of(S)[V]
  BY <1>1, SumEquation DEF V
<1>7. QED
  BY <1>4, <1>5, <1>6 DEF V

\* The sum over no elements is zero.
LEMMA SumEmpty == ASSUME NEW f PROVE Sum(f, {}) = 0
  BY FS_EmptySet, SumStep

\* A sum of integers is an integer.
LEMMA SumType ==
  ASSUME NEW f, NEW S, IsFiniteSet(S), \A x \in S : f[x] \in Int
  PROVE  Sum(f, S) \in Int
<1> SUFFICES ASSUME Sum(f, S) \notin Int PROVE FALSE
  OBVIOUS
<1> DEFINE B == {T \in SUBSET S : Sum(f, T) \notin Int}
<1>1. PICK T \in B : \A U \in B : U \subseteq T => U = T
  <2>1. B \in SUBSET (SUBSET S) /\ S \in B
    OBVIOUS
  <2> HIDE DEF B
  <2>2. QED
    BY <2>1, SmallestSubset
<1>2. IsFiniteSet(T)
  BY FS_Subset
<1>3. T # {}
  <2>1. Sum(f, {}) \in Int
    BY SumEmpty
  <2>2. {} \notin B
    BY <2>1
  <2> HIDE DEF B
  <2>3. QED
    BY <1>1, <2>2
<1>4. Pick(T) \in T /\ T \ {Pick(T)} \notin B
  BY <1>1, <1>3, PickFact
<1>5. f[Pick(T)] \in Int /\ Sum(f, T \ {Pick(T)}) \in Int
  BY <1>4
<1>6. Sum(f, T) = f[Pick(T)] + Sum(f, T \ {Pick(T)})
  BY <1>2, <1>3, SumStep
<1>7. QED
  BY <1>1, <1>5, <1>6

\* Any element may come first: for the space on a disk, one directory that changes
\* changes the total by its own difference, whatever order the code adds them in.
THEOREM SumRemove ==
  ASSUME NEW f, NEW S, IsFiniteSet(S), \A y \in S : f[y] \in Int, NEW x \in S
  PROVE  Sum(f, S) = f[x] + Sum(f, S \ {x})
<1> DEFINE bad(T, z) == z \in T /\ Sum(f, T) # f[z] + Sum(f, T \ {z})
           B == {T \in SUBSET S : \E z \in T : bad(T, z)}
<1> SUFFICES ASSUME bad(S, x) PROVE FALSE
  OBVIOUS
<1>1. PICK T \in B : \A U \in B : U \subseteq T => U = T
  <2>1. B \in SUBSET (SUBSET S) /\ S \in B
    OBVIOUS
  <2> HIDE DEF B
  <2>2. QED
    BY <2>1, SmallestSubset
<1>2. PICK z \in T : bad(T, z)
  BY <1>1
<1> DEFINE y == Pick(T)
<1>3. y \in T /\ T \subseteq S
  BY <1>2, PickFact
<1>4. IsFiniteSet(T) /\ IsFiniteSet(T \ {z}) /\ IsFiniteSet((T \ {z}) \ {y})
  BY <1>3, FS_Subset, FS_RemoveElement
<1>5. Sum(f, T) = f[y] + Sum(f, T \ {y})
  BY <1>2, <1>4, SumStep
<1>6. y # z
  BY <1>2, <1>5
<1>7. Sum(f, T \ {y}) = f[z] + Sum(f, (T \ {y}) \ {z})
  <2>1. z \in T \ {y} /\ T \ {y} \subseteq T /\ T \ {y} # T
    BY <1>3, <1>6
  <2>2. ~bad(T \ {y}, z)
    BY <1>1, <1>3, <2>1
  <2>3. QED
    BY <2>1, <2>2
<1>8. Sum(f, T \ {z}) = f[y] + Sum(f, (T \ {z}) \ {y})
  <2>1. y \in T \ {z} /\ T \ {z} \subseteq T /\ T \ {z} # T
    BY <1>3, <1>6
  <2>2. ~bad(T \ {z}, y)
    BY <1>1, <1>3, <2>1
  <2>3. QED
    BY <2>1, <2>2
<1>9. (T \ {y}) \ {z} = (T \ {z}) \ {y}
  OBVIOUS
<1> DEFINE a == f[y]
           b == f[z]
           r == Sum(f, (T \ {z}) \ {y})
<1>10. a \in Int /\ b \in Int /\ r \in Int
  BY <1>3, <1>4, SumType
<1>11. Sum(f, T) = a + (b + r) /\ Sum(f, T \ {z}) = a + r
  BY <1>5, <1>7, <1>8, <1>9
<1> HIDE DEF a, b, r
<1>12. Sum(f, T) = b + Sum(f, T \ {z})
  BY <1>10, <1>11
<1>13. QED
  BY <1>2, <1>12 DEF b

\* Functions that agree have the same sum.
LEMMA SumAgree ==
  ASSUME NEW f, NEW h, NEW S, IsFiniteSet(S), \A x \in S : f[x] = h[x]
  PROVE  Sum(f, S) = Sum(h, S)
<1> SUFFICES ASSUME Sum(f, S) # Sum(h, S) PROVE FALSE
  OBVIOUS
<1> DEFINE B == {T \in SUBSET S : Sum(f, T) # Sum(h, T)}
<1>1. PICK T \in B : \A U \in B : U \subseteq T => U = T
  <2>1. B \in SUBSET (SUBSET S) /\ S \in B
    OBVIOUS
  <2> HIDE DEF B
  <2>2. QED
    BY <2>1, SmallestSubset
<1>2. IsFiniteSet(T)
  BY FS_Subset
<1>3. T # {}
  <2>1. Sum(f, {}) = 0 /\ Sum(h, {}) = 0
    BY SumEmpty
  <2>2. QED
    BY <1>1, <2>1
<1>4. Pick(T) \in T /\ T \ {Pick(T)} \notin B /\ T \subseteq S
  BY <1>1, <1>3, PickFact
<1>5. Sum(f, T) = f[Pick(T)] + Sum(f, T \ {Pick(T)})
  BY <1>2, <1>3, SumStep
<1>6. Sum(h, T) = h[Pick(T)] + Sum(h, T \ {Pick(T)})
  BY <1>2, <1>3, SumStep
<1>7. QED
  BY <1>1, <1>4, <1>5, <1>6
=============================================================================
