---------------------------- MODULE OrderLemmas ----------------------------
(***************************************************************************)
(* Facts about numbers and finite sets that the proofs of several modules  *)
(* cite: the slots of the code's tables are numbers, and a scan takes the  *)
(* first, the oldest or the least recently used one.  A recursive function *)
(* over the numbers exists when it goes down.                              *)
(***************************************************************************)
EXTENDS Integers, FiniteSets, FiniteSetTheorems, WellFoundedInduction, TLAPS

\* Numbers have a least one: otherwise the sets of those up to each of them, which are
\* finite, would descend for ever.
LEMMA LeastNatural ==
    ASSUME NEW S, S \subseteq Nat, S # {}
    PROVE  \E i \in S : \A j \in S : i <= j
<1>1. PICK n \in S : n \in Nat
  OBVIOUS
<1> DEFINE T == {j \in S : j <= n}
           upTo(i) == {j \in T : j <= i}
           all == {upTo(i) : i \in T}
<1>2. T \subseteq Nat /\ n \in T
  <2>1. T \subseteq Nat
    OBVIOUS
  <2>2. n <= n
    BY <1>1
  <2> QED
    BY <2>1, <2>2
<1>3. IsFiniteSet(T)
  <2>1. T \subseteq 0..n
    BY <1>1, <1>2
  <2>2. n \in Int /\ 0 \in Int
    BY <1>1
  <2>3. IsFiniteSet(0..n)
    BY <2>2, FS_Interval
  <2> QED
    BY <2>1, <2>3, FS_Subset
<1>4. \A i \in T : IsFiniteSet(upTo(i))
  BY <1>3, FS_Subset
<1>5. all \subseteq FiniteSubsetsOf(T) /\ all # {}
  BY <1>2, <1>4 DEF FiniteSubsetsOf
<1>6. PICK x \in all : \A y \in all : ~(<<y, x>> \in StrictSubsetOrdering(T))
  <2> HIDE DEF all
  <2> QED
    BY <1>3, <1>5, WFMin, FS_StrictSubsetOrderingWellFounded
<1>7. PICK i \in T : x = upTo(i)
  BY <1>6
<1>8. ASSUME NEW j \in T, j < i PROVE FALSE
  <2>1. upTo(j) \in all /\ upTo(j) \subseteq T /\ upTo(i) \subseteq T
    OBVIOUS
  <2>2. \A k \in T : k \in Nat /\ (k <= j => k <= i)
    BY <1>2, <1>8
  <2>3. upTo(j) \subseteq upTo(i)
    BY <2>2
  <2>4. i \in upTo(i) /\ i \notin upTo(j)
    BY <1>2, <1>8
  <2>5. <<upTo(j), upTo(i)>> \in StrictSubsetOrdering(T)
    BY <2>1, <2>3, <2>4 DEF StrictSubsetOrdering
  <2> QED
    BY <1>6, <1>7, <2>1, <2>5
<1>9. \A j \in T : i <= j
  BY <1>2, <1>8
<1>10. \A j \in S : i <= j
  BY <1>2, <1>9
<1> QED
  BY <1>10

\* Of slots with a time each, there is one with the least time, and of those the first.
LEMMA LeastByTime ==
    ASSUME NEW S, S \subseteq Nat, S # {}, NEW time, \A i \in S : time[i] \in Nat
    PROVE  \E i \in S : \A j \in S : time[i] < time[j] \/ (time[i] = time[j] /\ i <= j)
<1> DEFINE times == {time[i] : i \in S}
<1>1. PICK t \in times : \A u \in times : t <= u
  <2>1. times \subseteq Nat /\ times # {}
    OBVIOUS
  <2> QED
    BY <2>1, LeastNatural
<1> DEFINE at == {i \in S : time[i] = t}
<1>2. PICK i \in at : \A j \in at : i <= j
  <2>1. at \subseteq Nat /\ at # {}
    BY <1>1
  <2> QED
    BY <2>1, LeastNatural
<1>3. ASSUME NEW j \in S PROVE time[i] < time[j] \/ (time[i] = time[j] /\ i <= j)
  <2>1. time[j] \in Nat /\ t \in Nat /\ t <= time[j] /\ time[i] = t
    BY <1>1, <1>2
  <2>2. CASE time[j] = t
    BY <1>2, <2>1, <2>2
  <2>3. CASE time[j] # t
    BY <2>1, <2>3
  <2> QED
    BY <2>2, <2>3
<1> QED
  BY <1>2, <1>3

\* A recursive definition over the numbers determines a function: value n depends on that of a
\* smaller number, before[n].
UpToBy(f, n, before, first, next, V) ==
    /\ f \in [0..n -> V]
    /\ \A x \in 0..n : f[x] = IF x = 0 THEN first ELSE next[x][f[before[x]]]

GoesDown(before) == \A x \in Nat \ {0} : before[x] \in Nat /\ before[x] < x
StepsWithin(next, V) == \A x \in Nat \ {0} : next[x] \in [V -> V]
Recurses(f, before, first, next, V) ==
    /\ f \in [Nat -> V]
    /\ \A x \in Nat : f[x] = IF x = 0 THEN first ELSE next[x][f[before[x]]]

\* Two such functions agree where both are defined.
LEMMA UpToByAgree ==
    ASSUME NEW before, GoesDown(before), NEW first, NEW next, NEW V, NEW m \in Nat, NEW n \in Nat,
           NEW f, UpToBy(f, m, before, first, next, V), NEW g, UpToBy(g, n, before, first, next, V),
           NEW y \in Nat, y <= m, y <= n
    PROVE  f[y] = g[y]
<1> DEFINE Bad == {x \in Nat : x <= m /\ x <= n /\ f[x] # g[x]}
<1> SUFFICES ASSUME Bad # {} PROVE FALSE
  OBVIOUS
<1>1. PICK x \in Bad : \A z \in Bad : x <= z
  <2>1. Bad \subseteq Nat
    OBVIOUS
  <2> HIDE DEF Bad
  <2> QED
    BY <2>1, LeastNatural
<1>2. x \in 0..m /\ x \in 0..n
  OBVIOUS
<1>3. /\ f[x] = IF x = 0 THEN first ELSE next[x][f[before[x]]]
      /\ g[x] = IF x = 0 THEN first ELSE next[x][g[before[x]]]
  BY <1>2 DEF UpToBy
<1>4. x # 0
  BY <1>3
<1>5. before[x] \in Nat /\ before[x] < x
  BY <1>4 DEF GoesDown
<1>6. before[x] \notin Bad
  BY <1>1, <1>5
<1>7. f[before[x]] = g[before[x]]
  BY <1>2, <1>5, <1>6
<1> QED
  BY <1>3, <1>4, <1>7

\* There is one up to every number.
LEMMA UpToByExists ==
    ASSUME NEW before, GoesDown(before), NEW V, NEW first \in V, NEW next, StepsWithin(next, V), NEW n \in Nat
    PROVE  \E f : UpToBy(f, n, before, first, next, V)
<1> DEFINE Bad == {m \in Nat : ~ \E f : UpToBy(f, m, before, first, next, V)}
<1> SUFFICES ASSUME Bad # {} PROVE FALSE
  OBVIOUS
<1>1. PICK m \in Bad : \A z \in Bad : m <= z
  <2>1. Bad \subseteq Nat
    OBVIOUS
  <2> HIDE DEF Bad
  <2> QED
    BY <2>1, LeastNatural
<1>2. m # 0
  <2> DEFINE f == [x \in 0..0 |-> first]
  <2>1. \A x \in 0..0 : x = 0
    OBVIOUS
  <2>2. UpToBy(f, 0, before, first, next, V)
    BY <2>1 DEF UpToBy
  <2> QED
    BY <2>2
<1>3. m \in Nat /\ m - 1 \in Nat /\ m - 1 \notin Bad
  BY <1>1, <1>2
<1>4. PICK g : UpToBy(g, m - 1, before, first, next, V)
  BY <1>3
<1> DEFINE f == [x \in 0..m |-> IF x = m THEN next[m][g[before[m]]] ELSE g[x]]
<1>5. before[m] \in 0..(m - 1) /\ next[m] \in [V -> V]
  BY <1>2, <1>3 DEF GoesDown, StepsWithin
<1>6. g \in [0..(m - 1) -> V]
  BY <1>4 DEF UpToBy
<1>7. next[m][g[before[m]]] \in V
  BY <1>5, <1>6
<1>8. f \in [0..m -> V]
  <2>1. ASSUME NEW x \in 0..m PROVE f[x] \in V
    <3>1. CASE x = m
      BY <1>7, <3>1
    <3>2. CASE x # m
      <4>1. x \in 0..(m - 1)
        BY <1>3, <3>2
      <4> QED
        BY <1>6, <3>2, <4>1
    <3> QED
      BY <3>1, <3>2
  <2> QED
    BY <2>1
<1>9. ASSUME NEW x \in 0..m PROVE f[x] = IF x = 0 THEN first ELSE next[x][f[before[x]]]
  <2>1. CASE x = m
    <3>1. f[before[m]] = g[before[m]]
      BY <1>3, <1>5
    <3> QED
      BY <1>2, <2>1, <3>1
  <2>2. CASE x # m
    <3>1. x \in 0..(m - 1) /\ f[x] = g[x]
      BY <1>3, <2>2
    <3>2. g[x] = IF x = 0 THEN first ELSE next[x][g[before[x]]]
      BY <1>4, <3>1 DEF UpToBy
    <3>3. x # 0 => f[before[x]] = g[before[x]]
      <4>1. x # 0 => before[x] \in Nat /\ before[x] < x
        BY <3>1 DEF GoesDown
      <4> QED
        BY <1>3, <3>1, <4>1
    <3> QED
      BY <3>1, <3>2, <3>3
  <2> QED
    BY <2>1, <2>2
<1>10. UpToBy(f, m, before, first, next, V)
  <2> HIDE DEF f
  <2> QED
    BY <1>8, <1>9 DEF UpToBy
<1> QED
  BY <1>10

\* And so one for all of them.
LEMMA RecursionExists ==
    ASSUME NEW before, GoesDown(before), NEW V, NEW first \in V, NEW next, StepsWithin(next, V)
    PROVE  \E f : Recurses(f, before, first, next, V)
<1> DEFINE part(n) == CHOOSE f : UpToBy(f, n, before, first, next, V)
           F == [n \in Nat |-> part(n)[n]]
<1>1. ASSUME NEW n \in Nat PROVE UpToBy(part(n), n, before, first, next, V)
  BY UpToByExists
<1> HIDE DEF part
<1>2. ASSUME NEW n \in Nat PROVE F[n] \in V
  <2>1. part(n) \in [0..n -> V] /\ n \in 0..n
    BY <1>1 DEF UpToBy
  <2> QED
    BY <2>1
<1>3. ASSUME NEW x \in Nat PROVE F[x] = IF x = 0 THEN first ELSE next[x][F[before[x]]]
  <2>1. part(x)[x] = IF x = 0 THEN first ELSE next[x][part(x)[before[x]]]
    <3>1. x \in 0..x
      OBVIOUS
    <3> QED
      BY <1>1, <3>1 DEF UpToBy
  <2>2. CASE x = 0
    BY <2>1, <2>2
  <2>3. CASE x # 0
    <3>1. before[x] \in Nat /\ before[x] < x
      BY <2>3 DEF GoesDown
    <3>2. before[x] <= before[x] /\ before[x] <= x
      BY <3>1
    <3>3. part(x)[before[x]] = part(before[x])[before[x]]
      <4>1. UpToBy(part(x), x, before, first, next, V)
        BY <1>1
      <4>2. UpToBy(part(before[x]), before[x], before, first, next, V)
        BY <1>1, <3>1
      <4> QED
        BY <3>1, <3>2, <4>1, <4>2, UpToByAgree
    <3> QED
      BY <2>1, <2>3, <3>1, <3>3
  <2> QED
    BY <2>2, <2>3
<1> QED
  <2> HIDE DEF F
  <2>1. F \in [Nat -> V]
    BY <1>2 DEF F
  <2> QED
    BY <1>3, <2>1 DEF Recurses

\* An element that joins a finite set makes it one larger at most.
LEMMA OneMore ==
    ASSUME NEW S, IsFiniteSet(S), NEW y
    PROVE  /\ IsFiniteSet(S \cup {y}) /\ Cardinality(S) \in Nat /\ Cardinality(S \cup {y}) \in Nat
           /\ Cardinality(S \cup {y}) <= Cardinality(S) + 1
<1>1. IsFiniteSet(S \cup {y}) /\ Cardinality(S) \in Nat
  BY FS_AddElement, FS_CardinalityType
<1>2. Cardinality(S \cup {y}) = Cardinality(S) \/ Cardinality(S \cup {y}) = Cardinality(S) + 1
  BY FS_AddElement
<1> QED
  BY <1>1, <1>2, FS_CardinalityType

\* An element that takes the place of another leaves a finite set no larger.
LEMMA OneForAnother ==
    ASSUME NEW S, IsFiniteSet(S), NEW x \in S, NEW y
    PROVE  /\ IsFiniteSet((S \ {x}) \cup {y})
           /\ Cardinality((S \ {x}) \cup {y}) \in Nat /\ Cardinality((S \ {x}) \cup {y}) <= Cardinality(S)
<1>1. IsFiniteSet(S \ {x}) /\ Cardinality(S \ {x}) = Cardinality(S) - 1
  BY FS_RemoveElement
<1>2. Cardinality(S) \in Nat
  BY FS_CardinalityType
<1> DEFINE R == S \ {x}
<1>3. /\ IsFiniteSet(R \cup {y}) /\ Cardinality(R) \in Nat /\ Cardinality(R \cup {y}) \in Nat
      /\ Cardinality(R \cup {y}) <= Cardinality(R) + 1
  BY <1>1, OneMore
<1> QED
  BY <1>1, <1>2, <1>3
=============================================================================
