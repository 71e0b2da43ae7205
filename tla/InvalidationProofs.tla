------------------------- MODULE InvalidationProofs -------------------------
(***************************************************************************)
(* Theorems about Invalidation, for every repository, every graph of       *)
(* imports, every pair of revisions and any limits of the traversal.       *)
(***************************************************************************)
EXTENDS Invalidation, FiniteSetTheorems, TLAPS

---------------------------------------------------------------------------
(* Finite sets and numbers.                                                *)

\* Of some subsets of a finite set, one contains no other of them.
LEMMA LeastSet ==
  ASSUME NEW S, IsFiniteSet(S), NEW F, F \subseteq SUBSET S, F # {}
  PROVE  \E X \in F : \A Y \in F : Y \subseteq X => Y = X
  <1>1. F \subseteq FiniteSubsetsOf(S)
    BY FS_FiniteSubsetsOfFinite
  <1>2. PICK X \in F : \A Y \in F : ~(<<Y, X>> \in StrictSubsetOrdering(S))
    BY <1>1, FS_StrictSubsetOrderingWellFounded, WFMin
  <1>3. QED
    BY <1>2 DEF StrictSubsetOrdering

\* Some numbers have a least one.
LEMMA LeastNumber ==
  ASSUME NEW N \in Nat, NEW T \in SUBSET (0 .. N), T # {}
  PROVE  \E n \in T : \A m \in T : n <= m
<1> DEFINE F == {0 .. n : n \in T}
<1>0. PICK S : S = 0 .. N
  OBVIOUS
<1>1. F \subseteq SUBSET S /\ F # {}
  <2>1. PICK n \in T : TRUE
    OBVIOUS
  <2>2. 0 .. n \in F
    OBVIOUS
  <2>3. \A k \in T : 0 .. k \subseteq S
    BY <1>0
  <2> QED
    BY <2>2, <2>3
<1>2. IsFiniteSet(S)
  BY <1>0, FS_Interval
<1> HIDE DEF F
<1>3. PICK X \in F : \A Y \in F : Y \subseteq X => Y = X
  BY <1>1, <1>2, LeastSet
<1>4. PICK n \in T : X = 0 .. n
  BY DEF F
<1>5. ASSUME NEW m \in T, m < n
      PROVE  FALSE
  <2>1. 0 .. m \in F
    BY DEF F
  <2>2. 0 .. m \subseteq X /\ n \in X /\ n \notin 0 .. m
    BY <1>4, <1>5
  <2> QED
    BY <1>3, <2>1, <2>2
<1> QED
  BY <1>5

\* A set that holds 0 and the successor of each of its members up to N holds
\* all numbers up to N.
LEMMA Induction ==
  ASSUME NEW N \in Nat, NEW S, 0 \in S, \A n \in 0 .. N : n < N /\ n \in S => n + 1 \in S
  PROVE  0 .. N \subseteq S
<1> DEFINE T == (0 .. N) \ S
<1> SUFFICES ASSUME T # {}
             PROVE  FALSE
  OBVIOUS
<1>1. PICK n \in T : \A m \in T : n <= m
  <2>1. T \in SUBSET (0 .. N)
    OBVIOUS
  <2> HIDE DEF T
  <2> QED
    BY <2>1, LeastNumber
<1>2. n - 1 \in 0 .. N /\ n - 1 \notin T /\ n - 1 < N
  BY <1>1
<1>3. (n - 1) + 1 \in S
  BY <1>2
<1> QED
  BY <1>3

---------------------------------------------------------------------------
(* The search of a graph.                                                  *)

\* One step more.
Widened(E, I, g, k) == IF k = 0 THEN I ELSE Reached(E, g[k - 1])

LEMMA SearchExists ==
  ASSUME NEW E, NEW I, NEW N \in Nat
  PROVE  \E g : g = [k \in 0 .. N |-> Widened(E, I, g, k)]
<1> DEFINE S == {m \in 0 .. N : \E g : /\ g = [k \in 0 .. m |-> g[k]]
                                       /\ \A k \in 0 .. m : g[k] = Widened(E, I, g, k)}
<1>1. 0 \in S
  <2>0. PICK g : g = [k \in 0 .. 0 |-> I]
    OBVIOUS
  <2>1. g = [k \in 0 .. 0 |-> g[k]] /\ \A k \in 0 .. 0 : g[k] = Widened(E, I, g, k)
    BY <2>0 DEF Widened
  <2> QED
    BY <2>1
<1>2. ASSUME NEW m \in 0 .. N, m < N, m \in S
      PROVE  m + 1 \in S
  <2>1. PICK g : g = [k \in 0 .. m |-> g[k]] /\ \A k \in 0 .. m : g[k] = Widened(E, I, g, k)
    BY <1>2
  <2>2. PICK h : h = [k \in 0 .. (m + 1) |-> IF k = m + 1 THEN Widened(E, I, g, k) ELSE g[k]]
    OBVIOUS
  <2>3. m \in Nat /\ m + 1 \in 0 .. N
    BY <1>2
  <2>4. ASSUME NEW k \in 0 .. (m + 1)
        PROVE  h[k] = Widened(E, I, h, k)
    <3>1. CASE k = 0
      <4>1. h[k] = g[k] /\ k \in 0 .. m
        BY <2>2, <2>3, <3>1
      <4>2. g[k] = Widened(E, I, g, k)
        BY <2>1, <4>1
      <4> QED
        BY <3>1, <4>1, <4>2 DEF Widened
    <3>2. CASE k # 0
      <4>1. k - 1 \in 0 .. m /\ h[k - 1] = g[k - 1]
        BY <2>2, <2>3, <3>2
      <4>2. Widened(E, I, h, k) = Widened(E, I, g, k)
        BY <3>2, <4>1 DEF Widened
      <4> QED
        BY <2>1, <2>2, <2>3, <4>2
    <3> QED
      BY <3>1, <3>2
  <2>5. h = [k \in 0 .. (m + 1) |-> h[k]]
    BY <2>2
  <2> QED
    BY <2>3, <2>4, <2>5
<1>3. N \in S
  <2> HIDE DEF S
  <2>1. 0 .. N \subseteq S
    BY <1>1, <1>2, Induction
  <2> QED
    BY <2>1
<1>4. PICK g : g = [k \in 0 .. N |-> g[k]] /\ \A k \in 0 .. N : g[k] = Widened(E, I, g, k)
  BY <1>3
<1>5. g = [k \in 0 .. N |-> Widened(E, I, g, k)]
  BY <1>4
<1> QED
  BY <1>5

LEMMA SearchIs ==
  ASSUME NEW E, NEW I, NEW N \in Nat
  PROVE  /\ Search(E, I, N)[0] = I
         /\ \A k \in 0 .. N : k < N => Search(E, I, N)[k + 1] = Reached(E, Search(E, I, N)[k])
<1>1. Search(E, I, N) = CHOOSE g : g = [k \in 0 .. N |-> Widened(E, I, g, k)]
  BY DEF Search, Widened
<1>2. PICK g : g = Search(E, I, N) /\ g = [k \in 0 .. N |-> Widened(E, I, g, k)]
  BY <1>1, SearchExists
<1>3. g[0] = I
  <2>1. g[0] = Widened(E, I, g, 0)
    BY <1>2
  <2> QED
    BY <2>1 DEF Widened
<1>4. ASSUME NEW k \in 0 .. N, k < N
      PROVE  g[k + 1] = Reached(E, g[k])
  <2>1. k + 1 \in 0 .. N /\ k + 1 # 0 /\ (k + 1) - 1 = k
    BY <1>4
  <2>2. g[k + 1] = Widened(E, I, g, k + 1)
    BY <1>2, <2>1
  <2> QED
    BY <2>1, <2>2 DEF Widened
<1> QED
  BY <1>2, <1>3, <1>4

\* A set is closed if no edge leaves it.
Closed(E, S) == \A e \in E : e[1] \in S => e[2] \in S

\* The search starts from I and never leaves a closed set around it.
LEMMA SearchStays ==
  ASSUME NEW E, NEW I, NEW N \in Nat, NEW k \in 0 .. N, NEW T, I \subseteq T, Closed(E, T)
  PROVE  I \subseteq Search(E, I, N)[k] /\ Search(E, I, N)[k] \subseteq T
<1>1. PICK g : g = Search(E, I, N)
  OBVIOUS
<1>2. g[0] = I /\ \A m \in 0 .. N : m < N => g[m + 1] = Reached(E, g[m])
  BY <1>1, SearchIs
<1>3. PICK S : S = {m \in 0 .. N : I \subseteq g[m] /\ g[m] \subseteq T}
  OBVIOUS
<1>4. 0 \in S
  BY <1>2, <1>3
<1>5. ASSUME NEW m \in 0 .. N, m < N, m \in S
      PROVE  m + 1 \in S
  <2>1. g[m + 1] = Reached(E, g[m]) /\ m + 1 \in 0 .. N
    BY <1>2, <1>5
  <2>2. I \subseteq g[m] /\ g[m] \subseteq T
    BY <1>3, <1>5
  <2>3. I \subseteq g[m + 1] /\ g[m + 1] \subseteq T
    BY <2>1, <2>2 DEF Reached, Closed
  <2> QED
    BY <1>3, <2>1, <2>3
<1>6. 0 .. N \subseteq S
  BY <1>4, <1>5, Induction
<1> QED
  BY <1>1, <1>3, <1>6

\* If the last step reached nothing new, the search has found a closed set.
LEMMA SearchEnds ==
  ASSUME NEW E, NEW I, NEW N \in Nat, Search(E, I, N + 1)[N + 1] = Search(E, I, N + 1)[N]
  PROVE  Closed(E, Search(E, I, N + 1)[N]) /\ I \subseteq Search(E, I, N + 1)[N]
<1>1. PICK g : g = Search(E, I, N + 1)
  OBVIOUS
<1>2. N + 1 \in Nat /\ N \in 0 .. (N + 1) /\ N < N + 1
  OBVIOUS
<1>3. g[N + 1] = Reached(E, g[N])
  BY <1>1, <1>2, SearchIs
<1>4. Closed(E, g[N])
  BY <1>1, <1>3 DEF Reached, Closed
<1>5. PICK T : T = I \cup {e[2] : e \in E}
  OBVIOUS
<1>6. I \subseteq T /\ Closed(E, T)
  BY <1>5 DEF Closed
<1>7. I \subseteq g[N]
  BY <1>1, <1>2, <1>6, SearchStays
<1> QED
  BY <1>1, <1>4, <1>7

\* A search of as many steps as there are nodes finds all that is reached.
LEMMA SearchCloses ==
  ASSUME NEW V, IsFiniteSet(V), NEW E, E \subseteq V \X V, NEW I \in SUBSET V
  PROVE  LET R == Search(E, I, Cardinality(V))[Cardinality(V)]
         IN  R \in SUBSET V /\ I \subseteq R /\ Closed(E, R)
<1>0. PICK N, g : N = Cardinality(V) /\ g = Search(E, I, N)
  OBVIOUS
<1>1. N \in Nat
  BY <1>0, FS_CardinalityType
<1>2. g[0] = I /\ \A m \in 0 .. N : m < N => g[m + 1] = Reached(E, g[m])
  BY <1>0, <1>1, SearchIs
<1>3. \A T \in SUBSET V : IsFiniteSet(T) /\ Cardinality(T) \in Nat
  BY FS_Subset, FS_CardinalityType
<1>4. \A m \in 0 .. N : I \subseteq g[m] /\ g[m] \in SUBSET V
  <2>1. I \subseteq V /\ Closed(E, V)
    BY DEF Closed
  <2> QED
    BY <1>0, <1>1, <2>1, SearchStays
<1>5. PICK S : S = {m \in 0 .. N : Closed(E, g[m]) \/ Cardinality(g[m]) >= m}
  OBVIOUS
<1>6. 0 \in S
  <2>1. 0 \in 0 .. N /\ Cardinality(g[0]) >= 0
    BY <1>1, <1>3, <1>4
  <2> QED
    BY <1>5, <2>1
<1>7. ASSUME NEW m \in 0 .. N, m < N, m \in S
      PROVE  m + 1 \in S
  <2>1. g[m + 1] = Reached(E, g[m]) /\ m + 1 \in 0 .. N /\ m \in Nat
    BY <1>1, <1>2, <1>7
  <2>2. CASE Closed(E, g[m])
    <3>1. g[m + 1] = g[m]
      BY <2>1, <2>2 DEF Closed, Reached
    <3> QED
      BY <1>5, <2>1, <2>2, <3>1
  <2>3. CASE ~Closed(E, g[m])
    <3>1. Cardinality(g[m]) >= m
      BY <1>5, <1>7, <2>3
    <3>2. g[m] \subseteq g[m + 1] /\ g[m] # g[m + 1]
      BY <2>1, <2>3 DEF Closed, Reached
    <3>3. g[m] \in SUBSET V /\ g[m + 1] \in SUBSET V
      BY <1>4, <2>1
    <3>4. Cardinality(g[m + 1]) >= m + 1
      BY <1>3, <2>1, <3>1, <3>2, <3>3, FS_Subset
    <3> QED
      BY <1>5, <2>1, <3>4
  <2> QED
    BY <2>2, <2>3
<1>8. N \in S
  <2>1. 0 .. N \subseteq S
    BY <1>1, <1>6, <1>7, Induction
  <2> QED
    BY <1>1, <2>1
<1>9. g[N] \in SUBSET V /\ I \subseteq g[N]
  BY <1>1, <1>4
<1>10. Closed(E, g[N])
  <2>1. CASE Cardinality(g[N]) >= N
    <3>1. g[N] = V
      BY <1>0, <1>1, <1>3, <1>9, <2>1, FS_Subset
    <3> QED
      BY <3>1 DEF Closed
  <2> QED
    BY <1>5, <1>8, <2>1
<1> QED
  BY <1>0, <1>9, <1>10

---------------------------------------------------------------------------
(* What an incremental plan knows.                                         *)

\* Graphs have finitely many nodes.
LEMMA SnapshotFacts ==
  ASSUME NEW s \in Snapshots
  PROVE  /\ s.roots \in [Paths -> Nodes]
         /\ s.tree \in [Paths -> Contents \cup {Absent}]
         /\ Files(s) \subseteq Paths
         /\ Selected(s) \subseteq Files(s)
         /\ Modules(s) \subseteq Selected(s)
         /\ \A p \in Files(s) : s.tree[p] \in Contents
         /\ Edges(s) \subseteq Nodes \X Nodes
<1>1. s.roots \in [Paths -> Nodes] /\ s.tree \in [Paths -> Contents \cup {Absent}]
  BY InvalidationAssumption DEF Snapshots
<1>2. Files(s) \subseteq Paths /\ \A p \in Files(s) : s.tree[p] \in Contents
  BY <1>1 DEF Files
<1>3. Selected(s) \subseteq Files(s) /\ Modules(s) \subseteq Selected(s)
  BY DEF Modules, Selected
<1>4. \A p \in Modules(s) : s.roots[p] \in Nodes /\ Imports[s.tree[p]] \in SUBSET Nodes
  BY <1>1, <1>2, <1>3, InvalidationAssumption
<1>5. Edges(s) \subseteq Nodes \X Nodes
  BY <1>4 DEF Edges
<1> QED
  BY <1>1, <1>2, <1>3, <1>5

\* The module ids of a snapshot.
Ids(s) == {s.roots[p] : p \in Modules(s)}

LEMMA EdgeFacts ==
  ASSUME NEW s
  PROVE  \A n, m : <<n, m>> \in Edges(s) <=>
           \E p \in Modules(s) : n = s.roots[p] /\ m \in Imports[s.tree[p]] /\ m \in Ids(s)
<1> DEFINE Out(p) == {<<s.roots[p], n>> : n \in Imports[s.tree[p]] \cap {s.roots[q] : q \in Modules(s)}}
<1>1. \A p \in Modules(s) : \A n, m :
        <<n, m>> \in Out(p) <=> n = s.roots[p] /\ m \in Imports[s.tree[p]] /\ m \in Ids(s)
  BY DEF Ids
<1>2. Edges(s) = UNION {Out(p) : p \in Modules(s)}
  BY DEF Edges
<1> HIDE DEF Out
<1>3. \A e : e \in Edges(s) <=> \E p \in Modules(s) : e \in Out(p)
  BY <1>2
<1> TAKE n, m
<1>4. <<n, m>> \in Edges(s) <=> \E p \in Modules(s) : <<n, m>> \in Out(p)
  BY <1>3
<1> QED
  BY <1>1, <1>4

\* The paths that a traversal of either side starts from.
PriorTouched(a, b)   == Changed(a, b) \cup PriorOnly(a, b)
CurrentTouched(a, b) == Changed(a, b) \cup CurrentOnly(a, b)

\* Whatever depends on a touched module of either side is affected, since a
\* traversal that would have gone on makes the plan give up.
LEMMA Incremental ==
  ASSUME NEW a \in Snapshots, NEW b \in Snapshots, NEW trusted, ~FullRecompute(a, b, trusted)
  PROVE  /\ trusted /\ a.version = b.version
         /\ Modules(a) = Selected(a) /\ Modules(b) = Selected(b)
         /\ \A p, q \in Selected(a) : a.roots[p] = a.roots[q] => p = q
         /\ \A p, q \in Selected(b) : b.roots[p] = b.roots[q] => p = q
         /\ \A p \in Selected(a) \cap Selected(b) : a.roots[p] = b.roots[p]
         /\ \E X, Y : /\ AffectedNodes(a, b) = X \cup Y
                      /\ \A p \in Selected(a) : p \in PriorTouched(a, b) => a.roots[p] \in X
                      /\ \A p \in Selected(b) : p \in CurrentTouched(a, b) => b.roots[p] \in Y
                      /\ \A e \in Edges(a) : e[2] \in X => e[1] \in X
                      /\ \A e \in Edges(b) : e[2] \in Y => e[1] \in Y
<1>1. /\ trusted /\ a.version = b.version /\ Available(a) /\ Available(b)
      /\ ~NodeIdentityUncertain(a, b)
      /\ ~LimitExceeded(PriorWithin(a, b)) /\ ~LimitExceeded(CurrentWithin(a, b))
  BY DEF FullRecompute
<1>2. ~Ambiguous(a) /\ ~Ambiguous(b) /\ Modules(a) = Selected(a) /\ Modules(b) = Selected(b)
  BY <1>1 DEF Available, Modules
<1>3. /\ \A p, q \in Selected(a) : a.roots[p] = a.roots[q] => p = q
      /\ \A p, q \in Selected(b) : b.roots[p] = b.roots[q] => p = q
  BY <1>2 DEF Ambiguous
<1>4. \A p \in Selected(a) \cap Selected(b) : a.roots[p] = b.roots[p]
  BY <1>1, <1>2 DEF NodeIdentityUncertain
<1>5. ASSUME NEW s, NEW P, ~LimitExceeded(Traverse(s, P))
      PROVE  LET X == Traverse(s, P)[MaxReasonDepth]
             IN  At(s, P) \subseteq X /\ \A e \in Edges(s) : e[2] \in X => e[1] \in X
  <2> DEFINE X == Traverse(s, P)[MaxReasonDepth]
  <2>1. Traverse(s, P)[MaxReasonDepth + 1] = X
    BY <1>5 DEF LimitExceeded
  <2>2. Closed(Reversed(Edges(s)), X) /\ At(s, P) \subseteq X
    BY <2>1, SearchEnds, InvalidationAssumption DEF Traverse
  <2> HIDE DEF X
  <2>3. \A e \in Edges(s) : <<e[2], e[1]>> \in Reversed(Edges(s))
    BY DEF Reversed
  <2>4. \A e \in Edges(s) : e[2] \in X => e[1] \in X
    BY <2>2, <2>3 DEF Closed
  <2> QED
    BY <2>2, <2>4 DEF X
<1>6. PICK X, Y : X = PriorWithin(a, b)[MaxReasonDepth] /\ Y = CurrentWithin(a, b)[MaxReasonDepth]
  OBVIOUS
<1>7. At(a, PriorTouched(a, b)) \subseteq X /\ \A e \in Edges(a) : e[2] \in X => e[1] \in X
  BY <1>1, <1>5, <1>6 DEF PriorWithin, PriorTouched
<1>8. At(b, CurrentTouched(a, b)) \subseteq Y /\ \A e \in Edges(b) : e[2] \in Y => e[1] \in Y
  BY <1>1, <1>5, <1>6 DEF CurrentWithin, CurrentTouched
<1>9. AffectedNodes(a, b) = X \cup Y
  BY <1>6 DEF AffectedNodes
<1>10. /\ \A p \in Selected(a) : p \in PriorTouched(a, b) => a.roots[p] \in X
       /\ \A p \in Selected(b) : p \in CurrentTouched(a, b) => b.roots[p] \in Y
  BY <1>2, <1>7, <1>8 DEF At
<1> QED
  BY <1>1, <1>2, <1>3, <1>4, <1>7, <1>8, <1>9, <1>10

---------------------------------------------------------------------------
(* What is not affected depends on the same in both revisions.             *)

LEMMA NodeCount == Cardinality(Nodes) \in Nat
  BY InvalidationAssumption, FS_CardinalityType

\* What a module depends on: itself, closed under edges, and no more than that.
LEMMA DependencyFacts ==
  ASSUME NEW s \in Snapshots, NEW n \in Nodes
  PROVE  /\ n \in Dependencies(s, n) /\ Closed(Edges(s), Dependencies(s, n))
         /\ \A T : n \in T /\ Closed(Edges(s), T) => Dependencies(s, n) \subseteq T
<1>1. Edges(s) \subseteq Nodes \X Nodes /\ IsFiniteSet(Nodes) /\ {n} \in SUBSET Nodes
  BY SnapshotFacts, InvalidationAssumption
<1>2. n \in Dependencies(s, n) /\ Closed(Edges(s), Dependencies(s, n))
  BY <1>1, SearchCloses DEF Dependencies
<1>3. ASSUME NEW T, n \in T, Closed(Edges(s), T)
      PROVE  Dependencies(s, n) \subseteq T
  <2>1. PICK N \in Nat : N = Cardinality(Nodes)
    BY NodeCount
  <2>2. N \in 0 .. N /\ {n} \subseteq T
    BY <1>3
  <2>3. Search(Edges(s), {n}, N)[N] \subseteq T
    BY <1>3, <2>2, SearchStays
  <2> QED
    BY <2>1, <2>3 DEF Dependencies
<1> QED
  BY <1>2, <1>3

\* What depends on a module depends on all that the module depends on.
LEMMA DependsThrough ==
  ASSUME NEW s \in Snapshots, NEW n, NEW m, <<n, m>> \in Edges(s), NEW P, DependsOn(s, m, P)
  PROVE  DependsOn(s, n, P)
<1>1. n \in Nodes /\ m \in Nodes
  BY SnapshotFacts
<1>2. m \in Dependencies(s, n)
  <2>1. n \in Dependencies(s, n) /\ Closed(Edges(s), Dependencies(s, n))
    BY <1>1, DependencyFacts
  <2> QED
    BY <2>1 DEF Closed
<1>3. Dependencies(s, m) \subseteq Dependencies(s, n)
  <2>1. Closed(Edges(s), Dependencies(s, n))
    BY <1>1, DependencyFacts
  <2> QED
    BY <1>1, <1>2, <2>1, DependencyFacts
<1> QED
  BY <1>3 DEF DependsOn

\* A module depends on its own file.
LEMMA DependsOnItself ==
  ASSUME NEW s \in Snapshots, NEW p \in Modules(s), NEW P, p \in P
  PROVE  DependsOn(s, s.roots[p], P)
<1>1. s.roots[p] \in Nodes
  BY SnapshotFacts
<1> QED
  BY <1>1, DependencyFacts DEF DependsOn

LEMMA ShiftedIs ==
  ASSUME NEW a, NEW b
  PROVE  Shifted(a, b) = {n \in Nodes : \/ DependsOn(a, n, Reselected(a, b))
                                         \/ DependsOn(b, n, Reselected(a, b))}
  BY DEF Shifted

\* The modules of both revisions that no change and no new pattern reaches.
Untouched(a, b) == (Ids(a) \cap Ids(b)) \ (AffectedNodes(a, b) \cup Shifted(a, b))

\* A file that is not touched, and that only one revision selects, shifts what
\* depends on it.
LEMMA Kept ==
  ASSUME NEW a \in Snapshots, NEW b \in Snapshots, NEW p,
         \/ p \in Modules(a) /\ p \notin PriorTouched(a, b)
         \/ p \in Modules(b) /\ p \notin CurrentTouched(a, b)
  PROVE  /\ p \in Files(a) \cap Files(b) /\ a.tree[p] = b.tree[p]
         /\ p \in Selected(a) \cap Selected(b) \/ p \in Reselected(a, b)
<1>1. p \in Selected(a) \/ p \in Selected(b)
  BY SnapshotFacts
<1>2. p \in Files(a) \cap Files(b) /\ a.tree[p] = b.tree[p]
  BY SnapshotFacts DEF PriorTouched, CurrentTouched, Changed, PriorOnly, CurrentOnly
<1> QED
  BY <1>1, <1>2 DEF Selected, Reselected

LEMMA UntouchedPath ==
  ASSUME NEW a \in Snapshots, NEW b \in Snapshots, NEW trusted, ~FullRecompute(a, b, trusted),
         NEW n \in Untouched(a, b)
  PROVE  \E p \in Selected(a) \cap Selected(b) :
           a.roots[p] = n /\ b.roots[p] = n /\ a.tree[p] = b.tree[p]
<1>0. Modules(a) = Selected(a)
  BY Incremental
<1>1. PICK p \in Selected(a) : a.roots[p] = n
  BY <1>0 DEF Untouched, Ids
<1>2. p \notin PriorTouched(a, b)
  BY <1>1, Incremental DEF Untouched
<1>3. p \notin Reselected(a, b)
  <2> SUFFICES ASSUME p \in Reselected(a, b)
               PROVE  n \in Shifted(a, b)
    BY DEF Untouched
  <2>1. n \in Nodes
    BY <1>1, SnapshotFacts
  <2>2. DependsOn(a, n, Reselected(a, b))
    BY <1>0, <1>1, DependsOnItself
  <2> QED
    BY <2>1, <2>2, ShiftedIs
<1>4. p \in Selected(b) /\ a.tree[p] = b.tree[p]
  BY <1>0, <1>1, <1>2, <1>3, Kept
<1> QED
  BY <1>1, <1>4, Incremental

LEMMA UntouchedEdges ==
  ASSUME NEW a \in Snapshots, NEW b \in Snapshots, NEW trusted, ~FullRecompute(a, b, trusted),
         NEW n \in Untouched(a, b), NEW m
  PROVE  /\ <<n, m>> \in Edges(a) <=> <<n, m>> \in Edges(b)
         /\ <<n, m>> \in Edges(a) => m \in Untouched(a, b)
<1>1. PICK p \in Selected(a) \cap Selected(b) :
        a.roots[p] = n /\ b.roots[p] = n /\ a.tree[p] = b.tree[p]
  BY UntouchedPath
<1>2. PICK X, Y : /\ AffectedNodes(a, b) = X \cup Y
                  /\ \A q \in Selected(a) : q \in PriorTouched(a, b) => a.roots[q] \in X
                  /\ \A q \in Selected(b) : q \in CurrentTouched(a, b) => b.roots[q] \in Y
                  /\ \A e \in Edges(a) : e[2] \in X => e[1] \in X
                  /\ \A e \in Edges(b) : e[2] \in Y => e[1] \in Y
  BY Incremental
<1>3. Modules(a) = Selected(a) /\ Modules(b) = Selected(b)
  BY Incremental
<1>4. \A p1, q1 \in Selected(a) : a.roots[p1] = a.roots[q1] => p1 = q1
  BY Incremental
<1>5. \A p1, q1 \in Selected(b) : b.roots[p1] = b.roots[q1] => p1 = q1
  BY Incremental
<1>6. <<n, m>> \in Edges(a) <=> m \in Imports[a.tree[p]] /\ m \in Ids(a)
  BY <1>1, <1>3, <1>4, EdgeFacts
<1>7. <<n, m>> \in Edges(b) <=> m \in Imports[b.tree[p]] /\ m \in Ids(b)
  BY <1>1, <1>3, <1>5, EdgeFacts
<1>0. n \in Nodes /\ n \notin Shifted(a, b)
  BY <1>1, SnapshotFacts DEF Untouched
<1>8. ASSUME <<n, m>> \in Edges(a)
      PROVE  m \in Ids(b) /\ m \notin X /\ ~DependsOn(a, m, Reselected(a, b))
  <2>1. m \notin X
    BY <1>2, <1>8 DEF Untouched
  <2>2. ~DependsOn(a, m, Reselected(a, b))
    BY <1>0, <1>8, DependsThrough, ShiftedIs
  <2>3. PICK q \in Modules(a) : a.roots[q] = m
    BY <1>6, <1>8 DEF Ids
  <2>4. q \notin PriorTouched(a, b)
    BY <1>2, <1>3, <2>1, <2>3
  <2>5. q \notin Reselected(a, b)
    BY <2>2, <2>3, DependsOnItself
  <2>6. q \in Selected(b)
    BY <2>3, <2>4, <2>5, Kept
  <2> QED
    BY <1>3, <2>1, <2>2, <2>3, <2>6, Incremental DEF Ids
<1>9. ASSUME <<n, m>> \in Edges(b)
      PROVE  m \in Ids(a) /\ m \notin Y /\ ~DependsOn(b, m, Reselected(a, b))
  <2>1. m \notin Y
    BY <1>2, <1>9 DEF Untouched
  <2>2. ~DependsOn(b, m, Reselected(a, b))
    BY <1>0, <1>9, DependsThrough, ShiftedIs
  <2>3. PICK q \in Modules(b) : b.roots[q] = m
    BY <1>7, <1>9 DEF Ids
  <2>4. q \notin CurrentTouched(a, b)
    BY <1>2, <1>3, <2>1, <2>3
  <2>5. q \notin Reselected(a, b)
    BY <2>2, <2>3, DependsOnItself
  <2>6. q \in Selected(a)
    BY <2>3, <2>4, <2>5, Kept
  <2> QED
    BY <1>3, <2>1, <2>2, <2>3, <2>6, Incremental DEF Ids
<1>10. <<n, m>> \in Edges(a) <=> <<n, m>> \in Edges(b)
  BY <1>1, <1>6, <1>7, <1>8, <1>9
<1>11. <<n, m>> \in Edges(a) => m \in Untouched(a, b)
  <2>1. <<n, m>> \in Edges(a) => m \notin Shifted(a, b)
    BY <1>8, <1>9, <1>10, ShiftedIs
  <2> QED
    BY <1>2, <1>6, <1>8, <1>9, <1>10, <2>1 DEF Untouched
<1> QED
  BY <1>10, <1>11

\* Two graphs that agree on a set which no edge leaves give the same search.
LEMMA SameSearch ==
  ASSUME NEW E, NEW F, NEW U, NEW I \in SUBSET U, NEW N \in Nat,
         E \subseteq Nodes \X Nodes, F \subseteq Nodes \X Nodes,
         \A n \in U : \A m : <<n, m>> \in E <=> <<n, m>> \in F,
         \A n \in U : \A m : <<n, m>> \in E => m \in U
  PROVE  Search(E, I, N)[N] = Search(F, I, N)[N] /\ Search(E, I, N)[N] \subseteq U
<1>1. PICK g, h : g = Search(E, I, N) /\ h = Search(F, I, N)
  OBVIOUS
<1>2. /\ g[0] = I /\ \A k \in 0 .. N : k < N => g[k + 1] = Reached(E, g[k])
      /\ h[0] = I /\ \A k \in 0 .. N : k < N => h[k + 1] = Reached(F, h[k])
  BY <1>1, SearchIs
<1>3. PICK S : S = {k \in 0 .. N : g[k] = h[k] /\ g[k] \subseteq U}
  OBVIOUS
<1>4. 0 \in S
  BY <1>2, <1>3
<1>5. ASSUME NEW k \in 0 .. N, k < N, k \in S
      PROVE  k + 1 \in S
  <2>1. k + 1 \in 0 .. N /\ g[k + 1] = Reached(E, g[k]) /\ h[k + 1] = Reached(F, g[k]) /\ g[k] \subseteq U
    BY <1>2, <1>3, <1>5
  <2>2. \A e \in E : e[1] \in g[k] => e \in F /\ e[2] \in U
    <3> SUFFICES ASSUME NEW e \in E, e[1] \in g[k]
                 PROVE  e \in F /\ e[2] \in U
      OBVIOUS
    <3>1. e = <<e[1], e[2]>>
      OBVIOUS
    <3> QED
      BY <2>1, <3>1
  <2>3. \A e \in F : e[1] \in g[k] => e \in E
    <3> SUFFICES ASSUME NEW e \in F, e[1] \in g[k]
                 PROVE  e \in E
      OBVIOUS
    <3>1. e = <<e[1], e[2]>>
      OBVIOUS
    <3> QED
      BY <2>1, <3>1
  <2>4. Reached(E, g[k]) = Reached(F, g[k]) /\ Reached(E, g[k]) \subseteq U
    BY <2>1, <2>2, <2>3 DEF Reached
  <2> QED
    BY <1>3, <2>1, <2>4
<1>6. 0 .. N \subseteq S
  BY <1>4, <1>5, Induction
<1> QED
  BY <1>1, <1>3, <1>6

LEMMA SameDependencies ==
  ASSUME NEW a \in Snapshots, NEW b \in Snapshots, NEW trusted, ~FullRecompute(a, b, trusted),
         NEW n \in Untouched(a, b)
  PROVE  Dependencies(a, n) = Dependencies(b, n) /\ Dependencies(a, n) \subseteq Untouched(a, b)
<1>1. {n} \in SUBSET Untouched(a, b)
  OBVIOUS
<1>2. Edges(a) \subseteq Nodes \X Nodes /\ Edges(b) \subseteq Nodes \X Nodes
  BY SnapshotFacts
<1>3. /\ \A k \in Untouched(a, b) : \A m : <<k, m>> \in Edges(a) <=> <<k, m>> \in Edges(b)
      /\ \A k \in Untouched(a, b) : \A m : <<k, m>> \in Edges(a) => m \in Untouched(a, b)
  BY UntouchedEdges
<1> QED
  BY <1>1, <1>2, <1>3, SameSearch, NodeCount DEF Dependencies

\* What the record of a module is computed from.
Read(s, n) == {p \in Modules(s) : s.roots[p] \in Dependencies(s, n)}

LEMMA NodeEvidence ==
  ASSUME NEW s, NEW n
  PROVE  Evidence(<<"node", n>>, s) =
           [version |-> s.version,
            files   |-> {<<p, s.tree[p]>> : p \in Read(s, n)},
            ids     |-> {<<p, s.roots[p]>> : p \in Read(s, n)},
            edges   |-> {e \in Edges(s) : \E p \in Read(s, n) : e[1] = s.roots[p]}]
<1>1. Read(s, n) \cap Modules(s) = Read(s, n)
  BY DEF Read
<1> QED
  BY <1>1 DEF Evidence, Read

LEMMA NodeFiles ==
  ASSUME NEW s, NEW n
  PROVE  Evidence(<<"node", n>>, s).files = {<<p, s.tree[p]>> : p \in Read(s, n)}
  BY DEF Evidence, Read

LEMMA PathFiles ==
  ASSUME NEW s, NEW p
  PROVE  Evidence(<<"path", p>>, s).files = {<<p, s.tree[p]>>}
  BY DEF Evidence

LEMMA PathEvidence ==
  ASSUME NEW s, NEW p
  PROVE  Evidence(<<"path", p>>, s) =
           [version |-> s.version, files |-> {<<p, s.tree[p]>>}, ids |-> {}, edges |-> {}]
  BY DEF Evidence

\* A record that stands is what an analysis of the new revision would give.
LEMMA UntouchedEvidence ==
  ASSUME NEW a \in Snapshots, NEW b \in Snapshots, NEW trusted, ~FullRecompute(a, b, trusted),
         NEW n \in Untouched(a, b)
  PROVE  Evidence(<<"node", n>>, a) = Evidence(<<"node", n>>, b)
<1>1. a.version = b.version /\ Modules(a) = Selected(a) /\ Modules(b) = Selected(b)
  BY Incremental
<1>2. Dependencies(a, n) = Dependencies(b, n) /\ Dependencies(a, n) \subseteq Untouched(a, b)
  BY SameDependencies
<1>3. /\ \A p, q \in Selected(a) : a.roots[p] = a.roots[q] => p = q
      /\ \A p, q \in Selected(b) : b.roots[p] = b.roots[q] => p = q
  BY Incremental
<1>4. \A k \in Untouched(a, b) : \E p \in Selected(a) \cap Selected(b) :
        a.roots[p] = k /\ b.roots[p] = k /\ a.tree[p] = b.tree[p]
  BY UntouchedPath
<1>5. ASSUME NEW p \in Read(a, n)
      PROVE  p \in Read(b, n) /\ a.roots[p] = b.roots[p] /\ a.tree[p] = b.tree[p]
  <2>1. p \in Selected(a) /\ a.roots[p] \in Dependencies(a, n)
    BY <1>1 DEF Read
  <2>2. PICK q \in Selected(a) \cap Selected(b) :
          a.roots[q] = a.roots[p] /\ b.roots[q] = a.roots[p] /\ a.tree[q] = b.tree[q]
    BY <1>2, <1>4, <2>1
  <2>3. q = p
    BY <1>3, <2>1, <2>2
  <2> QED
    BY <1>1, <1>2, <2>1, <2>2, <2>3 DEF Read
<1>6. ASSUME NEW p \in Read(b, n)
      PROVE  p \in Read(a, n)
  <2>1. p \in Selected(b) /\ b.roots[p] \in Dependencies(a, n)
    BY <1>1, <1>2 DEF Read
  <2>2. PICK q \in Selected(a) \cap Selected(b) :
          a.roots[q] = b.roots[p] /\ b.roots[q] = b.roots[p] /\ a.tree[q] = b.tree[q]
    BY <1>2, <1>4, <2>1
  <2>3. q = p
    BY <1>3, <2>1, <2>2
  <2> QED
    BY <1>1, <1>2, <2>1, <2>2, <2>3 DEF Read
<1>7. Read(a, n) = Read(b, n)
  BY <1>5, <1>6
<1>8. {<<p, a.tree[p]>> : p \in Read(a, n)} = {<<p, b.tree[p]>> : p \in Read(b, n)}
  BY <1>5, <1>7
<1>9. {<<p, a.roots[p]>> : p \in Read(a, n)} = {<<p, b.roots[p]>> : p \in Read(b, n)}
  BY <1>5, <1>7
<1>10. ASSUME NEW e, NEW p \in Read(a, n), e[1] = a.roots[p]
       PROVE  e \in Edges(a) <=> e \in Edges(b)
  <2>1. a.roots[p] \in Untouched(a, b)
    BY <1>2 DEF Read
  <2>2. e \in Edges(a) \cup Edges(b) => e = <<e[1], e[2]>>
    BY SnapshotFacts
  <2> QED
    BY <1>10, <2>1, <2>2, UntouchedEdges
<1>11. {e \in Edges(a) : \E p \in Read(a, n) : e[1] = a.roots[p]} =
         {e \in Edges(b) : \E p \in Read(b, n) : e[1] = b.roots[p]}
  BY <1>5, <1>7, <1>10
<1> QED
  BY <1>1, <1>8, <1>9, <1>11, NodeEvidence

---------------------------------------------------------------------------
(* Records.                                                                *)

LEMMA RecordCases ==
  ASSUME NEW s, NEW r
  PROVE  r \in Records(s) <=>
           \/ \E p \in Selected(s) : r = <<"path", p>>
           \/ \E n \in Ids(s) : r = <<"node", n>>
           \/ r = <<"partition", "python">>
<1>1. (\E p \in Modules(s) : r = <<"node", s.roots[p]>>) <=> (\E n \in Ids(s) : r = <<"node", n>>)
  BY DEF Ids
<1>2. r \in Records(s) <=>
        \/ \E p \in Selected(s) : r = <<"path", p>>
        \/ \E p \in Modules(s) : r = <<"node", s.roots[p]>>
        \/ r = <<"partition", "python">>
  BY DEF Records
<1> QED
  BY <1>1, <1>2

\* A record of both snapshots is of the same kind, and about the same, in both.
LEMMA CommonRecord ==
  ASSUME NEW a, NEW b, NEW r \in Records(a) \cap Records(b)
  PROVE  \/ \E p \in Selected(a) \cap Selected(b) : r = <<"path", p>>
         \/ \E n \in Ids(a) \cap Ids(b) : r = <<"node", n>>
         \/ r = <<"partition", "python">>
<1>1. CASE \E p \in Selected(a) : r = <<"path", p>>
  <2>1. PICK p \in Selected(a) : r = <<"path", p>>
    BY <1>1
  <2>2. \E q \in Selected(b) : r = <<"path", q>>
    BY <2>1, RecordCases
  <2>3. p \in Selected(b)
    BY <2>1, <2>2
  <2> QED
    BY <2>1, <2>3
<1>2. CASE \E n \in Ids(a) : r = <<"node", n>>
  <2>1. PICK n \in Ids(a) : r = <<"node", n>>
    BY <1>2
  <2>2. \E q \in Ids(b) : r = <<"node", q>>
    BY <2>1, RecordCases
  <2>3. n \in Ids(b)
    BY <2>1, <2>2
  <2> QED
    BY <2>1, <2>3
<1> QED
  BY <1>1, <1>2, RecordCases

\* The partition's record names no more than what its key covers.
Pairs(s) == {<<p, s.tree[p]>> : p \in Selected(s)}

LEMMA SamePairs ==
  ASSUME NEW a \in Snapshots, NEW b \in Snapshots,
         a.version = b.version, a.roots = b.roots, Pairs(a) = Pairs(b)
  PROVE  Evidence(<<"partition", "python">>, a) = Evidence(<<"partition", "python">>, b)
<1>1. ASSUME NEW s, NEW t, Pairs(s) = Pairs(t), NEW p \in Selected(s)
      PROVE  p \in Selected(t) /\ s.tree[p] = t.tree[p]
  <2>1. <<p, s.tree[p]>> \in Pairs(s)
    BY Zenon DEF Pairs
  <2>2. <<p, s.tree[p]>> \in Pairs(t)
    BY <1>1, <2>1, Zenon
  <2>3. PICK q \in Selected(t) : <<p, s.tree[p]>> = <<q, t.tree[q]>>
    BY <2>2, Zenon DEF Pairs
  <2> QED
    BY <2>3
<1>2. Selected(a) = Selected(b)
  <2>1. \A p \in Selected(a) : p \in Selected(b)
    BY <1>1
  <2>2. \A p \in Selected(b) : p \in Selected(a)
    BY <1>1
  <2> QED
    BY <2>1, <2>2
<1>3. \A p \in Selected(a) : a.tree[p] = b.tree[p]
  BY <1>1
<1>4. Modules(a) = Modules(b) /\ Modules(a) \subseteq Selected(a)
  BY <1>2 DEF Modules, Ambiguous
<1>5. Edges(a) = Edges(b)
  BY <1>3, <1>4 DEF Edges
<1>6. Pairs(a) = Pairs(b) /\ a.version = b.version
  OBVIOUS
<1> QED
  BY <1>2, <1>4, <1>5, <1>6 DEF Evidence, Pairs

\* The plan reuses a record only if its evidence is the same in both revisions,
\* or it depends on a file that only the patterns take in or out.
LEMMA ReusedIsCurrent ==
  ASSUME NEW a \in Snapshots, NEW b \in Snapshots, NEW trusted, NEW r \in Reusable(a, b, trusted),
         \A n \in Shifted(a, b) : r # <<"node", n>>
  PROVE  r \in Records(a) \cap Records(b) /\ Evidence(r, a) = Evidence(r, b)
<1>1. /\ ~FullRecompute(a, b, trusted)
      /\ r \in Records(a) \cap Records(b)
      /\ r \notin DirectlyInvalidated(a, b)
      /\ \A n \in AffectedNodes(a, b) : r # <<"node", n>>
  BY DEF Reusable
<1>2. CacheKey(r, a) = CacheKey(r, b)
  BY <1>1 DEF DirectlyInvalidated
<1>3. CASE \E p \in Selected(a) \cap Selected(b) : r = <<"path", p>>
  <2>1. PICK p \in Selected(a) \cap Selected(b) : r = <<"path", p>>
    BY <1>3
  <2>2. a.version = b.version /\ a.tree[p] = b.tree[p]
    BY <1>2, <2>1 DEF CacheKey, PathOf
  <2> QED
    BY <1>1, <2>1, <2>2, PathEvidence
<1>4. CASE \E n \in Ids(a) \cap Ids(b) : r = <<"node", n>>
  <2>1. PICK n \in Ids(a) \cap Ids(b) : r = <<"node", n>>
    BY <1>4
  <2>2. n \in Untouched(a, b)
    BY <1>1, <2>1 DEF Untouched
  <2> QED
    BY <1>1, <2>1, <2>2, UntouchedEvidence
<1>5. CASE r = <<"partition", "python">>
  <2>1. a.version = b.version /\ a.roots = b.roots /\ Pairs(a) = Pairs(b)
    BY <1>2, <1>5 DEF CacheKey, Pairs
  <2> QED
    BY <1>1, <1>5, <2>1, SamePairs
<1> QED
  BY <1>1, <1>3, <1>4, <1>5, CommonRecord

---------------------------------------------------------------------------
(* No plan reuses too much.                                                *)

LEMMA RevisionsAreSnapshots ==
  ASSUME NEW a \in Snapshots
  PROVE  Revisions(a) \subseteq Snapshots
<1> DEFINE Trees == UNION {{[p \in Paths |-> IF p \in P THEN f[p] ELSE a.tree[p]] :
                             f \in [P -> Contents \cup {Absent}]} :
                          P \in {Q \in SUBSET Paths : Cardinality(Q) <= MaxEdits}}
<1>1. \A t \in Trees : t \in [Paths -> Contents \cup {Absent}]
  BY SnapshotFacts
<1>2. Revisions(a) \subseteq [tree : Trees, roots : Roots, version : Versions, generated : Patterns]
  BY DEF Revisions
<1> HIDE DEF Trees
<1> QED
  BY <1>1, <1>2 DEF Snapshots

\* The inductive invariant: what is held, unless it was damaged, is what an
\* analysis of the present snapshot from nothing gives, and only records of
\* modules are excepted.
Current ==
  /\ now \in Snapshots
  /\ sound \in BOOLEAN
  /\ missed \subseteq {r \in Records(now) : r[1] = "node"}
  /\ DOMAIN held = Records(now)
  /\ EvidenceIsFresh

\* A session takes over only what is current or missed, and nothing of damaged
\* state.
LEMMA SessionCurrent ==
  ASSUME Current, NEW s \in Revisions(now), NEW verified \in BOOLEAN, Session(s, verified)
  PROVE  Current'
<1>1. now \in Snapshots /\ s \in Snapshots
  BY RevisionsAreSnapshots DEF Current
<1>2. PICK U : U = Reusable(now, s, verified /\ sound)
  OBVIOUS
<1>3. PICK W : W = {<<"node", n>> : n \in Shifted(now, s)}
  OBVIOUS
<1>4. /\ held' = [r \in Records(s) |-> IF r \in U THEN held[r] ELSE Evidence(r, s)]
      /\ now' = s /\ sound' = TRUE /\ missed' = (missed \cup W) \cap U
  BY <1>2, <1>3 DEF Session
<1>5. U \subseteq Records(s)
  BY <1>2 DEF Reusable
<1>6. \A r \in W : r[1] = "node"
  BY <1>3
<1>7. missed' \subseteq {r \in Records(s) : r[1] = "node"}
  BY <1>4, <1>5, <1>6 DEF Current
<1>8. ASSUME NEW r \in U, r \notin missed, r \notin W
      PROVE  held[r] = Evidence(r, s)
  <2>1. sound
    BY <1>2 DEF Reusable, FullRecompute
  <2>2. \A n \in Shifted(now, s) : r # <<"node", n>>
    BY <1>3, <1>8
  <2>3. r \in Records(now) /\ Evidence(r, now) = Evidence(r, s)
    BY <1>1, <1>2, <2>2, ReusedIsCurrent
  <2>4. held[r] = Evidence(r, now)
    BY <1>8, <2>1, <2>3 DEF Current, EvidenceIsFresh
  <2> QED
    BY <2>3, <2>4
<1>9. DOMAIN held' = Records(s) /\ \A r \in Records(s) \ missed' : held'[r] = Evidence(r, s)
  BY <1>4, <1>8
<1> QED
  BY <1>1, <1>4, <1>7, <1>9 DEF Current, EvidenceIsFresh

LEMMA DamageCurrent ==
  ASSUME Current, Damage
  PROVE  Current'
  BY DEF Current, Damage, EvidenceIsFresh

LEMMA InitCurrent == Init => Current
<1> SUFFICES ASSUME Init
             PROVE  Current
  OBVIOUS
<1>1. now \in Snapshots /\ held = ColdRun(now) /\ sound = TRUE /\ missed = {}
  BY DEF Init
<1>2. DOMAIN held = Records(now) /\ \A r \in Records(now) : held[r] = Evidence(r, now)
  BY <1>1 DEF ColdRun
<1> QED
  BY <1>1, <1>2 DEF Current, EvidenceIsFresh

LEMMA NextCurrent == Current /\ [Next]_vars => Current'
<1> SUFFICES ASSUME Current, [Next]_vars
             PROVE  Current'
  OBVIOUS
<1>1. CASE \E s \in Revisions(now), verified \in BOOLEAN : Session(s, verified)
  BY <1>1, SessionCurrent
<1>2. CASE Damage
  BY <1>2, DamageCurrent
<1>3. CASE UNCHANGED vars
  BY <1>3 DEF vars, Current, EvidenceIsFresh
<1> QED
  BY <1>1, <1>2, <1>3 DEF Next

LEMMA AlwaysCurrent == Spec => []Current
  BY InitCurrent, NextCurrent, PTL DEF Spec

\* The sessions of Session and Damage always hold one record, and no other,
\* for each file, module and partition of a possible snapshot, and what they may
\* have missed are modules of it.
THEOREM HeldRecordsAreCurrent ==
  Spec => [](/\ now \in Snapshots /\ sound \in BOOLEAN /\ DOMAIN held = Records(now)
             /\ missed \subseteq {r \in Records(now) : r[1] = "node"})
<1>1. Current => /\ now \in Snapshots /\ sound \in BOOLEAN /\ DOMAIN held = Records(now)
                 /\ missed \subseteq {r \in Records(now) : r[1] = "node"}
  BY DEF Current
<1> QED
  BY <1>1, AlwaysCurrent, PTL

\* Whatever planDependencyInvalidation lets a session keep, over any number of
\* sessions, is what an analysis of the present revision from nothing gives, but
\* for modules that depend on a file which only the patterns took in or out.
THEOREM ReuseIsFresh == Spec => []EvidenceIsFresh
<1>1. Current => EvidenceIsFresh
  BY DEF Current
<1> QED
  BY <1>1, AlwaysCurrent, PTL

---------------------------------------------------------------------------
(* An incremental plan reuses all that it can.                             *)

\* A traversal reaches only modules that depend on one where it started.
LEMMA TraversedDepends ==
  ASSUME NEW s \in Snapshots, NEW P, NEW m \in Traverse(s, P)[MaxReasonDepth]
  PROVE  \E q \in P \cap Modules(s) : s.roots[q] \in Dependencies(s, m)
<1> DEFINE T == {x \in Nodes : \E q \in P \cap Modules(s) : s.roots[q] \in Dependencies(s, x)}
<1>1. Modules(s) \subseteq Paths /\ \A q \in Modules(s) : s.roots[q] \in Nodes
  BY SnapshotFacts DEF Modules
<1>2. At(s, P) \subseteq T
  <2> SUFFICES ASSUME NEW q \in P \cap Modules(s)
               PROVE  s.roots[q] \in T
    BY DEF At
  <2>1. s.roots[q] \in Nodes
    BY <1>1
  <2>2. s.roots[q] \in Dependencies(s, s.roots[q])
    BY <2>1, DependencyFacts
  <2> QED
    BY <2>1, <2>2
<1>3. ASSUME NEW x \in T, NEW y, <<y, x>> \in Edges(s)
      PROVE  y \in T
  <2>1. y \in Nodes /\ x \in Nodes
    BY <1>3, SnapshotFacts
  <2>2. y \in Dependencies(s, y) /\ Closed(Edges(s), Dependencies(s, y))
    BY <2>1, DependencyFacts
  <2>3. x \in Dependencies(s, y)
    BY <1>3, <2>2 DEF Closed
  <2>4. Dependencies(s, x) \subseteq Dependencies(s, y)
    BY <2>1, <2>2, <2>3, DependencyFacts
  <2> QED
    BY <2>1, <2>4
<1>4. Closed(Reversed(Edges(s)), T)
  <2> SUFFICES ASSUME NEW e \in Edges(s), e[2] \in T
               PROVE  e[1] \in T
    BY DEF Closed, Reversed
  <2>1. e = <<e[1], e[2]>>
    BY SnapshotFacts
  <2> HIDE DEF T
  <2> QED
    BY <1>3, <2>1
<1> HIDE DEF T
<1>5. m \in T
  <2>1. MaxReasonDepth + 1 \in Nat /\ MaxReasonDepth \in 0 .. (MaxReasonDepth + 1)
    BY InvalidationAssumption
  <2> QED
    BY <1>2, <1>4, <2>1, SearchStays DEF Traverse
<1> QED
  BY <1>5 DEF T

\* A module's record with the same evidence in both revisions is reused.
LEMMA ExactNode ==
  ASSUME NEW a \in Snapshots, NEW b \in Snapshots, NEW trusted, ~FullRecompute(a, b, trusted),
         NEW n \in Ids(a) \cap Ids(b),
         Evidence(<<"node", n>>, a) = Evidence(<<"node", n>>, b)
  PROVE  <<"node", n>> \in Reusable(a, b, trusted)
<1>1. /\ a.version = b.version
      /\ Modules(a) = Selected(a) /\ Modules(b) = Selected(b)
      /\ \A p, q \in Selected(a) : a.roots[p] = a.roots[q] => p = q
      /\ \A p, q \in Selected(b) : b.roots[p] = b.roots[q] => p = q
      /\ \A p \in Selected(a) \cap Selected(b) : a.roots[p] = b.roots[p]
  BY Incremental
<1>2. PICK F : F = {<<p, a.tree[p]>> : p \in Read(a, n)} /\ F = {<<p, b.tree[p]>> : p \in Read(b, n)}
  <2>1. Evidence(<<"node", n>>, a).files = {<<p, a.tree[p]>> : p \in Read(a, n)}
    BY NodeFiles
  <2>2. Evidence(<<"node", n>>, b).files = {<<p, b.tree[p]>> : p \in Read(b, n)}
    BY NodeFiles
  <2> QED
    BY <2>1, <2>2
<1>3. /\ \A p \in Read(a, n) : p \in Read(b, n) /\ a.tree[p] = b.tree[p]
      /\ \A p \in Read(b, n) : p \in Read(a, n) /\ a.tree[p] = b.tree[p]
  <2>1. \A p \in Read(a, n) : <<p, a.tree[p]>> \in F
    BY <1>2
  <2>2. \A p \in Read(b, n) : <<p, b.tree[p]>> \in F
    BY <1>2
  <2>3. \A x \in F : x[1] \in Read(b, n) /\ x[2] = b.tree[x[1]]
    BY <1>2
  <2>4. \A x \in F : x[1] \in Read(a, n) /\ x[2] = a.tree[x[1]]
    BY <1>2
  <2> QED
    BY <2>1, <2>2, <2>3, <2>4
<1>4. \A p \in Read(a, n) \cup Read(b, n) :
        p \in Selected(a) \cap Files(a) /\ p \in Selected(b) \cap Files(b) /\ a.tree[p] = b.tree[p]
  BY <1>1, <1>3, SnapshotFacts DEF Read
<1>5. PICK p \in Selected(a) : a.roots[p] = n
  BY <1>1 DEF Ids
<1>6. n \in Nodes
  BY <1>5, SnapshotFacts
<1>7. p \in Selected(b) /\ b.roots[p] = n /\ a.tree[p] = b.tree[p]
  <2>1. p \in Read(a, n)
    BY <1>1, <1>5, <1>6, DependencyFacts DEF Read
  <2> QED
    BY <1>1, <1>4, <1>5, <2>1
<1>8. ModuleAt(a, n) = p /\ ModuleAt(b, n) = p
  BY <1>1, <1>5, <1>7 DEF ModuleAt
<1>9. PICK r : r = <<"node", n>>
  OBVIOUS
<1>10. r \in Records(a) /\ r \in Records(b)
  BY <1>9, RecordCases
<1>11. r[1] = "node" /\ PathOf(r, a) = p /\ PathOf(r, b) = p
  BY <1>8, <1>9 DEF PathOf
<1>12. r \notin DirectlyInvalidated(a, b)
  <2>1. p \notin Changed(a, b) \cup PriorOnly(a, b) /\ p \notin Changed(a, b) \cup CurrentOnly(a, b)
    BY <1>5, <1>7, SnapshotFacts DEF Changed, PriorOnly, CurrentOnly
  <2>2. Binding(r, a) = Binding(r, b) /\ CacheKey(r, a) = CacheKey(r, b)
    BY <1>1, <1>7, <1>11 DEF Binding, CacheKey
  <2> QED
    BY <1>10, <1>11, <2>1, <2>2 DEF DirectlyInvalidated
<1>13. n \notin PriorWithin(a, b)[MaxReasonDepth]
  <2> SUFFICES ASSUME n \in PriorWithin(a, b)[MaxReasonDepth]
               PROVE  FALSE
    OBVIOUS
  <2>1. PICK q \in (Changed(a, b) \cup PriorOnly(a, b)) \cap Modules(a) :
          a.roots[q] \in Dependencies(a, n)
    BY TraversedDepends DEF PriorWithin
  <2> QED
    BY <1>4, <2>1 DEF Read, Changed, PriorOnly
<1>14. n \notin CurrentWithin(a, b)[MaxReasonDepth]
  <2> SUFFICES ASSUME n \in CurrentWithin(a, b)[MaxReasonDepth]
               PROVE  FALSE
    OBVIOUS
  <2>1. PICK q \in (Changed(a, b) \cup CurrentOnly(a, b)) \cap Modules(b) :
          b.roots[q] \in Dependencies(b, n)
    BY TraversedDepends DEF CurrentWithin
  <2> QED
    BY <1>4, <2>1 DEF Read, Changed, CurrentOnly
<1>15. r \notin {<<"node", m>> : m \in AffectedNodes(a, b)}
  BY <1>9, <1>13, <1>14 DEF AffectedNodes
<1> QED
  BY <1>9, <1>10, <1>11, <1>12, <1>15 DEF Reusable

\* A file's record with the same evidence in both revisions is reused.
LEMMA ExactPath ==
  ASSUME NEW a \in Snapshots, NEW b \in Snapshots, NEW trusted, ~FullRecompute(a, b, trusted),
         NEW p \in Selected(a) \cap Selected(b),
         Evidence(<<"path", p>>, a) = Evidence(<<"path", p>>, b)
  PROVE  <<"path", p>> \in Reusable(a, b, trusted)
<1>1. a.version = b.version /\ a.tree[p] = b.tree[p]
  <2>1. a.version = b.version
    BY Incremental
  <2>2. Evidence(<<"path", p>>, a).files = {<<p, a.tree[p]>>}
    BY PathFiles
  <2>3. Evidence(<<"path", p>>, b).files = {<<p, b.tree[p]>>}
    BY PathFiles
  <2>4. <<p, a.tree[p]>> \in {<<p, b.tree[p]>>}
    BY <2>2, <2>3
  <2> QED
    BY <2>1, <2>4
<1>2. PICK r : r = <<"path", p>>
  OBVIOUS
<1>3. r \in Records(a) /\ r \in Records(b)
  BY <1>2, RecordCases
<1>4. r[1] = "path" /\ PathOf(r, a) = p /\ PathOf(r, b) = p
  BY <1>2 DEF PathOf
<1>5. r \notin DirectlyInvalidated(a, b)
  BY <1>1, <1>3, <1>4, SnapshotFacts DEF DirectlyInvalidated, Changed, PriorOnly, CurrentOnly, Binding, CacheKey
<1>6. r \notin {<<"node", m>> : m \in AffectedNodes(a, b)}
  BY <1>2
<1> QED
  BY <1>2, <1>3, <1>4, <1>5, <1>6 DEF Reusable

\* Between any two snapshots that a session compares, a plan that does not call
\* for a full recomputation reuses every record of a file or a module that an
\* analysis from nothing would compute again as it was.
THEOREM ReuseMissesNothing == Spec => []ReuseIsExact
<1>1. ASSUME now \in Snapshots
      PROVE  ReuseIsExact
  <2> SUFFICES ASSUME NEW s \in Revisions(now), ~FullRecompute(now, s, TRUE),
                      NEW r \in Records(now) \cap Records(s),
                      r[1] # "partition", Evidence(r, now) = Evidence(r, s)
               PROVE  r \in Reusable(now, s, TRUE)
    BY DEF ReuseIsExact
  <2>1. s \in Snapshots
    BY <1>1, RevisionsAreSnapshots
  <2>2. CASE \E p \in Selected(now) \cap Selected(s) : r = <<"path", p>>
    BY <1>1, <2>1, <2>2, ExactPath
  <2>3. CASE \E n \in Ids(now) \cap Ids(s) : r = <<"node", n>>
    BY <1>1, <2>1, <2>3, ExactNode
  <2>4. r # <<"partition", "python">>
    OBVIOUS
  <2> QED
    <3>1. \/ \E p \in Selected(now) \cap Selected(s) : r = <<"path", p>>
          \/ \E n \in Ids(now) \cap Ids(s) : r = <<"node", n>>
          \/ r = <<"partition", "python">>
      BY CommonRecord
    <3> QED
      BY <2>2, <2>3, <2>4, <3>1
<1>2. Current => ReuseIsExact
  BY <1>1 DEF Current
<1> QED
  BY <1>2, AlwaysCurrent, PTL

=============================================================================
