------------------------- MODULE AccelerationProofs -------------------------
(***************************************************************************)
(* Proofs that work is computed once, for any tasks, any calls of any      *)
(* number of processes, and any entries, and that the pool keeps tasks of  *)
(* a common resource apart, keeps to its budgets and blocks no task        *)
(* without a cause, for any graph of tasks.                                *)
(***************************************************************************)
EXTENDS Acceleration, FiniteSetTheorems, TLAPS

\* Of some subsets of a finite set, one contains no other of them.
LEMMA LeastSet ==
  ASSUME NEW S, IsFiniteSet(S), NEW F, F \subseteq SUBSET S, F # {}
  PROVE  \E X \in F : \A Y \in F : Y \subseteq X => Y = X
<1>1. F \subseteq FiniteSubsetsOf(S)
  BY FS_FiniteSubsetsOfFinite
<1>2. PICK X \in F : \A Y \in F : ~(<<Y, X>> \in StrictSubsetOrdering(S))
  BY <1>1, FS_StrictSubsetOrderingWellFounded, WFMin
<1> QED
  BY <1>2 DEF StrictSubsetOrdering

\* ... and one is contained in no other.
LEMMA GreatestSet ==
  ASSUME NEW S, IsFiniteSet(S), NEW F, F \subseteq SUBSET S, F # {}
  PROVE  \E X \in F : \A Y \in F : X \subseteq Y => Y = X
<1> DEFINE G == {S \ X : X \in F}
<1>1. PICK Y \in G : \A Z \in G : Z \subseteq Y => Z = Y
  <2>1. G \subseteq SUBSET S
    OBVIOUS
  <2>2. G # {}
    <3>1. PICK X \in F : TRUE
      OBVIOUS
    <3>2. S \ X \in G
      OBVIOUS
    <3> QED
      BY <3>2
  <2> HIDE DEF G
  <2> QED
    BY <2>1, <2>2, LeastSet
<1>2. PICK X \in F : Y = S \ X
  OBVIOUS
<1> QED
  <2> SUFFICES ASSUME NEW Z \in F, X \subseteq Z
               PROVE  Z = X
    BY <1>2
  <2>1. S \ Z \subseteq Y /\ S \ Z \in G
    BY <1>2
  <2>2. S \ Z = S \ X
    BY <1>1, <1>2, <2>1
  <2> QED
    BY <2>2

\* The arguments of the Max in criticalPathScores.
Values(f, S) == {0} \cup {f[s] : s \in S}

LEMMA FiniteMax ==
  ASSUME NEW S, IsFiniteSet(S), NEW f, \A s \in S : f[s] \in Nat
  PROVE  Max(Values(f, S)) \in Nat
<1> DEFINE G == {X \in SUBSET S : \E m \in {0} \cup {f[s] : s \in X} : \A n \in {0} \cup {f[s] : s \in X} : m >= n}
<1>1. PICK X \in G : \A Y \in G : X \subseteq Y => Y = X
  <2>1. {} \in G
    OBVIOUS
  <2> HIDE DEF G
  <2>2. G \subseteq SUBSET S
    BY DEF G
  <2> QED
    BY <2>1, <2>2, GreatestSet
<1>2. X = S
  <2> SUFFICES ASSUME NEW s \in S \ X
               PROVE  FALSE
    OBVIOUS
  <2>1. PICK m \in {0} \cup {f[y] : y \in X} : \A n \in {0} \cup {f[y] : y \in X} : m >= n
    OBVIOUS
  <2>2. m \in Nat /\ f[s] \in Nat
    OBVIOUS
  <2>3. X \cup {s} \in G
    <3>1. CASE m >= f[s]
      BY <2>1, <2>2, <3>1
    <3>2. CASE f[s] >= m
      <4>1. \A n \in {0} \cup {f[y] : y \in X \cup {s}} : f[s] >= n
        BY <2>1, <2>2, <3>2
      <4> QED
        BY <4>1
    <3> QED
      BY <2>2, <3>1, <3>2
  <2> QED
    BY <1>1, <2>3
<1>3. \E m \in Values(f, S) : \A n \in Values(f, S) : m >= n
  BY <1>2 DEF Values
<1>4. Max(Values(f, S)) \in Values(f, S)
  BY <1>3 DEF Max
<1> QED
  BY <1>4 DEF Values

\* Any tasks contain one of which no other depends.
LEMMA Sink ==
  ASSUME RunPoolAssumption, NEW T, T \subseteq Tasks, T # {}
  PROVE  \E t \in T : Successors(t) \cap T = {}
<1> DEFINE Closed(U) == \A u \in U : Successors(u) \cap T \subseteq U
           F == {U \in SUBSET T : U # {} /\ Closed(U)}
<1>1. PICK U \in F : \A V \in F : V \subseteq U => V = U
  <2>1. IsFiniteSet(T)
    BY FS_Subset DEF RunPoolAssumption
  <2>2. T \in F /\ F \subseteq SUBSET T
    OBVIOUS
  <2> HIDE DEF F
  <2> QED
    BY <2>1, <2>2, LeastSet
<1>2. PICK u \in U : Task[u].depends_on \cap U = {}
  BY DEF RunPoolAssumption
<1>3. Closed(U \ {u})
  BY <1>2 DEF Successors
<1>4. U \ {u} = {}
  <2> SUFFICES ASSUME U \ {u} # {}
               PROVE  FALSE
    OBVIOUS
  <2>1. U \ {u} \in F
    BY <1>3
  <2> HIDE DEF F
  <2> QED
    BY <1>1, <2>1
<1> QED
  BY <1>2, <1>4 DEF Successors

Score(f, t) == Task[t].expected_ms + Max({0} \cup {f[s] : s \in Successors(t)})

LEMMA ScoreType ==
  ASSUME RunPoolAssumption, NEW t \in Tasks, NEW f, \A s \in Successors(t) : f[s] \in Nat
  PROVE  Score(f, t) \in Nat
<1>1. IsFiniteSet(Successors(t))
  BY FS_Subset DEF RunPoolAssumption, Successors
<1>5. Max(Values(f, Successors(t))) \in Nat
  BY <1>1, FiniteMax
<1>6. Task[t].expected_ms \in Nat
  BY DEF RunPoolAssumption, NormalTask
<1> QED
  BY <1>5, <1>6 DEF Score, Values

LEMMA SameScore ==
  ASSUME NEW t, NEW f, NEW g, \A s \in Successors(t) : f[s] = g[s]
  PROVE  Score(f, t) = Score(g, t)
<1>1. {f[s] : s \in Successors(t)} = {g[s] : s \in Successors(t)}
  OBVIOUS
<1> QED
  BY <1>1 DEF Score

\* The recursion of criticalPathScores is well defined on an acyclic graph.
LEMMA ScoresExist ==
  ASSUME RunPoolAssumption
  PROVE  \E f : f = [t \in Tasks |-> Score(f, t)]
<1> DEFINE F == {D \in SUBSET Tasks :
                   /\ \A t \in D : Successors(t) \subseteq D
                   /\ \E f \in [D -> Nat] : \A t \in D : f[t] = Score(f, t)}
<1>1. PICK D \in F : \A E \in F : D \subseteq E => E = D
  <2>1. {} \in F /\ F \subseteq SUBSET Tasks
    <3>1. [x \in {} |-> 0] \in [{} -> Nat] /\ {} \in SUBSET Tasks
      OBVIOUS
    <3> QED
      BY <3>1
  <2>2. IsFiniteSet(Tasks)
    BY DEF RunPoolAssumption
  <2> HIDE DEF F
  <2> QED
    BY <2>1, <2>2, GreatestSet
<1>2. PICK f \in [D -> Nat] : \A t \in D : f[t] = Score(f, t)
  OBVIOUS
<1>3. D = Tasks
  <2> SUFFICES ASSUME D # Tasks
               PROVE  FALSE
    OBVIOUS
  <2>1. PICK t \in Tasks \ D : Successors(t) \cap (Tasks \ D) = {}
    <3>1. Tasks \ D # {} /\ Tasks \ D \subseteq Tasks
      OBVIOUS
    <3> QED
      BY <3>1, Sink
  <2>2. Successors(t) \subseteq D
    BY <2>1 DEF Successors
  <2> DEFINE g == [s \in D \cup {t} |-> IF s = t THEN Score(f, t) ELSE f[s]]
  <2>3. g \in [D \cup {t} -> Nat]
    <3>1. Score(f, t) \in Nat
      BY <2>2, ScoreType
    <3> QED
      BY <3>1
  <2>4. ASSUME NEW s \in D \cup {t}
        PROVE  g[s] = Score(g, s)
    <3>1. Successors(s) \subseteq D
      BY <2>2
    <3>2. \A x \in Successors(s) : g[x] = f[x]
      BY <2>1, <3>1
    <3>3. Score(g, s) = Score(f, s)
      BY <3>2, SameScore
    <3> QED
      BY <1>2, <2>1, <3>3
  <2>5. D \cup {t} \in F
    <3> HIDE DEF g
    <3> QED
      BY <2>1, <2>2, <2>3, <2>4
  <2> QED
    BY <1>1, <2>1, <2>5
<1>4. f = [t \in Tasks |-> Score(f, t)]
  BY <1>2, <1>3
<1> QED
  BY <1>4

LEMMA CriticalPathType ==
  ASSUME RunPoolAssumption
  PROVE  CriticalPath \in [Tasks -> Nat]
<1>1. CriticalPath = CHOOSE f : f = [t \in Tasks |-> Score(f, t)]
  BY DEF CriticalPath, Score
<1>2. CriticalPath = [t \in Tasks |-> Score(CriticalPath, t)]
  BY <1>1, ScoresExist
<1> DEFINE T == {t \in Tasks : CriticalPath[t] \notin Nat}
<1>3. T = {}
  <2> SUFFICES ASSUME T # {}
               PROVE  FALSE
    OBVIOUS
  <2>1. PICK t \in T : Successors(t) \cap T = {}
    BY Sink
  <2>2. \A s \in Successors(t) : CriticalPath[s] \in Nat
    BY <2>1 DEF Successors
  <2>3. CriticalPath[t] = Score(CriticalPath, t)
    BY <1>2
  <2>4. t \in Tasks /\ CriticalPath[t] \notin Nat
    OBVIOUS
  <2>5. Score(CriticalPath, t) \in Nat
    BY <2>2, <2>4, ScoreType, Zenon
  <2> QED
    BY <2>3, <2>4, <2>5
<1> QED
  BY <1>2, <1>3

\* Of two different tasks that wait, one is ahead of the other.
LEMMA AheadTotal ==
  ASSUME RunPoolAssumption, NEW s \in Tasks, NEW t \in Tasks, s # t
  PROVE  <<s, t>> \in Ahead \/ <<t, s>> \in Ahead
<1>1. Position[s] \in Nat /\ Position[t] \in Nat /\ Position[s] # Position[t]
  BY DEF RunPoolAssumption, Position
<1>2. CriticalPath \in [Tasks -> Nat]
  BY CriticalPathType
<1>3. \A u \in Tasks : Task[u].priority \in Int /\ Task[u].weight \in 1 .. MaxParallel
  <2>1. \A u \in Tasks : Task[u] \in NormalTask
    BY DEF RunPoolAssumption
  <2> QED
    BY <2>1 DEF NormalTask
<1>4. MaxParallel \in Nat
  BY DEF RunPoolAssumption
<1>5. \A u \in Tasks : /\ Rank[u][1] = CriticalPath[u] /\ Rank[u][2] = Task[u].priority
                       /\ Rank[u][3] = Task[u].weight /\ Rank[u][4] = -Position[u]
  BY DEF Rank
<1> DEFINE a == Rank[s]
           b == Rank[t]
<1>61. \A u \in Tasks : /\ CriticalPath[u] \in Int /\ Task[u].priority \in Int /\ Task[u].weight \in Int
  BY <1>2, <1>3, <1>4
<1>62. -Position[s] \in Int /\ -Position[t] \in Int /\ -Position[s] # -Position[t]
  BY <1>1
<1>6. /\ a[1] \in Int /\ a[2] \in Int /\ a[3] \in Int /\ a[4] \in Int
      /\ b[1] \in Int /\ b[2] \in Int /\ b[3] \in Int /\ b[4] \in Int
      /\ a[4] # b[4]
  
  <2>1. a[1] = CriticalPath[s] /\ a[2] = Task[s].priority /\ a[3] = Task[s].weight /\ a[4] = -Position[s]
    BY <1>5
  <2>2. b[1] = CriticalPath[t] /\ b[2] = Task[t].priority /\ b[3] = Task[t].weight /\ b[4] = -Position[t]
    BY <1>5
  <2> HIDE DEF a, b
  <2> QED
    BY <1>61, <1>62, <2>1, <2>2
<1>7. \E n \in 1 .. 4 : (a[n] > b[n] \/ b[n] > a[n]) /\ \A m \in 1 .. n - 1 : a[m] = b[m]
  <2> HIDE DEF a, b
  <2>1. CASE a[1] # b[1]
    BY <1>6, <2>1
  <2>2. CASE a[1] = b[1] /\ a[2] # b[2]
    BY <1>6, <2>2
  <2>3. CASE a[1] = b[1] /\ a[2] = b[2] /\ a[3] # b[3]
    BY <1>6, <2>3
  <2>4. CASE a[1] = b[1] /\ a[2] = b[2] /\ a[3] = b[3]
    BY <1>6, <2>4
  <2> QED
    BY <2>1, <2>2, <2>3, <2>4
<1> QED
  BY <1>7 DEF Ahead
---------------------------------------------------------------------------
\* Tasks that run together name no common resource.
RunningApart ==
  \A s, t \in Running(status) : s # t => Task[s].resources \cap Task[t].resources = {}

PoolTypeOK ==
  /\ turn \in {"pass", "again", "await", "done"}
  /\ status \in [Tasks -> Statuses]
  /\ deadlocked \subseteq Tasks
  /\ attempt \in [Tasks -> Nat]
  /\ classBudgets \in [Classes -> 0 .. MaxParallel]

\* Nothing is given up before the end, and nothing is left at the end.
EndIsFinal ==
  /\ deadlocked # {} => turn = "done"
  /\ turn = "done" => \A t \in Tasks : status[t] \notin {"pending", "running"}

PoolInv == PoolTypeOK /\ EndIsFinal /\ RunningApart /\ BlockedHasCause

LEMMA PoolInvInit == RunPoolAssumption /\ PoolInit => PoolInv
  BY DEF RunPoolAssumption, PoolInit, PoolInv, PoolTypeOK, Statuses, EndIsFinal, RunningApart, Running,
     BlockedHasCause

\* A pass that blocks B and admits A.
PassOf(B, A) ==
  /\ turn \in {"pass", "again"}
  /\ B \subseteq {t \in Tasks : status[t] = "pending"} /\ BlockedPass(B)
  /\ A \subseteq ReadyIn(Halted(B)) /\ Picks(ReadyIn(Halted(B)), Running(Halted(B)), A)
  /\ Admit(Halted(B), A)
  /\ UNCHANGED <<late, classBudgets>>

LEMMA PassIsPassOf == Pass => \E B, A : PassOf(B, A)
  BY DEF Pass, PassOf

\* A task that a pass blocks has a dependency that failed or was blocked,
\* before the pass or by it.
LEMMA BlockedByPass ==
  ASSUME RunPoolAssumption, PoolTypeOK, NEW B, BlockedPass(B), B \subseteq Tasks, NEW t \in B
  PROVE  /\ status[t] = "pending"
         /\ ~Task[t].allow_failed_dependencies
         /\ \E d \in Task[t].depends_on : d \in Tasks /\ (d \in B \/ status[d] \in {"failed", "blocked"})
<1>1. status[t] = "pending" /\ DependencyState(Seen(B, t), t) = "blocked"
  BY DEF BlockedPass
<1>2. /\ ~Task[t].allow_failed_dependencies
      /\ \E d \in Task[t].depends_on : Seen(B, t)[d] \in {"failed", "blocked"}
  BY <1>1 DEF DependencyState
<1>3. Task[t].depends_on \subseteq Tasks
  BY DEF RunPoolAssumption, NormalTask
<1> QED
  BY <1>1, <1>2, <1>3 DEF Seen

\* What a pass leaves to a task.
LEMMA PassStatus ==
  ASSUME RunPoolAssumption, PoolInv, NEW B, NEW A, PassOf(B, A)
  PROVE  /\ PoolTypeOK' /\ EndIsFinal' /\ deadlocked = {}
         /\ \A t \in A : status[t] = "pending" /\ t \in Tasks \ B /\ status'[t] = "running"
         /\ \A t \in B : t \in Tasks /\ status[t] = "pending" /\ t \notin deadlocked' /\ status'[t] = "blocked"
         /\ \A t \in Tasks \ (A \cup B \cup deadlocked') : status'[t] = status[t]
         /\ \A t \in deadlocked' : status[t] = "pending" /\ status'[t] = "blocked"
         /\ deadlocked' # {} => A = {} /\ \A t \in Tasks : status[t] # "running"
<1> USE DEF PassOf, PoolInv, Admit
<1>1. \A t \in Tasks : Halted(B)[t] = IF t \in B THEN "blocked" ELSE status[t]
  BY DEF Halted
<1>2. \A t \in A : t \in Tasks \ B /\ status[t] = "pending"
  BY <1>1 DEF ReadyIn
<1>3. deadlocked = {} /\ deadlocked' \subseteq Tasks
  BY DEF EndIsFinal
<1>4. \A t \in Tasks : status'[t] = IF t \in A THEN "running"
                                    ELSE IF t \in deadlocked' THEN "blocked" ELSE Halted(B)[t]
  OBVIOUS
<1>5. \A t \in deadlocked' : t \in Tasks \ B /\ status[t] = "pending" /\ A = {}
  BY <1>1
<1>6. deadlocked' # {} => A = {} /\ \A t \in Tasks : status[t] # "running"
  BY <1>1 DEF Running
<1>7. status' \in [Tasks -> Statuses]
  <2>1. \A t \in Tasks : status'[t] \in Statuses
    BY <1>1, <1>4 DEF PoolTypeOK, Statuses
  <2> QED
    BY <2>1
<1>8. PoolTypeOK'
  <2>1. attempt' \in [Tasks -> Nat]
    BY DEF PoolTypeOK
  <2> QED
    BY <1>3, <1>7, <2>1 DEF PoolTypeOK
<1>9. EndIsFinal'
  <2>1. turn' = "done" <=> A \cup Running(Halted(B)) = {}
    OBVIOUS
  <2>2. deadlocked' # {} => turn' = "done"
    BY <2>1
  <2>3. ASSUME turn' = "done", NEW t \in Tasks
        PROVE  status'[t] \notin {"pending", "running"}
    <3>1. A = {} /\ deadlocked' = {u \in Tasks : Halted(B)[u] = "pending"} /\ Halted(B)[t] # "running"
      BY <2>1, <2>3 DEF Running
    <3> QED
      BY <1>4, <3>1
  <2> QED
    BY <2>2, <2>3 DEF EndIsFinal
<1> QED
  BY <1>1, <1>2, <1>3, <1>4, <1>5, <1>6, <1>8, <1>9

\* The greedy loop admits only tasks that go with each other and with those
\* that run.
LEMMA PassApart ==
  ASSUME RunPoolAssumption, PoolInv, NEW B, NEW A, PassOf(B, A)
  PROVE  RunningApart'
<1>1. \A t \in Tasks : status'[t] = "running" => t \in A \/ (status[t] = "running" /\ t \in Running(Halted(B)))
  <2>1. \A t \in Tasks : status'[t] = "running" => t \in A \/ (status[t] = "running" /\ t \notin B)
    <3>1. /\ \A t \in B \cup deadlocked' : status'[t] = "blocked"
          /\ \A t \in Tasks \ (A \cup B \cup deadlocked') : status'[t] = status[t]
      BY PassStatus
    <3> QED
      BY <3>1
  <2> QED
    BY <2>1 DEF Halted, Running
<1>2. ASSUME NEW t \in A, NEW s \in Running(Halted(B)) \cup {a \in A : <<a, t>> \in Ahead}
      PROVE  Task[s].resources \cap Task[t].resources = {}
  <2>1. Fits(t, Running(Halted(B)) \cup {a \in A : <<a, t>> \in Ahead})
    BY DEF PassOf, Picks
  <2> QED
    BY <2>1 DEF Fits
<1>3. ASSUME NEW s \in A, NEW t \in A, s # t
      PROVE  Task[s].resources \cap Task[t].resources = {}
  <2>1. s \in Tasks /\ t \in Tasks
    BY PassStatus
  <2>2. <<s, t>> \in Ahead \/ <<t, s>> \in Ahead
    BY <1>3, <2>1, AheadTotal
  <2>3. CASE <<s, t>> \in Ahead
    BY <1>2, <2>3
  <2>4. CASE <<t, s>> \in Ahead
    BY <1>2, <2>4
  <2> QED
    BY <2>2, <2>3, <2>4
<1> SUFFICES ASSUME NEW s \in Running(status)', NEW t \in Running(status)', s # t
             PROVE  Task[s].resources \cap Task[t].resources = {}
  BY DEF RunningApart
<1>4. s \in Tasks /\ t \in Tasks /\ status'[s] = "running" /\ status'[t] = "running"
  BY DEF Running
<1>5. CASE s \in A /\ t \in A
  BY <1>3, <1>5
<1>6. CASE s \in A /\ t \notin A
  BY <1>1, <1>2, <1>4, <1>6
<1>7. CASE s \notin A /\ t \in A
  BY <1>1, <1>2, <1>4, <1>7
<1>8. CASE s \notin A /\ t \notin A
  BY <1>1, <1>4, <1>8 DEF PoolInv, RunningApart, Running
<1> QED
  BY <1>5, <1>6, <1>7, <1>8

LEMMA TaskFields ==
  ASSUME RunPoolAssumption, NEW t \in Tasks
  PROVE  /\ Task[t].weight \in 1 .. MaxParallel /\ MaxParallel \in Nat
         /\ Task[t].executor_class \in Classes
         /\ Task[t].depends_on \subseteq Tasks
<1>1. Task[t] \in NormalTask
  BY DEF RunPoolAssumption
<1> QED
  BY <1>1 DEF RunPoolAssumption, NormalTask

LEMMA WeightType ==
  ASSUME RunPoolAssumption, NEW S, S \subseteq Tasks
  PROVE  Weight(S) \in Nat
<1>1. IsFiniteSet(S)
  BY FS_Subset DEF RunPoolAssumption
<1>2. IsFiniteSet(1 .. MaxParallel)
  BY FS_Interval DEF RunPoolAssumption
<1>3. IsFiniteSet(S \X (1 .. MaxParallel))
  BY <1>1, <1>2, FS_Product
<1>4. IsFiniteSet({p \in S \X (1 .. MaxParallel) : p[2] <= Task[p[1]].weight})
  BY <1>3, FS_Subset
<1> QED
  BY <1>4, FS_CardinalityType DEF Weight

\* A plan that planWaves accepts puts every task where it fits its class.
LEMMA PlannedFits ==
  ASSUME RunPoolAssumption, PoolTypeOK, ~Unschedulable, NEW t \in Tasks
  PROVE  Task[t].weight <= classBudgets[Task[t].executor_class]
<1> DEFINE Waves == 1 .. Cardinality(Tasks)
           Before(wave, n) == {s \in Tasks : wave[s] < n}
           Ready(D) == {s \in Tasks \ D : Task[s].depends_on \subseteq D}
           In(wave, n) == {s \in Tasks : wave[s] = n}
<1>1. PICK wave \in [Tasks -> Waves] : \A n \in Waves :
         /\ In(wave, n) \subseteq Ready(Before(wave, n))
         /\ Picks(Ready(Before(wave, n)), {}, In(wave, n))
  BY DEF Unschedulable
<1>2. \E S \in SUBSET Tasks : Fits(t, S)
  <2>1. wave[t] \in Waves /\ t \in In(wave, wave[t])
    BY <1>1
  <2>2. t \in Ready(Before(wave, wave[t])) /\ Picks(Ready(Before(wave, wave[t])), {}, In(wave, wave[t]))
    BY <1>1, <2>1
  <2>3. Fits(t, {} \cup {a \in In(wave, wave[t]) : <<a, t>> \in Ahead})
    BY <2>1, <2>2 DEF Picks
  <2> QED
    BY <2>3
<1>3. PICK S \in SUBSET Tasks : Fits(t, S)
  BY <1>2
<1> DEFINE C == {s \in S : Task[s].executor_class = Task[t].executor_class}
<1>4. Weight(C) + Task[t].weight <= classBudgets[Task[t].executor_class]
  BY <1>3 DEF Fits
<1>5. Weight(C) \in Nat
  BY WeightType
<1>6. Task[t].weight \in Nat /\ classBudgets[Task[t].executor_class] \in Nat
  <2>1. Task[t].weight \in 1 .. MaxParallel /\ Task[t].executor_class \in Classes /\ MaxParallel \in Nat
    BY TaskFields
  <2> QED
    BY <2>1 DEF PoolTypeOK
<1> QED
  BY <1>4, <1>5, <1>6

\* Whoever is blocked, and was not given up, descends from a failure.
LEMMA BlockedByFailure ==
  ASSUME RunPoolAssumption, PoolTypeOK, BlockedHasCause, NEW B,
         BlockedPass(B), B \subseteq Tasks, deadlocked = {}
  PROVE  (\E t \in Tasks : status[t] = "failed") \/ (B = {} /\ \A t \in Tasks : status[t] # "blocked")
<1>1. ASSUME NEW t \in B
      PROVE  \E d \in Task[t].depends_on : d \in Tasks /\ (d \in B \/ status[d] \in {"failed", "blocked"})
  BY BlockedByPass
<1> SUFFICES ASSUME \A t \in Tasks : status[t] # "failed"
             PROVE  B = {} /\ \A t \in Tasks : status[t] # "blocked"
  OBVIOUS
<1> DEFINE T == {t \in Tasks : t \in B \/ status[t] = "blocked"}
<1>2. T = {}
  <2> SUFFICES ASSUME T # {}
               PROVE  FALSE
    OBVIOUS
  <2>1. PICK t \in T : Task[t].depends_on \cap T = {}
    BY DEF RunPoolAssumption
  <2>2. t \in Tasks /\ Task[t].depends_on \subseteq Tasks
    BY TaskFields
  <2>3. CASE t \in B
    BY <1>1, <2>1, <2>3
  <2>4. CASE status[t] = "blocked"
    BY <2>1, <2>2, <2>4 DEF BlockedHasCause
  <2> QED
    BY <2>3, <2>4
<1> QED
  BY <1>2

\* Tasks are given up only after a failure or for a plan that planWaves refuses.
LEMMA DeadlockHasCause ==
  ASSUME RunPoolAssumption, PoolInv, NEW B, NEW A, PassOf(B, A),
         deadlocked' # {}, \A t \in Tasks : status[t] # "failed"
  PROVE  Unschedulable
<1> SUFFICES ASSUME ~Unschedulable
             PROVE  FALSE
  OBVIOUS
<1>1. A = {} /\ deadlocked = {} /\ \A t \in Tasks : status[t] # "running"
  BY PassStatus
<1>2. B = {} /\ \A t \in Tasks : status[t] # "blocked"
  BY <1>1, BlockedByFailure DEF PassOf, PoolInv
<1>3. \A t \in Tasks : status[t] \in {"pending", "success"}
  BY <1>1, <1>2 DEF PoolInv, PoolTypeOK, Statuses
<1> DEFINE T == {t \in Tasks : status[t] = "pending"}
<1>4. T # {}
  <2>1. deadlocked' \subseteq T
    <3>1. PoolTypeOK' /\ \A t \in deadlocked' : status[t] = "pending"
      BY PassStatus
    <3> QED
      BY <3>1 DEF PoolTypeOK
  <2> QED
    BY <2>1
<1>5. PICK t \in T : Task[t].depends_on \cap T = {}
  BY <1>4 DEF RunPoolAssumption
<1>6. t \in Tasks /\ status[t] = "pending" /\ Task[t].depends_on \subseteq Tasks
  BY <1>5, TaskFields
<1>7. \A d \in Task[t].depends_on : status[d] = "success"
  BY <1>3, <1>5, <1>6
<1>8. Halted(B) = status /\ Running(status) = {}
  BY <1>1, <1>2 DEF Halted, Running, PoolInv, PoolTypeOK
<1>9. t \in ReadyIn(status)
  BY <1>6, <1>7 DEF ReadyIn, DependencyState
<1>10. ~Fits(t, {})
  <2>1. Picks(ReadyIn(status), {}, {})
    BY <1>1, <1>8 DEF PassOf
  <2>2. ~Fits(t, {} \cup {a \in {} : <<a, t>> \in Ahead})
    BY <1>9, <2>1 DEF Picks
  <2> QED
    BY <2>2
<1>11. Weight({}) = 0
  <2>1. {p \in {} \X (1 .. MaxParallel) : p[2] <= Task[p[1]].weight} = {}
    OBVIOUS
  <2> QED
    BY <2>1, FS_EmptySet DEF Weight
<1>12. {s \in {} : Task[s].executor_class = Task[t].executor_class} = {}
  OBVIOUS
<1>13. Task[t].weight <= classBudgets[Task[t].executor_class]
  BY <1>6, PlannedFits DEF PoolInv
<1>14. Fits(t, {})
  <2>1. Task[t].weight \in Nat /\ Task[t].weight <= MaxParallel
    BY <1>6, TaskFields
  <2> QED
    BY <1>11, <1>12, <1>13, <2>1 DEF Fits
<1> QED
  BY <1>10, <1>14

LEMMA PassStep ==
  ASSUME RunPoolAssumption, PoolInv, Pass
  PROVE  PoolInv'
<1>1. PICK B, A : PassOf(B, A)
  BY PassIsPassOf
<1>2. BlockedPass(B) /\ B \subseteq Tasks /\ PoolTypeOK /\ BlockedHasCause
  BY <1>1 DEF PassOf, PoolInv
<1>3. \A d \in Tasks : d \in B \/ status[d] \in {"failed", "blocked"} => status'[d] \in {"failed", "blocked"}
  BY <1>1, PassStatus
<1>4. ASSUME NEW t \in Tasks \ deadlocked', status'[t] = "blocked"
      PROVE  /\ ~Task[t].allow_failed_dependencies
             /\ \E d \in Task[t].depends_on : status'[d] \in {"failed", "blocked"}
  <2>1. t \notin A
    BY <1>1, <1>4, PassStatus
  <2>2. CASE t \in B
    BY <1>2, <1>3, <2>2, BlockedByPass
  <2>3. CASE t \notin B
    <3>1. status[t] = "blocked" /\ t \in Tasks \ deadlocked
      <4>1. deadlocked = {} /\ \A u \in Tasks \ (A \cup B \cup deadlocked') : status'[u] = status[u]
        BY <1>1, PassStatus
      <4> QED
        BY <1>4, <2>1, <2>3, <4>1
    <3>2. /\ ~Task[t].allow_failed_dependencies
          /\ \E d \in Task[t].depends_on : status[d] \in {"failed", "blocked"}
      BY <1>2, <3>1 DEF BlockedHasCause
    <3> QED
      BY <1>3, <3>1, <3>2, TaskFields
  <2> QED
    BY <2>2, <2>3
<1>5. deadlocked' # {} => (\E t \in Tasks : status'[t] = "failed") \/ Unschedulable'
  <2>1. Unschedulable' <=> Unschedulable
    BY <1>1 DEF PassOf, Unschedulable, Picks, Fits
  <2>2. \A t \in Tasks : status[t] = "failed" => status'[t] = "failed"
    BY <1>1, PassStatus
  <2> QED
    BY <1>1, <2>1, <2>2, DeadlockHasCause
<1>6. BlockedHasCause'
  BY <1>4, <1>5 DEF BlockedHasCause
<1> QED
  BY <1>1, <1>6, PassStatus, PassApart DEF PoolInv

\* What the end of a task, or of one of its attempts, changes.
LEMMA TaskStep ==
  ASSUME RunPoolAssumption, PoolInv, NEW t \in Tasks, Succeed(t) \/ AttemptFails(t) \/ TimesOut(t)
  PROVE  PoolInv'
<1>1. /\ status[t] = "running" /\ turn # "done" /\ deadlocked' = deadlocked /\ deadlocked = {}
      /\ classBudgets' = classBudgets
  BY DEF Succeed, AttemptFails, TimesOut, Awaited, Outcome, PoolInv, EndIsFinal
<1>2. \/ status' = status /\ turn' = turn
      \/ turn' = "pass" /\ \E s \in {"success", "failed"} : status' = [status EXCEPT ![t] = s]
  BY DEF Succeed, AttemptFails, TimesOut, Outcome
<1>3. attempt' \in [Tasks -> Nat]
  BY DEF Succeed, AttemptFails, TimesOut, PoolInv, PoolTypeOK
<1>4. PoolTypeOK'
  <2>1. status' \in [Tasks -> Statuses] /\ turn' \in {"pass", "again", "await", "done"}
    BY <1>2 DEF PoolInv, PoolTypeOK, Statuses
  <2> QED
    BY <1>1, <1>3, <2>1 DEF PoolInv, PoolTypeOK
<1>5. \A s \in Tasks : status'[s] = status[s] \/ (s = t /\ status'[s] \in {"success", "failed"})
  BY <1>2 DEF PoolInv, PoolTypeOK
<1>6. RunningApart'
  BY <1>5 DEF PoolInv, RunningApart, Running
<1>7. EndIsFinal'
  BY <1>1, <1>2 DEF PoolInv, EndIsFinal
<1>8. BlockedHasCause'
  <2> SUFFICES ASSUME NEW s \in Tasks, status'[s] = "blocked"
               PROVE  /\ ~Task[s].allow_failed_dependencies
                      /\ \E d \in Task[s].depends_on : status'[d] \in {"failed", "blocked"}
    BY <1>1 DEF BlockedHasCause
  <2>1. /\ ~Task[s].allow_failed_dependencies
        /\ \E d \in Task[s].depends_on : status[d] \in {"failed", "blocked"}
    BY <1>1, <1>5 DEF PoolInv, BlockedHasCause
  <2> QED
    BY <1>1, <1>5, <2>1, TaskFields
<1> QED
  BY <1>4, <1>6, <1>7, <1>8 DEF PoolInv

LEMMA PoolInvStep ==
  RunPoolAssumption /\ PoolInv /\ [PoolNext]_poolVars => PoolInv'
<1> SUFFICES ASSUME RunPoolAssumption, PoolInv, [PoolNext]_poolVars
             PROVE  PoolInv'
  OBVIOUS
<1>1. CASE Pass
  BY <1>1, PassStep
<1>2. CASE \E t \in Tasks : Succeed(t) \/ AttemptFails(t) \/ TimesOut(t)
  BY <1>2, TaskStep
<1>3. CASE UNCHANGED poolVars
  <2>1. Unschedulable' <=> Unschedulable
    BY <1>3 DEF poolVars, Unschedulable, Picks, Fits
  <2> QED
    BY <1>3, <2>1 DEF poolVars, PoolInv, PoolTypeOK, EndIsFinal, RunningApart, Running, BlockedHasCause
<1> QED
  BY <1>1, <1>2, <1>3 DEF PoolNext
---------------------------------------------------------------------------
Holding == {c \in Calls : call[c] \in {"holding", "computing"}}

\* A process has one flight for an entry: whoever comes later joins it.
OneFlight ==
  \A c, d \in Calls :
    call[c] \in Leading /\ call[d] \in Leading /\ SameFlight(c, d) => c = d

\* Nobody works for a process that died.
HoldersLive == \A c \in Holding : ProcOf[c] \in alive

\* Whoever is past the lock has it, unless it was taken away.
HoldersLock ==
  \A c \in Holding : EntryOf[c] \notin raced => lock[EntryOf[c]] = ProcOf[c]

\* A computation goes on only while the entry is not there.
ComputingIsFresh ==
  \A c \in Computing : EntryOf[c] \notin raced => EntryOf[c] \notin stored

\* An entry is there once a result was put, and it was put at most once.
PutOnce ==
  \A e \in Entries :
    /\ e \notin stored => computed[e] = 0
    /\ e \notin raced => computed[e] <= 1

CacheInv ==
  /\ CacheTypeOK /\ OneFlight /\ HoldersLive /\ HoldersLock /\ ComputingIsFresh /\ PutOnce

LEMMA CacheInvInit == CacheAssumption /\ AccelerationInit => CacheInv
  BY DEF CacheAssumption, AccelerationInit, CacheInit, CacheInv, CacheTypeOK, CallStates, Leading,
     OneFlight, HoldersLive, HoldersLock, Holding, ComputingIsFresh, Computing, PutOnce

\* Two calls past the lock of an entry that was not taken away are one call.
LEMMA OneHolder ==
  ASSUME CacheInv, NEW c \in Holding, NEW d \in Holding,
         EntryOf[c] = EntryOf[d], EntryOf[c] \notin raced
  PROVE  c = d
<1>1. lock[EntryOf[c]] = ProcOf[c] /\ lock[EntryOf[d]] = ProcOf[d]
  BY DEF CacheInv, HoldersLock
<1>2. SameFlight(c, d) /\ call[c] \in Leading /\ call[d] \in Leading
  BY <1>1 DEF SameFlight, Holding, Leading
<1> QED
  BY <1>2 DEF CacheInv, OneFlight, Holding

\* Settling a flight only ends it: no call becomes a leader by it.
LEMMA SettleFacts ==
  ASSUME CacheTypeOK, NEW c \in Calls, NEW s \in {"done", "failed"}, SettleFlight(c, s)
  PROVE  /\ call' \in [Calls -> CallStates]
         /\ call'[c] = s
         /\ \A d \in Calls : call'[d] \in Leading => d # c /\ call'[d] = call[d]
  BY DEF CacheTypeOK, CallStates, Leading, SettleFlight

\* Ask takes a call out of "idle", and into the lead only if nobody leads.
LEMMA AskStep ==
  ASSUME CacheAssumption, CacheInv, NEW c, Ask(c)
  PROVE  CacheInv'
<1>1. CASE c \in Calls
  <2>1. call' \in [Calls -> CallStates] /\ \A d \in Calls \ {c} : call'[d] = call[d]
    BY <1>1 DEF Ask, Move, CacheInv, CacheTypeOK, CallStates, Leading
  <2>2. call'[c] \in {"done", "joined", "waiting"}
    BY <1>1 DEF Ask, Move, CacheInv, CacheTypeOK
  <2>3. call'[c] \in Leading => ~\E d \in Calls : SameFlight(c, d) /\ call[d] \in Leading
    BY <1>1 DEF Ask, Move, CacheInv, CacheTypeOK, Leading
  <2>4. Holding' = Holding /\ Computing' = Computing
    BY <1>1, <2>1, <2>2 DEF Ask, At, Holding, Computing
  <2>5. OneFlight'
    BY <2>1, <2>3 DEF CacheInv, OneFlight, SameFlight
  <2> QED
    BY <2>1, <2>4, <2>5 DEF Ask, CacheInv, CacheTypeOK, HoldersLive, HoldersLock,
       ComputingIsFresh, PutOnce
<1>2. CASE c \notin Calls
  <2>1. call' = call
    BY <1>2 DEF Ask, Move, CacheInv, CacheTypeOK
  <2> QED
    BY <2>1 DEF Ask, CacheInv, CacheTypeOK, OneFlight, SameFlight, HoldersLive, HoldersLock, Holding,
       ComputingIsFresh, Computing, PutOnce
<1> QED
  BY <1>1, <1>2

\* What acquire does: nobody starts to compute by it.
LEMMA AcquireStep ==
  ASSUME CacheAssumption, CacheInv, NEW c \in Calls,
         TakeLock(c) \/ FailToOwn(c) \/ Judge(c) \/ Purge(c) \/ GiveUp(c)
  PROVE  CacheInv'
<1> USE DEF CacheInv
<1>1. UNCHANGED <<stored, computed, alive>> /\ ProcOf[c] \in alive /\ c \notin Holding
  BY DEF TakeLock, FailToOwn, Judge, Purge, GiveUp, At, Holding
<1>2. CacheTypeOK'
  <2>1. CASE TakeLock(c) \/ Judge(c) \/ Purge(c)
    BY <2>1 DEF CacheAssumption, CacheTypeOK, CallStates, Leading, TakeLock, Judge, Purge, Move, Release
  <2>2. CASE GiveUp(c) \/ FailToOwn(c)
    BY <2>2, SettleFacts DEF CacheAssumption, CacheTypeOK, GiveUp, FailToOwn
  <2> QED
    BY <2>1, <2>2
<1>3. \A d \in Calls : call'[d] \in Leading => call[d] \in Leading /\ (d # c => call'[d] = call[d])
  <2>1. CASE TakeLock(c) \/ Judge(c) \/ Purge(c)
    BY <2>1 DEF CacheTypeOK, Leading, TakeLock, Judge, Purge, Move, At
  <2>2. CASE GiveUp(c) \/ FailToOwn(c)
    BY <2>2, SettleFacts DEF GiveUp, FailToOwn
  <2> QED
    BY <2>1, <2>2
<1>4. OneFlight'
  BY <1>3 DEF OneFlight, SameFlight
<1>5. Computing' \subseteq Computing /\ Holding' \subseteq Holding \cup {c}
  <2>1. call'[c] # "computing"
    <3>1. CASE GiveUp(c) \/ FailToOwn(c)
      BY <3>1, SettleFacts DEF GiveUp, FailToOwn
    <3>2. CASE TakeLock(c) \/ Judge(c) \/ Purge(c)
      BY <3>2 DEF TakeLock, Judge, Purge, Move, CacheTypeOK
    <3> QED
      BY <3>1, <3>2
  <2> QED
    BY <1>3, <2>1 DEF Computing, Holding, Leading
<1>6. raced \subseteq raced'
  BY DEF TakeLock, FailToOwn, Judge, Purge, GiveUp
<1>7. HoldersLive'
  BY <1>1, <1>5 DEF HoldersLive
<1>8. HoldersLock'
  <2> SUFFICES ASSUME NEW d \in Holding', EntryOf[d] \notin raced'
               PROVE  lock'[EntryOf[d]] = ProcOf[d]
    BY DEF HoldersLock
  <2>1. d \in Calls /\ EntryOf[c] \in Entries /\ EntryOf[d] \in Entries /\ ProcOf[c] \in Procs
    BY DEF Holding, CacheAssumption
  <2>2. CASE d = c
    <3>1. TakeLock(c)
      <4>1. call'[c] \in {"holding", "computing"}
        BY <2>2 DEF Holding
      <4>2. ~GiveUp(c) /\ ~FailToOwn(c)
        BY <4>1, SettleFacts DEF GiveUp, FailToOwn
      <4> QED
        BY <4>1, <4>2 DEF Judge, Purge, Move, CacheTypeOK
    <3> QED
      BY <2>1, <2>2, <3>1 DEF TakeLock, CacheTypeOK
  <2>3. CASE d # c
    <3>1. d \in Holding /\ lock[EntryOf[d]] = ProcOf[d] /\ ProcOf[d] \in alive
      BY <1>5, <1>6, <2>3 DEF HoldersLock, HoldersLive
    <3>2. CASE TakeLock(c) \/ FailToOwn(c)
      BY <2>1, <3>1, <3>2 DEF TakeLock, FailToOwn, CacheTypeOK, CacheAssumption
    <3>3. CASE Purge(c)
      BY <2>1, <3>1, <3>3 DEF Purge, Release, CacheTypeOK
    <3>4. CASE Judge(c) \/ GiveUp(c)
      BY <3>1, <3>4 DEF Judge, GiveUp
    <3> QED
      BY <3>2, <3>3, <3>4
  <2> QED
    BY <2>2, <2>3
<1>9. ComputingIsFresh' /\ PutOnce'
  BY <1>1, <1>5, <1>6 DEF ComputingIsFresh, PutOnce, CacheTypeOK
<1> QED
  BY <1>2, <1>4, <1>7, <1>8, <1>9

\* A holder ends, without a result or because one is there already.
LEMMA EndStep ==
  ASSUME CacheAssumption, CacheInv, NEW c \in Holding, NEW s \in {"done", "failed"},
         SettleFlight(c, s), Release(c), UNCHANGED <<alive, raced>>,
         \/ UNCHANGED <<stored, computed>>
         \/ /\ c \in Computing
            /\ stored' = stored \cup {EntryOf[c]}
            /\ computed' = [computed EXCEPT ![EntryOf[c]] = @ + 1]
  PROVE  CacheInv'
<1> USE DEF CacheInv
<1>1. c \in Calls /\ EntryOf[c] \in Entries
  BY DEF Holding, CacheAssumption
<1>2. CacheTypeOK'
  <2>1. lock' \in [Entries -> Procs \cup {Free, Unowned}]
    BY DEF CacheTypeOK, Release
  <2>2. stored' \subseteq Entries /\ computed' \in [Entries -> Nat]
    BY <1>1 DEF CacheTypeOK
  <2> QED
    BY <1>1, <2>1, <2>2, SettleFacts DEF CacheTypeOK
<1>3. \A d \in Calls : call'[d] \in Leading => d # c /\ call'[d] = call[d]
  BY <1>1, SettleFacts
<1>4. OneFlight'
  BY <1>3 DEF OneFlight, SameFlight
<1>5. Holding' \subseteq Holding \ {c} /\ Computing' \subseteq Computing \ {c}
  BY <1>3 DEF Holding, Computing, Leading
<1>6. \A d \in Holding' : EntryOf[d] \notin raced => EntryOf[d] # EntryOf[c]
  BY <1>5, OneHolder
<1>7. HoldersLive' /\ HoldersLock'
  <2>1. \A e \in Entries \ {EntryOf[c]} : lock'[e] = lock[e]
    BY DEF Release, CacheTypeOK
  <2>2. \A d \in Holding : EntryOf[d] \in Entries
    BY DEF Holding, CacheAssumption
  <2> QED
    BY <1>5, <1>6, <2>1, <2>2 DEF HoldersLive, HoldersLock
<1>8. ComputingIsFresh'
  <2>1. \A d \in Computing' : d \in Holding' /\ d \in Computing
    BY <1>5 DEF Computing, Holding
  <2> QED
    BY <1>6, <2>1 DEF ComputingIsFresh
<1>9. PutOnce'
  <2>1. CASE UNCHANGED <<stored, computed>>
    BY <2>1 DEF PutOnce
  <2>2. CASE c \in Computing /\ stored' = stored \cup {EntryOf[c]}
             /\ computed' = [computed EXCEPT ![EntryOf[c]] = @ + 1]
    <3>1. EntryOf[c] \notin raced => computed[EntryOf[c]] = 0
      BY <1>1, <2>2 DEF ComputingIsFresh, PutOnce
    <3>2. computed'[EntryOf[c]] = computed[EntryOf[c]] + 1
          /\ \A e \in Entries \ {EntryOf[c]} : computed'[e] = computed[e]
      BY <1>1, <2>2 DEF CacheTypeOK
    <3> QED
      BY <2>2, <3>1, <3>2 DEF PutOnce, CacheTypeOK
  <2> QED
    BY <2>1, <2>2
<1> QED
  BY <1>2, <1>4, <1>7, <1>8, <1>9

\* The second look starts a computation only for an entry that is not there.
LEMMA LookAgainStep ==
  ASSUME CacheAssumption, CacheInv, NEW c \in Calls, LookAgain(c)
  PROVE  CacheInv'
<1>1. c \in Holding
  BY DEF LookAgain, At, Holding
<1>2. CASE EntryOf[c] \in stored
  BY <1>1, <1>2, EndStep DEF LookAgain
<1>3. CASE EntryOf[c] \notin stored
  <2>1. /\ call' = [call EXCEPT ![c] = "computing"]
        /\ UNCHANGED <<lock, stored, computed, alive, raced>>
    BY <1>3 DEF LookAgain, Move
  <2>2. Holding' = Holding /\ Computing' = Computing \cup {c}
    BY <1>1, <2>1 DEF Holding, Computing, CacheInv, CacheTypeOK
  <2>3. \A d \in Calls : call'[d] \in Leading => call[d] \in Leading
    BY <1>1, <2>1 DEF Holding, Leading, CacheInv, CacheTypeOK
  <2>4. CacheTypeOK'
    BY <2>1 DEF CacheInv, CacheTypeOK, CallStates, Leading
  <2>5. OneFlight'
    BY <2>3 DEF CacheInv, OneFlight, SameFlight
  <2> QED
    BY <1>3, <2>1, <2>2, <2>4, <2>5 DEF CacheInv, HoldersLive, HoldersLock, ComputingIsFresh, PutOnce
<1> QED
  BY <1>2, <1>3

\* A process dies: its locks stay, and its last result may have been put.
LEMMA DieStep ==
  ASSUME CacheAssumption, CacheInv, NEW p \in Procs, Die(p)
  PROVE  CacheInv'
<1> USE DEF CacheInv
<1>1. call' = [c \in Calls |-> IF ProcOf[c] = p THEN "dead" ELSE call[c]]
      /\ alive' = alive \ {p} /\ UNCHANGED <<lock, raced>>
  BY DEF Die
<1>2. \A c \in Calls : call'[c] \in Leading => ProcOf[c] # p /\ call'[c] = call[c]
  BY <1>1 DEF Leading
<1>3. OneFlight'
  BY <1>2 DEF OneFlight, SameFlight
<1>4. Holding' \subseteq Holding /\ Computing' \subseteq Computing
      /\ \A c \in Holding' : ProcOf[c] # p
  BY <1>2 DEF Holding, Computing, Leading
<1>5. HoldersLive' /\ HoldersLock'
  BY <1>1, <1>4 DEF HoldersLive, HoldersLock
<1>6. call' \in [Calls -> CallStates] /\ alive' \subseteq Procs
  BY <1>1 DEF CacheTypeOK, CallStates
<1>7. CASE UNCHANGED <<stored, computed>>
  <2>1. ComputingIsFresh'
    BY <1>1, <1>4, <1>7 DEF ComputingIsFresh
  <2>2. CacheTypeOK' /\ PutOnce'
    BY <1>1, <1>6, <1>7 DEF CacheTypeOK, PutOnce
  <2> QED
    BY <1>3, <1>5, <2>1, <2>2
<1>8. CASE \E c \in Calls :
             /\ ProcOf[c] = p /\ call[c] = "computing"
             /\ stored' = stored \cup {EntryOf[c]}
             /\ computed' = [computed EXCEPT ![EntryOf[c]] = @ + 1]
  <2>1. PICK c \in Calls :
             /\ ProcOf[c] = p /\ call[c] = "computing"
             /\ stored' = stored \cup {EntryOf[c]}
             /\ computed' = [computed EXCEPT ![EntryOf[c]] = @ + 1]
    BY <1>8
  <2>2. c \in Holding /\ c \in Computing /\ EntryOf[c] \in Entries
    BY <2>1 DEF Holding, Computing, CacheAssumption
  <2>3. \A d \in Holding' : EntryOf[d] \notin raced => EntryOf[d] # EntryOf[c]
    BY <1>4, <2>1, <2>2, OneHolder
  <2>4. ComputingIsFresh'
    <3>1. \A d \in Computing' : d \in Holding' /\ d \in Computing
      BY <1>4 DEF Computing, Holding
    <3> QED
      BY <1>1, <2>1, <2>3, <3>1 DEF ComputingIsFresh
  <2>5. PutOnce' /\ CacheTypeOK'
    <3>1. EntryOf[c] \notin raced => computed[EntryOf[c]] = 0
      BY <2>2 DEF ComputingIsFresh, PutOnce
    <3>2. computed' \in [Entries -> Nat] /\ computed'[EntryOf[c]] = computed[EntryOf[c]] + 1
          /\ \A e \in Entries \ {EntryOf[c]} : computed'[e] = computed[e]
      BY <2>1, <2>2 DEF CacheTypeOK
    <3>3. PutOnce'
      BY <1>1, <2>1, <3>1, <3>2 DEF PutOnce, CacheTypeOK
    <3>4. stored' \subseteq Entries
      BY <2>1, <2>2 DEF CacheTypeOK
    <3> QED
      BY <1>1, <1>6, <3>2, <3>3, <3>4 DEF CacheTypeOK
  <2> QED
    BY <1>3, <1>5, <2>4, <2>5
<1> QED
  BY <1>7, <1>8 DEF Die

LEMMA CacheInvStep ==
  CacheAssumption /\ CacheInv /\ [AccelerationNext]_accelerationVars => CacheInv'
<1> SUFFICES ASSUME CacheAssumption, CacheInv, [AccelerationNext]_accelerationVars
             PROVE  CacheInv'
  OBVIOUS
<1>1. CASE UNCHANGED cacheVars
  BY <1>1 DEF cacheVars, CacheInv, CacheTypeOK, OneFlight, SameFlight, HoldersLive, HoldersLock, Holding,
     ComputingIsFresh, Computing, PutOnce
<1>2. CASE \E c : Ask(c)
  BY <1>2, AskStep
<1>3. CASE \E c \in Calls : Proceed(c)
  BY <1>3, AcquireStep, LookAgainStep DEF Proceed
<1>4. ASSUME NEW c \in Calls, Put(c) \/ ComputeFails(c)
      PROVE  CacheInv'
  <2>1. c \in Holding /\ c \in Computing
    BY <1>4 DEF Put, ComputeFails, At, Holding, Computing
  <2>2. CASE Put(c)
    BY <2>1, <2>2, EndStep DEF Put
  <2>3. CASE ComputeFails(c)
    BY <2>1, <2>3, EndStep DEF ComputeFails
  <2> QED
    BY <1>4, <2>2, <2>3
<1>5. CASE \E p \in Procs \ {Here} : Die(p)
  BY <1>5, DieStep
<1>6. CASE Store
  BY <1>2, <1>3, <1>4, <1>5, <1>6 DEF Store
<1>7. CASE Schedule \/ \E t \in Tasks : Start(t) \/ Settle(t) \/ Expire(t)
  BY <1>1, <1>2, <1>7 DEF Schedule, Start, Settle, Expire
<1> QED
  BY <1>1, <1>6, <1>7 DEF AccelerationNext, accelerationVars

\* The invariant holds in every state.
LEMMA CacheInvHolds == AccelerationSpec => []CacheInv
<1>1. AccelerationInit => CacheInv
  BY CacheAssumption, CacheInvInit
<1>2. CacheInv /\ [AccelerationNext]_accelerationVars => CacheInv'
  BY CacheAssumption, CacheInvStep
<1> QED
  BY <1>1, <1>2, PTL DEF AccelerationSpec

\* In every run the cache's state is well formed.
THEOREM CacheTypeCorrect == AccelerationSpec => []CacheTypeOK
<1>1. CacheInv => CacheTypeOK
  BY DEF CacheInv
<1> QED
  BY <1>1, CacheInvHolds, PTL

\* The computations of an entry that run or were put are one at most, for any
\* retries, timeouts and deaths, unless the entry's lock was removed under a
\* living owner.
THEOREM ComputesOnce == AccelerationSpec => []ComputedOnce
<1>1. CacheInv => ComputedOnce
  <2> SUFFICES ASSUME CacheInv, NEW e \in Entries \ raced
               PROVE  computed[e] + Cardinality({c \in Computing : EntryOf[c] = e}) <= 1
    BY DEF ComputedOnce
  <2> DEFINE C == {c \in Computing : EntryOf[c] = e}
  <2>1. computed[e] \in Nat /\ computed[e] <= 1 /\ (e \notin stored => computed[e] = 0)
    BY DEF CacheInv, CacheTypeOK, PutOnce
  <2>2. CASE C = {}
    BY <2>1, <2>2, FS_EmptySet
  <2>3. CASE C # {}
    <3>1. PICK c : c \in C
      BY <2>3
    <3>2. e \notin stored
      BY <3>1 DEF CacheInv, ComputingIsFresh
    <3>3. C = {c}
      BY <3>1, OneHolder DEF Computing, Holding
    <3> QED
      BY <2>1, <3>2, <3>3, FS_Singleton
  <2> QED
    BY <2>2, <2>3
<1> QED
  BY <1>1, CacheInvHolds, PTL
---------------------------------------------------------------------------
\* Acceleration is RunPool with a store beside it.
LEMMA PoolOfAcceleration ==
  ASSUME [AccelerationNext]_accelerationVars
  PROVE  [PoolNext]_poolVars
<1>1. CASE Schedule
  BY <1>1 DEF Schedule, PoolNext
<1>2. CASE \E t \in Tasks : Start(t) \/ Settle(t) \/ Expire(t)
  BY <1>2 DEF Start, Settle, Expire, PoolNext
<1>3. CASE Store
  BY <1>3 DEF Store
<1> QED
  BY <1>1, <1>2, <1>3 DEF AccelerationNext, accelerationVars

LEMMA PoolInvHolds == AccelerationSpec => []PoolInv
<1>1. AccelerationInit => PoolInv
  BY RunPoolAssumption, PoolInvInit DEF AccelerationInit
<1>2. PoolInv /\ [AccelerationNext]_accelerationVars => PoolInv'
  BY RunPoolAssumption, PoolInvStep, PoolOfAcceleration
<1> QED
  BY <1>1, <1>2, PTL DEF AccelerationSpec

\* A call that is under way is that of an attempt the pool waits for, or the
\* attempt timed out.
Underway == Leading \cup {"joined"}

CallsAwaited ==
  \A c \in Calls \ Others : call[c] \in Underway =>
    c \in late \/ (status[c[1]] = "running" /\ c = Current(c[1]))

\* No step of the store, nor the death of a process, begins a call.
LEMMA StoreBegins ==
  ASSUME CacheTypeOK, NEW c, c \in Calls,
         Proceed(c) \/ Put(c) \/ ComputeFails(c)
  PROVE  \A d \in Calls : call'[d] \in Underway => call[d] \in Underway
<1>1. CASE TakeLock(c) \/ Judge(c) \/ Purge(c)
  BY <1>1 DEF CacheTypeOK, Underway, Leading, TakeLock, Judge, Purge, Move, At
<1>2. ASSUME NEW s \in {"done", "failed"}, SettleFlight(c, s)
      PROVE  \A d \in Calls : call'[d] \in Underway => call[d] \in Underway
  BY <1>2 DEF CacheTypeOK, Underway, Leading, SettleFlight
<1>3. CASE GiveUp(c) \/ FailToOwn(c) \/ Put(c) \/ ComputeFails(c)
  BY <1>2, <1>3 DEF GiveUp, FailToOwn, Put, ComputeFails
<1>4. CASE LookAgain(c)
  <2>1. CASE EntryOf[c] \in stored
    BY <1>2, <1>4, <2>1 DEF LookAgain
  <2>2. CASE EntryOf[c] \notin stored
    BY <1>4, <2>2 DEF LookAgain, CacheTypeOK, Underway, Leading, Move, At
  <2> QED
    BY <2>1, <2>2
<1> QED
  BY <1>1, <1>3, <1>4 DEF Proceed

LEMMA AskBegins ==
  ASSUME CacheTypeOK, NEW c, Ask(c)
  PROVE  \A d \in Calls \ {c} : call'[d] = call[d]
  BY DEF CacheTypeOK, Ask, Move

LEMMA CallsAwaitedStep ==
  ASSUME RunPoolAssumption, AccelerationAssumption, PoolInv, CacheTypeOK, CallsAwaited,
         [AccelerationNext]_accelerationVars
  PROVE  CallsAwaited'
<1> SUFFICES ASSUME NEW c \in Calls \ Others, call'[c] \in Underway
             PROVE  c \in late' \/ (status'[c[1]] = "running" /\ c = <<c[1], attempt'[c[1]]>>)
  BY DEF CallsAwaited, Current
<1>1. c[1] \in Tasks
  BY DEF AccelerationAssumption
<1>2. ASSUME call[c] \in Underway, UNCHANGED poolVars
      PROVE  c \in late' \/ (status'[c[1]] = "running" /\ c = <<c[1], attempt'[c[1]]>>)
  BY <1>2 DEF CallsAwaited, Current, poolVars
<1>3. CASE Schedule
  <2>1. PICK B, A : PassOf(B, A)
    BY <1>3, PassIsPassOf DEF Schedule
  <2>2. late' = late /\ attempt' = [t \in Tasks |-> IF t \in A THEN 1 ELSE attempt[t]] /\ call' = call
    BY <1>3, <2>1 DEF Schedule, PassOf, Admit, cacheVars
  <2>3. CASE status[c[1]] = "running" /\ c = <<c[1], attempt[c[1]]>>
    <3>1. c[1] \notin A /\ c[1] \notin B /\ c[1] \notin deadlocked'
      <4>1. \A t \in A \cup B \cup deadlocked' : status[t] = "pending"
        BY <2>1, PassStatus
      <4> QED
        BY <2>3, <4>1
    <3>2. status'[c[1]] = "running"
      BY <1>1, <2>1, <2>3, <3>1, PassStatus
    <3> QED
      BY <1>1, <2>2, <2>3, <3>1, <3>2
  <2> QED
    BY <2>2, <2>3 DEF CallsAwaited, Current
<1>4. ASSUME NEW t \in Tasks, Start(t)
      PROVE  c \in late' \/ (status'[c[1]] = "running" /\ c = <<c[1], attempt'[c[1]]>>)
  <2>1. CASE c = Current(t)
    BY <1>4, <2>1 DEF Start, Awaited, Current, poolVars
  <2>2. CASE c # Current(t)
    BY <1>2, <1>4, <2>2, AskBegins DEF Start
  <2> QED
    BY <2>1, <2>2
<1>5. ASSUME NEW t \in Tasks, Settle(t)
      PROVE  c \in late' \/ (status'[c[1]] = "running" /\ c = <<c[1], attempt'[c[1]]>>)
  <2>1. call' = call /\ late' = late /\ c # Current(t)
    BY <1>5 DEF Settle, cacheVars, Succeed, AttemptFails, Underway, Leading
  <2>2. \A s \in Tasks \ {t} : status'[s] = status[s] /\ attempt'[s] = attempt[s]
    BY <1>5 DEF Settle, Succeed, AttemptFails, Outcome, PoolInv, PoolTypeOK
  <2> QED
    BY <1>1, <2>1, <2>2 DEF CallsAwaited, Current
<1>6. ASSUME NEW t \in Tasks, Expire(t)
      PROVE  c \in late' \/ (status'[c[1]] = "running" /\ c = <<c[1], attempt'[c[1]]>>)
  <2>1. call' = call /\ late' = late \cup {Current(t)}
    BY <1>6 DEF Expire, TimesOut, cacheVars, Current
  <2>2. \A s \in Tasks \ {t} : status'[s] = status[s] /\ attempt'[s] = attempt[s]
    BY <1>6 DEF Expire, TimesOut, Outcome, PoolInv, PoolTypeOK
  <2> QED
    BY <1>1, <2>1, <2>2 DEF CallsAwaited, Current
<1>7. CASE Store
  <2>1. UNCHANGED poolVars
    BY <1>7 DEF Store
  <2>2. call[c] \in Underway
    <3>1. CASE \E d \in Calls : Proceed(d) \/ Put(d) \/ ComputeFails(d)
      BY <3>1, StoreBegins
    <3>2. CASE \E d \in Others : Ask(d)
      BY <3>2, AskBegins
    <3>3. CASE \E p \in Procs \ {Here} : Die(p)
      BY <3>3 DEF Die, Underway, Leading
    <3> QED
      BY <1>7, <3>1, <3>2, <3>3 DEF Store
  <2> QED
    BY <1>2, <2>1, <2>2
<1>8. CASE UNCHANGED accelerationVars
  BY <1>2, <1>8 DEF accelerationVars, cacheVars
<1> QED
  BY <1>3, <1>4, <1>5, <1>6, <1>7, <1>8 DEF AccelerationNext

LEMMA CallsAwaitedHolds == AccelerationSpec => []CallsAwaited
<1>1. AccelerationInit => CallsAwaited
  BY DEF AccelerationInit, CacheInit, CallsAwaited, Underway, Leading
<1>2. PoolInv /\ CacheInv /\ CallsAwaited /\ [AccelerationNext]_accelerationVars => CallsAwaited'
  BY RunPoolAssumption, AccelerationAssumption, CallsAwaitedStep DEF CacheInv
<1> QED
  BY <1>1, <1>2, PoolInvHolds, CacheInvHolds, PTL DEF AccelerationSpec

\* In every run of the pool its state is well formed.
THEOREM PoolTypeCorrect == AccelerationSpec => []PoolTypeOK
<1>1. PoolInv => PoolTypeOK
  BY DEF PoolInv
<1> QED
  BY <1>1, PoolInvHolds, PTL

\* A task is blocked by a dependency that failed or was blocked; one that is
\* given up shows a failure, or a plan that planWaves refuses.
THEOREM BlockedForCause == AccelerationSpec => []BlockedHasCause
<1>1. PoolInv => BlockedHasCause
  BY DEF PoolInv
<1> QED
  BY <1>1, PoolInvHolds, PTL

\* Whatever runs in this process at the same time and names a common resource
\* belongs to an attempt that timed out.
THEOREM WorkStaysApart == AccelerationSpec => []WorkIsApart
<1>1. PoolInv /\ CallsAwaited => WorkIsApart
  <2> SUFFICES ASSUME PoolInv, CallsAwaited, NEW c \in Computing \ Others, NEW d \in Computing \ Others,
                      c # d, c \notin late, d \notin late
               PROVE  Task[c[1]].resources \cap Task[d[1]].resources = {}
    BY DEF WorkIsApart
  <2>1. /\ status[c[1]] = "running" /\ c = Current(c[1])
        /\ status[d[1]] = "running" /\ d = Current(d[1])
    BY DEF CallsAwaited, Computing, Underway, Leading
  <2>2. c[1] \in Tasks /\ d[1] \in Tasks
    BY AccelerationAssumption DEF AccelerationAssumption, Computing
  <2>3. c[1] # d[1]
    BY <2>1
  <2> QED
    BY <2>1, <2>2, <2>3 DEF PoolInv, RunningApart, Running
<1> QED
  BY <1>1, PoolInvHolds, CallsAwaitedHolds, PTL
---------------------------------------------------------------------------
(* The pool keeps to its budgets.                                          *)

\* The order of ranks.
Ranked(x) == x[1] \in Int /\ x[2] \in Int /\ x[3] \in Int /\ x[4] \in Int

Above(x, y) ==
  \/ x[1] > y[1]
  \/ x[1] = y[1] /\ x[2] > y[2]
  \/ x[1] = y[1] /\ x[2] = y[2] /\ x[3] > y[3]
  \/ x[1] = y[1] /\ x[2] = y[2] /\ x[3] = y[3] /\ x[4] > y[4]

LEMMA AboveOrder ==
  ASSUME NEW x, NEW y, NEW z, Ranked(x), Ranked(y), Ranked(z)
  PROVE  ~Above(x, x) /\ (Above(x, y) /\ Above(y, z) => Above(x, z))
<1>1. ~Above(x, x)
  BY DEF Ranked, Above
<1>2. /\ x[1] > y[1] /\ y[1] > z[1] => x[1] > z[1]
      /\ x[2] > y[2] /\ y[2] > z[2] => x[2] > z[2]
      /\ x[3] > y[3] /\ y[3] > z[3] => x[3] > z[3]
      /\ x[4] > y[4] /\ y[4] > z[4] => x[4] > z[4]
  BY DEF Ranked
<1>3. ASSUME Above(x, y), Above(y, z)
      PROVE  Above(x, z)
  BY <1>2, <1>3 DEF Above
<1> QED
  BY <1>1, <1>3

LEMMA AheadAbove ==
  \A a, b \in Tasks : <<a, b>> \in Ahead <=> Above(Rank[a], Rank[b])
<1>1. ASSUME NEW p, NEW q
      PROVE  (\E n \in 1 .. 4 : p[n] > q[n] /\ \A m \in 1 .. n - 1 : p[m] = q[m]) <=> Above(p, q)
  <2>1. \A n \in 1 .. 4 : n = 1 \/ n = 2 \/ n = 3 \/ n = 4
    OBVIOUS
  <2>2. /\ \A m \in 1 .. 1 - 1 : FALSE
        /\ \A m : m \in 1 .. 2 - 1 <=> m = 1
        /\ \A m : m \in 1 .. 3 - 1 <=> m = 1 \/ m = 2
        /\ \A m : m \in 1 .. 4 - 1 <=> m = 1 \/ m = 2 \/ m = 3
    OBVIOUS
  <2>3. 1 \in 1 .. 4 /\ 2 \in 1 .. 4 /\ 3 \in 1 .. 4 /\ 4 \in 1 .. 4
    OBVIOUS
  <2> QED
    BY <2>1, <2>2, <2>3 DEF Above
<1> TAKE a, b \in Tasks
<1>2. <<a, b>> \in Ahead <=>
        \E n \in 1 .. 4 : Rank[a][n] > Rank[b][n] /\ \A m \in 1 .. n - 1 : Rank[a][m] = Rank[b][m]
  BY DEF Ahead
<1>3. PICK p, q : p = Rank[a] /\ q = Rank[b]
  OBVIOUS
<1> QED
  BY <1>1, <1>2, <1>3

LEMMA RanksRanked ==
  ASSUME RunPoolAssumption, NEW u \in Tasks
  PROVE  Ranked(Rank[u])
<1>1. CriticalPath[u] \in Nat
  BY CriticalPathType
<1>2. Position[u] \in Nat
  BY DEF RunPoolAssumption, Position
<1>3. Task[u] \in NormalTask /\ MaxParallel \in Nat
  BY DEF RunPoolAssumption
<1>4. Task[u].priority \in Int /\ Task[u].weight \in Int
  BY <1>3 DEF NormalTask
<1>5. Rank[u] = <<CriticalPath[u], Task[u].priority, Task[u].weight, -Position[u]>>
  BY DEF Rank
<1> QED
  BY <1>1, <1>2, <1>4, <1>5 DEF Ranked

\* No task is ahead of itself, and of three tasks the first is ahead of the last.
LEMMA AheadOrder ==
  ASSUME RunPoolAssumption
  PROVE  /\ \A a \in Tasks : <<a, a>> \notin Ahead
         /\ \A a, b, c \in Tasks : <<a, b>> \in Ahead /\ <<b, c>> \in Ahead => <<a, c>> \in Ahead
<1>1. ASSUME NEW a \in Tasks
      PROVE  <<a, a>> \notin Ahead
  BY RanksRanked, AheadAbove, AboveOrder
<1>2. ASSUME NEW a \in Tasks, NEW b \in Tasks, NEW c \in Tasks, <<a, b>> \in Ahead, <<b, c>> \in Ahead
      PROVE  <<a, c>> \in Ahead
  <2>1. Ranked(Rank[a]) /\ Ranked(Rank[b]) /\ Ranked(Rank[c])
    BY RanksRanked
  <2>2. Above(Rank[a], Rank[b]) /\ Above(Rank[b], Rank[c])
    BY <1>2, AheadAbove
  <2>3. Above(Rank[a], Rank[c])
    BY <2>1, <2>2, AboveOrder
  <2> QED
    BY <2>3, AheadAbove
<1> QED
  BY <1>1, <1>2

\* Of some tasks, all others are ahead of one.
LEMMA LastTask ==
  ASSUME RunPoolAssumption, NEW U \in SUBSET Tasks, U # {}
  PROVE  \E t \in U : \A x \in U : x = t \/ <<x, t>> \in Ahead
<1> DEFINE After(u) == {x \in U : <<u, x>> \in Ahead}
           F == {After(u) : u \in U}
<1>1. IsFiniteSet(U)
  BY FS_Subset DEF RunPoolAssumption
<1>2. \A u \in U : After(u) \in F
  <2> HIDE DEF After
  <2> QED
    OBVIOUS
<1>22. F \subseteq SUBSET U /\ F # {}
  <2>1. \A u \in U : After(u) \subseteq U
    OBVIOUS
  <2>2. F \subseteq SUBSET U
    <3> HIDE DEF After
    <3> QED
      BY <2>1
  <2> HIDE DEF F
  <2> QED
    BY <1>2, <2>2
<1>3. PICK X \in F : \A Y \in F : Y \subseteq X => Y = X
  <2> HIDE DEF F
  <2> QED
    BY <1>1, <1>22, LeastSet
<1>4. PICK t \in U : X = After(t)
  OBVIOUS
<1>5. ASSUME NEW y \in U, <<t, y>> \in Ahead
      PROVE  FALSE
  <2>1. After(y) \subseteq After(t)
    BY <1>5, AheadOrder
  <2>2. After(y) = After(t)
    <3> HIDE DEF F, After
    <3> QED
      BY <1>2, <1>3, <1>4, <2>1
  <2>3. y \in After(y)
    BY <1>5, <2>2
  <2> QED
    BY <2>3, AheadOrder
<1> QED
  BY <1>5, AheadTotal

\* What Weight counts.
Units(S) == {p \in S \X (1 .. MaxParallel) : p[2] <= Task[p[1]].weight}

LEMMA UnitsFacts ==
  ASSUME RunPoolAssumption, NEW S \in SUBSET Tasks
  PROVE  IsFiniteSet(Units(S)) /\ Weight(S) = Cardinality(Units(S)) /\ Weight(S) \in Nat
<1>1. IsFiniteSet(S)
  BY FS_Subset DEF RunPoolAssumption
<1>2. IsFiniteSet(1 .. MaxParallel)
  BY FS_Interval DEF RunPoolAssumption
<1>3. IsFiniteSet(S \X (1 .. MaxParallel))
  BY <1>1, <1>2, FS_Product
<1>4. IsFiniteSet(Units(S))
  BY <1>3, FS_Subset DEF Units
<1> QED
  BY <1>4, FS_CardinalityType DEF Weight, Units

LEMMA TaskUnits ==
  ASSUME RunPoolAssumption, NEW t \in Tasks
  PROVE  Cardinality(Units({t})) <= Task[t].weight
<1>1. Task[t].weight \in 1 .. MaxParallel /\ MaxParallel \in Nat
  BY TaskFields
<1>2. PICK w \in Nat : w = Task[t].weight /\ w <= MaxParallel
  BY <1>1
<1>3. PICK f : f = [n \in 1 .. w |-> <<t, n>>]
  OBVIOUS
<1>4. f \in Surjection(1 .. w, Units({t}))
  <2>1. \A n \in 1 .. w : f[n] \in Units({t})
    BY <1>2, <1>3 DEF Units
  <2>2. ASSUME NEW p \in Units({t})
        PROVE  \E n \in 1 .. w : f[n] = p
    <3>1. p = <<t, p[2]>> /\ p[2] \in 1 .. w
      BY <1>2 DEF Units
    <3> QED
      BY <1>3, <3>1
  <2> QED
    BY <1>3, <2>1, <2>2 DEF Surjection
<1> QED
  BY <1>2, <1>4, FS_SurjCardinalityBound DEF ExistsSurjection

LEMMA WeightIsNat ==
  ASSUME RunPoolAssumption, NEW t \in Tasks
  PROVE  Task[t].weight \in Nat
<1>1. Task[t].weight \in 1 .. MaxParallel /\ MaxParallel \in Nat
  BY TaskFields
<1> QED
  BY <1>1

\* Tasks weigh no more than others and one besides, if these are all of them.
LEMMA WeightGrows ==
  ASSUME RunPoolAssumption, NEW S \in SUBSET Tasks, NEW T \in SUBSET Tasks, NEW t \in Tasks,
         S \subseteq T \cup {t}
  PROVE  Weight(S) <= Weight(T) + Task[t].weight
<1>1. /\ IsFiniteSet(Units(S)) /\ Weight(S) = Cardinality(Units(S)) /\ Weight(S) \in Nat
      /\ IsFiniteSet(Units(T)) /\ Weight(T) = Cardinality(Units(T)) /\ Weight(T) \in Nat
      /\ IsFiniteSet(Units({t}))
  BY UnitsFacts
<1>2. Units(S) \subseteq Units(T) \cup Units({t})
  BY DEF Units
<1>3. PICK U, V : U = Units(T) /\ V = Units({t})
  OBVIOUS
<1>4. /\ IsFiniteSet(U \cup V)
      /\ Cardinality(U \cup V) = Cardinality(U) + Cardinality(V) - Cardinality(U \cap V)
  BY <1>1, <1>3, FS_Union
<1>5. Cardinality(U) \in Nat /\ Cardinality(V) \in Nat /\ Cardinality(U \cap V) \in Nat
  <2>1. IsFiniteSet(U) /\ IsFiniteSet(V) /\ IsFiniteSet(U \cap V)
    BY <1>1, <1>3, FS_Intersection
  <2> QED
    BY <2>1, FS_CardinalityType
<1>6. Cardinality(Units(S)) <= Cardinality(U \cup V)
  BY <1>2, <1>3, <1>4, FS_Subset
<1>7. Cardinality(V) <= Task[t].weight /\ Task[t].weight \in Nat
  BY <1>3, TaskUnits, WeightIsNat
<1>8. Cardinality(U \cup V) \in Nat
  BY <1>4, FS_CardinalityType
<1> QED
  BY <1>1, <1>3, <1>4, <1>5, <1>6, <1>7, <1>8

LEMMA WeightMonotone ==
  ASSUME RunPoolAssumption, NEW T \in SUBSET Tasks, NEW S \in SUBSET T
  PROVE  Weight(S) <= Weight(T)
<1>1. /\ IsFiniteSet(Units(S)) /\ Weight(S) = Cardinality(Units(S))
      /\ IsFiniteSet(Units(T)) /\ Weight(T) = Cardinality(Units(T))
  BY UnitsFacts
<1>2. Units(S) \subseteq Units(T)
  BY DEF Units
<1> QED
  BY <1>1, <1>2, FS_Subset

\* What runs does not weigh more than the pool, or than the budget of its class.
OfClass(S, c) == {t \in S : Task[t].executor_class = c}

BudgetsKept ==
  /\ Weight(Running(status)) <= MaxParallel
  /\ \A c \in Classes : Weight(OfClass(Running(status), c)) <= classBudgets[c]

\* Tasks admitted one after the other, each against all that run or were
\* admitted ahead of it, stay within a limit that those that ran keep.
LEMMA AdmittedWithinLimit ==
  ASSUME RunPoolAssumption, NEW R \in SUBSET Tasks, NEW A \in SUBSET Tasks, NEW limit \in Nat,
         Weight(R) <= limit,
         \A t \in A : \E T \in SUBSET Tasks :
           /\ R \cup {a \in A : <<a, t>> \in Ahead} \subseteq T
           /\ Weight(T) + Task[t].weight <= limit
  PROVE  Weight(R \cup A) <= limit
<1>1. CASE A = {}
  <2>1. R \cup A = R
    BY <1>1
  <2> QED
    BY <2>1
<1>2. CASE A # {}
  <2>1. PICK t \in A : \A x \in A : x = t \/ <<x, t>> \in Ahead
    BY <1>2, LastTask
  <2>2. PICK T \in SUBSET Tasks :
           /\ R \cup {a \in A : <<a, t>> \in Ahead} \subseteq T
           /\ Weight(T) + Task[t].weight <= limit
    OBVIOUS
  <2>3. R \cup A \in SUBSET Tasks /\ R \cup A \subseteq T \cup {t} /\ t \in Tasks
    BY <2>1, <2>2
  <2>4. Weight(R \cup A) <= Weight(T) + Task[t].weight
    BY <2>3, WeightGrows
  <2>5. Weight(R \cup A) \in Nat /\ Weight(T) \in Nat /\ Task[t].weight \in Nat
    BY <2>3, UnitsFacts, WeightIsNat
  <2> QED
    BY <2>2, <2>4, <2>5
<1> QED
  BY <1>1, <1>2

\* The tasks that run after a pass.
LEMMA PassRunning ==
  ASSUME RunPoolAssumption, PoolInv, NEW B, NEW A, PassOf(B, A)
  PROVE  /\ Running(status)' = Running(status) \cup A /\ A \subseteq Tasks
         /\ Running(Halted(B)) = Running(status)
         /\ classBudgets' = classBudgets
         /\ \A t \in A : Fits(t, Running(status) \cup {a \in A : <<a, t>> \in Ahead})
<1>1. /\ \A t \in A : status[t] = "pending" /\ t \in Tasks \ B /\ status'[t] = "running"
      /\ \A t \in B : t \in Tasks /\ status[t] = "pending" /\ status'[t] = "blocked"
      /\ \A t \in deadlocked' : status[t] = "pending" /\ status'[t] = "blocked"
      /\ \A t \in Tasks \ (A \cup B \cup deadlocked') : status'[t] = status[t]
  BY PassStatus
<1>2. Running(Halted(B)) = Running(status)
  BY <1>1 DEF Halted, Running
<1>3. \A t \in Tasks : status'[t] = "running" <=> t \in A \/ status[t] = "running"
  <2> TAKE t \in Tasks
  <2>1. CASE t \in A
    BY <1>1, <2>1
  <2>2. CASE t \in B \/ t \in deadlocked'
    BY <1>1, <2>2
  <2>3. CASE t \notin A /\ t \notin B /\ t \notin deadlocked'
    BY <1>1, <2>3
  <2> QED
    BY <2>1, <2>2, <2>3
<1>4. Running(status)' = Running(status) \cup A
  BY <1>1, <1>3 DEF Running
<1>5. \A t \in A : Fits(t, Running(status) \cup {a \in A : <<a, t>> \in Ahead})
  BY <1>2 DEF PassOf, Picks
<1> QED
  BY <1>1, <1>2, <1>4, <1>5 DEF PassOf

LEMMA PassKeepsBudgets ==
  ASSUME RunPoolAssumption, PoolInv, BudgetsKept, NEW B, NEW A, PassOf(B, A)
  PROVE  BudgetsKept'
<1>1. PICK R \in SUBSET Tasks : R = Running(status)
  BY DEF Running
<1>2. /\ Running(status)' = R \cup A /\ A \in SUBSET Tasks /\ classBudgets' = classBudgets
      /\ \A t \in A : Fits(t, R \cup {a \in A : <<a, t>> \in Ahead})
  BY <1>1, PassRunning
<1>3. Weight(R) <= MaxParallel /\ \A c \in Classes : Weight(OfClass(R, c)) <= classBudgets[c]
  BY <1>1 DEF BudgetsKept
<1>4. MaxParallel \in Nat /\ \A c \in Classes : classBudgets[c] \in Nat
  BY DEF RunPoolAssumption, PoolInv, PoolTypeOK
<1>5. Weight(R \cup A) <= MaxParallel
  <2>1. ASSUME NEW t \in A
        PROVE  \E T \in SUBSET Tasks : /\ R \cup {a \in A : <<a, t>> \in Ahead} \subseteq T
                                       /\ Weight(T) + Task[t].weight <= MaxParallel
    <3>1. PICK T \in SUBSET Tasks : T = R \cup {a \in A : <<a, t>> \in Ahead}
      BY <1>2
    <3>2. Weight(T) + Task[t].weight <= MaxParallel
      BY <1>2, <3>1 DEF Fits
    <3> QED
      BY <3>1, <3>2
  <2> QED
    BY <1>2, <1>3, <1>4, <2>1, AdmittedWithinLimit
<1>6. ASSUME NEW c \in Classes
      PROVE  Weight(OfClass(R \cup A, c)) <= classBudgets[c]
  <2>1. PICK C, D : C = OfClass(R, c) /\ D = OfClass(A, c)
    OBVIOUS
  <2>2. C \in SUBSET Tasks /\ D \in SUBSET Tasks /\ OfClass(R \cup A, c) = C \cup D
    BY <1>2, <2>1 DEF OfClass
  <2>3. ASSUME NEW t \in D
        PROVE  \E T \in SUBSET Tasks : /\ C \cup {a \in D : <<a, t>> \in Ahead} \subseteq T
                                       /\ Weight(T) + Task[t].weight <= classBudgets[c]
    <3>1. t \in A /\ Task[t].executor_class = c
      BY <2>1 DEF OfClass
    <3>2. PICK S \in SUBSET Tasks : S = R \cup {a \in A : <<a, t>> \in Ahead}
      BY <1>2
    <3>3. PICK T \in SUBSET Tasks : T = {s \in S : Task[s].executor_class = c}
      OBVIOUS
    <3>4. Weight(T) + Task[t].weight <= classBudgets[c]
      <4>1. Fits(t, S)
        BY <1>2, <3>1, <3>2
      <4>2. {s \in S : Task[s].executor_class = Task[t].executor_class} = T
        BY <3>1, <3>3
      <4>3. Weight({s \in S : Task[s].executor_class = Task[t].executor_class}) + Task[t].weight
              <= classBudgets[Task[t].executor_class]
        BY <4>1 DEF Fits
      <4> QED
        BY <3>1, <4>2, <4>3
    <3>5. C \cup {a \in D : <<a, t>> \in Ahead} \subseteq T
      BY <2>1, <3>2, <3>3 DEF OfClass
    <3> QED
      BY <3>4, <3>5
  <2>4. Weight(C) <= classBudgets[c] /\ classBudgets[c] \in Nat
    BY <1>3, <1>4, <2>1
  <2>5. Weight(C \cup D) <= classBudgets[c]
    BY <2>2, <2>3, <2>4, AdmittedWithinLimit
  <2> QED
    BY <2>2, <2>5
<1> QED
  BY <1>2, <1>5, <1>6 DEF BudgetsKept

\* With fewer tasks the budgets are kept too.
LEMMA FewerKeepBudgets ==
  ASSUME RunPoolAssumption, PoolInv, BudgetsKept, classBudgets' = classBudgets,
         Running(status)' \subseteq Running(status)
  PROVE  BudgetsKept'
<1>1. PICK R \in SUBSET Tasks : R = Running(status)
  BY DEF Running
<1>2. PICK S \in SUBSET R : S = Running(status)'
  BY <1>1
<1>3. MaxParallel \in Nat /\ \A c \in Classes : classBudgets[c] \in Nat
  BY DEF RunPoolAssumption, PoolInv, PoolTypeOK
<1>4. Weight(R) <= MaxParallel /\ \A c \in Classes : Weight(OfClass(R, c)) <= classBudgets[c]
  BY <1>1 DEF BudgetsKept
<1>5. Weight(S) <= MaxParallel
  <2>1. Weight(S) <= Weight(R) /\ Weight(S) \in Nat /\ Weight(R) \in Nat
    BY WeightMonotone, UnitsFacts
  <2> QED
    BY <1>3, <1>4, <2>1
<1>6. ASSUME NEW c \in Classes
      PROVE  Weight(OfClass(S, c)) <= classBudgets[c]
  <2>1. PICK C \in SUBSET Tasks : C = OfClass(R, c)
    BY DEF OfClass
  <2>2. PICK D \in SUBSET C : D = OfClass(S, c)
    BY <2>1 DEF OfClass
  <2>3. Weight(D) <= Weight(C) /\ Weight(C) \in Nat /\ Weight(D) \in Nat
    BY WeightMonotone, UnitsFacts
  <2> QED
    BY <1>3, <1>4, <2>1, <2>2, <2>3
<1> QED
  BY <1>2, <1>5, <1>6 DEF BudgetsKept

LEMMA BudgetsKeptStep ==
  RunPoolAssumption /\ PoolInv /\ BudgetsKept /\ [PoolNext]_poolVars => BudgetsKept'
<1> SUFFICES ASSUME RunPoolAssumption, PoolInv, BudgetsKept, [PoolNext]_poolVars
             PROVE  BudgetsKept'
  OBVIOUS
<1>1. CASE Pass
  BY <1>1, PassIsPassOf, PassKeepsBudgets
<1>2. ASSUME NEW t \in Tasks, Succeed(t) \/ AttemptFails(t) \/ TimesOut(t)
      PROVE  BudgetsKept'
  <2>1. classBudgets' = classBudgets
    BY <1>2 DEF Succeed, AttemptFails, TimesOut, Outcome
  <2>2. status' = status \/ \E s \in {"success", "failed"} : status' = [status EXCEPT ![t] = s]
    BY <1>2 DEF Succeed, AttemptFails, TimesOut, Outcome
  <2>3. Running(status)' \subseteq Running(status)
    BY <2>2 DEF Running, PoolInv, PoolTypeOK
  <2> QED
    BY <2>1, <2>3, FewerKeepBudgets
<1>3. CASE UNCHANGED poolVars
  <2>1. classBudgets' = classBudgets /\ Running(status)' \subseteq Running(status)
    BY <1>3 DEF poolVars, Running
  <2> QED
    BY <2>1, FewerKeepBudgets
<1> QED
  BY <1>1, <1>2, <1>3 DEF PoolNext

\* In every run of the pool the tasks that run together weigh no more than
\* MaxParallel, and those of a class no more than its budget: runPool admits
\* each against all that run and all that it admits ahead of it.
THEOREM PoolKeepsBudgets == AccelerationSpec => []BudgetsKept
<1>1. AccelerationInit => BudgetsKept
  <2> SUFFICES ASSUME AccelerationInit
               PROVE  BudgetsKept
    OBVIOUS
  <2>1. Running(status) = {} /\ classBudgets \in [Classes -> 0 .. MaxParallel]
    BY RunPoolAssumption DEF AccelerationInit, PoolInit, Running, RunPoolAssumption
  <2>2. Weight({}) = 0
    <3>1. Units({}) = {}
      BY DEF Units
    <3> QED
      BY <3>1, FS_EmptySet DEF Weight, Units
  <2>3. \A c : OfClass(Running(status), c) = {}
    BY <2>1 DEF OfClass
  <2>4. \A c \in Classes : 0 <= classBudgets[c]
    BY <2>1, RunPoolAssumption DEF RunPoolAssumption
  <2>5. 0 <= MaxParallel
    BY RunPoolAssumption DEF RunPoolAssumption
  <2>6. \A c \in Classes : Weight(OfClass(Running(status), c)) <= classBudgets[c]
    <3> TAKE c \in Classes
    <3>1. OfClass(Running(status), c) = {}
      BY <2>3
    <3>2. Weight(OfClass(Running(status), c)) = 0
      BY <2>2, <3>1
    <3> QED
      BY <2>4, <3>2
  <2>7. Weight(Running(status)) <= MaxParallel
    BY <2>1, <2>2, <2>5
  <2> QED
    BY <2>6, <2>7 DEF BudgetsKept
<1>2. PoolInv /\ BudgetsKept /\ [AccelerationNext]_accelerationVars => BudgetsKept'
  BY RunPoolAssumption, BudgetsKeptStep, PoolOfAcceleration
<1> QED
  BY <1>1, <1>2, PoolInvHolds, PTL DEF AccelerationSpec

=============================================================================
