------------------------- MODULE ExecutePlanProofs -------------------------
(***************************************************************************)
(* Theorems about ExecutorPool, for every set of jobs, scopes, resources,  *)
(* capacities and budgets, and about ExecutePlan, which drives it, for     *)
(* every plan over every set of tasks, every policy, every cache and any   *)
(* number of crashes and resumptions.  The pool's theorems, up to          *)
(* PoolRefillsFreeSlots, are about its own specification Spec; what its    *)
(* steps do to jobs is also what the plan's theorems rest on.              *)
(***************************************************************************)
EXTENDS ExecutePlan, FiniteSetTheorems, TLAPS

---------------------------------------------------------------------------
(* Finite sets and numbers.                                                *)

\* Of some subsets of a finite set, one contains no other of them.
LEMMA LeastSet ==
  ASSUME NEW S, IsFiniteSet(S), NEW F, F \subseteq SUBSET S, F # {}
  PROVE  \E X \in F : \A Y \in F : Y \subseteq X => Y = X
  <1>1. F \subseteq FiniteSubsetsOf(S)
    BY FS_FiniteSubsetsOfFinite
  <1>2. PICK X \in F : \A Y \in F : ~(<<Y, X>> \in StrictSubsetOrdering(S))
    BY <1>1, FS_StrictSubsetOrderingWellFounded, WFMin
  <1>3. QED
    BY <1>2 DEF StrictSubsetOrdering

\* Finitely many finite sets have a finite union.
LEMMA FiniteUnion ==
  ASSUME NEW S, IsFiniteSet(S), NEW f, \A x \in S : IsFiniteSet(f[x])
  PROVE  IsFiniteSet(UNION {f[x] : x \in S})
  <1> DEFINE F == {X \in SUBSET S : IsFiniteSet(UNION {f[x] : x \in S \ X})}
  <1>1. PICK X \in F : \A Y \in F : Y \subseteq X => Y = X
    <2>1. F \subseteq SUBSET S
      OBVIOUS
    <2>2. S \in F
      <3>1. UNION {f[x] : x \in S \ S} = {}
        OBVIOUS
      <3>2. QED
        BY <3>1, FS_EmptySet
    <2> HIDE DEF F
    <2>3. QED
      BY <2>1, <2>2, LeastSet
  <1>2. X = {}
    <2> SUFFICES ASSUME NEW y \in X PROVE FALSE
      OBVIOUS
    <2>1. UNION {f[x] : x \in S \ (X \ {y})} = (UNION {f[x] : x \in S \ X}) \cup f[y]
      OBVIOUS
    <2>2. IsFiniteSet(UNION {f[x] : x \in S \ X}) /\ IsFiniteSet(f[y])
      OBVIOUS
    <2>3. IsFiniteSet(UNION {f[x] : x \in S \ (X \ {y})})
      <3> DEFINE U == UNION {f[x] : x \in S \ X}
      <3>1. IsFiniteSet(U \cup f[y])
        <4> HIDE DEF U
        <4>1. IsFiniteSet(U) /\ IsFiniteSet(f[y])
          BY <2>2 DEF U
        <4>2. QED
          BY <4>1, FS_Union
      <3>2. QED
        BY <2>1, <3>1
    <2>4. X \ {y} \in F
      BY <2>3
    <2> HIDE DEF F
    <2>5. QED
      BY <1>1, <2>4
  <1>3. UNION {f[x] : x \in S} = UNION {f[x] : x \in S \ X}
    BY <1>2
  <1>4. QED
    BY <1>3

\* Some numbers have a least one.
LEMMA LeastNumber ==
  ASSUME NEW N \in Nat, NEW T \in SUBSET (0 .. N), T # {}
  PROVE  \E n \in T : \A m \in T : n <= m
<1> DEFINE F == {0 .. n : n \in T}
<1>0. PICK S : S = 0 .. N
  OBVIOUS
<1>1. F \subseteq SUBSET S /\ F # {}
  <2>1. PICK n \in T : TRUE
    OBVIOUS
  <2>2. 0 .. n \in F
    OBVIOUS
  <2>3. \A k \in T : 0 .. k \subseteq S
    BY <1>0
  <2> QED
    BY <2>2, <2>3
<1>2. IsFiniteSet(S)
  BY <1>0, FS_Interval
<1> HIDE DEF F
<1>3. PICK X \in F : \A Y \in F : Y \subseteq X => Y = X
  BY <1>1, <1>2, LeastSet
<1>4. PICK n \in T : X = 0 .. n
  BY DEF F
<1>5. ASSUME NEW m \in T, m < n
      PROVE  FALSE
  <2>1. 0 .. m \in F
    BY DEF F
  <2>2. 0 .. m \subseteq X /\ n \in X /\ n \notin 0 .. m
    BY <1>4, <1>5
  <2> QED
    BY <1>3, <2>1, <2>2
<1> QED
  BY <1>5

\* A set that holds 0 and the successor of each of its members up to N holds
\* all numbers up to N.
LEMMA Induction ==
  ASSUME NEW N \in Nat, NEW S, 0 \in S, \A n \in 0 .. N : n < N /\ n \in S => n + 1 \in S
  PROVE  0 .. N \subseteq S
<1> DEFINE T == (0 .. N) \ S
<1> SUFFICES ASSUME T # {}
             PROVE  FALSE
  OBVIOUS
<1>1. PICK n \in T : \A m \in T : n <= m
  <2>1. T \in SUBSET (0 .. N)
    OBVIOUS
  <2> HIDE DEF T
  <2> QED
    BY <2>1, LeastNumber
<1>2. n - 1 \in 0 .. N /\ n - 1 \notin T /\ n - 1 < N
  BY <1>1
<1>3. (n - 1) + 1 \in S
  BY <1>2
<1> QED
  BY <1>3

---------------------------------------------------------------------------
(* What _refreshReadiness does to a status map.                            *)

\* The pass touches waiting jobs only, readies a job only on succeeded
\* dependencies in an open scope, and blocks or cancels only with cause.
LEMMA RefreshFacts ==
  ASSUME NEW st \in [Jobs -> Statuses],
         NEW new \in RefreshReadiness(st),
         \A j \in Jobs : st[j] # "ABSENT" => job[j] \in Description
  PROVE  /\ new \in [Jobs -> Statuses]
         /\ \A j \in Jobs : st[j] \notin Waiting => new[j] = st[j]
         /\ \A j \in Jobs : st[j] \in Waiting => new[j] \in Waiting \cup {"BLOCKED", "CANCELLED"}
         /\ \A j \in Jobs : new[j] = "READY" =>
              /\ job[j].scope \notin cancelledScopes
              /\ \A d \in job[j].dependencies : new[d] = "SUCCEEDED"
         /\ \A j \in Jobs : st[j] \in Waiting /\ new[j] = "BLOCKED" =>
              \E d \in job[j].dependencies : new[d] \in Halted
         /\ \A j \in Jobs : st[j] \in Waiting /\ new[j] = "CANCELLED" =>
              job[j].scope \in cancelledScopes
  <1>1. PICK B \in SUBSET In(st, Waiting) : FindsHalted(st, B) /\ new = Refreshed(st, B)
    BY DEF RefreshReadiness
  <1>2. \A j \in Jobs :
          new[j] = IF st[j] \notin Waiting THEN st[j]
                   ELSE IF job[j].scope \in cancelledScopes THEN "CANCELLED"
                   ELSE IF j \in B THEN "BLOCKED"
                   ELSE IF \A d \in job[j].dependencies : st[d] = "SUCCEEDED" THEN "READY"
                   ELSE "PENDING"
    BY <1>1 DEF Refreshed
  <1>3. new \in [Jobs -> Statuses]
    BY <1>1 DEF Refreshed, Statuses, Waiting, Terminal
  <1>4. \A j \in Jobs : st[j] # "ABSENT" => job[j].dependencies \subseteq Jobs
    BY DEF Description
  <1>5. \A j \in Jobs : st[j] \notin Waiting => new[j] = st[j]
    BY <1>2
  <1>6. ASSUME NEW j \in Jobs, st[j] \in Waiting, new[j] = "BLOCKED"
        PROVE  \E d \in job[j].dependencies : new[d] \in Halted
    <2>1. j \in B
      BY <1>2, <1>6 DEF Waiting
    <2>2. PICK d \in job[j].dependencies :
            (IF Before(d, j) THEN Refreshed(st, B)[d] ELSE st[d]) \in Halted
      BY <1>1, <2>1, <1>6 DEF FindsHalted, In
    <2>3. d \in Jobs
      BY <1>4, <1>6 DEF Waiting
    <2>4. st[d] \in Halted => new[d] \in Halted
      BY <1>2, <2>3 DEF Halted, Waiting
    <2>5. QED
      BY <1>1, <2>2, <2>4
  <1>7. ASSUME NEW j \in Jobs, new[j] = "READY", st[j] \notin Waiting
        PROVE  FALSE
    BY <1>5, <1>7 DEF Waiting
  <1>8. ASSUME NEW j \in Jobs, new[j] = "READY"
        PROVE  /\ job[j].scope \notin cancelledScopes
               /\ \A d \in job[j].dependencies : new[d] = "SUCCEEDED"
    <2>1. st[j] \in Waiting
      BY <1>7, <1>8
    <2>2. /\ job[j].scope \notin cancelledScopes
          /\ \A d \in job[j].dependencies : st[d] = "SUCCEEDED"
      BY <1>2, <1>8, <2>1
    <2>3. job[j].dependencies \subseteq Jobs
      BY <1>4, <2>1 DEF Waiting
    <2>4. QED
      BY <1>5, <2>2, <2>3 DEF Waiting
  <1>9. \A j \in Jobs : st[j] \in Waiting => new[j] \in Waiting \cup {"BLOCKED", "CANCELLED"}
    BY <1>2 DEF Waiting
  <1>10. \A j \in Jobs : st[j] \in Waiting /\ new[j] = "CANCELLED" =>
           job[j].scope \in cancelledScopes
    BY <1>2
  <1>11. QED
    BY <1>3, <1>5, <1>6, <1>8, <1>9, <1>10

---------------------------------------------------------------------------
(* Type correctness.                                                       *)

\* Init establishes the type invariant.
LEMMA InitTypeOK == Init => TypeOK
  BY PoolAssumption DEF Init, TypeOK, Statuses

\* Every method preserves the type invariant.
LEMMA StepTypeOK == TypeOK /\ [Next]_vars => TypeOK'
  <1> SUFFICES ASSUME TypeOK, [Next]_vars PROVE TypeOK'
    OBVIOUS
  <1>1. ASSUME NEW j \in Jobs, NEW d \in Offered[j], Submit(j, d) PROVE TypeOK'
    <2>1. d \in Description
      BY PoolAssumption
    <2>2. Cardinality(Submitted) + 1 \in Nat
      <3>1. IsFiniteSet(Submitted)
        BY PoolAssumption, FS_Subset DEF Submitted
      <3>2. QED
        BY <3>1, FS_CardinalityType
    <2>3. QED
      BY <1>1, <2>1, <2>2 DEF Submit, TypeOK, Statuses, Waiting
  <1>2. ASSUME NEW c \in Classes, NEW v \in BudgetChoices[c], SetBudget(c, v) PROVE TypeOK'
    <2>1. v \in Nat
      BY PoolAssumption
    <2>2. QED
      BY <1>2, <2>1 DEF SetBudget, TypeOK
  <1>3. CASE Schedule
    <2>0. PICK st \in RefreshReadiness(status) : \E A \in SUBSET In(st, {"READY"}) :
            status' = [j \in Jobs |-> IF j \in A THEN "RUNNING" ELSE st[j]]
      BY <1>3 DEF Schedule
    <2>1. PICK A \in SUBSET In(st, {"READY"}) :
            status' = [j \in Jobs |-> IF j \in A THEN "RUNNING" ELSE st[j]]
      BY <2>0
    <2>2. /\ st \in [Jobs -> Statuses]
          /\ \A j \in Jobs : st[j] # "ABSENT" => status[j] # "ABSENT"
      BY RefreshFacts DEF TypeOK, Waiting
    <2>3. \A j \in A : st[j] = "READY"
      BY DEF In
    <2>4. status' \in [Jobs -> Statuses]
      BY <2>1, <2>2 DEF Statuses
    <2>5. \A j \in Jobs : status'[j] # "ABSENT" => status[j] # "ABSENT"
      BY <2>1, <2>2, <2>3
    <2>6. QED
      BY <1>3, <2>4, <2>5 DEF Schedule, TypeOK
  <1>4. ASSUME NEW j \in Jobs, NEW s \in {"SUCCEEDED", "FAILED", "STALE"}, Finish(j, s)
        PROVE  TypeOK'
    <2> DEFINE st == [status EXCEPT ![j] = s]
    <2>1. st \in [Jobs -> Statuses]
      BY DEF TypeOK, Statuses, Terminal
    <2>2. \A k \in Jobs : st[k] # "ABSENT" => status[k] # "ABSENT"
      BY <1>4 DEF Finish, TypeOK
    <2>3. status' \in RefreshReadiness(st)
      BY <1>4 DEF Finish
    <2> HIDE DEF st
    <2>4. /\ status' \in [Jobs -> Statuses]
          /\ \A k \in Jobs : status'[k] # "ABSENT" => st[k] # "ABSENT"
      BY <2>1, <2>2, <2>3, RefreshFacts DEF TypeOK, Waiting
    <2>5. QED
      BY <1>4, <2>2, <2>4 DEF Finish, TypeOK
  <1>5. ASSUME NEW s \in Scopes, CancelScope(s) PROVE TypeOK'
    BY <1>5 DEF CancelScope, TypeOK, Statuses, Terminal, Waiting
  <1>6. CASE Snapshot
    <2>1. /\ status' \in [Jobs -> Statuses]
          /\ \A j \in Jobs : status'[j] # "ABSENT" => status[j] # "ABSENT"
      BY <1>6, RefreshFacts DEF Snapshot, TypeOK, Waiting
    <2>2. QED
      BY <1>6, <2>1 DEF Snapshot, TypeOK
  <1>7. CASE UNCHANGED vars
    BY <1>7 DEF vars, TypeOK
  <1>8. QED
    BY <1>1, <1>2, <1>3, <1>4, <1>5, <1>6, <1>7 DEF Next

\* The pool's variables always have their types, and a job that is in the
\* map always has its description.
THEOREM PoolTypeCorrect == Spec => []TypeOK
  BY InitTypeOK, StepTypeOK, PTL DEF Spec
---------------------------------------------------------------------------
(* What one call may do to a job.                                          *)

\* schedule() refreshes and then starts some of the READY jobs.
LEMMA ScheduleFacts ==
  ASSUME TypeOK, Schedule
  PROVE  \E st \in RefreshReadiness(status) : \E A \in SUBSET Jobs :
           /\ A = {j \in Jobs : status'[j] = "RUNNING" /\ status[j] # "RUNNING"}
           /\ \A j \in A : st[j] = "READY"
           /\ \A j \in Jobs \ A : status'[j] = st[j]
           /\ Admits(st, A)
  <1>1. PICK st \in RefreshReadiness(status) : \E A \in SUBSET In(st, {"READY"}) :
          /\ Admits(st, A)
          /\ status' = [j \in Jobs |-> IF j \in A THEN "RUNNING" ELSE st[j]]
    BY DEF Schedule
  <1>2. PICK A \in SUBSET In(st, {"READY"}) :
          /\ Admits(st, A)
          /\ status' = [j \in Jobs |-> IF j \in A THEN "RUNNING" ELSE st[j]]
    BY <1>1
  <1>3. A \subseteq Jobs /\ \A j \in A : st[j] = "READY"
    BY DEF In
  <1>4. /\ \A j \in Jobs : status[j] \notin Waiting => st[j] = status[j]
        /\ \A j \in Jobs : status[j] \in Waiting => st[j] \in Waiting \cup {"BLOCKED", "CANCELLED"}
    BY RefreshFacts DEF TypeOK
  <1>5. A = {j \in Jobs : status'[j] = "RUNNING" /\ status[j] # "RUNNING"}
    BY <1>2, <1>3, <1>4 DEF Waiting
  <1>6. QED
    BY <1>2, <1>3, <1>5

\* complete(), fail() and stale() end one running job and then refresh.
LEMMA FinishFacts ==
  ASSUME TypeOK, NEW j \in Jobs, NEW s \in {"SUCCEEDED", "FAILED", "STALE"}, Finish(j, s)
  PROVE  \E st \in [Jobs -> Statuses] :
           /\ st = [status EXCEPT ![j] = s]
           /\ status' \in RefreshReadiness(st)
           /\ \A k \in Jobs : st[k] # "ABSENT" => job[k] \in Description
  <1> DEFINE st == [status EXCEPT ![j] = s]
  <1>1. st \in [Jobs -> Statuses]
    BY DEF TypeOK, Statuses, Terminal
  <1>2. status' \in RefreshReadiness(st)
    BY DEF Finish
  <1>3. \A k \in Jobs : st[k] # "ABSENT" => status[k] # "ABSENT"
    BY DEF Finish, TypeOK
  <1> HIDE DEF st
  <1>4. \A k \in Jobs : st[k] # "ABSENT" => job[k] \in Description
    BY <1>3 DEF TypeOK
  <1>5. st = [status EXCEPT ![j] = s]
    BY DEF st
  <1>6. QED
    BY <1>1, <1>2, <1>4, <1>5

\* A terminal status is never left, a submitted job never changes its
\* description or its place, and a cancelled scope stays cancelled.
LEMMA StepKeeps ==
  ASSUME TypeOK, [Next]_vars
  PROVE  /\ \A j \in Jobs : status[j] \in Terminal => status'[j] = status[j]
         /\ \A j \in Jobs : status[j] # "ABSENT" =>
              job'[j] = job[j] /\ submitted_seq'[j] = submitted_seq[j]
         /\ cancelledScopes \subseteq cancelledScopes'
  <1> DEFINE Keeps ==
         /\ \A k \in Jobs : status[k] \in Terminal => status'[k] = status[k]
         /\ \A k \in Jobs : status[k] # "ABSENT" =>
              job'[k] = job[k] /\ submitted_seq'[k] = submitted_seq[k]
         /\ cancelledScopes \subseteq cancelledScopes'
  <1> SUFFICES Keeps
    OBVIOUS
  <1>1. ASSUME NEW j \in Jobs, NEW d \in Offered[j], Submit(j, d) PROVE Keeps
    BY <1>1 DEF Submit, TypeOK, Terminal
  <1>2. ASSUME NEW c \in Classes, NEW v \in BudgetChoices[c], SetBudget(c, v) PROVE Keeps
    BY <1>2 DEF SetBudget
  <1>3. CASE Schedule
    <2>1. PICK st \in RefreshReadiness(status) : \E A \in SUBSET Jobs :
            /\ \A j \in A : st[j] = "READY"
            /\ \A j \in Jobs \ A : status'[j] = st[j]
      BY <1>3, ScheduleFacts
    <2>2. \A j \in Jobs : status[j] \notin Waiting => st[j] = status[j]
      BY RefreshFacts DEF TypeOK
    <2>3. \A j \in Jobs : status[j] \in Terminal => status'[j] = status[j]
      BY <2>1, <2>2 DEF Terminal, Waiting
    <2>4. QED
      BY <1>3, <2>3 DEF Schedule
  <1>4. ASSUME NEW j \in Jobs, NEW s \in {"SUCCEEDED", "FAILED", "STALE"}, Finish(j, s)
        PROVE  Keeps
    <2>1. PICK st \in [Jobs -> Statuses] :
            /\ st = [status EXCEPT ![j] = s]
            /\ status' \in RefreshReadiness(st)
            /\ \A k \in Jobs : st[k] # "ABSENT" => job[k] \in Description
      BY <1>4, FinishFacts
    <2>2. \A k \in Jobs : st[k] \notin Waiting => status'[k] = st[k]
      BY <2>1, RefreshFacts
    <2>3. status[j] = "RUNNING"
      BY <1>4 DEF Finish
    <2>4. \A k \in Jobs : status[k] \in Terminal => st[k] = status[k] /\ st[k] \notin Waiting
      BY <2>1, <2>3 DEF Terminal, Waiting, TypeOK
    <2>5. QED
      BY <1>4, <2>2, <2>4 DEF Finish
  <1>5. ASSUME NEW s \in Scopes, CancelScope(s) PROVE Keeps
    BY <1>5 DEF CancelScope, Terminal, Waiting
  <1>6. CASE Snapshot
    <2>1. \A k \in Jobs : status[k] \notin Waiting => status'[k] = status[k]
      BY <1>6, RefreshFacts DEF Snapshot, TypeOK
    <2>2. QED
      BY <1>6, <2>1 DEF Snapshot, Terminal, Waiting
  <1>7. CASE UNCHANGED vars
    BY <1>7 DEF vars
  <1> HIDE DEF Keeps
  <1>8. QED
    BY <1>1, <1>2, <1>3, <1>4, <1>5, <1>6, <1>7 DEF Next

---------------------------------------------------------------------------
(* Dependencies.                                                           *)

Proceeding == {"READY", "RUNNING", "SUCCEEDED", "FAILED", "STALE"}

\* A job enters the statuses of DependenciesFirst only where the pass found
\* all of its dependencies succeeded.
LEMMA StepReadies ==
  ASSUME TypeOK, [Next]_vars, NEW j \in Jobs, status'[j] \in Proceeding
  PROVE  \/ status[j] \in Proceeding
         \/ \A d \in job'[j].dependencies : status'[d] = "SUCCEEDED"
  <1> USE DEF Proceeding
  <1>1. ASSUME NEW k \in Jobs, NEW d \in Offered[k], Submit(k, d)
        PROVE  status[j] \in Proceeding
    BY <1>1 DEF Submit, TypeOK
  <1>2. ASSUME NEW c \in Classes, NEW v \in BudgetChoices[c], SetBudget(c, v)
        PROVE  status[j] \in Proceeding
    BY <1>2 DEF SetBudget
  <1>3. CASE Schedule
    <2>1. PICK st \in RefreshReadiness(status) : \E A \in SUBSET Jobs :
            /\ \A k \in A : st[k] = "READY"
            /\ \A k \in Jobs \ A : status'[k] = st[k]
      BY <1>3, ScheduleFacts
    <2>2. PICK A \in SUBSET Jobs :
            /\ \A k \in A : st[k] = "READY"
            /\ \A k \in Jobs \ A : status'[k] = st[k]
      BY <2>1
    <2>3. /\ \A k \in Jobs : status[k] \notin Waiting => st[k] = status[k]
          /\ \A k \in Jobs : status[k] \in Waiting => st[k] \in Waiting \cup {"BLOCKED", "CANCELLED"}
          /\ \A k \in Jobs : st[k] = "READY" =>
               \A d \in job[k].dependencies : st[d] = "SUCCEEDED"
      BY RefreshFacts DEF TypeOK
    <2>4. st[j] = "READY" \/ status[j] \in Proceeding
      BY <2>2, <2>3 DEF Waiting
    <2>5. CASE st[j] = "READY"
      <3>1. status[j] \in Waiting
        BY <2>3, <2>5 DEF Waiting
      <3>2. job[j].dependencies \subseteq Jobs
        BY <3>1 DEF TypeOK, Description, Waiting
      <3>3. QED
        BY <1>3, <2>2, <2>3, <2>5, <3>2 DEF Schedule
    <2>6. QED
      BY <2>4, <2>5
  <1>4. ASSUME NEW k \in Jobs, NEW s \in {"SUCCEEDED", "FAILED", "STALE"}, Finish(k, s)
        PROVE  \/ status[j] \in Proceeding
               \/ \A d \in job'[j].dependencies : status'[d] = "SUCCEEDED"
    <2>1. PICK st \in [Jobs -> Statuses] :
            /\ st = [status EXCEPT ![k] = s]
            /\ status' \in RefreshReadiness(st)
            /\ \A i \in Jobs : st[i] # "ABSENT" => job[i] \in Description
      BY <1>4, FinishFacts
    <2>2. /\ \A i \in Jobs : st[i] \notin Waiting => status'[i] = st[i]
          /\ \A i \in Jobs : status'[i] = "READY" =>
               \A d \in job[i].dependencies : status'[d] = "SUCCEEDED"
          /\ \A i \in Jobs : st[i] \in Waiting => status'[i] \in Waiting \cup {"BLOCKED", "CANCELLED"}
      BY <2>1, RefreshFacts
    <2>3. status[k] = "RUNNING" /\ job' = job
      BY <1>4 DEF Finish
    <2>4. CASE status'[j] = "READY"
      BY <2>2, <2>3, <2>4
    <2>5. CASE status'[j] # "READY"
      BY <2>1, <2>2, <2>3, <2>5 DEF Waiting, TypeOK
    <2>6. QED
      BY <2>4, <2>5
  <1>5. ASSUME NEW s \in Scopes, CancelScope(s)
        PROVE  status[j] \in Proceeding
    BY <1>5 DEF CancelScope
  <1>6. CASE Snapshot
    <2>1. /\ \A k \in Jobs : status[k] \notin Waiting => status'[k] = status[k]
          /\ \A k \in Jobs : status[k] \in Waiting => status'[k] \in Waiting \cup {"BLOCKED", "CANCELLED"}
          /\ \A k \in Jobs : status'[k] = "READY" =>
               \A d \in job[k].dependencies : status'[d] = "SUCCEEDED"
      BY <1>6, RefreshFacts DEF Snapshot, TypeOK
    <2>2. QED
      BY <1>6, <2>1 DEF Snapshot, Waiting
  <1>7. CASE UNCHANGED vars
    BY <1>7 DEF vars
  <1>8. QED
    BY <1>1, <1>2, <1>3, <1>4, <1>5, <1>6, <1>7 DEF Next

\* No job proceeds before its dependencies succeeded, for every job graph.
THEOREM PoolDependenciesFirst == Spec => []DependenciesFirst
  <1>1. Init => DependenciesFirst
    BY DEF Init, DependenciesFirst
  <1>2. TypeOK /\ DependenciesFirst /\ [Next]_vars => DependenciesFirst'
    <2> SUFFICES ASSUME TypeOK, DependenciesFirst, [Next]_vars,
                        NEW j \in Jobs, status'[j] \in Proceeding,
                        NEW d \in job'[j].dependencies
                 PROVE  status'[d] = "SUCCEEDED"
      BY DEF DependenciesFirst, Proceeding
    <2>1. CASE status[j] \in Proceeding
      <3>1. job'[j] = job[j]
        BY <2>1, StepKeeps DEF Proceeding
      <3>2. d \in Jobs
        BY <2>1, <3>1 DEF TypeOK, Description, Proceeding
      <3>3. status[d] = "SUCCEEDED"
        BY <2>1, <3>1 DEF DependenciesFirst, Proceeding
      <3>4. QED
        BY <3>2, <3>3, StepKeeps DEF Terminal
    <2>2. CASE status[j] \notin Proceeding
      BY <2>2, StepReadies
    <2>3. QED
      BY <2>1, <2>2
  <1>3. QED
    BY <1>1, <1>2, PoolTypeCorrect, PTL DEF Spec
---------------------------------------------------------------------------
(* Causes of a halt.                                                       *)

\* A job that a step blocks or cancels has its cause in the new state.
LEMMA StepHalts ==
  ASSUME TypeOK, [Next]_vars, NEW j \in Jobs,
         status[j] \notin {"BLOCKED", "CANCELLED"}
  PROVE  /\ status'[j] = "BLOCKED" => \E d \in job'[j].dependencies : status'[d] \in Halted
         /\ status'[j] = "CANCELLED" => job'[j].scope \in cancelledScopes'
  <1> DEFINE Caused ==
         /\ status'[j] = "BLOCKED" => \E d \in job'[j].dependencies : status'[d] \in Halted
         /\ status'[j] = "CANCELLED" => job'[j].scope \in cancelledScopes'
  <1> SUFFICES Caused
    OBVIOUS
  <1>1. ASSUME NEW k \in Jobs, NEW d \in Offered[k], Submit(k, d) PROVE Caused
    BY <1>1 DEF Submit, TypeOK
  <1>2. ASSUME NEW c \in Classes, NEW v \in BudgetChoices[c], SetBudget(c, v) PROVE Caused
    BY <1>2 DEF SetBudget
  <1>3. CASE Schedule
    <2>1. PICK st \in RefreshReadiness(status) : \E A \in SUBSET Jobs :
            /\ A = {i \in Jobs : status'[i] = "RUNNING" /\ status[i] # "RUNNING"}
            /\ \A k \in A : st[k] = "READY"
            /\ \A k \in Jobs \ A : status'[k] = st[k]
      BY <1>3, ScheduleFacts
    <2>2. PICK A \in SUBSET Jobs :
            /\ A = {i \in Jobs : status'[i] = "RUNNING" /\ status[i] # "RUNNING"}
            /\ \A k \in A : st[k] = "READY"
            /\ \A k \in Jobs \ A : status'[k] = st[k]
      BY <2>1
    <2>3. /\ \A k \in Jobs : status[k] \notin Waiting => st[k] = status[k]
          /\ \A k \in Jobs : status[k] \in Waiting /\ st[k] = "BLOCKED" =>
               \E d \in job[k].dependencies : st[d] \in Halted
          /\ \A k \in Jobs : status[k] \in Waiting /\ st[k] = "CANCELLED" =>
               job[k].scope \in cancelledScopes
      BY RefreshFacts DEF TypeOK
    <2>4. job' = job /\ cancelledScopes' = cancelledScopes
      BY <1>3 DEF Schedule
    <2>5. ASSUME status'[j] = "BLOCKED"
          PROVE  \E d \in job'[j].dependencies : status'[d] \in Halted
      <3>1. st[j] = "BLOCKED" /\ status[j] \in Waiting
        BY <2>2, <2>3, <2>5
      <3>2. PICK d \in job[j].dependencies : st[d] \in Halted
        BY <2>3, <3>1
      <3>3. d \in Jobs
        BY <3>1, <3>2 DEF TypeOK, Description, Waiting
      <3>4. status'[d] = st[d]
        BY <2>2, <3>2, <3>3 DEF Halted
      <3>5. QED
        BY <2>4, <3>2, <3>4
    <2>6. status'[j] = "CANCELLED" => job'[j].scope \in cancelledScopes'
      BY <2>2, <2>3, <2>4
    <2>7. QED
      BY <2>5, <2>6
  <1>4. ASSUME NEW k \in Jobs, NEW s \in {"SUCCEEDED", "FAILED", "STALE"}, Finish(k, s)
        PROVE  Caused
    <2>1. PICK st \in [Jobs -> Statuses] :
            /\ st = [status EXCEPT ![k] = s]
            /\ status' \in RefreshReadiness(st)
            /\ \A i \in Jobs : st[i] # "ABSENT" => job[i] \in Description
      BY <1>4, FinishFacts
    <2>2. /\ \A i \in Jobs : st[i] \notin Waiting => status'[i] = st[i]
          /\ \A i \in Jobs : st[i] \in Waiting /\ status'[i] = "BLOCKED" =>
               \E d \in job[i].dependencies : status'[d] \in Halted
          /\ \A i \in Jobs : st[i] \in Waiting /\ status'[i] = "CANCELLED" =>
               job[i].scope \in cancelledScopes
      BY <2>1, RefreshFacts
    <2>3. st[j] \notin {"BLOCKED", "CANCELLED"}
      BY <2>1 DEF TypeOK
    <2>4. QED
      BY <1>4, <2>2, <2>3 DEF Finish
  <1>5. ASSUME NEW s \in Scopes, CancelScope(s) PROVE Caused
    BY <1>5 DEF CancelScope
  <1>6. CASE Snapshot
    <2>1. /\ \A i \in Jobs : status[i] \notin Waiting => status'[i] = status[i]
          /\ \A i \in Jobs : status[i] \in Waiting /\ status'[i] = "BLOCKED" =>
               \E d \in job[i].dependencies : status'[d] \in Halted
          /\ \A i \in Jobs : status[i] \in Waiting /\ status'[i] = "CANCELLED" =>
               job[i].scope \in cancelledScopes
      BY <1>6, RefreshFacts DEF Snapshot, TypeOK
    <2>2. QED
      BY <1>6, <2>1 DEF Snapshot
  <1>7. CASE UNCHANGED vars
    BY <1>7 DEF vars
  <1> HIDE DEF Caused
  <1>8. QED
    BY <1>1, <1>2, <1>3, <1>4, <1>5, <1>6, <1>7 DEF Next

\* Blocked and cancelled jobs always have their cause, for every job graph.
THEOREM PoolHaltHasCause == Spec => []HaltHasCause
  <1>1. Init => HaltHasCause
    BY DEF Init, HaltHasCause
  <1>2. TypeOK /\ HaltHasCause /\ [Next]_vars => HaltHasCause'
    <2> SUFFICES ASSUME TypeOK, HaltHasCause, [Next]_vars, NEW j \in Jobs
                 PROVE  /\ status'[j] = "BLOCKED" =>
                             \E d \in job'[j].dependencies : status'[d] \in Halted
                        /\ status'[j] = "CANCELLED" => job'[j].scope \in cancelledScopes'
      BY DEF HaltHasCause
    <2>1. CASE status[j] \notin {"BLOCKED", "CANCELLED"}
      BY <2>1, StepHalts
    <2>2. CASE status[j] \in {"BLOCKED", "CANCELLED"}
      <3>1. status'[j] = status[j] /\ job'[j] = job[j]
        BY <2>2, StepKeeps DEF Terminal
      <3>2. job[j].dependencies \subseteq Jobs
        BY <2>2 DEF TypeOK, Description
      <3>3. \A d \in Jobs : status[d] \in Halted => status'[d] \in Halted
        BY StepKeeps DEF Halted, Terminal
      <3>4. QED
        BY <3>1, <3>2, <3>3, StepKeeps DEF HaltHasCause
    <2>3. QED
      BY <2>1, <2>2
  <1>3. QED
    BY <1>1, <1>2, PoolTypeCorrect, PTL DEF Spec

---------------------------------------------------------------------------
(* Cancelled scopes.                                                       *)

\* Only schedule() starts a job, and only one of a scope still open.
LEMMA StepStarts ==
  ASSUME TypeOK, [Next]_vars, NEW j \in Jobs,
         status[j] # "RUNNING", status'[j] = "RUNNING"
  PROVE  Schedule /\ job[j].scope \notin cancelledScopes
  <1>1. ASSUME NEW k \in Jobs, NEW d \in Offered[k], Submit(k, d) PROVE FALSE
    BY <1>1 DEF Submit, TypeOK
  <1>2. ASSUME NEW c \in Classes, NEW v \in BudgetChoices[c], SetBudget(c, v) PROVE FALSE
    BY <1>2 DEF SetBudget
  <1>3. CASE Schedule
    <2>1. PICK st \in RefreshReadiness(status) : \E A \in SUBSET Jobs :
            /\ A = {i \in Jobs : status'[i] = "RUNNING" /\ status[i] # "RUNNING"}
            /\ \A k \in A : st[k] = "READY"
      BY <1>3, ScheduleFacts
    <2>2. st[j] = "READY"
      BY <2>1
    <2>3. QED
      BY <1>3, <2>2, RefreshFacts DEF TypeOK
  <1>4. ASSUME NEW k \in Jobs, NEW s \in {"SUCCEEDED", "FAILED", "STALE"}, Finish(k, s)
        PROVE  FALSE
    <2>1. PICK st \in [Jobs -> Statuses] :
            /\ st = [status EXCEPT ![k] = s]
            /\ status' \in RefreshReadiness(st)
            /\ \A i \in Jobs : st[i] # "ABSENT" => job[i] \in Description
      BY <1>4, FinishFacts
    <2>2. /\ \A i \in Jobs : st[i] \notin Waiting => status'[i] = st[i]
          /\ \A i \in Jobs : st[i] \in Waiting => status'[i] \in Waiting \cup {"BLOCKED", "CANCELLED"}
      BY <2>1, RefreshFacts
    <2>3. st[j] # "RUNNING"
      BY <2>1 DEF TypeOK
    <2>4. QED
      BY <2>2, <2>3 DEF Waiting
  <1>5. ASSUME NEW s \in Scopes, CancelScope(s) PROVE FALSE
    BY <1>5 DEF CancelScope
  <1>6. CASE Snapshot
    <2>1. /\ \A i \in Jobs : status[i] \notin Waiting => status'[i] = status[i]
          /\ \A i \in Jobs : status[i] \in Waiting => status'[i] \in Waiting \cup {"BLOCKED", "CANCELLED"}
      BY <1>6, RefreshFacts DEF Snapshot, TypeOK
    <2>2. QED
      BY <2>1 DEF Waiting
  <1>7. CASE UNCHANGED vars
    BY <1>7 DEF vars
  <1>8. QED
    BY <1>1, <1>2, <1>3, <1>4, <1>5, <1>6, <1>7 DEF Next

\* A cancelled scope starts nothing, for every order of submissions,
\* cancellations and schedules.
THEOREM PoolClosedScopes == Spec => ClosedScopeStartsNothing
  <1>1. TypeOK /\ [Next]_vars =>
          [\A j \in Jobs : status[j] # "RUNNING" /\ status'[j] = "RUNNING" =>
             job[j].scope \notin cancelledScopes]_vars
    BY StepStarts
  <1>2. QED
    BY <1>1, PoolTypeCorrect, PTL DEF Spec, ClosedScopeStartsNothing
---------------------------------------------------------------------------
(* Exclusive resources.                                                    *)

\* submitted_seq numbers the submitted jobs without repetition, so that the
\* order of schedule() is total.  This is what ExclusiveAlone needs beside
\* the types to be inductive.
SubmissionOrder ==
  /\ \A j \in Submitted : submitted_seq[j] <= Cardinality(Submitted)
  /\ \A j, k \in Submitted : submitted_seq[j] = submitted_seq[k] => j = k

\* Only submit() adds to the map of jobs; nothing removes from it.
LEMMA StepSubmits ==
  ASSUME TypeOK, [Next]_vars
  PROVE  \/ \E j \in Jobs : \E d \in Offered[j] : Submit(j, d)
         \/ Submitted' = Submitted /\ UNCHANGED <<job, submitted_seq>>
  <1>1. ASSUME NEW c \in Classes, NEW v \in BudgetChoices[c], SetBudget(c, v)
        PROVE  Submitted' = Submitted /\ UNCHANGED <<job, submitted_seq>>
    BY <1>1 DEF SetBudget, Submitted
  <1>2. ASSUME Schedule
        PROVE  Submitted' = Submitted /\ UNCHANGED <<job, submitted_seq>>
    <2>1. PICK st \in RefreshReadiness(status) : \E A \in SUBSET Jobs :
            /\ A = {i \in Jobs : status'[i] = "RUNNING" /\ status[i] # "RUNNING"}
            /\ \A k \in A : st[k] = "READY"
            /\ \A k \in Jobs \ A : status'[k] = st[k]
      BY <1>2, ScheduleFacts
    <2>2. /\ \A i \in Jobs : status[i] \notin Waiting => st[i] = status[i]
          /\ \A i \in Jobs : status[i] \in Waiting => st[i] \in Waiting \cup {"BLOCKED", "CANCELLED"}
      BY RefreshFacts DEF TypeOK
    <2>3. \A i \in Jobs : status'[i] = "ABSENT" <=> status[i] = "ABSENT"
      BY <2>1, <2>2 DEF Waiting
    <2>4. QED
      BY <1>2, <2>3 DEF Schedule, Submitted
  <1>3. ASSUME NEW k \in Jobs, NEW s \in {"SUCCEEDED", "FAILED", "STALE"}, Finish(k, s)
        PROVE  Submitted' = Submitted /\ UNCHANGED <<job, submitted_seq>>
    <2>1. PICK st \in [Jobs -> Statuses] :
            /\ st = [status EXCEPT ![k] = s]
            /\ status' \in RefreshReadiness(st)
            /\ \A i \in Jobs : st[i] # "ABSENT" => job[i] \in Description
      BY <1>3, FinishFacts
    <2>2. /\ \A i \in Jobs : st[i] \notin Waiting => status'[i] = st[i]
          /\ \A i \in Jobs : st[i] \in Waiting => status'[i] \in Waiting \cup {"BLOCKED", "CANCELLED"}
      BY <2>1, RefreshFacts
    <2>3. \A i \in Jobs : st[i] = "ABSENT" <=> status[i] = "ABSENT"
      BY <1>3, <2>1 DEF Finish, TypeOK
    <2>4. \A i \in Jobs : status'[i] = "ABSENT" <=> status[i] = "ABSENT"
      BY <2>2, <2>3 DEF Waiting
    <2>5. QED
      BY <1>3, <2>4 DEF Finish, Submitted
  <1>4. ASSUME NEW s \in Scopes, CancelScope(s)
        PROVE  Submitted' = Submitted /\ UNCHANGED <<job, submitted_seq>>
    BY <1>4 DEF CancelScope, Submitted, Waiting
  <1>5. ASSUME Snapshot
        PROVE  Submitted' = Submitted /\ UNCHANGED <<job, submitted_seq>>
    <2>1. /\ \A i \in Jobs : status[i] \notin Waiting => status'[i] = status[i]
          /\ \A i \in Jobs : status[i] \in Waiting => status'[i] \in Waiting \cup {"BLOCKED", "CANCELLED"}
      BY <1>5, RefreshFacts DEF Snapshot, TypeOK
    <2>2. \A i \in Jobs : status'[i] = "ABSENT" <=> status[i] = "ABSENT"
      BY <2>1 DEF Waiting
    <2>3. QED
      BY <1>5, <2>2 DEF Snapshot, Submitted
  <1>6. ASSUME UNCHANGED vars
        PROVE  Submitted' = Submitted /\ UNCHANGED <<job, submitted_seq>>
    BY <1>6 DEF vars, Submitted
  <1>7. QED
    BY <1>1, <1>2, <1>3, <1>4, <1>5, <1>6 DEF Next

\* Submission order is preserved: a new job is numbered after all others.
LEMMA StepSubmissionOrder == TypeOK /\ SubmissionOrder /\ [Next]_vars => SubmissionOrder'
  <1> SUFFICES ASSUME TypeOK, SubmissionOrder, [Next]_vars PROVE SubmissionOrder'
    OBVIOUS
  <1>1. ASSUME NEW j \in Jobs, NEW d \in Offered[j], Submit(j, d) PROVE SubmissionOrder'
    <2> DEFINE n == Cardinality(Submitted)
    <2>1. IsFiniteSet(Submitted) /\ n \in Nat
      <3>1. IsFiniteSet(Submitted)
        BY PoolAssumption, FS_Subset DEF Submitted
      <3>2. QED
        BY <3>1, FS_CardinalityType
    <2>2. Submitted' = Submitted \cup {j} /\ j \notin Submitted
      BY <1>1 DEF Submit, Submitted, TypeOK
    <2>3. Cardinality(Submitted') = n + 1
      BY <2>1, <2>2, FS_AddElement
    <2>4. /\ submitted_seq'[j] = n + 1
          /\ \A k \in Submitted : submitted_seq'[k] = submitted_seq[k]
      BY <1>1, <2>2 DEF Submit, TypeOK, Submitted
    <2>5. \A k \in Submitted : submitted_seq[k] <= n /\ submitted_seq[k] \in Nat
      BY DEF SubmissionOrder, TypeOK, Submitted
    <2>6. \A i, k \in Submitted : submitted_seq[i] = submitted_seq[k] => i = k
      BY DEF SubmissionOrder
    <2> HIDE DEF n
    <2>7. \A k \in Submitted' : submitted_seq'[k] <= n + 1
      BY <2>1, <2>2, <2>4, <2>5
    <2>8. \A i, k \in Submitted' : submitted_seq'[i] = submitted_seq'[k] => i = k
      BY <2>1, <2>2, <2>4, <2>5, <2>6
    <2>9. QED
      BY <2>3, <2>7, <2>8 DEF SubmissionOrder
  <1>2. CASE Submitted' = Submitted /\ UNCHANGED <<job, submitted_seq>>
    BY <1>2 DEF SubmissionOrder
  <1>3. QED
    BY <1>1, <1>2, StepSubmits

\* What _resourcesAvailable refuses: a job that shares a resource with a
\* holder fits only if both share it.
LEMMA AvailableIsShared ==
  ASSUME NEW j \in Jobs, NEW k \in Jobs, NEW S, k \in S,
         job[k] \in Description, ResourcesAvailable(j, S),
         NEW q \in RequestsOf(j), NEW p \in RequestsOf(k), q.id = p.id
  PROVE  q.mode # "exclusive" /\ p.mode # "exclusive"
  <1>1. ~HeldExclusive(q.id, S)
    BY DEF ResourcesAvailable
  <1>2. p.mode # "exclusive"
    BY <1>1 DEF HeldExclusive
  <1>3. PICK i \in DOMAIN job[k].resources : p = job[k].resources[i]
    BY DEF RequestsOf
  <1>4. p \in Request
    <2>1. job[k].resources \in Seq(Request)
      BY DEF Description
    <2>2. QED
      BY <1>3, <2>1
  <1>5. p.mode = "shared"
    BY <1>2, <1>4 DEF Request
  <1>6. SharedRequests(q.id, S) # {}
    <2> DEFINE Asked(x) == {n \in DOMAIN job[x].resources :
                              /\ job[x].resources[n].id = q.id
                              /\ job[x].resources[n].mode = "shared"}
    <2>1. i \in Asked(k)
      BY <1>3, <1>5
    <2>2. SharedRequests(q.id, S) = UNION {{<<x, n>> : n \in Asked(x)} : x \in S}
      BY DEF SharedRequests
    <2> HIDE DEF Asked
    <2>3. <<k, i>> \in {<<k, n>> : n \in Asked(k)}
      BY <2>1
    <2>4. <<k, i>> \in UNION {{<<x, n>> : n \in Asked(x)} : x \in S}
      BY <2>3
    <2>5. QED
      BY <2>2, <2>4
  <1>7. QED
    BY <1>2, <1>6 DEF ResourcesAvailable

\* An exclusive holder is alone on its resource, whatever one schedule()
\* call admits at once, for all priorities, requests and capacities.
THEOREM PoolExclusiveAlone == Spec => []ExclusiveAlone
  <1>1. Init => SubmissionOrder /\ ExclusiveAlone
    BY DEF Init, SubmissionOrder, Submitted, ExclusiveAlone, RunningIn, In
  <1>2. TypeOK /\ SubmissionOrder /\ ExclusiveAlone /\ [Next]_vars => ExclusiveAlone'
    <2> SUFFICES ASSUME TypeOK, SubmissionOrder, ExclusiveAlone, [Next]_vars
                 PROVE  ExclusiveAlone'
      OBVIOUS
    <2> SUFFICES ASSUME NEW j \in Jobs, status'[j] = "RUNNING",
                        NEW k \in Jobs, status'[k] = "RUNNING", j # k,
                        NEW q \in RequestsOf(j)', NEW p \in RequestsOf(k)',
                        q.id = p.id, q.mode = "exclusive"
                 PROVE  FALSE
      BY DEF ExclusiveAlone, RunningIn, In
    <2>1. CASE status[j] = "RUNNING" /\ status[k] = "RUNNING"
      <3>1. job'[j] = job[j] /\ job'[k] = job[k]
        BY <2>1, StepKeeps
      <3>2. q \in RequestsOf(j) /\ p \in RequestsOf(k)
        BY <3>1 DEF RequestsOf
      <3>3. QED
        BY <2>1, <3>2 DEF ExclusiveAlone, RunningIn, In
    <2>2. CASE ~(status[j] = "RUNNING" /\ status[k] = "RUNNING")
      <3>1. Schedule
        BY <2>2, StepStarts
      <3>2. job' = job
        BY <3>1 DEF Schedule
      <3>3. q \in RequestsOf(j) /\ p \in RequestsOf(k)
        BY <3>2 DEF RequestsOf
      <3>4. PICK st \in RefreshReadiness(status) : \E A \in SUBSET Jobs :
              /\ A = {i \in Jobs : status'[i] = "RUNNING" /\ status[i] # "RUNNING"}
              /\ \A i \in A : st[i] = "READY"
              /\ \A i \in Jobs \ A : status'[i] = st[i]
              /\ Admits(st, A)
        BY <3>1, ScheduleFacts
      <3>5. PICK A \in SUBSET Jobs :
              /\ A = {i \in Jobs : status'[i] = "RUNNING" /\ status[i] # "RUNNING"}
              /\ \A i \in A : st[i] = "READY"
              /\ \A i \in Jobs \ A : status'[i] = st[i]
              /\ Admits(st, A)
        BY <3>4
      <3>6. \A i \in A : Fits(i, RunningIn(st) \cup {a \in A : Ahead(a, i)})
        BY <3>5 DEF Admits, In
      <3>7. \A i \in A : ResourcesAvailable(i, RunningIn(st) \cup {a \in A : Ahead(a, i)})
        BY <3>6 DEF Fits
      <3>8. \A i \in {j, k} : i \in A \/ i \in RunningIn(st)
        BY <3>5 DEF RunningIn, In
      <3>9. \A i \in {j, k} : status[i] # "ABSENT" /\ job[i] \in Description
        <4>1. \A i \in Jobs : status[i] = "ABSENT" => status'[i] # "RUNNING"
          <5>1. \A i \in Jobs : status[i] = "ABSENT" => st[i] = "ABSENT"
            BY RefreshFacts DEF TypeOK, Waiting
          <5>2. QED
            BY <3>5, <5>1
        <4>2. QED
          BY <4>1 DEF TypeOK
      <3>10. Ahead(j, k) \/ Ahead(k, j)
        <4>1. submitted_seq[j] # submitted_seq[k]
          BY <3>9 DEF SubmissionOrder, Submitted
        <4>2. submitted_seq[j] \in Nat /\ submitted_seq[k] \in Nat
          BY DEF TypeOK
        <4>3. job[j].priority \in Int /\ job[k].priority \in Int
          BY <3>9 DEF Description
        <4>4. QED
          BY <4>1, <4>2, <4>3 DEF Ahead, Before
      <3>11. j \in A \/ k \in A
        BY <2>2, <3>5
      <3>12. CASE j \in A /\ (k \notin A \/ Ahead(k, j))
        <4> DEFINE S == RunningIn(st) \cup {a \in A : Ahead(a, j)}
        <4>1. k \in S
          BY <3>8, <3>12
        <4>2. ResourcesAvailable(j, S)
          BY <3>7, <3>12
        <4> HIDE DEF S
        <4>3. QED
          BY <3>3, <3>9, <4>1, <4>2, AvailableIsShared
      <3>13. CASE k \in A /\ (j \notin A \/ Ahead(j, k))
        <4> DEFINE S == RunningIn(st) \cup {a \in A : Ahead(a, k)}
        <4>1. j \in S
          BY <3>8, <3>13
        <4>2. ResourcesAvailable(k, S)
          BY <3>7, <3>13
        <4> HIDE DEF S
        <4>3. QED
          BY <3>3, <3>9, <4>1, <4>2, AvailableIsShared
      <3>14. QED
        BY <3>10, <3>11, <3>12, <3>13
    <2>3. QED
      BY <2>1, <2>2
  <1>3. QED
    BY <1>1, <1>2, StepSubmissionOrder, PoolTypeCorrect, PTL DEF Spec
---------------------------------------------------------------------------
(* Shared permits and free slots.                                          *)

\* The permits of a resource that jobs take, one element each.
Units(r, S) ==
  UNION {{p} \X (1 .. job[p[1]].resources[p[2]].permits) : p \in SharedRequests(r, S)}

UnitsOf(r, k) ==
  {u \in ({k} \X DOMAIN job[k].resources) \X Nat :
     LET q == job[k].resources[u[1][2]]
     IN  q.id = r /\ q.mode = "shared" /\ u[2] \in 1 .. q.permits}

LEMMA UnitsByJob ==
  ASSUME NEW r, NEW S, \A k \in S : job[k] \in Description
  PROVE  \A u : u \in Units(r, S) <=> \E k \in S : u \in UnitsOf(r, k)
  <1> DEFINE Asked(x) == {n \in DOMAIN job[x].resources :
                            /\ job[x].resources[n].id = r
                            /\ job[x].resources[n].mode = "shared"}
  <1>1. SharedRequests(r, S) = UNION {{<<x, n>> : n \in Asked(x)} : x \in S}
    BY DEF SharedRequests
  <1>2. \A p : p \in SharedRequests(r, S) <=> \E k \in S : \E n \in Asked(k) : p = <<k, n>>
    <2> HIDE DEF Asked
    <2>1. QED
      BY <1>1
  <1>3. \A u : u \in Units(r, S) <=>
          \E p \in SharedRequests(r, S) : u \in {p} \X (1 .. job[p[1]].resources[p[2]].permits)
    BY DEF Units
  <1>4. ASSUME NEW k \in S, NEW n \in Asked(k)
        PROVE  job[k].resources[n].permits \in Nat
    <2>1. job[k].resources \in Seq(Request)
      BY DEF Description
    <2>2. job[k].resources[n] \in Request
      BY <2>1
    <2>3. QED
      BY <2>2 DEF Request
  <1>5. ASSUME NEW u, u \in Units(r, S)
        PROVE  \E k \in S : u \in UnitsOf(r, k)
    <2>1. PICK p \in SharedRequests(r, S) : u \in {p} \X (1 .. job[p[1]].resources[p[2]].permits)
      BY <1>3, <1>5
    <2>2. PICK k \in S : \E n \in Asked(k) : p = <<k, n>>
      BY <1>2
    <2>3. PICK n \in Asked(k) : p = <<k, n>>
      BY <2>2
    <2>4. PICK m \in 1 .. job[k].resources[n].permits : u = <<<<k, n>>, m>>
      BY <2>1, <2>3
    <2>5. m \in Nat
      BY <1>4, <2>4
    <2>6. QED
      BY <2>4, <2>5 DEF UnitsOf
  <1>6. ASSUME NEW u, NEW k \in S, u \in UnitsOf(r, k)
        PROVE  u \in Units(r, S)
    <2>1. PICK n \in DOMAIN job[k].resources, m \in Nat :
            /\ u = <<<<k, n>>, m>> /\ m \in 1 .. job[k].resources[n].permits
            /\ job[k].resources[n].id = r /\ job[k].resources[n].mode = "shared"
      BY <1>6 DEF UnitsOf
    <2>2. <<k, n>> \in SharedRequests(r, S)
      BY <1>2, <2>1
    <2>3. QED
      BY <1>3, <2>1, <2>2
  <1>7. QED
    BY <1>5, <1>6

LEMMA UnitsOfFinite ==
  ASSUME NEW r, NEW k, job[k] \in Description
  PROVE  IsFiniteSet(UnitsOf(r, k))
  <1> DEFINE D == DOMAIN job[k].resources
             f == [n \in D |-> {<<k, n>>} \X (1 .. job[k].resources[n].permits)]
  <1>1. job[k].resources \in Seq(Request)
    BY DEF Description
  <1>2. IsFiniteSet(D)
    <2>1. D = 1 .. Len(job[k].resources) /\ Len(job[k].resources) \in Nat
      BY <1>1
    <2>2. QED
      BY <2>1, FS_Interval
  <1>3. \A n \in D : job[k].resources[n].permits \in Nat
    <2> TAKE n \in D
    <2>1. job[k].resources[n] \in Request
      BY <1>1
    <2>2. QED
      BY <2>1 DEF Request
  <1>4. \A n \in D : IsFiniteSet(f[n])
    <2> TAKE n \in D
    <2>1. IsFiniteSet(1 .. job[k].resources[n].permits)
      BY <1>3, FS_Interval
    <2>2. IsFiniteSet({<<k, n>>})
      BY FS_Singleton
    <2>3. IsFiniteSet({<<k, n>>} \X (1 .. job[k].resources[n].permits))
      BY <2>1, <2>2, FS_Product
    <2>4. QED
      BY <2>3
  <1>5. UnitsOf(r, k) \subseteq UNION {f[n] : n \in D}
    <2> SUFFICES ASSUME NEW u \in UnitsOf(r, k)
                 PROVE  \E n \in D : u \in f[n]
      OBVIOUS
    <2>1. PICK n \in D, m \in Nat :
            u = <<<<k, n>>, m>> /\ m \in 1 .. job[k].resources[n].permits
      BY DEF UnitsOf
    <2>2. QED
      BY <2>1
  <1>6. IsFiniteSet(UNION {f[n] : n \in D})
    <2> HIDE DEF f, D
    <2>1. QED
      BY <1>2, <1>4, FiniteUnion
  <1>7. QED
    BY <1>5, <1>6, FS_Subset

LEMMA UnitsFinite ==
  ASSUME NEW r, NEW S, IsFiniteSet(S), \A k \in S : job[k] \in Description
  PROVE  IsFiniteSet(Units(r, S)) /\ SharedPermits(r, S) = Cardinality(Units(r, S))
  <1> DEFINE f == [k \in S |-> UnitsOf(r, k)]
  <1>1. \A k \in S : IsFiniteSet(f[k])
    BY UnitsOfFinite
  <1>2. Units(r, S) = UNION {f[k] : k \in S}
    BY UnitsByJob
  <1>3. IsFiniteSet(UNION {f[k] : k \in S})
    <2> HIDE DEF f
    <2>1. QED
      BY <1>1, FiniteUnion
  <1>4. QED
    BY <1>2, <1>3 DEF SharedPermits, Units

LEMMA UnitsGrow ==
  ASSUME NEW r, NEW T, NEW S \in SUBSET T, IsFiniteSet(T),
         \A k \in T : job[k] \in Description
  PROVE  /\ SharedRequests(r, S) \subseteq SharedRequests(r, T)
         /\ SharedPermits(r, S) \in Nat /\ SharedPermits(r, T) \in Nat
         /\ SharedPermits(r, S) <= SharedPermits(r, T)
  <1>1. SharedRequests(r, S) \subseteq SharedRequests(r, T)
    BY DEF SharedRequests
  <1>2. Units(r, S) \subseteq Units(r, T)
    BY UnitsByJob
  <1>3. IsFiniteSet(S)
    BY FS_Subset
  <1>4. /\ IsFiniteSet(Units(r, T)) /\ SharedPermits(r, T) = Cardinality(Units(r, T))
        /\ IsFiniteSet(Units(r, S)) /\ SharedPermits(r, S) = Cardinality(Units(r, S))
    BY <1>3, UnitsFinite
  <1>5. QED
    BY <1>1, <1>2, <1>4, FS_Subset, FS_CardinalityType

\* A job that names no resource twice takes the permits of its one request.
LEMMA UnitsOfOnce ==
  ASSUME NEW r, NEW k, job[k] \in Description, NamesOnce(k), UnitsOf(r, k) # {}
  PROVE  \E q \in RequestsOf(k) :
           /\ q.id = r /\ q.mode = "shared"
           /\ Cardinality(UnitsOf(r, k)) = q.permits
  <1>1. PICK n \in DOMAIN job[k].resources :
          job[k].resources[n].id = r /\ job[k].resources[n].mode = "shared"
    BY DEF UnitsOf
  <1> DEFINE q == job[k].resources[n]
  <1>2. q \in RequestsOf(k)
    BY DEF RequestsOf
  <1>3. q.permits \in Nat
    <2>1. job[k].resources \in Seq(Request)
      BY DEF Description
    <2>2. q \in Request
      BY <2>1
    <2>3. QED
      BY <2>2 DEF Request
  <1>4. \A m \in DOMAIN job[k].resources : job[k].resources[m].id = r => m = n
    BY <1>1 DEF NamesOnce
  <1>5. UnitsOf(r, k) = {<<k, n>>} \X (1 .. q.permits)
    <2>1. ASSUME NEW u \in UnitsOf(r, k)
          PROVE  u \in {<<k, n>>} \X (1 .. q.permits)
      <3>1. PICK m \in DOMAIN job[k].resources, i \in Nat :
              /\ u = <<<<k, m>>, i>> /\ i \in 1 .. job[k].resources[m].permits
              /\ job[k].resources[m].id = r
        BY DEF UnitsOf
      <3>2. m = n
        BY <1>4, <3>1
      <3>3. QED
        BY <3>1, <3>2
    <2>2. ASSUME NEW u \in {<<k, n>>} \X (1 .. q.permits)
          PROVE  u \in UnitsOf(r, k)
      BY <1>1, <1>3 DEF UnitsOf
    <2>3. QED
      BY <2>1, <2>2
  <1> HIDE DEF q
  <1>6. Cardinality({<<k, n>>} \X (1 .. q.permits)) = q.permits
    <2>1. IsFiniteSet({<<k, n>>}) /\ Cardinality({<<k, n>>}) = 1
      BY FS_Singleton
    <2>2. IsFiniteSet(1 .. q.permits) /\ Cardinality(1 .. q.permits) = q.permits
      BY <1>3, FS_Interval
    <2>3. Cardinality({<<k, n>>} \X (1 .. q.permits)) = 1 * q.permits
      BY <2>1, <2>2, FS_Product
    <2>4. QED
      BY <1>3, <2>3
  <1>7. QED
    BY <1>1, <1>2, <1>5, <1>6 DEF q

\* schedule() considers the submitted jobs in a total order.
LEMMA AheadOrder ==
  ASSUME TypeOK, SubmissionOrder
  PROVE  /\ \A a, b \in Submitted : a = b \/ Ahead(a, b) \/ Ahead(b, a)
         /\ \A a \in Submitted : ~Ahead(a, a)
         /\ \A a, b, c \in Submitted : Ahead(a, b) /\ Ahead(b, c) => Ahead(a, c)
  <1>1. \A a \in Submitted : submitted_seq[a] \in Nat /\ job[a].priority \in Int
    BY DEF TypeOK, Submitted, Description
  <1>2. \A a, b \in Submitted : submitted_seq[a] = submitted_seq[b] => a = b
    BY DEF SubmissionOrder
  <1>3. QED
    BY <1>1, <1>2 DEF Ahead, Before

\* Of some submitted jobs, one is considered last.
LEMMA LastConsidered ==
  ASSUME TypeOK, SubmissionOrder, NEW U \in SUBSET Submitted, U # {}
  PROVE  \E t \in U : \A x \in U : x = t \/ Ahead(x, t)
  <1> DEFINE After(j) == {x \in U : Ahead(j, x)}
             F == {After(j) : j \in U}
  <1>1. IsFiniteSet(U)
    BY PoolAssumption, FS_Subset DEF Submitted
  <1>2. F \subseteq SUBSET U /\ F # {}
    OBVIOUS
  <1>3. PICK X \in F : \A Y \in F : Y \subseteq X => Y = X
    <2> HIDE DEF F
    <2>1. QED
      BY <1>1, <1>2, LeastSet
  <1>4. PICK t \in U : X = After(t)
    OBVIOUS
  <1>5. ASSUME NEW y \in U, Ahead(t, y)
        PROVE  FALSE
    <2>1. After(y) \subseteq After(t)
      BY <1>5, AheadOrder
    <2>2. After(y) = After(t)
      BY <1>3, <1>4, <2>1
    <2>3. y \in After(y)
      BY <1>5, <2>2
    <2>4. QED
      BY <2>3, AheadOrder
  <1>6. QED
    BY <1>5, AheadOrder

\* Jobs admitted one after the other, each against all that run or were
\* admitted ahead of it, stay within the capacity if those that ran do.
LEMMA AdmittedWithinCapacity ==
  ASSUME TypeOK, SubmissionOrder, NEW r \in Resources,
         NEW R \in SUBSET Submitted, NEW A \in SUBSET Submitted,
         \A j \in A : Fits(j, R \cup {a \in A : Ahead(a, j)}),
         NEW S \in SUBSET (R \cup A), \A j \in S : NamesOnce(j),
         SharedPermits(r, S \cap R) <= Capacity[r]
  PROVE  SharedPermits(r, S) <= Capacity[r]
  <1>1. \A k \in Submitted : job[k] \in Description
    BY DEF TypeOK, Submitted
  <1>2. \A T \in SUBSET Submitted : IsFiniteSet(T)
    BY PoolAssumption, FS_Subset DEF Submitted
  <1>3. \A T \in SUBSET Submitted :
          /\ IsFiniteSet(Units(r, T)) /\ SharedPermits(r, T) = Cardinality(Units(r, T))
          /\ \A u : u \in Units(r, T) <=> \E k \in T : u \in UnitsOf(r, k)
    <2> TAKE T \in SUBSET Submitted
    <2>1. IsFiniteSet(T) /\ \A k \in T : job[k] \in Description
      BY <1>1, <1>2
    <2>2. QED
      BY <2>1, UnitsFinite, UnitsByJob
  <1> DEFINE U == {k \in S \ R : UnitsOf(r, k) # {}}
  <1>4. CASE U = {}
    <2>1. Units(r, S) = Units(r, S \cap R)
      BY <1>3, <1>4
    <2>2. SharedPermits(r, S) = SharedPermits(r, S \cap R)
      BY <1>3, <2>1
    <2>3. QED
      BY <2>2
  <1>5. CASE U # {}
    <2>1. PICK t \in U : \A x \in U : x = t \/ Ahead(x, t)
      BY <1>5, LastConsidered
    <2> DEFINE T == R \cup {a \in A : Ahead(a, t)}
    <2>2. t \in A /\ t \in Submitted /\ NamesOnce(t) /\ UnitsOf(r, t) # {} /\ job[t] \in Description
      BY <1>1
    <2>3. ResourcesAvailable(t, T)
      BY <2>2 DEF Fits
    <2>4. PICK q \in RequestsOf(t) :
            /\ q.id = r /\ q.mode = "shared"
            /\ Cardinality(UnitsOf(r, t)) = q.permits
      BY <2>2, UnitsOfOnce
    <2>5. SharedPermits(r, T) + q.permits <= Capacity[r]
      BY <2>3, <2>4 DEF ResourcesAvailable
    <2>6. Units(r, S) \subseteq Units(r, T) \cup UnitsOf(r, t)
      <3> SUFFICES ASSUME NEW u \in Units(r, S), u \notin UnitsOf(r, t)
                   PROVE  u \in Units(r, T)
        OBVIOUS
      <3>1. PICK k \in S : u \in UnitsOf(r, k)
        BY <1>3
      <3>2. k \in T
        BY <2>1, <3>1
      <3>3. QED
        BY <1>3, <3>1, <3>2
    <2>7. IsFiniteSet(UnitsOf(r, t)) /\ IsFiniteSet(Units(r, T)) /\ IsFiniteSet(Units(r, S))
      BY <1>3, <2>2, UnitsOfFinite
    <2>8. Cardinality(Units(r, T) \cup UnitsOf(r, t)) <= Cardinality(Units(r, T)) + q.permits
      <3>1. Cardinality(Units(r, T) \cup UnitsOf(r, t)) =
              Cardinality(Units(r, T)) + Cardinality(UnitsOf(r, t))
                - Cardinality(Units(r, T) \cap UnitsOf(r, t))
        BY <2>7, FS_Union
      <3>2. Cardinality(Units(r, T) \cap UnitsOf(r, t)) \in Nat
        BY <2>7, FS_Subset, FS_CardinalityType
      <3>3. Cardinality(Units(r, T)) \in Nat /\ Cardinality(UnitsOf(r, t)) \in Nat
        BY <2>7, FS_CardinalityType
      <3>4. QED
        BY <2>4, <3>1, <3>2, <3>3
    <2>9. Cardinality(Units(r, S)) <= Cardinality(Units(r, T) \cup UnitsOf(r, t))
      <3>1. IsFiniteSet(Units(r, T) \cup UnitsOf(r, t))
        BY <2>7, FS_Union
      <3>2. QED
        BY <2>6, <3>1, FS_Subset
    <2>10. /\ Cardinality(Units(r, T) \cup UnitsOf(r, t)) \in Nat
           /\ Cardinality(Units(r, S)) \in Nat /\ Cardinality(Units(r, T)) \in Nat
           /\ Cardinality(UnitsOf(r, t)) \in Nat
           /\ Capacity[r] \in Nat
      <3>1. IsFiniteSet(Units(r, T) \cup UnitsOf(r, t))
        BY <2>7, FS_Union
      <3>2. QED
        BY <2>7, <3>1, FS_CardinalityType, PoolAssumption
    <2>11. SharedPermits(r, S) = Cardinality(Units(r, S))
           /\ SharedPermits(r, T) = Cardinality(Units(r, T))
      <3>1. S \in SUBSET Submitted /\ T \in SUBSET Submitted
        OBVIOUS
      <3>2. QED
        BY <1>3, <3>1
    <2> HIDE DEF T, U
    <2>12. QED
      BY <2>4, <2>5, <2>8, <2>9, <2>10, <2>11
  <1>6. QED
    BY <1>4, <1>5

\* Outside schedule(), the running jobs only become fewer.
LEMMA FewerRun ==
  ASSUME TypeOK, [Next]_vars, ~Schedule
  PROVE  /\ RunningIn(status') \subseteq RunningIn(status)
         /\ \A j \in RunningIn(status') : job'[j] = job[j]
  <1>1. ASSUME NEW j \in Jobs, status'[j] = "RUNNING"
        PROVE  status[j] = "RUNNING" /\ job'[j] = job[j]
    BY <1>1, StepStarts, StepKeeps
  <1>2. QED
    BY <1>1 DEF RunningIn, In

\* Jobs that keep their descriptions keep their permits.
LEMMA SamePermits ==
  ASSUME NEW r, NEW T, \A j \in T : job'[j] = job[j]
  PROVE  SharedPermits(r, T)' = SharedPermits(r, T)
  <1>1. SharedRequests(r, T)' = SharedRequests(r, T)
    BY DEF SharedRequests
  <1>2. \A p \in SharedRequests(r, T) : job'[p[1]] = job[p[1]]
    BY DEF SharedRequests
  <1>3. QED
    BY <1>1, <1>2 DEF SharedPermits

\* Shared permits stay within the capacity, for every mix of requests: the
\* running jobs that name a resource once were measured against all others
\* that ran when they started, whatever those named.
THEOREM PoolCapacityKept == Spec => []CapacityKept
  <1>1. Init => SubmissionOrder /\ CapacityKept
    <2> SUFFICES ASSUME Init PROVE SubmissionOrder /\ CapacityKept
      OBVIOUS
    <2>1. SubmissionOrder
      BY DEF Init, SubmissionOrder, Submitted
    <2>2. \A r \in Resources : SharedPermits(r, {j \in RunningIn(status) : NamesOnce(j)}) = 0
      <3> TAKE r \in Resources
      <3>1. {j \in RunningIn(status) : NamesOnce(j)} = {}
        BY DEF Init, RunningIn, In
      <3>2. Units(r, {}) = {}
        BY UnitsByJob
      <3>3. SharedPermits(r, {}) = 0
        BY <3>2, FS_EmptySet DEF SharedPermits, Units
      <3>4. QED
        BY <3>1, <3>3
    <2>3. QED
      BY <2>1, <2>2, PoolAssumption DEF CapacityKept
  <1>2. TypeOK /\ SubmissionOrder /\ CapacityKept /\ [Next]_vars => CapacityKept'
    <2> SUFFICES ASSUME TypeOK, SubmissionOrder, CapacityKept, [Next]_vars,
                        NEW r \in Resources
                 PROVE  SharedPermits(r, {j \in RunningIn(status) : NamesOnce(j)})' <= Capacity[r]
      BY DEF CapacityKept
    <2> DEFINE S == {j \in RunningIn(status) : NamesOnce(j)}
    <2>1. SharedPermits(r, S) <= Capacity[r] /\ Capacity[r] \in Nat
      BY PoolAssumption DEF CapacityKept
    <2>2. S \in SUBSET Submitted /\ \A k \in Submitted : job[k] \in Description
      BY DEF TypeOK, Submitted, RunningIn, In
    <2>3. IsFiniteSet(S) /\ \A k \in S : job[k] \in Description
      BY <2>2, PoolAssumption, FS_Subset DEF Submitted
    <2>4. CASE Schedule
      <3>1. job' = job
        BY <2>4 DEF Schedule
      <3>2. PICK st \in RefreshReadiness(status) : \E A \in SUBSET Jobs :
              /\ A = {i \in Jobs : status'[i] = "RUNNING" /\ status[i] # "RUNNING"}
              /\ \A i \in A : st[i] = "READY"
              /\ \A i \in Jobs \ A : status'[i] = st[i]
              /\ Admits(st, A)
        BY <2>4, ScheduleFacts
      <3>3. PICK A \in SUBSET Jobs :
              /\ A = {i \in Jobs : status'[i] = "RUNNING" /\ status[i] # "RUNNING"}
              /\ \A i \in A : st[i] = "READY"
              /\ \A i \in Jobs \ A : status'[i] = st[i]
              /\ Admits(st, A)
        BY <3>2
      <3>4. /\ \A i \in Jobs : status[i] \notin Waiting => st[i] = status[i]
            /\ \A i \in Jobs : status[i] \in Waiting => st[i] \in Waiting \cup {"BLOCKED", "CANCELLED"}
        BY RefreshFacts DEF TypeOK
      <3>5. RunningIn(st) = RunningIn(status)
        BY <3>4 DEF RunningIn, In, Waiting
      <3>6. RunningIn(status') = RunningIn(status) \cup A
        BY <3>3, <3>4 DEF RunningIn, In, Waiting
      <3>7. \A j \in A : Fits(j, RunningIn(status) \cup {a \in A : Ahead(a, j)})
        BY <3>3, <3>5 DEF Admits, In
      <3>8. A \in SUBSET Submitted /\ RunningIn(status) \in SUBSET Submitted
        BY <3>3, <3>4 DEF Submitted, RunningIn, In, Waiting
      <3> DEFINE T == {j \in RunningIn(status) \cup A : NamesOnce(j)}
      <3>9. T \cap RunningIn(status) = S
        OBVIOUS
      <3>10. T \in SUBSET (RunningIn(status) \cup A) /\ \A j \in T : NamesOnce(j)
        OBVIOUS
      <3>11. SharedPermits(r, {j \in RunningIn(status) : NamesOnce(j)})' = SharedPermits(r, T)
        <4>1. {j \in RunningIn(status) : NamesOnce(j)}' = T
          BY <3>1, <3>6 DEF NamesOnce
        <4>2. QED
          BY <3>1, <4>1 DEF SharedPermits, SharedRequests
      <3> HIDE DEF T, S
      <3>12. SharedPermits(r, T) <= Capacity[r]
        BY <2>1, <3>7, <3>8, <3>9, <3>10, AdmittedWithinCapacity
      <3>13. QED
        BY <3>11, <3>12
    <2>5. CASE ~Schedule
      <3>0. PICK T : T = {j \in RunningIn(status) : NamesOnce(j)}'
        OBVIOUS
      <3>1. /\ RunningIn(status') \subseteq RunningIn(status)
            /\ \A j \in RunningIn(status') : job'[j] = job[j]
        BY <2>5, FewerRun
      <3>2. T \subseteq S /\ \A j \in T : job'[j] = job[j]
        BY <3>0, <3>1 DEF NamesOnce
      <3>3. SharedPermits(r, {j \in RunningIn(status) : NamesOnce(j)})' = SharedPermits(r, T)
        <4>1. SharedPermits(r, {j \in RunningIn(status) : NamesOnce(j)})' = SharedPermits(r, T)'
          BY <3>0 DEF SharedPermits, SharedRequests
        <4>2. SharedPermits(r, T)' = SharedPermits(r, T)
          BY <3>2, SamePermits
        <4>3. QED
          BY <4>1, <4>2
      <3> HIDE DEF S
      <3>4. SharedPermits(r, T) <= SharedPermits(r, S)
            /\ SharedPermits(r, T) \in Nat /\ SharedPermits(r, S) \in Nat
        BY <2>3, <3>2, UnitsGrow
      <3>5. QED
        BY <2>1, <3>3, <3>4
    <2>6. QED
      BY <2>4, <2>5
  <1>3. QED
    BY <1>1, <1>2, StepSubmissionOrder, PoolTypeCorrect, PTL DEF Spec

---------------------------------------------------------------------------
(* Free slots.                                                             *)

\* What fits beside some jobs fits beside fewer of them.
LEMMA FitsBesideFewer ==
  ASSUME TypeOK, NEW j \in Submitted, NEW T \in SUBSET Submitted, NEW S \in SUBSET T,
         Fits(j, T)
  PROVE  Fits(j, S)
  <1>1. IsFiniteSet(T) /\ \A k \in T : job[k] \in Description
    BY PoolAssumption, FS_Subset DEF Submitted, TypeOK
  <1>2. job[j] \in Description
    BY DEF TypeOK, Submitted
  <1> DEFINE c == job[j].class
  <1>3. c \in Classes /\ budgets[c] \in Nat
    BY <1>2 DEF Description, TypeOK
  <1>4. Cardinality(OfClass(c, S)) < budgets[c]
    <2>1. OfClass(c, S) \subseteq OfClass(c, T) /\ OfClass(c, T) \subseteq T
      BY DEF OfClass
    <2>2. IsFiniteSet(OfClass(c, T))
      BY <1>1, <2>1, FS_Subset
    <2>3. /\ Cardinality(OfClass(c, S)) <= Cardinality(OfClass(c, T))
          /\ Cardinality(OfClass(c, S)) \in Nat /\ Cardinality(OfClass(c, T)) \in Nat
      BY <2>1, <2>2, FS_Subset, FS_CardinalityType
    <2>4. Cardinality(OfClass(c, T)) < budgets[c]
      BY DEF Fits
    <2> HIDE DEF c
    <2>5. QED
      BY <1>3, <2>3, <2>4
  <1>5. ResourcesAvailable(j, S)
    <2> SUFFICES ASSUME NEW q \in RequestsOf(j)
                 PROVE  /\ ~HeldExclusive(q.id, S)
                        /\ IF q.mode = "exclusive"
                           THEN SharedRequests(q.id, S) = {}
                           ELSE SharedPermits(q.id, S) + q.permits <= Capacity[q.id]
      BY DEF ResourcesAvailable
    <2>1. /\ ~HeldExclusive(q.id, T)
          /\ IF q.mode = "exclusive"
             THEN SharedRequests(q.id, T) = {}
             ELSE SharedPermits(q.id, T) + q.permits <= Capacity[q.id]
      BY DEF Fits, ResourcesAvailable
    <2>2. ~HeldExclusive(q.id, S)
      BY <2>1 DEF HeldExclusive
    <2>3. /\ SharedRequests(q.id, S) \subseteq SharedRequests(q.id, T)
          /\ SharedPermits(q.id, S) \in Nat /\ SharedPermits(q.id, T) \in Nat
          /\ SharedPermits(q.id, S) <= SharedPermits(q.id, T)
      BY <1>1, UnitsGrow
    <2>4. q.permits \in Nat /\ Capacity[q.id] \in Nat
      <3>1. job[j].resources \in Seq(Request)
        BY <1>2 DEF Description
      <3>2. q \in Request
        BY <3>1 DEF RequestsOf
      <3>3. QED
        BY <3>2, PoolAssumption DEF Request
    <2>5. QED
      BY <2>1, <2>2, <2>3, <2>4
  <1>6. QED
    BY <1>4, <1>5 DEF Fits

\* schedule() leaves no READY job that still fits, for every order of
\* priorities, every budget and every capacity: a job that was refused was
\* measured against no more than what runs in the end.
THEOREM PoolRefillsFreeSlots == Spec => RefillsFreeSlots
  <1>1. TypeOK /\ [Next]_vars =>
          [Schedule => \A j \in In(status', {"READY"}) : ~Fits(j, RunningIn(status'))]_vars
    <2> SUFFICES ASSUME TypeOK, Schedule, NEW j \in In(status', {"READY"}),
                        Fits(j, RunningIn(status'))
                 PROVE  FALSE
      OBVIOUS
    <2>1. PICK st \in RefreshReadiness(status) : \E A \in SUBSET Jobs :
            /\ A = {i \in Jobs : status'[i] = "RUNNING" /\ status[i] # "RUNNING"}
            /\ \A i \in A : st[i] = "READY"
            /\ \A i \in Jobs \ A : status'[i] = st[i]
            /\ Admits(st, A)
      BY ScheduleFacts
    <2>2. PICK A \in SUBSET Jobs :
            /\ A = {i \in Jobs : status'[i] = "RUNNING" /\ status[i] # "RUNNING"}
            /\ \A i \in A : st[i] = "READY"
            /\ \A i \in Jobs \ A : status'[i] = st[i]
            /\ Admits(st, A)
      BY <2>1
    <2>3. /\ \A i \in Jobs : status[i] \notin Waiting => st[i] = status[i]
          /\ \A i \in Jobs : status[i] \in Waiting => st[i] \in Waiting \cup {"BLOCKED", "CANCELLED"}
      BY RefreshFacts DEF TypeOK
    <2> DEFINE S == RunningIn(st) \cup {a \in A : Ahead(a, j)}
    <2>4. j \in Jobs \ A /\ st[j] = "READY" /\ j \in Submitted
      BY <2>2, <2>3 DEF In, Submitted, Waiting
    <2>5. ~Fits(j, S)
      BY <2>2, <2>4 DEF Admits, In
    <2>6. S \in SUBSET RunningIn(status') /\ RunningIn(status') \in SUBSET Submitted
      BY <2>2, <2>3 DEF RunningIn, In, Submitted, Waiting
    <2> HIDE DEF S
    <2>7. QED
      BY <2>4, <2>5, <2>6, FitsBesideFewer
  <1>2. QED
    BY <1>1, PoolTypeCorrect, PTL DEF Spec, RefillsFreeSlots
---------------------------------------------------------------------------
(* The plan: the invariant of the loop.                                    *)

\* The pool holds the tasks of the plan, and no task is lost or goes stale.
JobsArePlanned ==
  Active => job = TaskOf /\ \A t \in Jobs : status[t] \notin {"ABSENT", "STALE"}

\* Tasks await their turn only between schedule() and the await, and none
\* does once a budget is spent.
AdmissionOnly ==
  Active =>
    /\ pc # "admit" => admitted = {}
    /\ budgetFailed => admitted = {}
    /\ running \cap admitted = {}

\* Only a spent budget cancels, and only that or a failure blocks.
HaltsHaveReason ==
  /\ cancelledScopes # {} => budgetFailed
  /\ \A t \in Jobs : status[t] = "CANCELLED" => budgetFailed
  /\ (\E t \in Jobs : status[t] \in Halted) => failures # {} \/ budgetFailed

\* The same of the terminal events.
EventsHaveReason ==
  \A t \in Jobs :
    /\ outcome[t] = "cancelled" => t \notin plan.allowed \/ budgetFailed
    /\ outcome[t] = "blocked" => failures # {} \/ budgetFailed
    /\ outcome[t] = "failed" => t \in failures \cup degradedFailures \/ Mode[t] = "observe"

\* What the verdict "complete" was made from.
VerdictIsEarned ==
  pc = "done" /\ verdict = "complete" =>
    failures = {} /\ degradedFailures = {} /\ ~budgetFailed /\ AllTerminal

PlanInv ==
  /\ PlanTypeOK /\ JobsArePlanned /\ AdmissionOnly /\ EventsAgreeWithPool
  /\ HaltsHaveReason /\ EventsHaveReason /\ VerdictIsEarned

LEMMA PlanInvInit == PlanInit => PlanInv
<1> SUFFICES ASSUME PlanInit PROVE PlanInv
  OBVIOUS
<1>1. TypeOK
  BY InitTypeOK DEF PlanInit
<1>2. PlanTypeOK
  <2>1. outcome \in [Jobs -> TerminalEvent \cup {"none"}] /\ results \in [Jobs -> Keys \cup {NoResult}]
    BY DEF PlanInit, Unstarted, NoResults
  <2>2. runs \in 0 .. MaxRuns
    BY PlanAssumption DEF PlanInit
  <2>3. attempt \in [Jobs -> Nat]
    BY DEF PlanInit
  <2> QED
    BY <1>1, <2>1, <2>2, <2>3 DEF PlanInit, PlanTypeOK
<1> QED
  BY <1>2 DEF PlanInit, Init, PlanInv, JobsArePlanned, AdmissionOnly, EventsAgreeWithPool, Active,
     HaltsHaveReason, EventsHaveReason, VerdictIsEarned, Unstarted, Halted
---------------------------------------------------------------------------
(* What the steps do to the pool.                                          *)

\* From st to the new statuses, tasks that wait may be halted, with a reason.
Calms(st) ==
  /\ \A t \in Jobs : st[t] \notin Waiting => status'[t] = st[t]
  /\ \A t \in Jobs : st[t] \in Waiting => status'[t] \in Waiting \cup {"BLOCKED", "CANCELLED"}
  /\ \A t \in Jobs : st[t] \in Waiting /\ status'[t] = "CANCELLED" => budgetFailed'
  /\ (\E t \in Jobs : status'[t] \in Halted) => (\E t \in Jobs : st[t] \in Halted) \/ budgetFailed'

\* As plans have no cycles, a refresh that halts anything does so for a task
\* that was halted before, or for a cancelled scope.
LEMMA RefreshCalms ==
  ASSUME PlanInv, Active, NEW st \in [Jobs -> Statuses], NEW new \in RefreshReadiness(st)
  PROVE  /\ \A t \in Jobs : st[t] \notin Waiting => new[t] = st[t]
         /\ \A t \in Jobs : st[t] \in Waiting => new[t] \in Waiting \cup {"BLOCKED", "CANCELLED"}
         /\ \A t \in Jobs : st[t] \in Waiting /\ new[t] = "CANCELLED" => budgetFailed
         /\ (\E t \in Jobs : new[t] \in Halted) => (\E t \in Jobs : st[t] \in Halted) \/ budgetFailed
<1>1. job = TaskOf /\ \A t \in Jobs : job[t] \in Description
  BY PlanAssumption DEF PlanInv, JobsArePlanned, ValidPlan
<1>2. /\ \A t \in Jobs : st[t] \notin Waiting => new[t] = st[t]
      /\ \A t \in Jobs : st[t] \in Waiting => new[t] \in Waiting \cup {"BLOCKED", "CANCELLED"}
      /\ \A t \in Jobs : st[t] \in Waiting /\ new[t] = "BLOCKED" =>
           \E d \in job[t].dependencies : new[d] \in Halted
      /\ \A t \in Jobs : st[t] \in Waiting /\ new[t] = "CANCELLED" =>
           job[t].scope \in cancelledScopes
  BY <1>1, RefreshFacts
<1>3. \A t \in Jobs : st[t] \in Waiting /\ new[t] = "CANCELLED" => budgetFailed
  BY <1>2 DEF PlanInv, HaltsHaveReason
<1>4. ASSUME NEW t \in Jobs, new[t] \in Halted, \A d \in Jobs : st[d] \notin Halted
      PROVE  budgetFailed
  <2> DEFINE T == {d \in Jobs : st[d] \in Waiting /\ new[d] = "BLOCKED"}
  <2>1. \A d \in Jobs : new[d] \in Halted => d \in T \/ budgetFailed
    BY <1>2, <1>3, <1>4 DEF Halted, Waiting
  <2>2. CASE T = {}
    BY <1>4, <2>1, <2>2
  <2>3. CASE T # {}
    <3>1. PICK d \in T : TaskOf[d].dependencies \cap T = {}
      BY <2>3, PlanAssumption DEF ValidPlan
    <3>2. PICK e \in job[d].dependencies : new[e] \in Halted
      BY <1>2, <3>1
    <3>3. e \in Jobs
      BY <1>1, <3>1 DEF Description
    <3> QED
      BY <1>1, <2>1, <3>1, <3>2, <3>3
  <2> QED
    BY <2>2, <2>3
<1> QED
  BY <1>2, <1>3, <1>4

LEMMA SnapshotCalms ==
  ASSUME PlanInv, Active, Snapshot, budgetFailed' = budgetFailed
  PROVE  Calms(status)
<1>1. status \in [Jobs -> Statuses] /\ status' \in RefreshReadiness(status)
  BY DEF PlanInv, PlanTypeOK, TypeOK, Snapshot
<1> QED
  BY <1>1, RefreshCalms DEF Calms

LEMMA FinishCalms ==
  ASSUME PlanInv, Active, NEW t \in Jobs, NEW s \in {"SUCCEEDED", "FAILED"}, Finish(t, s),
         budgetFailed' = budgetFailed
  PROVE  Calms([status EXCEPT ![t] = s])
<1> DEFINE st == [status EXCEPT ![t] = s]
<1>1. st \in [Jobs -> Statuses]
  BY DEF PlanInv, PlanTypeOK, TypeOK, Statuses, Terminal
<1>2. status' \in RefreshReadiness(st)
  BY DEF Finish
<1> HIDE DEF st
<1>3. Calms(st)
  BY <1>1, <1>2, RefreshCalms DEF Calms
<1> QED
  BY <1>3 DEF st

LEMMA CancelCalms ==
  ASSUME PlanInv, CancelScope(Run), budgetFailed'
  PROVE  Calms(status)
  BY DEF PlanInv, PlanTypeOK, TypeOK, CancelScope, Calms, Waiting

LEMMA StayCalms ==
  ASSUME PlanInv, status' = status
  PROVE  Calms(status)
  BY DEF Calms, Waiting

\* schedule() starts some tasks that wait.
LEMMA ScheduleCalms ==
  ASSUME PlanInv, Active, Schedule, budgetFailed' = budgetFailed
  PROVE  /\ \A t \in Jobs : status[t] \notin Waiting => status'[t] = status[t]
         /\ \A t \in Jobs : status[t] \in Waiting =>
              status'[t] \in Waiting \cup {"RUNNING", "BLOCKED", "CANCELLED"}
         /\ \A t \in Jobs : status[t] \in Waiting /\ status'[t] = "CANCELLED" => budgetFailed
         /\ (\E t \in Jobs : status'[t] \in Halted) =>
              (\E t \in Jobs : status[t] \in Halted) \/ budgetFailed
<1>1. TypeOK /\ status \in [Jobs -> Statuses]
  BY DEF PlanInv, PlanTypeOK, TypeOK
<1>2. PICK st \in RefreshReadiness(status) : \E A \in SUBSET Jobs :
        (\A t \in A : st[t] = "READY" /\ status'[t] = "RUNNING") /\ \A t \in Jobs \ A : status'[t] = st[t]
  BY <1>1, ScheduleFacts
<1>3. PICK A \in SUBSET Jobs :
        (\A t \in A : st[t] = "READY" /\ status'[t] = "RUNNING") /\ \A t \in Jobs \ A : status'[t] = st[t]
  BY <1>2
<1>4. /\ \A t \in Jobs : status[t] \notin Waiting => st[t] = status[t]
      /\ \A t \in Jobs : status[t] \in Waiting => st[t] \in Waiting \cup {"BLOCKED", "CANCELLED"}
      /\ \A t \in Jobs : status[t] \in Waiting /\ st[t] = "CANCELLED" => budgetFailed
      /\ (\E t \in Jobs : st[t] \in Halted) => (\E t \in Jobs : status[t] \in Halted) \/ budgetFailed
  BY <1>1, RefreshCalms
<1> QED
  BY <1>3, <1>4 DEF Waiting, Halted
---------------------------------------------------------------------------
(* Types.                                                                  *)

Keeping(t) == Launch(t) \/ Retry(t)
Ending(t)  == SkipByCondition(t) \/ Reuse(t) \/ RequiredMiss(t) \/ Complete(t) \/ Fail(t)

\* Apart from the start of a run, every step is one of the pool's or leaves
\* the pool alone.
LEMMA PoolStep ==
  ASSUME Advance \/ Crash \/ \E t \in Jobs : Deal(t) \/ Retry(t) \/ Settle(t)
  PROVE  [Next]_vars
<1>1. ASSUME NEW t \in Jobs, Keeping(t)
      PROVE  UNCHANGED vars
  BY <1>1 DEF Keeping, Launch, Retry, pool, vars
<1>2. ASSUME NEW t \in Jobs, Ending(t)
      PROVE  \E s \in {"SUCCEEDED", "FAILED", "STALE"} : Finish(t, s)
  <2>1. CASE SkipByCondition(t) \/ Reuse(t) \/ RequiredMiss(t)
    BY <2>1 DEF SkipByCondition, Reuse, RequiredMiss
  <2>2. CASE Complete(t) \/ Fail(t)
    BY <2>2 DEF Complete, Fail
  <2> QED
    BY <1>2, <2>1, <2>2 DEF Ending
<1>3. ASSUME Advance
      PROVE  Schedule \/ Snapshot \/ CancelScope(Run) \/ UNCHANGED vars
  <2>1. CASE CheckBudget \/ AnnounceReady \/ Admit
    BY <2>1 DEF CheckBudget, AnnounceReady, Admit, pool, vars
  <2>2. CASE ReportHalted \/ TurnAgain \/ Return
    BY <2>2 DEF ReportHalted, TurnAgain, Return, pool, vars
  <2> QED
    BY <1>3, <2>1, <2>2 DEF Advance
<1>4. CASE Crash
  BY <1>4 DEF Crash, pool, vars
<1> QED
  BY <1>1, <1>2, <1>3, <1>4, PlanAssumption DEF Next, Deal, Settle, Keeping, Ending

\* A task ends with a terminal event, which is saved with what is known then.
LEMMA EmitTypes ==
  ASSUME PlanTypeOK, NEW t \in Jobs, NEW event \in TerminalEvent, Emit(t, event),
         results' \in [Jobs -> Keys \cup {NoResult}]
  PROVE  /\ outcome' \in [Jobs -> TerminalEvent \cup {"none"}] /\ saved' \in State \cup {NoState}
         /\ outcome'[t] = event /\ \A k \in Jobs \ {t} : outcome'[k] = outcome[k]
<1>1. outcome' \in [Jobs -> TerminalEvent \cup {"none"}]
  BY DEF PlanTypeOK, Emit
<1>2. saved' \in State
  BY <1>1 DEF Emit, State
<1> QED
  BY <1>1, <1>2 DEF PlanTypeOK, Emit

LEMMA EndingTypes ==
  ASSUME PlanTypeOK, NEW t \in Jobs, Ending(t), TypeOK'
  PROVE  PlanTypeOK'
<1> USE DEF PlanTypeOK
<1>1. plan.cache_key[t] \in Keys
  BY PlanAssumption DEF Plan
<1>2. CASE Reuse(t)
  <2>1. ReuseFor(t) \in Keys \cup {NoResult}
    BY <1>1 DEF ReuseFor, State
  <2>2. results' \in [Jobs -> Keys \cup {NoResult}]
    BY <1>2, <2>1 DEF Reuse
  <2> QED
    BY <1>2, <2>2, EmitTypes DEF Reuse, Dealt, TerminalEvent, Good
<1>3. CASE SkipByCondition(t) \/ RequiredMiss(t)
  <2>1. results' = results /\ \E event \in TerminalEvent : Emit(t, event)
    BY <1>3 DEF SkipByCondition, RequiredMiss, TerminalEvent
  <2> QED
    BY <1>3, <2>1, EmitTypes DEF SkipByCondition, RequiredMiss, Dealt
<1>4. CASE Complete(t)
  <2>1. results' \in [Jobs -> Keys \cup {NoResult}]
    BY <1>1, <1>4 DEF Complete
  <2>2. cached' \subseteq Keys
    BY <1>1, <1>4 DEF Complete, CacheableKeys
  <2> QED
    BY <1>4, <2>1, <2>2, EmitTypes DEF Complete, Settled, TerminalEvent, Good
<1>5. CASE Fail(t)
  <2>1. /\ results' = results /\ Emit(t, "failed") /\ Settled(t) /\ cached' = cached
        /\ failures' \subseteq Jobs /\ degradedFailures' \subseteq Jobs
    BY <1>5 DEF Fail
  <2> QED
    BY <2>1, EmitTypes DEF Settled, TerminalEvent
<1> QED
  BY <1>2, <1>3, <1>4, <1>5 DEF Ending

LEMMA AdvanceTypes ==
  ASSUME PlanTypeOK, Advance, TypeOK'
  PROVE  PlanTypeOK'
<1> USE DEF PlanTypeOK
<1>1. CASE CheckBudget \/ AnnounceReady
  BY <1>1 DEF CheckBudget, AnnounceReady, facts, durable
<1>2. CASE Admit
  BY <1>2 DEF Admit, RunningIn, In, facts, durable
<1>3. CASE ReportHalted
  <2>1. outcome' \in [Jobs -> TerminalEvent \cup {"none"}]
    BY <1>3 DEF ReportHalted, Report, TerminalEvent
  <2>2. saved' \in State \cup {NoState}
    BY <1>3, <2>1 DEF ReportHalted, State
  <2> QED
    BY <1>3, <2>1, <2>2 DEF ReportHalted
<1>4. CASE TurnAgain
  BY <1>4 DEF TurnAgain, facts, durable
<1>5. CASE Return
  <2>1. saved' \in State
    BY <1>5 DEF Return, State
  <2> QED
    BY <1>5, <2>1 DEF Return, Verdict, facts
<1> QED
  BY <1>1, <1>2, <1>3, <1>4, <1>5 DEF Advance

\* A run starts from nothing, or from a state file.
LEMMA BeginTypes ==
  ASSUME PlanTypeOK, NEW p \in Plans, NEW resumed \in BOOLEAN, Begin(p, resumed)
  PROVE  PlanTypeOK'
<1> USE DEF PlanTypeOK, Begin
<1>1. TaskOf \in [Jobs -> Description] /\ PlanOrder \in [Jobs -> Nat]
  BY PlanAssumption DEF ValidPlan
<1>2. TypeOK'
  BY <1>1, PoolAssumption DEF TypeOK, Statuses, Waiting
<1>3. previous' \in State \cup {NoState}
  OBVIOUS
<1>4. results' \in [Jobs -> Keys \cup {NoResult}]
  BY DEF State, NoResults
<1>5. runs' \in 0 .. MaxRuns
  BY PlanAssumption
<1>6. outcome' \in [Jobs -> TerminalEvent \cup {"none"}] /\ attempt' \in [Jobs -> Nat]
  BY DEF Unstarted
<1> QED
  BY <1>2, <1>3, <1>4, <1>5, <1>6

LEMMA PlanTypes == PlanTypeOK /\ [PlanNext]_planVars => PlanTypeOK'
<1> SUFFICES ASSUME PlanTypeOK, [PlanNext]_planVars
             PROVE  PlanTypeOK'
  OBVIOUS
<1>1. CASE UNCHANGED planVars
  BY <1>1 DEF planVars, pool, facts, durable, PlanTypeOK, TypeOK
<1>2. CASE \E p \in Plans, resumed \in BOOLEAN : Begin(p, resumed)
  BY <1>2, BeginTypes
<1>3. CASE Advance \/ Crash \/ \E t \in Jobs : Deal(t) \/ Retry(t) \/ Settle(t)
  <2>1. TypeOK'
    BY <1>3, PoolStep, StepTypeOK DEF PlanTypeOK
  <2>2. CASE Crash
    <3>1. cached' \subseteq Keys
      BY <2>2, PlanAssumption DEF Crash, CacheableKeys, PlanTypeOK, Plan
    <3> QED
      BY <2>1, <2>2, <3>1 DEF Crash, facts, PlanTypeOK
  <2>3. ASSUME NEW t \in Jobs, Keeping(t)
        PROVE  PlanTypeOK'
    BY <2>1, <2>3 DEF Keeping, Launch, Retry, facts, durable, PlanTypeOK
  <2> QED
    BY <1>3, <2>1, <2>2, <2>3, AdvanceTypes, EndingTypes DEF Deal, Settle, Keeping, Ending
<1> QED
  BY <1>1, <1>2, <1>3 DEF PlanNext
---------------------------------------------------------------------------
(* The steps and the invariant.                                            *)

\* What the end of a task amounts to.
EndsAs(t, s, event) ==
  /\ Finish(t, s)
  /\ outcome'[t] = event /\ \A k \in Jobs \ {t} : outcome'[k] = outcome[k]
  /\ failures \subseteq failures' /\ degradedFailures \subseteq degradedFailures'
  /\ running' \cup admitted' = (running \cup admitted) \ {t}
  /\ event \in Good \cup {"failed", "cancelled"}
  /\ event = "cancelled" => t \notin plan.allowed
  /\ event = "failed" => t \in failures' \cup degradedFailures' \/ Mode[t] = "observe"
  /\ s = "FAILED" => event = "failed" /\ t \in failures'

LEMMA EndingFacts ==
  ASSUME PlanInv, NEW t \in Jobs, Ending(t)
  PROVE  /\ \E s \in {"SUCCEEDED", "FAILED"}, event \in TerminalEvent : EndsAs(t, s, event)
         /\ Active /\ Active' /\ pc' # "done" /\ admitted' \subseteq admitted /\ running' \subseteq running
         /\ pc' # "admit" => admitted' = {}
         /\ UNCHANGED <<job, cancelledScopes, budgetFailed, plan>>
<1> USE DEF PlanInv, PlanTypeOK, Active, AdmissionOnly, Emit, Finish
<1>1. CASE SkipByCondition(t) \/ Reuse(t) \/ RequiredMiss(t)
  <2>1. /\ pc = "admit" /\ t \in admitted /\ admitted' = admitted \ {t} /\ running' = running
        /\ UNCHANGED <<pc, plan, budgetFailed, job, cancelledScopes>>
    BY <1>1 DEF SkipByCondition, Reuse, RequiredMiss, Turn, Dealt
  <2>2. running' \cup admitted' = (running \cup admitted) \ {t}
    BY <2>1
  <2>3. CASE SkipByCondition(t)
    <3>1. EndsAs(t, "SUCCEEDED", "cancelled")
      BY <2>2, <2>3 DEF SkipByCondition, EndsAs
    <3> QED
      BY <2>1, <3>1 DEF TerminalEvent
  <2>4. CASE Reuse(t)
    <3>1. EndsAs(t, "SUCCEEDED", "reused")
      BY <2>2, <2>4 DEF Reuse, EndsAs, Good
    <3> QED
      BY <2>1, <3>1 DEF TerminalEvent, Good
  <2>5. CASE RequiredMiss(t)
    <3>1. EndsAs(t, "FAILED", "failed")
      BY <2>2, <2>5 DEF RequiredMiss, EndsAs
    <3> QED
      BY <2>1, <3>1 DEF TerminalEvent
  <2> QED
    BY <1>1, <2>3, <2>4, <2>5
<1>2. CASE Complete(t) \/ Fail(t)
  <2>1. /\ pc = "await" /\ t \in running /\ admitted = {} /\ running' = running \ {t} /\ pc' = "loop"
        /\ UNCHANGED <<plan, admitted, budgetFailed, job, cancelledScopes>>
    BY <1>2 DEF Complete, Fail, Settled
  <2>2. running' \cup admitted' = (running \cup admitted) \ {t}
    BY <2>1
  <2>3. CASE Complete(t)
    <3>1. EndsAs(t, "SUCCEEDED", "completed")
      BY <2>2, <2>3 DEF Complete, EndsAs, Good
    <3> QED
      BY <2>1, <3>1 DEF TerminalEvent, Good
  <2>4. CASE Fail(t)
    <3>1. PICK strict \in {Mode[t] = "strict", TRUE} :
            /\ Finish(t, IF strict THEN "FAILED" ELSE "SUCCEEDED")
            /\ failures' = IF strict THEN failures \cup {t} ELSE failures
            /\ degradedFailures' = IF ~strict /\ Mode[t] = "degrade"
                                   THEN degradedFailures \cup {t} ELSE degradedFailures
      BY <2>4 DEF Fail
    <3>2. outcome'[t] = "failed" /\ \A k \in Jobs \ {t} : outcome'[k] = outcome[k]
      BY <2>4 DEF Fail
    <3>3. Mode[t] \in Modes
      BY PlanAssumption
    <3>4. CASE strict
      <4>1. EndsAs(t, "FAILED", "failed")
        BY <2>2, <3>1, <3>2, <3>4 DEF EndsAs
      <4> QED
        BY <2>1, <4>1 DEF TerminalEvent
    <3>5. CASE ~strict
      <4>1. Mode[t] \in {"degrade", "observe"}
        BY <3>3, <3>5 DEF Modes
      <4>2. EndsAs(t, "SUCCEEDED", "failed")
        BY <2>2, <3>1, <3>2, <3>5, <4>1 DEF EndsAs
      <4> QED
        BY <2>1, <4>2 DEF TerminalEvent
    <3> QED
      BY <3>4, <3>5
  <2> QED
    BY <1>2, <2>3, <2>4
<1> QED
  BY <1>1, <1>2 DEF Ending

\* A task ends: the pool and the events agree on how, and why.
LEMMA EndingStep ==
  ASSUME PlanInv, NEW t \in Jobs, Ending(t), PlanTypeOK'
  PROVE  PlanInv'
<1>1. PICK s \in {"SUCCEEDED", "FAILED"}, event \in TerminalEvent : EndsAs(t, s, event)
  BY EndingFacts
<1>2. /\ Active /\ Active' /\ pc' # "done" /\ admitted' \subseteq admitted /\ running' \subseteq running
      /\ pc' # "admit" => admitted' = {}
      /\ UNCHANGED <<job, cancelledScopes, budgetFailed, plan>>
  BY EndingFacts
<1>3. Calms([status EXCEPT ![t] = s])
  BY <1>1, <1>2, FinishCalms DEF EndsAs
<1>4. status \in [Jobs -> Statuses] /\ status[t] = "RUNNING"
  BY <1>1 DEF PlanInv, PlanTypeOK, TypeOK, EndsAs, Finish
<1>5. /\ status'[t] = s
      /\ \A k \in Jobs \ {t} : status[k] \notin Waiting => status'[k] = status[k]
      /\ \A k \in Jobs \ {t} : status[k] \in Waiting =>
           /\ status'[k] \in Waiting \cup {"BLOCKED", "CANCELLED"}
           /\ status'[k] = "CANCELLED" => budgetFailed
  BY <1>2, <1>3, <1>4 DEF Calms, Waiting
<1>6. (\E k \in Jobs : status'[k] \in Halted) =>
        (\E k \in Jobs : status[k] \in Halted) \/ s = "FAILED" \/ budgetFailed
  BY <1>2, <1>3, <1>4 DEF Calms, Halted
<1>7. JobsArePlanned' /\ AdmissionOnly'
  BY <1>2, <1>5 DEF PlanInv, JobsArePlanned, AdmissionOnly, Waiting
<1>8. EventsAgreeWithPool'
  <2> SUFFICES ASSUME NEW k \in Jobs
               PROVE  /\ status'[k] = "RUNNING" <=> k \in running' \cup admitted'
                      /\ status'[k] \in {"PENDING", "READY", "RUNNING"} => outcome'[k] = "none"
                      /\ status'[k] = "SUCCEEDED" => outcome'[k] \in Good \cup {"failed", "cancelled"}
                      /\ status'[k] = "FAILED" => outcome'[k] = "failed"
                      /\ status'[k] = "BLOCKED" => outcome'[k] \in {"none", "blocked"}
                      /\ status'[k] = "CANCELLED" => outcome'[k] \in {"none", "cancelled"}
    BY DEF EventsAgreeWithPool
  <2>1. CASE k = t
    BY <1>1, <1>5, <2>1 DEF EndsAs
  <2>2. CASE k # t
    BY <1>1, <1>2, <1>5, <2>2 DEF EndsAs, PlanInv, EventsAgreeWithPool, Waiting
  <2> QED
    BY <2>1, <2>2
<1>9. HaltsHaveReason'
  <2>1. \A k \in Jobs : status'[k] = "CANCELLED" => budgetFailed'
    BY <1>2, <1>5 DEF PlanInv, HaltsHaveReason
  <2>2. (\E k \in Jobs : status'[k] \in Halted) => failures' # {} \/ budgetFailed'
    BY <1>1, <1>2, <1>6 DEF EndsAs, PlanInv, HaltsHaveReason
  <2> QED
    BY <1>2, <2>1, <2>2 DEF PlanInv, HaltsHaveReason
<1>10. EventsHaveReason'
  BY <1>1, <1>2 DEF EndsAs, PlanInv, EventsHaveReason, Good
<1> QED
  BY <1>2, <1>7, <1>8, <1>9, <1>10 DEF PlanInv, VerdictIsEarned

\* The other steps of the loop end no task.
Quiet ==
  /\ Active /\ Active' /\ pc' # "done"
  /\ UNCHANGED <<job, plan, failures, degradedFailures>>
  /\ Calms(status)
  /\ running' \cup admitted' = running \cup admitted /\ running' \cap admitted' = {}
  /\ (pc' # "admit" \/ budgetFailed' => admitted' = {})
  /\ budgetFailed => budgetFailed'
  /\ cancelledScopes' # {} => budgetFailed'
  /\ \A t \in Jobs :
       outcome'[t] = outcome[t] \/ (outcome[t] = "none" /\ outcome'[t] = Report(status', t))

LEMMA QuietStep ==
  ASSUME PlanInv, Quiet, PlanTypeOK'
  PROVE  PlanInv'
<1> USE DEF PlanInv, Quiet
<1>1. /\ \A t \in Jobs : status[t] \notin Waiting => status'[t] = status[t]
      /\ \A t \in Jobs : status[t] \in Waiting =>
           /\ status'[t] \in Waiting \cup {"BLOCKED", "CANCELLED"}
           /\ status'[t] = "CANCELLED" => budgetFailed'
      /\ (\E t \in Jobs : status'[t] \in Halted) => (\E t \in Jobs : status[t] \in Halted) \/ budgetFailed'
  BY DEF Calms
<1>2. JobsArePlanned' /\ AdmissionOnly'
  BY <1>1 DEF JobsArePlanned, AdmissionOnly, Waiting
<1>3. HaltsHaveReason'
  BY <1>1 DEF HaltsHaveReason
<1>4. \A t \in Jobs : outcome'[t] = outcome[t] \/
        /\ outcome[t] = "none"
        /\ outcome'[t] \in {"none", "blocked", "cancelled"}
        /\ outcome'[t] = "blocked" => status'[t] = "BLOCKED"
        /\ outcome'[t] = "cancelled" => status'[t] = "CANCELLED"
  BY DEF Report
<1>5. EventsAgreeWithPool'
  <2> SUFFICES ASSUME NEW k \in Jobs
               PROVE  /\ status'[k] = "RUNNING" <=> k \in running' \cup admitted'
                      /\ status'[k] \in {"PENDING", "READY", "RUNNING"} => outcome'[k] = "none"
                      /\ status'[k] = "SUCCEEDED" => outcome'[k] \in Good \cup {"failed", "cancelled"}
                      /\ status'[k] = "FAILED" => outcome'[k] = "failed"
                      /\ status'[k] = "BLOCKED" => outcome'[k] \in {"none", "blocked"}
                      /\ status'[k] = "CANCELLED" => outcome'[k] \in {"none", "cancelled"}
    BY DEF EventsAgreeWithPool
  <2>1. CASE status[k] \in Waiting
    BY <1>1, <1>4, <2>1 DEF EventsAgreeWithPool, Waiting
  <2>2. CASE status[k] \notin Waiting
    BY <1>1, <1>4, <2>2 DEF EventsAgreeWithPool, Good
  <2> QED
    BY <2>1, <2>2
<1>6. EventsHaveReason'
  BY <1>3, <1>4 DEF EventsHaveReason, HaltsHaveReason, Halted
<1> QED
  BY <1>2, <1>3, <1>5, <1>6 DEF VerdictIsEarned

\* Admission moves tasks that wait in the pool to those that await their turn.
LEMMA AdmitStep ==
  ASSUME PlanInv, Admit, PlanTypeOK'
  PROVE  PlanInv'
<1> USE DEF PlanInv
<1>1. /\ Active /\ Active' /\ pc = "schedule" /\ pc' = "admit"
      /\ UNCHANGED <<plan, outcome, failures, degradedFailures, running, budgetFailed>>
      /\ admitted' = RunningIn(status') \ RunningIn(status)
  BY DEF Admit, Active, facts
<1>2. /\ UNCHANGED <<job, cancelledScopes>>
      /\ \A t \in Jobs : status[t] \notin Waiting => status'[t] = status[t]
      /\ \A t \in Jobs : status[t] \in Waiting =>
           /\ status'[t] \in Waiting \cup {"RUNNING", "BLOCKED", "CANCELLED"}
           /\ status'[t] = "CANCELLED" => budgetFailed
      /\ (\E t \in Jobs : status'[t] \in Halted) => (\E t \in Jobs : status[t] \in Halted) \/ budgetFailed
      /\ budgetFailed => status' = status
  <2>1. CASE budgetFailed
    BY <2>1 DEF Admit, pool
  <2>2. CASE ~budgetFailed
    <3>1. Schedule /\ UNCHANGED <<job, cancelledScopes>>
      BY <2>2 DEF Admit, Schedule
    <3> QED
      BY <1>1, <2>2, <3>1, ScheduleCalms
  <2> QED
    BY <2>1, <2>2
<1>3. \A t \in Jobs : status'[t] = "RUNNING" <=> status[t] = "RUNNING" \/ t \in admitted'
  BY <1>1, <1>2 DEF RunningIn, In, Waiting
<1>4. admitted = {} /\ \A t \in admitted' : t \in Jobs /\ status[t] # "RUNNING" /\ status[t] \in Waiting
  BY <1>1, <1>2 DEF AdmissionOnly, RunningIn, In
<1>5. AdmissionOnly' /\ JobsArePlanned'
  <2>1. budgetFailed => admitted' = {}
    BY <1>1, <1>2
  <2>2. running \cap admitted' = {}
    BY <1>1, <1>4 DEF EventsAgreeWithPool
  <2> QED
    BY <1>1, <1>2, <2>1, <2>2 DEF AdmissionOnly, JobsArePlanned, Waiting
<1>6. EventsAgreeWithPool'
  <2> SUFFICES ASSUME NEW k \in Jobs
               PROVE  /\ status'[k] = "RUNNING" <=> k \in running' \cup admitted'
                      /\ status'[k] \in {"PENDING", "READY", "RUNNING"} => outcome'[k] = "none"
                      /\ status'[k] = "SUCCEEDED" => outcome'[k] \in Good \cup {"failed", "cancelled"}
                      /\ status'[k] = "FAILED" => outcome'[k] = "failed"
                      /\ status'[k] = "BLOCKED" => outcome'[k] \in {"none", "blocked"}
                      /\ status'[k] = "CANCELLED" => outcome'[k] \in {"none", "cancelled"}
    BY DEF EventsAgreeWithPool
  <2> QED
    BY <1>1, <1>2, <1>3, <1>4 DEF EventsAgreeWithPool, Waiting
<1>7. HaltsHaveReason' /\ EventsHaveReason' /\ VerdictIsEarned'
  BY <1>1, <1>2 DEF HaltsHaveReason, EventsHaveReason, VerdictIsEarned
<1> QED
  BY <1>5, <1>6, <1>7

LEMMA QuietAdvances ==
  ASSUME PlanInv, CheckBudget \/ AnnounceReady \/ ReportHalted \/ TurnAgain
  PROVE  Quiet
<1> USE DEF PlanInv
<1>1. /\ Active /\ Active' /\ pc' \notin {"done", "admit"} /\ admitted = {}
      /\ UNCHANGED <<plan, failures, degradedFailures, running, admitted>>
      /\ pc' # "admit"
  BY DEF CheckBudget, AnnounceReady, ReportHalted, TurnAgain, Active, facts, AdmissionOnly
<1>2. CASE CheckBudget
  <2>1. Calms(status) /\ (cancelledScopes' # {} => budgetFailed') /\ job' = job
    <3>1. CASE budgetFailed' = TRUE /\ CancelScope(Run)
      BY <3>1, CancelCalms DEF CancelScope
    <3>2. CASE UNCHANGED <<budgetFailed, pool>>
      BY <3>2, StayCalms DEF pool, HaltsHaveReason
    <3> QED
      BY <1>2, <3>1, <3>2 DEF CheckBudget
  <2> QED
    BY <1>1, <1>2, <2>1 DEF CheckBudget, Quiet, facts
<1>3. CASE AnnounceReady \/ ReportHalted \/ TurnAgain
  <2>1. budgetFailed' = budgetFailed /\ UNCHANGED <<job, cancelledScopes>>
    BY <1>3 DEF AnnounceReady, ReportHalted, TurnAgain, Snapshot, pool
  <2>2. Calms(status)
    BY <1>1, <1>3, <2>1, SnapshotCalms, StayCalms DEF AnnounceReady, ReportHalted, TurnAgain, pool
  <2>3. \A t \in Jobs :
          outcome'[t] = outcome[t] \/ (outcome[t] = "none" /\ outcome'[t] = Report(status', t))
    BY <1>3 DEF AnnounceReady, ReportHalted, TurnAgain, facts
  <2> QED
    BY <1>1, <2>1, <2>2, <2>3 DEF Quiet, HaltsHaveReason
<1> QED
  BY <1>2, <1>3

LEMMA PlanInvStep == PlanInv /\ [PlanNext]_planVars => PlanInv'
<1> SUFFICES ASSUME PlanInv, [PlanNext]_planVars
             PROVE  PlanInv'
  OBVIOUS
<1>1. PlanTypeOK'
  BY PlanTypes DEF PlanInv
<1>2. CASE UNCHANGED planVars
  BY <1>1, <1>2 DEF planVars, pool, facts, durable, PlanInv, JobsArePlanned, AdmissionOnly,
     EventsAgreeWithPool, HaltsHaveReason, EventsHaveReason, VerdictIsEarned, Active, AllTerminal
<1>3. ASSUME NEW p \in Plans, NEW resumed \in BOOLEAN, Begin(p, resumed)
      PROVE  PlanInv'
  <2>1. /\ pc' = "loop" /\ job' = TaskOf /\ status' = [t \in Jobs |-> "PENDING"]
        /\ outcome' = Unstarted /\ running' = {} /\ admitted' = {} /\ cancelledScopes' = {}
    BY <1>3 DEF Begin
  <2> QED
    BY <1>1, <2>1 DEF PlanInv, JobsArePlanned, AdmissionOnly, EventsAgreeWithPool, HaltsHaveReason,
       EventsHaveReason, VerdictIsEarned, Active, Unstarted, Halted
<1>4. CASE Return
  <2>1. /\ pc' = "done" /\ AllTerminal /\ verdict' = Verdict
        /\ UNCHANGED <<status, cancelledScopes, plan, outcome, failures, degradedFailures, budgetFailed>>
    BY <1>4 DEF Return, pool, facts
  <2>2. VerdictIsEarned'
    BY <2>1 DEF VerdictIsEarned, Verdict, AllTerminal
  <2> QED
    BY <1>1, <2>1, <2>2 DEF PlanInv, JobsArePlanned, AdmissionOnly, EventsAgreeWithPool,
       HaltsHaveReason, EventsHaveReason, Active
<1>5. CASE Crash
  <2>1. /\ pc' = "idle"
        /\ UNCHANGED <<status, cancelledScopes, plan, outcome, failures, degradedFailures, budgetFailed>>
    BY <1>5 DEF Crash, pool, facts
  <2> QED
    BY <1>1, <2>1 DEF PlanInv, JobsArePlanned, AdmissionOnly, EventsAgreeWithPool,
       HaltsHaveReason, EventsHaveReason, VerdictIsEarned, Active
<1>6. ASSUME NEW t \in Jobs, Keeping(t)
      PROVE  PlanInv'
  <2>1. /\ Active /\ Active' /\ pc' = pc /\ pc' # "done"
        /\ UNCHANGED <<job, status, cancelledScopes, plan, outcome, failures, degradedFailures, budgetFailed>>
    BY <1>6 DEF Keeping, Launch, Retry, Turn, pool, facts, Active
  <2>2. /\ running' \cup admitted' = running \cup admitted /\ running' \cap admitted' = {}
        /\ admitted' \subseteq admitted
    BY <1>6, <2>1 DEF Keeping, Launch, Retry, Turn, PlanInv, AdmissionOnly
  <2>3. Calms(status)
    BY <2>1, StayCalms
  <2>4. Quiet
    BY <2>1, <2>2, <2>3 DEF Quiet, PlanInv, AdmissionOnly, HaltsHaveReason
  <2> QED
    BY <1>1, <2>4, QuietStep
<1>7. CASE Advance
  BY <1>1, <1>4, <1>7, AdmitStep, QuietAdvances, QuietStep DEF Advance
<1>8. ASSUME NEW t \in Jobs, Deal(t) \/ Retry(t) \/ Settle(t)
      PROVE  PlanInv'
  BY <1>1, <1>6, <1>8, EndingStep DEF Deal, Settle, Keeping, Ending
<1> QED
  BY <1>2, <1>3, <1>5, <1>7, <1>8 DEF PlanNext

\* The invariant holds in every state.
LEMMA PlanInvHolds == PlanSpec => []PlanInv
  BY PlanInvInit, PlanInvStep, PTL DEF PlanSpec

\* The state of the loop, of its pool and of what it saved is well formed.
THEOREM PlanTypeCorrect == PlanSpec => []PlanTypeOK
<1>1. PlanInv => PlanTypeOK
  BY DEF PlanInv
<1> QED
  BY <1>1, PlanInvHolds, PTL

\* The pool and the terminal events never contradict one another.
THEOREM PlanEventsAgree == PlanSpec => []EventsAgreeWithPool
<1>1. PlanInv => EventsAgreeWithPool
  BY DEF PlanInv
<1> QED
  BY <1>1, PlanInvHolds, PTL

\* A run that calls itself complete lost nothing, for every plan, and however
\* often it was resumed.
THEOREM PlanCompleteIsComplete == PlanSpec => []CompleteMeansComplete
<1>1. PlanInv => CompleteMeansComplete
  BY DEF PlanInv, PlanTypeOK, TerminalEvent, VerdictIsEarned, EventsHaveReason, AllTerminal,
     CompleteMeansComplete
<1> QED
  BY <1>1, PlanInvHolds, PTL

\* Once a budget is spent no handler is called, by admission or by retry.
THEOREM PlanSpentBudget == PlanSpec => SpentBudgetStartsNothing
<1>1. ASSUME PlanInv, [PlanNext]_planVars, budgetFailed, budgetFailed', pc \notin {"idle", "done"}
      PROVE  attempt' = attempt
  <2>1. admitted = {}
    BY <1>1 DEF PlanInv, AdmissionOnly, Active
  <2>2. ~\E p \in Plans, resumed \in BOOLEAN : Begin(p, resumed)
    BY <1>1 DEF Begin
  <2>3. CASE UNCHANGED planVars
    BY <2>3 DEF planVars
  <2>4. CASE Advance
    BY <2>4 DEF Advance, CheckBudget, AnnounceReady, Admit, ReportHalted, TurnAgain, Return
  <2>5. CASE Crash
    BY <2>5 DEF Crash
  <2>6. ASSUME NEW t \in Jobs, Deal(t) \/ Retry(t) \/ Settle(t)
        PROVE  attempt' = attempt
    <3>1. ~Launch(t) /\ ~Retry(t)
      BY <1>1, <2>1 DEF Launch, Turn, Retry
    <3> QED
      BY <2>6, <3>1 DEF Deal, SkipByCondition, Reuse, RequiredMiss, Dealt, Settle, Complete, Fail, Settled
  <2> QED
    BY <1>1, <2>2, <2>3, <2>4, <2>5, <2>6 DEF PlanNext
<1>2. PlanInv /\ [PlanNext]_planVars =>
        [budgetFailed /\ budgetFailed' /\ pc \notin {"idle", "done"} => attempt' = attempt]_planVars
  BY <1>1
<1> QED
  BY <1>2, PlanInvHolds, PTL DEF PlanSpec, SpentBudgetStartsNothing

---------------------------------------------------------------------------
(* Reuse.                                                                  *)

\* One generation more.
Generation(g, n) ==
  IF n = 0 THEN RerunSet
  ELSE g[n - 1] \cup {t \in Jobs : TaskOf[t].dependencies \cap g[n - 1] # {}}

LEMMA DescendedIs ==
  Descended = [n \in 0 .. Cardinality(Jobs) |-> Generation(Descended, n)]
<1> DEFINE N == Cardinality(Jobs)
           S == {m \in 0 .. N : \E g \in [0 .. m -> SUBSET Jobs] :
                                  \A n \in 0 .. m : g[n] = Generation(g, n)}
<1>1. N \in Nat
  BY PoolAssumption, FS_CardinalityType
<1>2. 0 \in S
  <2> DEFINE g == [n \in 0 .. 0 |-> RerunSet]
  <2>1. g \in [0 .. 0 -> SUBSET Jobs] /\ \A n \in 0 .. 0 : g[n] = Generation(g, n)
    BY DEF Generation, RerunSet
  <2> HIDE DEF g
  <2> QED
    BY <1>1, <2>1
<1>3. ASSUME NEW m \in 0 .. N, m < N, m \in S
      PROVE  m + 1 \in S
  <2>1. PICK g \in [0 .. m -> SUBSET Jobs] : \A n \in 0 .. m : g[n] = Generation(g, n)
    BY <1>3
  <2> DEFINE h == [n \in 0 .. (m + 1) |-> IF n = m + 1 THEN Generation(g, n) ELSE g[n]]
  <2>2. m \in Nat /\ m + 1 \in 0 .. N
    BY <1>1, <1>3
  <2>3. h \in [0 .. (m + 1) -> SUBSET Jobs]
    <3>1. Generation(g, m + 1) \in SUBSET Jobs
      <4>1. g[(m + 1) - 1] \in SUBSET Jobs
        BY <2>2
      <4> QED
        BY <2>2, <4>1 DEF Generation
    <3> QED
      BY <2>2, <3>1
  <2>4. ASSUME NEW n \in 0 .. (m + 1)
        PROVE  h[n] = Generation(h, n)
    <3>1. CASE n = 0
      BY <2>1, <2>2, <3>1 DEF Generation
    <3>2. CASE n # 0
      <4>1. n - 1 \in 0 .. m /\ h[n - 1] = g[n - 1]
        BY <2>2, <3>2
      <4>2. Generation(h, n) = Generation(g, n)
        BY <3>2, <4>1 DEF Generation
      <4> QED
        BY <2>1, <2>2, <4>2
    <3> QED
      BY <3>1, <3>2
  <2> HIDE DEF h
  <2> QED
    BY <2>2, <2>3, <2>4
<1>4. N \in S
  <2>1. N \in 0 .. N
    BY <1>1
  <2> HIDE DEF S, N
  <2>2. 0 .. N \subseteq S
    BY <1>1, <1>2, <1>3, Induction
  <2> QED
    BY <2>1, <2>2
<1>5. PICK g \in [0 .. N -> SUBSET Jobs] : \A n \in 0 .. N : g[n] = Generation(g, n)
  BY <1>4
<1>6. g = [n \in 0 .. N |-> Generation(g, n)]
  BY <1>5
<1>7. Descended = CHOOSE f : f = [n \in 0 .. N |-> Generation(f, n)]
  BY DEF Descended, Generation
<1> QED
  BY <1>6, <1>7

\* The generations end in a set that nothing descends from.
LEMMA DescendantsClosed ==
  RerunSet \subseteq DescendantSet /\ ClosedUnderChildren(DescendantSet)
<1>0. PICK N, g : N = Cardinality(Jobs) /\ g = Descended
  OBVIOUS
<1> DEFINE Closed(n) == ClosedUnderChildren(g[n])
           S == {n \in 0 .. N : /\ g[n] \in SUBSET Jobs /\ RerunSet \subseteq g[n]
                                /\ Closed(n) \/ Cardinality(g[n]) >= n}
<1>1. N \in Nat
  BY <1>0, PoolAssumption, FS_CardinalityType
<1>2. \A n \in 0 .. N : g[n] = Generation(g, n)
  BY <1>0, DescendedIs
<1>3. \A T \in SUBSET Jobs : IsFiniteSet(T) /\ Cardinality(T) \in Nat
  BY PoolAssumption, FS_Subset, FS_CardinalityType
<1>4. 0 \in S
  <2>1. 0 \in 0 .. N /\ g[0] = RerunSet
    <3>1. 0 \in 0 .. N
      BY <1>1
    <3>2. g[0] = Generation(g, 0)
      BY <1>2, <3>1
    <3> QED
      BY <3>1, <3>2 DEF Generation
  <2>2. RerunSet \in SUBSET Jobs
    BY DEF RerunSet
  <2>3. Cardinality(g[0]) >= 0
    BY <1>3, <2>1, <2>2
  <2> QED
    BY <2>1, <2>2, <2>3
<1>5. ASSUME NEW n \in 0 .. N, n < N, n \in S
      PROVE  n + 1 \in S
  <2>1. n + 1 \in 0 .. N /\ n + 1 # 0 /\ (n + 1) - 1 = n /\ n \in Nat
    BY <1>1, <1>5
  <2>2. g[n + 1] = g[n] \cup {t \in Jobs : TaskOf[t].dependencies \cap g[n] # {}}
    <3>1. g[n + 1] = Generation(g, n + 1)
      BY <1>2, <2>1
    <3> QED
      BY <2>1, <3>1 DEF Generation
  <2>3. g[n + 1] \in SUBSET Jobs /\ RerunSet \subseteq g[n + 1] /\ g[n] \in SUBSET Jobs
    BY <1>5, <2>2
  <2>4. CASE ClosedUnderChildren(g[n])
    <3>1. g[n + 1] = g[n]
      BY <2>2, <2>4 DEF ClosedUnderChildren
    <3> QED
      BY <2>1, <2>3, <2>4, <3>1
  <2>5. CASE ~ClosedUnderChildren(g[n])
    <3>1. Cardinality(g[n]) >= n
      BY <1>5, <2>5
    <3>2. PICK t \in Jobs : t \in g[n + 1] /\ t \notin g[n]
      BY <2>2, <2>5 DEF ClosedUnderChildren
    <3>3. IsFiniteSet(g[n + 1]) /\ IsFiniteSet(g[n])
      BY <1>3, <2>3
    <3>4. Cardinality(g[n]) < Cardinality(g[n + 1])
      <4>1. g[n] \subseteq g[n + 1] /\ g[n] # g[n + 1]
        BY <2>2, <3>2
      <4> QED
        BY <1>3, <2>3, <3>3, <4>1, FS_Subset
    <3>5. Cardinality(g[n + 1]) >= n + 1
      BY <1>3, <2>1, <2>3, <3>1, <3>4
    <3> QED
      BY <2>1, <2>3, <3>5
  <2> QED
    BY <2>4, <2>5
<1>6. N \in S
  <2>1. N \in 0 .. N
    BY <1>1
  <2> HIDE DEF S
  <2>2. 0 .. N \subseteq S
    BY <1>1, <1>4, <1>5, Induction
  <2> QED
    BY <2>1, <2>2
<1>7. DescendantSet = g[N]
  BY <1>0 DEF DescendantSet
<1>8. CASE Closed(N)
  BY <1>6, <1>7, <1>8
<1>9. CASE Cardinality(g[N]) >= N
  <2>1. g[N] \in SUBSET Jobs
    BY <1>6
  <2>2. g[N] = Jobs
    <3> SUFFICES ASSUME g[N] # Jobs
                 PROVE  FALSE
      OBVIOUS
    <3>1. Cardinality(g[N]) < Cardinality(Jobs)
      BY <1>3, <2>1, PoolAssumption, FS_Subset
    <3> QED
      BY <1>0, <1>1, <1>3, <1>9, <2>1, <3>1
  <2> QED
    BY <1>6, <1>7, <2>2 DEF ClosedUnderChildren
<1> QED
  BY <1>6, <1>8, <1>9

\* What was reused is no descendant of a task to run again, and is the result
\* of its key unless the state file vouched for it.
ReusedInv ==
  \A t \in Jobs : outcome[t] = "reused" =>
    /\ t \notin DescendantSet
    /\ \/ results[t] = plan.cache_key[t]
       \/ previous # NoState /\ previous.terminal_status[t] \in Good

\* The descendants depend on the plan alone.
LEMMA SameDescendants ==
  ASSUME plan' = plan
  PROVE  DescendantSet' = DescendantSet
<1>1. RerunSet' = RerunSet
  BY DEF RerunSet
<1>2. Descended' = Descended
  BY <1>1 DEF Descended
<1> QED
  BY <1>2 DEF DescendantSet

LEMMA ReusedStep == PlanInv /\ ReusedInv /\ [PlanNext]_planVars => ReusedInv'
<1> SUFFICES ASSUME PlanInv, ReusedInv, [PlanNext]_planVars
             PROVE  ReusedInv'
  OBVIOUS
<1> DEFINE Took(t) == /\ t \notin DescendantSet
                      /\ \/ results'[t] = plan.cache_key[t]
                         \/ previous # NoState /\ previous.terminal_status[t] \in Good
<1>1. CASE \E p \in Plans, resumed \in BOOLEAN : Begin(p, resumed)
  BY <1>1 DEF Begin, Unstarted, ReusedInv
<1>2. ASSUME UNCHANGED <<plan, previous>>,
             \A t \in Jobs : outcome'[t] = "reused" =>
               (outcome[t] = "reused" /\ results'[t] = results[t]) \/ Took(t)
      PROVE  ReusedInv'
  BY <1>2, SameDescendants DEF ReusedInv
<1>3. ASSUME UNCHANGED <<plan, previous, results>>,
             \A t \in Jobs : outcome'[t] = "reused" => outcome[t] = "reused"
      PROVE  ReusedInv'
  BY <1>2, <1>3
<1>4. CASE UNCHANGED planVars
  BY <1>3, <1>4 DEF planVars, facts
<1>5. CASE Crash
  BY <1>3, <1>5 DEF Crash, facts
<1>6. CASE Advance
  <2>1. CASE ReportHalted
    BY <1>3, <2>1 DEF ReportHalted, Report
  <2> QED
    BY <1>3, <1>6, <2>1 DEF Advance, CheckBudget, AnnounceReady, Admit, TurnAgain, Return, facts
<1>7. ASSUME NEW t \in Jobs, Keeping(t)
      PROVE  ReusedInv'
  BY <1>3, <1>7 DEF Keeping, Launch, Retry, facts
<1>8. ASSUME NEW t \in Jobs, Ending(t)
      PROVE  ReusedInv'
  <2>1. outcome \in [Jobs -> TerminalEvent \cup {"none"}] /\ results \in [Jobs -> Keys \cup {NoResult}]
    BY DEF PlanInv, PlanTypeOK
  <2>2. CASE Reuse(t)
    <3>1. /\ ReuseFor(t) # NoResult
          /\ results' = [results EXCEPT ![t] = ReuseFor(t)]
          /\ outcome' = [outcome EXCEPT ![t] = "reused"]
          /\ UNCHANGED <<plan, previous>>
      BY <2>2 DEF Reuse, Emit, Dealt
    <3>2. Took(t)
      BY <2>1, <3>1 DEF ReuseFor
    <3> QED
      BY <1>2, <2>1, <3>1, <3>2
  <2>3. CASE SkipByCondition(t) \/ RequiredMiss(t) \/ Complete(t) \/ Fail(t)
    <3>1. UNCHANGED <<plan, previous>>
      BY <2>3 DEF SkipByCondition, RequiredMiss, Complete, Fail, Settled, Dealt
    <3>2. \A k \in Jobs \ {t} : results'[k] = results[k] /\ outcome'[k] = outcome[k]
      BY <2>1, <2>3 DEF SkipByCondition, RequiredMiss, Complete, Fail, Emit
    <3>3. outcome'[t] # "reused"
      BY <2>1, <2>3 DEF SkipByCondition, RequiredMiss, Complete, Fail, Emit
    <3> QED
      BY <1>2, <3>1, <3>2, <3>3
  <2> QED
    BY <1>8, <2>2, <2>3 DEF Ending
<1> QED
  BY <1>1, <1>4, <1>5, <1>6, <1>7, <1>8 DEF PlanNext, Deal, Settle, Keeping, Ending

\* Reuse never crosses a task that is to run again, and takes over only what
\* was computed for the present key or what the state file vouches for, for
\* every plan, however long its chains of dependencies.
THEOREM PlanReuseIsSound == PlanSpec => []ReuseIsSound
<1>1. PlanInit => ReusedInv
  BY DEF PlanInit, Unstarted, ReusedInv
<1>2. ReusedInv => ReuseIsSound
  <2> SUFFICES ASSUME ReusedInv, NEW t \in Jobs, outcome[t] = "reused"
               PROVE  /\ \A r \in Jobs : plan.policy[r] = "rerun" =>
                           \E S \in SUBSET Jobs : r \in S /\ ClosedUnderChildren(S) /\ t \notin S
                      /\ \/ results[t] = plan.cache_key[t]
                         \/ previous # NoState /\ previous.terminal_status[t] \in Good
    BY DEF ReuseIsSound
  <2> DEFINE S == DescendantSet \cap Jobs
  <2>1. t \notin S /\ RerunSet \subseteq S
    BY DescendantsClosed DEF ReusedInv, RerunSet
  <2>2. ClosedUnderChildren(S)
    BY DescendantsClosed DEF ClosedUnderChildren
  <2> HIDE DEF S
  <2>3. S \in SUBSET Jobs
    BY DEF S
  <2> QED
    BY <2>1, <2>2, <2>3 DEF ReusedInv, RerunSet
<1> QED
  BY <1>1, <1>2, ReusedStep, PlanInvHolds, PTL DEF PlanSpec
=============================================================================
