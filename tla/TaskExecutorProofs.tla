------------------------ MODULE TaskExecutorProofs ------------------------
(***************************************************************************)
(* Proofs about a batch for any tasks, any family of dependency graphs and *)
(* any limits.                                                             *)
(***************************************************************************)
EXTENDS TaskExecutor, FiniteSetTheorems, TLAPS

\* The batch passed validation.
GraphIsValid == deps \in Graphs /\ ValidGraph(deps)

\* A task is in one place: ready, running, or with a result.
OnePlace ==
  \A t \in Tasks : t \in ready => t \notin running /\ ~HasResult(t)

\* A task without dependencies is never forgotten.
RootsArePlaced ==
  \A t \in Tasks : deps[t] = {} => t \in ready \cup running \/ HasResult(t)

\* "cancelled" has one cause.
CancelHasCause == \A t \in Tasks : cause[t] = "cancelled" => batchCancelled

\* What the main loop knows where it is.
LoopKnows ==
  /\ at = "schedule" => ~batchCancelled /\ \A t \in Tasks : ~Released(t)
  /\ at = "suspend" => \A t \in Tasks : HasResult(t) \/ t \in running

Inv ==
  /\ TypeOK /\ GraphIsValid /\ ResultsFollowTheGraph /\ OnePlace /\ RootsArePlaced
  /\ CancelHasCause /\ LoopKnows /\ NeverStuck

\* The invariant holds when run is called.
LEMMA InvInit == TaskAssumption /\ Init => Inv
<1> SUFFICES ASSUME TaskAssumption, Init PROVE Inv
  OBVIOUS
<1>1. deps \in Graphs /\ ValidGraph(deps) /\ deps \in [Tasks -> SUBSET Tasks]
  BY DEF Init, TaskAssumption
<1>2. TypeOK
  BY <1>1 DEF Init, TypeOK
<1>3. ResultsFollowTheGraph
  BY DEF Init, ResultsFollowTheGraph, Met
<1> QED
  BY <1>1, <1>2, <1>3 DEF Init, Inv, GraphIsValid, OnePlace, RootsArePlaced, CancelHasCause,
     LoopKnows, NeverStuck, HasResult

\* The types hold for any tasks and limits.
LEMMA TypeStep == TaskAssumption /\ TypeOK /\ [Next]_vars => TypeOK'
<1> SUFFICES ASSUME TaskAssumption, TypeOK, [Next]_vars PROVE TypeOK'
  OBVIOUS
<1> USE DEF TypeOK, States
<1>1. ASSUME NEW t \in Tasks, Propagate(t) PROVE TypeOK'
  BY <1>1 DEF Propagate
<1>2. ASSUME NEW t \in Tasks, Start(t) PROVE TypeOK'
  BY <1>2 DEF Start
<1>3. CASE Decide
  BY <1>3 DEF Decide
<1>4. CASE Suspend \/ Wake
  BY <1>4 DEF Suspend, Wake
<1>5. ASSUME NEW t \in Tasks, NEW ok \in BOOLEAN, Settle(t, ok) PROVE TypeOK'
  <2>1. cause[t] \in {"none", "timed_out", "cancelled"}
    OBVIOUS
  <2> QED
    BY <1>5, <2>1 DEF Settle
<1>6. ASSUME NEW t \in Tasks, Depart(t) \/ Expire(t) PROVE TypeOK'
  BY <1>6 DEF Depart, Expire
<1>7. CASE Abort
  BY <1>7 DEF Abort
<1>8. CASE UNCHANGED vars
  BY <1>8 DEF vars
<1> QED
  BY <1>1, <1>2, <1>3, <1>4, <1>5, <1>6, <1>7, <1>8 DEF Next, MainStep

\* A step adds results and never replaces one.
LEMMA ResultsStay ==
  ASSUME TypeOK, [Next]_vars, NEW t \in Tasks, HasResult(t)
  PROVE  results'[t] = results[t]
<1> USE DEF TypeOK, HasResult
<1>1. ASSUME NEW u \in Tasks, Propagate(u) PROVE results'[t] = results[t]
  BY <1>1 DEF Propagate, Released
<1>2. CASE Decide
  BY <1>2 DEF Decide
<1>3. ASSUME NEW u \in Tasks, NEW ok \in BOOLEAN, Settle(u, ok) PROVE results'[t] = results[t]
  BY <1>3 DEF Settle, Using
<1>4. CASE UNCHANGED results
  BY <1>4
<1>5. ASSUME NEW u \in Tasks, Start(u) \/ Depart(u) \/ Expire(u) PROVE UNCHANGED results
  BY <1>5 DEF Start, Depart, Expire
<1>6. CASE Suspend \/ Wake \/ Abort \/ UNCHANGED vars
  BY <1>6 DEF Suspend, Wake, Abort, vars
<1> QED
  BY <1>1, <1>2, <1>3, <1>4, <1>5, <1>6 DEF Next, MainStep

\* The graph is fixed by the call.
LEMMA GraphStays == [Next]_vars => UNCHANGED deps
  BY DEF Next, MainStep, Propagate, Start, Decide, Suspend, Wake, Settle, Depart, Expire, Abort,
     vars

\* A verdict on the dependencies stands.
LEMMA MetStays ==
  ASSUME TaskAssumption, TypeOK, [Next]_vars, NEW t \in Tasks
  PROVE  /\ Met(t) => Met(t)'
         /\ (\A d \in deps[t] : HasResult(d)) =>
              (\A d \in deps[t] : HasResult(d))' /\ (Met(t)' => Met(t))
<1>1. deps[t] \subseteq Tasks /\ deps' = deps
  BY GraphStays DEF TypeOK, TaskAssumption
<1>2. \A d \in deps[t] : HasResult(d) => results'[d] = results[d]
  BY <1>1, ResultsStay
<1> QED
  BY <1>1, <1>2 DEF Met, HasResult

\* A task in an empty executor always fits.
LEMMA EmptyFits ==
  ASSUME TaskAssumption, TypeOK, GraphIsValid, running = {}, NEW t \in Tasks
  PROVE  CanStart(t)
<1>1. Using = {} /\ UsingClass(Class[t]) = {} /\ UsingGroup(Group[t]) = {}
  BY DEF Using, UsingClass, UsingGroup
<1>2. MemoryOf({}) = {}
  BY DEF MemoryOf
<1>3. Cardinality({}) = 0
  BY FS_EmptySet
<1>4. Cardinality(Tasks) \in Nat \ {0}
  BY FS_EmptySet, FS_CardinalityType DEF TaskAssumption
<1>5. Cardinality(ClassSlots) \in Nat \ {0}
  <2>1. ClassSlots \subseteq Classes \X (1..Cardinality(Tasks))
    BY DEF ClassSlots
  <2>2. IsFiniteSet(1..Cardinality(Tasks))
    BY <1>4, FS_Interval
  <2>3. IsFiniteSet(Classes \X (1..Cardinality(Tasks)))
    BY <2>2, FS_Product DEF TaskAssumption
  <2>4. IsFiniteSet(ClassSlots)
    BY <2>1, <2>3, FS_Subset
  <2>5. <<Class[t], 1>> \in ClassSlots
    <3> DEFINE Same == {u \in Tasks : Class[u] = Class[t]}
    <3>1. IsFiniteSet(Same) /\ t \in Same
      BY FS_Subset DEF TaskAssumption
    <3>2. Cardinality(Same) \in Nat \ {0}
      BY <3>1, FS_EmptySet, FS_CardinalityType
    <3>3. ResourceLimits[Class[t]] \in Nat \ {0} /\ Class[t] \in Classes
      BY DEF GraphIsValid, ValidGraph, TaskAssumption
    <3>4. 1 <= Least(Cardinality(Same), ResourceLimits[Class[t]])
      BY <3>2, <3>3 DEF Least
    <3>5. 1 \in 1..Cardinality(Tasks)
      BY <1>4
    <3> QED
      BY <3>3, <3>4, <3>5 DEF ClassSlots
  <2> QED
    BY <2>4, <2>5, FS_EmptySet, FS_CardinalityType
<1>6. EffectiveWorkers \in Nat \ {0}
  BY <1>4, <1>5 DEF EffectiveWorkers, Least, TaskAssumption
<1>7. /\ ResourceLimits[Class[t]] \in Nat \ {0}
      /\ Weight[t] \in Nat /\ Weight[t] <= MaxMemoryWeight
      /\ Group[t] # NoGroup => GroupLimits[Group[t]] \in Nat \ {0}
  BY DEF GraphIsValid, ValidGraph, TaskAssumption
<1>8. 0 < Least(ResourceLimits[Class[t]], EffectiveWorkers)
  BY <1>6, <1>7 DEF Least
<1> QED
  BY <1>1, <1>2, <1>3, <1>6, <1>7, <1>8 DEF CanStart, MemoryUse, Least

\* Results follow the graph after every step.
LEMMA FollowStep ==
  ASSUME TaskAssumption, Inv, [Next]_vars
  PROVE  ResultsFollowTheGraph'
<1> USE DEF Inv
<1>0. /\ deps' = deps /\ TypeOK /\ TypeOK' /\ \A t \in Tasks : deps[t] \subseteq Tasks
      /\ batchCancelled => batchCancelled'
  <2>1. \A t \in Tasks : deps[t] \subseteq Tasks
    BY DEF TypeOK, TaskAssumption
  <2>2. batchCancelled => batchCancelled'
    BY DEF Next, MainStep, Propagate, Start, Decide, Suspend, Wake, Settle, Depart, Expire,
       Abort, vars
  <2> QED
    BY <2>1, <2>2, TypeStep, GraphStays
<1> SUFFICES ASSUME NEW t \in Tasks
             PROVE  /\ results'[t] \in {"succeeded", "failed", "timed_out"}
                         \/ t \in running' \cup ready' => Met(t)'
                    /\ results'[t] = "blocked" => ~Met(t)' /\ (\A d \in deps[t] : HasResult(d))'
                    /\ results'[t] = "cancelled" => batchCancelled'
  BY <1>0 DEF ResultsFollowTheGraph
<1>1. /\ Met(t) => Met(t)'
      /\ (\A d \in deps[t] : HasResult(d)) =>
           (\A d \in deps[t] : HasResult(d))' /\ (Met(t)' => Met(t))
  BY <1>0, MetStays
<1>2. CASE results'[t] = results[t] /\ (t \in running' \cup ready' => t \in running \cup ready)
  BY <1>0, <1>1, <1>2 DEF ResultsFollowTheGraph
<1>3. CASE Propagate(t)
  <2>1. CASE Met(t)
    <3>1. results'[t] = results[t] /\ results[t] = "none"
      BY <1>3, <2>1 DEF Propagate, Released, HasResult
    <3> QED
      BY <1>1, <2>1, <3>1
  <2>2. CASE ~Met(t)
    <3>1. results'[t] = "blocked" /\ t \notin running' \cup ready'
          /\ \A d \in deps[t] : HasResult(d)
      BY <1>0, <1>3, <2>2 DEF Propagate, Released, TypeOK
    <3> QED
      BY <1>1, <2>2, <3>1
  <2> QED
    BY <2>1, <2>2
<1>4. CASE Decide
  <2>1. /\ running' = running /\ ready' \subseteq ready
        /\ \/ results'[t] = results[t]
           \/ results'[t] = "cancelled" /\ batchCancelled /\ t \notin running /\ ready' = {}
    BY <1>4 DEF Decide
  <2>2. CASE results'[t] = results[t]
    BY <1>2, <2>1, <2>2
  <2>3. CASE results'[t] = "cancelled" /\ batchCancelled /\ t \notin running /\ ready' = {}
    BY <1>0, <2>1, <2>3
  <2> QED
    BY <2>1, <2>2, <2>3
<1>5. ASSUME NEW ok \in BOOLEAN, Settle(t, ok)
      PROVE  /\ results'[t] \in {"succeeded", "failed", "timed_out"}
                  \/ t \in running' \cup ready' => Met(t)'
             /\ results'[t] = "blocked" => ~Met(t)' /\ (\A d \in deps[t] : HasResult(d))'
             /\ results'[t] = "cancelled" => batchCancelled'
  <2>1. t \in running /\ batchCancelled' = batchCancelled
    BY <1>5 DEF Settle, Using
  <2>2. Met(t)
    BY <2>1 DEF ResultsFollowTheGraph
  <2>3. results'[t] = IF cause[t] # "none" THEN cause[t]
                      ELSE IF ok THEN "succeeded" ELSE "failed"
    BY <1>0, <1>5 DEF Settle, TypeOK
  <2>4. cause[t] \in {"none", "timed_out", "cancelled"}
    BY <1>0 DEF TypeOK
  <2> QED
    BY <1>1, <2>1, <2>2, <2>3, <2>4 DEF CancelHasCause
<1>6. ASSUME NEW u \in Tasks, u # t, Propagate(u) \/ (\E ok \in BOOLEAN : Settle(u, ok))
      PROVE  results'[t] = results[t] /\ (t \in running' \cup ready' => t \in running \cup ready)
  BY <1>0, <1>6 DEF Propagate, Settle, TypeOK
<1>7. ASSUME NEW u \in Tasks, Start(u) \/ Depart(u) \/ Expire(u)
      PROVE  results'[t] = results[t] /\ (t \in running' \cup ready' => t \in running \cup ready)
  BY <1>7 DEF Start, Depart, Expire
<1>8. CASE Suspend \/ Wake \/ Abort \/ UNCHANGED vars
  BY <1>2, <1>8 DEF Suspend, Wake, Abort, vars
<1> QED
  BY <1>2, <1>3, <1>4, <1>5, <1>6, <1>7, <1>8 DEF Next, MainStep

\* Tasks stay in their one place, and roots in some place.
LEMMA PlaceStep ==
  ASSUME TaskAssumption, Inv, [Next]_vars
  PROVE  OnePlace' /\ RootsArePlaced' /\ CancelHasCause'
<1> USE DEF Inv
<1>0. deps' = deps /\ TypeOK /\ TypeOK'
  BY TypeStep, GraphStays
<1>1. ASSUME NEW t \in Tasks, Propagate(t) PROVE OnePlace' /\ RootsArePlaced' /\ CancelHasCause'
  BY <1>0, <1>1 DEF Propagate, Released, OnePlace, RootsArePlaced, CancelHasCause, HasResult, TypeOK
<1>2. ASSUME NEW t \in Tasks, Start(t) PROVE OnePlace' /\ RootsArePlaced' /\ CancelHasCause'
  BY <1>0, <1>2 DEF Start, OnePlace, RootsArePlaced, CancelHasCause, HasResult
<1>3. CASE Decide
  <2>1. CASE batchCancelled
    BY <1>0, <1>3, <2>1 DEF Decide, OnePlace, RootsArePlaced, CancelHasCause, HasResult
  <2>2. CASE ~batchCancelled
    BY <1>0, <1>3, <2>2 DEF Decide, OnePlace, RootsArePlaced, CancelHasCause, HasResult
  <2> QED
    BY <2>1, <2>2
<1>4. CASE Suspend \/ Wake \/ UNCHANGED vars
  <2>1. UNCHANGED <<deps, ready, running, results, cause, batchCancelled>>
    BY <1>4 DEF Suspend, Wake, vars
  <2> QED
    BY <2>1 DEF OnePlace, RootsArePlaced, CancelHasCause, HasResult
<1>5. ASSUME NEW t \in Tasks, NEW ok \in BOOLEAN, Settle(t, ok)
      PROVE  OnePlace' /\ RootsArePlaced' /\ CancelHasCause'
  <2>1. /\ t \in running /\ UNCHANGED <<ready, running, cause, batchCancelled>>
        /\ \A u \in Tasks : u # t => results'[u] = results[u]
    BY <1>0, <1>5 DEF Settle, Using, TypeOK
  <2>2. \A u \in Tasks : HasResult(u) => HasResult(u)'
    BY <1>0, ResultsStay DEF HasResult
  <2> QED
    BY <1>0, <2>1, <2>2 DEF OnePlace, RootsArePlaced, CancelHasCause, HasResult
<1>6. ASSUME NEW t \in Tasks, Depart(t) \/ Expire(t)
      PROVE  OnePlace' /\ RootsArePlaced' /\ CancelHasCause'
  <2>1. CASE Depart(t)
    BY <1>0, <2>1 DEF Depart, OnePlace, RootsArePlaced, CancelHasCause, HasResult
  <2>2. CASE Expire(t)
    <3>1. /\ UNCHANGED <<ready, running, results, batchCancelled>>
          /\ \A u \in Tasks : cause'[u] = "cancelled" => cause[u] = "cancelled"
      BY <1>0, <2>2 DEF Expire, TypeOK
    <3> QED
      BY <1>0, <3>1 DEF OnePlace, RootsArePlaced, CancelHasCause, HasResult
  <2> QED
    BY <1>6, <2>1, <2>2
<1>7. CASE Abort
  BY <1>0, <1>7 DEF Abort, OnePlace, RootsArePlaced, CancelHasCause, HasResult, TypeOK
<1> QED
  BY <1>1, <1>2, <1>3, <1>4, <1>5, <1>6, <1>7 DEF Next, MainStep

\* If work is left and nothing runs, the scheduler can start something: of the
\* tasks without a result take one that waits for none of the others.
LEMMA SomethingFits ==
  ASSUME TaskAssumption, Inv, at \in {"schedule", "suspend"}, running = {},
         \E t \in Tasks : ~HasResult(t)
  PROVE  \E t \in ready : CanStart(t)
<1> USE DEF Inv
<1> DEFINE Left == {t \in Tasks : ~HasResult(t)}
<1>1. PICK t \in Left : deps[t] \cap Left = {}
  BY DEF GraphIsValid, ValidGraph
<1>2. \A d \in deps[t] : HasResult(d)
  BY <1>1 DEF TypeOK, TaskAssumption
<1>3. at = "schedule" /\ ~Released(t)
  BY <1>1 DEF LoopKnows
<1>4. t \in ready
  BY <1>1, <1>2, <1>3 DEF Released, RootsArePlaced
<1>5. CanStart(t)
  BY <1>1, EmptyFits
<1> QED
  BY <1>4, <1>5

\* What the loop knows holds again after every step, and it does not fail.
LEMMA LoopStep ==
  ASSUME TaskAssumption, Inv, [Next]_vars
  PROVE  LoopKnows' /\ NeverStuck'
<1> USE DEF Inv
<1>0. deps' = deps /\ TypeOK /\ TypeOK'
  BY TypeStep, GraphStays
<1>1. ASSUME NEW t \in Tasks, Propagate(t) PROVE LoopKnows' /\ NeverStuck'
  BY <1>1 DEF Propagate, LoopKnows, NeverStuck
<1>2. ASSUME NEW t \in Tasks, Start(t) PROVE LoopKnows' /\ NeverStuck'
  <2>1. at = "schedule" /\ UNCHANGED <<at, results, batchCancelled>>
        /\ running' = running \cup {t} /\ ready' = ready \ {t}
    BY <1>2 DEF Start
  <2>2. \A u \in Tasks : ~Released(u)'
    BY <1>0, <2>1 DEF LoopKnows, Released, HasResult
  <2> QED
    BY <2>1, <2>2 DEF LoopKnows, NeverStuck
<1>3. CASE Decide
  <2>1. CASE batchCancelled
    BY <1>3, <2>1 DEF Decide, LoopKnows, NeverStuck, HasResult
  <2>2. CASE ~batchCancelled
    <3>1. /\ UNCHANGED <<results, ready, running, batchCancelled>> /\ at' = "schedule"
          /\ \A u \in Tasks : ~Released(u)
      BY <1>3, <2>2 DEF Decide
    <3> QED
      BY <1>0, <2>2, <3>1 DEF LoopKnows, NeverStuck, Released, HasResult
  <2> QED
    BY <2>1, <2>2
<1>4. CASE Suspend
  <2>1. at \in {"schedule", "suspend"} /\ at' \in {"done", "failed", "await"}
    BY <1>4 DEF Suspend
  <2>2. at' # "failed"
    <3>1. ASSUME running = {}, \E t \in Tasks : ~HasResult(t) PROVE FALSE
      <4>1. \E t \in ready : CanStart(t)
        BY <2>1, <3>1, SomethingFits
      <4>2. at = "suspend"
        BY <1>4, <4>1 DEF Suspend
      <4> QED
        BY <3>1, <4>2 DEF LoopKnows
    <3> QED
      BY <1>4, <3>1 DEF Suspend
  <2> QED
    BY <2>1, <2>2 DEF LoopKnows, NeverStuck
<1>5. CASE Wake
  BY <1>5 DEF Wake, LoopKnows, NeverStuck
<1>6. ASSUME NEW t \in Tasks, (\E ok \in BOOLEAN : Settle(t, ok)) \/ Depart(t) \/ Expire(t)
      PROVE  LoopKnows' /\ NeverStuck'
  BY <1>6 DEF Settle, Depart, Expire, LoopKnows, NeverStuck
<1>7. CASE Abort
  BY <1>7 DEF Abort, LoopKnows, NeverStuck
<1>8. CASE UNCHANGED vars
  BY <1>8 DEF vars, LoopKnows, NeverStuck, Released, HasResult
<1> QED
  BY <1>1, <1>2, <1>3, <1>4, <1>5, <1>6, <1>7, <1>8 DEF Next, MainStep

\* Every step keeps the invariant.
LEMMA InvStep == TaskAssumption /\ Inv /\ [Next]_vars => Inv'
<1> SUFFICES ASSUME TaskAssumption, Inv, [Next]_vars PROVE Inv'
  OBVIOUS
<1>1. TypeOK' /\ deps' = deps
  BY TypeStep, GraphStays DEF Inv
<1>2. GraphIsValid'
  BY <1>1 DEF Inv, GraphIsValid, ValidGraph
<1> QED
  BY <1>1, <1>2, FollowStep, PlaceStep, LoopStep DEF Inv

\* The invariant holds in every reachable state.
LEMMA InvHolds == Spec => []Inv
  BY TaskAssumption, InvInit, InvStep, PTL DEF Spec

\* The types hold for any tasks, graphs and limits.
THEOREM TaskTypeCorrect == Spec => []TypeOK
<1>1. Inv => TypeOK
  BY DEF Inv
<1> QED
  BY <1>1, InvHolds, PTL

\* A valid batch of any size never ends in "made no scheduling progress".
THEOREM TaskNeverStuck == Spec => []NeverStuck
<1>1. Inv => NeverStuck
  BY DEF Inv
<1> QED
  BY <1>1, InvHolds, PTL

\* Results follow the graph, whatever settles, expires or is aborted when.
THEOREM TaskResultsFollowTheGraph == Spec => []ResultsFollowTheGraph
<1>1. Inv => ResultsFollowTheGraph
  BY DEF Inv
<1> QED
  BY <1>1, InvHolds, PTL

\* No result is ever replaced.
THEOREM TaskResultsAreFinal == Spec => ResultsAreFinal
<1>1. ASSUME Inv, [Next]_vars
      PROVE  \A t \in Tasks : HasResult(t) => results'[t] = results[t]
  BY <1>1, ResultsStay DEF Inv
<1>2. Inv /\ [Next]_vars => [\A t \in Tasks : HasResult(t) => results'[t] = results[t]]_results
  BY <1>1
<1> QED
  BY <1>2, InvHolds, PTL DEF Spec, ResultsAreFinal

\* A cancelled batch starts nothing.
THEOREM TaskCancelledStartsNothing == Spec => CancelledStartsNothing
<1>1. ASSUME Inv, [Next]_vars, batchCancelled
      PROVE  running' \subseteq running
  <2>1. ASSUME NEW t \in Tasks PROVE ~Start(t)
    BY <1>1 DEF Inv, LoopKnows, Start
  <2> QED
    BY <1>1, <2>1 DEF Next, MainStep, Propagate, Decide, Suspend, Wake, Settle, Depart, Expire,
       Abort, vars
<1>2. Inv /\ [Next]_vars => [batchCancelled => running' \subseteq running]_running
  BY <1>1
<1> QED
  BY <1>2, InvHolds, PTL DEF Spec, CancelledStartsNothing

\* One task more adds at most one to a count.
LEMMA OneMore ==
  ASSUME NEW S, IsFiniteSet(S), NEW e, NEW T \in SUBSET (S \cup {e})
  PROVE  Cardinality(T) \in Nat /\ Cardinality(T) <= Cardinality(S) + 1
<1>1. IsFiniteSet(S \cup {e}) /\ Cardinality(S \cup {e}) <= Cardinality(S) + 1
  <2>1. /\ IsFiniteSet(S \cup {e})
        /\ Cardinality(S \cup {e}) = IF e \in S THEN Cardinality(S) ELSE Cardinality(S) + 1
    BY FS_AddElement
  <2>2. Cardinality(S) \in Nat
    BY FS_CardinalityType
  <2> QED
    BY <2>1, <2>2
<1>2. IsFiniteSet(T) /\ Cardinality(T) <= Cardinality(S \cup {e})
  BY <1>1, FS_Subset
<1> QED
  BY <1>1, <1>2, FS_CardinalityType

\* A set of tasks takes a finite number of units, and fewer tasks take fewer.
LEMMA MemoryFacts ==
  ASSUME TaskAssumption, NEW S \in SUBSET Tasks, NEW T \in SUBSET S
  PROVE  /\ IsFiniteSet(S) /\ IsFiniteSet(T)
         /\ Cardinality(S) \in Nat /\ Cardinality(T) \in Nat /\ Cardinality(T) <= Cardinality(S)
         /\ IsFiniteSet(MemoryOf(S)) /\ Cardinality(MemoryOf(S)) \in Nat
         /\ Cardinality(MemoryOf(T)) \in Nat
         /\ Cardinality(MemoryOf(T)) <= Cardinality(MemoryOf(S))
<1>1. IsFiniteSet(S)
  BY FS_Subset DEF TaskAssumption
<1>2. IsFiniteSet(1..MaxMemoryWeight)
  BY FS_Interval DEF TaskAssumption
<1>3. IsFiniteSet(S \X (1..MaxMemoryWeight))
  BY <1>1, <1>2, FS_Product
<1>4. MemoryOf(S) \subseteq S \X (1..MaxMemoryWeight)
  BY DEF MemoryOf
<1>5. IsFiniteSet(MemoryOf(S))
  BY <1>3, <1>4, FS_Subset
<1>6. MemoryOf(T) \subseteq MemoryOf(S)
  BY DEF MemoryOf
<1>7. IsFiniteSet(T) /\ Cardinality(T) <= Cardinality(S)
  BY <1>1, FS_Subset
<1>8. IsFiniteSet(MemoryOf(T)) /\ Cardinality(MemoryOf(T)) <= Cardinality(MemoryOf(S))
  BY <1>5, <1>6, FS_Subset
<1> QED
  BY <1>1, <1>5, <1>7, <1>8, FS_CardinalityType

\* A task takes no more units than its weight.
LEMMA OwnMemory ==
  ASSUME TaskAssumption, NEW t \in Tasks
  PROVE  IsFiniteSet(MemoryOf({t})) /\ Cardinality(MemoryOf({t})) <= Weight[t]
<1> DEFINE Units == {n \in 1..Weight[t] : n <= MaxMemoryWeight}
           f == [n \in Units |-> <<t, n>>]
<1>1. Weight[t] \in Nat
  BY DEF TaskAssumption
<1>2. IsFiniteSet(1..Weight[t]) /\ Cardinality(1..Weight[t]) <= Weight[t]
  <2>1. /\ IsFiniteSet(1..Weight[t])
        /\ Cardinality(1..Weight[t]) = IF 1 > Weight[t] THEN 0 ELSE Weight[t] - 1 + 1
    <3>1. 1 \in Int /\ Weight[t] \in Int
      BY <1>1
    <3> HIDE DEF Units, f
    <3> QED
      BY <3>1, FS_Interval
  <2> QED
    BY <1>1, <2>1
<1>3. IsFiniteSet(Units) /\ Cardinality(Units) <= Cardinality(1..Weight[t])
  BY <1>2, FS_Subset
<1>4. f \in Surjection(Units, MemoryOf({t}))
  <2>1. \A n \in Units : <<t, n>> \in MemoryOf({t})
    BY <1>1 DEF MemoryOf, TaskAssumption
  <2>2. \A unit \in MemoryOf({t}) : unit[2] \in Units /\ unit = <<t, unit[2]>>
    BY <1>1 DEF MemoryOf, TaskAssumption
  <2>3. f \in [Units -> MemoryOf({t})]
    BY <2>1
  <2>4. \A unit \in MemoryOf({t}) : \E n \in Units : f[n] = unit
    BY <2>2
  <2> QED
    BY <2>3, <2>4 DEF Surjection
<1>5. IsFiniteSet(MemoryOf({t})) /\ Cardinality(MemoryOf({t})) <= Cardinality(Units)
  BY <1>3, <1>4, FS_Surjection
<1> QED
  BY <1>1, <1>2, <1>3, <1>5, FS_CardinalityType

\* The worker limit is a number.
LEMMA WorkersCount ==
  ASSUME TaskAssumption
  PROVE  EffectiveWorkers \in Nat
<1>1. Cardinality(Tasks) \in Nat
  BY FS_CardinalityType DEF TaskAssumption
<1>2. IsFiniteSet(Classes \X (1..Cardinality(Tasks)))
  <2>1. IsFiniteSet(1..Cardinality(Tasks))
    BY <1>1, FS_Interval
  <2> QED
    BY <2>1, FS_Product DEF TaskAssumption
<1>3. ClassSlots \subseteq Classes \X (1..Cardinality(Tasks))
  BY DEF ClassSlots
<1>4. Cardinality(ClassSlots) \in Nat
  BY <1>2, <1>3, FS_Subset, FS_CardinalityType
<1> QED
  BY <1>1, <1>4 DEF EffectiveWorkers, Least, TaskAssumption

\* A step other than Start lets no limit be exceeded: fewer tasks run.
LEMMA LimitsShrink ==
  ASSUME TaskAssumption, TypeOK, WithinLimits, running' \subseteq running, Using' \subseteq Using
  PROVE  WithinLimits'
<1>1. running \subseteq Tasks /\ Using \subseteq Tasks
  BY DEF TypeOK, Using
<1>2. Cardinality(running') <= EffectiveWorkers
  <2>1. /\ Cardinality(running') <= Cardinality(running)
        /\ Cardinality(running') \in Nat /\ Cardinality(running) \in Nat
    BY <1>1, MemoryFacts
  <2>2. Cardinality(running) <= EffectiveWorkers /\ EffectiveWorkers \in Nat
    BY WorkersCount DEF WithinLimits
  <2> QED
    BY <2>1, <2>2
<1>3. ASSUME NEW c \in Classes PROVE Cardinality(UsingClass(c)') <= ResourceLimits[c]
  <2>1. UsingClass(c) \subseteq Tasks /\ UsingClass(c)' \subseteq UsingClass(c)
    BY <1>1 DEF UsingClass
  <2>2. Cardinality(UsingClass(c)') <= Cardinality(UsingClass(c))
        /\ Cardinality(UsingClass(c)') \in Nat /\ Cardinality(UsingClass(c)) \in Nat
    BY <2>1, MemoryFacts
  <2>3. Cardinality(UsingClass(c)) <= ResourceLimits[c] /\ ResourceLimits[c] \in Nat
    BY DEF WithinLimits, TaskAssumption
  <2> QED
    BY <2>2, <2>3
<1>4. ASSUME NEW g \in Groups PROVE Cardinality(UsingGroup(g)') <= GroupLimits[g]
  <2>1. UsingGroup(g) \subseteq Tasks /\ UsingGroup(g)' \subseteq UsingGroup(g)
    BY <1>1 DEF UsingGroup
  <2>2. Cardinality(UsingGroup(g)') <= Cardinality(UsingGroup(g))
        /\ Cardinality(UsingGroup(g)') \in Nat /\ Cardinality(UsingGroup(g)) \in Nat
    BY <2>1, MemoryFacts
  <2>3. Cardinality(UsingGroup(g)) <= GroupLimits[g] /\ GroupLimits[g] \in Nat
    BY DEF WithinLimits, TaskAssumption
  <2> QED
    BY <2>2, <2>3
<1>5. MemoryUse' <= MaxMemoryWeight
  <2>1. /\ Cardinality(MemoryOf(Using')) <= Cardinality(MemoryOf(Using))
        /\ Cardinality(MemoryOf(Using')) \in Nat /\ Cardinality(MemoryOf(Using)) \in Nat
    BY <1>1, MemoryFacts
  <2>2. Cardinality(MemoryOf(Using)) <= MaxMemoryWeight /\ MaxMemoryWeight \in Nat
    BY DEF WithinLimits, MemoryUse, TaskAssumption
  <2>3. MemoryUse' = Cardinality(MemoryOf(Using'))
    BY DEF MemoryUse, MemoryOf
  <2> QED
    BY <2>1, <2>2, <2>3
<1> QED
  BY <1>2, <1>3, <1>4, <1>5 DEF WithinLimits, EffectiveWorkers, ClassSlots

\* A task starts only where all four limits leave room for it.
LEMMA LimitsStart ==
  ASSUME TaskAssumption, TypeOK, WithinLimits, NEW t \in Tasks, Start(t)
  PROVE  WithinLimits'
<1>1. running \subseteq Tasks /\ Using \subseteq Tasks
  BY DEF TypeOK, Using
<1>2. running' = running \cup {t} /\ Using' \subseteq Using \cup {t} /\ CanStart(t)
  BY DEF Start, Using, HasResult
<1>3. EffectiveWorkers \in Nat
  BY WorkersCount
<1>4. Cardinality(running') <= EffectiveWorkers
  <2>1. IsFiniteSet(running) /\ Cardinality(running) \in Nat
    BY <1>1, MemoryFacts
  <2>2. Cardinality(running') \in Nat /\ Cardinality(running') <= Cardinality(running) + 1
    BY <1>2, <2>1, OneMore
  <2>3. Cardinality(running) < EffectiveWorkers
    BY <1>2 DEF CanStart
  <2> QED
    BY <1>3, <2>1, <2>2, <2>3
<1>5. ASSUME NEW c \in Classes PROVE Cardinality(UsingClass(c)') <= ResourceLimits[c]
  <2>1. UsingClass(c) \in SUBSET Tasks /\ ResourceLimits[c] \in Nat
        /\ Cardinality(UsingClass(c)) <= ResourceLimits[c]
    BY <1>1 DEF UsingClass, WithinLimits, TaskAssumption
  <2>2. IsFiniteSet(UsingClass(c)) /\ Cardinality(UsingClass(c)) \in Nat
    BY <2>1, MemoryFacts
  <2>3. CASE c = Class[t]
    <3>1. UsingClass(c)' \subseteq UsingClass(c) \cup {t}
      BY <1>2 DEF UsingClass
    <3>2. Cardinality(UsingClass(c)') \in Nat
          /\ Cardinality(UsingClass(c)') <= Cardinality(UsingClass(c)) + 1
      BY <2>2, <3>1, OneMore
    <3>3. Cardinality(UsingClass(c)) < ResourceLimits[c]
      BY <1>2, <1>3, <2>1, <2>2, <2>3 DEF CanStart, Least
    <3> QED
      BY <2>1, <2>2, <3>2, <3>3
  <2>4. CASE c # Class[t]
    <3>1. UsingClass(c)' \subseteq UsingClass(c)
      BY <1>2, <2>4 DEF UsingClass
    <3>2. Cardinality(UsingClass(c)') \in Nat
          /\ Cardinality(UsingClass(c)') <= Cardinality(UsingClass(c))
      BY <2>1, <3>1, MemoryFacts
    <3> QED
      BY <2>1, <2>2, <3>2
  <2> QED
    BY <2>3, <2>4
<1>6. ASSUME NEW g \in Groups PROVE Cardinality(UsingGroup(g)') <= GroupLimits[g]
  <2>1. UsingGroup(g) \in SUBSET Tasks /\ GroupLimits[g] \in Nat /\ g # NoGroup
        /\ Cardinality(UsingGroup(g)) <= GroupLimits[g]
    BY <1>1 DEF UsingGroup, WithinLimits, TaskAssumption
  <2>2. IsFiniteSet(UsingGroup(g)) /\ Cardinality(UsingGroup(g)) \in Nat
    BY <2>1, MemoryFacts
  <2>3. CASE g = Group[t]
    <3>1. UsingGroup(g)' \subseteq UsingGroup(g) \cup {t}
      BY <1>2 DEF UsingGroup
    <3>2. Cardinality(UsingGroup(g)') \in Nat
          /\ Cardinality(UsingGroup(g)') <= Cardinality(UsingGroup(g)) + 1
      BY <2>2, <3>1, OneMore
    <3>3. Cardinality(UsingGroup(g)) < GroupLimits[g]
      BY <1>2, <2>1, <2>3 DEF CanStart
    <3> QED
      BY <2>1, <2>2, <3>2, <3>3
  <2>4. CASE g # Group[t]
    <3>1. UsingGroup(g)' \subseteq UsingGroup(g)
      BY <1>2, <2>4 DEF UsingGroup
    <3>2. Cardinality(UsingGroup(g)') \in Nat
          /\ Cardinality(UsingGroup(g)') <= Cardinality(UsingGroup(g))
      BY <2>1, <3>1, MemoryFacts
    <3> QED
      BY <2>1, <2>2, <3>2
  <2> QED
    BY <2>3, <2>4
<1>7. MemoryUse' <= MaxMemoryWeight
  <2>1. IsFiniteSet(MemoryOf(Using)) /\ Cardinality(MemoryOf(Using)) \in Nat
    BY <1>1, MemoryFacts
  <2>2. /\ IsFiniteSet(MemoryOf({t})) /\ Cardinality(MemoryOf({t})) \in Nat
        /\ Cardinality(MemoryOf({t})) <= Weight[t] /\ Weight[t] \in Nat
    BY OwnMemory, FS_CardinalityType DEF TaskAssumption
  <2>3. MemoryOf(Using \cup {t}) = MemoryOf(Using) \cup MemoryOf({t})
    BY DEF MemoryOf
  <2>4. /\ Cardinality(MemoryOf(Using \cup {t}))
             = Cardinality(MemoryOf(Using)) + Cardinality(MemoryOf({t}))
               - Cardinality(MemoryOf(Using) \cap MemoryOf({t}))
        /\ Cardinality(MemoryOf(Using) \cap MemoryOf({t})) \in Nat
    <3>1. IsFiniteSet(MemoryOf(Using) \cap MemoryOf({t}))
      BY <2>1, FS_Subset
    <3> QED
      BY <2>1, <2>2, <2>3, <3>1, FS_Union, FS_CardinalityType
  <2>5. /\ Cardinality(MemoryOf(Using')) <= Cardinality(MemoryOf(Using \cup {t}))
        /\ Cardinality(MemoryOf(Using')) \in Nat
        /\ Cardinality(MemoryOf(Using \cup {t})) \in Nat
    BY <1>1, <1>2, MemoryFacts
  <2>6. Cardinality(MemoryOf(Using)) + Weight[t] <= MaxMemoryWeight /\ MaxMemoryWeight \in Nat
    BY <1>2 DEF CanStart, MemoryUse, TaskAssumption
  <2>7. MemoryUse' = Cardinality(MemoryOf(Using'))
    BY DEF MemoryUse, MemoryOf
  <2> QED
    BY <2>1, <2>2, <2>4, <2>5, <2>6, <2>7
<1> QED
  BY <1>4, <1>5, <1>6, <1>7 DEF WithinLimits, EffectiveWorkers, ClassSlots

\* No limit is ever exceeded, for any limits and weights, also between the
\* microtask that gives resources back and the one that frees the worker.
THEOREM TaskWithinLimits == Spec => []WithinLimits
<1>1. TaskAssumption /\ Init => WithinLimits
  <2> SUFFICES ASSUME TaskAssumption, Init PROVE WithinLimits
    OBVIOUS
  <2>1. running = {} /\ Using = {} /\ \A c : UsingClass(c) = {} /\ UsingGroup(c) = {}
    BY DEF Init, Using, UsingClass, UsingGroup
  <2>2. MemoryOf({}) = {} /\ Cardinality({}) = 0
    BY FS_EmptySet DEF MemoryOf
  <2>3. EffectiveWorkers \in Nat
    BY WorkersCount
  <2> QED
    BY <2>1, <2>2, <2>3 DEF WithinLimits, MemoryUse, TaskAssumption
<1>2. ASSUME TaskAssumption, TypeOK, WithinLimits, [Next]_vars
      PROVE  WithinLimits'
  <2>1. CASE \E t \in Tasks : Start(t)
    BY <1>2, <2>1, LimitsStart
  <2>2. CASE ~ \E t \in Tasks : Start(t)
    <3>1. running' \subseteq running
      BY <1>2, <2>2 DEF Next, MainStep, Propagate, Decide, Suspend, Wake, Settle, Depart,
         Expire, Abort, vars
    <3>2. Using' \subseteq Using
      BY <1>2, <3>1, ResultsStay DEF Using, HasResult, TypeOK
    <3> QED
      BY <1>2, <3>1, <3>2, LimitsShrink
  <2> QED
    BY <2>1, <2>2
<1>3. TaskAssumption
  BY TaskAssumption
<1> QED
  BY <1>1, <1>2, <1>3, TaskTypeCorrect, PTL DEF Spec
===========================================================================
