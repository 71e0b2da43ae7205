---------------------------- MODULE TaskExecutor ----------------------------
(***************************************************************************)
(* TaskExecutor.run of shared/software-engineering-intelligence/           *)
(* task-executor.js: one batch of tasks with dependencies, executed by     *)
(* asynchronous callbacks under limits on workers, resource classes,       *)
(* concurrency groups and memory.                                          *)
(*                                                                         *)
(* The program is one thread.  The main loop runs from one await to the    *)
(* next without interruption; while it awaits, callbacks settle, timers    *)
(* fire and the caller may abort.  The result of a task is recorded in one *)
(* microtask and the task leaves the map `running' in a later one, so the  *)
(* loop may wake up between the two.  The split of the tasks that are      *)
(* ready between ready and deferredReady is telemetry and left out.        *)
(***************************************************************************)
EXTENDS Integers, FiniteSets

CONSTANTS
  Tasks,         \* numbers, in the order of compareTasks
  Graphs,        \* [Tasks -> SUBSET Tasks], the dependencies a caller may pass
  Classes, Class,      \* resource classes and the class of each task
  Groups, Group,       \* concurrency groups and the group of each task, or NoGroup
  NoGroup,
  Weight,        \* memoryWeight of each task
  WorkerLimit, ResourceLimits, GroupLimits, MaxMemoryWeight

ASSUME TaskAssumption ==
  /\ Tasks \subseteq Int /\ Tasks # {} /\ IsFiniteSet(Tasks)
  /\ Graphs \subseteq [Tasks -> SUBSET Tasks]
  /\ Class \in [Tasks -> Classes] /\ IsFiniteSet(Classes)
  /\ Group \in [Tasks -> Groups \cup {NoGroup}] /\ NoGroup \notin Groups
  /\ Weight \in [Tasks -> Nat \ {0}]
  /\ WorkerLimit \in Nat \ {0}
  /\ ResourceLimits \in [Classes -> Nat]
  /\ GroupLimits \in [Groups -> Nat \ {0}]
  /\ MaxMemoryWeight \in Nat \ {0}

\* #validateGraph refuses anything else before a task starts: every set of
\* tasks has one that waits for none of the others, and every task fits alone.
ValidGraph(d) ==
  /\ \A S \in SUBSET Tasks : S # {} => \E t \in S : d[t] \cap S = {}
  /\ \A t \in Tasks : ResourceLimits[Class[t]] > 0 /\ Weight[t] <= MaxMemoryWeight

VARIABLES
  deps,     \* the dependencies of the batch, fixed by the call
  at,       \* the main loop: propagate, schedule, suspend, await, done, failed
  ready,    \* pendingReadyIds
  running,  \* the keys of running
  awaited,  \* the tasks that the current Promise.race watches
  results,  \* the state of each result, "none" while there is none
  cause,    \* abortCause of each running task
  batchCancelled

vars == <<deps, at, ready, running, awaited, results, cause, batchCancelled>>

States == {"succeeded", "failed", "timed_out", "cancelled", "blocked"}

Init ==
  /\ deps \in {d \in Graphs : ValidGraph(d)}
  /\ at = "propagate"
  /\ ready = {t \in Tasks : deps[t] = {}}
  /\ running = {} /\ awaited = {}
  /\ results = [t \in Tasks |-> "none"]
  /\ cause = [t \in Tasks |-> "none"]
  /\ batchCancelled \in BOOLEAN

---------------------------------------------------------------------------
(* Limits.                                                                 *)

Least(m, n) == IF m < n THEN m ELSE n

HasResult(t) == results[t] # "none"

\* The tasks whose use of resources has not been given back yet.
Using == {t \in running : ~HasResult(t)}

UsingClass(c) == {t \in Using : Class[t] = c}
UsingGroup(g) == {t \in Using : Group[t] = g}

\* The memory in use, unit by unit.
MemoryOf(S) == {unit \in S \X (1..MaxMemoryWeight) : unit[2] <= Weight[unit[1]]}
MemoryUse == Cardinality(MemoryOf(Using))

\* What the batch could use of each class, slot by slot.
ClassSlots ==
  {slot \in Classes \X (1..Cardinality(Tasks)) :
     slot[2] <= Least(Cardinality({t \in Tasks : Class[t] = slot[1]}), ResourceLimits[slot[1]])}

EffectiveWorkers ==
  Least(WorkerLimit, Least(Cardinality(Tasks), Cardinality(ClassSlots)))

\* Fault: the weight of the task itself is not counted.
CanStartUnweighed(t) ==
  /\ Cardinality(running) < EffectiveWorkers
  /\ Cardinality(UsingClass(Class[t])) < Least(ResourceLimits[Class[t]], EffectiveWorkers)
  /\ MemoryUse < MaxMemoryWeight
  /\ Group[t] # NoGroup => Cardinality(UsingGroup(Group[t])) < GroupLimits[Group[t]]

CanStart(t) ==
  /\ Cardinality(running) < EffectiveWorkers
  /\ Cardinality(UsingClass(Class[t])) < Least(ResourceLimits[Class[t]], EffectiveWorkers)
  /\ MemoryUse + Weight[t] <= MaxMemoryWeight
  /\ Group[t] # NoGroup => Cardinality(UsingGroup(Group[t])) < GroupLimits[Group[t]]

---------------------------------------------------------------------------
(* The main loop.                                                          *)

Met(t) == \A d \in deps[t] : results[d] = "succeeded"

\* Fault: only "failed" counts as not succeeded.
ReleasedByFailure(t) ==
  /\ deps[t] # {} /\ ~HasResult(t) /\ t \notin running \cup ready
  /\ \A d \in deps[t] : HasResult(d)
  /\ Met(t) \/ \E d \in deps[t] : results[d] = "failed"

\* Fault: the first dependency with a result decides.
ReleasedBySome(t) ==
  /\ deps[t] # {} /\ ~HasResult(t) /\ t \notin running \cup ready
  /\ \E d \in deps[t] : HasResult(d)

\* A task that propagateTerminals visits: its last dependency has a result.
Released(t) ==
  /\ deps[t] # {} /\ ~HasResult(t) /\ t \notin running \cup ready
  /\ \A d \in deps[t] : HasResult(d)

Propagate(t) ==
  /\ at = "propagate"
  /\ Released(t)
  /\ IF Met(t) THEN ready' = ready \cup {t} /\ UNCHANGED results
               ELSE results' = [results EXCEPT ![t] = "blocked"] /\ UNCHANGED ready
  /\ UNCHANGED <<deps, at, running, awaited, cause, batchCancelled>>

\* Fault: cancelQueued does not skip the tasks that have a result.
DecideOverwriting ==
  /\ at = "propagate"
  /\ ~ \E t \in Tasks : Released(t)
  /\ IF batchCancelled
     THEN /\ results' = [t \in Tasks |-> IF t \in running THEN results[t] ELSE "cancelled"]
          /\ ready' = {}
          /\ at' = "suspend"
     ELSE /\ at' = "schedule"
          /\ UNCHANGED <<results, ready>>
  /\ UNCHANGED <<deps, running, awaited, cause, batchCancelled>>

\* cancelQueued, or on to scheduleReady, once nothing is left to propagate.
Decide ==
  /\ at = "propagate"
  /\ ~ \E t \in Tasks : Released(t)
  /\ IF batchCancelled
     THEN /\ results' = [t \in Tasks |-> IF HasResult(t) \/ t \in running THEN results[t]
                                                                          ELSE "cancelled"]
          /\ ready' = {}
          /\ at' = "suspend"
     ELSE /\ at' = "schedule"
          /\ UNCHANGED <<results, ready>>
  /\ UNCHANGED <<deps, running, awaited, cause, batchCancelled>>

Start(t) ==
  /\ at = "schedule"
  /\ t \in ready /\ CanStart(t)
  /\ \A u \in ready : CanStart(u) => t <= u
  /\ running' = running \cup {t}
  /\ ready' = ready \ {t}
  /\ UNCHANGED <<deps, at, awaited, results, cause, batchCancelled>>

\* "made no scheduling progress" is thrown if nothing runs and work is left.
Suspend ==
  /\ at = "suspend" \/ (at = "schedule" /\ ~ \E t \in ready : CanStart(t))
  /\ IF \A t \in Tasks : HasResult(t) THEN at' = "done" /\ UNCHANGED awaited
     ELSE IF running = {} THEN at' = "failed" /\ UNCHANGED awaited
     ELSE at' = "await" /\ awaited' = running
  /\ UNCHANGED <<deps, ready, running, results, cause, batchCancelled>>

\* Promise.race settles and the loop condition is tried again.
Wake ==
  /\ at = "await"
  /\ awaited \ running # {}
  /\ at' = IF \A t \in Tasks : HasResult(t) THEN "done" ELSE "propagate"
  /\ awaited' = {}
  /\ UNCHANGED <<deps, ready, running, results, cause, batchCancelled>>

---------------------------------------------------------------------------
(* While the loop awaits.                                                  *)

\* Fault: a task that was aborted is not recorded any more.
SettleUnlessAborted(t, ok) ==
  /\ at = "await"
  /\ t \in Using /\ cause[t] = "none"
  /\ results' = [results EXCEPT ![t] = IF ok THEN "succeeded" ELSE "failed"]
  /\ UNCHANGED <<deps, at, ready, running, awaited, cause, batchCancelled>>

\* The callback returns (or throws, unless ok); the first abort cause decides.
Settle(t, ok) ==
  /\ at = "await"
  /\ t \in Using
  /\ results' = [results EXCEPT ![t] =
       IF cause[t] # "none" THEN cause[t] ELSE IF ok THEN "succeeded" ELSE "failed"]
  /\ UNCHANGED <<deps, at, ready, running, awaited, cause, batchCancelled>>

Depart(t) ==
  /\ at = "await"
  /\ t \in running /\ HasResult(t)
  /\ running' = running \ {t}
  /\ UNCHANGED <<deps, at, ready, awaited, results, cause, batchCancelled>>

\* The timer of a task only signals: the callback goes on until it settles.
Expire(t) ==
  /\ at = "await"
  /\ t \in Using /\ cause[t] = "none"
  /\ cause' = [cause EXCEPT ![t] = "timed_out"]
  /\ UNCHANGED <<deps, at, ready, running, awaited, results, batchCancelled>>

\* The caller's signal: cancelRunning.
Abort ==
  /\ at = "await"
  /\ ~batchCancelled
  /\ batchCancelled' = TRUE
  /\ cause' = [t \in Tasks |-> IF t \in Using /\ cause[t] = "none" THEN "cancelled" ELSE cause[t]]
  /\ UNCHANGED <<deps, at, ready, running, awaited, results>>

MainStep == (\E t \in Tasks : Propagate(t) \/ Start(t)) \/ Decide \/ Suspend \/ Wake

Next ==
  \/ MainStep
  \/ \E t \in Tasks : (\E ok \in BOOLEAN : Settle(t, ok)) \/ Depart(t) \/ Expire(t)
  \/ Abort

Spec == Init /\ [][Next]_vars

\* The thread runs, and every callback settles at last, as it must be written
\* to do: neither a timeout nor an abort can end it.
FairSpec ==
  /\ Spec
  /\ WF_vars(MainStep)
  /\ \A t \in Tasks : WF_vars(\E ok \in BOOLEAN : Settle(t, ok)) /\ WF_vars(Depart(t))
---------------------------------------------------------------------------
(* Properties.                                                             *)

TypeOK ==
  /\ deps \in Graphs
  /\ at \in {"propagate", "schedule", "suspend", "await", "done", "failed"}
  /\ ready \subseteq Tasks /\ running \subseteq Tasks /\ awaited \subseteq Tasks
  /\ results \in [Tasks -> States \cup {"none"}]
  /\ cause \in [Tasks -> {"none", "timed_out", "cancelled"}]
  /\ batchCancelled \in BOOLEAN

\* No limit is exceeded, also when the loop wakes between the microtask that
\* gives the resources back and the one that frees the worker.
WithinLimits ==
  /\ Cardinality(running) <= EffectiveWorkers
  /\ \A c \in Classes : Cardinality(UsingClass(c)) <= ResourceLimits[c]
  /\ \A g \in Groups : Cardinality(UsingGroup(g)) <= GroupLimits[g]
  /\ MemoryUse <= MaxMemoryWeight

\* A valid batch never ends in "valid task graph made no scheduling progress".
NeverStuck == at # "failed"

\* Whatever the order in which callbacks settle, timers fire and the caller
\* aborts, a result means what it says about the dependencies: a task ran to an
\* end of its own only if all of them succeeded, it is blocked only when all of
\* them have a result and one did not succeed, and it is cancelled only in a
\* batch that was.
ResultsFollowTheGraph ==
  \A t \in Tasks :
    /\ results[t] \in {"succeeded", "failed", "timed_out"} \/ t \in running \cup ready => Met(t)
    /\ results[t] = "blocked" => ~Met(t) /\ \A d \in deps[t] : HasResult(d)
    /\ results[t] = "cancelled" => batchCancelled

\* A result is never replaced: not by cancelQueued, a late settlement of the
\* callback or a second visit of propagateTerminals.
ResultsAreFinal ==
  [][\A t \in Tasks : HasResult(t) => results'[t] = results[t]]_results

\* Once the batch is cancelled no task starts (task-executor.test.js:410).
CancelledStartsNothing == [][batchCancelled => running' \subseteq running]_running

\* Every run of a valid batch ends, with a result for every task.
RunEnds == <>(at = "done" /\ \A t \in Tasks : HasResult(t))
===========================================================================
