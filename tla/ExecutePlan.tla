---------------------------- MODULE ExecutePlan ----------------------------
(***************************************************************************)
(* executePlan of repository-improvement-assessment, execution-runtime.js: *)
(* the loop that drives an ExecutorPool through one execution plan, with   *)
(* reuse, conditions, failure policies, budgets, and the state file from   *)
(* which a later run continues after a crash.                              *)
(*                                                                         *)
(* The pool is composed by EXTENDS: every step of the loop that touches it *)
(* is one of the actions of ExecutorPool.  The loop is one thread; only    *)
(* its await gives control away, but the process may die anywhere, so the  *)
(* loop is cut into the steps between which the durable state differs.     *)
(*                                                                         *)
(* A result is the cache key under which it was computed.  The event log   *)
(* is left out (its numbering continues from the larger of state and log), *)
(* and the budgets of time, tokens and tool calls run out at any turn.     *)
(***************************************************************************)
EXTENDS ExecutorPool

CONSTANTS
  Run,          \* the scope id of the run
  TaskOf,       \* [Jobs -> Description], what the plan submits; the same in all plans
  PlanOrder,    \* [Jobs -> Nat], the place of a task in plan.tasks
  Reusable,     \* tasks whose reuse.component is not null
  Mode,         \* [Jobs -> Modes], failure_policy.mode
  MaxRetries,   \* [Jobs -> Nat]
  Keys,         \* cache keys
  Plans,        \* the plans that a run may be started with
  MaxRuns,      \* bound on the runs explored
  NoResult, NoState

Modes    == {"strict", "degrade", "observe"}
Policies == {"auto", "rerun", "require-reuse"}
Plan     == [policy : [Jobs -> Policies], cache_key : [Jobs -> Keys],
             allowed : SUBSET Jobs, allow_degraded : BOOLEAN]

Good          == {"completed", "reused"}
TerminalEvent == Good \cup {"failed", "blocked", "cancelled"}
State         == [terminal_status : [Jobs -> TerminalEvent \cup {"none"}],
                  task_results : [Jobs -> Keys \cup {NoResult}]]

\* validatePlan: dependencies name other tasks of the plan and have no cycle.
ValidPlan ==
  /\ TaskOf \in [Jobs -> Description]
  /\ \A t \in Jobs : TaskOf[t].scope = Run
  /\ \A T \in SUBSET Jobs : T # {} => \E t \in T : TaskOf[t].dependencies \cap T = {}

ASSUME PlanAssumption ==
  /\ Run \in Scopes
  /\ ValidPlan
  /\ PlanOrder \in [Jobs -> Nat \ {0}]
  /\ \A s, t \in Jobs : PlanOrder[s] = PlanOrder[t] => s = t
  /\ Reusable \subseteq Jobs
  /\ Mode \in [Jobs -> Modes]
  /\ MaxRetries \in [Jobs -> Nat]
  /\ Plans \subseteq Plan
  /\ MaxRuns \in Nat
  /\ NoResult \notin Keys
  /\ NoState \notin State

VARIABLES
  pc,             \* where the loop is; "idle" when no process runs
  runs,           \* runs started so far
  plan,           \* the plan of this run
  previous,       \* the state file as this run found it, or NoState
  outcome,        \* terminal_status: the terminal event of each task, or "none"
  results,        \* task_results
  running,        \* tasks whose handler runs
  admitted,       \* tasks of the last schedule() not yet dealt with
  progressed,     \* whether that schedule() admitted any
  attempt,        \* attempts of each handler in this run
  budgetFailed,   \* budgetFailure # null
  failures, degradedFailures,
  verdict,        \* the status of the result that was returned
  saved,          \* durable: the state file
  cached          \* durable: the keys that the artifact cache holds

pool     == <<job, status, submitted_seq, budgets, cancelledScopes>>
durable  == <<saved, cached>>
facts    == <<outcome, results, failures, degradedFailures>>
planVars == <<pool, pc, runs, plan, previous, facts, running, admitted, progressed,
              attempt, budgetFailed, verdict, durable>>

Unstarted == [t \in Jobs |-> "none"]
NoResults == [t \in Jobs |-> NoResult]

PlanInit ==
  /\ Init
  /\ pc = "idle" /\ runs = 0 /\ plan \in Plans /\ previous = NoState
  /\ outcome = Unstarted /\ results = NoResults
  /\ running = {} /\ admitted = {} /\ progressed = FALSE
  /\ attempt = [t \in Jobs |-> 0]
  /\ budgetFailed = FALSE /\ failures = {} /\ degradedFailures = {}
  /\ verdict = "none" /\ saved = NoState /\ cached = {}

AllTerminal == \A t \in Jobs : outcome[t] # "none"
---------------------------------------------------------------------------
\* A run starts in a directory of its own, or continues from the state file
\* of an earlier one, with whatever plan the caller built this time.
Begin(p, resumed) ==
  /\ pc \in {"idle", "done"}
  /\ runs < MaxRuns
  /\ resumed => saved # NoState
  /\ pc' = "loop" /\ runs' = runs + 1 /\ plan' = p
  /\ previous' = IF resumed THEN saved ELSE NoState
  /\ saved' = previous'
  /\ results' = IF resumed THEN saved.task_results ELSE NoResults
  /\ outcome' = Unstarted
  /\ job' = TaskOf /\ status' = [t \in Jobs |-> "PENDING"] /\ submitted_seq' = PlanOrder
  /\ budgets' = InitialBudgets /\ cancelledScopes' = {}
  /\ running' = {} /\ admitted' = {} /\ progressed' = FALSE
  /\ attempt' = [t \in Jobs |-> 0]
  /\ budgetFailed' = FALSE /\ failures' = {} /\ degradedFailures' = {}
  /\ verdict' = "none"
  /\ UNCHANGED cached

\* The budgets are looked at once per turn; if one is spent, the controllers
\* abort what runs and the scope is cancelled.
CheckBudget ==
  /\ pc = "loop" /\ ~AllTerminal
  /\ \/ budgetFailed' = TRUE /\ CancelScope(Run)
     \/ ~budgetFailed /\ UNCHANGED <<budgetFailed, pool>>
  /\ pc' = "ready"
  /\ UNCHANGED <<runs, plan, previous, facts, running, admitted, progressed, attempt, verdict,
                 durable>>

AnnounceReady ==
  /\ pc = "ready"
  /\ Snapshot
  /\ pc' = "schedule"
  /\ UNCHANGED <<runs, plan, previous, facts, running, admitted, progressed, attempt,
                 budgetFailed, verdict, durable>>

Admit ==
  /\ pc = "schedule"
  /\ IF budgetFailed THEN UNCHANGED pool ELSE Schedule
  /\ admitted' = RunningIn(status') \ RunningIn(status)
  /\ progressed' = (admitted' # {})
  /\ pc' = "admit"
  /\ UNCHANGED <<runs, plan, previous, facts, running, attempt, budgetFailed, verdict, durable>>

---------------------------------------------------------------------------
(* What happens to an admitted task.                                       *)

\* The tasks to run again.  Fault, in place of DescendantSet: what descends
\* from them is not invalidated.
RerunSet == {t \in Jobs : plan.policy[t] = "rerun"}

\* descendantSet: the tasks to run again and all that descends from them, a
\* generation at a time.
Descended[n \in 0 .. Cardinality(Jobs)] ==
  IF n = 0 THEN RerunSet
  ELSE Descended[n - 1] \cup {t \in Jobs : TaskOf[t].dependencies \cap Descended[n - 1] # {}}

DescendantSet == Descended[Cardinality(Jobs)]

\* The state file is believed before the cache is asked.
ReuseFor(t) ==
  IF t \in DescendantSet \/ t \notin Reusable THEN NoResult
  ELSE IF /\ previous # NoState
          /\ previous.task_results[t] # NoResult
          /\ previous.terminal_status[t] \in Good
    THEN previous.task_results[t]
  ELSE IF plan.cache_key[t] \in cached THEN plan.cache_key[t]
  ELSE NoResult

\* The first of the admitted tasks, in the order of schedule().
Turn(t) ==
  /\ pc = "admit" /\ t \in admitted
  /\ \A k \in admitted \ {t} : Ahead(t, k)

\* emit() of a terminal event writes the state file.
Emit(t, event) ==
  /\ outcome' = [outcome EXCEPT ![t] = event]
  /\ saved' = [terminal_status |-> outcome', task_results |-> results']

Dealt(t) ==
  /\ admitted' = admitted \ {t}
  /\ UNCHANGED <<pc, runs, plan, previous, running, progressed, attempt, budgetFailed, verdict,
                 cached>>

SkipByCondition(t) ==
  /\ Turn(t) /\ t \notin plan.allowed
  /\ Finish(t, "SUCCEEDED")
  /\ results' = results /\ Emit(t, "cancelled")
  /\ Dealt(t) /\ UNCHANGED <<failures, degradedFailures>>

Reuse(t) ==
  /\ Turn(t) /\ t \in plan.allowed /\ ReuseFor(t) # NoResult
  /\ results' = [results EXCEPT ![t] = ReuseFor(t)]
  /\ Finish(t, "SUCCEEDED") /\ Emit(t, "reused")
  /\ Dealt(t) /\ UNCHANGED <<failures, degradedFailures>>

RequiredMiss(t) ==
  /\ Turn(t) /\ t \in plan.allowed /\ ReuseFor(t) = NoResult
  /\ plan.policy[t] = "require-reuse"
  /\ Finish(t, "FAILED") /\ failures' = failures \cup {t}
  /\ results' = results /\ Emit(t, "failed")
  /\ Dealt(t) /\ UNCHANGED degradedFailures

Launch(t) ==
  /\ Turn(t) /\ t \in plan.allowed /\ ReuseFor(t) = NoResult
  /\ plan.policy[t] # "require-reuse"
  /\ running' = running \cup {t} /\ attempt' = [attempt EXCEPT ![t] = 1]
  /\ admitted' = admitted \ {t}
  /\ UNCHANGED <<pool, pc, runs, plan, previous, facts, progressed, budgetFailed, verdict,
                 durable>>

---------------------------------------------------------------------------
\* Fault: tasks that the pool cancelled get no terminal event.
ReportBlocked(st, t) == IF st[t] = "BLOCKED" THEN "blocked" ELSE "none"

\* The terminal event that a halted task has coming.
Report(st, t) ==
  IF st[t] = "BLOCKED" THEN "blocked"
  ELSE IF st[t] = "CANCELLED" /\ t \notin running THEN "cancelled" ELSE "none"

\* After the admissions, tasks that the pool halted get their terminal event.
ReportHalted ==
  /\ pc = "admit" /\ admitted = {}
  /\ Snapshot
  /\ outcome' = [t \in Jobs |-> IF outcome[t] # "none" THEN outcome[t] ELSE Report(status', t)]
  /\ saved' = IF outcome' = outcome THEN saved
              ELSE [terminal_status |-> outcome', task_results |-> results]
  /\ pc' = "await"
  /\ UNCHANGED <<runs, plan, previous, results, failures, degradedFailures, running, admitted,
                 progressed, attempt, budgetFailed, verdict, cached>>

\* Nothing runs: the loop turns, ends or gives up.
TurnAgain ==
  /\ pc = "await" /\ running = {}
  /\ \/ (AllTerminal \/ progressed) /\ pc' = "loop" /\ UNCHANGED pool
     \/ ~AllTerminal /\ ~progressed /\ Snapshot
        /\ pc' = IF \A t \in Jobs : status'[t] \in Terminal THEN "loop" ELSE "stalled"
  /\ UNCHANGED <<runs, plan, previous, facts, running, admitted, progressed, attempt,
                 budgetFailed, verdict, durable>>

---------------------------------------------------------------------------
(* Handlers, while the loop awaits.                                        *)

\* Fault: an attempt is repeated although the run was aborted.
RetryAborted(t) ==
  /\ pc = "await" /\ t \in running
  /\ attempt[t] <= MaxRetries[t]
  /\ attempt' = [attempt EXCEPT ![t] = @ + 1]
  /\ UNCHANGED <<pool, pc, runs, plan, previous, facts, running, admitted, progressed,
                 budgetFailed, verdict, durable>>

\* invoke: a failed attempt is repeated unless the controller was aborted.
Retry(t) ==
  /\ pc = "await" /\ t \in running
  /\ attempt[t] <= MaxRetries[t] /\ ~budgetFailed
  /\ attempt' = [attempt EXCEPT ![t] = @ + 1]
  /\ UNCHANGED <<pool, pc, runs, plan, previous, facts, running, admitted, progressed,
                 budgetFailed, verdict, durable>>

\* The race is won by t; its bookkeeping is one step up to the next await.
Settled(t) ==
  /\ pc = "await" /\ t \in running
  /\ running' = running \ {t} /\ pc' = "loop"
  /\ UNCHANGED <<runs, plan, previous, admitted, progressed, attempt, budgetFailed, verdict>>

CacheableKeys(t, cacheable) ==
  IF t \in Reusable /\ cacheable THEN {plan.cache_key[t]} ELSE {}

Complete(t) ==
  /\ Settled(t)
  /\ results' = [results EXCEPT ![t] = plan.cache_key[t]]
  /\ Finish(t, "SUCCEEDED")
  /\ \E cacheable \in BOOLEAN : cached' = cached \cup CacheableKeys(t, cacheable)
  /\ Emit(t, "completed")
  /\ UNCHANGED <<failures, degradedFailures>>

\* Fault: the pool is not told of a failure that is tolerated.
FailUntold(t) ==
  /\ Settled(t)
  /\ attempt[t] > MaxRetries[t] \/ budgetFailed
  /\ results' = results /\ Emit(t, "failed")
  /\ \E strict \in {Mode[t] = "strict", TRUE} :
       /\ IF strict THEN Finish(t, "FAILED") ELSE UNCHANGED pool
       /\ failures' = IF strict THEN failures \cup {t} ELSE failures
       /\ degradedFailures' = IF ~strict /\ Mode[t] = "degrade"
                              THEN degradedFailures \cup {t} ELSE degradedFailures
  /\ UNCHANGED cached

\* The last attempt failed.  A strict policy, or an error marked as not
\* degradable, fails the task in the pool; otherwise the pool is told that it
\* completed and its dependents run.
Fail(t) ==
  /\ Settled(t)
  /\ attempt[t] > MaxRetries[t] \/ budgetFailed
  /\ results' = results /\ Emit(t, "failed")
  /\ \E strict \in {Mode[t] = "strict", TRUE} :
       /\ Finish(t, IF strict THEN "FAILED" ELSE "SUCCEEDED")
       /\ failures' = IF strict THEN failures \cup {t} ELSE failures
       /\ degradedFailures' = IF ~strict /\ Mode[t] = "degrade"
                              THEN degradedFailures \cup {t} ELSE degradedFailures
  /\ UNCHANGED cached

\* Fault: a spent budget alone leaves the run complete.
VerdictIgnoringBudget ==
  IF failures # {} THEN "blocked"
  ELSE IF degradedFailures # {}
    THEN IF plan.allow_degraded THEN "degraded" ELSE "blocked"
  ELSE "complete"

Verdict ==
  IF failures # {} THEN "blocked"
  ELSE IF degradedFailures # {} \/ budgetFailed
    THEN IF plan.allow_degraded THEN "degraded" ELSE "blocked"
  ELSE "complete"

Return ==
  /\ pc = "loop" /\ AllTerminal
  /\ pc' = "done" /\ verdict' = Verdict
  /\ saved' = [terminal_status |-> outcome, task_results |-> results]
  /\ UNCHANGED <<pool, runs, plan, previous, facts, running, admitted, progressed, attempt,
                 budgetFailed, cached>>

\* The process dies; a result may have reached the cache but not the state.
Crash ==
  /\ pc \notin {"idle", "done"}
  /\ pc' = "idle"
  /\ \/ UNCHANGED cached
     \/ \E t \in running : pc = "await" /\ cached' = cached \cup CacheableKeys(t, TRUE)
  /\ running' = {} /\ admitted' = {}
  /\ UNCHANGED <<pool, runs, plan, previous, facts, progressed, attempt, budgetFailed, verdict,
                 saved>>

---------------------------------------------------------------------------
Advance == CheckBudget \/ AnnounceReady \/ Admit \/ ReportHalted \/ TurnAgain \/ Return
Deal(t)   == SkipByCondition(t) \/ Reuse(t) \/ RequiredMiss(t) \/ Launch(t)
Settle(t) == Complete(t) \/ Fail(t)

PlanNext ==
  \/ \E p \in Plans, resumed \in BOOLEAN : Begin(p, resumed)
  \/ Advance
  \/ \E t \in Jobs : Deal(t) \/ Retry(t) \/ Settle(t)
  \/ Crash

PlanSpec == PlanInit /\ [][PlanNext]_planVars

\* The process keeps running, and every handler settles in the end: nothing
\* in the code limits a handler, that is the handler's contract.
FairPlanSpec ==
  /\ PlanSpec
  /\ WF_planVars(Advance)
  /\ WF_planVars(\E t \in Jobs : Deal(t))
  /\ \A t \in Jobs : WF_planVars(Settle(t) \/ Retry(t))
---------------------------------------------------------------------------
(* Properties.                                                             *)

PlanTypeOK ==
  /\ TypeOK
  /\ pc \in {"idle", "loop", "ready", "schedule", "admit", "await", "done", "stalled"}
  /\ runs \in 0 .. MaxRuns
  /\ plan \in Plans
  /\ previous \in State \cup {NoState}
  /\ saved \in State \cup {NoState}
  /\ outcome \in [Jobs -> TerminalEvent \cup {"none"}]
  /\ results \in [Jobs -> Keys \cup {NoResult}]
  /\ running \subseteq Jobs /\ admitted \subseteq Jobs
  /\ progressed \in BOOLEAN /\ budgetFailed \in BOOLEAN
  /\ attempt \in [Jobs -> Nat]
  /\ failures \subseteq Jobs /\ degradedFailures \subseteq Jobs
  /\ verdict \in {"none", "complete", "degraded", "blocked"}
  /\ cached \subseteq Keys

Active == pc \notin {"idle", "done"}

\* The pool and the event log tell the same story: each job of the pool that
\* runs has a handler or awaits its turn, has no terminal event yet, and the
\* terminal event of every other one fits its status in the pool.
EventsAgreeWithPool ==
  Active => \A t \in Jobs :
    /\ status[t] = "RUNNING" <=> t \in running \cup admitted
    /\ status[t] \in {"PENDING", "READY", "RUNNING"} => outcome[t] = "none"
    /\ status[t] = "SUCCEEDED" => outcome[t] \in Good \cup {"failed", "cancelled"}
    /\ status[t] = "FAILED" => outcome[t] = "failed"
    /\ status[t] = "BLOCKED" => outcome[t] \in {"none", "blocked"}
    /\ status[t] = "CANCELLED" => outcome[t] \in {"none", "cancelled"}

\* A run that calls itself complete lost nothing: every task completed or was
\* reused, was switched off by its condition, or failed under the policy that
\* only observes.  A blocked task or one cancelled for budget always has a
\* cause among the failures that the verdict is made from.
CompleteMeansComplete ==
  pc = "done" /\ verdict = "complete" =>
    \A t \in Jobs :
      \/ outcome[t] \in Good
      \/ outcome[t] = "cancelled" /\ t \notin plan.allowed
      \/ outcome[t] = "failed" /\ Mode[t] = "observe"

\* Once a budget is spent no handler is called, neither for a task that just
\* became ready nor for another attempt.
SpentBudgetStartsNothing ==
  [][budgetFailed /\ budgetFailed' /\ pc \notin {"idle", "done"} => attempt' = attempt]_planVars

\* Reuse never crosses a task that is to run again: a task that was reused
\* has nothing invalidated upstream.  And what it took over is a result that
\* was computed for its present cache key, unless it came from the state file
\* of a run under another plan, which the code does not compare.
ClosedUnderChildren(S) ==
  \A t \in Jobs : TaskOf[t].dependencies \cap S # {} => t \in S
ReuseIsSound ==
  Active => \A t \in Jobs : outcome[t] = "reused" =>
    /\ \A r \in Jobs : plan.policy[r] = "rerun" =>
         \E S \in SUBSET Jobs : r \in S /\ ClosedUnderChildren(S) /\ t \notin S
    /\ \/ results[t] = plan.cache_key[t]
       \/ previous # NoState /\ previous.terminal_status[t] \in Good

\* Every run that is not cut short by a crash returns: tasks that end without
\* a handler, or that the pool halts late, still get their terminal event, and
\* the error "scheduler stalled" is not reached (plans that list a long chain
\* of tasks against its dependencies can reach it).
RunReturns == [](pc = "loop" => <>(pc \in {"idle", "done"}))
===========================================================================
