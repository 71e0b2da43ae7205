------------------------------ MODULE RunPool ------------------------------
(***************************************************************************)
(* runPool and planWaves of shared/assessment-acceleration/scheduler.js:   *)
(* one call of runPool over a graph of weighted tasks, and the planner     *)
(* that lays the same graph out in waves.                                  *)
(*                                                                         *)
(* Between two awaits the scheduler runs alone, so the pass that blocks,   *)
(* admits and gives up is one step; attempts end while it awaits.  While   *)
(* it admits and has weight to spare it passes again before it awaits.     *)
(***************************************************************************)
EXTENDS Integers, Sequences, FiniteSets, FiniteSetsExt

CONSTANTS
  Tasks,
  TaskList,      \* the tasks in the order given, by which ids are compared too
  Task,          \* [Tasks -> NormalTask], the tasks as normalizeTask leaves them
  Resources, Classes,
  MaxParallel,
  Budgets        \* the class budgets that a call may be given, [Classes -> Nat]

NormalTask ==
  [depends_on : SUBSET Tasks, resources : SUBSET Resources, executor_class : Classes,
   weight : 1 .. MaxParallel, priority : Int, expected_ms : Nat \ {0}, retries : Nat,
   timeout : BOOLEAN, retry_on_timeout : BOOLEAN, allow_failed_dependencies : BOOLEAN]

ASSUME RunPoolAssumption ==
  /\ IsFiniteSet(Tasks)
  /\ MaxParallel \in Nat \ {0}
  /\ TaskList \in Seq(Tasks) /\ \A t \in Tasks : \E n \in DOMAIN TaskList : TaskList[n] = t
  /\ \A m, n \in DOMAIN TaskList : TaskList[m] = TaskList[n] => m = n
  /\ Task \in [Tasks -> NormalTask]
  /\ \A T \in SUBSET Tasks : T # {} => \E t \in T : Task[t].depends_on \cap T = {}
  /\ Budgets \subseteq [Classes -> 0 .. MaxParallel]

VARIABLES
  turn,          \* "pass", "again" (a pass without an await before it), "await" or "done"
  status,        \* [Tasks -> Statuses]
  deadlocked,    \* tasks blocked with the reason "scheduler-deadlock"
  attempt,       \* attempts started of each task
  late,          \* attempts that timed out; their runners may go on
  classBudgets

poolVars == <<turn, status, deadlocked, attempt, late, classBudgets>>

Statuses == {"pending", "running", "success", "failed", "blocked"}

PoolInit ==
  /\ turn = "pass"
  /\ status = [t \in Tasks |-> "pending"]
  /\ deadlocked = {} /\ late = {}
  /\ attempt = [t \in Tasks |-> 0]
  /\ classBudgets \in Budgets
---------------------------------------------------------------------------
(* The order of ready tasks: sortReady by criticalPathScores.              *)

Successors(t) == {s \in Tasks : t \in Task[s].depends_on}

CriticalPath ==
  LET score[t \in Tasks] ==
        Task[t].expected_ms + Max({0} \cup {score[s] : s \in Successors(t)})
  IN  score

Position == [t \in Tasks |-> CHOOSE n \in DOMAIN TaskList : TaskList[n] = t]
Rank == [t \in Tasks |-> <<CriticalPath[t], Task[t].priority, Task[t].weight, -Position[t]>>]

\* The pairs <<a, b>> of which sortReady puts a first.
Ahead ==
  {p \in Tasks \X Tasks :
     \E n \in 1 .. 4 : /\ Rank[p[1]][n] > Rank[p[2]][n]
                       /\ \A m \in 1 .. n - 1 : Rank[p[1]][m] = Rank[p[2]][m]}

Weight(S) == Cardinality({p \in S \X (1 .. MaxParallel) : p[2] <= Task[p[1]].weight})

\* Fault: resources are compared with those of the last pass only.
FitsBesidesRunning(t, S) ==
  /\ Weight(S) + Task[t].weight <= MaxParallel
  /\ Weight({s \in S : Task[s].executor_class = Task[t].executor_class}) + Task[t].weight
       <= classBudgets[Task[t].executor_class]
  /\ \A s \in S : status[s] = "running" => Task[s].resources \cap Task[t].resources = {}

\* Whether t can start beside the tasks of S.
Fits(t, S) ==
  /\ Weight(S) + Task[t].weight <= MaxParallel
  /\ Weight({s \in S : Task[s].executor_class = Task[t].executor_class}) + Task[t].weight
       <= classBudgets[Task[t].executor_class]
  /\ \A s \in S : Task[s].resources \cap Task[t].resources = {}

\* A is what the greedy loop picks of the ready tasks while those of S run.
Picks(ready, S, A) == \A t \in ready : t \in A <=> Fits(t, S \cup {a \in A : <<a, t>> \in Ahead})

\* planWaves: whether it throws TASK_PLAN_UNSCHEDULABLE, that is, whether no
\* numbers of waves put every task where the greedy loop would pick it.
Unschedulable ==
  LET Waves == 1 .. Cardinality(Tasks)
      Before(wave, n) == {t \in Tasks : wave[t] < n}
      Ready(D) == {t \in Tasks \ D : Task[t].depends_on \subseteq D}
      At(wave, n) == {t \in Tasks : wave[t] = n}
  IN  ~\E wave \in [Tasks -> Waves] : \A n \in Waves :
         /\ At(wave, n) \subseteq Ready(Before(wave, n))
         /\ Picks(Ready(Before(wave, n)), {}, At(wave, n))
---------------------------------------------------------------------------
Running(st) == {t \in Tasks : st[t] = "running"}

\* Fault: a task that accepts failed dependencies is blocked by them.
DependencyStateHard(st, t) ==
  LET S == {st[d] : d \in Task[t].depends_on}
  IN  IF S \cap {"pending", "running"} # {} THEN "waiting"
      ELSE IF S \cap {"failed", "blocked"} # {} THEN "blocked" ELSE "ready"

DependencyState(st, t) ==
  LET S == {st[d] : d \in Task[t].depends_on}
  IN  IF S \cap {"pending", "running"} # {} THEN "waiting"
      ELSE IF ~Task[t].allow_failed_dependencies /\ S \cap {"failed", "blocked"} # {}
        THEN "blocked" ELSE "ready"

\* What a task sees in a pass over the list that blocks the tasks of B.
Seen(B, t) ==
  [d \in Tasks |-> IF d \in B /\ Position[d] < Position[t] THEN "blocked" ELSE status[d]]

\* B is what one pass over the list blocks.
BlockedPass(B) ==
  \A t \in Tasks : t \in B <=> status[t] = "pending" /\ DependencyState(Seen(B, t), t) = "blocked"

Halted(B) == [t \in Tasks |-> IF t \in B THEN "blocked" ELSE status[t]]

ReadyIn(st) == {t \in Tasks : st[t] = "pending" /\ DependencyState(st, t) = "ready"}

\* The tasks of A start.  If nothing runs then, whatever is pending is given
\* up; if there is weight to spare, the loop goes on without an await.
Admit(st, A) ==
  LET running == A \cup Running(st)
  IN  /\ deadlocked' = IF running = {} THEN {t \in Tasks : st[t] = "pending"} ELSE {}
      /\ status' = [t \in Tasks |-> IF t \in A THEN "running"
                                    ELSE IF t \in deadlocked' THEN "blocked" ELSE st[t]]
      /\ attempt' = [t \in Tasks |-> IF t \in A THEN 1 ELSE attempt[t]]
      /\ turn' = IF running = {} THEN "done"
                 ELSE IF A = {} \/ Weight(running) >= MaxParallel THEN "await" ELSE "again"

\* One turn of the loop up to its end or its await.
Pass ==
  /\ turn \in {"pass", "again"}
  /\ \E B \in SUBSET {t \in Tasks : status[t] = "pending"} :
       /\ BlockedPass(B)
       /\ \E A \in SUBSET ReadyIn(Halted(B)) :
            /\ Picks(ReadyIn(Halted(B)), Running(Halted(B)), A)
            /\ Admit(Halted(B), A)
  /\ UNCHANGED <<late, classBudgets>>

\* Fault: only a success wakes the loop.
OutcomeQuiet(t, s) ==
  /\ status' = [status EXCEPT ![t] = s]
  /\ turn' = IF s = "success" THEN "pass" ELSE turn
  /\ UNCHANGED <<deadlocked, classBudgets>>

\* The outcome of a task: release and status in one microtask, and the loop
\* wakes up, maybe after other outcomes.
Outcome(t, s) ==
  /\ status' = [status EXCEPT ![t] = s]
  /\ turn' = "pass"
  /\ UNCHANGED <<deadlocked, classBudgets>>

\* The outcomes of tasks are heard of at an await.
Awaited(t) == status[t] = "running" /\ turn # "again"

Succeed(t) ==
  /\ Awaited(t)
  /\ Outcome(t, "success")
  /\ UNCHANGED <<attempt, late>>

\* A failed attempt is repeated while retries remain.
AttemptFails(t) ==
  /\ Awaited(t)
  /\ IF attempt[t] <= Task[t].retries
     THEN attempt' = [attempt EXCEPT ![t] = @ + 1] /\ UNCHANGED <<turn, status, deadlocked, classBudgets>>
     ELSE Outcome(t, "failed") /\ UNCHANGED attempt
  /\ UNCHANGED late

\* A timeout aborts the controller and rejects; the runner may go on.
TimesOut(t) ==
  /\ Awaited(t) /\ Task[t].timeout
  /\ late' = late \cup {<<t, attempt[t]>>}
  /\ IF Task[t].retry_on_timeout /\ attempt[t] <= Task[t].retries
     THEN attempt' = [attempt EXCEPT ![t] = @ + 1] /\ UNCHANGED <<turn, status, deadlocked, classBudgets>>
     ELSE Outcome(t, "failed") /\ UNCHANGED attempt

PoolNext == Pass \/ \E t \in Tasks : Succeed(t) \/ AttemptFails(t) \/ TimesOut(t)
---------------------------------------------------------------------------
\* A task is blocked for a reason: a dependency that failed or was blocked, or
\* a "scheduler-deadlock".  That one is reported only for a plan that
\* planWaves refuses as unschedulable, or after a failure that did not reach
\* every descendant in the single pass over the list.
BlockedHasCause ==
  /\ \A t \in Tasks \ deadlocked : status[t] = "blocked" =>
       /\ ~Task[t].allow_failed_dependencies
       /\ \E d \in Task[t].depends_on : status[d] \in {"failed", "blocked"}
  /\ deadlocked # {} => (\E t \in Tasks : status[t] = "failed") \/ Unschedulable
============================================================================
