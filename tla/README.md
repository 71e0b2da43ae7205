# Verification of markdev-skills

TLA+ models of the parts of this repository that keep state and run
concurrently, TLC runs that check them on small instances, and TLAPS proofs that
carry the most important results over to every instance. `PROJECT.json` lists the
components, the runs, the mutants that show that each property can fail, the map
from definitions to source lines, the findings, the hazards and the theorems.

To check a module, `tlc -config MCFileLock.cfg MCFileLock`; to check proofs,
`tlapm FileLockProofs.tla`.

## 1. Inventory

The repository is a catalogue of agent skills with their JavaScript tooling.
Most of that tooling is pure: it validates documents, computes scores, projects
reports. The behaviour that is hard to get right is in a few small files.

| Component | State it keeps | Operations | Interacts with |
|---|---|---|---|
| **Executor pool** `agent-executor-pool/runtime.js` | job map, class budgets, cancelled scopes | submit, setBudget, schedule, complete/fail/stale, cancelScope, snapshot | called by `executePlan` (RIA) after every completion; workers report to it |
| **File lock** `file-lock.js` | a directory and `owner.json` on disk, shared by processes | acquire (mkdir, write owner; or read owner, judge, remove), release | used by both stores; its idea is repeated in `cache-store.js` |
| **Worker lease store** `worker-lease-store.js` | one lease file per assignment: generation, token, status, expiry | claim, heartbeat, withCurrent, concludeWith, conclude, recoverExpired | every operation inside the file lock; workers hold the fence it hands out |
| **Attempt store** `attempt-store.js` | one file per task: numbered attempts, evidence, status, budget | begin, appendEvidence, finish | every operation inside the file lock; begin with `recover_running` follows a lease recovery |
| **SEI task executor** `task-executor.js` | per run: results, running tasks, use of classes, groups, memory | run (one asynchronous batch) | analyzers run inside its callbacks, many through the subprocess supervisor |
| **Assessment pool** `assessment-acceleration/scheduler.js` | per run: status, attempts, weights, resources | planWaves, runPool | runners that ask the assessment cache; retries and timeouts whose runner goes on |
| **Assessment cache** `cache-store.js`, `command-evidence-cache.js` | entries, latest pointer, in-flight map, lock with heartbeat | put, acquire, getOrCompute | shared by processes, callers and attempts |
| **RIA execution** `execution-runtime.js` | the loop, the state file, the artifact cache, the event log | executePlan | drives the executor pool |
| **Incremental run state** `incremental-run-state.js`, with the failure path of `cli.js` | writer lease, copies, manifests, output root | openIncrementalRun, publish, close | shares its lease with the predictive store |
| **Predictive store** `predictive-artifact-store.js`, `predictive-state-management.js`, the native helper | manifests, objects, open tokens | publishPromotion, inspect, planPurge, purge | runs inside a session, under its lease |
| **Dependency invalidation** `dependency-invalidation.js` | none; a stored snapshot of the last revision | planDependencyInvalidation | facts and snapshots come from `static-intelligence.js` |
| Subprocess supervisor `analyzers/subprocess-supervisor.js` | one child process, its output, its end | runOwnedSubprocess | task executor callbacks, abort signals |
| RIA workspace `workspace-lineage.js` | lineage file, pointer to the latest records | recordArtifact, publishCurrent | one process per assessment, no lock |

The components in bold are modelled. The rest (scoring, contracts, analyzers,
collectors, report builders, guards, command lines, installation) is listed in `PROJECT.json` with the reason why it
is not modelled: it computes a document from documents, or it depends on
`shared/orchestration-runtime`, which the repository does not contain.

What is hard here: processes that share files and a lock that can be taken over;
crashes between two writes; time read before a wait and used after it; a
scheduler that decides in one pass over state it is changing; callbacks,
timers and aborts that race in one thread. `PROJECT.json` names every such
hazard at its line, with the properties that would catch it or the reason why
none does.

What makes each component correct:

- *pool*: nothing starts before its dependencies succeeded or after its scope was
  cancelled; exclusive resources and capacities hold among jobs admitted together;
  no job is blocked or cancelled without cause; what can run does run.
- *lock*: at most one holder; only dead owners are replaced; dead owners are
  replaced; the directory comes and goes with its holder.
- *leases*: a live lease is not taken; work of an old generation never follows
  work of a newer one; a recorded result was produced.
- *attempts*: the status is true of the attempts; the budget holds; nothing recorded
  is lost; the end is final.
- *tasks*: limits hold; results mean what they say about the graph and are never
  replaced; every batch ends.
- *assessment pool and cache*: an entry is computed once; what names a common
  resource runs apart; what is given up had a cause; a call returns.
- *RIA execution*: the events and the pool tell one story; "complete" is
  complete; nothing crosses a task that is to run again; a spent budget starts
  nothing; a run returns.
- *publication*: one writer; a recorded run can be replayed; a reported output and
  a recorded promotion stay whole; a lease is given back. Each with the exceptions
  that the code makes, which the property names.
- *invalidation*: no evidence outlives what it depends on, and no more than that
  is thrown away; except where the patterns of generated paths alone change what
  is analyzed.

## 2. Modules

| Module | Models | Notes |
|---|---|---|
| `ExecutorPool` | `runtime.js` | one action per method; `MCExecutorPool`; proofs in `ExecutePlanProofs` |
| `Mutex` | what `withFileLock` promises | the abstract specification of the lock |
| `FileLock` | `file-lock.js` | one action per file-system call; implements `Mutex`; `MCFileLock`, `FileLockProofs` |
| `WorkerLease` | `worker-lease-store.js` | extends `Mutex`; `MCWorkerLease`, `WorkerLeaseProofs` |
| `AttemptStore` | `attempt-store.js` | each operation one step; `MCAttemptStore`, `AttemptStoreProofs` |
| `TaskExecutor` | `TaskExecutor.run` | `MCTaskExecutor`, `TaskExecutorProofs` |
| `ExecutePlan` | `execution-runtime.js` | extends `ExecutorPool`, whose actions its steps are; `MCExecutePlan`, `ExecutePlanProofs` |
| `RunPool` | `runPool`, `planWaves` | one call over a graph of weighted tasks |
| `CacheStore` | `cache-store.js` | callers of several processes |
| `Acceleration` | the two above together | a runner is a `getOrCompute`; `MCAcceleration`, `AccelerationProofs` |
| `RunBundle` | lease, publish, close of `incremental-run-state.js` and the failure path of `cli.js` | one writer per process |
| `PredictiveStore` | promotions, inspection, purge | tokens, finalizers, confirmation |
| `Publication` | the two above under one lease | `MCPublication`, `PublicationProofs` |
| `Invalidation` | `planDependencyInvalidation` over the facts of `static-intelligence.js` | `MCInvalidation`, `InvalidationProofs` |

Operators whose comment begins with `Fault:` are not part of the models. Each is a
plausible bug in the definition that follows it; substituting it must break the
property that `PROJECT.json` pairs with it.

### ExecutorPool

The class is synchronous, so each method is one step. `jobs` becomes the
functions `job`, `status` and `submitted_seq`; a job not in the map is
`"ABSENT"`. Calls that throw change nothing and are no step.

`_refreshReadiness` is a loop that reads statuses it has already rewritten. The
model states its result instead of its iterations: `B` is the set of jobs for
which the loop finds a halted dependency, and `FindsHalted` says that a
dependency submitted earlier shows its new status and one submitted later its
old one. As the loop has one outcome, exactly one `B` satisfies this; later
steps need only that it satisfies it. `schedule()` is stated in the same way:
`A` is the set the greedy loop admits, each job measured against what runs and
what was admitted ahead of it. `SharedPermits` counts the permits of a resource as
a set of (job, request, unit), so that what is admitted together adds up.

A completion, a cancellation and a snapshot do what the code does and no more:
`_finish` and `snapshot` refresh, `cancelScope` does not.

### Mutex and FileLock

`FileLock` follows each process through `acquireFileLock`: `mkdir`, the write of
`owner.json`, or the read of the record, the look at the age, and the removal,
which is two steps because `rmSync` empties the directory first. All of them go
by path, which is why a removal can hit a directory other than the one that was
judged. Time is one bit per directory, "older than `stale_ms`", which can become
true at any moment.

The refinement maps the holder of `Mutex` to the maker of the directory at the
path, whatever its process is doing: between `mkdir` and the end of its release, or
after its crash. So `ImplementsMutex` says more than that two processes never hold:
the directory is made only when there is none, and goes only because its maker
releases it or is gone. A process that times out or leaves does not touch it.

Three history variables serve the properties and are read by no guard: `maker` (who
created a directory) and `target` (the maker of the directory that a takeover judged),
`crossed` (a takeover removed another directory than it had judged) and
`overdue` (`stale_ms` passed in a place where the code counts on less: between
`mkdir` and the owner record, between reading the record and looking at the age,
or for a live owner that some contender cannot see because it is on another host).

A crash removes the process for ever; one that restarts is another process. So the
reuse of a process id by the operating system, which makes a dead owner look
alive, is not modelled.

### WorkerLease

One assignment. Each call samples `now` when it is made (`Call`), waits, enters
the lock and reads the file (`Lock`), and then decides. The two writes of
`recoverExpired` and the two steps of `concludeWith` (operation, then write) are
separate, and a crash may come between any two steps. A crash releases the
abstract lock: `FileLock` shows that a crashed owner is replaced
(`CrashedOwnerIsReplaced`). A slot in `Procs` is then taken by a new process that has
no fence. `durable` is history: the generation whose guarded operation ran last.
The terminal statuses completed, failed and cancelled are one.

### AttemptStore

One task. Each operation runs under the lock and writes the file once, by
rename, so each is one step. `ticket` is the attempt id a worker was given;
`answer` is what the last `begin` said. `begin` takes `max_attempts` and
`recover_running` from its caller on every call.

### TaskExecutor

One batch. `at` is the place of the main loop between two awaits; `Settle`,
`Depart`, `Expire` and `Abort` are the callbacks, timers and the caller's signal that
run while it waits. `Settle` records a result and gives the resources back;
`Depart` is the later microtask that removes the task from `running`. Tasks are
numbers in the order of `compareTasks`. The limits are constants: how the
constructor derives them from the host's capacity is not modelled, and neither
is the rule of `#validateGraph` that counts ready tasks against `maxQueued`.

### ExecutePlan

The loop is one thread that gives control away only at its await, but the
process may die anywhere, so it is cut into the steps between which the durable
state differs: the budget check, the announcement of ready tasks, the admission,
the dealing with each admitted task, the completion of a handler, the report of
blocked and cancelled tasks. Each step that touches the pool *is* the action of
`ExecutorPool`, conjoined with what the loop does to its own maps. `saved` is
the state file and `cached` the artifact cache; they survive `Crash`, and a
later run reads them under a plan that may differ in policies, cache keys and
conditions. `DescendantSet`, what is downstream of a task to run again, is a
search of as many steps as there are tasks (`Descended`). A result is the cache key under which it was computed. The
numbering of the event log is left out, and the budgets of time, tokens and tool
calls are one that may run out at any turn.

### RunPool, CacheStore and Acceleration

Between two awaits the scheduler runs alone: `Pass` blocks, admits and gives
up in one step. A pass that admitted something and has weight to spare is
followed by another before the loop awaits (`turn = "again"`), so no attempt ends
between the two. `BlockedPass` is the single pass over the list, in which a task
sees what the pass did before it; `Picks` states what the greedy loop admits, as
`schedule()` is stated in `ExecutorPool`. `CacheStore` follows a caller through
`getOrCompute`: look, join a flight, acquire the lock directory (mkdir, or judge
its owner and remove it by name), look again, compute, put, release. `raced`
marks an entry whose lock was removed under a living owner. The `mkdir` of the lock and
the write of its owner record are one step when both succeed, since nobody
judges a young directory without a record; when the write fails (`FailToOwn`) the
call fails and the directory stays behind without an owner, to be judged by its age. In `Acceleration` a call is
an attempt of a task or another process; an attempt that timed out goes on, holds
its lock, and is what the retry joins, since `getOrCompute` takes no signal.

### RunBundle, PredictiveStore and Publication

`RunBundle` cuts a publication where another process or a crash can come
between: the copies, each link, the manifest last, the rollback of each link, and
the close, which is a look at the lease file (`Close`) and an unlink by name
(`Unlink`); a run that succeeded is between the two in `closing`, one that
failed in `quitting`. An artifact is a name with bytes. `Persist` makes a copy in the
state root or, for the artifacts that a run names in `Unkeepable`, answers null and
goes on without (`unkept`). `Replays` is where `exactBundle` looks: the output
root, and the copy only if the name is not taken there. The history variables are what the
properties name as exceptions: `displaced`, living owners whose lease was removed, by an
operator or by a close that unlinks what is at the path now; `slipped`, those whose
lease was removed in the middle of their own close; `stuck`, those whose close met an
error, which it swallows; and `absent`, the runs that found no output root
when they looked, which the code itself reads. `PredictiveStore` publishes files that
return a token; while it is open nobody else can read or delete the file. A
refused rollback, the finalizers that try again, a purge confirmed by an earlier
inspection, and a crash between two deletions are steps. `Publication` joins the
two: a run may promote between opening its session and publishing its bundle,
and a purge is a writer that does neither.

### Invalidation

The planner is pure, so the model is its definition over a prior and a current
snapshot: the diff, renames, the identity of nodes, the traversal against
imports in both graphs (`Search`: what lies within each number of steps) with
its limits of depth and steps, the fallbacks and the
classification of records. `Session` is the caller it is written for: it keeps
what the plan lets stand and computes the rest, so that an error of one plan
would show in what later plans build on. `Damage` is a stored state that its
validation refuses. A record of a file reads the file, one of a module reads the
module and what it imports to any depth. The diff is over all files (`Files`); only those
that the configured patterns of generated paths leave in are analyzed (`Selected`), and
the patterns are part of the key of the partition's record but of nothing that
the planner compares otherwise. `missed` is history: the records of modules that were kept
although an unchanged file, on which they depend or depended, came in or went by the
patterns alone (`Shifted`).

## 3. Runs

| Run | Instance | What it shows |
|---|---|---|
| `pool` | 4 job ids, 3 in the buffer, 2 scopes, 1 resource of capacity 2, read-only and implementation budgets moving between 1 and 2 | the pool's invariants, greedy refill, closed scopes, and that every job that can finish does |
| `filelock` | 3 processes of one host, each crash final | exclusion, takeover only from the dead, that the directory comes and goes as the holder of `Mutex` does, progress past a crash |
| `lock_race` | the same | *violation*: two holders after a double takeover |
| `lease` | 2 process slots, clock to 4, lease of 2, 3 tokens | fencing, uniqueness, live leases, results |
| `late_heartbeat` | the same | *violation*: an expired lease is renewed |
| `attempts` | 2 workers, budgets 1 to 3, up to two pieces of evidence per attempt | status, budget, history, finality |
| `exhaustion` | the same | *violation*: the last worker crashes, exhaustion is answered and never recorded |
| `plan` | 4 tasks with one policy of each kind, 3 plans, 2 runs, one crash or return between them | events against the pool, what "complete" means, reuse, spent budgets, return |
| `acceleration` | 5 tasks, 2 entries, 3 processes, 2 class budgets, one attempt that may fail to record that it owns the lock | one computation per entry, apart work, causes of blocking, return |
| `publication` | 2 runs and a purge on one state root, 4 scenarios, one report that may not be copied, one close that may be refused | lease, replayable bundles, whole outputs and promotions |
| `invalidation` | 4 files, 4 contents, 2 module roots, 2 versions, 2 sets of patterns, sessions up to 2 edits apart, depth 1, 4 steps | evidence is fresh, except as named, and reuse is exact |
| `tasks` | 4 tasks, all 543 acyclic graphs, 3 workers, a class with room for one, a group with room for one, memory for three | limits, meaning and finality of results, no dead end, and the end of every batch |

Why the bounds are enough to meet the interesting cases. `pool`: a chain of three, a
fan-out, and a fourth id that competes; a full buffer, shared requests that add up to
the capacity and one exclusive request, dependencies submitted before and after their
dependents (both directions of the single pass), and a nested mutating job that
is refused. `filelock`: a dead owner and two contenders, the fewest with which a
takeover can hit a third process's lock. `lease`: a token for the first claim
and two recoveries, and a lease that can expire and be renewed within the clock;
crashes make any number of processes follow one another in the two slots.
`attempts`: a budget can be lowered or raised between any two attempts.
`tasks`: four tasks allow a diamond, two roots with different fates below one
dependent, and every mixture of limits; no bound on steps is needed.

`plan`: a retried, a degrading, a strict and an observed task, one of them listed
before what it depends on; plans that rerun, that require reuse, and that
switch a task off; the second run meets every state file the first can leave.
`acceleration`: two tasks and two processes for one entry (a dead lock needs
two contenders for the race), two tasks on one resource, a task that salvages
failed dependencies, a list against the dependencies, and a budget under
which a task can never start. `publication`: equal bundles under two keys, two
reports of one name, promotions that share an object, and an operator who takes one of
the runs for dead, at work or in the middle of its close, so that its unlink meets the
lease of the next; the report that may not be copied belongs to that run, whose output
is the one that a failed run removes or another's report replaces. `invalidation`: every graph over the contents (chains one longer
than the depth, cycles, shared dependencies), a content that does not parse, files that
share a module id, and any two changes of file, roots, version and patterns together, which
include moves and renames with an edit; after a session any snapshot is
reachable, so two edits at a time reach every revision.

Named bounds: `MaxBufferedJobs` (the code's own), `MaxTime`, `MaxIssued`,
`MaxEvidence`, `MaxRuns`, `Mistakable` (which runs an operator may take for dead), `Unkeepable` (which
artifacts may go without a copy), `Obstructed` (whose close the file system may
refuse), `Unwritable` (which calls may fail to write the owner record of a cache
lock), `MaxEdits`; `MaxReasonDepth`, `MaxReasonSteps` and `KeepNewest` are limits of the
code, made small. `CHECK_DEADLOCK FALSE` is set where the system may stop: a pool
whose jobs have all ended, a lock whose users have all crashed, a batch or run
that is done.

### Fairness

- `pool`: weak fairness of `Schedule` (the caller must call `schedule()` after every
  completion, EXECUTION-MODEL.md:23) and of the report of each running job (a worker
  that runs a job reports how it ended). Budgets in this run never fall to 0,
  which would stop a class for as long as it lasts. `GroundedJobsSettle` holds for
  jobs whose dependencies are all submitted and form no cycle and whose requests fit
  the capacity; `submit()` accepts others, and those wait for ever.
- `filelock`: each process that is inside `acquireFileLock` or its release keeps
  running unless it crashes, and time passes. Nothing is assumed of how long a
  holder holds, of timeouts, or of when anyone calls. Nothing is claimed about
  which contender wins: the polling loop is not fair, and a contender may time out.
- `tasks`: the thread runs and every callback settles in the end. The code cannot
  enforce that: a timeout or an abort only signals.

- `plan`: the loop runs on and every handler settles, which `executePlan` awaits
  without a timeout of its own; a run that crashes is excused.
- `acceleration`: the scheduler and its timers run. Computations may last for
  ever and other processes may stop: `PoolReturns` rests on timeouts alone.
- `publication`: a process that opened its session runs on until it ends or dies.
  Nothing is assumed of the operator, of inspections, or of who gets the lease.

## 4. Findings

1. `lock_race`: `rmSync` removes the path and not the directory that was judged
   (file-lock.js:38-41). Two contenders that judge the same dead lock one after
   the other can both come to hold it, with no time limit overrun. The
   invariant `MutualExclusion` states exactly how far exclusion goes.
2. `late_heartbeat`: `now` is sampled before the wait for the lock
   (worker-lease-store.js:27), so a heartbeat can renew a lease that expired while it
   waited, against what worker-lease-store.test.js:11 says. It cannot
   displace a successor: `LiveLeaseIsKept` and `OperationsAreFenced` hold.
3. `exhaustion`: attempt-store.js:34 answers `RETRY_BUDGET_EXHAUSTED` before the
   recovery of an orphaned attempt is considered and records nothing. If the worker of
   the last attempt has crashed, nobody is left to record it either, and the
   task stays "running" for ever; EXECUTION-MODEL.md:35 says that exhaustion
   is recorded. Lines 43-48, which would do so, cannot be reached.

Other things a reader of the code should know, seen while modelling:

- *Pool.* Finished jobs count towards `max_buffered_jobs` for ever; a job that names
  a resource twice may exceed its capacity, and `CapacityKept` does not count such
  jobs.
- *Leases and tasks.* A completed assignment may be claimed again; the dependent
  of a cancelled task may be reported as blocked when its dependency settles
  before the queue is cancelled.
- *RIA execution.* A continued run takes over every result of the state file
  (execution-runtime.js:70), does not compare its `plan_sha256`, and hands the
  results to dependents (line 99) though the task failed or was skipped this
  time; ria.js:405-406 says of the same field that a report "that never appeared
  is a missing deliverable". `ReuseIsSound` names the first of these. A chain of
  seven tasks listed against their dependencies, the first of which fails, makes
  the loop end in "scheduler stalled"; with six it ends properly.
- *Assessment pool.* A list that runs against its dependencies may report
  "scheduler-deadlock" after a failure that one pass did not carry to all
  descendants (the hypothesis of `BlockedHasCause`).
- *Publication.* Whether a run created the output root is decided by one look at
  its start (cli.js:2103), so a run that fails after a rival created the root
  removes it, against cli.js:2082-2086, "A pre-existing output tree is never
  touched"; `OutputIsWhole` names the case. An abort noticed after `publishSet` throws
  although everything is published. An exception in discovery
  (incremental-run-state.js:1689) leaves the lease behind. A crash does so too, by
  design, until an operator removes it. `persistAssessmentProfileBinding`
  (lines 696-712) writes in place: a crash leaves a torn file that fails
  later publications. `releaseWriter` looks at the lease file (line 1590) and unlinks it by
  name (line 1595): if an operator removes it in between and the next writer has
  created its own, the close of the old session deletes that one, and a third
  writer may join the second; `SoleWriter` names the case. The errors of both calls
  are swallowed (lines 1592, 1595), and the lease then stays (`LeaseIsGivenBack`). `exactBundle` takes
  the copy of the state root only if the output root has no file of the name
  (lines 1119-1134): a run whose output was removed with the root cannot be
  replayed once a later run has published another report there, and not at all if
  the copy was never made, since publication goes on when `persistSnapshotInState` or
  `persistReportInState` answers null (lines 575, 583, 735, 741). `BundlesAreReplayable`
  names the two.
- *Predictive store.* The rollback of a promotion goes on past a refused manifest
  (predictive-artifact-store.js:555); that of a bundle stops at the first
  refusal, manifest first. `PromotionsAreWhole` names the case.
- *Invalidation.* `generated_path_patterns` takes files in and out of the
  analysis (static-intelligence.js:275-310, repository-index.js:301-303), but
  nothing that the planner compares knows of it: neither the diff, which is over all
  files, nor `configurationIdentity` (static-intelligence.js:1984-1994) nor the global
  reasons (dependency-invalidation.js:1210-1213). Only the change of the facts
  tells, and "dependency-facts-drift-without-authoritative-change" is raised only if no
  node was touched (dependency-invalidation.js:912-917). When a file is newly called
  generated in the same revision in which another module changes, the modules that
  imported it keep their records. `EvidenceIsFresh` names what may be kept so; without the
  exception TLC finds the two edits.
- *Subprocess supervisor.* The promise of termination may reject before `close`
  attaches a handler to it.

## 5. Proofs

Every theorem is about the specification without fairness and for all values of
the constants that satisfy the named assumption of the module.

| Module | Assumption | Argument |
|---|---|---|
| `ExecutePlanProofs`, the pool | `PoolAssumption`: finitely many jobs, well-typed offers | type correctness first; `RefreshFacts` says what any result of the refresh looks like; `DependenciesFirst` follows since SUCCEEDED is never overwritten; `HaltHasCause` uses that halted statuses stay. `ExclusiveAlone`, `CapacityKept` and `RefillsFreeSlots` need that submission numbers are distinct (`SubmissionOrder`), so that jobs are considered one after the other: of two admitted together one is ahead of the other; of all that ask for a resource, the last was measured against the rest (`AdmittedWithinCapacity`); and what was left behind still does not fit beside what runs, which is all that it was measured against (`FitsBesideFewer`) |
| `ExecutePlanProofs`, the run | `PlanAssumption` with `PoolAssumption` | the lemmas about refresh and schedule are those of the pool; `JobsArePlanned` (the pool holds the tasks of the plan), `AdmissionOnly` (tasks await their turn only between `schedule()` and the await, and none once a budget is spent), `HaltsHaveReason` and `EventsHaveReason` (whatever is halted or has ended badly goes back to a failure or a spent budget), `VerdictIsEarned` (what the verdict "complete" was made from). That a refresh after the last event changes nothing uses that the plan has no cycle. `ReuseIsSound`: `DescendantsClosed` shows by counting that a search of as many steps as there are tasks leaves no dependent out, and `ReusedInv` that nothing reused is in it |
| `FileLockProofs` | `LockAssumption`: the two markers are neither processes nor directories | `LockInv` ties each process's place to the directory it made: while the lock is not broken, a process in `made`, `held` or `releasing` made the directory that is there, and one in `purge` judged a directory whose maker is dead. Exclusion follows; for the refinement, a directory is made only where there is none, and whoever removes one made it or judged its maker dead |
| `WorkerLeaseProofs` | `LeaseAssumption` | whoever is inside holds the lock and has read what is in the file; generations and tokens given out never exceed those of the file and the counter; the fences follow |
| `AttemptStoreProofs` | `AttemptAssumption` | status, attempts and budget strengthen one another; the five theorems come from one inductive invariant |
| `TaskExecutorProofs` | `TaskAssumption` | results stay and the graph is fixed, so what was met stays met; that a valid graph never gets stuck takes the set of tasks without a result: validity gives one whose dependencies lie outside it, and when nothing runs everything fits alone. For `WithinLimits` each count grows by at most one at a start, against limits that only shrink, and memory by the weight of the task that starts |
| `AccelerationProofs`, the cache | `CacheAssumption` | `CacheInv`: one flight per process and entry (`OneFlight`), holders are alive and own the lock unless it raced (`HoldersLive`, `HoldersLock`), a computation goes on only while the entry is absent (`ComputingIsFresh`), and a result is put at most once (`PutOnce`) |
| `AccelerationProofs`, the pool | `RunPoolAssumption`: finitely many tasks without a cycle, well-typed; `AccelerationAssumption` | `PoolInv`: nothing is given up before the end (`EndIsFinal`), and what runs together names no common resource (`RunningApart`), since `Ahead` is a total order on tasks, for which `criticalPathScores` must be well defined (`CriticalPathType`, by the sinks of the graph). `BlockedHasCause`: if nothing failed, nothing is blocked, and a pass that admits none of what is ready contradicts any waves that `planWaves` could lay out (`PlannedFits`). `WorkIsApart` adds that a call under way is that of the attempt the pool waits for, unless that one timed out (`CallsAwaited`). The budgets follow as the capacities of `ExecutorPool` do: of those admitted together, the last was weighed against the rest (`AdmittedWithinLimit`) |
| `PublicationProofs` | `BundleAssumption`, `StoreAssumption`, `PublicationAssumption` | `BundleInv`: the lease, also in the middle of a close (`ClosersOwn`: who is about to unlink owns the lease file unless it slipped), and the order of copies before links; `StoreInv`: tokens belong to stored files of one holder and no recorded promotion needs them (`TokensAreNotNeeded`), an open promotion covers its manifest (`PromotionIsCovered`), no recorded promotion needs what a purge deletes (`DoomedAreNotNeeded`); `OutputInv`: one file per name, what is linked is the publisher's, a reported output is kept, and that of every run on record is complete (`RecordsAreWhole`), while no lease was displaced and no root removed; then nothing needs the copies, and otherwise every artifact has one, unless `unkept`, which a name not taken makes good |
| `InvalidationProofs` | `InvalidationAssumption`: finitely many module ids, and what does not parse imports nothing | a traversal whose last step reached nothing new has found a set that no edge enters from outside (`SearchEnds`, `Incremental`), which is why the plan must give up at its limits; so the modules outside it in both graphs that do not depend on a file which the patterns alone moved have the same files, the same edges and only one another as dependencies (`UntouchedEdges`, `SameDependencies`), and the same evidence. `Current`, what is held is that of the present snapshot unless it was damaged or is in `missed`, is then inductive: what one session missed and the next lets stand stays in `missed`. Conversely whatever a traversal reaches depends on where it started (`TraversedDepends`), so its evidence is not the same |

The types of all modules, `TaskCancelledStartsNothing`, `PoolKeepsBudgets` (the
weights of `runPool`) and `HeldRecordsAreCurrent` are checked by no run; they are
proved only.

Every safety property that a run checks is proved, except the three that the
code does not have (`lock_race`, `late_heartbeat`, `exhaustion`). Only
model-checked is liveness: `GroundedJobsSettle`, `CrashedOwnerIsReplaced`,
`RunEnds`, `RunReturns`, `PoolReturns` and `LeaseIsGivenBack`, which the prover does
not reach. Three things that look like inductions over data are proved without an
induction theorem. A recursive function exists and is what its equation says because
the numbers up to which it does have no least exception (`LeastNumber`,
`Induction`). A search closes because each of its steps adds a member or
nothing at all, and no set is larger than the one that contains it. And of
finitely many, one is last in an order because, of the sets of those after it,
one is least (`LeastSet`).

## 6. Not modelled

Most of the repository is not modelled because there is nothing for a model checker in
it: analyzers, collectors, scorers, validators and report projections
compute a document from documents, in sequence, and a model of them would repeat them
line by line. The modules here cover the code that keeps state across
steps, callers, processes or crashes. Of that code the following is left out.

- *Subprocess supervisor.* How it settles hangs on when the operating system
  delivers exit, close and signals of a process group, which differs by platform
  and cannot be read from the code.
- *RIA workspace.* `recordArtifact` reads, extends and rewrites one file without a
  lock. One process per assessment uses it; two would lose a record, which the
  code shows without a model.
- *Incremental run state*: discovery, validation and reuse of stages, the contracts that
  the replay of a bundle checks beside the bytes, assessment profile bindings, the
  evidence-only publication, and runs with `--incremental off`, which write without a
  lease.
- *SEI task executor*: the heuristics that turn host capacity into limits, and the
  rule of `#validateGraph` that counts ready tasks against `maxQueued`.
- *Assessment pool*: the shape of waves, the thread pool, the inference of classes.
- *Dependency invalidation*: several analyzers and partitions, records of global scope,
  uncertain edges, none of which `static-intelligence.js` produces, vendored paths, and
  the rest of the repository index.
- *Predictive pipeline*: selection and promotion policy, sequential decisions over
  measurements; what it writes is `PredictiveStore`.
- *Loop control* and what rests on `shared/orchestration-runtime`, which the
  repository does not contain.
