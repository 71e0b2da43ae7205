--------------------------- MODULE ExecutorPool ---------------------------
(***************************************************************************)
(* The subordinate scheduler of skills/agent-executor-pool/runtime.js.     *)
(*                                                                         *)
(* Callers submit jobs that name their dependencies, a class, a scope and  *)
(* the resources they need.  schedule() admits READY jobs by priority      *)
(* under a budget per class and a capacity per resource, workers report    *)
(* how a job ended, and a whole scope can be cancelled.  The class is      *)
(* synchronous: each method is one step.                                   *)
(*                                                                         *)
(* A job absent from the map `jobs' has status "ABSENT".  The counter that *)
(* stamps submitted_seq, started_seq and finished_seq is kept only as the  *)
(* submission order, which is all that the scheduler reads of it.  A call  *)
(* that throws changes nothing and is no step.                             *)
(***************************************************************************)
EXTENDS Integers, Sequences, FiniteSets

CONSTANTS
  Jobs,             \* job ids, those that only appear as a dependency included
  Scopes,           \* scope ids
  Resources,        \* resource ids
  Capacity,         \* [Resources -> Nat], 1 where the caller declares nothing
  InitialBudgets,   \* [Classes -> Nat]
  BudgetChoices,    \* [Classes -> SUBSET Nat], the values setBudget is called with
  MaxBufferedJobs,  \* max_buffered_jobs
  Offered,          \* [Jobs -> SUBSET Description], what each id may be submitted as
  NoJob             \* the description of an absent job

Classes  == {"read_only", "implementation", "validation", "integration", "publication"}
MUTATING == {"implementation", "integration", "publication"}

Terminal == {"SUCCEEDED", "FAILED", "BLOCKED", "CANCELLED", "STALE"}
Halted   == {"FAILED", "BLOCKED", "CANCELLED", "STALE"}
Waiting  == {"PENDING", "READY"}
Statuses == Terminal \cup Waiting \cup {"RUNNING", "ABSENT"}

Request     == [id : Resources, mode : {"shared", "exclusive"}, permits : Nat \ {0}]
Description == [class : Classes, scope : Scopes, dependencies : SUBSET Jobs,
                priority : Int, executor_depth : Nat, resources : Seq(Request)]

ASSUME PoolAssumption ==
  /\ IsFiniteSet(Jobs)
  /\ Capacity \in [Resources -> Nat]
  /\ InitialBudgets \in [Classes -> Nat]
  /\ BudgetChoices \in [Classes -> SUBSET Nat]
  /\ MaxBufferedJobs \in Nat
  /\ Offered \in [Jobs -> SUBSET Description]
  /\ NoJob \notin Description

VARIABLES
  job,              \* the submitted description of each job
  status,           \* its status
  submitted_seq,    \* its place in the submission order, 0 if absent
  budgets,          \* the ceiling of each class
  cancelledScopes   \* scopes cancelled so far; none is ever reopened

vars == <<job, status, submitted_seq, budgets, cancelledScopes>>

Init ==
  /\ job = [j \in Jobs |-> NoJob]
  /\ status = [j \in Jobs |-> "ABSENT"]
  /\ submitted_seq = [j \in Jobs |-> 0]
  /\ budgets = InitialBudgets
  /\ cancelledScopes = {}

---------------------------------------------------------------------------
Submitted       == {j \in Jobs : status[j] # "ABSENT"}
In(st, S)       == {j \in Jobs : st[j] \in S}
RunningIn(st)   == In(st, {"RUNNING"})
Before(a, b)    == submitted_seq[a] < submitted_seq[b]
RequestsOf(j)   == {job[j].resources[i] : i \in DOMAIN job[j].resources}

\* submit(): the checks in the order of the code; a refused job is no step.
Submit(j, d) ==
  /\ status[j] = "ABSENT"
  /\ d \in Offered[j]
  /\ d.class \in MUTATING => d.executor_depth <= 1
  /\ Cardinality(Submitted) < MaxBufferedJobs
  /\ job' = [job EXCEPT ![j] = d]
  /\ status' = [status EXCEPT ![j] = "PENDING"]
  /\ submitted_seq' = [submitted_seq EXCEPT ![j] = Cardinality(Submitted) + 1]
  /\ UNCHANGED <<budgets, cancelledScopes>>

SetBudget(c, v) ==
  /\ budgets' = [budgets EXCEPT ![c] = v]
  /\ UNCHANGED <<job, status, submitted_seq, cancelledScopes>>

---------------------------------------------------------------------------
(* _refreshReadiness: one pass over the map in submission order.           *)

\* Fault: a dependency that was never submitted counts as met.
RefreshedUnknownMet(st, B) ==
  [j \in Jobs |->
     IF st[j] \notin Waiting THEN st[j]
     ELSE IF job[j].scope \in cancelledScopes THEN "CANCELLED"
     ELSE IF j \in B THEN "BLOCKED"
     ELSE IF \A d \in job[j].dependencies : st[d] \in {"SUCCEEDED", "ABSENT"} THEN "READY"
     ELSE "PENDING"]

\* Fault: the pass forgets the cancelled scopes.
RefreshedIgnoringScopes(st, B) ==
  [j \in Jobs |->
     IF st[j] \notin Waiting THEN st[j]
     ELSE IF j \in B THEN "BLOCKED"
     ELSE IF \A d \in job[j].dependencies : st[d] = "SUCCEEDED" THEN "READY"
     ELSE "PENDING"]

\* What the pass leaves in place of st if it finds a halted dependency for
\* exactly the jobs of B.  SUCCEEDED is never written nor overwritten by the
\* pass, so readiness can be read off st.
Refreshed(st, B) ==
  [j \in Jobs |->
     IF st[j] \notin Waiting THEN st[j]
     ELSE IF job[j].scope \in cancelledScopes THEN "CANCELLED"
     ELSE IF j \in B THEN "BLOCKED"
     ELSE IF \A d \in job[j].dependencies : st[d] = "SUCCEEDED" THEN "READY"
     ELSE "PENDING"]

\* Fault: an unknown dependency counts as a failed one.
FindsHaltedOrUnknown(st, B) ==
  \A j \in In(st, Waiting) :
    j \in B <=> \E d \in job[j].dependencies :
                  (IF Before(d, j) THEN Refreshed(st, B)[d] ELSE st[d]) \in Halted \cup {"ABSENT"}

\* Fault: a cancelled dependency is waited for.
FindsHaltedNotCancelled(st, B) ==
  \A j \in In(st, Waiting) :
    j \in B <=> \E d \in job[j].dependencies :
                  (IF Before(d, j) THEN Refreshed(st, B)[d] ELSE st[d]) \in Halted \ {"CANCELLED"}

\* B is what the pass finds: a dependency visited earlier shows its new
\* status, one visited later still the old one.
FindsHalted(st, B) ==
  \A j \in In(st, Waiting) :
    j \in B <=> \E d \in job[j].dependencies :
                  (IF Before(d, j) THEN Refreshed(st, B)[d] ELSE st[d]) \in Halted

\* A set of one element, as Before orders the submitted jobs.
RefreshReadiness(st) ==
  {Refreshed(st, B) : B \in {X \in SUBSET In(st, Waiting) : FindsHalted(st, X)}}

---------------------------------------------------------------------------
(* _resourceUsage and _resourcesAvailable over a set S of running jobs.    *)

HeldExclusive(r, S) ==
  \E k \in S : \E q \in RequestsOf(k) : q.id = r /\ q.mode = "exclusive"

SharedRequests(r, S) ==
  UNION {{<<k, i>> : i \in {n \in DOMAIN job[k].resources :
                              /\ job[k].resources[n].id = r
                              /\ job[k].resources[n].mode = "shared"}} : k \in S}

\* The sum of their permits, as the number of permits that they take.
SharedPermits(r, S) ==
  Cardinality(UNION {{p} \X (1 .. job[p[1]].resources[p[2]].permits) : p \in SharedRequests(r, S)})

\* Fault: an exclusive request looks only at exclusive holders.
ResourcesAvailableSharedUnseen(j, S) ==
  \A q \in RequestsOf(j) :
    /\ ~HeldExclusive(q.id, S)
    /\ q.mode = "shared" => SharedPermits(q.id, S) + q.permits <= Capacity[q.id]

\* Fault: the capacity check forgets the request's own permits.
ResourcesAvailableOneTooMany(j, S) ==
  \A q \in RequestsOf(j) :
    /\ ~HeldExclusive(q.id, S)
    /\ IF q.mode = "exclusive"
       THEN SharedRequests(q.id, S) = {}
       ELSE SharedPermits(q.id, S) < Capacity[q.id]

\* Every request is compared with what the other jobs hold, never with the
\* job's own other requests.
ResourcesAvailable(j, S) ==
  \A q \in RequestsOf(j) :
    /\ ~HeldExclusive(q.id, S)
    /\ IF q.mode = "exclusive"
       THEN SharedRequests(q.id, S) = {}
       ELSE SharedPermits(q.id, S) + q.permits <= Capacity[q.id]

OfClass(c, S) == {j \in S : job[j].class = c}

Fits(j, S) ==
  /\ Cardinality(OfClass(job[j].class, S)) < budgets[job[j].class]
  /\ ResourcesAvailable(j, S)

\* The order in which schedule() considers READY jobs.
Ahead(a, b) ==
  \/ job[a].priority > job[b].priority
  \/ job[a].priority = job[b].priority /\ Before(a, b)

\* Fault: the loop stops at the first job that does not fit.
AdmitsUntilFirstMisfit(st, A) ==
  \A j \in In(st, {"READY"}) :
    j \in A <=> /\ Fits(j, RunningIn(st) \cup {a \in A : Ahead(a, j)})
                /\ \A k \in In(st, {"READY"}) : Ahead(k, j) => k \in A

\* A is what the loop admits: each READY job is measured against what runs
\* already and what the loop admitted ahead of it.
Admits(st, A) ==
  \A j \in In(st, {"READY"}) :
    j \in A <=> Fits(j, RunningIn(st) \cup {a \in A : Ahead(a, j)})

Schedule ==
  /\ \E st \in RefreshReadiness(status) :
       \E A \in SUBSET In(st, {"READY"}) :
         /\ Admits(st, A)
         /\ status' = [j \in Jobs |-> IF j \in A THEN "RUNNING" ELSE st[j]]
  /\ UNCHANGED <<job, submitted_seq, budgets, cancelledScopes>>

---------------------------------------------------------------------------
\* complete(), fail() and stale().
Finish(j, s) ==
  /\ status[j] = "RUNNING"
  /\ status' \in RefreshReadiness([status EXCEPT ![j] = s])
  /\ UNCHANGED <<job, submitted_seq, budgets, cancelledScopes>>

\* Running jobs are only asked to stop; the rest of the scope is cancelled at
\* once.  Nothing is refreshed here.
CancelScope(s) ==
  /\ cancelledScopes' = cancelledScopes \cup {s}
  /\ status' = [j \in Jobs |-> IF status[j] \in Waiting /\ job[j].scope = s
                               THEN "CANCELLED" ELSE status[j]]
  /\ UNCHANGED <<job, submitted_seq, budgets>>

\* snapshot() refreshes before it copies the jobs out.
Snapshot ==
  /\ status' \in RefreshReadiness(status)
  /\ UNCHANGED <<job, submitted_seq, budgets, cancelledScopes>>

Next ==
  \/ \E j \in Jobs : \E d \in Offered[j] : Submit(j, d)
  \/ \E c \in Classes : \E v \in BudgetChoices[c] : SetBudget(c, v)
  \/ Schedule
  \/ \E j \in Jobs, s \in {"SUCCEEDED", "FAILED", "STALE"} : Finish(j, s)
  \/ \E s \in Scopes : CancelScope(s)
  \/ Snapshot

Spec == Init /\ [][Next]_vars

\* The caller calls schedule() again after every completion, and a worker
\* that runs a job reports how it ended.
FairSpec ==
  /\ Spec
  /\ WF_vars(Schedule)
  /\ \A j \in Jobs : WF_vars(\E s \in {"SUCCEEDED", "FAILED", "STALE"} : Finish(j, s))
---------------------------------------------------------------------------
(* Properties.                                                             *)

TypeOK ==
  /\ job \in [Jobs -> Description \cup {NoJob}]
  /\ status \in [Jobs -> Statuses]
  /\ submitted_seq \in [Jobs -> Nat]
  /\ budgets \in [Classes -> Nat]
  /\ cancelledScopes \in SUBSET Scopes
  /\ \A j \in Jobs : status[j] # "ABSENT" => job[j] \in Description

\* A job that is ready, runs or has run rests on dependencies that all
\* succeeded, whatever was submitted, cancelled or failed in between: what
\* _refreshReadiness saw when it made the job READY never becomes untrue.
DependenciesFirst ==
  \A j \in Jobs :
    status[j] \in {"READY", "RUNNING", "SUCCEEDED", "FAILED", "STALE"} =>
      \A d \in job[j].dependencies : status[d] = "SUCCEEDED"

\* No job is halted without cause: a BLOCKED job names a dependency that
\* halted, a CANCELLED one belongs to a cancelled scope.  Both are final, so
\* the single pass of _refreshReadiness must not act on a status that it
\* rewrites later in the same pass.
HaltHasCause ==
  \A j \in Jobs :
    /\ status[j] = "BLOCKED" => \E d \in job[j].dependencies : status[d] \in Halted
    /\ status[j] = "CANCELLED" => job[j].scope \in cancelledScopes

\* An exclusive holder of a resource is the only job that uses it
\* (_resourcesAvailable), also among jobs that one schedule() call admits.
ExclusiveAlone ==
  \A j, k \in RunningIn(status) :
    \A q \in RequestsOf(j), p \in RequestsOf(k) :
      q.id = p.id /\ q.mode = "exclusive" => j = k

NamesOnce(j) ==
  \A m, n \in DOMAIN job[j].resources :
    job[j].resources[m].id = job[j].resources[n].id => m = n

\* The shared permits of running jobs stay within the capacity of the
\* resource, counting the jobs that name no resource twice: a job that does
\* is measured one request at a time and may exceed it on its own.
CapacityKept ==
  \A r \in Resources :
    SharedPermits(r, {j \in RunningIn(status) : NamesOnce(j)}) <= Capacity[r]

\* schedule() leaves no READY job behind that would still fit: the single
\* greedy pass by priority refills every slot that can be refilled.
RefillsFreeSlots ==
  [][Schedule => \A j \in In(status', {"READY"}) : ~Fits(j, RunningIn(status'))]_vars

\* No job of a cancelled scope starts, also one submitted, or made ready,
\* after the cancellation.
ClosedScopeStartsNothing ==
  [][\A j \in Jobs :
       status[j] # "RUNNING" /\ status'[j] = "RUNNING" => job[j].scope \notin cancelledScopes]_vars

\* A job can finish if its dependencies, all submitted, form no cycle and no
\* request exceeds its resource.
Satisfiable(j) ==
  \A q \in RequestsOf(j) : q.mode = "shared" => q.permits <= Capacity[q.id]
Grounded(j) ==
  \E S \in SUBSET Submitted :
    /\ j \in S
    /\ \A k \in S : job[k].dependencies \subseteq S /\ Satisfiable(k)
    /\ \A T \in SUBSET S : T # {} => \E k \in T : job[k].dependencies \cap T = {}

\* Such a job ends in a terminal status: nothing starves behind priorities,
\* resources, moving budgets or failures that reach it through other jobs.
GroundedJobsSettle == \A j \in Jobs : Grounded(j) ~> status[j] \in Terminal
===========================================================================
