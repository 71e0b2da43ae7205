---------------------------- MODULE WorkerLease ----------------------------
(***************************************************************************)
(* skills/agent-executor-pool/worker-lease-store.js for one assignment: a  *)
(* lease file that is read, judged and rewritten under the lock of the     *)
(* assignment.  Every call samples Date.now() when it is made, which may   *)
(* be long before it gets the lock.  A process may stop at any step; its   *)
(* slot is then taken by a new process that knows nothing.                 *)
(***************************************************************************)
EXTENDS Mutex, Naturals

CONSTANTS
  NoLease,       \* no lease file
  NoFence,       \* the process has no generation and token to present
  Ttl,           \* ttl_ms
  MaxTime,       \* bound on the clock
  MaxIssued      \* bound on the tokens issued

Ops == {"claim", "recoverExpired", "heartbeat", "withCurrent", "concludeWith"}

Statuses == {"active", "stale", "completed"}

\* completed stands for completed, failed and cancelled; result says whether
\* result_ref is set.  fence_token is the count of the tokens issued before.
Leases == [generation : Nat, token : Nat, status : Statuses, expires : Nat, result : BOOLEAN]
Fences == [generation : Nat, token : Nat]

ASSUME LeaseAssumption ==
  /\ Nobody \notin Procs
  /\ NoLease \notin Leases
  /\ NoFence \notin Fences
  /\ Ttl \in Nat \ {0} /\ MaxTime \in Nat /\ MaxIssued \in Nat

VARIABLES
  lease,    \* the lease file
  clock,    \* Date.now()
  issued,   \* tokens issued so far
  at,       \* idle, waiting for the lock, inside, second (between two writes), leaving
  op,       \* the operation called
  now,      \* the time sampled when it was called
  cur,      \* the lease that the call has read under the lock
  fence,    \* generation and token that the process was given last
  durable   \* the generation whose guarded operation ran last

vars == <<holder, lease, clock, issued, at, op, now, cur, fence, durable>>

Init ==
  /\ MutexInit
  /\ lease = NoLease
  /\ clock = 0
  /\ issued = 0
  /\ at = [p \in Procs |-> "idle"]
  /\ op = [p \in Procs |-> "claim"]
  /\ now = [p \in Procs |-> 0]
  /\ cur = [p \in Procs |-> NoLease]
  /\ fence = [p \in Procs |-> NoFence]
  /\ durable = 0

---------------------------------------------------------------------------
Goto(p, l) == at' = [at EXCEPT ![p] = l]

Running(l) == l # NoLease /\ l.status = "active"

LiveAt(l, t) == Running(l) /\ l.expires > t

\* Fault: _validCurrent compares neither generation nor token.
ValidByTime(p) == fence[p] # NoFence /\ LiveAt(cur[p], now[p])

\* _validCurrent, with the time that the call sampled.
ValidCurrent(p) ==
  /\ fence[p] # NoFence
  /\ LiveAt(cur[p], now[p])
  /\ cur[p].generation = fence[p].generation
  /\ cur[p].token = fence[p].token

GenerationOf(l) == IF l = NoLease THEN 0 ELSE l.generation

Call(p, o) ==
  /\ at[p] = "idle"
  /\ o \in {"claim", "recoverExpired"} \/ fence[p] # NoFence
  /\ Goto(p, "waiting")
  /\ op' = [op EXCEPT ![p] = o]
  /\ now' = [now EXCEPT ![p] = clock]
  /\ UNCHANGED <<holder, lease, clock, issued, cur, fence, durable>>

\* Fault: the read-decide-write sequence is not wrapped in the lock.
LockNothing(p) ==
  /\ at[p] = "waiting"
  /\ cur' = [cur EXCEPT ![p] = lease]
  /\ Goto(p, "inside")
  /\ UNCHANGED <<holder, lease, clock, issued, op, now, fence, durable>>

\* withFileLock, and the read of the lease file that every operation begins with.
Lock(p) ==
  /\ at[p] = "waiting"
  /\ Enter(p)
  /\ cur' = [cur EXCEPT ![p] = lease]
  /\ Goto(p, "inside")
  /\ UNCHANGED <<lease, clock, issued, op, now, fence, durable>>

\* The new lease of claim and recoverExpired, returned to the caller.
WriteFresh(p) ==
  LET fresh == [generation |-> GenerationOf(cur[p]) + 1, token |-> issued + 1]
  IN  /\ issued < MaxIssued
      /\ lease' = [generation |-> fresh.generation, token |-> fresh.token,
                   status |-> "active", expires |-> now[p] + Ttl, result |-> FALSE]
      /\ issued' = issued + 1
      /\ fence' = [fence EXCEPT ![p] = fresh]

\* LEASE_LIVE or STALE_FENCE: the answer is no and nothing is written.
Refuse(p) ==
  /\ at[p] = "inside"
  /\ IF op[p] \in {"claim", "recoverExpired"} THEN LiveAt(cur[p], now[p]) ELSE ~ValidCurrent(p)
  /\ Goto(p, "leaving")
  /\ UNCHANGED <<holder, lease, clock, issued, op, now, cur, fence, durable>>

Claim(p) ==
  /\ at[p] = "inside" /\ op[p] = "claim"
  /\ ~LiveAt(cur[p], now[p])
  /\ WriteFresh(p)
  /\ Goto(p, "leaving")
  /\ UNCHANGED <<holder, clock, op, now, cur, durable>>

\* recoverExpired writes an expired lease as stale and only then the new one.
MarkStale(p) ==
  /\ at[p] = "inside" /\ op[p] = "recoverExpired"
  /\ Running(cur[p]) /\ ~LiveAt(cur[p], now[p])
  /\ lease' = [cur[p] EXCEPT !.status = "stale"]
  /\ cur' = [cur EXCEPT ![p] = lease']
  /\ Goto(p, "second")
  /\ UNCHANGED <<holder, clock, issued, op, now, fence, durable>>

\* Fault: recoverExpired does not look at the time.
RecoverAnything(p) ==
  /\ op[p] = "recoverExpired"
  /\ at[p] \in {"inside", "second"}
  /\ WriteFresh(p)
  /\ Goto(p, "leaving")
  /\ UNCHANGED <<holder, clock, op, now, cur, durable>>

Recover(p) ==
  /\ op[p] = "recoverExpired"
  /\ at[p] = "second" \/ (at[p] = "inside" /\ ~Running(cur[p]))
  /\ WriteFresh(p)
  /\ Goto(p, "leaving")
  /\ UNCHANGED <<holder, clock, op, now, cur, durable>>

Heartbeat(p) ==
  /\ at[p] = "inside" /\ op[p] = "heartbeat"
  /\ ValidCurrent(p)
  /\ lease' = [cur[p] EXCEPT !.expires = now[p] + Ttl]
  /\ Goto(p, "leaving")
  /\ UNCHANGED <<holder, clock, issued, op, now, cur, fence, durable>>

\* Fault: concludeWith does not wait for the operation.
OperateUnawaited(p) ==
  /\ at[p] = "inside" /\ op[p] \in {"withCurrent", "concludeWith"}
  /\ ValidCurrent(p)
  /\ durable' = IF op[p] = "concludeWith" THEN durable ELSE fence[p].generation
  /\ Goto(p, IF op[p] = "concludeWith" THEN "second" ELSE "leaving")
  /\ UNCHANGED <<holder, lease, clock, issued, op, now, cur, fence>>

\* The caller's operation of withCurrent and of concludeWith.
Operate(p) ==
  /\ at[p] = "inside" /\ op[p] \in {"withCurrent", "concludeWith"}
  /\ ValidCurrent(p)
  /\ durable' = fence[p].generation
  /\ Goto(p, IF op[p] = "concludeWith" THEN "second" ELSE "leaving")
  /\ UNCHANGED <<holder, lease, clock, issued, op, now, cur, fence>>

\* It may throw, before or after its effect, and then nothing is concluded.
OperateThrows(p) ==
  /\ \/ at[p] = "inside" /\ op[p] \in {"withCurrent", "concludeWith"} /\ ValidCurrent(p)
     \/ at[p] = "second" /\ op[p] = "concludeWith"
  /\ Goto(p, "leaving")
  /\ UNCHANGED <<holder, lease, clock, issued, op, now, cur, fence, durable>>

Conclude(p) ==
  /\ at[p] = "second" /\ op[p] = "concludeWith"
  /\ lease' = [cur[p] EXCEPT !.status = "completed", !.expires = now[p], !.result = TRUE]
  /\ Goto(p, "leaving")
  /\ UNCHANGED <<holder, clock, issued, op, now, cur, fence, durable>>

\* A call whose arguments are forgotten once it is over.
Forget(p) ==
  /\ Goto(p, "idle")
  /\ op' = [op EXCEPT ![p] = "claim"]
  /\ now' = [now EXCEPT ![p] = 0]
  /\ cur' = [cur EXCEPT ![p] = NoLease]

Unlock(p) ==
  /\ at[p] = "leaving"
  /\ Leave(p)
  /\ Forget(p)
  /\ UNCHANGED <<lease, clock, issued, fence, durable>>

\* FILE_LOCK_TIMEOUT is thrown to the caller.
LockTimeout(p) ==
  /\ at[p] = "waiting"
  /\ Forget(p)
  /\ UNCHANGED <<holder, lease, clock, issued, fence, durable>>

Crash(p) ==
  /\ at[p] # "idle" \/ fence[p] # NoFence
  /\ holder' = IF holder = p THEN Nobody ELSE holder
  /\ Forget(p)
  /\ fence' = [fence EXCEPT ![p] = NoFence]
  /\ UNCHANGED <<lease, clock, issued, durable>>

Tick ==
  /\ clock < MaxTime
  /\ clock' = clock + 1
  /\ UNCHANGED <<holder, lease, issued, at, op, now, cur, fence, durable>>

Next ==
  \/ Tick
  \/ \E p \in Procs :
       \/ \E o \in Ops : Call(p, o)
       \/ Lock(p) \/ Refuse(p) \/ Claim(p) \/ MarkStale(p) \/ Recover(p) \/ Heartbeat(p)
       \/ Operate(p) \/ OperateThrows(p) \/ Conclude(p) \/ Unlock(p) \/ LockTimeout(p)
       \/ Crash(p)

Spec == Init /\ [][Next]_vars
---------------------------------------------------------------------------
(* Properties.                                                             *)

Places == {"idle", "waiting", "inside", "second", "leaving"}

TypeOK ==
  /\ holder \in Procs \cup {Nobody}
  /\ lease \in Leases \cup {NoLease}
  /\ clock \in Nat /\ issued \in Nat /\ durable \in Nat
  /\ at \in [Procs -> Places]
  /\ op \in [Procs -> Ops]
  /\ now \in [Procs -> Nat]
  /\ cur \in [Procs -> Leases \cup {NoLease}]
  /\ fence \in [Procs -> Fences \cup {NoFence}]

\* A lease that is active and not expired is never taken from its holder,
\* however long ago the taker sampled the time and whichever calls raced.
LiveLeaseIsKept ==
  [][LiveAt(lease, clock) =>
       lease'.generation = lease.generation /\ lease'.token = lease.token]_lease

\* Once a generation has run its guarded operation, no older generation runs
\* one: a worker that was recovered while it slept, or while it waited for the
\* lock, cannot write over its successor.
OperationsAreFenced == [][durable' >= durable]_durable

\* No two processes were given the same generation or the same token, and what
\* they were given never runs ahead of the lease file, also across a recovery
\* that crashed between its two writes.
FencesAreUnique ==
  \A p \in Procs : fence[p] # NoFence =>
    /\ lease # NoLease
    /\ fence[p].generation <= lease.generation
    /\ \A q \in Procs \ {p} : fence[q] # NoFence =>
         fence[q].generation # fence[p].generation /\ fence[q].token # fence[p].token

\* A result on record is one whose guarded operation has run, and no later
\* generation has run one: a crash in concludeWith leaves work done but not
\* recorded, never recorded but not done.
ResultsWereProduced ==
  lease # NoLease /\ lease.result => durable = lease.generation

\* "an expired generation cannot resurrect itself with a late heartbeat"
\* (worker-lease-store.test.js:11): a renewal finds the lease unexpired.
ExpiredStaysExpired ==
  [][lease # NoLease /\ lease'.generation = lease.generation /\ lease'.expires > lease.expires
       => LiveAt(lease, clock)]_lease
===========================================================================
