---------------------------- MODULE Acceleration ----------------------------
(***************************************************************************)
(* RunPool over CacheStore, as ACCELERATION-MODEL.md lays them out: the    *)
(* runner of every task is a getOrCompute, so that duplicate work of one   *)
(* pool, of its retries and of other processes flows together.             *)
(*                                                                         *)
(* The pool lives in the process Here.  A call is an attempt of a task,    *)
(* <<task, attempt>>, or one of another process.  A runner does not heed   *)
(* its AbortSignal, which getOrCompute has no parameter for: an attempt    *)
(* that timed out goes on, holds its entry's lock, and is what a later     *)
(* attempt joins.                                                          *)
(***************************************************************************)
EXTENDS RunPool, CacheStore

CONSTANTS Here, Others

Attempts == {c \in Tasks \X Nat : c[2] \in 1 .. Task[c[1]].retries + 1}

ASSUME AccelerationAssumption ==
  /\ \A t \in Tasks : \A n \in 1 .. Task[t].retries + 1 : <<t, n>> \in Calls
  /\ Others \subseteq Calls
  /\ \A c \in Calls \ Others : c[1] \in Tasks /\ c[2] \in Nat /\ ProcOf[c] = Here
  /\ \A c \in Others : ProcOf[c] # Here

accelerationVars == <<poolVars, cacheVars>>

Current(t) == <<t, attempt[t]>>

AccelerationInit == PoolInit /\ CacheInit

Schedule == Pass /\ UNCHANGED cacheVars

\* An attempt calls its runner.
Start(t) ==
  /\ Awaited(t) /\ Ask(Current(t))
  /\ UNCHANGED poolVars

\* The promise of the runner settles before the timeout.
Settle(t) ==
  /\ Awaited(t)
  /\ \/ call[Current(t)] = "done" /\ Succeed(t)
     \/ call[Current(t)] = "failed" /\ AttemptFails(t)
  /\ UNCHANGED cacheVars

\* The timeout wins.
Expire(t) ==
  /\ Awaited(t)
  /\ call[Current(t)] \in Leading \cup {"joined"} /\ TimesOut(t)
  /\ UNCHANGED cacheVars

\* The store, for attempts that are awaited, attempts that are late, and
\* callers in other processes.
Store ==
  /\ \/ \E c \in Calls : Proceed(c) \/ Put(c) \/ ComputeFails(c)
     \/ \E c \in Others : Ask(c)
     \/ \E p \in Procs \ {Here} : Die(p)
  /\ UNCHANGED poolVars

AccelerationNext ==
  \/ Schedule
  \/ \E t \in Tasks : Start(t) \/ Settle(t) \/ Expire(t)
  \/ Store

AccelerationSpec == AccelerationInit /\ [][AccelerationNext]_accelerationVars

\* The scheduler runs on and timers fire; a computation may last for ever.
FairAccelerationSpec ==
  /\ AccelerationSpec
  /\ WF_accelerationVars(Schedule)
  /\ \A t \in Tasks : WF_accelerationVars(Start(t) \/ Settle(t) \/ Expire(t))
---------------------------------------------------------------------------
\* Computations of this process that name a common resource never run at the
\* same time, unless one of them belongs to an attempt that timed out: the
\* pool gives up its resources though its runner goes on.
WorkIsApart ==
  \A c, d \in Computing \ Others :
    c # d /\ Task[c[1]].resources \cap Task[d[1]].resources # {} => {c, d} \cap late # {}

\* runPool returns even if a computation it waits for, its own or that of
\* another process, never ends, if every task has a timeout.
PoolReturns == (\A t \in Tasks : Task[t].timeout) => <>(turn = "done")
=============================================================================
