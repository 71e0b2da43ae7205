------------------------- MODULE WorkerLeaseProofs -------------------------
(***************************************************************************)
(* Proofs about the lease of one assignment for any number of processes,   *)
(* any time to live and any bounds.                                        *)
(***************************************************************************)
EXTENDS WorkerLease, TLAPS

\* Whoever is past the lock and not yet out of it holds it.
InsideHolds ==
  \A p \in Procs : at[p] \in {"inside", "second", "leaving"} => holder = p

\* What a call read under the lock is still what the file says.
CurIsLease ==
  \A p \in Procs : at[p] \in {"inside", "second"} => cur[p] = lease

\* A call's time is not ahead of the clock.
NowIsPast == \A p \in Procs : now[p] <= clock

\* Every token was counted when it was issued.
TokensIssued ==
  /\ lease # NoLease => lease.token <= issued
  /\ \A p \in Procs : fence[p] # NoFence => fence[p].token <= issued

\* Between the two writes of a call the first one is in effect.
Halfway ==
  \A p \in Procs : at[p] = "second" =>
    /\ lease # NoLease
    /\ op[p] = "recoverExpired" => lease.status = "stale"
    /\ op[p] # "recoverExpired" => durable = lease.generation

\* No operation ran for a generation that the file has not reached.
DurableBehind == durable <= GenerationOf(lease)

Inv ==
  /\ TypeOK /\ InsideHolds /\ CurIsLease /\ NowIsPast /\ TokensIssued /\ Halfway
  /\ DurableBehind /\ FencesAreUnique /\ ResultsWereProduced

\* One process's step: everything it can do.
Step(p) ==
  \/ \E o \in Ops : Call(p, o)
  \/ Lock(p) \/ Refuse(p) \/ Claim(p) \/ MarkStale(p) \/ Recover(p) \/ Heartbeat(p)
  \/ Operate(p) \/ OperateThrows(p) \/ Conclude(p) \/ Unlock(p) \/ LockTimeout(p) \/ Crash(p)

\* The steps that write the lease file.
Write(p) == Claim(p) \/ MarkStale(p) \/ Recover(p) \/ Heartbeat(p) \/ Conclude(p)

LEMMA InvInit == LeaseAssumption /\ Init => Inv
  BY DEF LeaseAssumption, Init, MutexInit, Inv, TypeOK, Places, Ops, InsideHolds, CurIsLease, NowIsPast, TokensIssued,
     Halfway, DurableBehind, GenerationOf, FencesAreUnique, ResultsWereProduced

\* What a process does leaves the calls and the fences of the others alone.
LEMMA OthersStay ==
  ASSUME TypeOK, NEW p \in Procs, NEW q \in Procs, p # q, Step(q)
  PROVE  /\ at'[p] = at[p] /\ op'[p] = op[p] /\ now'[p] = now[p] /\ cur'[p] = cur[p]
         /\ fence'[p] = fence[p]
<1> USE DEF TypeOK, Goto, Forget
<1>1. CASE (\E o \in Ops : Call(q, o)) \/ Lock(q) \/ Unlock(q) \/ LockTimeout(q) \/ Crash(q)
  BY <1>1 DEF Call, Lock, Unlock, LockTimeout, Crash
<1>2. CASE Write(q)
  BY <1>2 DEF Write, Claim, MarkStale, Recover, Heartbeat, Conclude, WriteFresh
<1>3. CASE Refuse(q) \/ Operate(q) \/ OperateThrows(q)
  BY <1>3 DEF Refuse, Operate, OperateThrows
<1> QED
  BY <1>1, <1>2, <1>3 DEF Step, Write

\* A new lease: its generation and token are one more than what there was.
LEMMA FreshFacts ==
  ASSUME LeaseAssumption, TypeOK, NEW p \in Procs, cur[p] = lease, WriteFresh(p)
  PROVE  /\ lease' \in Leases /\ fence' \in [Procs -> Fences \cup {NoFence}] /\ issued' \in Nat
         /\ lease'.generation = GenerationOf(lease) + 1 /\ lease'.token = issued + 1
         /\ lease'.status = "active" /\ ~lease'.result
         /\ issued' = issued + 1 /\ GenerationOf(lease) \in Nat
         /\ fence'[p] \in Fences
         /\ fence'[p].generation = lease'.generation /\ fence'[p].token = lease'.token
<1>1. GenerationOf(lease) \in Nat
  BY DEF TypeOK, GenerationOf, Leases
<1>2. now[p] + Ttl \in Nat
  BY DEF LeaseAssumption, TypeOK
<1> DEFINE fresh == [generation |-> GenerationOf(cur[p]) + 1, token |-> issued + 1]
<1>3. fresh \in Fences
  BY <1>1 DEF Fences, TypeOK
<1>4. fence' = [fence EXCEPT ![p] = fresh]
  BY DEF WriteFresh
<1>5. /\ lease' = [generation |-> GenerationOf(lease) + 1, token |-> issued + 1,
                   status |-> "active", expires |-> now[p] + Ttl, result |-> FALSE]
      /\ issued' = issued + 1
  BY DEF WriteFresh
<1>6. lease' \in Leases
  BY <1>1, <1>2, <1>5 DEF Leases, Statuses, TypeOK
<1>7. fence' \in [Procs -> Fences \cup {NoFence}] /\ fence'[p] = fresh
  BY <1>3, <1>4 DEF TypeOK
<1> QED
  BY <1>1, <1>3, <1>5, <1>6, <1>7 DEF TypeOK

\* What the writes do to the file.
LEMMA WriteFacts ==
  ASSUME LeaseAssumption, Inv, NEW p \in Procs, Write(p)
  PROVE  /\ at[p] \in {"inside", "second"} /\ holder = p /\ cur[p] = lease
         /\ lease' \in Leases /\ UNCHANGED <<holder, clock, op, now, durable>>
         /\ \/ WriteFresh(p) /\ ~LiveAt(lease, clock)
            \/ /\ lease # NoLease /\ UNCHANGED <<issued, fence>>
               /\ lease'.generation = lease.generation /\ lease'.token = lease.token
<1>1. at[p] \in {"inside", "second"} /\ holder = p /\ cur[p] = lease
  BY DEF Write, Claim, MarkStale, Recover, Heartbeat, Conclude, Inv, InsideHolds, CurIsLease
<1>2. UNCHANGED <<holder, clock, op, now, durable>>
  BY DEF Write, Claim, MarkStale, Recover, Heartbeat, Conclude
<1>3. LiveAt(lease, clock) => LiveAt(lease, now[p])
  BY DEF LiveAt, Running, Inv, NowIsPast, TypeOK, Leases
<1>4. CASE Claim(p)
  BY <1>1, <1>2, <1>3, <1>4, FreshFacts DEF Claim, Inv
<1>5. CASE Recover(p)
  <2>1. ~LiveAt(lease, clock)
    BY <1>1, <1>5 DEF Recover, LiveAt, Running, Inv, Halfway
  <2> QED
    BY <1>1, <1>2, <1>5, <2>1, FreshFacts DEF Recover, Inv
<1>6. CASE MarkStale(p)
  <2>1. lease \in Leases /\ lease' = [lease EXCEPT !.status = "stale"]
    BY <1>1, <1>6 DEF MarkStale, Running, Inv, TypeOK
  <2>2. lease' \in Leases /\ lease'.generation = lease.generation /\ lease'.token = lease.token
    BY <2>1 DEF Leases, Statuses
  <2> QED
    BY <1>1, <1>2, <1>6, <2>1, <2>2 DEF MarkStale, LeaseAssumption
<1>7. CASE Heartbeat(p)
  <2>1. lease \in Leases /\ lease' = [lease EXCEPT !.expires = now[p] + Ttl]
    BY <1>1, <1>7 DEF Heartbeat, ValidCurrent, LiveAt, Running, Inv, TypeOK
  <2>2. now[p] + Ttl \in Nat
    BY DEF LeaseAssumption, Inv, TypeOK
  <2>3. lease' \in Leases /\ lease'.generation = lease.generation /\ lease'.token = lease.token
    BY <2>1, <2>2 DEF Leases
  <2> QED
    BY <1>1, <1>2, <1>7, <2>1, <2>3 DEF Heartbeat, LeaseAssumption
<1>8. CASE Conclude(p)
  <2>1. lease \in Leases
        /\ lease' = [lease EXCEPT !.status = "completed", !.expires = now[p], !.result = TRUE]
    BY <1>1, <1>8 DEF Conclude, Inv, Halfway, TypeOK
  <2>2. lease' \in Leases /\ lease'.generation = lease.generation /\ lease'.token = lease.token
    BY <2>1 DEF Leases, Statuses, Inv, TypeOK
  <2> QED
    BY <1>1, <1>2, <1>8, <2>1, <2>2 DEF Conclude, LeaseAssumption
<1> QED
  BY <1>4, <1>5, <1>6, <1>7, <1>8 DEF Write

\* Only the writes change the file, and only Operate what is durable.
LEMMA OnlyWrites ==
  ASSUME [Next]_vars
  PROVE  /\ lease' # lease => \E p \in Procs : Write(p)
         /\ durable' # durable => \E p \in Procs : Operate(p)
  BY DEF Next, Write, Call, Lock, Refuse, Claim, MarkStale, Recover, Heartbeat, Operate,
     OperateThrows, Conclude, Unlock, LockTimeout, Crash, Tick, vars

\* Every step is one process's, or the clock's, or none.
LEMMA Steps ==
  ASSUME [Next]_vars
  PROVE  Tick \/ UNCHANGED vars \/ \E p \in Procs : Step(p)
  BY DEF Next, Step

\* A process's step keeps the types.
LEMMA TypeStep ==
  ASSUME LeaseAssumption, Inv, NEW p \in Procs, Step(p)
  PROVE  TypeOK'
<1> USE DEF TypeOK, Inv, Goto, Forget, Places
<1>1. ASSUME NEW o \in Ops, Call(p, o) PROVE TypeOK'
  BY <1>1 DEF Call
<1>2. CASE Lock(p)
  BY <1>2 DEF Lock, Enter
<1>3. CASE Write(p)
  <2>1. /\ lease' \in Leases /\ UNCHANGED <<holder, clock, op, now, durable>>
        /\ issued' \in Nat /\ fence' \in [Procs -> Fences \cup {NoFence}]
    BY <1>3, WriteFacts, FreshFacts
  <2>2. at' \in [Procs -> Places]
    BY <1>3 DEF Write, Claim, MarkStale, Recover, Heartbeat, Conclude
  <2>3. cur' \in [Procs -> Leases \cup {NoLease}]
    BY <1>3, <2>1 DEF Write, Claim, MarkStale, Recover, Heartbeat, Conclude
  <2> QED
    BY <2>1, <2>2, <2>3
<1>4. CASE Operate(p)
  <2>1. fence[p].generation \in Nat
    BY <1>4 DEF Operate, ValidCurrent, Fences
  <2> QED
    BY <1>4, <2>1 DEF Operate
<1>5. CASE Refuse(p) \/ OperateThrows(p)
  BY <1>5 DEF Refuse, OperateThrows
<1>6. CASE Unlock(p) \/ LockTimeout(p)
  BY <1>6 DEF Unlock, LockTimeout, Leave, Ops
<1>7. CASE Crash(p)
  BY <1>7 DEF Crash, Ops
<1> QED
  BY <1>1, <1>2, <1>3, <1>4, <1>5, <1>6, <1>7 DEF Step, Write

\* The lock keeps the others out while a process is inside.
LEMMA LockStep ==
  ASSUME LeaseAssumption, Inv, NEW p \in Procs, Step(p)
  PROVE  InsideHolds' /\ CurIsLease'
<1> USE DEF Inv, TypeOK
<1>1. \A q \in Procs : q # p => at'[q] = at[q] /\ cur'[q] = cur[q]
  BY OthersStay
<1>2. ASSUME NEW q \in Procs, q # p, at[q] \in {"inside", "second", "leaving"}
      PROVE  holder = q /\ holder' = q
  BY <1>2 DEF InsideHolds, Step, Call, Lock, Enter, Refuse, Claim, MarkStale, Recover, Heartbeat,
     Operate, OperateThrows, Conclude, Unlock, Leave, LockTimeout, Crash, LeaseAssumption
<1>3. at'[p] \in {"inside", "second", "leaving"} => holder' = p
  <2>1. CASE Lock(p) \/ (\E o \in Ops : Call(p, o)) \/ Unlock(p) \/ LockTimeout(p) \/ Crash(p)
    BY <2>1 DEF Lock, Enter, Call, Unlock, LockTimeout, Crash, Goto, Forget
  <2>2. CASE Write(p)
    BY <2>2, WriteFacts
  <2>3. CASE Refuse(p) \/ Operate(p) \/ OperateThrows(p)
    BY <2>3 DEF Refuse, Operate, OperateThrows, InsideHolds
  <2> QED
    BY <2>1, <2>2, <2>3 DEF Step, Write
<1>4. ASSUME NEW q \in Procs, q # p, at[q] \in {"inside", "second"} PROVE lease' = lease
  <2>1. ~Write(p)
    BY <1>2, <1>4, WriteFacts
  <2> QED
    BY <2>1 DEF Step, Write, Call, Lock, Refuse, Operate, OperateThrows, Unlock, LockTimeout, Crash
<1>5. at'[p] \in {"inside", "second"} => cur'[p] = lease'
  <2>1. CASE Lock(p) \/ (\E o \in Ops : Call(p, o)) \/ Unlock(p) \/ LockTimeout(p) \/ Crash(p)
    BY <2>1 DEF Lock, Call, Unlock, LockTimeout, Crash, Goto, Forget
  <2>2. CASE MarkStale(p)
    BY <2>2 DEF MarkStale
  <2>3. CASE Claim(p) \/ Recover(p) \/ Heartbeat(p) \/ Conclude(p) \/ Refuse(p) \/ OperateThrows(p)
    BY <2>3 DEF Claim, Recover, Heartbeat, Conclude, Refuse, OperateThrows, Goto
  <2>4. CASE Operate(p)
    BY <2>4 DEF Operate, Goto, CurIsLease
  <2> QED
    BY <2>1, <2>2, <2>3, <2>4 DEF Step
<1>6. InsideHolds'
  BY <1>1, <1>2, <1>3 DEF InsideHolds
<1>7. CurIsLease'
  BY <1>1, <1>4, <1>5 DEF CurIsLease
<1> QED
  BY <1>6, <1>7

\* Times stay in the past, and tokens are counted.
LEMMA CountStep ==
  ASSUME LeaseAssumption, Inv, NEW p \in Procs, Step(p)
  PROVE  NowIsPast' /\ TokensIssued' /\ FencesAreUnique'
<1> USE DEF Inv, TypeOK
<1>1. \A q \in Procs : q # p => now'[q] = now[q] /\ fence'[q] = fence[q]
  BY OthersStay
<1>2. NowIsPast'
  <2>1. clock' = clock /\ (now'[p] = now[p] \/ now'[p] = clock \/ now'[p] = 0)
    BY DEF Step, Call, Lock, Refuse, Claim, MarkStale, Recover, Heartbeat, Operate,
       OperateThrows, Conclude, Unlock, LockTimeout, Crash, Forget
  <2> QED
    BY <1>1, <2>1 DEF NowIsPast
<1>3. CASE Write(p) /\ WriteFresh(p)
  <2>1. /\ lease' \in Leases /\ issued' \in Nat
        /\ lease'.generation = GenerationOf(lease) + 1 /\ lease'.token = issued + 1
        /\ issued' = issued + 1 /\ GenerationOf(lease) \in Nat
        /\ fence'[p] \in Fences
        /\ fence'[p].generation = lease'.generation /\ fence'[p].token = lease'.token
    BY <1>3, FreshFacts, WriteFacts
  <2>2. ASSUME NEW q \in Procs, q # p, fence[q] # NoFence
        PROVE  /\ fence[q].generation \in Nat /\ fence[q].token \in Nat
               /\ fence[q].generation < lease'.generation /\ fence[q].token < lease'.token
    <3>1. fence[q] \in Fences /\ lease # NoLease /\ fence[q].generation <= lease.generation
          /\ fence[q].token <= issued
      BY <2>2 DEF FencesAreUnique, TokensIssued
    <3> QED
      BY <2>1, <3>1 DEF Fences, GenerationOf
  <2>3. lease' # NoLease
    BY <2>1, LeaseAssumption DEF LeaseAssumption
  <2>4. TokensIssued'
    BY <1>1, <2>1, <2>2 DEF TokensIssued
  <2>5. ASSUME NEW q \in Procs, fence'[q] # NoFence
        PROVE  /\ fence'[q].generation \in Nat /\ fence'[q].generation <= lease'.generation
    BY <1>1, <2>1, <2>2, <2>5 DEF Fences
  <2>6. ASSUME NEW q \in Procs, NEW r \in Procs \ {q}, fence'[q] # NoFence, fence'[r] # NoFence
        PROVE  fence'[r].generation # fence'[q].generation /\ fence'[r].token # fence'[q].token
    <3>1. CASE q = p
      BY <1>1, <2>1, <2>2, <2>6, <3>1
    <3>2. CASE r = p
      BY <1>1, <2>1, <2>2, <2>6, <3>2
    <3>3. CASE q # p /\ r # p
      BY <1>1, <2>6, <3>3 DEF FencesAreUnique
    <3> QED
      BY <3>1, <3>2, <3>3
  <2> QED
    BY <1>2, <2>3, <2>4, <2>5, <2>6 DEF FencesAreUnique
<1>4. CASE ~(Write(p) /\ WriteFresh(p))
  <2>1. /\ issued' = issued
        /\ fence'[p] = fence[p] \/ fence'[p] = NoFence
    <3>1. CASE Write(p)
      BY <1>4, <3>1, WriteFacts
    <3>2. CASE ~Write(p)
      BY <3>2 DEF Write, Step, Call, Lock, Refuse, Operate, OperateThrows, Unlock, LockTimeout,
         Crash
    <3> QED
      BY <3>1, <3>2
  <2>2. \/ lease' = lease
        \/ /\ lease # NoLease /\ lease' # NoLease
           /\ lease'.generation = lease.generation /\ lease'.token = lease.token
    <3>1. CASE Write(p)
      BY <1>4, <3>1, WriteFacts, LeaseAssumption DEF LeaseAssumption
    <3>2. CASE ~Write(p)
      BY <3>2 DEF Write, Step, Call, Lock, Refuse, Operate, OperateThrows, Unlock, LockTimeout,
         Crash
    <3> QED
      BY <3>1, <3>2
  <2>3. TokensIssued'
    BY <1>1, <2>1, <2>2 DEF TokensIssued
  <2>4. \A q \in Procs : fence'[q] # NoFence => fence'[q] = fence[q]
    BY <1>1, <2>1
  <2>5. FencesAreUnique'
    BY <2>2, <2>4 DEF FencesAreUnique
  <2> QED
    BY <1>2, <2>3, <2>5
<1> QED
  BY <1>3, <1>4

\* What was done and what is on record stay in step.
LEMMA ResultStep ==
  ASSUME LeaseAssumption, Inv, NEW p \in Procs, Step(p)
  PROVE  Halfway' /\ DurableBehind' /\ ResultsWereProduced' /\ durable' >= durable
<1> USE DEF Inv, TypeOK
<1>o. \A q \in Procs : q # p => at'[q] = at[q] /\ op'[q] = op[q]
  BY OthersStay
<1>1. CASE Write(p)
  <2>1. /\ at[p] \in {"inside", "second"} /\ holder = p /\ cur[p] = lease
        /\ lease' \in Leases /\ UNCHANGED <<holder, clock, op, now, durable>>
        /\ \/ WriteFresh(p)
           \/ lease # NoLease /\ lease'.generation = lease.generation
    BY <1>1, WriteFacts
  <2>2. ASSUME NEW q \in Procs, q # p PROVE at'[q] # "second"
    BY <1>o, <2>1, <2>2 DEF InsideHolds
  <2>3. at'[p] = "second" => op'[p] = "recoverExpired" /\ lease' # NoLease /\ lease'.status = "stale"
    <3>1. CASE MarkStale(p)
      <4>1. lease \in Leases /\ lease' = [lease EXCEPT !.status = "stale"]
        BY <2>1, <3>1 DEF MarkStale, Running
      <4> QED
        BY <2>1, <3>1, <4>1, LeaseAssumption DEF MarkStale, Leases, LeaseAssumption
    <3>2. CASE Claim(p) \/ Recover(p) \/ Heartbeat(p) \/ Conclude(p)
      BY <3>2 DEF Claim, Recover, Heartbeat, Conclude, Goto
    <3> QED
      BY <1>1, <3>1, <3>2 DEF Write
  <2>4. Halfway'
    BY <2>2, <2>3 DEF Halfway
  <2>5. lease' # NoLease
    BY <2>1, LeaseAssumption DEF LeaseAssumption
  <2>6. DurableBehind'
    <3>1. CASE WriteFresh(p)
      <4>1. lease'.generation = GenerationOf(lease) + 1 /\ GenerationOf(lease) \in Nat
        BY <2>1, <3>1, FreshFacts
      <4> QED
        BY <2>1, <2>5, <4>1 DEF DurableBehind, GenerationOf
    <3>2. CASE lease # NoLease /\ lease'.generation = lease.generation
      BY <2>1, <2>5, <3>2 DEF DurableBehind, GenerationOf
    <3> QED
      BY <2>1, <3>1, <3>2
  <2>7. ResultsWereProduced'
    <3>1. CASE Claim(p) \/ Recover(p)
      BY <2>1, <3>1, FreshFacts DEF Claim, Recover, ResultsWereProduced
    <3>2. CASE MarkStale(p) \/ Heartbeat(p)
      <4>1. lease \in Leases /\ lease'.generation = lease.generation /\ lease'.result = lease.result
        BY <2>1, <3>2 DEF MarkStale, Heartbeat, Running, ValidCurrent, LiveAt, Leases
      <4> QED
        BY <2>1, <2>5, <4>1, LeaseAssumption DEF ResultsWereProduced, LeaseAssumption
    <3>3. CASE Conclude(p)
      <4>1. lease \in Leases /\ durable = lease.generation
        BY <3>3 DEF Conclude, Halfway
      <4>2. lease'.generation = lease.generation
        BY <2>1, <3>3, <4>1 DEF Conclude, Leases
      <4> QED
        BY <2>1, <4>1, <4>2 DEF ResultsWereProduced
    <3> QED
      BY <1>1, <3>1, <3>2, <3>3 DEF Write
  <2> QED
    BY <2>1, <2>4, <2>6, <2>7
<1>2. CASE Operate(p)
  <2>1. /\ lease # NoLease /\ lease \in Leases
        /\ durable' = lease.generation /\ lease' = lease /\ op' = op
        /\ op[p] \in {"withCurrent", "concludeWith"}
    BY <1>2 DEF Operate, ValidCurrent, LiveAt, Running, CurIsLease
  <2>2. ASSUME NEW q \in Procs, q # p PROVE at'[q] # "second"
    BY <1>2, <1>o, <2>2 DEF InsideHolds, Operate
  <2>3. Halfway'
    BY <2>1, <2>2 DEF Halfway
  <2>4. lease.generation \in Nat
    BY <2>1 DEF Leases
  <2> QED
    BY <2>1, <2>3, <2>4 DEF DurableBehind, GenerationOf, ResultsWereProduced
<1>3. CASE ~Write(p) /\ ~Operate(p)
  <2>1. lease' = lease /\ durable' = durable
    BY <1>3 DEF Write, Step, Call, Lock, Refuse, OperateThrows, Unlock, LockTimeout, Crash
  <2>2. at'[p] # "second"
    BY <1>3 DEF Write, Step, Call, Lock, Refuse, OperateThrows, Unlock, LockTimeout, Crash, Goto,
       Forget
  <2>3. Halfway'
    BY <1>o, <2>1, <2>2 DEF Halfway
  <2> QED
    BY <2>1, <2>3 DEF DurableBehind, ResultsWereProduced
<1> QED
  BY <1>1, <1>2, <1>3

\* Every step keeps the invariant.
LEMMA InvStep == LeaseAssumption /\ Inv /\ [Next]_vars => Inv'
<1> SUFFICES ASSUME LeaseAssumption, Inv, [Next]_vars PROVE Inv'
  OBVIOUS
<1>1. ASSUME NEW p \in Procs, Step(p) PROVE Inv'
  BY <1>1, TypeStep, LockStep, CountStep, ResultStep DEF Inv
<1>2. CASE Tick
  <2>1. UNCHANGED <<holder, lease, issued, at, op, now, cur, fence, durable>> /\ clock' = clock + 1
    BY <1>2 DEF Tick
  <2>2. TypeOK' /\ NowIsPast'
    BY <2>1 DEF Inv, TypeOK, NowIsPast
  <2> QED
    BY <2>1, <2>2 DEF Inv, InsideHolds, CurIsLease, TokensIssued, Halfway, DurableBehind,
       GenerationOf, FencesAreUnique, ResultsWereProduced
<1>3. CASE UNCHANGED vars
  BY <1>3 DEF vars, Inv, TypeOK, NowIsPast, InsideHolds, CurIsLease, TokensIssued, Halfway,
     DurableBehind, GenerationOf, FencesAreUnique, ResultsWereProduced
<1> QED
  BY <1>1, <1>2, <1>3, Steps

\* The invariant holds in every reachable state.
LEMMA InvHolds == Spec => []Inv
  BY LeaseAssumption, InvInit, InvStep, PTL DEF Spec

\* The types hold for any processes and bounds.
THEOREM LeaseTypeCorrect == Spec => []TypeOK
<1>1. Inv => TypeOK
  BY DEF Inv
<1> QED
  BY <1>1, InvHolds, PTL

\* No two processes are ever given the same generation or token.
THEOREM LeaseFencesAreUnique == Spec => []FencesAreUnique
<1>1. Inv => FencesAreUnique
  BY DEF Inv
<1> QED
  BY <1>1, InvHolds, PTL

\* What is recorded as a result has been produced.
THEOREM LeaseResultsWereProduced == Spec => []ResultsWereProduced
<1>1. Inv => ResultsWereProduced
  BY DEF Inv
<1> QED
  BY <1>1, InvHolds, PTL

\* A generation that was superseded never runs a guarded operation again.
THEOREM LeaseOperationsAreFenced == Spec => OperationsAreFenced
<1>1. ASSUME Inv, [Next]_vars, durable' # durable PROVE durable' >= durable
  <2>1. PICK p \in Procs : Operate(p)
    BY <1>1, OnlyWrites
  <2> QED
    BY <1>1, <2>1, LeaseAssumption, ResultStep DEF Step
<1>2. Inv /\ [Next]_vars => [durable' >= durable]_durable
  BY <1>1
<1> QED
  BY <1>2, InvHolds, PTL DEF Spec, OperationsAreFenced

\* A live lease is not taken from its holder.
THEOREM LeaseLiveIsKept == Spec => LiveLeaseIsKept
<1>1. ASSUME Inv, [Next]_vars, lease' # lease, LiveAt(lease, clock)
      PROVE  lease'.generation = lease.generation /\ lease'.token = lease.token
  <2>1. PICK p \in Procs : Write(p)
    BY <1>1, OnlyWrites
  <2> QED
    BY <1>1, <2>1, LeaseAssumption, WriteFacts
<1>2. Inv /\ [Next]_vars =>
        [LiveAt(lease, clock) =>
           lease'.generation = lease.generation /\ lease'.token = lease.token]_lease
  BY <1>1
<1> QED
  BY <1>2, InvHolds, PTL DEF Spec, LiveLeaseIsKept
===========================================================================
