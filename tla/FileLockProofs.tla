-------------------------- MODULE FileLockProofs --------------------------
(***************************************************************************)
(* Proofs about the lock for any number of processes on any hosts.         *)
(***************************************************************************)
EXTENDS FileLock, TLAPS

\* While no takeover has gone wrong, who owns the lock made the directory.
OwnersMade ==
  ~crossed /\ ~overdue =>
    \A p \in Procs : Owning(p) => dir # NoDir /\ dir.maker = p

\* A process about to remove a directory judged one that a process had made.
TargetsKnown ==
  \A p \in Procs : pc[p] \in {"purge", "purging"} => target[p] \in Procs

\* An old directory of a live maker carries its owner record, and whoever is
\* about to judge it has read that record on the same host.
OldAndAlive ==
  ~overdue /\ dir # NoDir /\ dir.aged /\ Alive(dir.maker) =>
    /\ dir.owner = dir.maker
    /\ \A q \in Procs : Host[q] = Host[dir.maker]
    /\ \A q \in Procs : pc[q] = "stat" => seen[q] = dir.owner

LockInv ==
  LockTypeOK /\ OwnersMade /\ TargetsKnown /\ OldAndAlive /\ TakeoverOnlyFromDead

\* The invariant holds at the start: nobody contends and there is no directory.
LEMMA LockInvInit == LockInit => LockInv
  BY LockAssumption DEF LockInit, LockInv, LockTypeOK, PCs, OwnersMade, Owning,
     TargetsKnown, OldAndAlive, TakeoverOnlyFromDead

\* Every step keeps the types, one case for each action of the lock.
LEMMA LockTypeStep == LockTypeOK /\ [LockNext]_lockVars => LockTypeOK'
<1> SUFFICES ASSUME LockTypeOK, [LockNext]_lockVars PROVE LockTypeOK'
  OBVIOUS
<1> USE LockAssumption DEF LockTypeOK, Dirs, PCs, Goto
<1>1. ASSUME NEW p \in Procs, MakeDir(p) PROVE LockTypeOK'
  <2>1. dir' \in Dirs \cup {NoDir}
    <3>1. [maker |-> p, owner |-> NoOwner, aged |-> FALSE] \in Dirs
      OBVIOUS
    <3> QED
      BY <1>1, <3>1 DEF MakeDir
  <2>2. pc' \in [Procs -> PCs]
    BY <1>1 DEF MakeDir
  <2> QED
    BY <1>1, <2>1, <2>2 DEF MakeDir
<1>2. ASSUME NEW p \in Procs, WriteOwner(p) PROVE LockTypeOK'
  BY <1>2 DEF WriteOwner
<1>3. ASSUME NEW p \in Procs, ReadOwner(p) PROVE LockTypeOK'
  BY <1>3 DEF ReadOwner
<1>4. ASSUME NEW p \in Procs, Judge(p) PROVE LockTypeOK'
  BY <1>4 DEF Judge
<1>5. ASSUME NEW p \in Procs, Purge(p) PROVE LockTypeOK'
  BY <1>5 DEF Purge, EmptyDir, NoteCrossing
<1>6. ASSUME NEW p \in Procs, EndPurge(p) PROVE LockTypeOK'
  BY <1>6 DEF EndPurge, RemoveDir, NoteCrossing
<1>7. ASSUME NEW p \in Procs, EndRelease(p) PROVE LockTypeOK'
  BY <1>7 DEF EndRelease, RemoveDir
<1>8. ASSUME NEW p \in Procs, Acquire(p) \/ Timeout(p) PROVE LockTypeOK'
  BY <1>8 DEF Acquire, Timeout
<1>9. ASSUME NEW p \in Procs, Release(p) PROVE LockTypeOK'
  BY <1>9 DEF Release, EmptyDir
<1>10. ASSUME NEW p \in Procs, Crash(p) PROVE LockTypeOK'
  BY <1>10 DEF Crash
<1>11. CASE Age
  BY <1>11 DEF Age
<1>12. CASE UNCHANGED lockVars
  BY <1>12 DEF lockVars
<1> QED
  BY <1>1, <1>2, <1>3, <1>4, <1>5, <1>6, <1>7, <1>8, <1>9, <1>10, <1>11, <1>12
     DEF LockNext, LockStep

\* Nothing but a step of the process itself changes where it is; the dead stay
\* dead.
LEMMA DeadStayDead ==
  ASSUME LockTypeOK, [LockNext]_lockVars, NEW p \in Procs, ~Alive(p)
  PROVE  ~Alive(p)'
<1> USE DEF LockTypeOK, Alive, Goto
<1>1. ASSUME NEW q \in Procs, LockStep(q) PROVE ~Alive(p)'
  BY <1>1 DEF LockStep, MakeDir, WriteOwner, ReadOwner, Judge, Purge, EndPurge, EndRelease
<1>2. ASSUME NEW q \in Procs, Acquire(q) \/ Timeout(q) \/ Release(q) \/ Crash(q)
      PROVE ~Alive(p)'
  BY <1>2 DEF Acquire, Timeout, Release, Crash
<1>3. CASE Age
  BY <1>3 DEF Age
<1>4. CASE UNCHANGED lockVars
  BY <1>4 DEF lockVars
<1> QED
  BY <1>1, <1>2, <1>3, <1>4 DEF LockNext

\* What one process does leaves the place and the readings of the others alone.
LEMMA OthersStay ==
  ASSUME LockTypeOK, NEW p \in Procs, NEW q \in Procs, p # q,
         LockStep(q) \/ Acquire(q) \/ Timeout(q) \/ Release(q) \/ Crash(q)
  PROVE  pc'[p] = pc[p] /\ seen'[p] = seen[p] /\ target'[p] = target[p]
<1> USE DEF LockTypeOK, Goto
<1>1. CASE LockStep(q)
  BY <1>1 DEF LockStep, MakeDir, WriteOwner, ReadOwner, Judge, Purge, EndPurge, EndRelease
<1>2. CASE Acquire(q) \/ Timeout(q) \/ Release(q) \/ Crash(q)
  BY <1>2 DEF Acquire, Timeout, Release, Crash
<1> QED
  BY <1>1, <1>2

\* How a process comes to own the lock, to judge it, and to remove it.
LEMMA Entries ==
  ASSUME LockTypeOK, [LockNext]_lockVars, NEW p \in Procs
  PROVE  /\ Owning(p)' => Owning(p) \/ MakeDir(p)
         /\ pc'[p] = "stat" => (pc[p] = "stat" /\ seen'[p] = seen[p]) \/ ReadOwner(p)
         /\ pc'[p] \in {"purge", "purging"} =>
              (pc[p] \in {"purge", "purging"} /\ target'[p] = target[p]) \/ Judge(p)
<1> USE DEF Owning
<1>1. ASSUME NEW q \in Procs, q # p,
             LockStep(q) \/ Acquire(q) \/ Timeout(q) \/ Release(q) \/ Crash(q)
      PROVE  pc'[p] = pc[p] /\ seen'[p] = seen[p] /\ target'[p] = target[p]
  BY <1>1, OthersStay
<1>2. CASE Age \/ UNCHANGED lockVars
  BY <1>2 DEF Age, lockVars
<1>3. CASE WriteOwner(p) \/ Purge(p) \/ EndPurge(p) \/ EndRelease(p)
  BY <1>3 DEF WriteOwner, Purge, EndPurge, EndRelease, LockTypeOK, Goto
<1>4. CASE MakeDir(p) \/ ReadOwner(p) \/ Judge(p)
  BY <1>4 DEF MakeDir, ReadOwner, Judge, LockTypeOK, Goto
<1>5. CASE Acquire(p) \/ Timeout(p) \/ Release(p) \/ Crash(p)
  BY <1>5 DEF Acquire, Timeout, Release, Crash, LockTypeOK, Goto
<1> QED
  BY <1>1, <1>2, <1>3, <1>4, <1>5 DEF LockNext, LockStep

\* History is not forgotten.
LEMMA BrokenStaysBroken ==
  [LockNext]_lockVars => (~overdue' => ~overdue) /\ (~crossed' => ~crossed)
<1> SUFFICES ASSUME [LockNext]_lockVars
             PROVE  (~overdue' => ~overdue) /\ (~crossed' => ~crossed)
  OBVIOUS
<1>1. ~overdue' => ~overdue
  BY DEF LockNext, LockStep, MakeDir, WriteOwner, ReadOwner, Judge, Purge, EndPurge,
     EndRelease, Acquire, Timeout, Release, Crash, Age, lockVars
<1>2. ~crossed' => ~crossed
  BY DEF LockNext, LockStep, MakeDir, WriteOwner, ReadOwner, Judge, Purge, EndPurge,
     EndRelease, Acquire, Timeout, Release, Crash, Age, lockVars, NoteCrossing
<1> QED
  BY <1>1, <1>2

\* Each step keeps the rest of the invariant; a conjunct that a step disturbs
\* is proved under it.
LEMMA LockInvStep == LockInv /\ [LockNext]_lockVars => LockInv'
<1> SUFFICES ASSUME LockInv, [LockNext]_lockVars PROVE LockInv'
  OBVIOUS
<1>t. LockTypeOK /\ LockTypeOK'
  BY LockTypeStep DEF LockInv
<1>d. \A p \in Procs : ~Alive(p) => ~Alive(p)'
  BY <1>t, DeadStayDead
<1>k. TargetsKnown'
  <2> USE DEF TargetsKnown, LockInv, LockTypeOK, Goto
  <2>1. ASSUME NEW q \in Procs, LockStep(q) PROVE TargetsKnown'
    BY <2>1, <1>t DEF LockStep, MakeDir, WriteOwner, ReadOwner, Judge, Purge, EndPurge,
       EndRelease, Dirs
  <2>2. ASSUME NEW q \in Procs, Acquire(q) \/ Timeout(q) \/ Release(q) \/ Crash(q)
        PROVE TargetsKnown'
    BY <2>2, <1>t DEF Acquire, Timeout, Release, Crash
  <2>3. CASE Age \/ UNCHANGED lockVars
    BY <2>3 DEF Age, lockVars
  <2> QED
    BY <2>1, <2>2, <2>3 DEF LockNext
<1>o. ~overdue' => ~overdue
  BY BrokenStaysBroken
<1>x. ~crossed' => ~crossed
  BY BrokenStaysBroken
<1>a. TakeoverOnlyFromDead'
  <2> SUFFICES ASSUME ~overdue', NEW p \in Procs, pc'[p] \in {"purge", "purging"}
               PROVE  ~Alive(target[p])'
    BY DEF TakeoverOnlyFromDead
  <2>0. ~overdue
    BY <1>o
  <2>1. CASE pc[p] \in {"purge", "purging"} /\ target'[p] = target[p]
    BY <2>0, <2>1, <1>d, <1>t DEF LockInv, TakeoverOnlyFromDead, TargetsKnown
  <2>2. CASE Judge(p)
    <3>1. dir # NoDir /\ dir.aged /\ ~LiveLocal(p, seen[p]) /\ target'[p] = dir.maker
          /\ pc[p] = "stat" /\ dir \in Dirs
      BY <2>2, <1>t DEF Judge, Goto, LockTypeOK
    <3>2. dir.maker \in Procs
      BY <3>1 DEF Dirs
    <3>3. ~Alive(dir.maker)
      BY <3>1, <3>2, <2>0, LockAssumption DEF LockInv, OldAndAlive, LiveLocal
    <3> QED
      BY <3>1, <3>2, <3>3, <1>d
  <2>3. (pc[p] \in {"purge", "purging"} /\ target'[p] = target[p]) \/ Judge(p)
    BY <1>t, Entries
  <2> QED
    BY <2>1, <2>2, <2>3
<1>l. OldAndAlive'
  <2> SUFFICES ASSUME ~overdue', dir' # NoDir, dir'.aged, Alive(dir.maker)'
               PROVE  /\ dir'.owner = dir'.maker
                      /\ \A q \in Procs : Host[q] = Host[dir'.maker]
                      /\ \A q \in Procs : pc'[q] = "stat" => seen'[q] = dir'.owner
    BY DEF OldAndAlive
  <2>0. ~overdue
    BY <1>o
  <2>1. CASE Age
    <3>1. /\ dir' = [dir EXCEPT !.aged = TRUE] /\ dir \in Dirs
          /\ UNCHANGED <<pc, seen>>
      BY <2>1, <1>t DEF Age, LockTypeOK
    <3>2. dir'.owner = dir.owner /\ dir'.maker = dir.maker
      BY <3>1 DEF Dirs
    <3>3. Alive(dir.maker)
      BY <3>1, <3>2 DEF Alive
    <3> QED
      BY <2>1, <3>1, <3>2, <3>3 DEF Age
  <2>2. CASE dir' = dir
    <3>1. Alive(dir.maker)
      <4>1. dir.maker \in Procs
        BY <2>2, <1>t DEF LockTypeOK, Dirs
      <4> QED
        BY <2>2, <4>1, <1>d
    <3>2. /\ dir.owner = dir.maker
          /\ \A q \in Procs : Host[q] = Host[dir.maker]
          /\ \A q \in Procs : pc[q] = "stat" => seen[q] = dir.owner
      BY <2>0, <2>2, <3>1 DEF LockInv, OldAndAlive
    <3>3. ASSUME NEW q \in Procs, pc'[q] = "stat"
          PROVE  (pc[q] = "stat" /\ seen'[q] = seen[q]) \/ seen'[q] = dir.owner
      <4>1. ASSUME ReadOwner(q) PROVE seen'[q] = dir.owner
        BY <2>2, <4>1, <1>t DEF ReadOwner, LockTypeOK
      <4> QED
        BY <3>3, <4>1, <1>t, Entries
    <3> QED
      BY <2>2, <3>2, <3>3
  <2>3. ASSUME ~Age, dir' # dir PROVE FALSE
    <3>1. PICK q \in Procs : MakeDir(q) \/ WriteOwner(q) \/ Purge(q) \/ Release(q)
                             \/ EndPurge(q) \/ EndRelease(q)
      BY <2>3 DEF LockNext, LockStep, ReadOwner, Judge, Acquire, Timeout, Crash, lockVars
    <3>2. CASE MakeDir(q)
      BY <2>3, <3>2 DEF MakeDir
    <3>3. CASE WriteOwner(q)
      <4>1. dir \in Dirs /\ dir' = [dir EXCEPT !.owner = q, !.aged = FALSE]
        BY <2>3, <3>3, <1>t DEF WriteOwner, LockTypeOK
      <4> QED
        BY <4>1 DEF Dirs
    <3>4. CASE Purge(q) \/ Release(q)
      <4>1. dir \in Dirs /\ dir' = [dir EXCEPT !.owner = NoOwner, !.aged = FALSE]
        BY <2>3, <3>4, <1>t DEF Purge, Release, EmptyDir, LockTypeOK
      <4> QED
        BY <4>1 DEF Dirs
    <3>5. CASE EndPurge(q) \/ EndRelease(q)
      BY <2>3, <3>5 DEF EndPurge, EndRelease, RemoveDir
    <3> QED
      BY <3>1, <3>2, <3>3, <3>4, <3>5
  <2> QED
    BY <2>1, <2>2, <2>3
<1>m. OwnersMade'
  <2> SUFFICES ASSUME ~crossed', ~overdue', NEW p \in Procs, Owning(p)'
               PROVE  dir' # NoDir /\ dir'.maker = p
    BY DEF OwnersMade
  <2>0. ~crossed /\ ~overdue /\ OwnersMade
    BY <1>o, <1>x DEF LockInv
  <2>1. CASE MakeDir(p) /\ ~Owning(p)
    <3>1. dir' = [maker |-> p, owner |-> NoOwner, aged |-> FALSE]
      BY <2>1, <1>t DEF MakeDir, Owning, Goto, LockTypeOK
    <3>2. dir' \in Dirs
      BY <3>1 DEF Dirs
    <3> QED
      BY <3>1, <3>2, LockAssumption
  <2>2. CASE Owning(p)
    <3>1. dir # NoDir /\ dir.maker = p /\ dir \in Dirs /\ Alive(p)
      BY <2>0, <2>2, <1>t DEF OwnersMade, LockTypeOK, Owning, Alive
    <3>2. ASSUME NEW q \in Procs, Purge(q) \/ Release(q) PROVE dir' # NoDir /\ dir'.maker = p
      BY <3>1, <3>2, LockAssumption DEF Purge, Release, EmptyDir, Dirs
    <3>3. ASSUME NEW q \in Procs, EndPurge(q) PROVE dir' # NoDir /\ dir'.maker = p
      <4>1. target[q] = p
        BY <3>1, <3>3 DEF EndPurge, NoteCrossing
      <4> QED
        BY <2>0, <3>1, <3>3, <4>1 DEF LockInv, TakeoverOnlyFromDead, EndPurge
    <3>4. ASSUME NEW q \in Procs, EndRelease(q) PROVE dir' # NoDir /\ dir'.maker = p
      <4>1. q = p
        BY <2>0, <3>1, <3>4 DEF EndRelease, OwnersMade, Owning
      <4> QED
        BY <3>4, <4>1, <1>t DEF EndRelease, Owning, Goto, LockTypeOK
    <3>5. ASSUME NEW q \in Procs, MakeDir(q) \/ WriteOwner(q) \/ ReadOwner(q) \/ Judge(q)
                 \/ Acquire(q) \/ Timeout(q) \/ Crash(q)
          PROVE  dir' # NoDir /\ dir'.maker = p
      <4>1. CASE WriteOwner(q)
        <5>1. dir' = [dir EXCEPT !.owner = q, !.aged = FALSE]
          BY <3>1, <4>1 DEF WriteOwner
        <5>2. dir' \in Dirs /\ dir'.maker = dir.maker
          BY <3>1, <5>1 DEF Dirs
        <5> QED
          BY <3>1, <5>2, LockAssumption
      <4>2. CASE MakeDir(q) \/ ReadOwner(q) \/ Judge(q)
        BY <3>1, <4>2 DEF MakeDir, ReadOwner, Judge
      <4>3. CASE Acquire(q) \/ Timeout(q) \/ Crash(q)
        BY <3>1, <4>3 DEF Acquire, Timeout, Crash
      <4> QED
        BY <3>5, <4>1, <4>2, <4>3
    <3>6. CASE Age
      <4>1. dir' \in Dirs /\ dir'.maker = dir.maker
        BY <3>1, <3>6 DEF Age, Dirs
      <4> QED
        BY <3>1, <4>1, LockAssumption
    <3>7. CASE UNCHANGED lockVars
      BY <3>1, <3>7 DEF lockVars
    <3> QED
      BY <3>2, <3>3, <3>4, <3>5, <3>6, <3>7 DEF LockNext, LockStep
  <2>3. Owning(p) \/ MakeDir(p)
    BY <1>t, Entries
  <2> QED
    BY <2>1, <2>2, <2>3
<1> QED
  BY <1>t, <1>k, <1>a, <1>l, <1>m DEF LockInv

\* The types hold for any number of processes.
THEOREM LockTypeCorrect == LockSpec => []LockTypeOK
<1>1. LockInit => LockTypeOK
  BY LockInvInit DEF LockInv
<1> QED
  BY <1>1, LockTypeStep, PTL DEF LockSpec

\* The invariant holds in every reachable state.
LEMMA LockInvHolds == LockSpec => []LockInv
  BY LockInvInit, LockInvStep, PTL DEF LockSpec

\* Two processes never hold the lock at once, however many compete, unless a
\* takeover removed a directory that it had not judged or stale_ms was overrun.
THEOREM LockMutualExclusion == LockSpec => []MutualExclusion
<1>1. LockInv => MutualExclusion
  BY DEF LockInv, OwnersMade, Owning, MutualExclusion
<1> QED
  BY <1>1, LockInvHolds, PTL

\* While it is not broken, the directory does what the holder of Mutex does: it
\* is made by a contender when there is none, and goes when its maker releases
\* it or is gone.
THEOREM LockImplementsMutex == LockSpec => ImplementsMutex
<1> DEFINE MStep == \E p \in Procs : \/ M!Enter(p) /\ pc[p] = "try"
                                     \/ M!Leave(p) /\ pc[p] \in {"releasing", "crashed"}
<1>1. ASSUME LockInv, [LockNext]_lockVars, ~crossed', ~overdue', Holder' # Holder
      PROVE  MStep
  <2>0. LockTypeOK /\ OwnersMade /\ TakeoverOnlyFromDead /\ ~crossed /\ ~overdue
    BY <1>1, BrokenStaysBroken DEF LockInv
  <2>1. PICK p \in Procs : MakeDir(p) \/ EndPurge(p) \/ EndRelease(p)
    <3>1. ASSUME NEW p \in Procs, WriteOwner(p) \/ Purge(p) \/ Release(p) PROVE Holder' = Holder
      <4>1. dir = NoDir => dir' = NoDir
        BY <3>1 DEF WriteOwner, Purge, Release, EmptyDir
      <4>2. dir # NoDir => dir' \in Dirs /\ dir'.maker = dir.maker
        BY <3>1, <2>0 DEF WriteOwner, Purge, Release, EmptyDir, LockTypeOK, Dirs
      <4> QED
        BY <4>1, <4>2, LockAssumption DEF Holder
    <3>2. ASSUME Age PROVE Holder' = Holder
      <4>1. dir # NoDir /\ dir' \in Dirs /\ dir'.maker = dir.maker
        BY <3>2, <2>0 DEF Age, LockTypeOK, Dirs
      <4> QED
        BY <4>1, LockAssumption DEF Holder
    <3>3. ASSUME dir' = dir PROVE Holder' = Holder
      BY <3>3 DEF Holder
    <3>4. ASSUME UNCHANGED lockVars PROVE Holder' = Holder
      BY <3>3, <3>4 DEF lockVars
    <3>5. ASSUME NEW p \in Procs,
                 ReadOwner(p) \/ Judge(p) \/ Acquire(p) \/ Timeout(p) \/ Crash(p)
          PROVE  Holder' = Holder
      BY <3>3, <3>5 DEF ReadOwner, Judge, Acquire, Timeout, Crash
    <3>6. PICK p \in Procs : LockStep(p) \/ Acquire(p) \/ Timeout(p) \/ Release(p) \/ Crash(p)
      BY <1>1, <3>2, <3>4 DEF LockNext
    <3> QED
      BY <1>1, <3>1, <3>5, <3>6 DEF LockStep
  <2>2. CASE MakeDir(p)
    <3>1. dir = NoDir /\ dir' = [maker |-> p, owner |-> NoOwner, aged |-> FALSE] /\ pc[p] = "try"
      BY <1>1, <2>2 DEF MakeDir, Holder
    <3>2. dir' \in Dirs /\ dir'.maker = p
      BY <3>1 DEF Dirs
    <3> QED
      BY <3>1, <3>2, LockAssumption DEF Holder, M!Enter
  <2>3. CASE EndPurge(p) \/ EndRelease(p)
    <3>1. dir # NoDir /\ dir' = NoDir /\ dir.maker \in Procs
      BY <1>1, <2>0, <2>3 DEF EndPurge, EndRelease, RemoveDir, Holder, LockTypeOK, Dirs
    <3>2. pc[dir.maker] \in {"releasing", "crashed"}
      <4>1. CASE EndPurge(p)
        <5>1. dir.maker = target[p]
          BY <1>1, <3>1, <4>1 DEF EndPurge, NoteCrossing
        <5> QED
          BY <2>0, <4>1, <5>1 DEF TakeoverOnlyFromDead, EndPurge, Alive
      <4>2. CASE EndRelease(p)
        BY <2>0, <4>2 DEF OwnersMade, Owning, EndRelease
      <4> QED
        BY <2>3, <4>1, <4>2
    <3>3. M!Leave(dir.maker)
      BY <3>1 DEF M!Leave, Holder
    <3> QED
      BY <3>1, <3>2, <3>3
  <2> QED
    BY <2>1, <2>2, <2>3
<1>2. LockInv /\ [LockNext]_lockVars => [~crossed' /\ ~overdue' => MStep]_Holder
  BY <1>1
<1> QED
  BY <1>2, LockInvHolds, PTL DEF LockSpec, ImplementsMutex

\* What a takeover judges stale was made by a process that is gone, unless
\* stale_ms was overrun.
THEOREM LockTakeover == LockSpec => []TakeoverOnlyFromDead
<1>1. LockInv => TakeoverOnlyFromDead
  BY DEF LockInv
<1> QED
  BY <1>1, LockInvHolds, PTL
===========================================================================
