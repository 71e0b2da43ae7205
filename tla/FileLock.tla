----------------------------- MODULE FileLock -----------------------------
(***************************************************************************)
(* The cross-process lock of skills/agent-executor-pool/file-lock.js: a    *)
(* directory that mkdir creates atomically, with a record of its owner     *)
(* written into it afterwards.  A contender that finds the directory older *)
(* than stale_ms, and its owner not alive on the contender's own host,     *)
(* removes the directory by path and tries again.                          *)
(*                                                                         *)
(* Every file-system call is one step.  Time is kept only as "older than   *)
(* stale_ms", which becomes true at any moment and becomes false again     *)
(* whenever the modification time that the code looks at is renewed.       *)
(***************************************************************************)
EXTENDS FiniteSets

CONSTANTS
  Procs,    \* processes; one that restarts is another process
  Host,     \* [Procs -> hosts], os.hostname() of each process
  NoOwner,  \* no readable owner.json
  NoDir     \* no directory at the lock path

\* A directory at the lock path.  maker is history: who created it.
Dirs == [maker : Procs, owner : Procs \cup {NoOwner}, aged : BOOLEAN]

ASSUME LockAssumption == NoOwner \notin Procs /\ NoDir \notin Dirs

\* idle      outside acquireFileLock, or after it threw
\* try       at the head of its loop
\* read      mkdir answered EEXIST
\* stat      read what owner.json says
\* purge     about to rmSync a lock that it found stale
\* purging   rmSync has emptied the directory
\* made      created the directory, owner.json not written yet
\* held      acquireFileLock returned
\* releasing the release function's rmSync has emptied the directory
\* crashed   the process is gone
PCs == {"idle", "try", "read", "stat", "purge", "purging",
        "made", "held", "releasing", "crashed"}

VARIABLES
  dir,      \* the directory at the lock path
  pc,       \* where each process is
  seen,     \* the owner each process read last
  target,   \* history: the maker of the directory it means to remove
  crossed,  \* history: a takeover removed a directory that it had not judged
  overdue   \* history: stale_ms passed where the code relies on less

lockVars == <<dir, pc, seen, target, crossed, overdue>>

LockInit ==
  /\ dir = NoDir
  /\ pc = [p \in Procs |-> "idle"]
  /\ seen = [p \in Procs |-> NoOwner]
  /\ target = [p \in Procs |-> NoOwner]
  /\ crossed = FALSE
  /\ overdue = FALSE

---------------------------------------------------------------------------
Alive(p)      == pc[p] # "crashed"
Owning(p)     == pc[p] \in {"made", "held", "releasing"}
Contending(p) == pc[p] \in {"try", "read", "stat", "purge", "purging"}
Goto(p, l)    == pc' = [pc EXCEPT ![p] = l]

\* rmSync(recursive), first half: the entries of the directory at the path.
\* Removing one renews the modification time of the directory.
EmptyDir == dir' = IF dir = NoDir \/ dir.owner = NoOwner THEN dir
                   ELSE [dir EXCEPT !.owner = NoOwner, !.aged = FALSE]

\* Second half: the directory at the path.  If an owner.json has appeared in
\* it since, rmSync may give up or may go round again.
RemoveDir == \/ dir' = NoDir
             \/ dir # NoDir /\ dir.owner # NoOwner /\ dir' = dir

Acquire(p) ==
  /\ pc[p] = "idle"
  /\ Goto(p, "try")
  /\ UNCHANGED <<dir, seen, target, crossed, overdue>>

\* Fault: giving up runs the release function too, as a finally would.
TimeoutReleasing(p) ==
  /\ pc[p] = "try"
  /\ EmptyDir
  /\ Goto(p, "releasing")
  /\ UNCHANGED <<seen, target, crossed, overdue>>

\* The loop ends when timeout_ms have passed: FILE_LOCK_TIMEOUT.
Timeout(p) ==
  /\ pc[p] = "try"
  /\ Goto(p, "idle")
  /\ UNCHANGED <<dir, seen, target, crossed, overdue>>

\* Fault: mkdirSync with recursive, which does not answer EEXIST.
MakeDirRecursive(p) ==
  /\ pc[p] = "try"
  /\ dir' = IF dir = NoDir THEN [maker |-> p, owner |-> NoOwner, aged |-> FALSE] ELSE dir
  /\ Goto(p, "made")
  /\ UNCHANGED <<seen, target, crossed, overdue>>

MakeDir(p) ==
  /\ pc[p] = "try"
  /\ IF dir = NoDir
     THEN /\ dir' = [maker |-> p, owner |-> NoOwner, aged |-> FALSE]
          /\ Goto(p, "made")
     ELSE /\ Goto(p, "read")
          /\ UNCHANGED dir
  /\ UNCHANGED <<seen, target, crossed, overdue>>

\* writeFileSync goes by path: it renews whatever directory is there, and
\* throws out of acquireFileLock if there is none.
WriteOwner(p) ==
  /\ pc[p] = "made"
  /\ IF dir = NoDir
     THEN Goto(p, "idle") /\ UNCHANGED dir
     ELSE dir' = [dir EXCEPT !.owner = p, !.aged = FALSE] /\ Goto(p, "held")
  /\ UNCHANGED <<seen, target, crossed, overdue>>

ReadOwner(p) ==
  /\ pc[p] = "read"
  /\ seen' = [seen EXCEPT ![p] = IF dir = NoDir THEN NoOwner ELSE dir.owner]
  /\ Goto(p, "stat")
  /\ UNCHANGED <<dir, target, crossed, overdue>>

LiveLocal(p, o) == o # NoOwner /\ Host[o] = Host[p] /\ Alive(o)

\* Fault: only the age counts.
JudgeByAge(p) ==
  /\ pc[p] = "stat"
  /\ seen' = [seen EXCEPT ![p] = NoOwner]
  /\ IF dir # NoDir /\ dir.aged
     THEN Goto(p, "purge") /\ target' = [target EXCEPT ![p] = dir.maker]
     ELSE Goto(p, "try") /\ UNCHANGED target
  /\ UNCHANGED <<dir, crossed, overdue>>

\* Fault: a directory without an owner record is left alone.
JudgeNeedsOwner(p) ==
  /\ pc[p] = "stat"
  /\ seen' = [seen EXCEPT ![p] = NoOwner]
  /\ IF dir # NoDir /\ dir.aged /\ seen[p] # NoOwner /\ ~LiveLocal(p, seen[p])
     THEN Goto(p, "purge") /\ target' = [target EXCEPT ![p] = dir.maker]
     ELSE Goto(p, "try") /\ UNCHANGED target
  /\ UNCHANGED <<dir, crossed, overdue>>

\* statSync throws if the directory is gone; that, a young lock and a live
\* local owner all end in wait(5) and the next round of the loop.
Judge(p) ==
  /\ pc[p] = "stat"
  /\ seen' = [seen EXCEPT ![p] = NoOwner]
  /\ IF dir # NoDir /\ dir.aged /\ ~LiveLocal(p, seen[p])
     THEN Goto(p, "purge") /\ target' = [target EXCEPT ![p] = dir.maker]
     ELSE Goto(p, "try") /\ UNCHANGED target
  /\ UNCHANGED <<dir, crossed, overdue>>

\* The removal goes by path: the directory there may not be the one judged.
NoteCrossing(p) ==
  crossed' = (crossed \/ (dir # NoDir /\ dir.maker # target[p]))

Purge(p) ==
  /\ pc[p] = "purge"
  /\ EmptyDir
  /\ Goto(p, "purging")
  /\ NoteCrossing(p)
  /\ UNCHANGED <<seen, target, overdue>>

EndPurge(p) ==
  /\ pc[p] = "purging"
  /\ RemoveDir
  /\ Goto(p, "try")
  /\ NoteCrossing(p)
  /\ target' = [target EXCEPT ![p] = NoOwner]
  /\ UNCHANGED <<seen, overdue>>

\* The release function, called once: it removes what is at the path.
Release(p) ==
  /\ pc[p] = "held"
  /\ EmptyDir
  /\ Goto(p, "releasing")
  /\ UNCHANGED <<seen, target, crossed, overdue>>

EndRelease(p) ==
  /\ pc[p] = "releasing"
  /\ RemoveDir
  /\ Goto(p, "idle")
  /\ UNCHANGED <<seen, target, crossed, overdue>>

Crash(p) ==
  /\ pc[p] \notin {"idle", "crashed"}
  /\ Goto(p, "crashed")
  /\ seen' = [seen EXCEPT ![p] = NoOwner]
  /\ target' = [target EXCEPT ![p] = NoOwner]
  /\ UNCHANGED <<dir, crossed, overdue>>

\* stale_ms pass.  The code relies on less in three places: between mkdir and
\* the owner record, between reading the record and looking at its age, and
\* wherever a live owner is not on the host of every contender.
Age ==
  /\ dir # NoDir /\ ~dir.aged
  /\ dir' = [dir EXCEPT !.aged = TRUE]
  /\ overdue' = (overdue \/ /\ Alive(dir.maker)
                            /\ \/ dir.owner # dir.maker
                               \/ \E q \in Procs : pc[q] = "stat" /\ seen[q] # dir.owner
                               \/ \E q \in Procs : Host[q] # Host[dir.maker])
  /\ UNCHANGED <<pc, seen, target, crossed>>

LockStep(p) ==
  \/ MakeDir(p) \/ WriteOwner(p) \/ ReadOwner(p) \/ Judge(p)
  \/ Purge(p) \/ EndPurge(p) \/ EndRelease(p)

LockNext ==
  \/ \E p \in Procs : LockStep(p) \/ Acquire(p) \/ Timeout(p) \/ Release(p) \/ Crash(p)
  \/ Age

LockSpec == LockInit /\ [][LockNext]_lockVars

\* A process inside acquireFileLock or its release function keeps running
\* unless it crashes, and time passes.
FairLockSpec ==
  /\ LockSpec
  /\ \A p \in Procs : WF_lockVars(LockStep(p))
  /\ WF_lockVars(Age)
---------------------------------------------------------------------------
(* Properties.                                                             *)

LockTypeOK ==
  /\ dir \in Dirs \cup {NoDir}
  /\ pc \in [Procs -> PCs]
  /\ seen \in [Procs -> Procs \cup {NoOwner}]
  /\ target \in [Procs -> Procs \cup {NoOwner}]
  /\ crossed \in BOOLEAN /\ overdue \in BOOLEAN

\* No two processes hold the lock at once, through crashes, takeovers and
\* removals that race with new owners, unless a takeover removed another
\* directory than the one it judged, or stale_ms passed where the code counts
\* on less.  These are the only two ways in which the lock breaks.
MutualExclusion ==
  ~crossed /\ ~overdue =>
    \A p, q \in Procs : pc[p] = "held" /\ pc[q] = "held" => p = q

\* The directory at the path is the lock, although release and takeover remove
\* it by path, in two calls and without a look at whose it is: seen as the
\* holder of Mutex, its maker takes the lock out of the loop of acquireFileLock
\* and only when there is none, and loses it only while it releases it itself or
\* when it is gone, as long as the lock is not broken in one of those two ways.
Holder == IF dir = NoDir THEN NoOwner ELSE dir.maker
M == INSTANCE Mutex WITH Nobody <- NoOwner, holder <- Holder
ImplementsMutex ==
  [][~crossed' /\ ~overdue' =>
       \E p \in Procs : \/ M!Enter(p) /\ pc[p] = "try"
                        \/ M!Leave(p) /\ pc[p] \in {"releasing", "crashed"}]_Holder

\* A takeover never dooms the directory of a live owner (processAlive), also
\* if the owner record was read before it was written: what it judges stale
\* was made by a process that is gone, if no time limit was overrun.
TakeoverOnlyFromDead ==
  ~overdue => \A p \in Procs :
                pc[p] \in {"purge", "purging"} => ~Alive(target[p])

\* The lock of a crashed owner does not block the others for ever: whoever
\* keeps contending sees it removed, or held by a live process again, also if
\* the process that began the takeover crashed half way through it.
LeftBehind(p) ==
  /\ dir # NoDir /\ dir.maker = p /\ ~Alive(p)
  /\ dir.owner = NoOwner \/ ~Alive(dir.owner)
CrashedOwnerIsReplaced ==
  \A p \in Procs : \A q \in Procs \ {p} :
    LeftBehind(p) /\ Contending(q) ~> ~LeftBehind(p) \/ ~Contending(q)

\* A "per-assignment cross-process directory lock" (EXECUTION-MODEL.md:33) is
\* held by one process at a time, as long as no time limit is overrun.
HeldByOne ==
  ~overdue => \A p, q \in Procs : pc[p] = "held" /\ pc[q] = "held" => p = q
===========================================================================
