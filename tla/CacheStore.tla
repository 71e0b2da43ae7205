----------------------------- MODULE CacheStore -----------------------------
(***************************************************************************)
(* getOrCompute of shared/assessment-acceleration/cache-store.js, which    *)
(* ProductionCommandEvidenceCache calls: callers of several processes of   *)
(* one host ask for entries of one store.                                  *)
(*                                                                         *)
(* Within a process, callers of one entry share the promise in flight.     *)
(* Between processes a lock directory per entry serialises them; it is     *)
(* taken over when its owner is dead and its heartbeat old, by removing    *)
(* whatever directory stands there.  An entry is named by its key, so an   *)
(* entry that is there is a hit ("exact" or "content-stable" differ only   *)
(* in the revision), and the pointer to the latest entry only offers a     *)
(* warm start to the computation and is left out.                          *)
(***************************************************************************)
EXTENDS Naturals, FiniteSets

CONSTANTS
  Calls, Procs, Entries,
  ProcOf,    \* [Calls -> Procs]
  EntryOf,   \* [Calls -> Entries]
  Free,      \* the owner of a lock that nobody holds
  Unowned,   \* the owner of a lock directory without a readable record of it
  Unwritable \* bound: the calls that may fail to write the record

ASSUME CacheAssumption ==
  /\ ProcOf \in [Calls -> Procs]
  /\ EntryOf \in [Calls -> Entries]
  /\ Free \notin Procs /\ Unowned \notin Procs \cup {Free}
  /\ Unwritable \subseteq Calls

VARIABLES
  call,       \* [Calls -> CallStates]
  lock,       \* [Entries -> Procs \cup {Free, Unowned}], the lock directories
  stored,     \* entries whose file is in place
  computed,   \* [Entries -> Nat], computations whose result was put
  alive,      \* processes that run
  raced       \* entries whose lock was removed under a living owner

cacheVars == <<call, lock, stored, computed, alive, raced>>

Leading    == {"waiting", "purging", "holding", "computing"}
CallStates == Leading \cup {"idle", "joined", "done", "failed", "dead"}

CacheInit ==
  /\ call = [c \in Calls |-> "idle"]
  /\ lock = [e \in Entries |-> Free]
  /\ stored = {} /\ raced = {}
  /\ computed = [e \in Entries |-> 0]
  /\ alive = Procs
---------------------------------------------------------------------------
SameFlight(c, d) == ProcOf[c] = ProcOf[d] /\ EntryOf[c] = EntryOf[d]

At(c, s) == call[c] = s /\ ProcOf[c] \in alive

Move(c, s) == call' = [call EXCEPT ![c] = s]

\* The promise in flight settles, for its caller and for all who joined it.
SettleFlight(c, s) ==
  call' = [d \in Calls |-> IF d = c \/ (call[d] = "joined" /\ SameFlight(c, d))
                           THEN s ELSE call[d]]

\* release() removes the lock directory, whoever made it.
Release(c) == lock' = [lock EXCEPT ![EntryOf[c]] = Free]

\* getOrCompute up to its first await.
Ask(c) ==
  /\ At(c, "idle")
  /\ Move(c, IF EntryOf[c] \in stored THEN "done"
             ELSE IF \E d \in Calls : SameFlight(c, d) /\ call[d] \in Leading THEN "joined"
             ELSE "waiting")
  /\ UNCHANGED <<lock, stored, computed, alive, raced>>

\* acquire: mkdir of the lock directory succeeds, and the owner is recorded in
\* it.  Who looks in between sees a lock too young to be judged; whose process
\* dies in between leaves one that is judged by its age as a dead owner's is.
TakeLock(c) ==
  /\ At(c, "waiting") /\ lock[EntryOf[c]] = Free
  /\ lock' = [lock EXCEPT ![EntryOf[c]] = ProcOf[c]]
  /\ Move(c, "holding")
  /\ UNCHANGED <<stored, computed, alive, raced>>

\* The record cannot be written: acquire rejects, and the directory stays.
FailToOwn(c) ==
  /\ At(c, "waiting") /\ lock[EntryOf[c]] = Free /\ c \in Unwritable
  /\ lock' = [lock EXCEPT ![EntryOf[c]] = Unowned]
  /\ SettleFlight(c, "failed")
  /\ UNCHANGED <<stored, computed, alive, raced>>

\* The owner is dead and its last heartbeat too old, or no owner can be read
\* and the directory is too old.
Judge(c) ==
  /\ At(c, "waiting") /\ lock[EntryOf[c]] \notin alive \cup {Free}
  /\ Move(c, "purging")
  /\ UNCHANGED <<lock, stored, computed, alive, raced>>

\* The directory is removed by name: another caller may have done the same
\* and taken the lock since it was judged.
Purge(c) ==
  /\ At(c, "purging")
  /\ Release(c) /\ Move(c, "waiting")
  /\ raced' = IF lock[EntryOf[c]] \in alive THEN raced \cup {EntryOf[c]} ELSE raced
  /\ UNCHANGED <<stored, computed, alive>>

\* CACHE_LOCK_TIMEOUT: acquire gives up; there is no lock to release.
GiveUp(c) ==
  /\ At(c, "waiting")
  /\ SettleFlight(c, "failed")
  /\ UNCHANGED <<lock, stored, computed, alive, raced>>

\* Fault: the holder does not look again whether the entry is there by now.
ComputeAnyway(c) ==
  /\ At(c, "holding")
  /\ Move(c, "computing") /\ UNCHANGED lock
  /\ UNCHANGED <<stored, computed, alive, raced>>

\* The second lookup, under the lock.
LookAgain(c) ==
  /\ At(c, "holding")
  /\ IF EntryOf[c] \in stored
     THEN SettleFlight(c, "done") /\ Release(c)
     ELSE Move(c, "computing") /\ UNCHANGED lock
  /\ UNCHANGED <<stored, computed, alive, raced>>

\* The computation returns and its result is put: the entry, and then the
\* pointer, whose write may fail and reject the call though the entry stands.
Put(c) ==
  /\ At(c, "computing")
  /\ stored' = stored \cup {EntryOf[c]}
  /\ computed' = [computed EXCEPT ![EntryOf[c]] = @ + 1]
  /\ \E s \in {"done", "failed"} : SettleFlight(c, s)
  /\ Release(c)
  /\ UNCHANGED <<alive, raced>>

ComputeFails(c) ==
  /\ At(c, "computing")
  /\ SettleFlight(c, "failed") /\ Release(c)
  /\ UNCHANGED <<stored, computed, alive, raced>>

\* A process dies, maybe after its entry was written and before the release.
Die(p) ==
  /\ p \in alive
  /\ alive' = alive \ {p}
  /\ call' = [c \in Calls |-> IF ProcOf[c] = p THEN "dead" ELSE call[c]]
  /\ \/ UNCHANGED <<stored, computed>>
     \/ \E c \in Calls :
          /\ ProcOf[c] = p /\ call[c] = "computing"
          /\ stored' = stored \cup {EntryOf[c]}
          /\ computed' = [computed EXCEPT ![EntryOf[c]] = @ + 1]
  /\ UNCHANGED <<lock, raced>>

\* The steps that the store takes by itself; Ask, the end of a computation
\* and the death of a process are the caller's.
Proceed(c) ==
  TakeLock(c) \/ FailToOwn(c) \/ Judge(c) \/ Purge(c) \/ LookAgain(c) \/ GiveUp(c)
---------------------------------------------------------------------------
CacheTypeOK ==
  /\ call \in [Calls -> CallStates]
  /\ lock \in [Entries -> Procs \cup {Free, Unowned}]
  /\ stored \subseteq Entries /\ raced \subseteq Entries
  /\ computed \in [Entries -> Nat]
  /\ alive \subseteq Procs

Computing == {c \in Calls : call[c] = "computing"}

\* Identical work is done once: no two computations of an entry run at a
\* time, and none is run again after one was put, also when callers wait for
\* one another across processes, a caller is retried, or an owner dies.  The
\* one way out is a lock removed by name that had just changed hands.
ComputedOnce ==
  \A e \in Entries \ raced :
    computed[e] + Cardinality({c \in Computing : EntryOf[c] = e}) <= 1
=============================================================================
