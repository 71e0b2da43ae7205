------------------------------ MODULE RunBundle ------------------------------
(***************************************************************************)
(* The incremental state of shared/software-engineering-intelligence:      *)
(* openIncrementalRun, publish and close of incremental-run-state.js, with *)
(* the part of executeWithExecutor (cli.js) that calls them and undoes the *)
(* output root of a run that fails.                                        *)
(*                                                                         *)
(* Each writer is one process that runs the command once on one repository *)
(* and one output root, so all of them share one state root and one lease. *)
(* The lease is a file that only an operator removes once its owner is     *)
(* dead.  Publication is synchronous in its process, but the process may   *)
(* die between any two file-system calls, and others go on.                *)
(*                                                                         *)
(* A file is its content: an artifact of the model is a name with bytes,   *)
(* and two artifacts of one name differ in their bytes.  Left out: the     *)
(* stages, which are content-addressed files of the same publication, and  *)
(* the evidence-only publication, which has no manifest.                   *)
(***************************************************************************)
EXTENDS Naturals, FiniteSets

CONSTANTS
  Writers,
  Artifacts, Names,
  NameOf,        \* [Artifacts -> Names]
  Keys,          \* run keys; a manifest is named by its key
  Bundle,        \* [Keys -> SUBSET Artifacts], what a manifest lists
  NoKey,         \* the key of a writer that publishes no bundle
  Mistakable,    \* bound: runs that an operator may take for dead, by their keys
  Unkeepable,    \* bound: artifacts of which the state root may refuse a copy
  Obstructed,    \* bound: writers whose close the file system may refuse
  Free           \* no owner

ASSUME BundleAssumption ==
  /\ NameOf \in [Artifacts -> Names]
  /\ Bundle \in [Keys -> SUBSET Artifacts]
  /\ NoKey \notin Keys
  /\ Keys \cap Artifacts = {}
  /\ Mistakable \subseteq Keys /\ Unkeepable \subseteq Artifacts /\ Obstructed \subseteq Writers
  /\ Free \notin Writers

VARIABLES
  pc,          \* [Writers -> Places]
  key,         \* [Writers -> Keys \cup {NoKey}], the run key of the session
  lease,       \* owner of the lease file, or Free
  displaced,   \* history: writers whose lease was removed while they were at work
  slipped,     \* history: writers whose lease was removed in the middle of their close
  stuck,       \* history: writers whose close the file system refused, silently
  outputRoot,  \* whether the output root exists
  absent,      \* writers for which it did not when they started
  output,      \* artifacts in the output root
  copies,      \* artifacts in the state root
  unkept,      \* history: artifacts for which no copy was made and null answered
  manifests,   \* run manifests in the state root
  todo,        \* [Writers -> files still to link]
  linked       \* [Writers -> files that this publication linked]

owner      == <<lease, displaced, slipped, stuck>>
files      == <<outputRoot, absent, output, copies, unkept, manifests>>
linking    == <<key, todo, linked>>
bundleVars == <<pc, owner, files, linking>>

\* closing and quitting are between the look at the lease and its unlink, in a
\* run that returns and in one that fails.
Holding == {"open", "purge", "persist", "link", "rollback", "linked", "returning", "failing"}
Closing == {"closing", "quitting"}
Active  == Holding \cup Closing \cup {"started", "bare"}
Places  == Active \cup {"idle", "done", "failed", "dead"}

BundleInit ==
  /\ pc = [w \in Writers |-> "idle"]
  /\ key \in [Writers -> Keys \cup {NoKey}]
  /\ lease = Free /\ displaced = {} /\ slipped = {} /\ stuck = {}
  /\ outputRoot \in BOOLEAN /\ absent = {}
  /\ output = {} /\ copies = {} /\ unkept = {} /\ manifests = {}
  /\ todo = [w \in Writers |-> {}] /\ linked = [w \in Writers |-> {}]

\* What was staged and linked is forgotten when publishSet ends.
Forget(w) ==
  /\ todo' = [todo EXCEPT ![w] = {}]
  /\ linked' = [linked EXCEPT ![w] = {}]
  /\ UNCHANGED key

Go(w, from, to) == pc[w] = from /\ pc' = [pc EXCEPT ![w] = to]
---------------------------------------------------------------------------
(* The life of a run.                                                      *)

\* createdOutputRoot: whether the root is there is asked once, at the start.
Start(w) ==
  /\ Go(w, "idle", "started")
  /\ absent' = IF outputRoot THEN absent ELSE absent \cup {w}
  /\ UNCHANGED <<owner, outputRoot, output, copies, unkept, manifests, linking>>

\* Collection may write below the output root.
Materialize(w) ==
  /\ pc[w] \in {"started", "open"} /\ ~outputRoot
  /\ outputRoot' = TRUE
  /\ UNCHANGED <<pc, owner, absent, output, copies, unkept, manifests, linking>>

\* The lease file is created exclusively.  What openIncrementalRun does after
\* that may throw; the caller then has no session to close.
Open(w) ==
  /\ lease = Free
  /\ lease' = w
  /\ Go(w, "started", "open") \/ Go(w, "started", "bare")
  /\ UNCHANGED <<displaced, slipped, stuck, files, linking>>

\* FAIL-INCREMENTAL-WRITER, or a failure before the session is opened.
OpenFails(w) ==
  /\ Go(w, "started", "bare")
  /\ UNCHANGED <<owner, files, linking>>

\* A failure or an abort of a run that has a session.
Fail(w) ==
  /\ Go(w, "open", "failing") \/ Go(w, "persist", "failing") \/ Go(w, "purge", "failing")
  /\ UNCHANGED <<owner, files, linking>>

Ends(w, after, failed) == Go(w, "returning", after) \/ Go(w, "failing", failed)

\* Fault: close removes the lease file, whoever created it.
CloseByName(w) ==
  /\ Ends(w, "closing", "quitting")
  /\ UNCHANGED <<owner, files, linking>>

\* Fault: only a run that succeeds closes its session.
CloseOnSuccess(w) ==
  /\ Go(w, "returning", IF lease = w THEN "closing" ELSE "done") \/ Go(w, "failing", "bare")
  /\ UNCHANGED <<owner, files, linking>>

\* releaseWriter looks whether the lease file is the one it created; an error
\* of that look is swallowed and counts as no.
Close(w) ==
  /\ \/ lease = w /\ Ends(w, "closing", "quitting") /\ UNCHANGED stuck
     \/ lease # w /\ Ends(w, "done", "bare") /\ UNCHANGED stuck
     \/ lease = w /\ w \in Obstructed /\ Ends(w, "done", "bare") /\ stuck' = stuck \cup {w}
  /\ UNCHANGED <<lease, displaced, slipped, files, linking>>

\* The owner of the lease file loses it to somebody else.
Displace(v) ==
  /\ displaced' = IF pc[v] \in Holding THEN displaced \cup {v} ELSE displaced
  /\ slipped' = IF pc[v] \in Closing THEN slipped \cup {v} ELSE slipped

\* Then it unlinks what is at the path: its own file, unless that was removed
\* in between; then nothing, or the file of the next writer.  An error is
\* swallowed.
Unlink(w) ==
  /\ Go(w, "closing", "done") \/ Go(w, "quitting", "bare")
  /\ \/ /\ lease' = Free
        /\ IF w \in slipped /\ lease # Free THEN Displace(lease)
                                            ELSE UNCHANGED <<displaced, slipped>>
        /\ UNCHANGED stuck
     \/ /\ w \in Obstructed
        /\ stuck' = stuck \cup {w} /\ UNCHANGED <<lease, displaced, slipped>>
  /\ UNCHANGED <<files, linking>>

\* The end of a failed run: an output root that it found absent is removed,
\* as far as that works.
RemoveRoot(w) ==
  /\ Go(w, "bare", "failed")
  /\ IF w \in absent
     THEN \E rest \in SUBSET output :
            output' = rest /\ outputRoot' = (outputRoot /\ rest # {})
     ELSE UNCHANGED <<output, outputRoot>>
  /\ UNCHANGED <<owner, absent, copies, unkept, manifests, linking>>

Crash(w) ==
  /\ pc[w] \in Active
  /\ pc' = [pc EXCEPT ![w] = "dead"]
  /\ Forget(w)
  /\ UNCHANGED <<owner, files>>

\* An operator removes a lease file, in general that of a dead writer.
RemoveLease ==
  /\ lease # Free
  /\ lease' = Free
  /\ pc[lease] \in Holding \cup Closing => key[lease] \in Mistakable
  /\ Displace(lease)
  /\ UNCHANGED <<pc, stuck, files, linking>>
---------------------------------------------------------------------------
(* publish.                                                                *)

Publish(w) ==
  /\ Go(w, "open", "persist") /\ key[w] # NoKey
  /\ UNCHANGED <<owner, files, linking>>

\* persistSnapshotInState and persistReportInState.  Both may answer null: there
\* is no state root, the snapshot has no usable id, or the directory cannot be
\* made.  The publication goes on without that copy.
Persist(w) ==
  /\ pc[w] = "persist"
  /\ \E a \in Bundle[key[w]] \ copies :
       \/ copies' = copies \cup {a} /\ UNCHANGED unkept
       \/ a \in Unkeepable \ unkept /\ unkept' = unkept \cup {a} /\ UNCHANGED copies
  /\ UNCHANGED <<pc, owner, outputRoot, absent, output, manifests, linking>>

Taken(a) == \E b \in output : NameOf[b] = NameOf[a]
Conflict(a) == a \notin output /\ Taken(a)

\* Fault: the copies in the state root are not waited for.
StageUnpersisted(w) ==
  /\ Go(w, "persist", "link")
  /\ ~\E a \in Bundle[key[w]] : Conflict(a)
  /\ todo' = [todo EXCEPT ![w] = (Bundle[key[w]] \ output) \cup ({key[w]} \ manifests)]
  /\ linked' = [linked EXCEPT ![w] = {}]
  /\ UNCHANGED <<key, owner, files>>

\* publishSet up to its first link.  An existing file must have equal bytes;
\* if one has not, the run fails (Fail).
Stage(w) ==
  /\ Go(w, "persist", "link")
  /\ Bundle[key[w]] \subseteq copies \cup unkept
  /\ ~\E a \in Bundle[key[w]] : Conflict(a)
  /\ todo' = [todo EXCEPT ![w] = (Bundle[key[w]] \ output) \cup ({key[w]} \ manifests)]
  /\ linked' = [linked EXCEPT ![w] = {}]
  /\ UNCHANGED <<key, owner, files>>

Linked(w, f) ==
  /\ todo' = [todo EXCEPT ![w] = @ \ {f}]
  /\ linked' = [linked EXCEPT ![w] = @ \cup {f}]

Link(w) ==
  /\ pc[w] = "link"
  /\ \E a \in todo[w] \cap Artifacts :
       ~Taken(a) /\ output' = output \cup {a} /\ Linked(w, a)
  /\ outputRoot' = TRUE
  /\ UNCHANGED <<pc, key, owner, absent, copies, unkept, manifests>>

\* The manifest is linked last, unless it was there.
LinkManifest(w) ==
  /\ Go(w, "link", "linked")
  /\ todo[w] \subseteq {key[w]}
  /\ IF todo[w] = {} THEN UNCHANGED <<todo, linked, manifests>>
     ELSE key[w] \notin manifests /\ manifests' = manifests \cup {key[w]} /\ Linked(w, key[w])
  /\ UNCHANGED <<key, owner, outputRoot, absent, output, copies, unkept>>

\* A link, or the removal of the staging files, fails.
LinkFails(w) ==
  /\ \/ Go(w, "link", "rollback") /\ todo[w] # {}
     \/ Go(w, "linked", "rollback") /\ linked[w] # {}
  /\ UNCHANGED <<owner, files, linking>>

\* Fault: the rollback unlinks every file of the bundle, linked or not.
RollbackAll(w) ==
  /\ pc[w] = "rollback"
  /\ output' = output \ Bundle[key[w]] /\ manifests' = manifests \ {key[w]}
  /\ linked' = [linked EXCEPT ![w] = {}]
  /\ UNCHANGED <<pc, key, owner, outputRoot, absent, copies, unkept, todo>>

\* What was linked is unlinked by name in reverse order.
Rollback(w) ==
  /\ pc[w] = "rollback"
  /\ \E f \in linked[w] :
       /\ key[w] \in linked[w] => f = key[w]
       /\ manifests' = manifests \ {f}
       /\ output' = IF f \in Artifacts THEN {b \in output : NameOf[b] # NameOf[f]} ELSE output
       /\ linked' = [linked EXCEPT ![w] = @ \ {f}]
  /\ UNCHANGED <<pc, key, owner, outputRoot, absent, copies, unkept, todo>>

\* The rollback is complete, or one removal failed and ends it.
RolledBack(w) ==
  /\ Go(w, "rollback", "failing")
  /\ Forget(w)
  /\ UNCHANGED <<owner, files>>

\* An abort is reported even after everything was published.
Published(w) ==
  /\ Go(w, "linked", "returning") \/ Go(w, "linked", "failing")
  /\ Forget(w)
  /\ UNCHANGED <<owner, files>>

RunStep(w) ==
  \/ Start(w) \/ Materialize(w) \/ Open(w) \/ OpenFails(w) \/ Fail(w) \/ Close(w) \/ Unlink(w)
  \/ RemoveRoot(w)
  \/ Publish(w) \/ Persist(w) \/ Stage(w) \/ Link(w) \/ LinkManifest(w) \/ LinkFails(w)
  \/ Rollback(w) \/ RolledBack(w) \/ Published(w)

BundleTypeOK ==
  /\ pc \in [Writers -> Places]
  /\ key \in [Writers -> Keys \cup {NoKey}]
  /\ lease \in Writers \cup {Free}
  /\ displaced \subseteq Writers /\ slipped \subseteq Writers /\ stuck \subseteq Writers
  /\ outputRoot \in BOOLEAN /\ absent \subseteq Writers
  /\ output \subseteq Artifacts /\ copies \subseteq Artifacts /\ unkept \subseteq Artifacts
  /\ manifests \subseteq Keys
  /\ todo \in [Writers -> SUBSET (Artifacts \cup Keys)]
  /\ linked \in [Writers -> SUBSET (Artifacts \cup Keys)]
---------------------------------------------------------------------------
\* The state root has one writer at a time: a session keeps the lease that it
\* acquired until its own close, whatever the closes of others remove, unless
\* an operator took the lease from it, or took that of a writer which had just
\* looked at it in its close and then unlinks this one's by name.
SoleWriter == \A w \in Writers \ displaced : pc[w] \in Holding => lease = w

\* exactBundle: the file in the output root; only if there is none of that
\* name, the copy in the state root.
Replays(k) == \A a \in Bundle[k] : a \in output \/ (a \in copies /\ ~Taken(a))

\* A run that failed after it had found the output root absent has removed the
\* root, whoever had published into it.
RootRemoved == \E v \in absent : pc[v] = "failed"

\* A run that is on record can be replayed, whatever failed, was aborted,
\* rolled back or died since.  It takes two things to lose it: files that went
\* from the output root, because a failed run removed it or two writers worked
\* at once, and then an artifact of which no copy was kept, or in whose place a
\* later run has put another file of its name.
BundlesAreReplayable ==
  \A k \in manifests :
    \/ Replays(k)
    \/ /\ RootRemoved \/ displaced # {}
       /\ \E a \in Bundle[k] : a \in unkept \/ Conflict(a)

\* What a run reported as published stays published: its artifacts and its
\* manifest are there, also after later publications of the same names failed
\* and were rolled back.  The exceptions are a lease that was taken from a
\* living writer, and a failed run that had found the output root absent: it
\* removes the root, whoever created it.
OutputIsWhole ==
  /\ displaced = {}
  /\ ~RootRemoved
  => \A w \in Writers : pc[w] = "done" /\ key[w] # NoKey =>
       Bundle[key[w]] \subseteq output /\ key[w] \in manifests
=============================================================================
