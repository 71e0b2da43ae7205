------------------------- MODULE PublicationProofs -------------------------
(***************************************************************************)
(* Proofs about the lease of a state root, the replay of what is on record *)
(* and the promotions in the store, for any number of writers, any bundles *)
(* and promotions, and any scenarios.                                      *)
(***************************************************************************)
EXTENDS Publication, TLAPS

\* A writer on its way through publishSet has a run key, and a purge has none.
PublisherHasKey ==
  \A w \in Writers :
    /\ pc[w] \in {"persist", "link", "linked", "rollback"} => key[w] \in Keys
    /\ pc[w] = "purge" => key[w] = NoKey

\* What publishSet links was copied to the state root before, or refused there.
CopiedBefore ==
  /\ \A w \in Writers : pc[w] = "link" => Bundle[key[w]] \subseteq copies \cup unkept
  /\ \A k \in manifests : Bundle[k] \subseteq copies \cup unkept

\* Whoever is about to unlink the lease file by name owns it, unless it was
\* removed since the look.
ClosersOwn == \A w \in Writers \ slipped : pc[w] \in Closing => lease = w

BundleInv == BundleTypeOK /\ SoleWriter /\ ClosersOwn /\ PublisherHasKey /\ CopiedBefore

\* The steps of a run that Publication adds: from one place to another.
Turn(w) ==
  /\ \/ (Go(w, "open", "returning") \/ Go(w, "open", "purge")) /\ key[w] = NoKey
     \/ Go(w, "purge", "returning")
  /\ UNCHANGED <<owner, files, linking>>

BundleStep(w) == RunStep(w) \/ Turn(w) \/ Crash(w)

Linking(w) == Link(w) \/ LinkManifest(w) \/ Rollback(w)
Forgetting(w) == RolledBack(w) \/ Published(w) \/ Crash(w)
Moving(w) ==
  Start(w) \/ Materialize(w) \/ OpenFails(w) \/ Fail(w) \/ Publish(w) \/ Turn(w) \/ LinkFails(w)

LEMMA BundleSteps ==
  ASSUME NEW w, BundleStep(w)
  PROVE  \/ Linking(w) \/ Forgetting(w) \/ Moving(w)
         \/ Open(w) \/ Close(w) \/ Unlink(w) \/ RemoveRoot(w) \/ Persist(w) \/ Stage(w)
  BY DEF BundleStep, RunStep, Linking, Forgetting, Moving

LEMMA BundleInvInit == PublicationInit => BundleInv
<1> SUFFICES ASSUME PublicationInit PROVE BundleInv
  OBVIOUS
<1>1. BundleInit
  BY DEF PublicationInit
<1> QED
  BY <1>1 DEF BundleInit, BundleInv, BundleTypeOK, SoleWriter, ClosersOwn, PublisherHasKey,
     CopiedBefore, Places, Active, Holding, Closing

\* A step keeps the types.
LEMMA BundleTypes ==
  ASSUME BundleInv, NEW w \in Writers, BundleStep(w)
  PROVE  BundleTypeOK'
<1> USE DEF BundleInv, BundleTypeOK, Go, owner, files, linking
<1> USE DEF Places, Active, Holding, Closing
<1>1. CASE Moving(w)
  BY <1>1 DEF Moving, Start, Materialize, OpenFails, Fail, Publish, Turn, LinkFails
<1>2. CASE Forgetting(w)
  BY <1>2 DEF Forgetting, RolledBack, Published, Crash, Forget
<1>3. CASE Open(w) \/ Close(w) \/ Unlink(w) \/ RemoveRoot(w)
  <2>1. CASE Open(w) \/ RemoveRoot(w)
    BY <2>1 DEF Open, RemoveRoot
  <2>2. CASE Close(w)
    BY <2>2 DEF Close, Ends
  <2>3. CASE Unlink(w)
    BY <2>3 DEF Unlink, Displace
  <2> QED
    BY <1>3, <2>1, <2>2, <2>3
<1>4. CASE Persist(w)
  <2>1. Bundle[key[w]] \subseteq Artifacts
    BY <1>4, BundleAssumption DEF Persist, PublisherHasKey
  <2> QED
    BY <1>4, <2>1 DEF Persist
<1>5. CASE Stage(w)
  <2>1. key[w] \in Keys /\ Bundle[key[w]] \subseteq Artifacts
    BY <1>5, BundleAssumption DEF Stage, PublisherHasKey
  <2>2. (Bundle[key[w]] \ output) \cup ({key[w]} \ manifests) \in SUBSET (Artifacts \cup Keys)
    BY <2>1
  <2>3. todo' \in [Writers -> SUBSET (Artifacts \cup Keys)]
    BY <1>5, <2>2 DEF Stage
  <2>4. linked' \in [Writers -> SUBSET (Artifacts \cup Keys)]
    BY <1>5 DEF Stage
  <2> QED
    BY <1>5, <2>3, <2>4 DEF Stage
<1>6. CASE Linking(w)
  <2>1. CASE Link(w)
    BY <2>1 DEF Link, Linked
  <2>2. CASE LinkManifest(w)
    <3>1. key[w] \in Keys
      BY <2>2 DEF LinkManifest, PublisherHasKey
    <3> QED
      BY <2>2, <3>1 DEF LinkManifest, Linked
  <2>3. CASE Rollback(w)
    BY <2>3 DEF Rollback
  <2> QED
    BY <1>6, <2>1, <2>2, <2>3 DEF Linking
<1> QED
  BY <1>1, <1>2, <1>3, <1>4, <1>5, <1>6, BundleSteps

\* A step moves its own writer only, and touches the lease only to take it
\* free, to find that it is its own, or to unlink it.
LEMMA LeaseFacts ==
  ASSUME BundleTypeOK, NEW w \in Writers, BundleStep(w)
  PROVE  /\ \A v \in Writers \ {w} : pc'[v] = pc[v]
         /\ key' = key
         /\ UNCHANGED <<displaced, slipped>> \/ Unlink(w)
         /\ \/ /\ lease' = lease /\ (pc'[w] \in Holding => pc[w] \in Holding)
               /\ pc'[w] \in Closing => lease = w
            \/ lease = Free /\ lease' = w /\ pc'[w] \notin Closing
            \/ Unlink(w)
<1> USE DEF BundleTypeOK, Go, owner, files, linking, Holding, Closing
<1>1. CASE Moving(w)
  BY <1>1 DEF Moving, Start, Materialize, OpenFails, Fail, Publish, Turn, LinkFails
<1>2. CASE Forgetting(w)
  BY <1>2 DEF Forgetting, RolledBack, Published, Crash, Forget
<1>3. CASE Open(w)
  BY <1>3 DEF Open
<1>4. CASE Close(w)
  BY <1>4 DEF Close, Ends
<1>5. CASE RemoveRoot(w) \/ Persist(w)
  BY <1>5 DEF RemoveRoot, Persist
<1>6. CASE Stage(w)
  BY <1>6 DEF Stage
<1>7. CASE Linking(w)
  BY <1>7 DEF Linking, Link, LinkManifest, Rollback
<1>8. CASE Unlink(w)
  BY <1>8 DEF Unlink
<1> QED
  BY <1>1, <1>2, <1>3, <1>4, <1>5, <1>6, <1>7, <1>8, BundleSteps

\* The unlink of a close takes away its own lease, or notes whose it took.
LEMMA UnlinkStep ==
  ASSUME BundleInv, NEW w \in Writers, Unlink(w)
  PROVE  SoleWriter' /\ ClosersOwn' /\ displaced \subseteq displaced'
<1> USE DEF BundleInv, SoleWriter, ClosersOwn
<1>1. /\ pc[w] \in Closing /\ pc'[w] \notin Holding \cup Closing
      /\ \A v \in Writers \ {w} : pc'[v] = pc[v]
  BY DEF Unlink, Go, Closing, Holding, BundleTypeOK
<1>2. CASE lease' = lease /\ UNCHANGED <<displaced, slipped>>
  BY <1>1, <1>2
<1>3. CASE lease' = Free /\ ~(w \in slipped /\ lease # Free) /\ UNCHANGED <<displaced, slipped>>
  <2>1. lease \in {w, Free}
    BY <1>1, <1>3
  <2> QED
    BY <1>1, <1>3, <2>1, BundleAssumption
<1>4. CASE lease' = Free /\ lease # Free /\ Displace(lease)
  <2>1. lease \in Writers
    BY <1>4 DEF BundleTypeOK
  <2>2. \A v \in Writers \ {lease} : pc[v] \in Holding => v \in displaced
    BY <2>1
  <2>3. \A v \in Writers \ {lease} : pc[v] \in Closing => v \in slipped
    BY <2>1
  <2> QED
    BY <1>1, <1>4, <2>1, <2>2, <2>3 DEF Displace
<1> QED
  BY <1>2, <1>3, <1>4 DEF Unlink

LEMMA SoleWriterStep ==
  ASSUME BundleInv, NEW w \in Writers, BundleStep(w)
  PROVE  SoleWriter' /\ ClosersOwn' /\ displaced \subseteq displaced'
<1>1. CASE ~Unlink(w)
  <2>1. /\ \A v \in Writers \ {w} : pc'[v] = pc[v]
        /\ UNCHANGED <<displaced, slipped>>
        /\ \/ /\ lease' = lease /\ (pc'[w] \in Holding => pc[w] \in Holding)
              /\ pc'[w] \in Closing => lease = w
           \/ lease = Free /\ lease' = w /\ pc'[w] \notin Closing
    BY <1>1, LeaseFacts DEF BundleInv
  <2> QED
    BY <2>1, BundleAssumption DEF BundleInv, SoleWriter, ClosersOwn
<1> QED
  BY <1>1, UnlinkStep

\* Copies stay, and publishSet begins only when they were made.
LEMMA CopiedStep ==
  ASSUME BundleInv, NEW w \in Writers, BundleStep(w)
  PROVE  CopiedBefore' /\ PublisherHasKey'
<1> USE DEF BundleInv
<1>1. (\A v \in Writers \ {w} : pc'[v] = pc[v]) /\ key' = key
  BY LeaseFacts
<1>2. /\ copies \subseteq copies' /\ unkept \subseteq unkept'
      /\ manifests' \subseteq manifests \/ LinkManifest(w)
      /\ pc'[w] = "link" => pc[w] = "link" \/ Stage(w)
      /\ pc'[w] \in {"persist", "link", "linked", "rollback"} =>
           pc[w] \in {"persist", "link", "linked", "rollback"} \/ Publish(w)
      /\ pc'[w] = "purge" => pc[w] = "purge" \/ key[w] = NoKey
  <2> USE DEF BundleTypeOK, Go, owner, files, linking
  <2>1. CASE Moving(w)
    BY <2>1 DEF Moving, Start, Materialize, OpenFails, Fail, Publish, Turn, LinkFails
  <2>2. CASE Forgetting(w)
    BY <2>2 DEF Forgetting, RolledBack, Published, Crash, Forget
  <2>3. CASE Open(w) \/ Close(w) \/ Unlink(w) \/ RemoveRoot(w) \/ Persist(w)
    BY <2>3 DEF Open, Close, Ends, Unlink, RemoveRoot, Persist
  <2>4. CASE Stage(w)
    BY <2>4 DEF Stage
  <2>5. CASE Linking(w)
    BY <2>5 DEF Linking, Link, LinkManifest, Rollback
  <2> QED
    BY <2>1, <2>2, <2>3, <2>4, <2>5, BundleSteps
<1>3. PublisherHasKey'
  <2>1. Publish(w) => key[w] \in Keys
    BY DEF Publish, BundleTypeOK
  <2> QED
    BY <1>1, <1>2, <2>1 DEF PublisherHasKey
<1>4. Stage(w) => Bundle[key[w]] \subseteq copies \cup unkept
  BY DEF Stage
<1>5. \A v \in Writers : pc'[v] = "link" => Bundle[key'[v]] \subseteq (copies \cup unkept)'
  BY <1>1, <1>2, <1>4 DEF CopiedBefore
<1>6. \A k \in manifests' : Bundle[k] \subseteq (copies \cup unkept)'
  <2>1. CASE manifests' \subseteq manifests
    BY <1>2, <2>1 DEF CopiedBefore
  <2>2. CASE LinkManifest(w)
    <3>1. pc[w] = "link" /\ manifests' \subseteq manifests \cup {key[w]}
      BY <2>2 DEF LinkManifest, Go
    <3> QED
      BY <1>2, <3>1 DEF CopiedBefore
  <2> QED
    BY <1>2, <2>1, <2>2
<1> QED
  BY <1>3, <1>5, <1>6 DEF CopiedBefore

\* An operator removes the lease of whoever holds it.
LEMMA RemoveLeaseStep ==
  ASSUME BundleInv, RemoveLease
  PROVE  BundleInv'
<1>1. /\ lease \in Writers /\ lease' = Free /\ Displace(lease)
      /\ UNCHANGED <<pc, stuck, files, linking>>
  BY DEF RemoveLease, BundleInv, BundleTypeOK
<1>2. displaced' \subseteq Writers /\ slipped' \subseteq Writers
  BY <1>1 DEF Displace, BundleInv, BundleTypeOK
<1>3. SoleWriter' /\ ClosersOwn'
  BY <1>1 DEF Displace, BundleInv, SoleWriter, ClosersOwn
<1> QED
  BY <1>1, <1>2, <1>3 DEF BundleInv, BundleTypeOK, PublisherHasKey, CopiedBefore, files, linking

\* Every step of the composition, as the bundle sees it.
LEMMA BundleView ==
  ASSUME [PublicationNext]_publicationVars
  PROVE  UNCHANGED bundleVars \/ RemoveLease \/ \E w \in Writers : BundleStep(w)
<1>1. ASSUME NEW w \in Writers, Work(w) \/ Finalizers(w) \/ Die(w)
      PROVE  UNCHANGED bundleVars \/ BundleStep(w)
  <2>1. CASE Run(w) \/ Die(w)
    BY <2>1 DEF Run, Die, BundleStep
  <2>2. CASE Return(w) \/ PurgeState(w) \/ Purged(w)
    BY <2>2 DEF Return, PurgeState, Purged, Purger, BundleStep, Turn
  <2>3. CASE Predict(w) \/ StepOfPromotion(w) \/ DeleteNext(w) \/ Finalizers(w)
    BY <2>3 DEF Predict, StepOfPromotion, DeleteNext, Finalizers
  <2> QED
    BY <1>1, <2>1, <2>2, <2>3 DEF Work
<1> QED
  BY <1>1 DEF PublicationNext, InspectState, publicationVars

LEMMA BundleInvStep == BundleInv /\ [PublicationNext]_publicationVars => BundleInv'
<1> SUFFICES ASSUME BundleInv, [PublicationNext]_publicationVars
             PROVE  BundleInv'
  OBVIOUS
<1>1. CASE UNCHANGED bundleVars
  BY <1>1 DEF bundleVars, owner, files, linking, BundleInv, BundleTypeOK, SoleWriter, ClosersOwn,
     PublisherHasKey, CopiedBefore
<1>2. ASSUME NEW w \in Writers, BundleStep(w)
      PROVE  BundleInv'
  BY <1>2, BundleTypes, SoleWriterStep, CopiedStep DEF BundleInv
<1> QED
  BY <1>1, <1>2, RemoveLeaseStep, BundleView

\* The invariant holds in every state.
LEMMA BundleInvHolds == PublicationSpec => []BundleInv
  BY BundleInvInit, BundleInvStep, PTL DEF PublicationSpec

\* The state of every run is well formed.
THEOREM BundleTypeCorrect == PublicationSpec => []BundleTypeOK
<1>1. BundleInv => BundleTypeOK
  BY DEF BundleInv
<1> QED
  BY <1>1, BundleInvHolds, PTL

\* A session keeps the lease that it acquired until its own close, for any
\* writers and whatever fails or dies, unless an operator took it away, or took
\* away that of a writer which was between the look and the unlink of its close.
THEOREM OneWriter == PublicationSpec => []SoleWriter
<1>1. BundleInv => SoleWriter
  BY DEF BundleInv
<1> QED
  BY <1>1, BundleInvHolds, PTL
---------------------------------------------------------------------------
(* The promotions in the store.                                            *)

StoreShape ==
  /\ stored \subseteq Items
  /\ promotion \in [Writers -> Promotions \cup {NoPromotion}]
  /\ step \in [Writers -> {"none", "publish", "commit", "undo", "over"}]
  /\ pending \in [Writers -> SUBSET Items]
  /\ tokens \in [Writers -> SUBSET Items]
  /\ doomed \in [Writers -> SUBSET Items]

\* A promotion goes on only in an open session, and a purge is no promotion.
PromoterIsOpen ==
  \A w \in Writers :
    /\ step[w] \in {"publish", "commit", "undo"} => pc[w] = "open"
    /\ promotion[w] = NoPromotion => tokens[w] = {} /\ step[w] \in {"none", "over"}
    /\ pc[w] = "purge" => promotion[w] = NoPromotion

\* A token is of a file that is there, and only one holder has it.  Tokens
\* are left over only of what could not be rolled back.
TokensOfFiles ==
  /\ \A w \in Writers : tokens[w] \subseteq stored
  /\ \A v, w \in Writers : v # w => tokens[v] \cap tokens[w] = {}
  /\ \A w \in Writers : step[w] = "none" => tokens[w] = {}
  /\ \A w \in Writers : step[w] = "over" => tokens[w] \subseteq refused

PendingIsNeeded ==
  \A w \in Writers : step[w] = "publish" =>
    promotion[w] \in Promotions /\ pending[w] \subseteq Needed(promotion[w])

OnRecord == (stored \cap Promotions) \ refused

\* An object that may still be rolled back is needed at most by a manifest
\* that is rolled back before it.
TokensAreNotNeeded ==
  \A w \in Writers : \A x \in tokens[w] : \A m \in OnRecord :
    x \in ObjectsOf[m] => m \in tokens[w]

\* What a promotion found in place stays until its manifest is there.
PromotionIsCovered ==
  \A w \in Writers : step[w] = "publish" =>
    /\ Needed(promotion[w]) \subseteq stored \cup pending[w]
    /\ \A v \in Writers \ {w} : Needed(promotion[w]) \cap tokens[v] = {}

\* A purge dooms no object of a manifest that it leaves.
DoomedAreNotNeeded ==
  \A w \in Writers : pc[w] = "purge" =>
    \A m \in stored \cap Promotions : m \in doomed[w] \/ ObjectsOf[m] \cap doomed[w] = {}

RecordIsWhole == \A m \in OnRecord : Needed(m) \subseteq stored

\* All of it, as long as no lease was taken from a living owner.
Guarded ==
  displaced = {} =>
    TokensAreNotNeeded /\ PromotionIsCovered /\ DoomedAreNotNeeded /\ RecordIsWhole

StoreInv == StoreShape /\ PromoterIsOpen /\ TokensOfFiles /\ PendingIsNeeded /\ Guarded

LEMMA StoreInvInit == PublicationInit => StoreInv
<1> USE DEF StoreInv
<1> SUFFICES ASSUME PublicationInit PROVE StoreInv
  OBVIOUS
<1>1. BundleInit /\ StoreInit /\ Holders = Writers
  BY PublicationAssumption DEF PublicationInit
<1> USE DEF BundleInit, StoreInit
<1>2. StoreShape
  BY <1>1 DEF StoreShape
<1>3. PromoterIsOpen /\ TokensOfFiles /\ PendingIsNeeded
  BY <1>1 DEF PromoterIsOpen, TokensOfFiles, PendingIsNeeded
<1>4. Guarded
  BY <1>1 DEF Guarded, TokensAreNotNeeded, PromotionIsCovered, DoomedAreNotNeeded, RecordIsWhole, OnRecord
<1> QED
  BY <1>2, <1>3, <1>4

\* Only one writer that nobody displaced is at work.
LEMMA Alone ==
  ASSUME SoleWriter, displaced = {}, NEW v \in Writers, NEW w \in Writers,
         pc[v] \in Holding, pc[w] \in Holding
  PROVE  v = w
  BY DEF SoleWriter

\* Objects are no manifests.
LEMMA Kinds ==
  ASSUME NEW m \in Promotions
  PROVE  /\ ObjectsOf[m] \subseteq Objects /\ m \notin Objects
         /\ \A x \in Needed(m) : x \in Promotions => x = m
  BY StoreAssumption DEF Needed

\* The steps that leave the store alone, but for what an inspection says.
Elsewhere ==
  /\ UNCHANGED <<stored, promotion, step, pending, tokens, refused, doomed>>
  /\ displaced \subseteq displaced'
  /\ \A v \in Writers : /\ pc'[v] = "purge" => pc[v] = "purge"
                        /\ step[v] \in {"publish", "commit", "undo"} => pc'[v] = pc[v]

LEMMA ElsewhereStep ==
  ASSUME StoreInv, Elsewhere
  PROVE  StoreInv'
<1> USE DEF StoreInv
<1>1. StoreShape' /\ TokensOfFiles' /\ PendingIsNeeded'
  BY DEF Elsewhere, StoreShape, TokensOfFiles, PendingIsNeeded, Needed
<1>2. PromoterIsOpen'
  BY DEF Elsewhere, PromoterIsOpen
<1>3. Guarded'
  BY DEF Elsewhere, Guarded, TokensAreNotNeeded, PromotionIsCovered, DoomedAreNotNeeded,
     RecordIsWhole, OnRecord, Needed
<1> QED
  BY <1>1, <1>2, <1>3

LEMMA PromoteStep ==
  ASSUME BundleInv, StoreInv, NEW w \in Writers, Predict(w)
  PROVE  StoreInv'
<1> USE DEF StoreInv
<1>1. pc[w] = "open" /\ pc' = pc /\ displaced' = displaced
  BY DEF Predict, bundleVars, owner
<1>2. /\ step[w] = "none" /\ promotion[w] \in Promotions
      /\ Needed(promotion[w]) \cap stored \cap Busy(w) = {}
      /\ step' = [step EXCEPT ![w] = "publish"]
      /\ pending' = [pending EXCEPT ![w] = Needed(promotion[w]) \ stored]
      /\ UNCHANGED <<promotion, stored, tokens, refused, doomed>>
  BY DEF Predict, Promote, StoreShape
<1>3. Needed(promotion[w]) \subseteq Items
  BY <1>2, Kinds DEF Needed, Items
<1>4. StoreShape'
  BY <1>2, <1>3 DEF StoreShape
<1>5. PromoterIsOpen' /\ TokensOfFiles' /\ PendingIsNeeded'
  BY <1>1, <1>2, StoreAssumption DEF PromoterIsOpen, TokensOfFiles, PendingIsNeeded, StoreShape, Needed
<1>6. \A v \in Writers \ {w} : Needed(promotion[w]) \cap tokens[v] = {}
  <2> SUFFICES ASSUME NEW v \in Writers \ {w} PROVE Needed(promotion[w]) \cap tokens[v] = {}
    OBVIOUS
  <2>1. tokens[v] \subseteq Busy(w)
    <3>1. v \in Holders \ {w}
      BY PublicationAssumption
    <3> QED
      BY <3>1 DEF Busy
  <2> QED
    BY <1>2, <2>1 DEF TokensOfFiles
<1>7. Guarded'
  <2> SUFFICES ASSUME displaced = {}
               PROVE  TokensAreNotNeeded' /\ PromotionIsCovered' /\ DoomedAreNotNeeded' /\ RecordIsWhole'
    BY <1>1 DEF Guarded
  <2>1. PromotionIsCovered'
    BY <1>2, <1>6 DEF Guarded, PromotionIsCovered, StoreShape, Needed
  <2> QED
    BY <1>1, <1>2, <2>1 DEF Guarded, TokensAreNotNeeded, DoomedAreNotNeeded, RecordIsWhole, OnRecord, Needed
<1> QED
  BY <1>4, <1>5, <1>7

LEMMA PublishFileStep ==
  ASSUME BundleInv, StoreInv, NEW w \in Writers, pc[w] = "open", PublishFile(w), UNCHANGED bundleVars
  PROVE  StoreInv'
<1> USE DEF StoreInv
<1>1. pc' = pc /\ displaced' = displaced
  BY DEF bundleVars, owner
<1>2. PICK x \in pending[w] \ stored :
        /\ x \in Promotions => pending[w] = {x}
        /\ stored' = stored \cup {x}
        /\ tokens' = [tokens EXCEPT ![w] = @ \cup {x}]
        /\ pending' = [pending EXCEPT ![w] = @ \ {x}]
  BY DEF PublishFile
<1>3. step[w] = "publish" /\ UNCHANGED <<promotion, step, refused, doomed>>
  BY DEF PublishFile
<1>4. promotion[w] \in Promotions /\ x \in Needed(promotion[w]) /\ x \in Items
  BY <1>2, <1>3 DEF PendingIsNeeded, StoreShape
<1>5. tokens'[w] = tokens[w] \cup {x} /\ pending'[w] = pending[w] \ {x}
      /\ \A v \in Writers \ {w} : tokens'[v] = tokens[v] /\ pending'[v] = pending[v]
  BY <1>2 DEF StoreShape
<1>6. StoreShape'
  BY <1>2, <1>3, <1>4 DEF StoreShape
<1>7. PromoterIsOpen' /\ PendingIsNeeded'
  BY <1>1, <1>3, <1>4, <1>5, StoreAssumption DEF PromoterIsOpen, PendingIsNeeded, Needed
<1>8. TokensOfFiles'
  <2>1. \A v \in Writers : x \notin tokens[v]
    BY <1>2 DEF TokensOfFiles
  <2> QED
    BY <1>2, <1>3, <1>5, <2>1 DEF TokensOfFiles
<1>9. Guarded'
  <2> SUFFICES ASSUME displaced = {}
               PROVE  TokensAreNotNeeded' /\ PromotionIsCovered' /\ DoomedAreNotNeeded' /\ RecordIsWhole'
    BY <1>1 DEF Guarded
  <2>1. \A v \in Writers : pc[v] \in {"open", "purge"} => v = w
    BY Alone DEF BundleInv, Holding
  <2>2. \A v \in Writers : step[v] = "publish" => v = w
    BY <2>1 DEF PromoterIsOpen
  <2>3. x \in Promotions => x = promotion[w] /\ Needed(x) \subseteq stored'
    BY <1>2, <1>3, <1>4, Kinds DEF Guarded, PromotionIsCovered
  <2>4. OnRecord' \subseteq OnRecord \cup ({x} \cap Promotions)
    BY <1>2, <1>3 DEF OnRecord
  <2>5. RecordIsWhole'
    BY <1>2, <2>3, <2>4 DEF Guarded, RecordIsWhole, Needed
  <2>6. PromotionIsCovered'
    BY <1>2, <1>3, <1>5, <2>2 DEF Guarded, PromotionIsCovered, Needed
  <2>7. DoomedAreNotNeeded'
    BY <1>1, <2>1 DEF DoomedAreNotNeeded
  <2>8. TokensAreNotNeeded'
    <3> SUFFICES ASSUME NEW v \in Writers, NEW y \in tokens'[v], NEW m \in OnRecord', y \in ObjectsOf[m]
                 PROVE  m \in tokens'[v]
      BY DEF TokensAreNotNeeded
    <3>1. CASE m \in OnRecord
      <4>1. y # x
        BY <1>2, <3>1 DEF Guarded, RecordIsWhole, Needed
      <4>2. y \in tokens[v]
        BY <1>5, <4>1
      <4> QED
        BY <1>5, <3>1, <4>2 DEF Guarded, TokensAreNotNeeded
    <3>2. CASE m \notin OnRecord
      <4>1. m = x /\ m = promotion[w] /\ y \in Needed(promotion[w])
        BY <2>3, <2>4, <3>2 DEF Needed
      <4>2. v = w
        BY <1>3, <1>5, <4>1 DEF Guarded, PromotionIsCovered
      <4> QED
        BY <1>5, <4>1, <4>2
    <3> QED
      BY <3>1, <3>2
  <2> QED
    BY <2>5, <2>6, <2>7, <2>8
<1> QED
  BY <1>6, <1>7, <1>8, <1>9

\* Steps that take tokens, and files with them, away from w: every file that
\* goes is of one of its tokens, and a manifest is not left without.
Gives(w, gone) ==
  /\ gone \subseteq tokens[w]
  /\ stored' = stored \ gone
  /\ tokens' \in [Writers -> SUBSET Items] /\ tokens'[w] \subseteq tokens[w] \ gone
  /\ \A v \in Writers \ {w} : tokens'[v] = tokens[v]
  /\ refused \subseteq refused'
  /\ UNCHANGED <<promotion, doomed>>
  /\ \A v \in Writers \ {w} : step'[v] = step[v] /\ pending'[v] = pending[v]
  /\ step'[w] # "publish"
  /\ step' \in [Writers -> {"none", "publish", "commit", "undo", "over"}]
  /\ pending' \in [Writers -> SUBSET Items]

LEMMA GivesStep ==
  ASSUME StoreInv, BundleInv, NEW w \in Writers, NEW gone, Gives(w, gone),
         UNCHANGED bundleVars,
         step'[w] \in {"commit", "undo"} => pc[w] = "open",
         step'[w] = "none" => tokens[w] = {},
         step'[w] = "over" => tokens'[w] \subseteq refused',
         promotion[w] = NoPromotion => step'[w] \in {"none", "over"},
         \A m \in OnRecord : m \in tokens[w] =>
           \/ m \in gone \cup refused'
           \/ gone \cap Objects = {} /\ (m \in tokens'[w] \/ tokens'[w] = {})
  PROVE  StoreInv'
<1> USE DEF StoreInv, Gives
<1>1. pc' = pc /\ displaced' = displaced
  BY DEF bundleVars, owner
<1>2. StoreShape'
  BY DEF StoreShape
<1>3. PromoterIsOpen' /\ PendingIsNeeded'
  BY <1>1 DEF PromoterIsOpen, PendingIsNeeded, Needed
<1>4. TokensOfFiles'
  BY DEF TokensOfFiles
<1>5. Guarded'
  <2> SUFFICES ASSUME displaced = {}
               PROVE  TokensAreNotNeeded' /\ PromotionIsCovered' /\ DoomedAreNotNeeded' /\ RecordIsWhole'
    BY <1>1 DEF Guarded
  <2>1. OnRecord' \subseteq OnRecord \ gone /\ (\A m \in OnRecord' : m \notin refused')
    BY DEF OnRecord
  <2>2. \A x \in tokens[w] : \A m \in OnRecord' : x \in ObjectsOf[m] =>
          gone \cap Objects = {} /\ (m \in tokens'[w] \/ tokens'[w] = {})
    BY <2>1 DEF Guarded, TokensAreNotNeeded
  <2>3. TokensAreNotNeeded'
    BY <2>1, <2>2 DEF Guarded, TokensAreNotNeeded
  <2>4. RecordIsWhole'
    <3> SUFFICES ASSUME NEW m \in OnRecord', NEW x \in Needed(m), x \in gone
                 PROVE  FALSE
      BY <2>1 DEF Guarded, RecordIsWhole, Needed
    <3>1. m \in Promotions /\ m \notin gone /\ x \in Objects
      BY <2>1, Kinds DEF OnRecord, Needed
    <3>2. x \in ObjectsOf[m]
      BY <3>1 DEF Needed
    <3> QED
      BY <2>2, <3>1, <3>2
  <2>5. PromotionIsCovered'
    BY DEF Guarded, PromotionIsCovered, Needed
  <2>6. DoomedAreNotNeeded'
    BY <1>1 DEF Guarded, DoomedAreNotNeeded
  <2> QED
    BY <2>3, <2>4, <2>5, <2>6
<1> QED
  BY <1>2, <1>3, <1>4, <1>5

LEMMA RecheckStep ==
  ASSUME BundleInv, StoreInv, NEW w \in Writers, pc[w] = "open", UNCHANGED bundleVars,
         Recheck(w) \/ PromotionFails(w)
  PROVE  StoreInv'
<1>1. /\ Gives(w, {}) /\ tokens' = tokens /\ step'[w] \in {"commit", "undo"}
      /\ step[w] \in {"publish", "commit"}
  BY DEF StoreInv, Recheck, PromotionFails, Gives, StoreShape
<1>2. promotion[w] # NoPromotion
  BY <1>1 DEF StoreInv, PromoterIsOpen
<1> QED
  BY <1>1, <1>2, GivesStep

LEMMA CommitStep ==
  ASSUME BundleInv, StoreInv, NEW w \in Writers, pc[w] = "open", UNCHANGED bundleVars, Commit(w)
  PROVE  StoreInv'
<1>1. promotion[w] # NoPromotion
  BY DEF StoreInv, PromoterIsOpen, Commit
<1>2. CASE tokens[w] = {}
  <2>1. Gives(w, {}) /\ tokens'[w] = {} /\ step'[w] = "over"
    BY <1>2 DEF StoreInv, Commit, Gives, StoreShape
  <2> QED
    BY <1>1, <1>2, <2>1, GivesStep
<1>3. CASE tokens[w] # {}
  <2>1. PICK x \in tokens[w] : /\ x \in Promotions => tokens[w] = {x}
                               /\ tokens' = [tokens EXCEPT ![w] = @ \ {x}]
    BY <1>3 DEF Commit
  <2>2. Gives(w, {}) /\ tokens'[w] = tokens[w] \ {x} /\ step'[w] = "commit"
    BY <1>3, <2>1 DEF StoreInv, Commit, Gives, StoreShape
  <2>3. \A m \in OnRecord : m \in tokens[w] => m \in tokens'[w] \/ tokens'[w] = {}
    BY <2>1, <2>2 DEF OnRecord
  <2> QED
    BY <1>1, <2>2, <2>3, GivesStep
<1> QED
  BY <1>2, <1>3

LEMMA UndoStep ==
  ASSUME BundleInv, StoreInv, NEW w \in Writers, pc[w] = "open", UNCHANGED bundleVars, Undo(w)
  PROVE  StoreInv'
<1> USE DEF StoreInv
<1> DEFINE left == tokens[w] \ refused
<1>1. promotion[w] # NoPromotion /\ step[w] = "undo" /\ UNCHANGED <<promotion, pending, doomed>>
  BY DEF PromoterIsOpen, Undo
<1>2. \/ left = {} /\ step' = [step EXCEPT ![w] = "over"] /\ UNCHANGED <<stored, age, tokens, refused>>
      \/ \E x \in left :
           /\ left \cap Promotions # {} => x \in Promotions
           /\ \/ Remove({x}) /\ tokens' = [tokens EXCEPT ![w] = @ \ {x}] /\ UNCHANGED refused
              \/ refused' = refused \cup {x} /\ UNCHANGED <<stored, age, tokens>>
           /\ UNCHANGED step
  BY DEF Undo
<1>3. CASE left = {} /\ step' = [step EXCEPT ![w] = "over"] /\ UNCHANGED <<stored, age, tokens, refused>>
  <2>1. Gives(w, {}) /\ step'[w] = "over" /\ tokens'[w] \subseteq refused'
    BY <1>1, <1>3 DEF Gives, StoreShape
  <2> QED
    BY <1>1, <1>3, <2>1, GivesStep
<1>4. CASE \E x \in left :
             /\ left \cap Promotions # {} => x \in Promotions
             /\ \/ Remove({x}) /\ tokens' = [tokens EXCEPT ![w] = @ \ {x}] /\ UNCHANGED refused
                \/ refused' = refused \cup {x} /\ UNCHANGED <<stored, age, tokens>>
             /\ UNCHANGED step
  <2>1. PICK x \in left :
             /\ left \cap Promotions # {} => x \in Promotions
             /\ \/ Remove({x}) /\ tokens' = [tokens EXCEPT ![w] = @ \ {x}] /\ UNCHANGED refused
                \/ refused' = refused \cup {x} /\ UNCHANGED <<stored, age, tokens>>
             /\ UNCHANGED step
    BY <1>4
  <2>2. CASE Remove({x}) /\ tokens' = [tokens EXCEPT ![w] = @ \ {x}] /\ UNCHANGED refused
    <3>1. Gives(w, {x}) /\ step'[w] = "undo"
      BY <1>1, <2>1, <2>2 DEF Gives, StoreShape, Remove
    <3>2. \A m \in OnRecord : m \in tokens[w] =>
            m = x \/ ({x} \cap Objects = {} /\ m \in tokens'[w])
      BY <2>1, <2>2, StoreAssumption DEF OnRecord, StoreShape
    <3> QED
      BY <1>1, <3>1, <3>2, GivesStep
  <2>3. CASE refused' = refused \cup {x} /\ UNCHANGED <<stored, age, tokens>>
    <3>1. Gives(w, {}) /\ tokens' = tokens /\ step'[w] = "undo"
      BY <1>1, <2>1, <2>3 DEF Gives, StoreShape
    <3> QED
      BY <1>1, <3>1, GivesStep
  <2> QED
    BY <2>1, <2>2, <2>3
<1> QED
  BY <1>2, <1>3, <1>4

LEMMA FinalizersStep ==
  ASSUME BundleInv, StoreInv, NEW w \in Writers, Finalizers(w)
  PROVE  StoreInv'
<1> USE DEF StoreInv
<1>1. PICK gone \in SUBSET tokens[w] : Remove(gone)
  BY DEF Finalizers, Finalize
<1>2. /\ step[w] = "over" /\ step' = step /\ tokens' = [tokens EXCEPT ![w] = {}]
      /\ UNCHANGED <<promotion, pending, refused, doomed, bundleVars>>
  BY DEF Finalizers, Finalize
<1>3. Gives(w, gone) /\ step'[w] = "over" /\ tokens'[w] = {}
  BY <1>1, <1>2 DEF Gives, StoreShape, Remove
<1>4. \A m \in OnRecord : m \notin tokens[w]
  BY <1>2 DEF TokensOfFiles, OnRecord
<1> QED
  BY <1>2, <1>3, <1>4, GivesStep

\* What is left out of a plan to purge refers to nothing in it.
LEMMA PlanFacts ==
  ASSUME NEW pinned, NEW m \in stored \cap Promotions, m \notin Plan(pinned).manifests
  PROVE  ObjectsOf[m] \cap Plan(pinned).objects = {}
<1> DEFINE kept == {age[n] : n \in {n \in DOMAIN age : n > Len(age) - KeepNewest}}
                     \cup (stored \cap Promotions \cap pinned)
<1>1. Plan(pinned) = [manifests |-> (stored \cap Promotions) \ kept,
                      objects |-> (stored \cap Objects) \ UNION {ObjectsOf[k] : k \in kept}]
  BY DEF Plan
<1> HIDE DEF kept
<1>2. m \in kept
  BY <1>1
<1>3. ObjectsOf[m] \subseteq UNION {ObjectsOf[k] : k \in kept}
  BY <1>2
<1> QED
  BY <1>1, <1>3

LEMMA PurgeStateStep ==
  ASSUME BundleInv, StoreInv, NEW w \in Writers, PurgeState(w)
  PROVE  StoreInv'
<1> USE DEF StoreInv
<1>1. /\ pc[w] = "open" /\ pc' = [pc EXCEPT ![w] = "purge"] /\ displaced' = displaced
      /\ promotion[w] = NoPromotion
  BY DEF PurgeState, Go, owner, Purger
<1>2. UNCHANGED <<promotion, stored, step, pending, tokens, refused>>
  BY DEF PurgeState, BeginPurge
<1>3. PICK pinned : confirmed = Plan(pinned)
  BY DEF PurgeState, BeginPurge
<1>4. doomed' = [doomed EXCEPT ![w] = Plan(pinned).manifests \cup Plan(pinned).objects]
  BY <1>3 DEF PurgeState, BeginPurge
<1>5. Plan(pinned).manifests \subseteq Promotions /\ Plan(pinned).objects \subseteq Objects
  BY DEF Plan
<1>6. doomed' \in [Writers -> SUBSET Items]
  BY <1>4, <1>5 DEF StoreShape, Items
<1>7. pc'[w] = "purge" /\ \A v \in Writers \ {w} : pc'[v] = pc[v] /\ doomed'[v] = doomed[v]
  BY <1>1, <1>4 DEF StoreShape, BundleInv, BundleTypeOK
<1>8. StoreShape' /\ TokensOfFiles' /\ PendingIsNeeded'
  BY <1>2, <1>6 DEF StoreShape, TokensOfFiles, PendingIsNeeded, Needed
<1>9. PromoterIsOpen'
  BY <1>1, <1>2, <1>7 DEF PromoterIsOpen
<1>10. Guarded'
  <2> SUFFICES ASSUME displaced = {}
               PROVE  TokensAreNotNeeded' /\ PromotionIsCovered' /\ DoomedAreNotNeeded' /\ RecordIsWhole'
    BY <1>1 DEF Guarded
  <2>1. TokensAreNotNeeded' /\ PromotionIsCovered' /\ RecordIsWhole'
    BY <1>2 DEF Guarded, TokensAreNotNeeded, PromotionIsCovered, RecordIsWhole, OnRecord, Needed
  <2>2. doomed'[w] = Plan(pinned).manifests \cup Plan(pinned).objects
    BY <1>4 DEF StoreShape
  <2>3. \A m \in stored \cap Promotions : m \in doomed'[w] \/ ObjectsOf[m] \cap doomed'[w] = {}
    BY <1>5, <2>2, PlanFacts, Kinds, StoreAssumption
  <2>4. DoomedAreNotNeeded'
    BY <1>2, <1>7, <2>3 DEF Guarded, DoomedAreNotNeeded
  <2> QED
    BY <2>1, <2>4
<1> QED
  BY <1>8, <1>9, <1>10

LEMMA DeleteStep ==
  ASSUME BundleInv, StoreInv, NEW w \in Writers, DeleteNext(w)
  PROVE  StoreInv'
<1> USE DEF StoreInv
<1>1. pc[w] = "purge" /\ pc' = pc /\ displaced' = displaced
  BY DEF DeleteNext, bundleVars, owner
<1>2. PICK x \in doomed[w] :
        /\ doomed[w] \cap Promotions # {} => x \in Promotions
        /\ x \notin Busy(w) /\ stored' = stored \ {x}
        /\ doomed' = [doomed EXCEPT ![w] = @ \ {x}]
  BY DEF DeleteNext, Delete, Remove
<1>3. UNCHANGED <<promotion, step, pending, tokens, refused>>
  BY DEF DeleteNext, Delete
<1>4. \A v \in Writers : x \notin tokens[v]
  <2>1. tokens[w] = {}
    BY <1>1 DEF PromoterIsOpen
  <2>2. \A v \in Holders \ {w} : x \notin tokens[v]
    BY <1>2 DEF Busy
  <2> QED
    BY <2>1, <2>2, PublicationAssumption
<1>5. doomed'[w] = doomed[w] \ {x} /\ \A v \in Writers \ {w} : doomed'[v] = doomed[v]
  BY <1>2 DEF StoreShape
<1>6. StoreShape'
  BY <1>2, <1>3 DEF StoreShape
<1>7. PromoterIsOpen' /\ PendingIsNeeded' /\ TokensOfFiles'
  BY <1>1, <1>2, <1>3, <1>4 DEF PromoterIsOpen, PendingIsNeeded, Needed, TokensOfFiles
<1>8. Guarded'
  <2> SUFFICES ASSUME displaced = {}
               PROVE  TokensAreNotNeeded' /\ PromotionIsCovered' /\ DoomedAreNotNeeded' /\ RecordIsWhole'
    BY <1>1 DEF Guarded
  <2>1. \A v \in Writers : pc[v] \in {"open", "purge"} => v = w
    BY <1>1, Alone DEF BundleInv, Holding
  <2>2. OnRecord' \subseteq OnRecord \ {x}
    BY <1>2, <1>3 DEF OnRecord
  <2>3. RecordIsWhole'
    <3> SUFFICES ASSUME NEW m \in OnRecord', x \in Needed(m)
                 PROVE  FALSE
      BY <1>2, <2>2 DEF Guarded, RecordIsWhole, Needed
    <3>1. m \in stored \cap Promotions /\ m # x /\ x \in ObjectsOf[m]
      BY <2>2 DEF OnRecord, Needed
    <3>2. m \in doomed[w]
      BY <1>1, <1>2, <3>1 DEF Guarded, DoomedAreNotNeeded
    <3> QED
      BY <1>2, <3>1, <3>2, Kinds
  <2>4. DoomedAreNotNeeded'
    <3> SUFFICES ASSUME NEW m \in stored' \cap Promotions
                 PROVE  m \in doomed'[w] \/ ObjectsOf[m] \cap doomed'[w] = {}
      BY <1>1, <2>1 DEF DoomedAreNotNeeded
    <3> QED
      BY <1>1, <1>2, <1>5 DEF Guarded, DoomedAreNotNeeded
  <2>5. PromotionIsCovered'
    BY <1>1, <1>3, <2>1 DEF PromotionIsCovered, PromoterIsOpen
  <2>6. TokensAreNotNeeded'
    BY <1>3, <2>2 DEF Guarded, TokensAreNotNeeded
  <2> QED
    BY <2>3, <2>4, <2>5, <2>6
<1> QED
  BY <1>6, <1>7, <1>8

LEMMA DieStep ==
  ASSUME BundleInv, StoreInv, NEW w \in Writers, Die(w)
  PROVE  StoreInv'
<1> USE DEF StoreInv
<1>1. /\ pc' = [pc EXCEPT ![w] = "dead"] /\ displaced' = displaced
      /\ step' = [step EXCEPT ![w] = "over"] /\ pending' = [pending EXCEPT ![w] = {}]
      /\ tokens' = [tokens EXCEPT ![w] = {}] /\ doomed' = [doomed EXCEPT ![w] = {}]
      /\ UNCHANGED <<promotion, stored, refused>>
  BY DEF Die, Crash, Abandon, owner
<1>2. StoreShape'
  BY <1>1 DEF StoreShape
<1>3. PromoterIsOpen'
  BY <1>1 DEF PromoterIsOpen, StoreShape, BundleInv, BundleTypeOK
<1>4. TokensOfFiles' /\ PendingIsNeeded'
  BY <1>1 DEF TokensOfFiles, PendingIsNeeded, StoreShape, Needed
<1>5. Guarded'
  <2> SUFFICES ASSUME displaced = {}
               PROVE  TokensAreNotNeeded' /\ PromotionIsCovered' /\ DoomedAreNotNeeded' /\ RecordIsWhole'
    BY <1>1 DEF Guarded
  <2>1. TokensAreNotNeeded' /\ RecordIsWhole'
    BY <1>1 DEF Guarded, TokensAreNotNeeded, RecordIsWhole, OnRecord, Needed, StoreShape
  <2>2. PromotionIsCovered'
    BY <1>1 DEF Guarded, PromotionIsCovered, StoreShape, Needed
  <2>3. DoomedAreNotNeeded'
    BY <1>1 DEF Guarded, DoomedAreNotNeeded, StoreShape, BundleInv, BundleTypeOK
  <2> QED
    BY <2>1, <2>2, <2>3
<1> QED
  BY <1>2, <1>3, <1>4, <1>5

\* The steps of a run change nothing in the store, and no promotion is under
\* way in it.
LEMMA RunIsElsewhere ==
  ASSUME BundleInv, StoreInv, NEW w \in Writers, Run(w) \/ Return(w) \/ Purged(w)
  PROVE  Elsewhere
<1>1. UNCHANGED storeVars /\ step[w] \notin {"publish", "commit", "undo"}
  BY DEF Run, Return, Purged, StoreInv, PromoterIsOpen, Go
<1>2. BundleStep(w) /\ pc'[w] # "purge"
  <2>1. CASE Return(w) \/ Purged(w)
    BY <2>1 DEF Return, Purged, BundleStep, Turn, Go, BundleInv, BundleTypeOK
  <2>2. CASE Run(w)
    <3>1. RunStep(w)
      BY <2>2 DEF Run
    <3>2. pc'[w] # "purge" \/ Materialize(w) \/ Link(w) \/ Persist(w) \/ Rollback(w)
      BY <3>1 DEF RunStep, Start, Open, OpenFails, Fail, Close, Ends, Unlink, RemoveRoot, Publish,
         Stage, LinkManifest, LinkFails, RolledBack, Published, Go, BundleInv, BundleTypeOK
    <3>3. Materialize(w) \/ Link(w) \/ Persist(w) \/ Rollback(w) => pc'[w] # "purge"
      BY DEF Materialize, Link, Persist, Rollback
    <3> QED
      BY <3>1, <3>2, <3>3 DEF BundleStep
  <2> QED
    BY <2>1, <2>2
<1>3. (\A v \in Writers \ {w} : pc'[v] = pc[v]) /\ displaced \subseteq displaced'
  BY <1>2, LeaseFacts, SoleWriterStep DEF BundleInv
<1> QED
  BY <1>1, <1>2, <1>3 DEF Elsewhere, storeVars

LEMMA StoreInvStep ==
  BundleInv /\ StoreInv /\ [PublicationNext]_publicationVars => StoreInv'
<1> SUFFICES ASSUME BundleInv, StoreInv, [PublicationNext]_publicationVars
             PROVE  StoreInv'
  OBVIOUS
<1>1. CASE UNCHANGED publicationVars \/ InspectState
  <2>1. Elsewhere
    BY <1>1 DEF Elsewhere, InspectState, Inspect, publicationVars, bundleVars, owner, storeVars
  <2> QED
    BY <2>1, ElsewhereStep
<1>2. CASE RemoveLease /\ UNCHANGED storeVars
  <2>1. Elsewhere
    BY <1>2 DEF Elsewhere, RemoveLease, Displace, storeVars
  <2> QED
    BY <2>1, ElsewhereStep
<1>3. ASSUME NEW w \in Writers, Work(w)
      PROVE  StoreInv'
  <2>1. CASE Run(w) \/ Return(w) \/ Purged(w)
    BY <2>1, RunIsElsewhere, ElsewhereStep
  <2>2. CASE StepOfPromotion(w)
    BY <2>2, PublishFileStep, RecheckStep, CommitStep, UndoStep DEF StepOfPromotion
  <2> QED
    BY <1>3, <2>1, <2>2, PromoteStep, PurgeStateStep, DeleteStep DEF Work
<1> QED
  BY <1>1, <1>2, <1>3, FinalizersStep, DieStep DEF PublicationNext

\* Every promotion on record is complete, whatever was published, failed,
\* purged or cut short, and whoever held the lease, as long as no lease was
\* taken from a living owner and no rollback of a manifest was refused.
THEOREM RecordedPromotionsAreWhole == PublicationSpec => []PromotionsAreWhole
<1>1. StoreInv => PromotionsAreWhole
  BY DEF StoreInv, Guarded, RecordIsWhole, OnRecord, PromotionsAreWhole, Whole
<1> QED
  BY <1>1, BundleInvHolds, StoreInvInit, StoreInvStep, PTL DEF PublicationSpec
---------------------------------------------------------------------------
(* The output root.                                                        *)

\* Files of one name are not linked twice.
NamesDiffer == \A a, b \in output : NameOf[a] = NameOf[b] => a = b

\* Only publishSet remembers what it linked.
LinkedByPublisher ==
  \A w \in Writers : linked[w] # {} => pc[w] \in {"link", "linked", "rollback"}

\* No lease was taken from a living owner, and no failed run removed the root.
Unharmed == displaced = {} /\ ~RootRemoved

WholeOutput(w) == Bundle[key[w]] \subseteq output /\ key[w] \in manifests

\* What is still to be linked completes the bundle.
LinkingCompletes ==
  \A w \in Writers :
    /\ pc[w] = "link" =>
         Bundle[key[w]] \subseteq output \cup todo[w] /\ key[w] \in manifests \cup todo[w]
    /\ pc[w] = "linked" => WholeOutput(w)
    /\ linked[w] \cap Artifacts \subseteq output

\* What was reported is whole, and nobody may still roll back a part of it.
ReportedIsKept ==
  \A w \in Writers : pc[w] \in {"returning", "closing", "done"} /\ key[w] # NoKey =>
    /\ WholeOutput(w)
    /\ \A u \in Writers : linked[u] \cap (Bundle[key[w]] \cup {key[w]}) = {}

\* What is on record is whole, and is rolled back from its manifest on.
RecordsAreWhole ==
  /\ \A k \in manifests :
       /\ Bundle[k] \subseteq output
       /\ \A u \in Writers : linked[u] \cap Bundle[k] # {} => k \in linked[u]
  /\ \A u \in Writers : linked[u] \cap Keys \subseteq {key[u]}

OutputInv ==
  /\ NamesDiffer /\ LinkedByPublisher
  /\ Unharmed => LinkingCompletes /\ ReportedIsKept /\ RecordsAreWhole

LEMMA OutputInvInit == PublicationInit => OutputInv
<1> SUFFICES ASSUME PublicationInit PROVE OutputInv
  OBVIOUS
<1>1. BundleInit
  BY DEF PublicationInit
<1> QED
  BY <1>1 DEF BundleInit, OutputInv, NamesDiffer, LinkedByPublisher, LinkingCompletes,
     ReportedIsKept, RecordsAreWhole

\* Steps that unlink nothing, and link nothing.
Keeps ==
  /\ UNCHANGED <<output, manifests, todo, linked, key>>
  /\ displaced \subseteq displaced' /\ absent \subseteq absent'
  /\ \A v \in Writers :
       /\ pc[v] = "failed" => pc'[v] = "failed"
       /\ pc'[v] = "link" => pc[v] = "link"
       /\ pc'[v] = "linked" => pc[v] = "linked"
       /\ pc'[v] \in {"returning", "closing", "done"} /\ key[v] # NoKey => pc[v] \in {"returning", "closing", "done"}
       /\ linked[v] # {} => pc'[v] \in {"link", "linked", "rollback"}

LEMMA KeepsStep ==
  ASSUME BundleInv, OutputInv, Keeps
  PROVE  OutputInv'
<1> USE DEF OutputInv, Keeps
<1>1. NamesDiffer' /\ LinkedByPublisher'
  BY DEF NamesDiffer, LinkedByPublisher
<1>2. Unharmed' => Unharmed
  BY DEF Unharmed, RootRemoved, BundleInv, BundleTypeOK
<1>3. Unharmed => LinkingCompletes' /\ ReportedIsKept' /\ RecordsAreWhole'
  BY DEF LinkingCompletes, ReportedIsKept, RecordsAreWhole, WholeOutput
<1> QED
  BY <1>1, <1>2, <1>3

\* The steps of a run outside publishSet.
LEMMA OutsideKeeps ==
  ASSUME BundleInv, OutputInv, NEW w \in Writers,
         Moving(w) \/ Open(w) \/ Close(w) \/ Unlink(w) \/ Persist(w)
  PROVE  Keeps
<1> USE DEF Go, owner, files, linking, BundleInv, BundleTypeOK
<1>1. CASE Open(w) \/ Close(w) \/ Unlink(w) \/ Persist(w)
  <2>1. displaced \subseteq displaced' /\ UNCHANGED <<output, manifests, todo, linked, key, absent>>
    BY <1>1, SoleWriterStep DEF BundleStep, RunStep, Open, Close, Unlink, Persist
  <2>2. linked[w] # {} => ~Open(w) /\ ~Close(w) /\ ~Unlink(w)
    BY DEF OutputInv, LinkedByPublisher, Open, Close, Ends, Unlink
  <2>3. Persist(w) => Keeps
    BY <2>1 DEF Persist, Keeps, OutputInv, LinkedByPublisher
  <2>4. ASSUME ~Persist(w) PROVE Keeps
    <3>1. linked[w] = {} /\ \A v \in Writers \ {w} : pc'[v] = pc[v]
      BY <1>1, <2>2, <2>4, LeaseFacts DEF BundleStep, RunStep
    <3>2. /\ pc[w] # "failed" /\ pc'[w] # "link" /\ pc'[w] # "linked"
          /\ pc'[w] \in {"returning", "closing", "done"} => pc[w] \in {"returning", "closing"}
      BY <1>1, <2>4 DEF Open, Close, Ends, Unlink
    <3> QED
      BY <2>1, <3>1, <3>2 DEF Keeps, OutputInv, LinkedByPublisher
  <2> QED
    BY <2>3, <2>4
<1>2. CASE Start(w) \/ Materialize(w) \/ OpenFails(w) \/ Fail(w) \/ Publish(w) \/ Turn(w)
  BY <1>2 DEF Start, Materialize, OpenFails, Fail, Publish, Turn, Keeps, OutputInv, LinkedByPublisher,
     PublisherHasKey
<1>3. CASE LinkFails(w)
  BY <1>3 DEF LinkFails, Keeps, OutputInv, LinkedByPublisher
<1> QED
  BY <1>1, <1>2, <1>3 DEF Moving

\* A step of publishSet disturbs nobody else: its writer is alone.
LEMMA PublishSetStep ==
  ASSUME BundleInv, OutputInv, NEW w \in Writers, Stage(w) \/ Linking(w) \/ Forgetting(w)
  PROVE  OutputInv'
<1> USE DEF BundleInv, OutputInv
<1>1. (\A v \in Writers \ {w} : pc'[v] = pc[v]) /\ key' = key /\ displaced' = displaced
  <2>1. BundleStep(w)
    BY DEF BundleStep, RunStep, Linking, Forgetting
  <2>2. ~Unlink(w)
    BY DEF Stage, Linking, Forgetting, Link, LinkManifest, Rollback, RolledBack, Published, Crash,
       Forget, Unlink, Go, owner, files, linking, BundleTypeOK
  <2> QED
    BY <2>1, <2>2, LeaseFacts
<1>2. /\ absent' = absent /\ copies' = copies
      /\ \A v \in Writers \ {w} : todo'[v] = todo[v] /\ linked'[v] = linked[v]
  BY DEF BundleTypeOK, Stage, Linking, Forgetting, Link, LinkManifest, Linked, Rollback, RolledBack,
     Published, Crash, Forget, files
<1>3. LinkedByPublisher'
  <2>1. CASE Stage(w)
    BY <1>1, <1>2, <2>1 DEF Stage, Go, BundleTypeOK, LinkedByPublisher
  <2>2. CASE Linking(w)
    <3>1. pc'[w] \in {"link", "linked", "rollback"}
      BY <2>2 DEF Linking, Link, LinkManifest, Rollback, Go, BundleTypeOK
    <3> QED
      BY <1>1, <1>2, <3>1 DEF LinkedByPublisher
  <2>3. CASE Forgetting(w)
    <3>1. linked'[w] = {}
      BY <2>3 DEF Forgetting, RolledBack, Published, Crash, Forget, BundleTypeOK
    <3> QED
      BY <1>1, <1>2, <3>1 DEF LinkedByPublisher
  <2> QED
    BY <2>1, <2>2, <2>3
<1>4. NamesDiffer'
  <2>1. CASE Link(w)
    <3>1. PICK a \in todo[w] \cap Artifacts : ~Taken(a) /\ output' = output \cup {a}
      BY <2>1 DEF Link
    <3> QED
      BY <3>1 DEF NamesDiffer, Taken
  <2>2. CASE ~Link(w)
    <3>1. output' \subseteq output
      BY <2>2 DEF Stage, Linking, Forgetting, LinkManifest, Rollback, RolledBack, Published, Crash, files
    <3> QED
      BY <3>1 DEF NamesDiffer
  <2> QED
    BY <2>1, <2>2
<1>5. pc[w] # "failed"
  BY DEF Stage, Linking, Forgetting, Link, LinkManifest, Rollback, RolledBack, Published, Crash, Go, Active,
     Holding, Closing
<1>6. Unharmed' => Unharmed
  BY <1>1, <1>2, <1>5 DEF Unharmed, RootRemoved, BundleTypeOK
<1>7. ASSUME Unharmed
      PROVE  LinkingCompletes' /\ ReportedIsKept' /\ RecordsAreWhole'
  <2> USE DEF BundleTypeOK
  <2>1. LinkingCompletes /\ ReportedIsKept /\ RecordsAreWhole
    BY <1>7
  <2>2. \A v \in Writers : pc[w] \in Holding /\ pc[v] \in Holding => v = w
    BY <1>7, Alone DEF Unharmed
  <2>3. CASE Stage(w)
    <3>1. /\ pc[w] = "persist" /\ pc' = [pc EXCEPT ![w] = "link"] /\ linked' = [linked EXCEPT ![w] = {}]
          /\ todo' = [todo EXCEPT ![w] = (Bundle[key[w]] \ output) \cup ({key[w]} \ manifests)]
          /\ UNCHANGED <<output, manifests>>
      BY <2>3 DEF Stage, Go, files
    <3> QED
      BY <1>1, <1>2, <2>1, <3>1 DEF LinkingCompletes, ReportedIsKept, RecordsAreWhole, WholeOutput
  <2>4. CASE Link(w)
    <3>1. PICK a \in todo[w] \cap Artifacts :
            /\ ~Taken(a) /\ output' = output \cup {a}
            /\ todo' = [todo EXCEPT ![w] = @ \ {a}] /\ linked' = [linked EXCEPT ![w] = @ \cup {a}]
      BY <2>4 DEF Link, Linked
    <3>2. pc[w] = "link" /\ UNCHANGED <<pc, manifests>> /\ key[w] \in Keys
      BY <2>4 DEF Link, PublisherHasKey
    <3>3. a \notin output /\ a \notin Keys
      BY <3>1, BundleAssumption DEF Taken
    <3>4. LinkingCompletes'
      BY <1>1, <1>2, <2>1, <3>1, <3>2, <3>3 DEF LinkingCompletes, WholeOutput
    <3>5. ReportedIsKept'
      BY <1>1, <1>2, <2>1, <3>1, <3>2, <3>3 DEF ReportedIsKept, WholeOutput
    <3>6. \A k \in manifests : a \notin Bundle[k]
      BY <2>1, <3>3 DEF RecordsAreWhole
    <3>7. \A u \in Writers : linked'[u] \subseteq linked[u] \cup {a} /\ linked[u] \subseteq linked'[u]
      BY <1>2, <3>1
    <3>8. RecordsAreWhole'
      BY <1>1, <2>1, <3>1, <3>2, <3>3, <3>6, <3>7 DEF RecordsAreWhole
    <3> QED
      BY <3>4, <3>5, <3>8
  <2>5. CASE LinkManifest(w)
    <3>1. /\ pc[w] = "link" /\ pc'[w] = "linked" /\ todo[w] \subseteq {key[w]} /\ output' = output
          /\ key[w] \in Keys
      BY <2>5 DEF LinkManifest, Go, PublisherHasKey
    <3>2. \/ todo[w] = {} /\ UNCHANGED <<todo, linked, manifests>>
          \/ /\ key[w] \notin manifests /\ manifests' = manifests \cup {key[w]}
             /\ linked'[w] = linked[w] \cup {key[w]}
      BY <2>5 DEF LinkManifest, Linked
    <3>3. WholeOutput(w)'
      <4>1. Bundle[key[w]] \subseteq output \cup todo[w] /\ key[w] \in manifests \cup todo[w]
        BY <2>1, <3>1 DEF LinkingCompletes
      <4>2. Bundle[key[w]] \subseteq Artifacts /\ key[w] \notin Artifacts
        BY <3>1, BundleAssumption
      <4> QED
        BY <1>1, <3>1, <3>2, <4>1, <4>2 DEF WholeOutput
    <3>4. LinkingCompletes'
      <4>1. linked'[w] \cap Artifacts \subseteq output'
        BY <2>1, <3>1, <3>2, BundleAssumption DEF LinkingCompletes
      <4>2. \A v \in Writers \ {w} : pc[v] # "link" /\ pc[v] # "linked"
        BY <2>2, <3>1 DEF Holding
      <4> QED
        BY <1>1, <1>2, <2>1, <3>1, <3>3, <4>1, <4>2 DEF LinkingCompletes
    <3>5. ReportedIsKept'
      <4> SUFFICES ASSUME NEW v \in Writers, pc[v] \in {"returning", "closing", "done"}, key[v] # NoKey
                   PROVE  /\ WholeOutput(v)'
                          /\ \A u \in Writers : linked'[u] \cap (Bundle[key[v]] \cup {key[v]}) = {}
        BY <1>1, <3>1 DEF ReportedIsKept
      <4>1. WholeOutput(v) /\ \A u \in Writers : linked[u] \cap (Bundle[key[v]] \cup {key[v]}) = {}
        BY <2>1 DEF ReportedIsKept
      <4>2. key[v] \in Keys /\ Bundle[key[v]] \subseteq Artifacts
        BY BundleAssumption
      <4>3. key[w] \notin Bundle[key[v]]
        BY <3>1, <4>2, BundleAssumption
      <4> QED
        BY <1>1, <1>2, <3>1, <3>2, <4>1, <4>3 DEF WholeOutput
    <3>6. RecordsAreWhole'
      <4>1. CASE UNCHANGED <<todo, linked, manifests>>
        BY <1>1, <2>1, <3>1, <4>1 DEF RecordsAreWhole
      <4>2. CASE /\ key[w] \notin manifests /\ manifests' = manifests \cup {key[w]}
                 /\ linked'[w] = linked[w] \cup {key[w]}
        <5>1. \A u \in Writers \ {w} : linked'[u] = {}
          BY <1>2, <2>2, <3>1 DEF Holding, LinkedByPublisher
        <5>2. \A k \in manifests : key[w] \notin Bundle[k]
          BY <3>1, BundleAssumption
        <5>3. \A k \in manifests : linked'[w] \cap Bundle[k] # {} => k \in linked'[w]
          BY <2>1, <4>2, <5>2 DEF RecordsAreWhole
        <5>4. linked'[w] \cap Keys \subseteq {key[w]}
          BY <2>1, <4>2 DEF RecordsAreWhole
        <5>5. \A k \in manifests' : Bundle[k] \subseteq output'
          BY <1>1, <2>1, <3>1, <3>3, <4>2 DEF RecordsAreWhole, WholeOutput
        <5> QED
          BY <1>1, <4>2, <5>1, <5>3, <5>4, <5>5 DEF RecordsAreWhole
      <4> QED
        BY <3>2, <4>1, <4>2
    <3> QED
      BY <3>4, <3>5, <3>6
  <2>6. CASE Rollback(w)
    <3>1. PICK f \in linked[w] :
            /\ manifests' = manifests \ {f}
            /\ output' = IF f \in Artifacts THEN {b \in output : NameOf[b] # NameOf[f]} ELSE output
            /\ linked' = [linked EXCEPT ![w] = @ \ {f}]
            /\ key[w] \in linked[w] => f = key[w]
      BY <2>6 DEF Rollback
    <3>2. pc[w] = "rollback" /\ UNCHANGED <<pc, todo>>
      BY <2>6 DEF Rollback
    <3>3. output \ {f} \subseteq output' /\ manifests \ {f} \subseteq manifests'
      BY <2>1, <3>1 DEF LinkingCompletes, NamesDiffer
    <3>4. \A v \in Writers : pc[v] # "link" /\ pc[v] # "linked"
      BY <2>2, <3>2 DEF Holding
    <3>5. \A v \in Writers : linked'[v] \subseteq linked[v] \ {f}
      <4>1. \A v \in Writers \ {w} : linked[v] = {}
        BY <2>2, <3>2 DEF Holding, LinkedByPublisher
      <4> QED
        BY <1>2, <3>1, <4>1
    <3>6. LinkingCompletes'
      BY <2>1, <3>2, <3>3, <3>4, <3>5 DEF LinkingCompletes
    <3>7. ReportedIsKept'
      <4> SUFFICES ASSUME NEW v \in Writers, pc[v] \in {"returning", "closing", "done"}, key[v] # NoKey
                   PROVE  /\ WholeOutput(v)'
                          /\ \A u \in Writers : linked'[u] \cap (Bundle[key[v]] \cup {key[v]}) = {}
        BY <1>1, <3>2 DEF ReportedIsKept
      <4>1. WholeOutput(v) /\ \A u \in Writers : linked[u] \cap (Bundle[key[v]] \cup {key[v]}) = {}
        BY <2>1 DEF ReportedIsKept
      <4>2. f \notin Bundle[key[v]] /\ f # key[v]
        BY <3>1, <4>1
      <4> QED
        BY <1>1, <3>3, <3>5, <4>1, <4>2 DEF WholeOutput
    <3>8. RecordsAreWhole'
      <4>1. \A k \in manifests' : k # f /\ k \in manifests /\ k \in Keys
        BY <3>1
      <4>2. \A k \in manifests' : f \notin Bundle[k]
        <5> SUFFICES ASSUME NEW k \in manifests', f \in Bundle[k] PROVE FALSE
          OBVIOUS
        <5>1. k \in linked[w]
          BY <2>1, <3>1, <4>1 DEF RecordsAreWhole
        <5>2. k = key[w]
          BY <2>1, <4>1, <5>1 DEF RecordsAreWhole
        <5> QED
          BY <3>1, <4>1, <5>1, <5>2
      <4>3. \A u \in Writers : linked'[u] = linked[u] \ {f}
        <5>1. \A v \in Writers \ {w} : linked[v] = {}
          BY <2>2, <3>2 DEF Holding, LinkedByPublisher
        <5> QED
          BY <1>2, <3>1, <5>1
      <4>4. \A k \in manifests' : Bundle[k] \subseteq output'
        BY <2>1, <3>3, <4>1, <4>2 DEF RecordsAreWhole
      <4>5. \A k \in manifests', u \in Writers : linked'[u] \cap Bundle[k] # {} => k \in linked'[u]
        BY <2>1, <4>1, <4>3 DEF RecordsAreWhole
      <4>6. \A u \in Writers : linked'[u] \cap Keys \subseteq {key[u]}
        BY <2>1, <4>3 DEF RecordsAreWhole
      <4> QED
        BY <1>1, <4>4, <4>5, <4>6 DEF RecordsAreWhole
    <3> QED
      BY <3>6, <3>7, <3>8
  <2>7. CASE Forgetting(w)
    <3>1. UNCHANGED <<output, manifests>> /\ linked'[w] = {} /\ pc'[w] # "link" /\ pc'[w] # "linked"
      BY <2>7 DEF Forgetting, RolledBack, Published, Crash, Forget, files, Go
    <3>2. pc'[w] \in {"returning", "closing", "done"} => pc[w] = "linked"
      BY <2>7 DEF Forgetting, RolledBack, Published, Crash, Go
    <3>3. LinkingCompletes'
      BY <1>1, <1>2, <2>1, <3>1 DEF LinkingCompletes, WholeOutput
    <3>4. pc[w] = "linked" => \A u \in Writers \ {w} : linked[u] = {}
      BY <2>2 DEF Holding, LinkedByPublisher
    <3>5. \A u \in Writers : linked'[u] \subseteq linked[u]
      BY <1>2, <3>1
    <3>6. ASSUME pc[w] = "linked"
          PROVE  WholeOutput(w) /\ \A u \in Writers : linked'[u] = {}
      BY <1>2, <2>1, <3>1, <3>4, <3>6 DEF LinkingCompletes
    <3>7. ReportedIsKept'
      <4> SUFFICES ASSUME NEW v \in Writers, pc'[v] \in {"returning", "closing", "done"}, key[v] # NoKey
                   PROVE  /\ WholeOutput(v)
                          /\ \A u \in Writers : linked'[u] \cap (Bundle[key[v]] \cup {key[v]}) = {}
        BY <1>1, <3>1 DEF ReportedIsKept, WholeOutput
      <4>1. CASE v = w
        BY <3>2, <3>6, <4>1
      <4>2. CASE v # w
        BY <1>1, <2>1, <3>5, <4>2 DEF ReportedIsKept
      <4> QED
        BY <4>1, <4>2
    <3>8. \A u \in Writers : linked'[u] = linked[u] \/ linked'[u] = {}
      BY <1>2, <3>1
    <3>9. RecordsAreWhole'
      BY <1>1, <2>1, <3>1, <3>8 DEF RecordsAreWhole
    <3> QED
      BY <3>3, <3>7, <3>9
  <2> QED
    BY <2>3, <2>4, <2>5, <2>6, <2>7 DEF Linking
<1> QED
  BY <1>3, <1>4, <1>6, <1>7

LEMMA RemoveRootStep ==
  ASSUME BundleInv, OutputInv, NEW w \in Writers, RemoveRoot(w)
  PROVE  OutputInv'
<1> USE DEF BundleInv, OutputInv, BundleTypeOK
<1>1. /\ pc[w] = "bare" /\ pc' = [pc EXCEPT ![w] = "failed"]
      /\ UNCHANGED <<displaced, absent, manifests, todo, linked, key>>
      /\ output' \subseteq output /\ (w \notin absent => output' = output)
  BY DEF RemoveRoot, Go, owner, linking
<1>2. NamesDiffer' /\ LinkedByPublisher'
  BY <1>1 DEF NamesDiffer, LinkedByPublisher
<1>3. Unharmed' => Unharmed /\ output' = output
  BY <1>1 DEF Unharmed, RootRemoved
<1>4. Unharmed /\ output' = output => LinkingCompletes' /\ ReportedIsKept' /\ RecordsAreWhole'
  BY <1>1 DEF LinkingCompletes, ReportedIsKept, RecordsAreWhole, WholeOutput
<1> QED
  BY <1>2, <1>3, <1>4

LEMMA OutputInvStep ==
  BundleInv /\ OutputInv /\ [PublicationNext]_publicationVars => OutputInv'
<1> SUFFICES ASSUME BundleInv, OutputInv, [PublicationNext]_publicationVars
             PROVE  OutputInv'
  OBVIOUS
<1>1. CASE UNCHANGED bundleVars \/ RemoveLease
  <2>1. Keeps
    BY <1>1 DEF Keeps, OutputInv, LinkedByPublisher, bundleVars, RemoveLease, Displace, owner, files, linking
  <2> QED
    BY <2>1, KeepsStep
<1>2. ASSUME NEW w \in Writers, Work(w)
      PROVE  UNCHANGED bundleVars \/ OutputInv'
  <2>1. CASE Return(w) \/ Purged(w) \/ PurgeState(w)
    <3>1. Turn(w)
      BY <2>1 DEF Return, Purged, PurgeState, Purger, Turn
    <3> QED
      BY <3>1, OutsideKeeps, KeepsStep DEF Moving
  <2>2. CASE Run(w)
    <3>1. RunStep(w)
      BY <2>2 DEF Run
    <3>2. CASE Stage(w) \/ Linking(w) \/ Forgetting(w)
      BY <3>2, PublishSetStep
    <3>3. CASE RemoveRoot(w)
      BY <3>3, RemoveRootStep
    <3>4. CASE Moving(w) \/ Open(w) \/ Close(w) \/ Unlink(w) \/ Persist(w)
      BY <3>4, OutsideKeeps, KeepsStep
    <3> QED
      BY <3>1, <3>2, <3>3, <3>4, BundleSteps DEF BundleStep
  <2> QED
    BY <1>2, <2>1, <2>2 DEF Work, Predict, StepOfPromotion, DeleteNext
<1>3. ASSUME NEW w \in Writers, Die(w)
      PROVE  OutputInv'
  BY <1>3, PublishSetStep DEF Die, Forgetting
<1> QED
  BY <1>1, <1>2, <1>3 DEF PublicationNext, Finalizers, InspectState, publicationVars

\* What a run reported as published stays whole, whoever publishes the same
\* names, fails and is rolled back afterwards, unless a lease was taken from a
\* living owner or a failed run removed the root that it had found absent.
THEOREM PublishedOutputIsWhole == PublicationSpec => []OutputIsWhole
<1>1. BundleInv /\ OutputInv => OutputIsWhole
  BY DEF OutputInv, Unharmed, ReportedIsKept, WholeOutput, OutputIsWhole
<1> QED
  BY <1>1, BundleInvHolds, OutputInvInit, OutputInvStep, PTL DEF PublicationSpec

\* A run on record can be replayed, for any bundles and writers, unless files
\* went from the output root, because a failed run removed it or two writers
\* worked at once, and an artifact has then no copy or another file in its place.
THEOREM RecordedRunsReplay == PublicationSpec => []BundlesAreReplayable
<1>1. ASSUME BundleInv, OutputInv
      PROVE  BundlesAreReplayable
  <2> SUFFICES ASSUME NEW k \in manifests, ~Replays(k)
               PROVE  /\ RootRemoved \/ displaced # {}
                      /\ \E a \in Bundle[k] : a \in unkept \/ Conflict(a)
    BY DEF BundlesAreReplayable
  <2>1. PICK a \in Bundle[k] : a \notin output /\ ~(a \in copies /\ ~Taken(a))
    BY DEF Replays
  <2>2. a \in copies \cup unkept
    BY <1>1, <2>1 DEF BundleInv, CopiedBefore
  <2>3. a \in unkept \/ Conflict(a)
    BY <2>1, <2>2 DEF Conflict
  <2>4. ~Unharmed
    BY <1>1, <2>1 DEF OutputInv, RecordsAreWhole
  <2> QED
    BY <2>1, <2>3, <2>4 DEF Unharmed
<1> QED
  BY <1>1, BundleInvHolds, OutputInvInit, OutputInvStep, PTL DEF PublicationSpec
============================================================================
