----------------------------- MODULE Publication -----------------------------
(***************************************************************************)
(* RunBundle and PredictiveStore under the one lease of a state root: a    *)
(* run may promote a prediction between opening its session and publishing *)
(* its bundle, and a predictive-state command purges what was confirmed    *)
(* by an earlier inspection.                                               *)
(***************************************************************************)
EXTENDS RunBundle, PredictiveStore

CONSTANT Scenarios   \* what the writers may come to do, and where

ASSUME PublicationAssumption ==
  /\ Holders = Writers
  /\ Scenarios \subseteq [key : [Writers -> Keys \cup {NoKey}], outputRoot : BOOLEAN,
                          promotion : [Writers -> Promotions \cup {NoPromotion}]]

publicationVars == <<bundleVars, storeVars>>

PublicationInit ==
  \E c \in Scenarios :
    /\ key = c.key /\ outputRoot = c.outputRoot /\ promotion = c.promotion
    /\ BundleInit /\ StoreInit

\* A writer that neither publishes nor promotes runs a purge command.
Purger(w) == key[w] = NoKey /\ promotion[w] = NoPromotion

\* A purge is asked for with the token of an inspection that found something.
ToldWhatToPurge ==
  confirmed # NoScope /\ confirmed.manifests \cup confirmed.objects # {}

\* A promotion is synchronous: the run goes on when it is over.
Run(w) ==
  /\ step[w] \in {"none", "over"}
  /\ Purger(w) => ToldWhatToPurge
  /\ RunStep(w)
  /\ UNCHANGED storeVars

Predict(w) ==
  /\ pc[w] = "open"
  /\ Promote(w)
  /\ UNCHANGED bundleVars

StepOfPromotion(w) ==
  /\ pc[w] = "open"
  /\ \/ PublishFile(w)
     \/ Recheck(w) \/ Commit(w) \/ PromotionFails(w) \/ Undo(w)
  /\ UNCHANGED bundleVars

Finalizers(w) == pc[w] # "dead" /\ Finalize(w) /\ UNCHANGED bundleVars

\* With --incremental off --predictive required the lease is held for the
\* promotion only, and the output is written without it.
Return(w) ==
  /\ Go(w, "open", "returning") /\ step[w] = "over" /\ key[w] = NoKey
  /\ UNCHANGED <<owner, files, linking, storeVars>>

\* An inspection takes the lease and gives it back; it changes nothing else.
InspectState ==
  /\ lease = Free
  /\ \E w \in Writers : Purger(w) /\ pc[w] = "idle" /\ Inspect(w)
  /\ UNCHANGED bundleVars

PurgeState(w) ==
  /\ Purger(w) /\ Go(w, "open", "purge")
  /\ BeginPurge(w)
  /\ UNCHANGED <<owner, files, linking>>

DeleteNext(w) == pc[w] = "purge" /\ Delete(w) /\ UNCHANGED bundleVars

Purged(w) ==
  /\ Go(w, "purge", "returning") /\ doomed[w] = {}
  /\ UNCHANGED <<owner, files, linking, storeVars>>

Die(w) == Crash(w) /\ Abandon(w)

Work(w) ==
  Run(w) \/ Predict(w) \/ StepOfPromotion(w) \/ Return(w) \/ PurgeState(w) \/ DeleteNext(w) \/ Purged(w)

PublicationNext ==
  \/ \E w \in Writers : Work(w) \/ Finalizers(w) \/ Die(w)
  \/ InspectState
  \/ RemoveLease /\ UNCHANGED storeVars

PublicationSpec == PublicationInit /\ [][PublicationNext]_publicationVars

\* A process that opened its session runs on until it ends or dies: its
\* tasks end (TaskExecutor), and all that follows them is synchronous.
FairPublicationSpec ==
  /\ PublicationSpec
  /\ \A w \in Writers : WF_publicationVars(Work(w))
---------------------------------------------------------------------------
\* A promotion that is on record is complete, whatever was published, failed,
\* rolled back, purged under an old confirmation, or cut short by a crash.
\* The exception is a manifest whose rollback was refused: the code goes on
\* and rolls back its objects.
PromotionsAreWhole ==
  displaced = {} => \A m \in (stored \cap Promotions) \ refused : Whole(m)

\* Whoever opened a session gives the lease back, unless it dies or the file
\* system refuses the look at the lease file or its removal, which close hides.
LeaseIsGivenBack ==
  \A w \in Writers : pc[w] = "open" ~> lease # w \/ pc[w] = "dead" \/ w \in stuck
=============================================================================
