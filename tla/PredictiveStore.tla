--------------------------- MODULE PredictiveStore ---------------------------
(***************************************************************************)
(* The store of predictive promotions: publishPromotion and planPurge of   *)
(* predictive-artifact-store.js and purgePredictiveState of                *)
(* predictive-state-management.js, on the files of one lineage.            *)
(*                                                                         *)
(* A promotion is a manifest over content-addressed objects.  publishFile  *)
(* renames a complete file into place and returns a token with an open     *)
(* handle; until the token is committed or rolled back, nobody else can    *)
(* read or delete the file.  The store exists on Windows only: elsewhere   *)
(* the native helper refuses to publish and to delete.                     *)
(***************************************************************************)
EXTENDS Naturals, Sequences, FiniteSets

CONSTANTS
  Holders,       \* processes that come to hold the lease
  Promotions, Objects,
  ObjectsOf,     \* [Promotions -> SUBSET Objects]
  NoPromotion,   \* the promotion of a holder that makes none
  KeepNewest,    \* promotions kept for their age (2 in the code)
  PinChoices,    \* sets of promotions that active reports may pin
  NoScope

Items == Promotions \cup Objects
Scope == [manifests : SUBSET Promotions, objects : SUBSET Objects]

ASSUME StoreAssumption ==
  /\ Promotions \cap Objects = {}
  /\ ObjectsOf \in [Promotions -> SUBSET Objects]
  /\ NoPromotion \notin Promotions
  /\ KeepNewest \in Nat
  /\ PinChoices \subseteq SUBSET Promotions
  /\ NoScope \notin Scope

VARIABLES
  stored,     \* files in place
  age,        \* the manifests in place, the oldest first
  promotion,  \* [Holders -> Promotions \cup {NoPromotion}], what a run promotes
  step,       \* [Holders -> {"none", "publish", "commit", "undo", "over"}]
  pending,    \* [Holders -> items to publish]
  tokens,     \* [Holders -> items with an open token]
  refused,    \* items whose rollback was refused
  confirmed,  \* the scope of the last inspection, which confirms a purge
  doomed      \* [Holders -> items that a purge has still to delete]

storeVars == <<stored, age, promotion, step, pending, tokens, refused, confirmed, doomed>>

StoreInit ==
  /\ stored = {} /\ age = <<>>
  /\ promotion \in [Holders -> Promotions \cup {NoPromotion}]
  /\ step = [w \in Holders |-> "none"]
  /\ pending = [w \in Holders |-> {}]
  /\ tokens = [w \in Holders |-> {}]
  /\ refused = {}
  /\ confirmed = NoScope
  /\ doomed = [w \in Holders |-> {}]

Remove(items) ==
  /\ stored' = stored \ items
  /\ age' = SelectSeq(age, LAMBDA m : m \notin items)

Busy(w) == UNION {tokens[v] : v \in Holders \ {w}}
Needed(m) == ObjectsOf[m] \cup {m}
---------------------------------------------------------------------------
(* publishPromotion.                                                       *)

\* Files that are there already are read, which fails if another process
\* has them open.
Promote(w) ==
  /\ step[w] = "none" /\ promotion[w] # NoPromotion
  /\ step' = [step EXCEPT ![w] = "publish"]
  /\ Needed(promotion[w]) \cap stored \cap Busy(w) = {}
  /\ pending' = [pending EXCEPT ![w] = Needed(promotion[w]) \ stored]
  /\ UNCHANGED <<promotion, stored, age, tokens, refused, confirmed, doomed>>

\* The objects are published before the manifest.
PublishFile(w) ==
  /\ step[w] = "publish"
  /\ \E x \in pending[w] \ stored :
       /\ x \in Promotions => pending[w] = {x}
       /\ stored' = stored \cup {x}
       /\ age' = IF x \in Promotions THEN Append(age, x) ELSE age
       /\ tokens' = [tokens EXCEPT ![w] = @ \cup {x}]
       /\ pending' = [pending EXCEPT ![w] = @ \ {x}]
  /\ UNCHANGED <<promotion, step, refused, confirmed, doomed>>

\* The files that were there are looked at again.
Recheck(w) ==
  /\ step[w] = "publish" /\ pending[w] = {}
  /\ Needed(promotion[w]) \subseteq stored
  /\ step' = [step EXCEPT ![w] = "commit"]
  /\ UNCHANGED <<promotion, stored, age, pending, tokens, refused, confirmed, doomed>>

\* The manifest is committed last.
Commit(w) ==
  /\ step[w] = "commit"
  /\ IF tokens[w] = {} THEN step' = [step EXCEPT ![w] = "over"] /\ UNCHANGED tokens
     ELSE /\ \E x \in tokens[w] : /\ x \in Promotions => tokens[w] = {x}
                                  /\ tokens' = [tokens EXCEPT ![w] = @ \ {x}]
          /\ UNCHANGED step
  /\ UNCHANGED <<promotion, stored, age, pending, refused, confirmed, doomed>>

\* A file cannot be published, checked or committed.
PromotionFails(w) ==
  /\ step[w] \in {"publish", "commit"}
  /\ step' = [step EXCEPT ![w] = "undo"]
  /\ pending' = [pending EXCEPT ![w] = {}]
  /\ UNCHANGED <<promotion, stored, age, tokens, refused, confirmed, doomed>>

\* Uncommitted files are rolled back in reverse order.  A refusal is noted
\* and the others are rolled back all the same.
Undo(w) ==
  /\ step[w] = "undo"
  /\ \E left \in {tokens[w] \ refused} :
       IF left = {} THEN step' = [step EXCEPT ![w] = "over"] /\ UNCHANGED <<stored, age, tokens, refused>>
       ELSE \E x \in left :
              /\ left \cap Promotions # {} => x \in Promotions
              /\ \/ Remove({x}) /\ tokens' = [tokens EXCEPT ![w] = @ \ {x}] /\ UNCHANGED refused
                 \/ refused' = refused \cup {x} /\ UNCHANGED <<stored, age, tokens>>
              /\ UNCHANGED step
  /\ UNCHANGED <<promotion, pending, confirmed, doomed>>

\* The finalizers of tokens that are left over try once more.
Finalize(w) ==
  /\ step[w] = "over" /\ tokens[w] # {}
  /\ \E gone \in SUBSET tokens[w] : Remove(gone)
  /\ tokens' = [tokens EXCEPT ![w] = {}]
  /\ UNCHANGED <<promotion, step, pending, refused, confirmed, doomed>>

\* The process dies; its handles are closed and no finalizer runs.
Abandon(w) ==
  /\ step' = [step EXCEPT ![w] = "over"]
  /\ pending' = [pending EXCEPT ![w] = {}]
  /\ tokens' = [tokens EXCEPT ![w] = {}]
  /\ doomed' = [doomed EXCEPT ![w] = {}]
  /\ UNCHANGED <<promotion, stored, age, refused, confirmed>>
---------------------------------------------------------------------------
(* Inspection and purge.                                                   *)

Whole(m) == Needed(m) \subseteq stored
\* scanManifests throws for a manifest that is not whole or cannot be read.
Scannable(w) ==
  /\ Busy(w) \cap stored = {}
  /\ \A m \in stored \cap Promotions : Whole(m)

\* planPurge: what is neither new nor pinned, and what only that refers to.
Plan(pinned) ==
  LET kept == {age[n] : n \in {n \in DOMAIN age : n > Len(age) - KeepNewest}}
                \cup (stored \cap Promotions \cap pinned)
      live == UNION {ObjectsOf[m] : m \in kept}
  IN  [manifests |-> (stored \cap Promotions) \ kept, objects |-> (stored \cap Objects) \ live]

\* inspectPredictiveState prints a scope and the token that confirms it.
Inspect(w) ==
  /\ Scannable(w)
  /\ \E pinned \in PinChoices : confirmed' = Plan(pinned)
  /\ UNCHANGED <<promotion, stored, age, step, pending, tokens, refused, doomed>>

\* Fault: the confirmed scope is deleted without another look.
BeginPurgeUnseen(w) ==
  /\ confirmed # NoScope /\ Scannable(w)
  /\ doomed' = [doomed EXCEPT ![w] = (confirmed.manifests \cup confirmed.objects) \cap stored]
  /\ UNCHANGED <<promotion, stored, age, step, pending, tokens, refused, confirmed>>

\* The scope must be what the store would plan now.
BeginPurge(w) ==
  /\ confirmed # NoScope /\ Scannable(w)
  /\ \E pinned \in PinChoices : confirmed = Plan(pinned)
  /\ doomed' = [doomed EXCEPT ![w] = confirmed.manifests \cup confirmed.objects]
  /\ UNCHANGED <<promotion, stored, age, step, pending, tokens, refused, confirmed>>

\* Manifests are deleted before objects.
Delete(w) ==
  /\ \E x \in doomed[w] :
       /\ doomed[w] \cap Promotions # {} => x \in Promotions
       /\ x \notin Busy(w) /\ Remove({x})
       /\ doomed' = [doomed EXCEPT ![w] = @ \ {x}]
  /\ UNCHANGED <<promotion, step, pending, tokens, refused, confirmed>>
=============================================================================
