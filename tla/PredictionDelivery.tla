--------------------------- MODULE PredictionDelivery ---------------------------
(***************************************************************************)
(* From the return of the prediction module to the two POSTs: the second   *)
(* half of process_job (worker.py), with all checks of the result, while   *)
(* the synchronisations of other workers add failure causes and move their *)
(* links to others.                                                        *)
(* JobQueue has this as Predict, PredictionFails, PostAsset, PostCauses;   *)
(* here the data are what matters.  External: run_prediction, which is not *)
(* trusted to return what it stored, and the CMMS, whose answers get lost. *)
(* Probabilities are integers, per mille.                                  *)
(***************************************************************************)
EXTENDS Integers, Sequences, FiniteSets, Functions

CONSTANTS
  Job,       \* jobs, each handled by one worker at a time (JobQueue)
  Asset,     \* asset_id
  AssetOf,   \* AssetOf[j]
  Link,      \* asset_failurecause_id
  RowsOf,    \* RowsOf[l]: the assets and causes to which the CMMS may give link l
  Id,        \* prediction_id
  Results,   \* what run_prediction may return
  None

(* One element of a result per cause; a length that differs, or a key that *)
(* is missing, is refused at once and left out.                            *)
Result == [id : Int, types : Seq(Int), probs : Seq(Int), reliability : Int]

(* A row of asset_failure_types; its key is the link.                      *)
Row == [asset : Asset, cause : Nat \ {0}]

(* What identifies a row of predictions.                                   *)
Owner == [job : Job, asset : Asset]

ASSUME DeliveryAssumption ==
  /\ AssetOf \in [Job -> Asset]
  /\ RowsOf \in [Link -> SUBSET Row]
  /\ Id \subseteq Nat \ {0} /\ Link \subseteq Nat \ {0}
  /\ None \notin Owner /\ None \notin Results /\ None \notin Row
  /\ \A r \in Results : r \in Result /\ Len(r.types) = Len(r.probs)

VARIABLES
  links,     \* links[l]: committed row of asset_failure_types, or None
  stored,    \* stored[p]: job and asset of the row of predictions, or None
  pc,        \* pc[j]: where the worker of job j is in process_job
  result,    \* result[j]: prediction_result
  resolved,  \* resolved[j]: asset_failurecause_ids
  moved,     \* history: moved[j] are the links that got another cause since
  received   \* the payloads that reached the CMMS, and what they were made of

vars == <<links, stored, pc, result, resolved, moved, received>>

Init ==
  /\ links = [l \in Link |-> None]
  /\ stored = [p \in Id |-> None]
  /\ pc = [j \in Job |-> "synced"]
  /\ result = [j \in Job |-> None]
  /\ resolved = [j \in Job |-> <<>>]
  /\ moved = [j \in Job |-> {}]
  /\ received = {}

-----------------------------------------------------------------------------
(* validate_prediction_result                                              *)
IsProbability(x) == x \in 0..1000

Valid(r) ==
  /\ r.id > 0
  /\ r.types # <<>>
  /\ \A i, k \in DOMAIN r.types : r.types[i] > 0 /\ (r.types[i] = r.types[k] => i = k)
  /\ \A i \in DOMAIN r.probs : IsProbability(r.probs[i])
  /\ IsProbability(r.reliability)

(* resolve_asset_failurecause_ids: the rows of the asset with a cause of   *)
(* the result; each cause needs one, and none may have two.                *)
(* Mutations: the asset is forgotten; a link is taken for a cause that it  *)
(* has had, or will have.                                                  *)
RowsOfAnyAsset(a, c) == {l \in Link : links[l] # None /\ links[l].cause = c}
RowsOnceFor(a, c) ==
  {l \in Link : links[l] # None /\ links[l].asset = a /\ [asset |-> a, cause |-> c] \in RowsOf[l]}

RowsFor(a, c) == {l \in Link : links[l] = [asset |-> a, cause |-> c]}

Resolvable(a, types) == \A i \in DOMAIN types : Cardinality(RowsFor(a, types[i])) = 1
Resolution(a, types) == [i \in DOMAIN types |-> CHOOSE l \in RowsFor(a, types[i]) : TRUE]

(* The two payloads; the field of keeps what they were made of.            *)
Origin(j) == [job |-> j, result |-> result[j]]

AssetPayload(j) ==
  [kind |-> "asset", id |-> result[j].id, asset |-> AssetOf[j],
   reliability |-> result[j].reliability, of |-> Origin(j)]
CausePayload(j) ==
  [kind |-> "causes", id |-> result[j].id,
   items |-> [i \in DOMAIN resolved[j] |->
                [link |-> resolved[j][i], probability |-> result[j].probs[i]]], of |-> Origin(j)]

(* The pydantic models check their ranges.                                 *)
AcceptsAsset(j) == result[j].id > 0 /\ result[j].reliability \in 0..1000
AcceptsCauses(j) ==
  /\ resolved[j] # <<>>
  /\ \A i \in DOMAIN result[j].probs : result[j].probs[i] \in 0..990

Goto(j, p) == pc' = [pc EXCEPT ![j] = p]

(* Mutation: the result is kept.                                           *)
ForgetLinks(j) ==
  /\ resolved' = [resolved EXCEPT ![j] = <<>>]
  /\ moved' = [moved EXCEPT ![j] = {}]
  /\ UNCHANGED result

Forget(j) ==
  /\ result' = [result EXCEPT ![j] = None]
  /\ resolved' = [resolved EXCEPT ![j] = <<>>]
  /\ moved' = [moved EXCEPT ![j] = {}]

(* Every exception ends in update_job_status with error.                   *)
Fail(j) ==
  /\ Goto(j, "error")
  /\ Forget(j)
  /\ UNCHANGED <<links, stored, received>>

-----------------------------------------------------------------------------
(* run_prediction stores a prediction, or none, and returns a result that  *)
(* need not be the one it stored.                                          *)
RunPrediction(j) ==
  /\ pc[j] = "synced"
  /\ \E r \in Results : result' = [result EXCEPT ![j] = r]
  /\ \/ UNCHANGED stored
     \/ \E p \in Id : /\ stored[p] = None
                      /\ stored' = [stored EXCEPT ![p] = [job |-> j, asset |-> AssetOf[j]]]
  /\ Goto(j, "validate")
  /\ UNCHANGED <<links, resolved, moved, received>>

PredictionFails(j) ==
  /\ pc[j] = "synced"
  /\ Fail(j)

Validate(j) ==
  /\ pc[j] = "validate"
  /\ Valid(result[j])
  /\ Goto(j, "resolve")
  /\ UNCHANGED <<links, stored, result, resolved, moved, received>>

Resolve(j) ==
  /\ pc[j] = "resolve"
  /\ Resolvable(AssetOf[j], result[j].types)
  /\ resolved' = [resolved EXCEPT ![j] = Resolution(AssetOf[j], result[j].types)]
  /\ Goto(j, "verify")
  /\ UNCHANGED <<links, stored, result, moved, received>>

(* verify_stored_prediction                                                *)
IsStoredFor(j) ==
  result[j].id \in Id /\ stored[result[j].id] = [job |-> j, asset |-> AssetOf[j]]

Verify(j) ==
  /\ pc[j] = "verify"
  /\ IsStoredFor(j)
  /\ Goto(j, "build")
  /\ UNCHANGED <<links, stored, result, resolved, moved, received>>

(* Both payloads are built before the first of them is sent.  Mutation:    *)
(* only the first one is.                                                  *)
CanBuildFirst(j) == AcceptsAsset(j)
CanBuild(j) == AcceptsAsset(j) /\ AcceptsCauses(j)

Build(j) ==
  /\ pc[j] = "build"
  /\ CanBuild(j)
  /\ Goto(j, "post_asset")
  /\ UNCHANGED <<links, stored, result, resolved, moved, received>>

PostAsset(j) ==
  /\ pc[j] = "post_asset"
  /\ received' = received \cup {AssetPayload(j)}
  /\ Goto(j, "post_causes")
  /\ UNCHANGED <<links, stored, result, resolved, moved>>

PostCauses(j) ==
  /\ pc[j] = "post_causes"
  /\ received' = received \cup {CausePayload(j)}
  /\ Goto(j, "done")
  /\ Forget(j)
  /\ UNCHANGED <<links, stored>>

(* A check refuses the result, or no payload can be built from it.         *)
Refuse(j) ==
  /\ \/ pc[j] = "validate" /\ ~Valid(result[j])
     \/ pc[j] = "resolve" /\ ~Resolvable(AssetOf[j], result[j].types)
     \/ pc[j] = "verify" /\ ~IsStoredFor(j)
     \/ pc[j] = "build" /\ ~CanBuild(j)
  /\ Fail(j)

(* A POST times out or is refused: it was received, or not.                *)
PostFails(j) ==
  /\ pc[j] \in {"post_asset", "post_causes"}
  /\ Goto(j, "error")
  /\ Forget(j)
  /\ \/ UNCHANGED received
     \/ /\ pc[j] = "post_asset"
        /\ received' = received \cup {AssetPayload(j)}
     \/ /\ pc[j] = "post_causes"
        /\ received' = received \cup {CausePayload(j)}
  /\ UNCHANGED <<links, stored>>

(* The client submits the failed job again, the worker died and the job is *)
(* requeued, or the COMMIT of done was not acknowledged and the recovery   *)
(* queues it again (JobQueue); it is synchronised before it comes here.    *)
Again(j) ==
  /\ Goto(j, "synced")
  /\ Forget(j)
  /\ UNCHANGED <<links, stored, received>>

(* A synchronisation, of this asset or another one, commits one row of its *)
(* failure causes (WorkorderSync): a new row, or another cause for the one *)
(* that is there, which never goes to another asset.                       *)
MovesLink(l, row) == links[l] # None /\ links[l].cause # row.cause

MayStore(l, row) == links[l] # None => links[l].asset = row.asset

SyncLink(l, row) ==
  /\ MayStore(l, row)
  /\ links' = [links EXCEPT ![l] = row]
  /\ moved' = [j \in Job |-> IF l \in Range(resolved[j]) /\ MovesLink(l, row)
                             THEN moved[j] \cup {l} ELSE moved[j]]
  /\ UNCHANGED <<stored, pc, result, resolved, received>>

Next ==
  \/ \E j \in Job :
       \/ RunPrediction(j)
       \/ PredictionFails(j)
       \/ Validate(j)
       \/ Resolve(j)
       \/ Verify(j)
       \/ Build(j)
       \/ PostAsset(j)
       \/ PostCauses(j)
       \/ Refuse(j)
       \/ PostFails(j)
       \/ Again(j)
  \/ \E l \in Link : \E row \in RowsOf[l] : SyncLink(l, row)

Spec == Init /\ [][Next]_vars

-----------------------------------------------------------------------------
TypeOK ==
  /\ links \in [Link -> Row \cup {None}]
  /\ stored \in [Id -> Owner \cup {None}]
  /\ pc \in [Job -> {"synced", "validate", "resolve", "verify", "build",
                     "post_asset", "post_causes", "done", "error"}]
  /\ result \in [Job -> Results \cup {None}]
  /\ resolved \in [Job -> Seq(Link)]
  /\ moved \in [Job -> SUBSET Link]
  /\ \A j \in Job : result[j] = None <=> pc[j] \in {"synced", "done", "error"}

(* The failure causes that the CMMS receives are those of a prediction for *)
(* the job that stored it: the same number, in the same order, each under  *)
(* a link of its own that is of that asset and that the CMMS gave the      *)
(* cause, however synchronisations and the retries of the job fall.        *)
CausesArePredicted ==
  \A m \in received : m.kind = "causes" =>
    LET r == m.of.result
        a == AssetOf[m.of.job] IN
    /\ m.id \in Id /\ stored[m.id] = [job |-> m.of.job, asset |-> a]
    /\ Len(m.items) = Len(r.types)
    /\ \A i \in DOMAIN m.items :
         /\ m.items[i].probability = r.probs[i]
         /\ [asset |-> a, cause |-> r.types[i]] \in RowsOf[m.items[i].link]
         /\ links[m.items[i].link] # None /\ links[m.items[i].link].asset = a
    /\ \A i, k \in DOMAIN m.items : m.items[i].link = m.items[k].link => i = k

(* When the causes are sent, each link still is the row of its cause, but  *)
(* for those that a synchronisation has moved since they were looked up:   *)
(* no transaction spans resolve_asset_failurecause_ids and the POSTs.  A   *)
(* link that is moved before the look-up, or by an earlier attempt of the  *)
(* job, is never sent under its old cause.                                 *)
CurrentBut(m, gone) ==
  \A i \in DOMAIN m.items :
    \/ links[m.items[i].link] = [asset |-> AssetOf[m.of.job], cause |-> m.of.result.types[i]]
    \/ m.items[i].link \in gone

OnlyMovedAreStale ==
  [][\A m \in received' \ received :
       m.kind = "causes" => CurrentBut(m, moved[m.of.job])]_vars

(* With nothing between the look-up and the POSTs the exception would not  *)
(* be needed.                                                              *)
CausesAreCurrent ==
  [][\A m \in received' \ received : m.kind = "causes" => CurrentBut(m, {})]_vars

(* The CMMS gets no half of a prediction because of the prediction itself: *)
(* when it has received the reliability of an asset, the failure causes of *)
(* that prediction can be sent as well; and it was stored for that asset.  *)
NoHalfPrediction ==
  \A m \in received : m.kind = "asset" =>
    /\ \A i \in DOMAIN m.of.result.probs : m.of.result.probs[i] \in 0..990
    /\ m.id \in Id /\ stored[m.id] # None /\ stored[m.id].asset = m.asset

(* Every result that normalize_probability accepts, between 0 and 1 as its *)
(* comment says, can be sent to the CMMS.                                  *)
ValidIsSendable == \A j \in Job : pc[j] = "build" => CanBuild(j)
=============================================================================
