------------------------ MODULE PredictionDeliveryProofs ------------------------
(***************************************************************************)
(* Theorems about PredictionDelivery, for all jobs, failure causes, moves  *)
(* of links and results: the type invariant, that what the CMMS receives   *)
(* is what was predicted and stored, and never half of it, and under which *)
(* links it is sent.                                                       *)
(***************************************************************************)
EXTENDS PredictionDelivery, FiniteSetTheorems, SequenceTheorems, TLAPS

(* A cause that resolves has a row.                                        *)
LEMMA ResolvedRow ==
  ASSUME NEW S, Cardinality(S) = 1
  PROVE  (CHOOSE l \in S : TRUE) \in S
<1>1. S # {}
  BY FS_EmptySet
<1> QED
  BY <1>1

(* What Resolve reads for a result: one row of the asset per cause, in its *)
(* order.                                                                  *)
LEMMA ResolutionOf ==
  ASSUME NEW a, NEW types \in Seq(Int), Resolvable(a, types)
  PROVE  /\ Resolution(a, types) \in Seq(Link)
         /\ DOMAIN Resolution(a, types) = DOMAIN types
         /\ \A i \in DOMAIN types :
              /\ Resolution(a, types)[i] \in Link
              /\ links[Resolution(a, types)[i]] = [asset |-> a, cause |-> types[i]]
<1>1. \A i \in DOMAIN types : Resolution(a, types)[i] \in RowsFor(a, types[i])
  BY ResolvedRow DEF Resolvable, Resolution
<1>2. DOMAIN Resolution(a, types) = 1..Len(types) /\ DOMAIN types = 1..Len(types) /\ Len(types) \in Nat
  BY LenProperties DEF Resolution
<1>3. \A i \in DOMAIN types :
        /\ Resolution(a, types)[i] \in Link
        /\ links[Resolution(a, types)[i]] = [asset |-> a, cause |-> types[i]]
  BY <1>1 DEF RowsFor
<1>4. Resolution(a, types) \in [1..Len(types) -> Link]
  BY <1>2, <1>3 DEF Resolution
<1>5. Resolution(a, types) \in Seq(Link)
  BY <1>2, <1>4
<1> QED
  BY <1>2, <1>3, <1>5

LEMMA Typing == TypeOK /\ [Next]_vars => TypeOK'
<1> SUFFICES ASSUME TypeOK, [Next]_vars PROVE TypeOK'
  OBVIOUS
<1> USE DeliveryAssumption DEF TypeOK, Goto, Fail, Forget
<1>0. <<>> \in Seq(Link)
  BY EmptySeq
<1>1. CASE UNCHANGED vars
  BY <1>1 DEF vars
<1>2. ASSUME NEW j \in Job, RunPrediction(j) PROVE TypeOK'
  BY <1>2 DEF RunPrediction, Owner
<1>3. ASSUME NEW j \in Job, PredictionFails(j) \/ Refuse(j) \/ Again(j) PROVE TypeOK'
  <2>1. PICK p \in {"error", "synced"} : pc' = [pc EXCEPT ![j] = p]
    BY <1>3 DEF PredictionFails, Refuse, Again
  <2>2. /\ result' = [result EXCEPT ![j] = None]
        /\ resolved' = [resolved EXCEPT ![j] = <<>>]
        /\ moved' = [moved EXCEPT ![j] = {}]
        /\ UNCHANGED <<links, stored>>
    BY <1>3 DEF PredictionFails, Refuse, Again
  <2> QED
    BY <1>0, <2>1, <2>2
<1>4. ASSUME NEW j \in Job, Validate(j) \/ Verify(j) \/ Build(j) PROVE TypeOK'
  BY <1>4 DEF Validate, Verify, Build
<1>5. ASSUME NEW j \in Job, Resolve(j) PROVE TypeOK'
  <2>1. result[j] \in Results /\ result[j].types \in Seq(Int)
    BY <1>5 DEF Resolve, Result
  <2>2. Resolution(AssetOf[j], result[j].types) \in Seq(Link)
    BY <1>5, <2>1, ResolutionOf DEF Resolve
  <2> QED
    BY <1>5, <2>2 DEF Resolve
<1>6. ASSUME NEW j \in Job, PostAsset(j) \/ PostCauses(j) \/ PostFails(j) PROVE TypeOK'
  BY <1>0, <1>6 DEF PostAsset, PostCauses, PostFails
<1>7. ASSUME NEW l \in Link, NEW row \in RowsOf[l], SyncLink(l, row) PROVE TypeOK'
  BY <1>7 DEF SyncLink
<1> QED
  BY <1>1, <1>2, <1>3, <1>4, <1>5, <1>6, <1>7 DEF Next

LEMMA TypeInit == Init => TypeOK
  BY EmptySeq, DeliveryAssumption DEF Init, TypeOK

(* Every variable keeps its type, and the locals of process_job hold a     *)
(* result exactly between the return of run_prediction and the end.        *)
THEOREM TypeCorrect == Spec => []TypeOK
<1> QED
  BY TypeInit, Typing, PTL DEF Spec

-----------------------------------------------------------------------------
(* A link of the table has a row that the CMMS gave it.                    *)
LinksGiven == \A l \in Link : links[l] # None => links[l] \in RowsOf[l]

LEMMA GivenStep ==
  ASSUME TypeOK, [Next]_vars, LinksGiven
  PROVE  LinksGiven'
<1>1. ASSUME NEW l \in Link, NEW row \in RowsOf[l], SyncLink(l, row) PROVE LinksGiven'
  BY <1>1 DEF SyncLink, LinksGiven, TypeOK
<1>2. CASE links' = links
  BY <1>2 DEF LinksGiven
<1>3. ASSUME NEW j \in Job,
             \/ RunPrediction(j) \/ PredictionFails(j) \/ Validate(j) \/ Resolve(j) \/ Verify(j)
             \/ Build(j) \/ PostAsset(j) \/ PostCauses(j) \/ Refuse(j) \/ PostFails(j) \/ Again(j)
      PROVE  links' = links
  BY <1>3 DEF RunPrediction, PredictionFails, Validate, Resolve, Verify, Build, PostAsset,
              PostCauses, Refuse, PostFails, Again, Fail
<1> QED
  BY <1>1, <1>2, <1>3 DEF Next, vars

(* No link ever goes to another asset.                                     *)
LEMMA AssetStays ==
  ASSUME TypeOK, [Next]_vars, NEW l \in Link, links[l] # None
  PROVE  links'[l] # None /\ links'[l].asset = links[l].asset
<1>1. ASSUME NEW k \in Link, NEW row \in RowsOf[k], SyncLink(k, row)
      PROVE  links'[l] # None /\ links'[l].asset = links[l].asset
  <2>1. row \in Row /\ row # None
    BY DeliveryAssumption
  <2> QED
    BY <1>1, <2>1 DEF SyncLink, MayStore, TypeOK
<1>2. ASSUME NEW j \in Job,
             \/ RunPrediction(j) \/ PredictionFails(j) \/ Validate(j) \/ Resolve(j) \/ Verify(j)
             \/ Build(j) \/ PostAsset(j) \/ PostCauses(j) \/ Refuse(j) \/ PostFails(j) \/ Again(j)
      PROVE  links' = links
  BY <1>2 DEF RunPrediction, PredictionFails, Validate, Resolve, Verify, Build, PostAsset,
              PostCauses, Refuse, PostFails, Again, Fail
<1> QED
  BY <1>1, <1>2 DEF Next, vars

-----------------------------------------------------------------------------
Resolved == {"verify", "build", "post_asset", "post_causes"}
Posting  == {"post_asset", "post_causes"}

(* What is known of the link under which the cause at i will be sent: the  *)
(* CMMS gave it this cause, it is of this asset, and it still has the      *)
(* cause unless it was moved since.                                        *)
Wanted(j, i) == [asset |-> AssetOf[j], cause |-> result[j].types[i]]

Linked(j, i) ==
  /\ resolved[j][i] \in Link
  /\ Wanted(j, i) \in RowsOf[resolved[j][i]]
  /\ links[resolved[j][i]] # None
  /\ links[resolved[j][i]].asset = AssetOf[j]
  /\ links[resolved[j][i]] = Wanted(j, i) \/ resolved[j][i] \in moved[j]

AllLinked(j) ==
  /\ DOMAIN resolved[j] = DOMAIN result[j].types
  /\ \A i \in DOMAIN result[j].types : Linked(j, i)
  /\ \A i, k \in DOMAIN result[j].types : resolved[j][i] = resolved[j][k] => i = k

(* What the worker of job j has made sure of by the time it is where it is.*)
Checked(j) ==
  /\ pc[j] \in {"resolve"} \cup Resolved => Valid(result[j])
  /\ pc[j] \in Resolved => AllLinked(j)
  /\ pc[j] \in {"build"} \cup Posting => IsStoredFor(j)
  /\ pc[j] \in Posting => CanBuild(j)

AllChecked == \A j \in Job : Checked(j)

(* The row of a prediction never changes.                                  *)
LEMMA StoredStays ==
  ASSUME TypeOK, [Next]_vars, NEW p \in Id, stored[p] # None
  PROVE  stored'[p] = stored[p]
<1> USE DEF TypeOK
<1>1. ASSUME NEW j \in Job, RunPrediction(j) PROVE stored'[p] = stored[p]
  BY <1>1 DEF RunPrediction
<1>2. ASSUME NEW j \in Job, ~RunPrediction(j),
             \/ PredictionFails(j) \/ Validate(j) \/ Resolve(j) \/ Verify(j) \/ Build(j)
             \/ PostAsset(j) \/ PostCauses(j) \/ Refuse(j) \/ PostFails(j) \/ Again(j)
      PROVE  stored'[p] = stored[p]
  BY <1>2 DEF PredictionFails, Validate, Resolve, Verify, Build, PostAsset, PostCauses, Refuse,
              PostFails, Again, Fail
<1>3. ASSUME NEW l \in Link, NEW row \in RowsOf[l], SyncLink(l, row)
      PROVE  stored'[p] = stored[p]
  BY <1>3 DEF SyncLink
<1>4. CASE UNCHANGED vars
  BY <1>4 DEF vars
<1> QED
  BY <1>1, <1>2, <1>3, <1>4 DEF Next

LEMMA StoredForStays ==
  ASSUME TypeOK, [Next]_vars, NEW j \in Job, IsStoredFor(j), result'[j] = result[j]
  PROVE  IsStoredFor(j)'
<1>1. [job |-> j, asset |-> AssetOf[j]] # None
  BY DeliveryAssumption DEF Owner
<1> QED
  BY <1>1, StoredStays DEF IsStoredFor

(* Of what the worker of job j relies on, others change only the causes of *)
(* its links, and then the link is among the moved ones.                   *)
LEMMA LinkedStays ==
  ASSUME TypeOK, [Next]_vars, NEW j \in Job, NEW i \in DOMAIN resolved[j], Linked(j, i),
         result'[j] = result[j], resolved'[j] = resolved[j],
         moved'[j] = moved[j] \/ \E l \in Link : \E row \in RowsOf[l] : SyncLink(l, row)
  PROVE  Linked(j, i)'
<1> DEFINE k == resolved[j][i]
<1>0. k \in Link /\ k \in Range(resolved[j])
  BY DEF Linked, Range
<1>1. links'[k] # None /\ links'[k].asset = AssetOf[j]
  BY <1>0, AssetStays DEF Linked
<1>2. links'[k] = links[k] /\ moved[j] \subseteq moved'[j] => Linked(j, i)'
  BY <1>1 DEF Linked, Wanted
<1>3. k \in moved'[j] => Linked(j, i)'
  BY <1>1 DEF Linked, Wanted
<1>4. ASSUME NEW l \in Link, NEW row \in RowsOf[l], SyncLink(l, row) PROVE Linked(j, i)'
  <2>1. moved[j] \subseteq moved'[j]
    BY <1>4 DEF SyncLink
  <2>2. CASE l # k
    BY <1>0, <1>2, <1>4, <2>1, <2>2 DEF SyncLink, TypeOK
  <2>3. CASE l = k /\ MovesLink(l, row)
    BY <1>0, <1>3, <1>4, <2>3 DEF SyncLink
  <2>4. CASE l = k /\ ~MovesLink(l, row)
    <3>1. links[k] \in Row /\ row \in Row
      BY <1>0, <2>4, DeliveryAssumption DEF Linked, TypeOK
    <3>2. row.asset = links[k].asset /\ row.cause = links[k].cause
      BY <1>4, <2>4 DEF SyncLink, MayStore, MovesLink, Linked
    <3>3. row = links[k]
      BY <3>1, <3>2 DEF Row
    <3>4. links'[k] = row
      BY <1>0, <1>4, <2>4 DEF SyncLink, TypeOK
    <3> QED
      BY <1>2, <2>1, <3>3, <3>4
  <2> QED
    BY <2>2, <2>3, <2>4
<1>5. ASSUME moved'[j] = moved[j], links' = links PROVE Linked(j, i)'
  BY <1>2, <1>5
<1>6. ASSUME NEW h \in Job,
             \/ RunPrediction(h) \/ PredictionFails(h) \/ Validate(h) \/ Resolve(h) \/ Verify(h)
             \/ Build(h) \/ PostAsset(h) \/ PostCauses(h) \/ Refuse(h) \/ PostFails(h) \/ Again(h)
      PROVE  links' = links
  BY <1>6 DEF RunPrediction, PredictionFails, Validate, Resolve, Verify, Build, PostAsset,
              PostCauses, Refuse, PostFails, Again, Fail
<1> QED
  BY <1>4, <1>5, <1>6 DEF Next, vars

LEMMA AllLinkedStays ==
  ASSUME TypeOK, [Next]_vars, NEW j \in Job, AllLinked(j),
         result'[j] = result[j], resolved'[j] = resolved[j],
         moved'[j] = moved[j] \/ \E l \in Link : \E row \in RowsOf[l] : SyncLink(l, row)
  PROVE  AllLinked(j)'
<1>1. \A i \in DOMAIN result[j].types : Linked(j, i)'
  BY LinkedStays DEF AllLinked
<1> QED
  BY <1>1 DEF AllLinked

LEMMA OthersStay ==
  ASSUME TypeOK, [Next]_vars, NEW j \in Job, Checked(j),
         pc'[j] = pc[j], result'[j] = result[j], resolved'[j] = resolved[j],
         moved'[j] = moved[j] \/ \E l \in Link : \E row \in RowsOf[l] : SyncLink(l, row)
  PROVE  Checked(j)'
<1>1. IsStoredFor(j) => IsStoredFor(j)'
  BY StoredForStays
<1>2. CanBuild(j) => CanBuild(j)'
  BY DEF CanBuild, AcceptsAsset, AcceptsCauses
<1>3. AllLinked(j) => AllLinked(j)'
  BY AllLinkedStays
<1>4. Valid(result[j]) => Valid(result[j])'
  BY DEF Valid, IsProbability
<1> QED
  BY <1>1, <1>2, <1>3, <1>4 DEF Checked

LEMMA CheckedStep ==
  ASSUME TypeOK, [Next]_vars, LinksGiven, AllChecked
  PROVE  AllChecked'
<1> SUFFICES ASSUME NEW j \in Job PROVE Checked(j)'
  BY DEF AllChecked
<1>c. Checked(j)
  BY DEF AllChecked
<1> DEFINE Same ==
      /\ pc'[j] = pc[j] /\ result'[j] = result[j] /\ resolved'[j] = resolved[j]
      /\ moved'[j] = moved[j] \/ \E l \in Link : \E row \in RowsOf[l] : SyncLink(l, row)
<1> USE DEF Resolved, Posting
<1>1. CASE Same
  BY <1>1, <1>c, OthersStay
<1>2. CASE pc'[j] \in {"synced", "validate", "done", "error"}
  BY <1>2 DEF Checked
<1>3. CASE Validate(j)
  BY <1>3 DEF Validate, Goto, Checked, TypeOK, Valid, IsProbability
<1>4. CASE Resolve(j)
  <2>1. result[j] \in Results /\ result[j].types \in Seq(Int)
    BY <1>4, DeliveryAssumption DEF Resolve, Result, TypeOK
  <2> DEFINE res == Resolution(AssetOf[j], result[j].types)
             cause(i) == result[j].types[i]
  <2>2. /\ DOMAIN res = DOMAIN result[j].types
        /\ \A i \in DOMAIN result[j].types :
             res[i] \in Link /\ links[res[i]] = [asset |-> AssetOf[j], cause |-> cause(i)]
    BY <1>4, <2>1, ResolutionOf DEF Resolve
  <2>3. /\ pc'[j] = "verify" /\ result' = result /\ links' = links
        /\ resolved'[j] = res
    BY <1>4 DEF Resolve, Goto, TypeOK
  <2>4. Valid(result[j])
    BY <1>4, <1>c DEF Resolve, Checked
  <2> HIDE DEF res
  <2>5. ASSUME NEW i \in DOMAIN result[j].types PROVE Linked(j, i)'
    <3>1. res[i] \in Link /\ links[res[i]] = Wanted(j, i)
      BY <2>2 DEF Wanted
    <3>2. Wanted(j, i) # None /\ Wanted(j, i).asset = AssetOf[j]
      BY <3>1, <2>4, <2>1, DeliveryAssumption DEF Wanted, Row, Valid
    <3>3. Wanted(j, i) \in RowsOf[res[i]]
      BY <3>1, <3>2 DEF LinksGiven
    <3>4. Wanted(j, i)' = Wanted(j, i)
      BY <2>3 DEF Wanted
    <3> QED
      BY <2>3, <3>1, <3>2, <3>3, <3>4 DEF Linked
  <2>6. ASSUME NEW i \in DOMAIN result[j].types, NEW k \in DOMAIN result[j].types, res[i] = res[k]
        PROVE  i = k
    <3>1. [asset |-> AssetOf[j], cause |-> cause(i)] = [asset |-> AssetOf[j], cause |-> cause(k)]
      BY <2>2, <2>6
    <3>2. result[j].types[i] = result[j].types[k]
      BY <3>1
    <3> QED
      BY <2>4, <3>2 DEF Valid
  <2>7. AllLinked(j)'
    BY <2>2, <2>3, <2>5, <2>6 DEF AllLinked
  <2> QED
    BY <2>3, <2>4, <2>7 DEF Checked, Valid, IsProbability
<1>5. CASE Verify(j)
  <2>1. /\ pc'[j] = "build" /\ result' = result /\ resolved' = resolved
        /\ moved' = moved
    BY <1>5 DEF Verify, Goto, TypeOK
  <2>2. IsStoredFor(j)'
    BY <1>5, <2>1, StoredForStays DEF Verify
  <2>3. AllLinked(j)'
    BY <1>5, <1>c, <2>1, AllLinkedStays DEF Verify, Checked
  <2> QED
    BY <1>5, <1>c, <2>1, <2>2, <2>3 DEF Verify, Checked, Valid, IsProbability
<1>6. CASE Build(j)
  <2>1. /\ pc'[j] = "post_asset" /\ result' = result /\ resolved' = resolved
        /\ moved' = moved
    BY <1>6 DEF Build, Goto, TypeOK
  <2>2. IsStoredFor(j)'
    BY <1>6, <1>c, <2>1, StoredForStays DEF Build, Checked
  <2>3. CanBuild(j)'
    BY <1>6, <2>1 DEF Build, CanBuild, AcceptsAsset, AcceptsCauses
  <2>4. AllLinked(j)'
    BY <1>6, <1>c, <2>1, AllLinkedStays DEF Build, Checked
  <2> QED
    BY <1>6, <1>c, <2>1, <2>2, <2>3, <2>4 DEF Build, Checked, Valid, IsProbability
<1>7. CASE PostAsset(j)
  <2>1. /\ pc'[j] = "post_causes" /\ result' = result /\ resolved' = resolved
        /\ moved' = moved
    BY <1>7 DEF PostAsset, Goto, TypeOK
  <2>2. IsStoredFor(j)'
    BY <1>7, <1>c, <2>1, StoredForStays DEF PostAsset, Checked
  <2>3. CanBuild(j)'
    BY <1>7, <1>c, <2>1 DEF PostAsset, Checked, CanBuild, AcceptsAsset, AcceptsCauses
  <2>4. AllLinked(j)'
    BY <1>7, <1>c, <2>1, AllLinkedStays DEF PostAsset, Checked
  <2> QED
    BY <1>7, <1>c, <2>1, <2>2, <2>3, <2>4 DEF PostAsset, Checked, Valid, IsProbability
<1>8. ASSUME NEW k \in Job, k # j,
             \/ RunPrediction(k) \/ PredictionFails(k) \/ Validate(k) \/ Resolve(k) \/ Verify(k)
             \/ Build(k) \/ PostAsset(k) \/ PostCauses(k) \/ Refuse(k) \/ PostFails(k) \/ Again(k)
      PROVE  Same
  BY <1>8 DEF TypeOK, RunPrediction, PredictionFails, Validate, Resolve, Verify, Build, PostAsset,
              PostCauses, Refuse, PostFails, Again, Goto, Fail, Forget
<1>9. CASE \/ RunPrediction(j) \/ PredictionFails(j) \/ PostCauses(j) \/ Refuse(j)
           \/ PostFails(j) \/ Again(j)
  <2>1. pc'[j] \in {"synced", "validate", "done", "error"}
    BY <1>9 DEF TypeOK, RunPrediction, PredictionFails, PostCauses, Refuse, PostFails, Again,
                Goto, Fail
  <2> QED
    BY <2>1, <1>2
<1>10. CASE UNCHANGED vars \/ \E l \in Link : \E row \in RowsOf[l] : SyncLink(l, row)
  <2>1. Same
    BY <1>10 DEF vars, SyncLink
  <2> QED
    BY <2>1, <1>1
<1> QED
  BY <1>1, <1>3, <1>4, <1>5, <1>6, <1>7, <1>8, <1>9, <1>10 DEF Next

-----------------------------------------------------------------------------
(* What reaches the CMMS is a payload of a job that has come so far.       *)
LEMMA NewMessage ==
  ASSUME TypeOK, [Next]_vars, NEW m \in received'
  PROVE  \/ m \in received
         \/ \E j \in Job : pc[j] = "post_asset" /\ m = AssetPayload(j)
         \/ \E j \in Job : pc[j] = "post_causes" /\ m = CausePayload(j)
<1> DEFINE Goal == \/ m \in received
                   \/ \E j \in Job : pc[j] = "post_asset" /\ m = AssetPayload(j)
                   \/ \E j \in Job : pc[j] = "post_causes" /\ m = CausePayload(j)
<1>1. ASSUME NEW j \in Job, PostAsset(j) \/ PostCauses(j) \/ PostFails(j) PROVE Goal
  BY <1>1 DEF PostAsset, PostCauses, PostFails
<1>2. ASSUME NEW j \in Job,
             \/ RunPrediction(j) \/ PredictionFails(j) \/ Validate(j) \/ Resolve(j) \/ Verify(j)
             \/ Build(j) \/ Refuse(j) \/ Again(j)
      PROVE  Goal
  BY <1>2 DEF RunPrediction, PredictionFails, Validate, Resolve, Verify, Build, Refuse, Again, Fail
<1>3. CASE UNCHANGED vars \/ \E l \in Link : \E row \in RowsOf[l] : SyncLink(l, row)
  BY <1>3 DEF vars, SyncLink
<1> QED
  BY <1>1, <1>2, <1>3 DEF Next

(* CausesArePredicted and NoHalfPrediction say of one message:             *)
CausesPredicted(m) ==
  LET r == m.of.result
      a == AssetOf[m.of.job] IN
  /\ m.id \in Id /\ stored[m.id] = [job |-> m.of.job, asset |-> a]
  /\ Len(m.items) = Len(r.types)
  /\ \A i \in DOMAIN m.items :
       /\ m.items[i].probability = r.probs[i]
       /\ [asset |-> a, cause |-> r.types[i]] \in RowsOf[m.items[i].link]
       /\ links[m.items[i].link] # None /\ links[m.items[i].link].asset = a
  /\ \A i, k \in DOMAIN m.items : m.items[i].link = m.items[k].link => i = k

WholePrediction(m) ==
  /\ \A i \in DOMAIN m.of.result.probs : m.of.result.probs[i] \in 0..990
  /\ m.id \in Id /\ stored[m.id] # None /\ stored[m.id].asset = m.asset

LEMMA CausesSent ==
  ASSUME TypeOK, NEW j \in Job, Checked(j), pc[j] = "post_causes", NEW m, m = CausePayload(j)
  PROVE  /\ m.of.job \in Job
         /\ \A i \in DOMAIN m.items : m.items[i].link \in Link
         /\ CausesPredicted(m)
         /\ CurrentBut(m, moved[m.of.job])
<1> DEFINE r == result[j]
           items == [i \in DOMAIN resolved[j] |->
                       [link |-> resolved[j][i], probability |-> r.probs[i]]]
<1>1. m.of.job = j /\ m.of.result = r /\ m.id = r.id /\ m.items = items
  BY DEF CausePayload, Origin
<1>2. r.types \in Seq(Int)
  BY DeliveryAssumption DEF TypeOK, Result
<1>3. AllLinked(j) /\ IsStoredFor(j)
  BY DEF Checked, Resolved, Posting
<1>4. DOMAIN resolved[j] = DOMAIN r.types /\ DOMAIN r.types = 1..Len(r.types) /\ Len(r.types) \in Nat
  BY <1>2, <1>3, LenProperties DEF AllLinked
<1>5. m.id \in Id /\ stored[m.id] = [job |-> j, asset |-> AssetOf[j]]
  BY <1>1, <1>3 DEF IsStoredFor
<1>6. Len(items) = Len(r.types)
  BY <1>4
<1>7. \A i \in DOMAIN items : items[i].probability = r.probs[i] /\ items[i].link = resolved[j][i]
  OBVIOUS
<1>8. \A i \in DOMAIN items : Linked(j, i)
  BY <1>3, <1>4 DEF AllLinked
<1>9. \A i, k \in DOMAIN items : items[i].link = items[k].link => i = k
  BY <1>3, <1>4 DEF AllLinked
<1> HIDE DEF items
<1>10. CausesPredicted(m)
  <2>1. ASSUME NEW i \in DOMAIN items
        PROVE  /\ [asset |-> AssetOf[j], cause |-> r.types[i]] \in RowsOf[items[i].link]
               /\ links[items[i].link] # None /\ links[items[i].link].asset = AssetOf[j]
    BY <1>7, <1>8 DEF Linked, Wanted
  <2> HIDE DEF r
  <2> QED
    BY <1>1, <1>5, <1>6, <1>7, <1>9, <2>1 DEF CausesPredicted
<1>11. CurrentBut(m, moved[m.of.job])
  BY <1>1, <1>7, <1>8 DEF CurrentBut, Linked, Wanted
<1>12. \A i \in DOMAIN m.items : m.items[i].link \in Link
  BY <1>1, <1>7, <1>8 DEF Linked
<1> QED
  BY <1>1, <1>10, <1>11, <1>12

LEMMA AssetSent ==
  ASSUME TypeOK, NEW j \in Job, Checked(j), pc[j] = "post_asset", NEW m, m = AssetPayload(j)
  PROVE  WholePrediction(m)
<1>1. m.of.result = result[j] /\ m.id = result[j].id /\ m.asset = AssetOf[j]
  BY DEF AssetPayload, Origin
<1>2. CanBuild(j) /\ IsStoredFor(j)
  BY DEF Checked, Posting
<1>3. [job |-> j, asset |-> AssetOf[j]] # None
  BY DeliveryAssumption DEF Owner
<1> QED
  BY <1>1, <1>2, <1>3 DEF CanBuild, AcceptsCauses, IsStoredFor, WholePrediction

(* What the CMMS has received of each kind.                                *)
CausesReceived(m) ==
  /\ m.of.job \in Job
  /\ \A i \in DOMAIN m.items : m.items[i].link \in Link
  /\ CausesPredicted(m)

(* An invariant: the table has what the CMMS gave, all checks are behind   *)
(* the worker, and what has been sent is as it should be.                  *)
DeliveryInv ==
  /\ TypeOK
  /\ LinksGiven
  /\ AllChecked
  /\ \A m \in received : m.kind = "causes" => CausesReceived(m)
  /\ \A m \in received : m.kind = "asset" => WholePrediction(m)

LEMMA ReceivedStays ==
  ASSUME TypeOK, [Next]_vars, NEW m, CausesReceived(m)
  PROVE  CausesReceived(m)'
<1>1. [job |-> m.of.job, asset |-> AssetOf[m.of.job]] # None
  BY DeliveryAssumption DEF CausesReceived, Owner
<1>2. stored'[m.id] = stored[m.id]
  BY <1>1, StoredStays DEF CausesReceived, CausesPredicted
<1>3. ASSUME NEW i \in DOMAIN m.items
      PROVE  links'[m.items[i].link] # None /\ links'[m.items[i].link].asset = AssetOf[m.of.job]
  BY AssetStays DEF CausesReceived, CausesPredicted
<1> QED
  BY <1>2, <1>3 DEF CausesReceived, CausesPredicted

LEMMA DeliveryStep == DeliveryInv /\ [Next]_vars => DeliveryInv'
<1> SUFFICES ASSUME DeliveryInv, [Next]_vars PROVE DeliveryInv'
  OBVIOUS
<1>1. TypeOK' /\ LinksGiven' /\ AllChecked'
  BY Typing, GivenStep, CheckedStep DEF DeliveryInv
<1>2. ASSUME NEW m, WholePrediction(m) PROVE WholePrediction(m)'
  <2>1. stored'[m.id] = stored[m.id]
    BY <1>2, StoredStays DEF DeliveryInv, WholePrediction
  <2> QED
    BY <1>2, <2>1 DEF WholePrediction
<1>3. ASSUME NEW m \in received', m.kind = "causes" PROVE CausesReceived(m)'
  <2>1. CASE m \in received
    BY <1>3, <2>1, ReceivedStays DEF DeliveryInv
  <2>2. ASSUME NEW j \in Job, pc[j] = "post_causes", m = CausePayload(j)
        PROVE  CausesReceived(m)
    BY <2>2, CausesSent DEF DeliveryInv, AllChecked, CausesReceived
  <2>3. ASSUME NEW j \in Job, m = AssetPayload(j) PROVE FALSE
    BY <1>3, <2>3 DEF AssetPayload
  <2> QED
    BY <1>3, <2>1, <2>2, <2>3, NewMessage, ReceivedStays DEF DeliveryInv
<1>4. ASSUME NEW m \in received', m.kind = "asset" PROVE WholePrediction(m)'
  <2>1. CASE m \in received
    BY <1>2, <1>4, <2>1 DEF DeliveryInv
  <2>2. ASSUME NEW j \in Job, pc[j] = "post_asset", m = AssetPayload(j) PROVE WholePrediction(m)
    BY <2>2, AssetSent DEF DeliveryInv, AllChecked
  <2>3. ASSUME NEW j \in Job, m = CausePayload(j) PROVE FALSE
    BY <1>4, <2>3 DEF CausePayload
  <2> QED
    BY <1>2, <1>4, <2>1, <2>2, <2>3, NewMessage DEF DeliveryInv
<1> QED
  BY <1>1, <1>3, <1>4 DEF DeliveryInv

LEMMA DeliveryInit == Init => DeliveryInv
  BY TypeInit DEF Init, DeliveryInv, LinksGiven, AllChecked, Checked, Resolved, Posting

(* Whatever run_prediction returns, whichever causes other workers store   *)
(* or move meanwhile and however often a job is repeated: the CMMS         *)
(* receives the causes of a stored prediction of that job, in their order, *)
(* each under a link of its own which is of that asset and which it gave   *)
(* that cause (resolve_asset_failurecause_ids, verify_stored_prediction,   *)
(* ensure_asset_failure_type).                                             *)
THEOREM Faithful == Spec => []CausesArePredicted
<1>1. DeliveryInv => CausesArePredicted
  BY DEF DeliveryInv, CausesArePredicted, CausesReceived, CausesPredicted
<1> QED
  BY <1>1, DeliveryInit, DeliveryStep, PTL DEF Spec

(* When the CMMS has the reliability of an asset, the failure causes of    *)
(* that prediction can be sent too, and it is stored for that asset:       *)
(* process_job builds both payloads before the first POST.                 *)
THEOREM Whole == Spec => []NoHalfPrediction
<1>1. DeliveryInv => NoHalfPrediction
  BY DEF DeliveryInv, NoHalfPrediction, WholePrediction
<1> QED
  BY <1>1, DeliveryInit, DeliveryStep, PTL DEF Spec

-----------------------------------------------------------------------------
(* The causes that a step sends are those of a worker at its second POST.  *)
LEMMA CausesJustSent ==
  ASSUME DeliveryInv, [Next]_vars, NEW m \in received' \ received, m.kind = "causes"
  PROVE  CausesReceived(m) /\ CurrentBut(m, moved[m.of.job])
<1>1. ASSUME NEW j \in Job, pc[j] = "post_causes", m = CausePayload(j)
      PROVE  CausesReceived(m) /\ CurrentBut(m, moved[m.of.job])
  BY <1>1, CausesSent DEF DeliveryInv, AllChecked, CausesReceived
<1>2. ASSUME NEW j \in Job, m = AssetPayload(j) PROVE FALSE
  BY <1>2 DEF AssetPayload
<1> QED
  BY <1>1, <1>2, NewMessage DEF DeliveryInv

(* A cause is sent under the link that is its row at that moment, unless a *)
(* synchronisation has moved the link between the look-up and the POST of  *)
(* the same attempt: no earlier move, of an earlier attempt or before the  *)
(* look-up, reaches the CMMS.                                              *)
THEOREM Timely == Spec => OnlyMovedAreStale
<1>1. DeliveryInv /\ [Next]_vars =>
        [\A m \in received' \ received :
           m.kind = "causes" => CurrentBut(m, moved[m.of.job])]_vars
  BY CausesJustSent
<1> QED
  BY <1>1, DeliveryInit, DeliveryStep, PTL DEF Spec, OnlyMovedAreStale

(* The CMMS never gives a link that it has given to a cause to another.    *)
LinksStay == \A l \in Link : \A x, y \in RowsOf[l] : x = y

(* If links stay with their causes, every cause is sent under the link     *)
(* that is its row at that moment: the UPDATE in ensure_asset_failure_type *)
(* is all that can come between the look-up and the POST.                  *)
THEOREM Current == LinksStay => (Spec => CausesAreCurrent)
<1> SUFFICES ASSUME LinksStay PROVE Spec => CausesAreCurrent
  OBVIOUS
<1>1. ASSUME DeliveryInv, [Next]_vars, NEW m \in received' \ received, m.kind = "causes"
      PROVE  CurrentBut(m, {})
  <2>1. CausesReceived(m)
    BY <1>1, CausesJustSent
  <2>2. ASSUME NEW i \in DOMAIN m.items
        PROVE  links[m.items[i].link] = [asset |-> AssetOf[m.of.job], cause |-> m.of.result.types[i]]
    BY <1>1, <2>1, <2>2 DEF CausesReceived, CausesPredicted, LinksStay, LinksGiven, DeliveryInv
  <2> QED
    BY <2>2 DEF CurrentBut
<1>2. DeliveryInv /\ [Next]_vars =>
        [\A m \in received' \ received : m.kind = "causes" => CurrentBut(m, {})]_vars
  BY <1>1
<1> QED
  BY <1>2, DeliveryInit, DeliveryStep, PTL DEF Spec, CausesAreCurrent
=============================================================================
