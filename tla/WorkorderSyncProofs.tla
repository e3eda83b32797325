--------------------------- MODULE WorkorderSyncProofs ---------------------------
(***************************************************************************)
(* Theorems about WorkorderSync, for all work orders, answers of the CMMS  *)
(* and numbers of workers: types, one worksheet per work order, exactly    *)
(* the operations that were received, worksheets that keep their failure   *)
(* type, and the atomicity that WorkorderStore states.                     *)
(***************************************************************************)
EXTENDS WorkorderSync, FiniteSetTheorems, SequenceTheorems, TLAPS

-----------------------------------------------------------------------------
(* The places of an operation in an answer are finitely many.              *)
LEMMA PlacesFinite ==
  ASSUME NEW ans \in Seq(Item), NEW p
  PROVE  IsFiniteSet(Places(ans, p))
<1> DEFINE At(i) == {<<i, k>> : k \in {n \in DOMAIN ans[i].ops : ans[i].ops[n] = p}}
           f == [i \in DOMAIN ans |-> At(i)]
           S == {At(i) : i \in DOMAIN ans}
<1>1. DOMAIN ans = 1..Len(ans) /\ Len(ans) \in Nat
  BY LenProperties
<1>2. IsFiniteSet(DOMAIN ans)
  BY <1>1, FS_Interval
<1>3. IsFiniteSet(S)
  <2>1. f \in Surjection(DOMAIN ans, S)
    BY DEF Surjection
  <2> QED
    BY <1>2, <2>1, FS_Surjection
<1>4. ASSUME NEW i \in DOMAIN ans PROVE IsFiniteSet(At(i))
  <2> DEFINE D == {n \in DOMAIN ans[i].ops : ans[i].ops[n] = p}
             g == [k \in D |-> <<i, k>>]
  <2>0. ans[i] \in Item
    BY <1>1, ElementOfSeq
  <2>1. ans[i].ops \in Seq(Operation)
    BY <2>0 DEF Item
  <2>2. DOMAIN ans[i].ops = 1..Len(ans[i].ops) /\ Len(ans[i].ops) \in Nat
    BY <2>1, LenProperties
  <2>a. IsFiniteSet(DOMAIN ans[i].ops)
    BY <2>2, FS_Interval
  <2>b. D \in SUBSET DOMAIN ans[i].ops
    OBVIOUS
  <2>3. IsFiniteSet(D)
    BY <2>a, <2>b, FS_Subset
  <2>4. g \in Surjection(D, At(i))
    BY DEF Surjection
  <2> QED
    BY <2>3, <2>4, FS_Surjection
<1> HIDE DEF At
<1>5. IsFiniteSet(UNION S)
  BY <1>3, <1>4, FS_UNION
<1> QED
  BY <1>5 DEF Places, At

LEMMA ReceivedType ==
  ASSUME NEW ans \in Seq(Item)
  PROVE  Received(ans) \in [Operation -> Nat]
BY PlacesFinite, FS_CardinalityType DEF Received

-----------------------------------------------------------------------------
Looping == {"find_type", "put_type", "find_link", "put_link", "leak"}

(* What a worker has in its variables, by where it is: a work order and an *)
(* answer to it, a failure cause of it, a link that passed the checks and  *)
(* is still there, a worksheet.                                            *)
LocalOK(w) ==
  /\ pc[w] \in {"idle", "find_asset", "add_asset"} => item[w] = 1
  /\ pc[w] # "idle" => /\ order[w] \in Orders
                       /\ answer[w] \in Answers[order[w].asset]
                       /\ WellFormed(answer[w])
  /\ pc[w] \in Looping => item[w] \in DOMAIN answer[w]
  /\ pc[w] \in {"put_link", "leak"} =>
       /\ ~RefusedRate(w)
       /\ seenLink[w] # None => LinkOf(w, Current(w).link) # None
  /\ pc[w] \in {"store_ops", "commit"} => sheet[w] \in SheetNo
  /\ pc[w] = "synced" => /\ sheet[w] = None /\ newSheet[w] = None
                         /\ Locked(w) = {} /\ added[w] = Nothing

TypeInv == TypeOK /\ \A w \in Worker : LocalOK(w)

LEMMA CurrentItem ==
  ASSUME TypeOK, NEW w \in Worker, LocalOK(w), pc[w] \in Looping
  PROVE  /\ Current(w) \in Item
         /\ item[w] \in 1..Len(answer[w]) /\ Len(answer[w]) \in Nat
<1>1. answer[w] \in Seq(Item) /\ item[w] \in DOMAIN answer[w]
  BY DEF TypeOK, LocalOK
<1>2. item[w] \in 1..Len(answer[w]) /\ Len(answer[w]) \in Nat
  BY <1>1, LenProperties
<1> QED
  BY <1>1, <1>2, ElementOfSeq DEF Current

(* The row that PutLink writes.                                            *)
LEMMA NewLinkType ==
  ASSUME TypeOK, NEW w \in Worker, LocalOK(w), pc[w] \in {"put_link", "leak"}
  PROVE  /\ Current(w).link \in Link
         /\ NewLink(w) \in LinkRow
         /\ LinksAfterPut(w) \in [Link -> LinkRow \cup {None}]
<1>1. Current(w) \in Item /\ NewRate(w) \in 0..MaxRate /\ order[w].asset \in Asset
  <2>1. Current(w) \in Item
    BY CurrentItem DEF Looping
  <2>2. order[w].asset \in Asset
    BY DataAssumption DEF LocalOK, Order
  <2>3. CASE Current(w).overflow # "rate"
    <3>1. ~(Current(w).rate > MaxRate)
      BY <2>3 DEF LocalOK, RefusedRate
    <3>2. Current(w).rate \in Nat
      BY <2>1 DEF Item
    <3> QED
      BY <2>1, <2>2, <2>3, <3>1, <3>2 DEF NewRate, MaxRate
  <2>4. CASE Current(w).overflow = "rate"
    <3>1. seenLink[w] # None => seenLink[w].rate \in 0..MaxRate
      BY DEF TypeOK, LinkRow
    <3>2. 0 \in 0..MaxRate
      BY DEF MaxRate
    <3> QED
      BY <2>1, <2>2, <2>4, <3>1, <3>2 DEF NewRate
  <2> QED
    BY <2>3, <2>4
<1>2. Current(w).link \in Link /\ Current(w).cause \in Cause
  BY <1>1 DEF Item
<1>3. NewLink(w) \in LinkRow
  <2>1. CASE seenLink[w] = None
    BY <1>1, <1>2, <2>1 DEF NewLink, LinkRow
  <2>2. CASE seenLink[w] # None
    <3>1. LinkOf(w, Current(w).link) \in LinkRow
      BY <1>2, <2>2 DEF LinkOf, LocalOK, TypeOK
    <3> QED
      BY <1>1, <1>2, <2>2, <3>1 DEF NewLink, LinkRow
  <2> QED
    BY <2>1, <2>2
<1> QED
  BY <1>2, <1>3 DEF LinksAfterPut, TypeOK

LEMMA TypeInit == Init => TypeInv
<1> SUFFICES ASSUME Init PROVE TypeInv
  OBVIOUS
<1>1. <<>> \in Seq(Item)
  BY EmptySeq
<1>2. TypeOK
  BY <1>1 DEF Init, TypeOK, NoRows, Nothing, Locked, Known
<1>3. \A w \in Worker : LocalOK(w)
  BY DEF Init, LocalOK, Looping
<1> QED
  BY <1>2, <1>3 DEF TypeInv


(* A transaction that ends, whatever it leaves in the tables.              *)
LEMMA TypeEnded ==
  ASSUME TypeOK, NEW w \in Worker, EndTransaction(w), Leave(w),
         assets' \subseteq Asset, types' \in [Cause -> Code \cup {None}],
         links' \in [Link -> LinkRow \cup {None}],
         sheets' \in [SheetNo -> SheetRow \cup {None}],
         ops' \in [SheetNo -> [Operation -> Nat]]
  PROVE  TypeOK'
<1>1. <<>> \in Seq(Item)
  BY EmptySeq
<1>2. NoRows(Cause) \in [Cause -> Code \cup {None}] /\ NoRows(Link) \in [Link -> LinkRow \cup {None}]
  BY DEF NoRows
<1>3. Nothing \in [Operation -> Nat]
  BY DEF Nothing
<1>4. ASSUME NEW v \in Worker, pc'[v] = "idle"
      PROVE  /\ order'[v] = None /\ sheet'[v] = None /\ newSheet'[v] = None
             /\ Locked(v)' = {} /\ added'[v] = Nothing
  <2>1. CASE v = w
    BY <2>1 DEF TypeOK, EndTransaction, Leave, Goto, Locked, Known, NoRows
  <2>2. CASE v # w
    BY <1>4, <2>2 DEF TypeOK, EndTransaction, Leave, Goto, Locked, Known
  <2> QED
    BY <2>1, <2>2
<1> QED
  BY <1>1, <1>2, <1>3, <1>4 DEF TypeOK, EndTransaction, Leave, Goto

LEMMA TypeMerged ==
  ASSUME TypeOK, NEW w \in Worker, NEW rows \in [Link -> LinkRow \cup {None}]
  PROVE  /\ assets \cup newAssets[w] \subseteq Asset
         /\ Merged(types, newTypes[w]) \in [Cause -> Code \cup {None}]
         /\ Merged(links, rows) \in [Link -> LinkRow \cup {None}]
BY DEF TypeOK, Merged

LEMMA TypeRollback ==
  ASSUME TypeOK, NEW w \in Worker, Rollback(w)
  PROVE  TypeOK'
BY TypeEnded DEF TypeOK, Rollback, dbVars

LEMMA MissingType ==
  ASSUME TypeOK, NEW w \in Worker, LocalOK(w), pc[w] = "store_ops", ~RefusedOps(w)
  PROVE  /\ Missing(w) \in [Operation -> Nat]
         /\ sheet[w] \in SheetNo
<1>1. sheet[w] \in SheetNo /\ ops[sheet[w]] \in [Operation -> Nat]
  BY DEF TypeOK, LocalOK
<1>2. Received(answer[w]) \in [Operation -> Nat]
  BY ReceivedType DEF TypeOK
<1>3. \A p \in Operation : ops[sheet[w]][p] <= Received(answer[w])[p]
  BY <1>1, <1>2 DEF RefusedOps
<1> QED
  BY <1>1, <1>2, <1>3 DEF Missing

LEMMA TargetsType ==
  ASSUME TypeOK, NEW w \in Worker
  PROVE  Targets(order[w], answer[w]) \subseteq Link \cup {None}
<1>1. answer[w] \in Seq(Item)
  BY DEF TypeOK
<1>2. \A i \in DOMAIN answer[w] : answer[w][i] \in Item
  <2>1. DOMAIN answer[w] = 1..Len(answer[w])
    BY <1>1, LenProperties
  <2> QED
    BY <1>1, <2>1, ElementOfSeq
<1> QED
  BY <1>2 DEF Targets, Item

LEMMA TypingStep ==
  ASSUME TypeInv, [Next]_vars
  PROVE  TypeOK'
<1> USE DEF dbVars, txVars, localVars, seen
<1>t. TypeOK /\ \A w \in Worker : LocalOK(w)
  BY DEF TypeInv
<1>1. CASE UNCHANGED vars
  BY <1>t, <1>1 DEF vars, TypeOK, Locked, Known
<1>2. ASSUME NEW w \in Worker, Fetch(w) PROVE TypeOK'
  <2>1. PICK o \in Orders : \E ans \in Answers[o.asset] :
          answer' = [answer EXCEPT ![w] = ans] /\ order' = [order EXCEPT ![w] = o]
    BY <1>2 DEF Fetch
  <2>2. o.asset \in Asset
    BY DataAssumption DEF Order
  <2>3. PICK ans \in Seq(Item) : answer' = [answer EXCEPT ![w] = ans]
    BY <2>1, <2>2, DataAssumption
  <2> QED
    BY <1>t, <1>2, <2>1, <2>3 DEF Fetch, Goto, TypeOK, Locked, Known
<1>3. ASSUME NEW w \in Worker, FindAsset(w) PROVE TypeOK'
  BY <1>t, <1>3 DEF FindAsset, Goto, AfterAsset, TypeOK, Locked, Known
<1>4. ASSUME NEW w \in Worker, AddAsset(w) PROVE TypeOK'
  <2>1. order[w].asset \in Asset
    BY <1>4, DataAssumption DEF AddAsset, TypeInv, LocalOK, Order
  <2> QED
    BY <1>t, <1>4, <2>1 DEF AddAsset, Goto, AfterAsset, TypeOK, Locked, Known
<1>5. ASSUME NEW w \in Worker, FindType(w) PROVE TypeOK'
  <2>1. Current(w) \in Item
    BY <1>t, <1>5, CurrentItem DEF FindType, Looping
  <2>2. TypeOf(w, Current(w).cause) \in Code \cup {None}
    BY <1>t, <2>1 DEF TypeOf, Item, TypeOK
  <2> QED
    BY <1>t, <1>5, <2>2 DEF FindType, Goto, TypeOK, Locked, Known
<1>6. ASSUME NEW w \in Worker, PutType(w) PROVE TypeOK'
  <2>1. Current(w) \in Item
    BY <1>t, <1>6, CurrentItem DEF PutType, Looping
  <2>2. Current(w).code \in Code /\ Current(w).cause \in Cause
    BY <2>1 DEF Item
  <2>3. newTypes' \in [Worker -> [Cause -> Code \cup {None}]]
    BY <1>t, <1>6, <2>2 DEF PutType, TypeOK
  <2>4. \A v \in Worker \ {w} : newTypes'[v] = newTypes[v]
    BY <1>t, <1>6 DEF PutType, TypeOK
  <2> QED
    BY <1>t, <1>6, <2>3, <2>4 DEF PutType, Goto, TypeOK, Locked, Known
<1>7. ASSUME NEW w \in Worker, FindLink(w) PROVE TypeOK'
  <2>1. Current(w) \in Item
    BY <1>t, <1>7, CurrentItem DEF FindLink, Looping
  <2>2. LinkOf(w, Current(w).link) \in LinkRow \cup {None}
    BY <1>t, <2>1 DEF LinkOf, Item, TypeOK
  <2> QED
    BY <1>t, <1>7, <2>2 DEF FindLink, Goto, TypeOK, Locked, Known
<1>8. ASSUME NEW w \in Worker, PutLink(w) PROVE TypeOK'
  <2>1. LinksAfterPut(w) \in [Link -> LinkRow \cup {None}]
    BY <1>t, <1>8, NewLinkType DEF PutLink
  <2>2. item'[w] \in Nat \ {0} /\ item' \in [Worker -> Nat \ {0}]
    BY <1>t, <1>8 DEF PutLink, TypeOK
  <2> QED
    BY <1>t, <1>8, <2>1, <2>2 DEF PutLink, Goto, TypeOK, Locked, Known
<1>9. ASSUME NEW w \in Worker, Leak(w) PROVE TypeOK'
  <2>1. LeakedLinks(w) \in [Link -> LinkRow \cup {None}]
    BY <1>t, <1>9, NewLinkType DEF LeakedLinks, TypeOK
  <2>2. /\ assets' \subseteq Asset /\ types' \in [Cause -> Code \cup {None}]
        /\ links' \in [Link -> LinkRow \cup {None}]
    BY <1>t, <1>9, <2>1, TypeMerged DEF Leak
  <2> QED
    BY <1>t, <1>9, <2>2, TypeEnded DEF Leak, TypeOK
<1>10. ASSUME NEW w \in Worker, FindSheet(w) PROVE TypeOK'
  BY <1>t, <1>10 DEF FindSheet, Matching, Goto, TypeOK, Locked, Known
<1>11. ASSUME NEW w \in Worker, AddSheet(w) PROVE TypeOK'
  <2>1. PICK l \in Targets(order[w], answer[w]) :
          newSheet' = [newSheet EXCEPT ![w] =
                         [asset |-> order[w].asset, slot |-> order[w].slot, link |-> l]]
    BY <1>11 DEF AddSheet
  <2>2. l \in Link \cup {None}
    BY <1>t, TargetsType
  <2>3. order[w].asset \in Asset /\ order[w].slot \in Slot
    BY <1>t, <1>11, DataAssumption DEF AddSheet, LocalOK, Order
  <2>4. newSheet' \in [Worker -> SheetRow \cup {None}]
    BY <1>t, <2>1, <2>2, <2>3 DEF TypeOK, SheetRow
  <2>5. PICK n \in SheetNo : sheet' = [sheet EXCEPT ![w] = n]
    BY <1>11 DEF AddSheet, FreeNumbers
  <2> QED
    BY <1>t, <1>11, <2>1, <2>4, <2>5 DEF AddSheet, Goto, TypeOK, Locked, Known
<1>12. ASSUME NEW w \in Worker, StoreOps(w) PROVE TypeOK'
  <2>1. Missing(w) \in [Operation -> Nat]
    BY <1>t, <1>12, MissingType DEF StoreOps
  <2> QED
    BY <1>t, <1>12, <2>1 DEF StoreOps, Goto, TypeOK, Locked, Known
<1>13. ASSUME NEW w \in Worker, Commit(w) PROVE TypeOK'
  <2>1. /\ assets' \subseteq Asset /\ types' \in [Cause -> Code \cup {None}]
        /\ links' \in [Link -> LinkRow \cup {None}]
    <3>1. newLinks[w] \in [Link -> LinkRow \cup {None}]
      BY <1>t DEF TypeOK
    <3> QED
      BY <1>t, <1>13, <3>1, TypeMerged DEF Commit
  <2>2. sheet[w] \in SheetNo
    BY <1>t, <1>13 DEF Commit, LocalOK
  <2>3. sheets' \in [SheetNo -> SheetRow \cup {None}]
    BY <1>t, <1>13, <2>2 DEF Commit, TypeOK
  <2>4. ops' \in [SheetNo -> [Operation -> Nat]]
    <3>1. [p \in Operation |-> ops[sheet[w]][p] + added[w][p]] \in [Operation -> Nat]
      BY <1>t, <2>2 DEF TypeOK
    <3> QED
      BY <1>t, <1>13, <2>2, <3>1 DEF Commit, TypeOK
  <2>5. /\ pc' \in [Worker -> {"idle", "find_asset", "add_asset", "find_type", "put_type",
                        "find_link", "put_link", "leak", "find_sheet", "store_ops",
                        "commit", "synced"}]
        /\ \A v \in Worker : pc'[v] = "idle" => v # w /\ pc[v] = "idle"
    BY <1>t, <1>13 DEF Commit, Goto, TypeOK
  <2>6. EndTransaction(w) /\ UNCHANGED <<order, answer, item, seen>>
    BY <1>13 DEF Commit
  <2>7. \A v \in Worker : pc'[v] = "idle" =>
          /\ order'[v] = None /\ sheet'[v] = None /\ newSheet'[v] = None
          /\ Locked(v)' = {} /\ added'[v] = Nothing
    BY <1>t, <2>5, <2>6 DEF EndTransaction, TypeOK, Locked, Known
  <2>8. /\ newAssets' \in [Worker -> SUBSET Asset]
        /\ newTypes' \in [Worker -> [Cause -> Code \cup {None}]]
        /\ newLinks' \in [Worker -> [Link -> LinkRow \cup {None}]]
        /\ newSheet' \in [Worker -> SheetRow \cup {None}]
        /\ sheet' \in [Worker -> SheetNo \cup {None}]
        /\ added' \in [Worker -> [Operation -> Nat]]
    BY <1>t, <2>6 DEF EndTransaction, TypeOK, NoRows, Nothing
  <2> QED
    BY <1>t, <2>1, <2>3, <2>4, <2>5, <2>6, <2>7, <2>8 DEF TypeOK
<1>14. ASSUME NEW w \in Worker, Finish(w) PROVE TypeOK'
  <2>1. <<>> \in Seq(Item)
    BY EmptySeq
  <2>2. /\ sheet[w] = None /\ newSheet[w] = None
        /\ Locked(w) = {} /\ added[w] = Nothing
    BY <1>t, <1>14 DEF Finish, LocalOK
  <2> QED
    BY <1>t, <1>14, <2>1, <2>2 DEF Finish, Leave, Goto, TypeOK, Locked, Known
<1>15. ASSUME NEW w \in Worker, Refuse(w) \/ InsertConflict(w) \/ BreakDeadlock(w) \/ Abandon(w)
       PROVE  TypeOK'
  BY <1>t, <1>15, TypeRollback DEF Refuse, InsertConflict, BreakDeadlock, Abandon
<1>16. ASSUME NEW a \in Asset, Map(a) PROVE TypeOK'
  BY <1>t, <1>16 DEF Map, TypeOK, Locked, Known
<1> QED
  BY <1>1, <1>2, <1>3, <1>4, <1>5, <1>6, <1>7, <1>8, <1>9, <1>10, <1>11, <1>12,
     <1>13, <1>14, <1>15, <1>16 DEF Next, SyncStep

-----------------------------------------------------------------------------
(* What a step does to the worker that takes it and to the others.         *)
Untouched(v) ==
  /\ pc'[v] = pc[v] /\ order'[v] = order[v] /\ answer'[v] = answer[v] /\ item'[v] = item[v]
  /\ seenLink'[v] = seenLink[v] /\ newAssets'[v] = newAssets[v] /\ newTypes'[v] = newTypes[v]
  /\ newLinks'[v] = newLinks[v] /\ newSheet'[v] = newSheet[v] /\ sheet'[v] = sheet[v]
  /\ added'[v] = added[v] /\ seenType'[v] = seenType[v]

WorkerStep(w) == Fetch(w) \/ SyncStep(w) \/ BreakDeadlock(w) \/ Abandon(w)

LEMMA OthersUntouched ==
  ASSUME TypeOK, NEW w \in Worker, WorkerStep(w), NEW v \in Worker, v # w
  PROVE  Untouched(v)
<1> USE DEF dbVars, txVars, localVars, seen, Untouched, TypeOK, Goto, Leave, EndTransaction
<1>1. CASE Fetch(w)
  BY <1>1 DEF Fetch
<1>2. CASE FindAsset(w) \/ AddAsset(w) \/ FindType(w)
  BY <1>2 DEF FindAsset, AddAsset, FindType
<1>3. CASE PutType(w) \/ FindLink(w) \/ PutLink(w)
  BY <1>3 DEF PutType, FindLink, PutLink
<1>4. CASE Leak(w) \/ Commit(w) \/ Finish(w)
  BY <1>4 DEF Leak, Commit, Finish
<1>5. CASE FindSheet(w) \/ AddSheet(w) \/ StoreOps(w)
  BY <1>5 DEF FindSheet, AddSheet, StoreOps
<1>6. CASE Refuse(w) \/ InsertConflict(w) \/ BreakDeadlock(w) \/ Abandon(w)
  BY <1>6 DEF Refuse, InsertConflict, BreakDeadlock, Abandon, Rollback
<1> QED
  BY <1>1, <1>2, <1>3, <1>4, <1>5, <1>6 DEF WorkerStep, SyncStep

(* Rows of asset_failure_types are never deleted.                          *)
LEMMA LinksStay ==
  ASSUME TypeOK, [Next]_vars, NEW l \in Link, links[l] # None
  PROVE  links'[l] # None
<1> USE DEF dbVars, localVars
<1>1. CASE UNCHANGED links
  BY <1>1
<1>2. ASSUME NEW w \in Worker, NEW rows, links' = Merged(links, rows) PROVE links'[l] # None
  BY <1>2 DEF Merged, TypeOK
<1>3. \/ UNCHANGED links
      \/ \E w \in Worker : \E rows \in {newLinks[w], LeakedLinks(w)} : links' = Merged(links, rows)
  BY DEF Next, vars, SyncStep, Fetch, FindAsset, AddAsset, FindType, PutType, FindLink, PutLink,
         Leak, FindSheet, AddSheet, StoreOps, Refuse, Commit, Finish, InsertConflict,
         BreakDeadlock, Abandon, Map, Rollback
<1> QED
  BY <1>1, <1>2, <1>3

LEMMA LocalUntouched ==
  ASSUME TypeOK, [Next]_vars, NEW v \in Worker, LocalOK(v), Untouched(v)
  PROVE  LocalOK(v)'
<1>1. ASSUME pc[v] \in {"put_link", "leak"}, seenLink[v] # None
      PROVE  LinkOf(v, Current(v).link)' # None
  <2>1. Current(v) \in Item /\ Current(v)' = Current(v)
    BY <1>1, CurrentItem DEF Looping, Untouched, Current
  <2>2. LinkOf(v, Current(v).link) # None
    BY <1>1 DEF LocalOK
  <2>3. Current(v).link \in Link
    BY <2>1 DEF Item
  <2> QED
    BY <2>1, <2>2, <2>3, LinksStay DEF LinkOf, Untouched
<1> QED
  BY <1>1 DEF LocalOK, Untouched, Current, RefusedRate, Looping, Locked, Known

LEMMA LocalStep ==
  ASSUME TypeInv, NEW w \in Worker, WorkerStep(w)
  PROVE  LocalOK(w)'
<1> USE DEF dbVars, txVars, localVars, seen
<1>t. TypeOK /\ LocalOK(w)
  BY DEF TypeInv
<1>1. CASE Rollback(w) \/ Leak(w) \/ Finish(w)
  BY <1>t, <1>1 DEF Rollback, Leak, Finish, Leave, Goto, LocalOK, TypeOK, Looping
<1>2. CASE Fetch(w)
  <2>0. PICK o \in Orders : \E ans \in Answers[o.asset] :
          /\ answer' = [answer EXCEPT ![w] = ans] /\ order' = [order EXCEPT ![w] = o]
          /\ WellFormed(ans)
    BY <1>2 DEF Fetch
  <2>1. PICK ans \in Answers[o.asset] :
          /\ answer' = [answer EXCEPT ![w] = ans] /\ order' = [order EXCEPT ![w] = o]
          /\ WellFormed(ans)
    BY <2>0
  <2>2. answer'[w] = ans /\ order'[w] = o /\ item'[w] = item[w] /\ pc'[w] = "find_asset" /\ pc[w] = "idle"
    BY <1>t, <1>2, <2>1 DEF Fetch, Goto, TypeOK
  <2> QED
    BY <1>t, <2>1, <2>2 DEF LocalOK, Looping
<1>3. CASE FindAsset(w) \/ AddAsset(w)
  <2>1. answer[w] # <<>> => 1 \in DOMAIN answer[w]
    <3>1. answer[w] \in Seq(Item)
      BY <1>t DEF TypeOK
    <3> QED
      BY <3>1, EmptySeq, LenProperties
  <2>2. /\ pc'[w] \in {"add_asset", "find_type", "find_sheet"}
        /\ pc'[w] = "find_type" => answer[w] # <<>>
        /\ pc[w] \in {"find_asset", "add_asset"}
        /\ item'[w] = item[w] /\ order'[w] = order[w] /\ answer'[w] = answer[w]
    BY <1>t, <1>3 DEF FindAsset, AddAsset, AfterAsset, Goto, TypeOK
  <2> QED
    BY <1>t, <2>1, <2>2 DEF LocalOK, Looping
<1>4. CASE FindType(w) \/ PutType(w)
  BY <1>t, <1>4 DEF FindType, PutType, Goto, LocalOK, Looping, TypeOK
<1>5. CASE FindLink(w)
  <2>1. /\ pc'[w] \in {"put_link", "leak"} /\ pc[w] = "find_link"
        /\ item'[w] = item[w] /\ order'[w] = order[w] /\ answer'[w] = answer[w]
        /\ links' = links /\ newLinks' = newLinks
        /\ seenLink'[w] = LinkOf(w, Current(w).link)
    BY <1>t, <1>5 DEF FindLink, Goto, TypeOK
  <2>2. Current(w)' = Current(w)
    BY <2>1 DEF Current
  <2>3. ~RefusedRate(w)'
    BY <1>5, <2>2 DEF FindLink, RefusedItem, RefusedRate
  <2> QED
    BY <1>t, <2>1, <2>2, <2>3 DEF LocalOK, Looping, LinkOf
<1>6. CASE PutLink(w)
  <2>1. /\ pc'[w] = IF item[w] = Len(answer[w]) THEN "find_sheet" ELSE "find_type"
        /\ item'[w] = item[w] + 1 /\ order'[w] = order[w] /\ answer'[w] = answer[w]
        /\ pc[w] = "put_link"
    BY <1>t, <1>6 DEF PutLink, Goto, TypeOK
  <2>2. item[w] # Len(answer[w]) => item'[w] \in DOMAIN answer[w]
    <3>1. answer[w] \in Seq(Item)
      BY <1>t DEF TypeOK
    <3>2. item[w] \in 1..Len(answer[w]) /\ Len(answer[w]) \in Nat
      BY <1>t, <2>1, CurrentItem DEF Looping
    <3>3. DOMAIN answer[w] = 1..Len(answer[w])
      BY <3>1, LenProperties
    <3> QED
      BY <2>1, <3>2, <3>3
  <2> QED
    BY <1>t, <2>1, <2>2 DEF LocalOK, Looping
<1>7. CASE FindSheet(w) \/ AddSheet(w) \/ StoreOps(w)
  BY <1>t, <1>7 DEF FindSheet, AddSheet, StoreOps, FreeNumbers, Matching, Known, Goto, LocalOK,
                    Looping, TypeOK
<1>8. CASE Commit(w)
  BY <1>t, <1>8 DEF Commit, EndTransaction, Goto, LocalOK, Looping, TypeOK, Locked, Known, NoRows
<1> QED
  BY <1>1, <1>2, <1>3, <1>4, <1>5, <1>6, <1>7, <1>8
     DEF WorkerStep, SyncStep, Refuse, InsertConflict, BreakDeadlock, Abandon

LEMMA Typing == TypeInv /\ [Next]_vars => TypeInv'
<1> SUFFICES ASSUME TypeInv, [Next]_vars PROVE TypeInv'
  OBVIOUS
<1>1. TypeOK'
  BY TypingStep
<1>2. ASSUME NEW v \in Worker PROVE LocalOK(v)'
  <2>1. CASE UNCHANGED vars \/ \E a \in Asset : Map(a)
    <3>1. Untouched(v)
      BY <2>1 DEF Untouched, Map, vars, dbVars, txVars, localVars
    <3> QED
      BY <3>1, LocalUntouched DEF TypeInv
  <2>2. ASSUME NEW w \in Worker, WorkerStep(w) PROVE LocalOK(v)'
    <3>1. CASE v = w
      BY <2>2, <3>1, LocalStep
    <3>2. CASE v # w
      BY <2>2, <3>2, OthersUntouched, LocalUntouched DEF TypeInv
    <3> QED
      BY <3>1, <3>2
  <2> QED
    BY <2>1, <2>2 DEF Next, WorkerStep
<1> QED
  BY <1>1, <1>2 DEF TypeInv

(* The variables keep their types, and a worker that is done with a work   *)
(* order has nothing locked (session_scope, process_job).                  *)
THEOREM TypeCorrect == Spec => []TypeOK
<1>1. TypeInv => TypeOK
  BY DEF TypeInv
<1> QED
  BY TypeInit, Typing, <1>1, PTL DEF Spec

-----------------------------------------------------------------------------
(* The worksheets.  AtSheet(w): w has chosen or inserted one.              *)
AtSheet(w) == pc[w] \in {"store_ops", "commit"}

SheetFor(row, o, ans) ==
  /\ row # None /\ row.asset = o.asset /\ row.slot = o.slot
  /\ row.link \in Targets(o, ans)

(* A worker has a worksheet for its work order: a committed one, or one of *)
(* its own under a number that nobody else uses.                           *)
SheetPart(w) ==
  /\ ~AtSheet(w) => sheet[w] = None /\ newSheet[w] = None
  /\ AtSheet(w) => SheetFor(IF newSheet[w] = None THEN sheets[sheet[w]] ELSE newSheet[w],
                            order[w], answer[w])
  /\ newSheet[w] # None => /\ sheets[sheet[w]] = None
                           /\ \A v \in Worker \ {w} : sheet[v] # sheet[w]

SheetsFrom ==
  \A n \in Known(sheets) : \E o \in Orders : \E ans \in Answers[o.asset] :
    SheetFor(sheets[n], o, ans)

SheetInv == TypeInv /\ SheetsFrom /\ \A w \in Worker : SheetPart(w)

(* The steps that leave the worksheets alone.                              *)
Quiet(w) ==
  /\ UNCHANGED <<sheets, ops>>
  /\ \/ pc'[w] = "idle" /\ sheet'[w] = None /\ newSheet'[w] = None
     \/ /\ ~AtSheet(w) /\ ~AtSheet(w)'
        /\ sheet'[w] = sheet[w] /\ newSheet'[w] = newSheet[w]

LEMMA QuietSteps ==
  ASSUME TypeInv, NEW w \in Worker, WorkerStep(w)
  PROVE  Quiet(w) \/ FindSheet(w) \/ AddSheet(w) \/ StoreOps(w) \/ Commit(w)
<1> USE DEF dbVars, txVars, localVars, seen, Quiet, AtSheet, Goto, TypeOK
<1>t. TypeOK
  BY DEF TypeInv
<1>1. CASE Fetch(w) \/ FindAsset(w) \/ AddAsset(w)
  BY <1>t, <1>1 DEF Fetch, FindAsset, AddAsset, AfterAsset
<1>2. CASE FindType(w) \/ PutType(w)
  BY <1>t, <1>2 DEF FindType, PutType
<1>3. CASE FindLink(w) \/ PutLink(w)
  BY <1>t, <1>3 DEF FindLink, PutLink
<1>4. CASE Leak(w) \/ Rollback(w)
  BY <1>t, <1>4 DEF Leak, Rollback, EndTransaction, Leave
<1>5. CASE Finish(w)
  <2>1. sheet[w] = None /\ newSheet[w] = None
    BY <1>5 DEF Finish, TypeInv, LocalOK
  <2> QED
    BY <1>t, <1>5, <2>1 DEF Finish, Leave
<1> QED
  BY <1>1, <1>2, <1>3, <1>4, <1>5
     DEF WorkerStep, SyncStep, Refuse, InsertConflict, BreakDeadlock, Abandon

(* The worksheet that a step chooses or inserts, and what a commit does.   *)
LEMMA ChosenSheet ==
  ASSUME SheetInv, NEW w \in Worker, FindSheet(w)
  PROVE  /\ UNCHANGED <<sheets, ops, order, answer>> /\ newSheet'[w] = None /\ AtSheet(w)'
         /\ sheet'[w] \in Known(sheets)
         /\ SheetFor(sheets[sheet'[w]], order[w], answer[w])
<1> USE DEF dbVars
<1>1. PICK n \in Matching(w) : sheet' = [sheet EXCEPT ![w] = n]
  BY DEF FindSheet
<1>2. sheet'[w] = n /\ pc'[w] = "store_ops" /\ newSheet'[w] = newSheet[w] /\ ~AtSheet(w)
  BY <1>1 DEF FindSheet, SheetInv, TypeInv, TypeOK, Goto, AtSheet
<1>3. newSheet[w] = None
  BY <1>2 DEF SheetInv, SheetPart
<1>4. n \in Known(sheets) /\ SheetFor(sheets[n], order[w], answer[w])
  BY <1>1 DEF FindSheet, RefusedSheet, Matching, Known, SheetFor
<1> QED
  BY <1>2, <1>3, <1>4 DEF FindSheet, AtSheet

LEMMA InsertedSheet ==
  ASSUME SheetInv, NEW w \in Worker, AddSheet(w)
  PROVE  /\ UNCHANGED <<sheets, ops, order, answer>> /\ AtSheet(w)'
         /\ newSheet'[w] \in SheetRow
         /\ SheetFor(newSheet'[w], order[w], answer[w])
         /\ sheet'[w] \in FreeNumbers
<1> USE DEF dbVars
<1>1. PICK n \in FreeNumbers : sheet' = [sheet EXCEPT ![w] = n]
  BY DEF AddSheet
<1>2. PICK l \in Targets(order[w], answer[w]) :
        newSheet' = [newSheet EXCEPT ![w] =
                       [asset |-> order[w].asset, slot |-> order[w].slot, link |-> l]]
  BY DEF AddSheet
<1>3. l \in Link \cup {None} /\ order[w].asset \in Asset /\ order[w].slot \in Slot
  <2>1. order[w] \in Orders
    BY DEF AddSheet, SheetInv, TypeInv, LocalOK
  <2> QED
    BY <2>1, TargetsType, DataAssumption DEF Order, SheetInv, TypeInv
<1>4. /\ newSheet'[w] = [asset |-> order[w].asset, slot |-> order[w].slot, link |-> l]
      /\ sheet'[w] = n /\ pc'[w] = "store_ops"
  BY <1>1, <1>2 DEF AddSheet, SheetInv, TypeInv, TypeOK, Goto
<1>5. newSheet'[w] \in SheetRow
  BY <1>3, <1>4 DEF SheetRow
<1> QED
  BY <1>1, <1>2, <1>4, <1>5, SyncAssumption DEF AddSheet, AtSheet, SheetFor

LEMMA CommittedSheet ==
  ASSUME SheetInv, NEW w \in Worker, Commit(w)
  PROVE  /\ sheet[w] \in SheetNo /\ pc'[w] = "synced" /\ sheet'[w] = None /\ newSheet'[w] = None
         /\ \A n \in SheetNo : n # sheet[w] => sheets'[n] = sheets[n] /\ ops'[n] = ops[n]
         /\ SheetFor(sheets'[sheet[w]], order[w], answer[w])
         /\ sheets[sheet[w]] # None => sheets'[sheet[w]] = sheets[sheet[w]]
         /\ newSheet[w] = None => sheets[sheet[w]] # None
         /\ ops'[sheet[w]] = [p \in Operation |-> ops[sheet[w]][p] + added[w][p]]
<1>1. sheet[w] \in SheetNo /\ pc[w] = "commit"
  BY DEF Commit, SheetInv, TypeInv, LocalOK
<1>2. pc'[w] = "synced" /\ sheet'[w] = None /\ newSheet'[w] = None
  BY DEF Commit, EndTransaction, Goto, SheetInv, TypeInv, TypeOK
<1>3. /\ \A n \in SheetNo : n # sheet[w] => sheets'[n] = sheets[n] /\ ops'[n] = ops[n]
      /\ sheets'[sheet[w]] = IF newSheet[w] = None THEN sheets[sheet[w]] ELSE newSheet[w]
      /\ ops'[sheet[w]] = [p \in Operation |-> ops[sheet[w]][p] + added[w][p]]
  BY <1>1 DEF Commit, SheetInv, TypeInv, TypeOK
<1>4. SheetPart(w) /\ AtSheet(w)
  BY <1>1 DEF SheetInv, AtSheet
<1> QED
  BY <1>1, <1>2, <1>3, <1>4 DEF SheetPart, SheetFor

LEMMA SheetInit == Init => SheetInv
<1> SUFFICES ASSUME Init PROVE SheetInv
  OBVIOUS
<1>1. SheetsFrom
  BY DEF Init, NoRows, SheetsFrom, Known
<1>2. \A w \in Worker : SheetPart(w)
  BY DEF Init, SheetPart, AtSheet
<1> QED
  BY <1>1, <1>2, TypeInit DEF SheetInv

(* A step of w, seen by w and by another worker.                           *)
LEMMA SheetStep ==
  ASSUME SheetInv, NEW w \in Worker, WorkerStep(w)
  PROVE  SheetsFrom' /\ \A v \in Worker : SheetPart(v)'
<1>t. TypeInv /\ TypeOK /\ SheetPart(w) /\ SheetsFrom
  BY DEF SheetInv, TypeInv
<1>o. ASSUME NEW v \in Worker, v # w
      PROVE  /\ Untouched(v) /\ SheetPart(v) /\ (AtSheet(v)' <=> AtSheet(v))
             /\ newSheet[v] # None => AtSheet(v) /\ sheet[v] \in SheetNo /\ sheet[v] # None
  <2>1. Untouched(v) /\ SheetPart(v)
    BY <1>o, <1>t, OthersUntouched DEF SheetInv
  <2>2. newSheet[v] # None => AtSheet(v)
    BY <2>1 DEF SheetPart
  <2>3. AtSheet(v) => sheet[v] \in SheetNo
    BY <1>t DEF TypeInv, LocalOK, AtSheet
  <2> QED
    BY <2>1, <2>2, <2>3, SyncAssumption DEF AtSheet, Untouched
<1>1. CASE Quiet(w)
  <2>1. SheetsFrom'
    BY <1>t, <1>1 DEF Quiet, SheetsFrom
  <2>2. SheetPart(w)'
    <3>1. ~AtSheet(w)' /\ sheet'[w] = None /\ newSheet'[w] = None
      BY <1>1, <1>t DEF Quiet, AtSheet, SheetPart
    <3> QED
      BY <3>1 DEF SheetPart
  <2>3. ASSUME NEW v \in Worker, v # w PROVE SheetPart(v)'
    <3>1. newSheet[v] # None => sheet'[w] # sheet[v]
      BY <1>o, <1>1, <1>t, <2>3 DEF Quiet, SheetPart
    <3>2. \A u \in Worker \ {v, w} : sheet'[u] = sheet[u]
      BY <1>o DEF Untouched
    <3> QED
      BY <1>o, <1>1, <2>3, <3>1, <3>2 DEF Quiet, SheetPart, AtSheet, Untouched
  <2> QED
    BY <2>1, <2>2, <2>3
<1>2. CASE FindSheet(w)
  <2>1. SheetsFrom'
    BY <1>t, <1>2, ChosenSheet DEF SheetsFrom
  <2>2. SheetPart(w)'
    BY <1>2, ChosenSheet DEF SheetPart
  <2>3. ASSUME NEW v \in Worker, v # w PROVE SheetPart(v)'
    <3>1. newSheet[v] # None => sheet'[w] # sheet[v]
      BY <1>o, <1>2, <2>3, ChosenSheet DEF SheetPart, Known
    <3>2. \A u \in Worker \ {v, w} : sheet'[u] = sheet[u]
      BY <1>o DEF Untouched
    <3> QED
      BY <1>o, <1>2, <2>3, <3>1, <3>2, ChosenSheet DEF SheetPart, AtSheet, Untouched
  <2> QED
    BY <2>1, <2>2, <2>3
<1>3. CASE AddSheet(w)
  <2>1. SheetsFrom'
    BY <1>t, <1>3, InsertedSheet DEF SheetsFrom
  <2>2. SheetPart(w)'
    <3>1. \A v \in Worker \ {w} : sheet'[v] # sheet'[w]
      BY <1>o, <1>3, InsertedSheet DEF Untouched, FreeNumbers
    <3>2. sheets'[sheet'[w]] = None
      BY <1>3, InsertedSheet DEF FreeNumbers
    <3>3. SheetFor(newSheet[w], order[w], answer[w])' /\ newSheet'[w] # None /\ AtSheet(w)'
      BY <1>3, InsertedSheet DEF SheetFor
    <3> QED
      BY <3>1, <3>2, <3>3 DEF SheetPart
  <2>3. ASSUME NEW v \in Worker, v # w PROVE SheetPart(v)'
    <3>1. newSheet[v] # None => sheet'[w] # sheet[v]
      BY <1>3, <2>3, InsertedSheet DEF FreeNumbers
    <3>2. \A u \in Worker \ {v, w} : sheet'[u] = sheet[u]
      BY <1>o DEF Untouched
    <3> QED
      BY <1>o, <1>3, <2>3, <3>1, <3>2, InsertedSheet DEF SheetPart, AtSheet, Untouched
  <2> QED
    BY <2>1, <2>2, <2>3
<1>4. CASE StoreOps(w)
  <2>1. /\ UNCHANGED <<sheets, ops, sheet, newSheet, order, answer>>
        /\ AtSheet(w) /\ AtSheet(w)'
    BY <1>t, <1>4 DEF StoreOps, Goto, AtSheet, TypeOK, dbVars
  <2>2. SheetsFrom' /\ SheetPart(w)'
    BY <1>t, <2>1 DEF SheetsFrom, SheetPart
  <2>3. ASSUME NEW v \in Worker, v # w PROVE SheetPart(v)'
    BY <1>o, <2>1, <2>3 DEF SheetPart
  <2> QED
    BY <2>2, <2>3
<1>5. CASE Commit(w)
  <2>0. order[w] \in Orders /\ answer[w] \in Answers[order[w].asset]
    BY <1>t, <1>5 DEF Commit, TypeInv, LocalOK
  <2>1. SheetsFrom'
    <3> SUFFICES ASSUME NEW n \in Known(sheets)'
                 PROVE  \E o \in Orders : \E ans \in Answers[o.asset] : SheetFor(sheets'[n], o, ans)
      BY DEF SheetsFrom
    <3>0. n \in SheetNo /\ sheets'[n] # None
      <4>1. TypeOK'
        BY <1>t, TypingStep DEF Next, WorkerStep
      <4> QED
        BY <4>1 DEF Known, TypeOK
    <3>1. CASE n = sheet[w]
      BY <1>5, <2>0, <3>1, CommittedSheet
    <3>2. CASE n # sheet[w]
      <4>1. n \in Known(sheets) /\ sheets'[n] = sheets[n]
        <5>1. sheets'[n] = sheets[n]
          BY <1>5, <3>0, <3>2, CommittedSheet
        <5> QED
          BY <1>t, <3>0, <5>1 DEF Known, TypeOK
      <4> QED
        BY <1>t, <4>1 DEF SheetsFrom
    <3> QED
      BY <3>1, <3>2
  <2>2. SheetPart(w)'
    BY <1>5, CommittedSheet DEF SheetPart, AtSheet
  <2>3. ASSUME NEW v \in Worker, v # w PROVE SheetPart(v)'
    <3>1. newSheet[v] # None => sheet'[w] # sheet[v] /\ sheets'[sheet[v]] = None
      <4> SUFFICES ASSUME newSheet[v] # None
                   PROVE  sheet'[w] # sheet[v] /\ sheets'[sheet[v]] = None
        OBVIOUS
      <4>1. /\ sheet[v] \in SheetNo /\ sheet[v] # None /\ sheets[sheet[v]] = None
            /\ sheet[w] # sheet[v]
        BY <1>o, <2>3 DEF SheetPart
      <4>2. sheet'[w] = None /\ sheets'[sheet[v]] = sheets[sheet[v]]
        BY <1>5, <4>1, CommittedSheet
      <4> QED
        BY <4>1, <4>2
    <3>2. \A u \in Worker \ {v, w} : sheet'[u] = sheet[u]
      BY <1>o DEF Untouched
    <3>3. AtSheet(v) /\ newSheet[v] = None => sheets'[sheet[v]] = sheets[sheet[v]]
      <4> SUFFICES ASSUME AtSheet(v), newSheet[v] = None PROVE sheets'[sheet[v]] = sheets[sheet[v]]
        OBVIOUS
      <4>1. sheet[v] \in SheetNo /\ sheets[sheet[v]] # None
        BY <1>o, <1>t, <2>3 DEF TypeInv, LocalOK, AtSheet, SheetPart, SheetFor
      <4> QED
        BY <1>5, <4>1, CommittedSheet
    <3>4. order'[v] = order[v] /\ answer'[v] = answer[v] /\ newSheet'[v] = newSheet[v] /\ sheet'[v] = sheet[v]
      BY <1>o, <2>3 DEF Untouched
    <3>5. SheetPart(v) /\ (AtSheet(v)' <=> AtSheet(v))
      BY <1>o, <2>3
    <3> QED
      BY <3>1, <3>2, <3>3, <3>4, <3>5 DEF SheetPart
  <2> QED
    BY <2>1, <2>2, <2>3
<1> QED
  BY <1>1, <1>2, <1>3, <1>4, <1>5, <1>t, QuietSteps

LEMMA SheetNext == SheetInv /\ [Next]_vars => SheetInv'
<1> SUFFICES ASSUME SheetInv, [Next]_vars PROVE SheetInv'
  OBVIOUS
<1>1. TypeInv'
  BY Typing DEF SheetInv
<1>2. CASE UNCHANGED vars \/ \E a \in Asset : Map(a)
  BY <1>1, <1>2 DEF SheetInv, SheetsFrom, SheetPart, AtSheet, Map, vars, dbVars, txVars, localVars
<1>3. ASSUME NEW w \in Worker, WorkerStep(w) PROVE SheetInv'
  BY <1>1, <1>3, SheetStep DEF SheetInv
<1> QED
  BY <1>2, <1>3 DEF Next, WorkerStep

-----------------------------------------------------------------------------
(* Work orders of one worksheet, one after the other: nobody else works on *)
(* the worksheet of w, so that what w has read of it stays as it is.       *)
Exclusive ==
  \A v, w \in Worker :
    v # w /\ pc[v] # "idle" /\ pc[w] # "idle" => ~WorksOn(v, order[w])

NoneMatches == \A w \in Worker : newSheet[w] # None => Matching(w) = {}

AddedUp ==
  /\ \A n \in SheetNo : sheets[n] = None => ops[n] = Nothing
  /\ \A w \in Worker : pc[w] = "commit" =>
       \A p \in Operation : ops[sheet[w]][p] + added[w][p] = Received(answer[w])[p]

SerialInv ==
  /\ SheetInv /\ Exclusive /\ NoneMatches /\ AddedUp
  /\ OneWorksheet /\ OperationsAreReceived

LEMMA SerialInit == Init => SerialInv
<1> SUFFICES ASSUME Init PROVE SerialInv
  OBVIOUS
<1>1. Known(sheets) = {}
  BY DEF Init, NoRows, Known
<1>2. Exclusive /\ NoneMatches /\ AddedUp
  BY DEF Init, NoRows, Exclusive, NoneMatches, AddedUp
<1> QED
  BY <1>1, <1>2, SheetInit DEF SerialInv, OneWorksheet, OperationsAreReceived

LEMMA ExclusiveStep ==
  ASSUME Overlap = FALSE, TypeInv, Exclusive, NEW w \in Worker, WorkerStep(w)
  PROVE  Exclusive'
<1> USE DEF WorksOn, dbVars, txVars, localVars, seen
<1>t. TypeOK
  BY DEF TypeInv
<1>1. CASE Fetch(w)
  <2>1. PICK o \in Orders : /\ \A v \in Worker : ~WorksOn(v, o)
                            /\ order' = [order EXCEPT ![w] = o]
    BY <1>1 DEF Fetch
  <2>2. \A v \in Worker \ {w} : pc'[v] = pc[v] /\ order'[v] = order[v]
    BY <1>t, OthersUntouched DEF Untouched
  <2>3. order'[w] = o
    BY <1>t, <2>1 DEF TypeOK
  <2>4. \A v \in Worker \ {w} : pc'[v] # "idle" => ~WorksOn(v, order[w])' /\ ~WorksOn(w, order[v])'
    BY <2>1, <2>2, <2>3
  <2>5. \A u, v \in Worker \ {w} : u # v /\ pc'[u] # "idle" /\ pc'[v] # "idle" => ~WorksOn(u, order[v])'
    BY <2>2 DEF Exclusive
  <2> QED
    BY <2>4, <2>5 DEF Exclusive
<1>2. CASE ~Fetch(w)
  <2>1. pc'[w] = "idle" \/ (pc[w] # "idle" /\ order'[w] = order[w])
    <3> USE DEF TypeOK, Goto, Leave
    <3>1. CASE FindAsset(w) \/ AddAsset(w) \/ FindType(w) \/ PutType(w)
      BY <1>t, <3>1 DEF FindAsset, AddAsset, FindType, PutType
    <3>2. CASE FindLink(w) \/ PutLink(w) \/ FindSheet(w) \/ AddSheet(w) \/ StoreOps(w) \/ Commit(w)
      BY <1>t, <3>2 DEF FindLink, PutLink, FindSheet, AddSheet, StoreOps, Commit
    <3>3. CASE Leak(w) \/ Finish(w) \/ Rollback(w)
      BY <1>t, <3>3 DEF Leak, Finish, Rollback
    <3> QED
      BY <1>2, <3>1, <3>2, <3>3
         DEF WorkerStep, SyncStep, Refuse, InsertConflict, BreakDeadlock, Abandon
  <2>2. \A v \in Worker \ {w} : pc'[v] = pc[v] /\ order'[v] = order[v]
    BY <1>t, OthersUntouched DEF Untouched
  <2> QED
    BY <2>1, <2>2 DEF Exclusive
<1> QED
  BY <1>1, <1>2

(* Before the commit the worksheets and their operations stay.             *)
LEMMA SerialStep ==
  ASSUME SerialInv, NEW w \in Worker, WorkerStep(w), ~Commit(w)
  PROVE  NoneMatches' /\ AddedUp' /\ OneWorksheet' /\ OperationsAreReceived'
<1>t. TypeInv /\ TypeOK /\ SheetInv
  BY DEF SerialInv, SheetInv, TypeInv
<1>1. sheets' = sheets /\ ops' = ops
  BY <1>t, QuietSteps, ChosenSheet, InsertedSheet DEF Quiet, StoreOps, dbVars
<1>2. OneWorksheet' /\ OperationsAreReceived'
  BY <1>1 DEF SerialInv, OneWorksheet, OperationsAreReceived, Known
<1>o. \A v \in Worker \ {w} : Untouched(v)
  BY <1>t, OthersUntouched
<1>3. NoneMatches'
  <2>1. ASSUME newSheet'[w] # None PROVE Matching(w)' = {}
    <3>1. CASE AddSheet(w)
      <4>1. Matching(w) = {} /\ order' = order
        BY <3>1 DEF AddSheet
      <4> QED
        BY <1>1, <4>1 DEF Matching, Known
    <3>2. CASE Quiet(w) \/ FindSheet(w)
      BY <1>t, <2>1, <3>2, ChosenSheet DEF Quiet, SheetInv, SheetPart
    <3>3. CASE StoreOps(w)
      <4>1. newSheet' = newSheet /\ order' = order
        BY <3>3 DEF StoreOps
      <4> QED
        BY <1>1, <2>1, <4>1 DEF SerialInv, NoneMatches, Matching, Known
    <3> QED
      BY <1>t, <3>1, <3>2, <3>3, QuietSteps
  <2>2. ASSUME NEW v \in Worker, v # w, newSheet'[v] # None PROVE Matching(v)' = {}
    BY <1>1, <1>o, <2>2 DEF SerialInv, NoneMatches, Matching, Known, Untouched
  <2> QED
    BY <2>1, <2>2 DEF NoneMatches
<1>4. AddedUp'
  <2>1. ASSUME pc'[w] = "commit", NEW p \in Operation
        PROVE  ops'[sheet'[w]][p] + added'[w][p] = Received(answer'[w])[p]
    <3>1. StoreOps(w)
      <4>1. FindSheet(w) \/ AddSheet(w) => pc'[w] = "store_ops"
        BY <1>t DEF FindSheet, AddSheet, Goto, TypeOK
      <4> QED
        BY <1>t, <2>1, <4>1, QuietSteps DEF Quiet, AtSheet
    <3>2. /\ pc[w] = "store_ops" /\ ~RefusedOps(w) /\ sheet' = sheet /\ answer' = answer
          /\ added'[w] = Missing(w)
      BY <1>t, <3>1 DEF StoreOps, TypeOK
    <3>3. sheet[w] \in SheetNo /\ answer[w] \in Seq(Item)
      BY <1>t, <3>2 DEF TypeInv, LocalOK, TypeOK
    <3>4. ops[sheet[w]][p] \in Nat /\ Received(answer[w])[p] \in Nat
      BY <1>t, <3>3, ReceivedType DEF TypeOK
    <3> QED
      BY <1>1, <3>2, <3>4 DEF Missing
  <2>2. ASSUME NEW v \in Worker, v # w, pc'[v] = "commit", NEW p \in Operation
        PROVE  ops'[sheet'[v]][p] + added'[v][p] = Received(answer'[v])[p]
    BY <1>1, <1>o, <2>2 DEF SerialInv, AddedUp, Untouched
  <2>3. \A n \in SheetNo : sheets'[n] = None => ops'[n] = Nothing
    BY <1>1 DEF SerialInv, AddedUp
  <2> QED
    BY <2>1, <2>2, <2>3 DEF AddedUp
<1> QED
  BY <1>2, <1>3, <1>4

(* The worksheet of a worker that commits is not that of another one.      *)
LEMMA OtherSheet ==
  ASSUME SerialInv, NEW v \in Worker, NEW w \in Worker, v # w, AtSheet(v), AtSheet(w)
  PROVE  sheet[v] # sheet[w]
<1>1. SheetPart(v) /\ SheetPart(w) /\ ~WorksOn(v, order[w])
  BY DEF SerialInv, SheetInv, Exclusive, AtSheet
<1>2. CASE newSheet[v] = None /\ newSheet[w] = None
  BY <1>1, <1>2 DEF SheetPart, SheetFor, WorksOn, AtSheet
<1>3. CASE newSheet[v] # None \/ newSheet[w] # None
  BY <1>1, <1>3 DEF SheetPart
<1> QED
  BY <1>2, <1>3

LEMMA SerialCommit ==
  ASSUME SerialInv, NEW w \in Worker, Commit(w)
  PROVE  NoneMatches' /\ AddedUp' /\ OneWorksheet' /\ OperationsAreReceived'
<1>t. TypeInv /\ TypeOK /\ SheetInv
  BY DEF SerialInv, SheetInv, TypeInv
<1>w. WorkerStep(w) /\ pc[w] = "commit" /\ AtSheet(w)
  BY DEF Commit, WorkerStep, SyncStep, AtSheet
<1>o. \A v \in Worker \ {w} : Untouched(v)
  BY <1>t, <1>w, OthersUntouched
<1>s. DOMAIN sheets' = SheetNo /\ DOMAIN sheets = SheetNo
  <2>1. TypeOK'
    BY <1>t, <1>w, TypingStep DEF Next, WorkerStep
  <2> QED
    BY <1>t, <2>1 DEF TypeOK
<1> DEFINE N == sheet[w]
<1>n. /\ N \in SheetNo
      /\ \A n \in SheetNo : n # N => sheets'[n] = sheets[n] /\ ops'[n] = ops[n]
      /\ sheets'[N] # None /\ sheets'[N].asset = order[w].asset /\ sheets'[N].slot = order[w].slot
      /\ sheets[N] # None => sheets'[N] = sheets[N]
  BY <1>t, CommittedSheet DEF SheetFor
<1>1. NoneMatches'
  <2> SUFFICES ASSUME NEW v \in Worker, newSheet'[v] # None PROVE Matching(v)' = {}
    BY DEF NoneMatches
  <2>1. v # w
    BY <1>t, CommittedSheet
  <2>2. newSheet[v] # None /\ order'[v] = order[v] /\ Matching(v) = {} /\ ~WorksOn(w, order[v])
    <3>1. newSheet[v] # None /\ order'[v] = order[v]
      BY <1>o, <2>1 DEF Untouched
    <3>2. pc[v] # "idle" /\ pc[w] # "idle"
      BY <1>t, <1>w, <3>1 DEF SheetInv, SheetPart, AtSheet
    <3> QED
      BY <2>1, <3>1, <3>2 DEF SerialInv, Exclusive, NoneMatches
  <2>3. ~(sheets'[N].asset = order[v].asset /\ sheets'[N].slot = order[v].slot)
    BY <1>n, <1>w, <2>2 DEF WorksOn
  <2> QED
    BY <1>n, <1>s, <2>2, <2>3 DEF Matching, Known
<1>2. OneWorksheet'
  <2>1. ASSUME NEW m \in SheetNo, m # N, sheets'[m] # None,
               sheets'[m].asset = sheets'[N].asset, sheets'[m].slot = sheets'[N].slot
        PROVE  FALSE
    <3>1. sheets[m] # None /\ m \in Matching(w)
      BY <1>n, <1>s, <2>1 DEF Matching, Known
    <3>2. sheets[N] # None
      <4>1. newSheet[w] = None
        BY <3>1 DEF SerialInv, NoneMatches
      <4> QED
        BY <1>t, <4>1, CommittedSheet
    <3> QED
      BY <1>n, <1>s, <2>1, <3>1, <3>2 DEF SerialInv, OneWorksheet, Known
  <2>2. ASSUME NEW m \in SheetNo, NEW n \in SheetNo, m # N, n # N,
               sheets'[m] # None, sheets'[n] # None,
               sheets'[m].asset = sheets'[n].asset, sheets'[m].slot = sheets'[n].slot
        PROVE  m = n
    BY <1>n, <1>s, <2>2 DEF SerialInv, OneWorksheet, Known
  <2> QED
    BY <1>s, <2>1, <2>2 DEF OneWorksheet, Known
<1>3. ops'[N] = Received(answer[w])
  <2>1. ops'[N] = [p \in Operation |-> ops[N][p] + added[w][p]]
    BY <1>t, CommittedSheet
  <2>2. \A p \in Operation : ops[N][p] + added[w][p] = Received(answer[w])[p]
    BY <1>w DEF SerialInv, AddedUp
  <2> QED
    BY <2>1, <2>2 DEF Received
<1>4. OperationsAreReceived'
  <2>1. order[w].asset = sheets'[N].asset /\ answer[w] \in Answers[order[w].asset]
    BY <1>t, <1>n, <1>w DEF TypeInv, LocalOK
  <2>2. ASSUME NEW n \in SheetNo, sheets'[n] # None
        PROVE  \E ans \in Answers[sheets'[n].asset] : ops'[n] = Received(ans)
    <3>1. CASE n = N
      BY <1>3, <2>1, <3>1
    <3>2. CASE n # N
      BY <1>n, <1>s, <2>2, <3>2 DEF SerialInv, OperationsAreReceived, Known
    <3> QED
      BY <3>1, <3>2
  <2> QED
    BY <1>s, <2>2 DEF OperationsAreReceived, Known
<1>5. AddedUp'
  <2>1. \A n \in SheetNo : sheets'[n] = None => ops'[n] = Nothing
    BY <1>n DEF SerialInv, AddedUp
  <2>2. ASSUME NEW v \in Worker, pc'[v] = "commit", NEW p \in Operation
        PROVE  ops'[sheet'[v]][p] + added'[v][p] = Received(answer'[v])[p]
    <3>1. v # w
      BY <1>t, <2>2, CommittedSheet
    <3>2. /\ pc[v] = "commit" /\ sheet'[v] = sheet[v] /\ added'[v] = added[v]
          /\ answer'[v] = answer[v]
      BY <1>o, <2>2, <3>1 DEF Untouched
    <3>3. AtSheet(v) /\ sheet[v] \in SheetNo
      BY <1>t, <3>2 DEF AtSheet, TypeInv, LocalOK
    <3>4. sheet[v] # N
      BY <1>w, <3>1, <3>3, OtherSheet
    <3>5. ops'[sheet[v]] = ops[sheet[v]]
      BY <1>n, <3>3, <3>4
    <3> QED
      BY <3>2, <3>5 DEF SerialInv, AddedUp
  <2> QED
    BY <2>1, <2>2 DEF AddedUp
<1> QED
  BY <1>1, <1>2, <1>4, <1>5

LEMMA SerialNext ==
  ASSUME Overlap = FALSE
  PROVE  SerialInv /\ [Next]_vars => SerialInv'
<1> SUFFICES ASSUME SerialInv, [Next]_vars PROVE SerialInv'
  OBVIOUS
<1>t. SheetInv /\ TypeInv /\ SheetInv'
  BY SheetNext DEF SerialInv, SheetInv
<1>1. CASE UNCHANGED vars \/ \E a \in Asset : Map(a)
  <2>1. UNCHANGED <<sheets, ops, txVars, localVars>>
    BY <1>1 DEF Map, vars, dbVars
  <2> QED
    BY <1>t, <2>1 DEF SerialInv, Exclusive, WorksOn, NoneMatches, Matching, Known, AddedUp,
                      OneWorksheet, OperationsAreReceived, txVars, localVars
<1>2. ASSUME NEW w \in Worker, WorkerStep(w) PROVE SerialInv'
  <2>1. Exclusive'
    BY <1>t, <1>2, ExclusiveStep DEF SerialInv
  <2> QED
    BY <1>t, <1>2, <2>1, SerialStep, SerialCommit DEF SerialInv
<1> QED
  BY <1>1, <1>2 DEF Next, WorkerStep

(* One work order, one worksheet: as long as no two workers have work      *)
(* orders of the same asset and times at once, nothing stores a second     *)
(* worksheet for them (store_asset_worksheet).                             *)
THEOREM OneSheet ==
  ASSUME Overlap = FALSE
  PROVE  Spec => []OneWorksheet
<1>1. SerialInv => OneWorksheet
  BY DEF SerialInv
<1> QED
  BY SerialInit, SerialNext, <1>1, PTL DEF Spec

(* Under the same condition a worksheet has the operations of one answer   *)
(* of the CMMS, each as often as it was listed (store_cmms_operations).    *)
THEOREM ExactOperations ==
  ASSUME Overlap = FALSE
  PROVE  Spec => []OperationsAreReceived
<1>1. SerialInv => OperationsAreReceived
  BY DEF SerialInv
<1> QED
  BY SerialInit, SerialNext, <1>1, PTL DEF Spec

-----------------------------------------------------------------------------
(* The rows of asset_failure_types.  Their asset never changes; a row that *)
(* a worker has flushed is locked, so that no other one writes it; and the *)
(* failure causes w is done with have a row of its asset.                  *)
FromCmms(l, row) ==
  \E ans \in Answers[row.asset] : \E i \in DOMAIN ans : ans[i].link = l /\ ans[i].cause = row.cause

GoodRow(w, l, row) ==
  /\ row.asset = order[w].asset
  /\ FromCmms(l, row)
  /\ l \in LinksOf(answer[w])
  /\ links[l] # None => links[l].asset = order[w].asset
  /\ \A v \in Worker \ {w} : newLinks[v][l] = None

GoodRows(w, rows) == \A l \in Link : rows[l] # None => GoodRow(w, l, rows[l])

DoneWith(w, i) ==
  /\ i \in DOMAIN answer[w]
  /\ \/ pc[w] \in {"find_sheet", "store_ops", "commit"}
     \/ pc[w] \in Looping /\ i < item[w]

LinkPart(w) ==
  /\ GoodRows(w, newLinks[w])
  /\ pc[w] \in {"put_link", "leak"} /\ seenLink[w] # None =>
       LinkOf(w, Current(w).link).asset = order[w].asset
  /\ \A i \in DOMAIN answer[w] : DoneWith(w, i) =>
       /\ LinkOf(w, answer[w][i].link) # None
       /\ LinkOf(w, answer[w][i].link).asset = order[w].asset

LinksFrom == \A l \in Link : links[l] # None => FromCmms(l, links[l])

LinkInv == TypeInv /\ LinksFrom /\ \A w \in Worker : LinkPart(w)

LEMMA AnswerItems ==
  ASSUME TypeOK, NEW w \in Worker, NEW i \in DOMAIN answer[w]
  PROVE  answer[w][i] \in Item /\ i \in 1..Len(answer[w]) /\ Len(answer[w]) \in Nat
<1>1. answer[w] \in Seq(Item)
  BY DEF TypeOK
<1>2. i \in 1..Len(answer[w]) /\ Len(answer[w]) \in Nat
  BY <1>1, LenProperties
<1> QED
  BY <1>1, <1>2, ElementOfSeq

(* The row that PutLink or Leak writes is locked by nobody else.           *)
LEMMA PutRows ==
  ASSUME LinkInv, NEW w \in Worker, pc[w] \in {"put_link", "leak"},
         ~DuplicateKey(w), ~Waiting(w)
  PROVE  /\ GoodRows(w, LinksAfterPut(w))
         /\ \A l \in Link : newLinks[w][l] # None => LinksAfterPut(w)[l] # None
         /\ \/ LinksAfterPut(w)[Current(w).link] # None
            \/ /\ links[Current(w).link] # None
               /\ links[Current(w).link].asset = order[w].asset
<1> DEFINE L == Current(w).link
<1>t. TypeOK /\ LocalOK(w) /\ LinkPart(w) /\ LinksFrom
  BY DEF LinkInv, TypeInv
<1>i. Current(w) \in Item /\ item[w] \in DOMAIN answer[w]
  BY <1>t, CurrentItem DEF LocalOK, Looping
<1>l. /\ L \in Link /\ NewLink(w) \in LinkRow /\ NewLink(w) # None
      /\ LinksAfterPut(w) \in [Link -> LinkRow \cup {None}]
  BY <1>t, NewLinkType, SyncAssumption
<1>a. answer[w] \in Answers[order[w].asset] /\ L \in LinksOf(answer[w])
  BY <1>t, <1>i DEF LocalOK, LinksOf, Current
<1>1. CASE ~WritesLink(w)
  <2>1. LinksAfterPut(w) = newLinks[w] /\ seenLink[w] # None
    BY <1>1 DEF LinksAfterPut, WritesLink
  <2>2. LinkOf(w, L) # None /\ LinkOf(w, L).asset = order[w].asset
    BY <1>t, <2>1 DEF LocalOK, LinkPart
  <2> QED
    BY <1>t, <1>l, <2>1, <2>2 DEF LinkPart, LinkOf
<1>2. CASE WritesLink(w)
  <2>1. /\ LinksAfterPut(w)[L] = NewLink(w)
        /\ \A l \in Link \ {L} : LinksAfterPut(w)[l] = newLinks[w][l]
    BY <1>t, <1>l, <1>2 DEF LinksAfterPut, TypeOK
  <2>2. \A v \in Worker \ {w} : newLinks[v][L] = None
    <3>1. <<"link", L>> \in Needed(w)
      BY <1>2 DEF Needed
    <3>2. \A v \in Worker \ {w} : <<"link", L>> \notin Locked(v)
      BY <3>1 DEF Waiting, WaitsFor
    <3> QED
      BY <1>t, <1>l, <3>2 DEF Locked, Known, TypeOK
  <2>3. GoodRow(w, L, NewLink(w))
    <3>1. CASE seenLink[w] = None
      <4>1. links[L] = None
        BY <3>1 DEF DuplicateKey
      <4>2. NewLink(w).asset = order[w].asset /\ NewLink(w).cause = Current(w).cause
        BY <3>1 DEF NewLink
      <4>3. FromCmms(L, NewLink(w))
        BY <1>a, <1>i, <4>2 DEF FromCmms, Current
      <4> QED
        BY <1>a, <2>2, <4>1, <4>2, <4>3 DEF GoodRow
    <3>2. CASE seenLink[w] # None
      <4> DEFINE row == LinkOf(w, L)
      <4>1. row # None /\ row \in LinkRow /\ row.asset = order[w].asset
        BY <1>t, <1>l, <3>2 DEF LocalOK, LinkPart, LinkOf, TypeOK
      <4>2. NewLink(w).asset = row.asset /\ NewLink(w).cause \in {row.cause, Current(w).cause}
        <5> HIDE DEF row
        <5>1. NewLink(w) = [row EXCEPT !.cause = IF seenLink[w].cause = Current(w).cause THEN @
                                                 ELSE Current(w).cause,
                                       !.rate  = IF seenLink[w].rate = NewRate(w) THEN @
                                                 ELSE NewRate(w)]
          BY <3>2 DEF NewLink, row
        <5> QED
          BY <4>1, <5>1 DEF LinkRow
      <4>3. FromCmms(L, row)
        BY <1>t, <1>l, <4>1 DEF LinkPart, GoodRows, GoodRow, LinksFrom, LinkOf
      <4>4. FromCmms(L, NewLink(w))
        <5>1. CASE NewLink(w).cause = row.cause
          BY <4>2, <4>3, <5>1 DEF FromCmms
        <5>2. CASE NewLink(w).cause = Current(w).cause
          BY <1>a, <1>i, <4>1, <4>2, <5>2 DEF FromCmms, Current
        <5> QED
          BY <4>2, <5>1, <5>2
      <4>5. links[L] # None => links[L].asset = order[w].asset
        BY <1>t, <1>l, <4>1 DEF LinkPart, GoodRows, GoodRow, LinkOf
      <4> QED
        BY <1>a, <2>2, <4>1, <4>2, <4>4, <4>5 DEF GoodRow
    <3> QED
      BY <3>1, <3>2
  <2>4. GoodRows(w, LinksAfterPut(w))
    BY <1>t, <2>1, <2>3 DEF GoodRows, LinkPart
  <2>5. LinksAfterPut(w)[L] # None
    BY <1>l, <2>1
  <2> QED
    BY <1>l, <2>1, <2>4, <2>5
<1> QED
  BY <1>1, <1>2

(* What a commit, or a leak, leaves in the table.                          *)
LinksKept(w) ==
  /\ \A l \in Link : links[l] # None => links'[l] # None /\ links'[l].asset = links[l].asset
  /\ \A l \in Link : links'[l] # None => FromCmms(l, links'[l])
  /\ \A v \in Worker \ {w} : \A l \in Link : newLinks[v][l] # None => links'[l] = links[l]

LEMMA MergedLinks ==
  ASSUME LinkInv, NEW w \in Worker, NEW rows \in [Link -> LinkRow \cup {None}],
         GoodRows(w, rows), links' = Merged(links, rows)
  PROVE  LinksKept(w)
<1>1. \A l \in Link : links'[l] = IF rows[l] # None THEN rows[l] ELSE links[l]
  BY DEF Merged, LinkInv, TypeInv, TypeOK
<1>2. \A l \in Link : rows[l] # None =>
        /\ FromCmms(l, rows[l])
        /\ links[l] # None => rows[l].asset = links[l].asset
        /\ \A v \in Worker \ {w} : newLinks[v][l] = None
  BY DEF GoodRows, GoodRow
<1> QED
  BY <1>1, <1>2 DEF LinksKept, LinkInv, LinksFrom

LEMMA LinksOfStep ==
  ASSUME LinkInv, NEW w \in Worker, WorkerStep(w)
  PROVE  LinksKept(w)
<1>t. TypeOK /\ LinkPart(w) /\ newLinks[w] \in [Link -> LinkRow \cup {None}]
  BY DEF LinkInv, TypeInv, TypeOK
<1>1. CASE Leak(w)
  <2>1. links' = Merged(links, LeakedLinks(w))
    BY <1>1 DEF Leak
  <2>2. CASE pc[w] = "leak"
    <3>1. LeakedLinks(w) = LinksAfterPut(w) /\ ~DuplicateKey(w) /\ ~Waiting(w)
      BY <1>1, <2>2 DEF Leak, LeakedLinks
    <3>2. LinksAfterPut(w) \in [Link -> LinkRow \cup {None}]
      BY <1>t, <2>2, NewLinkType DEF LinkInv, TypeInv
    <3> QED
      BY <2>1, <2>2, <3>1, <3>2, PutRows, MergedLinks
  <2>3. CASE pc[w] # "leak"
    <3>1. LeakedLinks(w) = newLinks[w] /\ GoodRows(w, newLinks[w])
      BY <1>t, <2>3 DEF LeakedLinks, LinkPart
    <3> QED
      BY <1>t, <2>1, <3>1, MergedLinks
  <2> QED
    BY <2>2, <2>3
<1>2. CASE Commit(w)
  <2>1. links' = Merged(links, newLinks[w]) /\ GoodRows(w, newLinks[w])
    BY <1>t, <1>2 DEF Commit, LinkPart
  <2> QED
    BY <1>t, <2>1, MergedLinks
<1>3. CASE UNCHANGED links
  BY <1>3 DEF LinksKept, LinkInv, LinksFrom
<1>4. Leak(w) \/ Commit(w) \/ UNCHANGED links
  BY DEF WorkerStep, SyncStep, Fetch, FindAsset, AddAsset, FindType, PutType, FindLink, PutLink,
         FindSheet, AddSheet, StoreOps, Refuse, Finish, InsertConflict, BreakDeadlock, Abandon,
         Rollback, dbVars
<1> QED
  BY <1>1, <1>2, <1>3, <1>4

LEMMA LinkInit == Init => LinkInv
<1> SUFFICES ASSUME Init PROVE LinkInv
  OBVIOUS
<1>1. LinksFrom /\ \A w \in Worker : GoodRows(w, newLinks[w])
  BY DEF Init, NoRows, LinksFrom, GoodRows
<1>2. \A w \in Worker : LinkPart(w)
  BY <1>1 DEF Init, LinkPart, DoneWith, Looping
<1> QED
  BY <1>1, <1>2, TypeInit DEF LinkInv

(* Another worker's rows are safe from w, and w's own place in the answer. *)
LEMMA NewLocks ==
  ASSUME LinkInv, NEW w \in Worker, WorkerStep(w), NEW l \in Link, newLinks'[w][l] # None,
         NEW v \in Worker, v # w
  PROVE  newLinks[v][l] = None
<1>t. TypeOK /\ LinkPart(w)
  BY DEF LinkInv, TypeInv
<1>1. CASE newLinks'[w][l] = newLinks[w][l]
  BY <1>t, <1>1 DEF LinkPart, GoodRows, GoodRow
<1>2. CASE PutLink(w)
  <2>1. newLinks'[w] = LinksAfterPut(w) /\ pc[w] = "put_link" /\ ~DuplicateKey(w) /\ ~Waiting(w)
    BY <1>t, <1>2 DEF PutLink, TypeOK
  <2> QED
    BY <2>1, PutRows DEF GoodRows, GoodRow
<1>3. CASE EndTransaction(w)
  BY <1>t, <1>3 DEF EndTransaction, TypeOK, NoRows
<1>4. PutLink(w) \/ EndTransaction(w) \/ UNCHANGED newLinks
  BY DEF WorkerStep, SyncStep, Fetch, FindAsset, AddAsset, FindType, PutType, FindLink,
         FindSheet, AddSheet, StoreOps, Refuse, Finish, InsertConflict, BreakDeadlock, Abandon,
         Rollback, Leak, Commit, txVars
<1> QED
  BY <1>1, <1>2, <1>3, <1>4

LEMMA LinkOther ==
  ASSUME LinkInv, NEW w \in Worker, WorkerStep(w), NEW v \in Worker, v # w
  PROVE  LinkPart(v)'
<1>t. TypeOK /\ LinkPart(v) /\ LocalOK(v) /\ LinksKept(w) /\ Untouched(v)
  BY LinksOfStep, OthersUntouched DEF LinkInv, TypeInv
<1>0. \A l \in Link : links[l] # None => links'[l] # None /\ links'[l].asset = links[l].asset
  BY <1>t DEF LinksKept
<1>1. GoodRows(v, newLinks[v])'
  <2> SUFFICES ASSUME NEW l \in Link, newLinks[v][l] # None
               PROVE  GoodRow(v, l, newLinks[v][l])'
    BY <1>t DEF GoodRows, Untouched
  <2>1. GoodRow(v, l, newLinks[v][l])
    BY <1>t DEF LinkPart, GoodRows
  <2>2. links'[l] = links[l]
    BY <1>t DEF LinksKept
  <2>3. ASSUME NEW u \in Worker, u # v PROVE newLinks'[u][l] = None
    <3>1. CASE u = w
      BY <3>1, NewLocks
    <3>2. CASE u # w
      <4>1. newLinks'[u] = newLinks[u]
        BY <1>t, <3>2, OthersUntouched DEF Untouched
      <4> QED
        BY <2>1, <2>3, <4>1 DEF GoodRow
    <3> QED
      BY <3>1, <3>2
  <2>4. order'[v] = order[v] /\ answer'[v] = answer[v] /\ newLinks'[v] = newLinks[v]
    BY <1>t DEF Untouched
  <2> QED
    BY <2>1, <2>2, <2>3, <2>4 DEF GoodRow, FromCmms
<1>2. ASSUME NEW l \in Link, LinkOf(v, l) # None
      PROVE  LinkOf(v, l)' # None /\ LinkOf(v, l)'.asset = LinkOf(v, l).asset
  BY <1>t, <1>0, <1>2 DEF LinkOf, Untouched
<1>3. ASSUME pc'[v] \in {"put_link", "leak"}, seenLink'[v] # None
      PROVE  LinkOf(v, Current(v).link)'.asset = order'[v].asset
  <2>1. /\ pc[v] \in {"put_link", "leak"} /\ seenLink[v] # None /\ order'[v] = order[v]
        /\ Current(v)' = Current(v)
    BY <1>t, <1>3 DEF Untouched, Current
  <2>2. Current(v).link \in Link
    BY <1>t, <2>1, CurrentItem DEF Looping, Item
  <2>3. LinkOf(v, Current(v).link) # None /\ LinkOf(v, Current(v).link).asset = order[v].asset
    BY <1>t, <2>1 DEF LocalOK, LinkPart
  <2> QED
    BY <1>2, <2>1, <2>2, <2>3
<1>4. ASSUME NEW i \in DOMAIN answer'[v], DoneWith(v, i)'
      PROVE  /\ LinkOf(v, answer[v][i].link)' # None
             /\ LinkOf(v, answer[v][i].link)'.asset = order'[v].asset
  <2>1. /\ order'[v] = order[v] /\ answer'[v] = answer[v] /\ i \in DOMAIN answer[v]
        /\ DoneWith(v, i)
    BY <1>t, <1>4 DEF Untouched, DoneWith
  <2>2. answer[v][i].link \in Link
    BY <1>t, <2>1, AnswerItems DEF Item
  <2>3. LinkOf(v, answer[v][i].link) # None /\ LinkOf(v, answer[v][i].link).asset = order[v].asset
    BY <1>t, <2>1 DEF LinkPart
  <2> QED
    BY <1>2, <2>1, <2>2, <2>3
<1> QED
  BY <1>1, <1>3, <1>4 DEF LinkPart

(* The step of w itself.                                                   *)
LEMMA LinkOwnPut ==
  ASSUME LinkInv, NEW w \in Worker, PutLink(w)
  PROVE  LinkPart(w)'
<1>t. TypeOK /\ LinkPart(w) /\ LocalOK(w)
  BY DEF LinkInv, TypeInv
<1>1. /\ pc[w] = "put_link" /\ ~DuplicateKey(w) /\ ~Waiting(w)
      /\ newLinks'[w] = LinksAfterPut(w) /\ links' = links
      /\ \A v \in Worker \ {w} : newLinks'[v] = newLinks[v]
      /\ item'[w] = item[w] + 1 /\ order'[w] = order[w] /\ answer'[w] = answer[w]
      /\ pc'[w] \in {"find_type", "find_sheet"}
      /\ pc'[w] = "find_sheet" => item[w] = Len(answer[w])
  BY <1>t DEF PutLink, Goto, TypeOK, dbVars
<1>2. GoodRows(w, newLinks[w])'
  <2>1. GoodRows(w, LinksAfterPut(w))
    BY <1>1, PutRows
  <2> QED
    BY <1>1, <2>1 DEF GoodRows, GoodRow, FromCmms
<1>3. ASSUME NEW i \in DOMAIN answer'[w], DoneWith(w, i)'
      PROVE  /\ LinkOf(w, answer[w][i].link)' # None
             /\ LinkOf(w, answer[w][i].link)'.asset = order'[w].asset
  <2> DEFINE l == answer[w][i].link
  <2>1. i \in DOMAIN answer[w] /\ l \in Link
    BY <1>t, <1>1, <1>3, AnswerItems DEF Item
  <2>2. DoneWith(w, i) \/ i = item[w]
    <3>1. i \in 1..Len(answer[w]) /\ Len(answer[w]) \in Nat /\ item[w] \in Nat
      BY <1>t, <2>1, AnswerItems DEF TypeOK
    <3> QED
      BY <1>1, <1>3, <2>1, <3>1 DEF DoneWith, Looping
  <2>3. \/ LinksAfterPut(w)[l] # None
        \/ newLinks[w][l] = None /\ links[l] # None /\ links[l].asset = order[w].asset
    <3>1. CASE DoneWith(w, i)
      <4>1. LinkOf(w, l) # None /\ LinkOf(w, l).asset = order[w].asset
        BY <1>t, <2>1, <3>1 DEF LinkPart
      <4> QED
        BY <1>1, <2>1, <4>1, PutRows DEF LinkOf
    <3>2. CASE i = item[w]
      <4>1. l = Current(w).link
        BY <3>2 DEF Current
      <4>2. newLinks[w][l] # None => LinksAfterPut(w)[l] # None
        BY <1>1, <2>1, PutRows
      <4> QED
        BY <1>1, <4>1, <4>2, PutRows
    <3> QED
      BY <2>2, <3>1, <3>2
  <2>4. LinksAfterPut(w)[l] # None => LinksAfterPut(w)[l].asset = order[w].asset
    BY <1>1, <2>1, PutRows DEF GoodRows, GoodRow
  <2> QED
    BY <1>1, <2>3, <2>4 DEF LinkOf
<1> QED
  BY <1>1, <1>2, <1>3 DEF LinkPart

LEMMA LinkOwn ==
  ASSUME LinkInv, NEW w \in Worker, WorkerStep(w)
  PROVE  LinkPart(w)'
<1> USE DEF dbVars, txVars, localVars, seen
<1>t. TypeOK /\ LinkPart(w) /\ LocalOK(w)
  BY DEF LinkInv, TypeInv
<1>0. ASSUME \A l \in Link : newLinks'[w][l] = None, pc'[w] \in {"idle", "synced", "find_asset"}
      PROVE  LinkPart(w)'
  BY <1>0 DEF LinkPart, GoodRows, DoneWith, Looping
<1>1. CASE Rollback(w) \/ Leak(w) \/ Commit(w)
  <2>1. newLinks'[w] = NoRows(Link) /\ pc'[w] \in {"idle", "synced"}
    BY <1>t, <1>1 DEF Rollback, Leak, Commit, EndTransaction, Leave, Goto, TypeOK
  <2> QED
    BY <1>0, <2>1 DEF NoRows
<1>2. CASE Finish(w) \/ Fetch(w)
  <2>1. newLinks' = newLinks /\ pc'[w] \in {"idle", "find_asset"} /\ Locked(w) = {}
    BY <1>t, <1>2 DEF Finish, Fetch, Leave, Goto, TypeOK, LocalOK
  <2>2. \A l \in Link : newLinks[w][l] = None
    <3>1. DOMAIN newLinks[w] = Link
      BY <1>t DEF TypeOK
    <3>2. \A l \in Known(newLinks[w]) : <<"link", l>> \in Locked(w)
      BY DEF Locked
    <3> QED
      BY <2>1, <3>1, <3>2 DEF Known
  <2> QED
    BY <1>0, <2>1, <2>2
<1>k. ASSUME UNCHANGED <<links, newLinks>>, order'[w] = order[w], answer'[w] = answer[w]
      PROVE  GoodRows(w, newLinks[w])'
  BY <1>t, <1>k DEF LinkPart, GoodRows, GoodRow, FromCmms
<1>d. ASSUME UNCHANGED <<links, newLinks>>, order'[w] = order[w], answer'[w] = answer[w],
             \A i \in DOMAIN answer[w] : DoneWith(w, i)' => DoneWith(w, i),
             pc'[w] \notin {"put_link", "leak"}
      PROVE  LinkPart(w)'
  BY <1>t, <1>k, <1>d DEF LinkPart, LinkOf
<1>3. CASE FindAsset(w) \/ AddAsset(w)
  <2>1. /\ UNCHANGED <<links, newLinks>> /\ order'[w] = order[w] /\ answer'[w] = answer[w]
        /\ pc'[w] \in {"add_asset", "find_type", "find_sheet"} /\ item'[w] = 1
        /\ pc'[w] = "find_sheet" => answer[w] = <<>>
    BY <1>t, <1>3 DEF FindAsset, AddAsset, AfterAsset, Goto, LocalOK, TypeOK
  <2>2. \A i \in DOMAIN answer[w] : ~DoneWith(w, i)'
    <3> SUFFICES ASSUME NEW i \in DOMAIN answer[w] PROVE ~DoneWith(w, i)'
      OBVIOUS
    <3>1. i \in 1..Len(answer[w]) /\ Len(answer[w]) \in Nat
      BY <1>t, AnswerItems
    <3>2. answer[w] # <<>>
      BY <1>t, <3>1, EmptySeq
    <3> QED
      BY <2>1, <3>1, <3>2 DEF DoneWith, Looping
  <2> QED
    BY <1>d, <2>1, <2>2
<1>4. CASE FindType(w) \/ PutType(w)
  <2>1. /\ UNCHANGED <<links, newLinks, order, answer, item>>
        /\ pc[w] \in Looping /\ pc'[w] \in {"put_type", "find_link"}
    BY <1>t, <1>4 DEF FindType, PutType, Goto, TypeOK, Looping
  <2> QED
    BY <1>d, <2>1 DEF DoneWith, Looping
<1>5. CASE FindLink(w)
  <2>1. /\ UNCHANGED <<links, newLinks, order, answer, item>>
        /\ pc[w] \in Looping /\ pc'[w] \in {"put_link", "leak"}
        /\ seenLink'[w] = LinkOf(w, Current(w).link)
        /\ ~ForeignLink(w)
    BY <1>t, <1>5 DEF FindLink, Goto, TypeOK, Looping, RefusedItem
  <2>2. seenLink'[w] # None => LinkOf(w, Current(w).link)'.asset = order'[w].asset
    BY <2>1 DEF ForeignLink, LinkOf, Current
  <2>3. \A i \in DOMAIN answer[w] : DoneWith(w, i)' => DoneWith(w, i)
    BY <2>1 DEF DoneWith, Looping
  <2> QED
    BY <1>t, <1>k, <2>1, <2>2, <2>3 DEF LinkPart, LinkOf
<1>6. CASE FindSheet(w) \/ AddSheet(w) \/ StoreOps(w)
  <2>1. /\ UNCHANGED <<links, newLinks, order, answer, item>>
        /\ pc[w] \in {"find_sheet", "store_ops"} /\ pc'[w] \in {"store_ops", "commit"}
    BY <1>t, <1>6 DEF FindSheet, AddSheet, StoreOps, Goto, TypeOK
  <2> QED
    BY <1>d, <2>1 DEF DoneWith, Looping
<1> QED
  BY <1>1, <1>2, <1>3, <1>4, <1>5, <1>6, LinkOwnPut
     DEF WorkerStep, SyncStep, Refuse, InsertConflict, BreakDeadlock, Abandon

LEMMA LinkNext == LinkInv /\ [Next]_vars => LinkInv'
<1> SUFFICES ASSUME LinkInv, [Next]_vars PROVE LinkInv'
  OBVIOUS
<1>t. TypeInv'
  BY Typing DEF LinkInv
<1>1. CASE UNCHANGED vars \/ \E a \in Asset : Map(a)
  <2>1. UNCHANGED <<links, txVars, localVars>>
    BY <1>1 DEF Map, vars, dbVars
  <2> QED
    BY <1>t, <2>1 DEF LinkInv, LinksFrom, LinkPart, GoodRows, GoodRow, FromCmms, DoneWith,
                      LinkOf, Current, txVars, localVars
<1>2. ASSUME NEW w \in Worker, WorkerStep(w) PROVE LinkInv'
  BY <1>t, <1>2, LinkOwn, LinkOther, LinksOfStep DEF LinkInv, LinksFrom, LinksKept
<1> QED
  BY <1>1, <1>2 DEF Next, WorkerStep

-----------------------------------------------------------------------------
(* Worksheets and rows of asset_failure_types together.                    *)
SheetsLinked ==
  \A n \in SheetNo : sheets[n] # None /\ sheets[n].link # None =>
    links[sheets[n].link] # None /\ links[sheets[n].link].asset = sheets[n].asset

CauseInv == SheetInv /\ LinkInv /\ SheetsLinked

(* The links a work order may refer to.                                    *)
LEMMA TargetItem ==
  ASSUME NEW o, NEW ans, NEW l \in Targets(o, ans), l # None
  PROVE  \E i \in DOMAIN ans : ans[i].cause = o.cause /\ ans[i].link = l
BY DEF Targets

(* At a commit each cause of the answer has its row, of the right asset.   *)
LEMMA CommittedLinks ==
  ASSUME LinkInv, NEW w \in Worker, Commit(w)
  PROVE  /\ \A l \in Link : links'[l] = IF newLinks[w][l] # None THEN newLinks[w][l] ELSE links[l]
         /\ \A l \in LinksOf(answer[w]) :
              l \in Link /\ links'[l] # None /\ links'[l].asset = order[w].asset
<1>t. TypeOK /\ LinkPart(w) /\ pc[w] = "commit"
  BY DEF LinkInv, TypeInv, Commit
<1>1. \A l \in Link : links'[l] = IF newLinks[w][l] # None THEN newLinks[w][l] ELSE links[l]
  BY <1>t DEF Commit, Merged, TypeOK
<1>2. ASSUME NEW i \in DOMAIN answer[w]
      PROVE  /\ answer[w][i].link \in Link /\ links'[answer[w][i].link] # None
             /\ links'[answer[w][i].link].asset = order[w].asset
  <2>1. DoneWith(w, i) /\ answer[w][i].link \in Link
    BY <1>t, AnswerItems DEF DoneWith, Item
  <2> QED
    BY <1>t, <1>1, <2>1 DEF LinkPart, LinkOf
<1> QED
  BY <1>1, <1>2 DEF LinksOf

LEMMA LinkedStep ==
  ASSUME CauseInv, NEW w \in Worker, WorkerStep(w)
  PROVE  SheetsLinked'
<1>t. SheetInv /\ LinkInv /\ TypeInv /\ TypeOK /\ LinksKept(w)
  BY LinksOfStep DEF CauseInv, SheetInv, TypeInv
<1>k. ASSUME NEW n \in SheetNo, sheets'[n] = sheets[n], sheets'[n] # None, sheets'[n].link # None
      PROVE  links'[sheets'[n].link] # None /\ links'[sheets'[n].link].asset = sheets'[n].asset
  <2>1. sheets[n] \in SheetRow
    BY <1>k, <1>t DEF TypeOK
  <2>2. sheets[n].link \in Link
    BY <1>k, <2>1 DEF SheetRow
  <2> QED
    BY <1>t, <1>k, <2>2 DEF CauseInv, SheetsLinked, LinksKept
<1>1. CASE Commit(w)
  <2> SUFFICES ASSUME NEW n \in SheetNo, sheets'[n] # None, sheets'[n].link # None
               PROVE  /\ links'[sheets'[n].link] # None
                      /\ links'[sheets'[n].link].asset = sheets'[n].asset
    BY DEF SheetsLinked
  <2>1. CASE n # sheet[w]
    BY <1>t, <1>1, <1>k, <2>1, CommittedSheet
  <2>2. CASE n = sheet[w]
    <3>1. SheetFor(sheets'[n], order[w], answer[w])
      BY <1>t, <1>1, <2>2, CommittedSheet
    <3>2. sheets'[n].link \in LinksOf(answer[w]) /\ sheets'[n].asset = order[w].asset
      BY <3>1, TargetItem DEF SheetFor, LinksOf
    <3> QED
      BY <1>t, <1>1, <3>2, CommittedLinks
  <2> QED
    BY <2>1, <2>2
<1>2. CASE ~Commit(w)
  <2>1. sheets' = sheets
    BY <1>t, <1>2, QuietSteps, ChosenSheet, InsertedSheet DEF Quiet, StoreOps, dbVars
  <2> QED
    BY <1>k, <2>1 DEF SheetsLinked
<1> QED
  BY <1>1, <1>2

LEMMA CauseInit == Init => CauseInv
<1> SUFFICES ASSUME Init PROVE CauseInv
  OBVIOUS
<1>1. SheetsLinked
  BY DEF Init, NoRows, SheetsLinked
<1> QED
  BY <1>1, SheetInit, LinkInit DEF CauseInv

LEMMA CauseNext == CauseInv /\ [Next]_vars => CauseInv'
<1> SUFFICES ASSUME CauseInv, [Next]_vars PROVE CauseInv'
  OBVIOUS
<1>1. SheetInv' /\ LinkInv'
  BY SheetNext, LinkNext DEF CauseInv
<1>2. CASE UNCHANGED vars \/ \E a \in Asset : Map(a)
  BY <1>1, <1>2 DEF CauseInv, SheetsLinked, Map, vars, dbVars
<1>3. ASSUME NEW w \in Worker, WorkerStep(w) PROVE CauseInv'
  BY <1>1, <1>3, LinkedStep DEF CauseInv
<1> QED
  BY <1>2, <1>3 DEF Next, WorkerStep

(* A worksheet keeps the failure type that it was stored with, also when   *)
(* work orders overlap (ensure_asset_failure_type, store_asset_worksheet). *)
THEOREM KeepsCause == Spec => []WorksheetKeepsCause
<1>1. ASSUME CauseInv PROVE WorksheetKeepsCause
  <2>t. TypeOK /\ SheetsFrom /\ LinksFrom /\ SheetsLinked
    BY <1>1 DEF CauseInv, SheetInv, LinkInv, TypeInv
  <2> SUFFICES ASSUME NEW n \in Known(sheets), sheets[n].link # None
               PROVE  /\ sheets[n].link \in Known(links)
                      /\ links[sheets[n].link].asset = sheets[n].asset
                      /\ StableLinks => [asset |-> sheets[n].asset, slot |-> sheets[n].slot,
                                         cause |-> links[sheets[n].link].cause] \in Orders
    BY DEF WorksheetKeepsCause
  <2> DEFINE l == sheets[n].link
  <2>1. n \in SheetNo /\ sheets[n] # None /\ sheets[n] \in SheetRow
    BY <2>t DEF Known, TypeOK
  <2>2. l \in Link
    BY <2>1 DEF SheetRow
  <2>3. links[l] # None /\ links[l].asset = sheets[n].asset /\ l \in Known(links)
    BY <2>t, <2>1, <2>2 DEF SheetsLinked, Known, TypeOK
  <2>4. PICK o \in Orders : \E ans \in Answers[o.asset] : SheetFor(sheets[n], o, ans)
    BY <2>t DEF SheetsFrom
  <2>5. PICK y \in Answers[o.asset] : SheetFor(sheets[n], o, y)
    BY <2>4
  <2>6. PICK j \in DOMAIN y : y[j].cause = o.cause /\ y[j].link = l
    BY <2>5, TargetItem DEF SheetFor
  <2>7. PICK x \in Answers[o.asset] : \E i \in DOMAIN x : x[i].link = l /\ x[i].cause = links[l].cause
    BY <2>t, <2>2, <2>3, <2>5 DEF LinksFrom, FromCmms, SheetFor
  <2>8. ASSUME StableLinks PROVE links[l].cause = o.cause
    <3>1. o.asset \in Asset
      BY DataAssumption DEF Order
    <3> QED
      BY <2>6, <2>7, <2>8, <3>1 DEF StableLinks
  <2>9. o = [asset |-> o.asset, slot |-> o.slot, cause |-> o.cause]
    BY DataAssumption DEF Order
  <2>10. sheets[n].asset = o.asset /\ sheets[n].slot = o.slot
    BY <2>5 DEF SheetFor
  <2> QED
    BY <2>3, <2>8, <2>9, <2>10
<1> QED
  BY CauseInit, CauseNext, <1>1, PTL DEF Spec

-----------------------------------------------------------------------------
(* After the commit the causes of the answer have their rows, and they     *)
(* stay, since rows of asset_failure_types are never deleted or given away.*)
SyncedPart(w) ==
  pc[w] = "synced" => \A l \in LinksOf(answer[w]) :
    l \in Link /\ links[l] # None /\ links[l].asset = order[w].asset

ResolveInv == LinkInv /\ \A w \in Worker : SyncedPart(w)

LEMMA ResolveStep ==
  ASSUME ResolveInv, NEW w \in Worker, WorkerStep(w), NEW v \in Worker
  PROVE  SyncedPart(v)'
<1>t. TypeOK /\ TypeInv /\ LinkInv /\ LinksKept(w) /\ SyncedPart(v)
  BY LinksOfStep DEF ResolveInv, LinkInv, TypeInv
<1>1. CASE v # w
  BY <1>t, <1>1, OthersUntouched DEF SyncedPart, LinksKept, Untouched
<1>2. CASE v = w /\ Commit(w)
  BY <1>t, <1>2, CommittedLinks DEF SyncedPart, Commit
<1>3. CASE v = w /\ ~Commit(w)
  <2>1. pc'[w] # "synced"
    <3> USE DEF TypeOK, Goto, Leave
    <3>1. CASE Fetch(w) \/ FindAsset(w) \/ AddAsset(w) \/ FindType(w) \/ PutType(w) \/ PutLink(w)
      BY <1>t, <3>1 DEF Fetch, FindAsset, AddAsset, AfterAsset, FindType, PutType, PutLink
    <3>2. CASE FindLink(w) \/ FindSheet(w) \/ AddSheet(w) \/ StoreOps(w)
      BY <1>t, <3>2 DEF FindLink, FindSheet, AddSheet, StoreOps
    <3>3. CASE Leak(w) \/ Rollback(w) \/ Finish(w)
      BY <1>t, <3>3 DEF Leak, Rollback, Finish
    <3> QED
      BY <1>3, <3>1, <3>2, <3>3
         DEF WorkerStep, SyncStep, Refuse, InsertConflict, BreakDeadlock, Abandon
  <2> QED
    BY <1>3, <2>1 DEF SyncedPart
<1> QED
  BY <1>1, <1>2, <1>3

LEMMA ResolveInit == Init => ResolveInv
BY LinkInit DEF Init, ResolveInv, SyncedPart

LEMMA ResolveNext == ResolveInv /\ [Next]_vars => ResolveInv'
<1> SUFFICES ASSUME ResolveInv, [Next]_vars PROVE ResolveInv'
  OBVIOUS
<1>1. LinkInv'
  BY LinkNext DEF ResolveInv
<1>2. CASE UNCHANGED vars \/ \E a \in Asset : Map(a)
  BY <1>1, <1>2 DEF ResolveInv, SyncedPart, Map, vars, dbVars, localVars
<1>3. ASSUME NEW w \in Worker, WorkerStep(w) PROVE ResolveInv'
  BY <1>1, <1>3, ResolveStep DEF ResolveInv
<1> QED
  BY <1>2, <1>3 DEF Next, WorkerStep

(* If the CMMS keeps its ids, each failure cause that a synchronisation    *)
(* has received resolves to one link, the one that it was received with,   *)
(* whatever others commit (resolve_asset_failurecause_ids in worker.py).   *)
THEOREM Resolves ==
  ASSUME StableLinks
  PROVE  Spec => []CausesResolve
<1>1. ASSUME ResolveInv PROVE CausesResolve
  <2> SUFFICES ASSUME NEW w \in Worker, pc[w] = "synced", NEW i \in DOMAIN answer[w]
               PROVE  {l \in Known(links) : /\ links[l].asset = order[w].asset
                                            /\ links[l].cause = answer[w][i].cause}
                        = {answer[w][i].link}
    BY DEF CausesResolve
  <2>t. TypeOK /\ LocalOK(w) /\ LinksFrom /\ SyncedPart(w)
    BY <1>1 DEF ResolveInv, LinkInv, TypeInv
  <2>1. order[w].asset \in Asset /\ answer[w] \in Answers[order[w].asset]
    BY <2>t, DataAssumption DEF LocalOK, Order
  <2>2. \A l \in Known(links) : l \in Link /\ links[l] # None /\ FromCmms(l, links[l])
    BY <2>t DEF Known, TypeOK, LinksFrom
  <2>3. \A l \in Known(links) : links[l].asset = order[w].asset =>
          (l = answer[w][i].link <=> links[l].cause = answer[w][i].cause)
    <3> SUFFICES ASSUME NEW l \in Known(links), links[l].asset = order[w].asset
                 PROVE  l = answer[w][i].link <=> links[l].cause = answer[w][i].cause
      OBVIOUS
    <3>1. PICK x \in Answers[order[w].asset] :
            \E j \in DOMAIN x : x[j].link = l /\ x[j].cause = links[l].cause
      BY <2>2 DEF FromCmms
    <3> QED
      BY <2>1, <3>1 DEF StableLinks
  <2>4. /\ answer[w][i].link \in Known(links)
        /\ links[answer[w][i].link].asset = order[w].asset
    <3>1. answer[w][i].link \in LinksOf(answer[w])
      BY DEF LinksOf
    <3> QED
      BY <2>t, <3>1 DEF SyncedPart, Known, TypeOK
  <2> QED
    BY <2>3, <2>4
<1> QED
  BY ResolveInit, ResolveNext, <1>1, PTL DEF Spec

-----------------------------------------------------------------------------
(* Numbers that int() and float() convert: then nothing but a commit       *)
(* writes.                                                                 *)
Convertible ==
  \A a \in Asset : \A ans \in Answers[a] : \A i \in DOMAIN ans : ans[i].overflow = "none"

AtomicInv ==
  /\ CauseInv
  /\ \A w \in Worker : pc[w] # "leak"
  /\ \A l \in Link : links[l] # None =>
       \E n \in SheetNo : sheets[n] # None /\ sheets[n].asset = links[l].asset

LEMMA NeverLeaks ==
  ASSUME Convertible, AtomicInv, NEW w \in Worker
  PROVE  ~Leak(w)
<1>1. CASE pc[w] = "find_type"
  <2>1. /\ answer[w] \in Answers[order[w].asset] /\ order[w].asset \in Asset
        /\ item[w] \in DOMAIN answer[w]
    BY <1>1, DataAssumption DEF AtomicInv, CauseInv, SheetInv, TypeInv, LocalOK, Looping, Order
  <2>2. Current(w).overflow = "none"
    BY <2>1 DEF Convertible, Current
  <2> QED
    BY <1>1, <2>2 DEF Leak
<1> QED
  BY <1>1 DEF Leak, AtomicInv

LEMMA NoLeak ==
  ASSUME Convertible, AtomicInv, NEW w \in Worker, WorkerStep(w), NEW v \in Worker
  PROVE  pc'[v] # "leak"
<1>t. TypeOK /\ TypeInv
  BY DEF AtomicInv, CauseInv, SheetInv, TypeInv
<1>1. CASE v # w
  BY <1>t, <1>1, OthersUntouched DEF AtomicInv, Untouched
<1>2. CASE v = w
  <2>1. CASE FindLink(w)
    <3>1. /\ answer[w] \in Answers[order[w].asset] /\ order[w].asset \in Asset
          /\ item[w] \in DOMAIN answer[w]
      BY <1>t, <2>1, DataAssumption DEF FindLink, TypeInv, LocalOK, Looping, Order
    <3>2. Current(w).overflow = "none"
      BY <3>1 DEF Convertible, Current
    <3> QED
      BY <1>t, <1>2, <2>1, <3>2 DEF FindLink, Goto, TypeOK
  <2>2. CASE Fetch(w) \/ FindAsset(w) \/ AddAsset(w) \/ FindType(w) \/ PutType(w) \/ PutLink(w)
    BY <1>t, <1>2, <2>2 DEF Fetch, FindAsset, AddAsset, AfterAsset, FindType, PutType, PutLink,
                            Goto, TypeOK
  <2>3. CASE Leak(w) \/ Rollback(w) \/ Finish(w) \/ FindSheet(w) \/ AddSheet(w) \/ StoreOps(w) \/ Commit(w)
    BY <1>t, <1>2, <2>3 DEF Leak, Rollback, Finish, Leave, FindSheet, AddSheet, StoreOps, Commit,
                            Goto, TypeOK
  <2> QED
    BY <2>1, <2>2, <2>3 DEF WorkerStep, SyncStep, Refuse, InsertConflict, BreakDeadlock, Abandon
<1> QED
  BY <1>1, <1>2

LEMMA AtomicStep ==
  ASSUME Convertible, AtomicInv, NEW w \in Worker, WorkerStep(w), NEW l \in Link, links'[l] # None
  PROVE  \E n \in SheetNo : sheets'[n] # None /\ sheets'[n].asset = links'[l].asset
<1>t. TypeOK /\ TypeInv /\ SheetInv /\ LinkInv
  BY DEF AtomicInv, CauseInv, SheetInv, TypeInv
<1>1. CASE Commit(w)
  <2>1. links'[l] = IF newLinks[w][l] # None THEN newLinks[w][l] ELSE links[l]
    BY <1>t, <1>1, CommittedLinks
  <2>2. CASE newLinks[w][l] # None
    <3>1. links'[l].asset = order[w].asset
      BY <1>t, <2>1, <2>2 DEF LinkInv, LinkPart, GoodRows, GoodRow
    <3>2. /\ sheet[w] \in SheetNo /\ sheets'[sheet[w]] # None
          /\ sheets'[sheet[w]].asset = order[w].asset
      BY <1>t, <1>1, CommittedSheet DEF SheetFor
    <3> QED
      BY <3>1, <3>2
  <2>3. CASE newLinks[w][l] = None
    <3>1. PICK n \in SheetNo : sheets[n] # None /\ sheets[n].asset = links[l].asset
      BY <2>1, <2>3 DEF AtomicInv
    <3>2. sheets'[n] = sheets[n]
      BY <1>t, <1>1, <3>1, CommittedSheet
    <3> QED
      BY <2>1, <2>3, <3>1, <3>2
  <2> QED
    BY <2>2, <2>3
<1>2. CASE ~Commit(w)
  <2>1. sheets' = sheets
    BY <1>t, <1>2, QuietSteps, ChosenSheet, InsertedSheet DEF Quiet, StoreOps, dbVars
  <2>2. links' = links
    BY <1>2, NeverLeaks DEF WorkerStep, SyncStep, Fetch, FindAsset, AddAsset, FindType, PutType,
         FindLink, PutLink, FindSheet, AddSheet, StoreOps, Refuse, Finish, InsertConflict,
         BreakDeadlock, Abandon, Rollback, dbVars
  <2> QED
    BY <2>1, <2>2 DEF AtomicInv
<1> QED
  BY <1>1, <1>2

LEMMA AtomicInit == Init => AtomicInv
BY CauseInit DEF Init, NoRows, AtomicInv

LEMMA AtomicNext ==
  ASSUME Convertible
  PROVE  AtomicInv /\ [Next]_vars => AtomicInv'
<1> SUFFICES ASSUME AtomicInv, [Next]_vars PROVE AtomicInv'
  OBVIOUS
<1>1. CauseInv'
  BY CauseNext DEF AtomicInv
<1>2. CASE UNCHANGED vars \/ \E a \in Asset : Map(a)
  BY <1>1, <1>2 DEF AtomicInv, Map, vars, dbVars, localVars
<1>3. ASSUME NEW w \in Worker, WorkerStep(w) PROVE AtomicInv'
  BY <1>1, <1>3, NoLeak, AtomicStep DEF AtomicInv
<1> QED
  BY <1>2, <1>3 DEF Next, WorkerStep

(* If every number can be converted, a synchronisation that fails leaves   *)
(* no failure causes behind (process_job, session_scope).                  *)
THEOREM Atomic ==
  ASSUME Convertible
  PROVE  Spec => []NoPartialSync
<1>1. ASSUME AtomicInv PROVE NoPartialSync
  <2>1. DOMAIN links = Link /\ DOMAIN sheets = SheetNo
    BY <1>1 DEF AtomicInv, CauseInv, SheetInv, TypeInv, TypeOK
  <2> QED
    BY <1>1, <2>1 DEF AtomicInv, NoPartialSync, Known
<1> QED
  BY AtomicInit, AtomicNext, <1>1, PTL DEF Spec

-----------------------------------------------------------------------------
(* The assets and the failure types, as far as the refinement needs them.  *)
TypeDone(w, i) ==
  DoneWith(w, i) \/ (pc[w] \in {"find_link", "put_link", "leak"} /\ i = item[w])

MasterPart(w) ==
  /\ newAssets[w] \subseteq {order[w].asset}
  /\ pc[w] \notin {"idle", "find_asset", "add_asset", "synced"} =>
       order[w].asset \in assets \cup newAssets[w]
  /\ \A c \in Cause : newTypes[w][c] # None => c \in CausesOf(answer[w])
  /\ pc[w] = "put_type" /\ seenType[w] # None => TypeOf(w, Current(w).cause) # None
  /\ \A i \in DOMAIN answer[w] : TypeDone(w, i) => TypeOf(w, answer[w][i].cause) # None

MasterInv == TypeInv /\ \A w \in Worker : MasterPart(w)

LEMMA MasterInit == Init => MasterInv
<1> SUFFICES ASSUME Init PROVE MasterInv
  OBVIOUS
<1>1. \A w \in Worker : MasterPart(w)
  BY DEF Init, NoRows, MasterPart, TypeDone, DoneWith, Looping
<1> QED
  BY <1>1, TypeInit DEF MasterInv

(* Rows of assets and failure_types are never deleted.                     *)
LEMMA MasterStays ==
  ASSUME TypeOK, [Next]_vars
  PROVE  /\ assets \subseteq assets'
         /\ \A c \in Cause : types[c] # None => types'[c] # None
<1>1. assets \subseteq assets'
  BY DEF Next, vars, SyncStep, Fetch, FindAsset, AddAsset, FindType, PutType, FindLink, PutLink,
         Leak, FindSheet, AddSheet, StoreOps, Refuse, Commit, Finish, InsertConflict,
         BreakDeadlock, Abandon, Map, Rollback, dbVars
<1>2. UNCHANGED types \/ \E w \in Worker : types' = Merged(types, newTypes[w])
  BY DEF Next, vars, SyncStep, Fetch, FindAsset, AddAsset, FindType, PutType, FindLink, PutLink,
         Leak, FindSheet, AddSheet, StoreOps, Refuse, Commit, Finish, InsertConflict,
         BreakDeadlock, Abandon, Map, Rollback, dbVars
<1>3. ASSUME NEW w \in Worker, types' = Merged(types, newTypes[w]), NEW c \in Cause, types[c] # None
      PROVE  types'[c] # None
  BY <1>3 DEF Merged, TypeOK
<1> QED
  BY <1>1, <1>2, <1>3

LEMMA ItemCause ==
  ASSUME TypeOK, NEW w \in Worker, NEW i \in DOMAIN answer[w]
  PROVE  answer[w][i].cause \in Cause
BY AnswerItems DEF Item

LEMMA MasterUntouched ==
  ASSUME MasterInv, [Next]_vars, NEW v \in Worker, Untouched(v)
  PROVE  MasterPart(v)'
<1>t. TypeOK /\ LocalOK(v) /\ MasterPart(v)
  BY DEF MasterInv, TypeInv
<1>0. /\ assets \subseteq assets'
      /\ \A c \in Cause : types[c] # None => types'[c] # None
  BY <1>t, MasterStays
<1>1. ASSUME NEW c \in Cause, TypeOf(v, c) # None PROVE TypeOf(v, c)' # None
  BY <1>0, <1>1 DEF TypeOf, Untouched
<1>2. pc[v] = "put_type" => Current(v).cause \in Cause
  BY <1>t, CurrentItem DEF Looping, Item
<1>3. Current(v)' = Current(v)
  BY DEF Current, Untouched
<1>4. \A i \in DOMAIN answer[v] : TypeDone(v, i)' <=> TypeDone(v, i)
  BY DEF TypeDone, DoneWith, Untouched
<1>5. pc'[v] = "put_type" /\ seenType'[v] # None => TypeOf(v, Current(v).cause)' # None
  BY <1>t, <1>1, <1>2, <1>3 DEF MasterPart, Untouched
<1>6. ASSUME NEW i \in DOMAIN answer'[v], TypeDone(v, i)'
      PROVE  TypeOf(v, answer[v][i].cause)' # None
  <2>1. i \in DOMAIN answer[v] /\ TypeDone(v, i) /\ answer'[v] = answer[v]
    BY <1>4, <1>6 DEF Untouched
  <2>2. TypeOf(v, answer[v][i].cause) # None /\ answer[v][i].cause \in Cause
    BY <1>t, <2>1, ItemCause DEF MasterPart
  <2> QED
    BY <1>1, <2>1, <2>2
<1> QED
  BY <1>t, <1>0, <1>5, <1>6 DEF MasterPart, Untouched

LEMMA MasterOwn ==
  ASSUME MasterInv, NEW w \in Worker, WorkerStep(w)
  PROVE  MasterPart(w)'
<1> USE DEF dbVars, txVars, localVars, seen
<1>t. TypeOK /\ LocalOK(w) /\ MasterPart(w)
  BY DEF MasterInv, TypeInv
<1>0. ASSUME newAssets'[w] = {}, \A c \in Cause : newTypes'[w][c] = None,
             pc'[w] \in {"idle", "synced", "find_asset"}
      PROVE  MasterPart(w)'
  BY <1>0 DEF MasterPart, TypeDone, DoneWith, Looping
<1>1. CASE Rollback(w) \/ Leak(w) \/ Commit(w)
  <2>1. newAssets'[w] = {} /\ newTypes'[w] = NoRows(Cause) /\ pc'[w] \in {"idle", "synced"}
    BY <1>t, <1>1 DEF Rollback, Leak, Commit, EndTransaction, Leave, Goto, TypeOK
  <2> QED
    BY <1>0, <2>1 DEF NoRows
<1>2. CASE Finish(w) \/ Fetch(w)
  <2>1. /\ newTypes' = newTypes /\ newAssets' = newAssets
        /\ pc'[w] \in {"idle", "find_asset"} /\ Locked(w) = {}
    BY <1>t, <1>2 DEF Finish, Fetch, Leave, Goto, TypeOK, LocalOK
  <2>2. (\A c \in Cause : newTypes[w][c] = None) /\ newAssets[w] = {}
    <3>1. DOMAIN newTypes[w] = Cause
      BY <1>t DEF TypeOK
    <3>2. /\ \A c \in Known(newTypes[w]) : <<"type", c>> \in Locked(w)
          /\ \A a \in newAssets[w] : <<"asset", a>> \in Locked(w)
      BY DEF Locked
    <3> QED
      BY <2>1, <3>1, <3>2 DEF Known
  <2> QED
    BY <1>0, <2>1, <2>2
<1>3. CASE FindAsset(w) \/ AddAsset(w)
  <2>1. /\ order'[w] = order[w] /\ answer'[w] = answer[w] /\ newTypes'[w] = newTypes[w]
        /\ pc'[w] \in {"add_asset", "find_type", "find_sheet"} /\ item'[w] = 1
        /\ pc'[w] = "find_sheet" => answer[w] = <<>>
        /\ assets' = assets
    BY <1>t, <1>3 DEF FindAsset, AddAsset, AfterAsset, Goto, LocalOK, TypeOK
  <2>2. /\ newAssets'[w] \subseteq {order[w].asset}
        /\ pc'[w] # "add_asset" => order[w].asset \in assets \cup newAssets'[w]
    <3>1. CASE FindAsset(w)
      BY <1>t, <3>1 DEF FindAsset, AfterAsset, Goto, TypeOK, MasterPart
    <3>2. CASE AddAsset(w)
      BY <1>t, <3>2 DEF AddAsset, TypeOK
    <3> QED
      BY <1>3, <3>1, <3>2
  <2>3. \A i \in DOMAIN answer[w] : ~TypeDone(w, i)'
    <3> SUFFICES ASSUME NEW i \in DOMAIN answer[w] PROVE ~TypeDone(w, i)'
      OBVIOUS
    <3>1. i \in 1..Len(answer[w]) /\ Len(answer[w]) \in Nat
      BY <1>t, AnswerItems
    <3>2. answer[w] # <<>>
      BY <1>t, <3>1, EmptySeq
    <3> QED
      BY <2>1, <3>1, <3>2 DEF TypeDone, DoneWith, Looping
  <2> QED
    BY <1>t, <2>1, <2>2, <2>3 DEF MasterPart
<1>d. ASSUME UNCHANGED <<assets, types, newAssets, newTypes>>,
             order'[w] = order[w], answer'[w] = answer[w],
             pc[w] \notin {"idle", "find_asset", "add_asset", "synced"},
             \A i \in DOMAIN answer[w] : TypeDone(w, i)' => TypeDone(w, i),
             pc'[w] # "put_type"
      PROVE  MasterPart(w)'
  BY <1>t, <1>d DEF MasterPart, TypeOf
<1>4. CASE FindType(w)
  <2>1. /\ UNCHANGED <<assets, types, newAssets, newTypes, order, answer, item>>
        /\ pc[w] = "find_type" /\ pc'[w] = "put_type"
        /\ seenType'[w] = TypeOf(w, Current(w).cause)
    BY <1>t, <1>4 DEF FindType, Goto, TypeOK
  <2>2. \A i \in DOMAIN answer[w] : TypeDone(w, i)' => TypeDone(w, i)
    BY <2>1 DEF TypeDone, DoneWith, Looping
  <2>3. TypeOf(w, Current(w).cause)' = TypeOf(w, Current(w).cause)
    BY <2>1 DEF TypeOf, Current
  <2> QED
    BY <1>t, <2>1, <2>2, <2>3 DEF MasterPart, TypeOf
<1>5. CASE PutType(w)
  <2>1. /\ UNCHANGED <<assets, types, newAssets, order, answer, item>>
        /\ pc[w] = "put_type" /\ pc'[w] = "find_link"
        /\ newTypes' = IF WritesType(w)
                 THEN [newTypes EXCEPT ![w][Current(w).cause] = Current(w).code] ELSE newTypes
    BY <1>t, <1>5 DEF PutType, Goto, TypeOK
  <2>2. Current(w).cause \in Cause /\ Current(w).code \in Code /\ Current(w).code # None
    <3>1. Current(w) \in Item
      BY <1>t, <2>1, CurrentItem DEF Looping
    <3> QED
      BY <3>1, DataAssumption DEF Item
  <2>3. \A c \in Cause : /\ newTypes[w][c] # None => newTypes'[w][c] # None
                         /\ newTypes'[w][c] # None => newTypes[w][c] # None \/ c = Current(w).cause
    BY <1>t, <2>1, <2>2 DEF TypeOK
  <2>4. Current(w).cause \in CausesOf(answer[w])
    BY <1>t, <2>1 DEF LocalOK, Looping, CausesOf, Current
  <2>5. TypeOf(w, Current(w).cause)' # None
    <3>1. CASE WritesType(w)
      <4>1. newTypes'[w][Current(w).cause] = Current(w).code
        BY <1>t, <2>1, <2>2, <3>1 DEF TypeOK
      <4> QED
        BY <2>1, <2>2, <4>1 DEF TypeOf, Current
    <3>2. CASE ~WritesType(w)
      <4>1. seenType[w] # None
        BY <2>2, <3>2 DEF WritesType
      <4> QED
        BY <1>t, <2>1, <3>2, <4>1 DEF MasterPart, TypeOf, Current
    <3> QED
      BY <3>1, <3>2
  <2>6. ASSUME NEW i \in DOMAIN answer[w], TypeDone(w, i)'
        PROVE  TypeOf(w, answer[w][i].cause)' # None
    <3>1. CASE i = item[w]
      BY <2>1, <2>5, <3>1 DEF Current
    <3>2. CASE i # item[w]
      <4>1. TypeDone(w, i) /\ answer[w][i].cause \in Cause
        BY <1>t, <2>1, <2>6, <3>2, ItemCause DEF TypeDone, DoneWith, Looping
      <4> QED
        BY <1>t, <2>1, <2>3, <4>1 DEF MasterPart, TypeOf
    <3> QED
      BY <3>1, <3>2
  <2> QED
    BY <1>t, <2>1, <2>3, <2>4, <2>6 DEF MasterPart
<1>6. CASE FindLink(w)
  <2>1. /\ UNCHANGED <<assets, types, newAssets, newTypes, order, answer, item>>
        /\ pc[w] = "find_link" /\ pc'[w] \in {"put_link", "leak"}
    BY <1>t, <1>6 DEF FindLink, Goto, TypeOK
  <2> QED
    BY <1>d, <2>1 DEF TypeDone, DoneWith, Looping
<1>7. CASE PutLink(w)
  <2>1. /\ UNCHANGED <<assets, types, newAssets, newTypes, order, answer>>
        /\ item'[w] = item[w] + 1 /\ pc[w] = "put_link" /\ pc'[w] \in {"find_type", "find_sheet"}
        /\ pc'[w] = "find_sheet" => item[w] = Len(answer[w])
    BY <1>t, <1>7 DEF PutLink, Goto, TypeOK
  <2>2. ASSUME NEW i \in DOMAIN answer[w], TypeDone(w, i)' PROVE TypeDone(w, i)
    <3>1. i \in 1..Len(answer[w]) /\ Len(answer[w]) \in Nat /\ item[w] \in Nat
      BY <1>t, AnswerItems DEF TypeOK
    <3> QED
      BY <2>1, <2>2, <3>1 DEF TypeDone, DoneWith, Looping
  <2> QED
    BY <1>d, <2>1, <2>2
<1>8. CASE FindSheet(w) \/ AddSheet(w) \/ StoreOps(w)
  <2>1. /\ UNCHANGED <<assets, types, newAssets, newTypes, order, answer, item>>
        /\ pc[w] \in {"find_sheet", "store_ops"} /\ pc'[w] \in {"store_ops", "commit"}
    BY <1>t, <1>8 DEF FindSheet, AddSheet, StoreOps, Goto, TypeOK
  <2> QED
    BY <1>d, <2>1 DEF TypeDone, DoneWith, Looping
<1> QED
  BY <1>1, <1>2, <1>3, <1>4, <1>5, <1>6, <1>7, <1>8
     DEF WorkerStep, SyncStep, Refuse, InsertConflict, BreakDeadlock, Abandon

LEMMA MasterNext == MasterInv /\ [Next]_vars => MasterInv'
<1> SUFFICES ASSUME MasterInv, [Next]_vars PROVE MasterInv'
  OBVIOUS
<1>t. TypeInv' /\ TypeOK
  BY Typing DEF MasterInv, TypeInv
<1>1. ASSUME NEW v \in Worker PROVE MasterPart(v)'
  <2>1. CASE UNCHANGED vars \/ \E a \in Asset : Map(a)
    <3>1. Untouched(v)
      BY <2>1 DEF Untouched, Map, vars, dbVars, txVars, localVars
    <3> QED
      BY <3>1, MasterUntouched
  <2>2. ASSUME NEW w \in Worker, WorkerStep(w) PROVE MasterPart(v)'
    BY <1>t, <2>2, MasterOwn, MasterUntouched, OthersUntouched
  <2> QED
    BY <2>1, <2>2 DEF Next, WorkerStep
<1> QED
  BY <1>t, <1>1 DEF MasterInv

-----------------------------------------------------------------------------
(* A commit is the one step of WorkorderStore that stores a work order.    *)
LEMMA CausesStored ==
  ASSUME LinkInv, MasterInv, NEW w \in Worker, Commit(w)
  PROVE  Store!StoreCauses(order[w], answer[w]) /\ assets' = assets \cup {order[w].asset}
<1> USE DEF Store!Known
<1> DEFINE ans == answer[w]
<1>t. TypeOK /\ MasterPart(w) /\ LinkPart(w) /\ LinksKept(w) /\ pc[w] = "commit"
  BY LinksOfStep DEF MasterInv, LinkInv, TypeInv, Commit, WorkerStep, SyncStep
<1>u. TypeOK'
  BY <1>t, TypingStep DEF MasterInv, Next, SyncStep
<1>d. /\ DOMAIN types = Cause /\ DOMAIN types' = Cause
      /\ DOMAIN links = Link /\ DOMAIN links' = Link
  BY <1>t, <1>u DEF TypeOK
<1>c. CausesOf(ans) \subseteq Cause /\ LinksOf(ans) \subseteq Link
  BY <1>t, AnswerItems DEF CausesOf, LinksOf, Item
<1>1. \A c \in Cause : types'[c] = IF newTypes[w][c] # None THEN newTypes[w][c] ELSE types[c]
  BY <1>t DEF Commit, Merged, TypeOK
<1>2. \A c \in CausesOf(ans) : types'[c] # None
  <2>1. ASSUME NEW i \in DOMAIN ans PROVE types'[ans[i].cause] # None
    <3>1. TypeOf(w, ans[i].cause) # None /\ ans[i].cause \in Cause
      BY <1>t, ItemCause DEF MasterPart, TypeDone, DoneWith
    <3> QED
      BY <1>1, <3>1 DEF TypeOf
  <2> QED
    BY <2>1 DEF CausesOf
<1>3. /\ Store!Known(types') = Store!Known(types) \cup CausesOf(ans)
      /\ \A c \in Cause \ CausesOf(ans) : types'[c] = types[c]
  <2>1. \A c \in Cause \ CausesOf(ans) : types'[c] = types[c]
    BY <1>t, <1>1 DEF MasterPart
  <2> QED
    BY <1>1, <1>2, <1>c, <1>d, <2>1
<1>4. \A l \in Link : links'[l] = IF newLinks[w][l] # None THEN newLinks[w][l] ELSE links[l]
  BY CommittedLinks
<1>5. \A l \in LinksOf(ans) : links'[l] # None /\ links'[l].asset = order[w].asset
  BY CommittedLinks
<1>6. \A l \in Link \ LinksOf(ans) : links'[l] = links[l]
  BY <1>t, <1>4 DEF LinkPart, GoodRows, GoodRow
<1>7. \A l \in Store!Known(links) : links'[l].asset = links[l].asset
  BY <1>t, <1>d DEF LinksKept
<1>8. Store!Known(links') = Store!Known(links) \cup LinksOf(ans)
  BY <1>5, <1>6, <1>c, <1>d, <1>t DEF LinksKept
<1>9. assets' = assets \cup {order[w].asset}
  BY <1>t DEF Commit, MasterPart
<1>s. Store!CausesOf(ans) = CausesOf(ans) /\ Store!LinksOf(ans) = LinksOf(ans)
  BY DEF Store!CausesOf, CausesOf, Store!LinksOf, LinksOf
<1> QED
  BY <1>3, <1>5, <1>6, <1>7, <1>8, <1>9, <1>s DEF Store!StoreCauses

LEMMA SheetStored ==
  ASSUME SerialInv, SerialInv', NEW w \in Worker, Commit(w)
  PROVE  Store!StoreSheet(order[w], answer[w])
<1> DEFINE N   == sheet[w]
           row == sheets'[N]
           o   == order[w]
<1>t. SheetInv /\ TypeOK /\ TypeOK' /\ pc[w] = "commit"
  BY DEF SerialInv, SheetInv, TypeInv, Commit
<1>n. /\ N \in SheetNo
      /\ \A n \in SheetNo : n # N => sheets'[n] = sheets[n] /\ ops'[n] = ops[n]
      /\ SheetFor(row, o, answer[w])
      /\ sheets[N] # None => row = sheets[N]
  BY <1>t, CommittedSheet
<1>1. row \in SheetRow
  BY <1>t, <1>n DEF TypeOK, SheetFor
<1>2. row = Store!Sheet(o, row.link)
  <2>1. row = [asset |-> row.asset, slot |-> row.slot, link |-> row.link]
    BY <1>1 DEF SheetRow
  <2> QED
    BY <1>n, <2>1 DEF Store!Sheet, SheetFor
<1>3. row.link \in Store!Targets(o, answer[w])
  BY <1>n DEF SheetFor, Targets, Store!Targets
<1>4. ASSUME NEW m \in SheetNo \ {N} PROVE ~Store!SameKey(sheets[m], o)
  <2> SUFFICES ASSUME sheets[m] # None, sheets[m].asset = o.asset, sheets[m].slot = o.slot
               PROVE  FALSE
    BY DEF Store!SameKey
  <2>1. sheets'[m] = sheets[m] /\ row # None /\ row.asset = o.asset /\ row.slot = o.slot
    BY <1>n DEF SheetFor
  <2>2. m \in Known(sheets') /\ N \in Known(sheets')
    BY <1>t, <1>n, <2>1 DEF Known, TypeOK
  <2> QED
    BY <2>1, <2>2 DEF SerialInv, OneWorksheet
<1>5. sheets' = [sheets EXCEPT ![N] = row]
  BY <1>t, <1>n DEF TypeOK
<1>6. /\ ops' = [ops EXCEPT ![N] = Received(answer[w])]
      /\ \A p \in Operation : ops[N][p] <= ops'[N][p]
  <2>1. ops'[N] = [p \in Operation |-> ops[N][p] + added[w][p]]
    BY <1>t, CommittedSheet
  <2>2. \A p \in Operation : ops[N][p] + added[w][p] = Received(answer[w])[p]
    BY <1>t DEF SerialInv, AddedUp
  <2>3. ops'[N] = Received(answer[w])
    BY <2>1, <2>2 DEF Received
  <2>4. \A p \in Operation : ops[N][p] \in Nat /\ added[w][p] \in Nat
    BY <1>t, <1>n DEF TypeOK
  <2>5. \A p \in Operation : ops[N][p] <= ops[N][p] + added[w][p]
    BY <2>4
  <2>6. ops' = [ops EXCEPT ![N] = ops'[N]]
    BY <1>t, <1>n DEF TypeOK
  <2> QED
    BY <2>1, <2>3, <2>5, <2>6
<1>7. Received(answer[w]) = Store!Received(answer[w])
  <2>1. \A S : Cardinality(S) = Store!Cardinality(S)
    BY DEF Cardinality, Store!Cardinality
  <2>2. \A p : Places(answer[w], p) = Store!Places(answer[w], p)
    BY DEF Places, Store!Places
  <2> QED
    BY <2>1, <2>2 DEF Received, Store!Received
<1>8. sheets[N] \in {None, row}
  BY <1>n
<1> QED
  BY <1>n, <1>2, <1>3, <1>4, <1>5, <1>6, <1>7, <1>8 DEF Store!StoreSheet

RefinedInv == SerialInv /\ AtomicInv /\ MasterInv

LEMMA StoreStep ==
  ASSUME Convertible, RefinedInv, RefinedInv', [Next]_vars
  PROVE  [Store!Next]_Store!vars
<1> USE DEF Store!vars, dbVars
<1>1. CASE UNCHANGED vars
  BY <1>1 DEF vars
<1>2. ASSUME NEW a \in Asset, Map(a) PROVE Store!Next
  BY <1>2 DEF Map, Store!Map, Store!Next
<1>3. ASSUME NEW w \in Worker, Commit(w) PROVE Store!Next
  <2>1. order[w] \in Orders /\ answer[w] \in Answers[order[w].asset]
    BY <1>3 DEF Commit, RefinedInv, MasterInv, TypeInv, LocalOK
  <2>2. LinkInv /\ MasterInv /\ SerialInv /\ SerialInv'
    BY DEF RefinedInv, AtomicInv, CauseInv
  <2>3. Store!Store(order[w])
    BY <1>3, <2>1, <2>2, CausesStored, SheetStored DEF Store!Store
  <2> QED
    BY <2>1, <2>3 DEF Store!Next
<1>4. ASSUME NEW w \in Worker, WorkerStep(w), ~Commit(w) PROVE UNCHANGED dbVars
  BY <1>4, NeverLeaks DEF RefinedInv, WorkerStep, SyncStep, Fetch, FindAsset, AddAsset, FindType,
         PutType, FindLink, PutLink, FindSheet, AddSheet, StoreOps, Refuse, Finish,
         InsertConflict, BreakDeadlock, Abandon, Rollback
<1> QED
  BY <1>1, <1>2, <1>3, <1>4 DEF Next, WorkerStep

(* Seen from outside, each synchronisation takes place at once or not at   *)
(* all, whatever the interleaving of its statements with those of others   *)
(* (process_job, synchronize_workorder).                                   *)
THEOREM Refinement ==
  ASSUME Overlap = FALSE, Convertible
  PROVE  Spec => ImplementsStore
<1>1. Init => Store!Init
  BY DEF Init, Store!Init, NoRows, Nothing
<1>2. Init => RefinedInv
  BY SerialInit, AtomicInit, MasterInit DEF RefinedInv
<1>3. RefinedInv /\ [Next]_vars => RefinedInv'
  BY SerialNext, AtomicNext, MasterNext DEF RefinedInv
<1>4. RefinedInv /\ RefinedInv' /\ [Next]_vars => [Store!Next]_Store!vars
  BY StoreStep
<1> QED
  BY <1>1, <1>2, <1>3, <1>4, PTL DEF Spec, ImplementsStore, Store!Spec
=============================================================================
