----------------------------- MODULE WorkorderSync -----------------------------
(***************************************************************************)
(* The synchronisation of work orders (app/maintenance/data_sync.py) in    *)
(* several workers at once.  Each runs synchronize_workorder in one        *)
(* transaction of its own at PostgreSQL's READ COMMITTED: a SELECT sees    *)
(* what is committed and what the session itself has flushed; a flush that *)
(* inserts or updates a row waits while another session has it locked.     *)
(*                                                                         *)
(* The CMMS is external: each GET returns one of Answers.  So is           *)
(* PostgreSQL: locks, unique indexes and the end of a deadlock.            *)
(***************************************************************************)
EXTENDS SyncData

CONSTANTS
  Worker,    \* worker processes
  SheetNo,   \* asset_worksheet_list_id, handed out by the database
  Overlap    \* whether two workers may have work orders of one worksheet

LinkRow  == [asset : Asset, cause : Cause, rate : 0..MaxRate]
SheetRow == [asset : Asset, slot : Slot, link : Link \cup {None}]

ASSUME SyncAssumption ==
  /\ SheetNo \subseteq Nat
  /\ None \notin SheetNo /\ None \notin LinkRow /\ None \notin SheetRow
  /\ Overlap \in BOOLEAN

VARIABLES
  assets,    \* committed: assets with a row
  types,     \* committed: types[c] is the name in failure_types
  links,     \* committed: links[l] is the row of asset_failure_types
  sheets,    \* committed: sheets[n] is the row of asset_worksheet_lists
  ops,       \* committed: ops[n][p] counts rows of operations_done_lists
  pc,        \* pc[w]: where worker w is in synchronize_workorder
  order,     \* order[w]: its work order
  answer,    \* answer[w]: what the CMMS answered
  item,      \* item[w]: the failure cause it is at
  seenType,  \* seenType[w], seenLink[w]: what its last look-up of a failure type
  seenLink,  \* and of a link returned, None for no row
  newAssets, \* flushed by w, not committed
  newTypes,
  newLinks,
  newSheet,  \* newSheet[w]: the worksheet row it has inserted, None for none
  sheet,     \* sheet[w]: the number of its worksheet
  added      \* added[w][p]: operations it has inserted

dbVars == <<assets, types, links, sheets, ops>>
txVars == <<newAssets, newTypes, newLinks, newSheet, sheet, added>>
localVars == <<pc, order, answer, item, seenType, seenLink>>
seen == <<seenType, seenLink>>
vars == <<dbVars, txVars, localVars>>

NoRows(S) == [x \in S |-> None]
Nothing   == [p \in Operation |-> 0]

Known(t) == {x \in DOMAIN t : t[x] # None}

(* What a table looks like with the rows of new written over those of old. *)
Merged(old, new) == [x \in DOMAIN old |-> IF new[x] # None THEN new[x] ELSE old[x]]

Init ==
  /\ assets = {}
  /\ types = NoRows(Cause)
  /\ links = NoRows(Link)
  /\ sheets = NoRows(SheetNo)
  /\ ops = [n \in SheetNo |-> Nothing]
  /\ pc = [w \in Worker |-> "idle"]
  /\ order = [w \in Worker |-> None]
  /\ answer = [w \in Worker |-> <<>>]
  /\ item = [w \in Worker |-> 1]
  /\ seenType = [w \in Worker |-> None]
  /\ seenLink = [w \in Worker |-> None]
  /\ newAssets = [w \in Worker |-> {}]
  /\ newTypes = [w \in Worker |-> NoRows(Cause)]
  /\ newLinks = [w \in Worker |-> NoRows(Link)]
  /\ newSheet = [w \in Worker |-> None]
  /\ sheet = [w \in Worker |-> None]
  /\ added = [w \in Worker |-> Nothing]

-----------------------------------------------------------------------------
(* The failure cause w is at, and how it sees the tables.                  *)
Current(w)    == answer[w][item[w]]
TypeOf(w, c)  == IF newTypes[w][c] # None THEN newTypes[w][c] ELSE types[c]
LinkOf(w, l)  == IF newLinks[w][l] # None THEN newLinks[w][l] ELSE links[l]

(* The rate that goes into the row; one that cannot be converted leaves it *)
(* as it was read, or NULL in a new one.                                   *)
NewRate(w) ==
  IF Current(w).overflow # "rate" THEN Current(w).rate
  ELSE IF seenLink[w] = None THEN 0 ELSE seenLink[w].rate

(* The ORM sends an UPDATE only for a value that differs from the one that *)
(* was read.                                                               *)
WritesType(w) == seenType[w] # Current(w).code
WritesLink(w) ==
  \/ seenLink[w] = None
  \/ seenLink[w].cause # Current(w).cause
  \/ seenLink[w].rate # NewRate(w)

(* Keys whose rows or index entries w has locked, and the one its next     *)
(* flush needs.                                                            *)
Locked(w) ==
  {<<"asset", a>> : a \in newAssets[w]}
    \cup {<<"type", c>> : c \in Known(newTypes[w])}
    \cup {<<"link", l>> : l \in Known(newLinks[w])}

Needed(w) ==
  CASE pc[w] = "add_asset" -> {<<"asset", order[w].asset>>}
    [] pc[w] = "put_type" /\ WritesType(w) -> {<<"type", Current(w).cause>>}
    [] pc[w] \in {"put_link", "leak"} /\ WritesLink(w) -> {<<"link", Current(w).link>>}
    [] OTHER -> {}

WaitsFor(w, v) == v # w /\ Needed(w) \cap Locked(v) # {}
Waiting(w) == \E v \in Worker : WaitsFor(w, v)

(* Some workers that w belongs to wait for one another in a circle.        *)
Deadlocked(w) ==
  \E S \in SUBSET Worker :
    /\ w \in S
    /\ \A v \in S : /\ \E u \in S : WaitsFor(v, u)
                    /\ \E u \in S : WaitsFor(u, v)

Goto(w, p) == pc' = [pc EXCEPT ![w] = p]

(* What w has flushed is gone or visible, and its locks with it.           *)
EndTransaction(w) ==
  /\ newAssets' = [newAssets EXCEPT ![w] = {}]
  /\ newTypes' = [newTypes EXCEPT ![w] = NoRows(Cause)]
  /\ newLinks' = [newLinks EXCEPT ![w] = NoRows(Link)]
  /\ newSheet' = [newSheet EXCEPT ![w] = None]
  /\ sheet' = [sheet EXCEPT ![w] = None]
  /\ added' = [added EXCEPT ![w] = Nothing]

Leave(w) ==
  /\ Goto(w, "idle")
  /\ order' = [order EXCEPT ![w] = None]
  /\ answer' = [answer EXCEPT ![w] = <<>>]
  /\ item' = [item EXCEPT ![w] = 1]
  /\ seenType' = [seenType EXCEPT ![w] = None]
  /\ seenLink' = [seenLink EXCEPT ![w] = None]

(* Mutations: the rollback is forgotten, so that the locks stay, or so     *)
(* that the commit of update_job_status stores what there is.              *)
ForgetRollback(w) ==
  /\ Leave(w)
  /\ UNCHANGED <<dbVars, txVars>>

CommitInstead(w) ==
  /\ assets' = assets \cup newAssets[w]
  /\ types' = Merged(types, newTypes[w])
  /\ links' = Merged(links, newLinks[w])
  /\ EndTransaction(w)
  /\ Leave(w)
  /\ UNCHANGED <<sheets, ops>>

(* The session is rolled back, and the job gets its result elsewhere.      *)
Rollback(w) ==
  /\ EndTransaction(w)
  /\ Leave(w)
  /\ UNCHANGED dbVars

-----------------------------------------------------------------------------
(* v has a work order of the worksheet of o.                               *)
WorksOn(v, o) ==
  pc[v] # "idle" /\ order[v].asset = o.asset /\ order[v].slot = o.slot

(* GET /asset_failure_causes.  An answer that is malformed, or none at all,*)
(* ends the synchronisation before it has read or written anything.        *)
Fetch(w) ==
  /\ pc[w] = "idle"
  /\ \E o \in Orders :
       /\ Overlap \/ \A v \in Worker : ~WorksOn(v, o)
       /\ \E ans \in Answers[o.asset] :
            /\ WellFormed(ans)
            /\ answer' = [answer EXCEPT ![w] = ans]
       /\ order' = [order EXCEPT ![w] = o]
  /\ Goto(w, "find_asset")
  /\ UNCHANGED <<dbVars, txVars, item, seen>>

(* ensure_asset_id                                                         *)
AfterAsset(w) == IF answer[w] = <<>> THEN "find_sheet" ELSE "find_type"

FindAsset(w) ==
  /\ pc[w] = "find_asset"
  /\ Goto(w, IF order[w].asset \in assets THEN AfterAsset(w) ELSE "add_asset")
  /\ UNCHANGED <<dbVars, txVars, order, answer, item, seen>>

AddAsset(w) ==
  /\ pc[w] = "add_asset"
  /\ order[w].asset \notin assets
  /\ ~Waiting(w)
  /\ newAssets' = [newAssets EXCEPT ![w] = {order[w].asset}]
  /\ Goto(w, AfterAsset(w))
  /\ UNCHANGED <<dbVars, newTypes, newLinks, newSheet, sheet, added,
                 order, answer, item, seen>>

(* ensure_failure_type: session.get, then INSERT or UPDATE.                *)
FindType(w) ==
  /\ pc[w] = "find_type"
  /\ Current(w).overflow # "cause"
  /\ seenType' = [seenType EXCEPT ![w] = TypeOf(w, Current(w).cause)]
  /\ Goto(w, "put_type")
  /\ UNCHANGED <<dbVars, txVars, order, answer, item, seenLink>>

(* A row that was not there when w looked, and is there when it inserts.   *)
DuplicateKey(w) ==
  \/ pc[w] = "add_asset" /\ order[w].asset \in assets
  \/ pc[w] = "put_type" /\ seenType[w] = None /\ types[Current(w).cause] # None
  \/ pc[w] \in {"put_link", "leak"} /\ seenLink[w] = None /\ links[Current(w).link] # None

PutType(w) ==
  /\ pc[w] = "put_type"
  /\ ~DuplicateKey(w)
  /\ ~Waiting(w)
  /\ newTypes' = IF WritesType(w)
                 THEN [newTypes EXCEPT ![w][Current(w).cause] = Current(w).code]
                 ELSE newTypes
  /\ Goto(w, "find_link")
  /\ UNCHANGED <<dbVars, newAssets, newLinks, newSheet, sheet, added,
                 order, answer, item, seen>>

(* ensure_asset_failure_type: session.get, the checks, then the flush.     *)
RepeatedCause(w) == \E i \in 1..(item[w] - 1) : answer[w][i].cause = Current(w).cause

ForeignLink(w) ==
  LET row == LinkOf(w, Current(w).link) IN row # None /\ row.asset # order[w].asset

RefusedRate(w) == Current(w).overflow # "rate" /\ Current(w).rate > MaxRate

(* Mutations: a check is left out.                                         *)
RefusedTwice(w) == ForeignLink(w) \/ RefusedRate(w)
RefusedForeign(w) == RepeatedCause(w) \/ RefusedRate(w)

RefusedItem(w) == RepeatedCause(w) \/ ForeignLink(w) \/ RefusedRate(w)

FindLink(w) ==
  /\ pc[w] = "find_link"
  /\ ~RefusedItem(w)
  /\ seenLink' = [seenLink EXCEPT ![w] = LinkOf(w, Current(w).link)]
  /\ Goto(w, IF Current(w).overflow = "none" THEN "put_link" ELSE "leak")
  /\ UNCHANGED <<dbVars, txVars, order, answer, item, seenType>>

(* An UPDATE sets the changed columns only, of the row as it is by then.   *)
NewLink(w) ==
  LET i   == Current(w)
      row == LinkOf(w, i.link) IN
  IF seenLink[w] = None THEN [asset |-> order[w].asset, cause |-> i.cause, rate |-> NewRate(w)]
  ELSE [row EXCEPT !.cause = IF seenLink[w].cause = i.cause THEN @ ELSE i.cause,
                   !.rate  = IF seenLink[w].rate = NewRate(w) THEN @ ELSE NewRate(w)]

LinksAfterPut(w) ==
  IF WritesLink(w) THEN [newLinks[w] EXCEPT ![Current(w).link] = NewLink(w)]
  ELSE newLinks[w]

PutLink(w) ==
  /\ pc[w] = "put_link"
  /\ ~DuplicateKey(w)
  /\ ~Waiting(w)
  /\ newLinks' = [newLinks EXCEPT ![w] = LinksAfterPut(w)]
  /\ item' = [item EXCEPT ![w] = @ + 1]
  /\ Goto(w, IF item[w] = Len(answer[w]) THEN "find_sheet" ELSE "find_type")
  /\ UNCHANGED <<dbVars, newAssets, newTypes, newSheet, sheet, added,
                 order, answer, seen>>

(* int() and float() of a number that is too large raise OverflowError,    *)
(* which process_job lets through.  main() catches it inside the           *)
(* session_scope of the job, whose end commits: what was flushed, and a    *)
(* link that is pending when its rate or severity fails, is stored.        *)
LeakedLinks(w) == IF pc[w] = "leak" THEN LinksAfterPut(w) ELSE newLinks[w]

Leak(w) ==
  /\ \/ pc[w] = "find_type" /\ Current(w).overflow = "cause"
     \/ pc[w] = "leak" /\ ~DuplicateKey(w) /\ ~Waiting(w)
  /\ assets' = assets \cup newAssets[w]
  /\ types' = Merged(types, newTypes[w])
  /\ links' = Merged(links, LeakedLinks(w))
  /\ EndTransaction(w)
  /\ Leave(w)
  /\ UNCHANGED <<sheets, ops>>

-----------------------------------------------------------------------------
(* store_asset_worksheet                                                   *)

(* Mutation: the SELECT asks for the failure type as well.                 *)
MatchingCause(w) ==
  {n \in Known(sheets) : /\ sheets[n].asset = order[w].asset
                         /\ sheets[n].slot = order[w].slot
                         /\ sheets[n].link \in Targets(order[w], answer[w])}

Matching(w) ==
  {n \in Known(sheets) : sheets[n].asset = order[w].asset /\ sheets[n].slot = order[w].slot}

(* No cause found, several worksheets, or one with another failure type.   *)
RefusedSheet(w) ==
  \/ Targets(order[w], answer[w]) = {}
  \/ Cardinality(Matching(w)) > 1
  \/ \E n \in Matching(w) : sheets[n].link \notin Targets(order[w], answer[w])

FindSheet(w) ==
  /\ pc[w] = "find_sheet"
  /\ ~RefusedSheet(w)
  /\ \E n \in Matching(w) : sheet' = [sheet EXCEPT ![w] = n]
  /\ Goto(w, "store_ops")
  /\ UNCHANGED <<dbVars, newAssets, newTypes, newLinks, newSheet, added,
                 order, answer, item, seen>>

FreeNumbers ==
  {n \in SheetNo : sheets[n] = None /\ \A v \in Worker : sheet[v] # n}

(* No unique index stands behind the SELECT, so that the INSERT waits for  *)
(* nobody and, being invisible to others, can follow it at once.           *)
AddSheet(w) ==
  /\ pc[w] = "find_sheet"
  /\ ~RefusedSheet(w)
  /\ Matching(w) = {}
  /\ \E n \in FreeNumbers :
       /\ \A m \in FreeNumbers : n <= m
       /\ sheet' = [sheet EXCEPT ![w] = n]
  /\ \E l \in Targets(order[w], answer[w]) :
       newSheet' = [newSheet EXCEPT ![w] =
                      [asset |-> order[w].asset, slot |-> order[w].slot, link |-> l]]
  /\ Goto(w, "store_ops")
  /\ UNCHANGED <<dbVars, newAssets, newTypes, newLinks, added, order, answer, item, seen>>

(* store_cmms_operations                                                   *)
RefusedOps(w) ==
  \E p \in Operation : ops[sheet[w]][p] > Received(answer[w])[p]

(* Mutation: the stored operations are not subtracted.                     *)
AllReceived(w) == [p \in Operation |-> Received(answer[w])[p]]

Missing(w) == [p \in Operation |-> Received(answer[w])[p] - ops[sheet[w]][p]]

StoreOps(w) ==
  /\ pc[w] = "store_ops"
  /\ ~RefusedOps(w)
  /\ added' = [added EXCEPT ![w] = Missing(w)]
  /\ Goto(w, "commit")
  /\ UNCHANGED <<dbVars, newAssets, newTypes, newLinks, newSheet, sheet,
                 order, answer, item, seen>>

(* A check fails: process_job rolls back and records the reason.           *)
Refuse(w) ==
  /\ \/ pc[w] = "find_link" /\ RefusedItem(w)
     \/ pc[w] = "find_sheet" /\ RefusedSheet(w)
     \/ pc[w] = "store_ops" /\ RefusedOps(w)
  /\ Rollback(w)

(* session.commit() in process_job.                                        *)
Commit(w) ==
  /\ pc[w] = "commit"
  /\ assets' = assets \cup newAssets[w]
  /\ types' = Merged(types, newTypes[w])
  /\ links' = Merged(links, newLinks[w])
  /\ sheets' = IF newSheet[w] = None THEN sheets
               ELSE [sheets EXCEPT ![sheet[w]] = newSheet[w]]
  /\ ops' = [ops EXCEPT ![sheet[w]] = [p \in Operation |-> @[p] + added[w][p]]]
  /\ EndTransaction(w)
  /\ Goto(w, "synced")
  /\ UNCHANGED <<order, answer, item, seen>>

(* The rest of process_job, prediction included, reads these tables only.  *)
Finish(w) ==
  /\ pc[w] = "synced"
  /\ Leave(w)
  /\ UNCHANGED <<dbVars, txVars>>

-----------------------------------------------------------------------------
(* The unique index refuses an INSERT: IntegrityError, "Unhandled error".  *)
InsertConflict(w) ==
  /\ DuplicateKey(w)
  /\ Rollback(w)

(* PostgreSQL ends a deadlock: the statement of one of the sessions fails. *)
BreakDeadlock(w) ==
  /\ Deadlocked(w)
  /\ Rollback(w)

(* The worker dies, or loses the database, at any point.                   *)
Abandon(w) ==
  /\ pc[w] # "idle"
  /\ Rollback(w)

(* /sf_asset_mapping creates the asset.                                    *)
Map(a) ==
  /\ a \notin assets
  /\ \A w \in Worker : a \notin newAssets[w]
  /\ assets' = assets \cup {a}
  /\ UNCHANGED <<types, links, sheets, ops, txVars, localVars>>

SyncStep(w) ==
  \/ FindAsset(w)
  \/ AddAsset(w)
  \/ FindType(w)
  \/ PutType(w)
  \/ FindLink(w)
  \/ PutLink(w)
  \/ Leak(w)
  \/ FindSheet(w)
  \/ AddSheet(w)
  \/ StoreOps(w)
  \/ Refuse(w)
  \/ Commit(w)
  \/ Finish(w)
  \/ InsertConflict(w)

Next ==
  \/ \E w \in Worker : Fetch(w) \/ SyncStep(w) \/ BreakDeadlock(w) \/ Abandon(w)
  \/ \E a \in Asset : Map(a)

Spec == Init /\ [][Next]_vars

(* Whoever waits for a lock gets it in turn: PostgreSQL queues the waiting *)
(* sessions.  Nobody is obliged to send a work order, to crash, or to map. *)
FairSpec ==
  Spec /\ \A w \in Worker : SF_vars(SyncStep(w)) /\ WF_vars(BreakDeadlock(w))

-----------------------------------------------------------------------------
TypeOK ==
  /\ assets \subseteq Asset
  /\ types \in [Cause -> Code \cup {None}]
  /\ links \in [Link -> LinkRow \cup {None}]
  /\ sheets \in [SheetNo -> SheetRow \cup {None}]
  /\ ops \in [SheetNo -> [Operation -> Nat]]
  /\ pc \in [Worker -> {"idle", "find_asset", "add_asset", "find_type", "put_type",
                        "find_link", "put_link", "leak", "find_sheet", "store_ops",
                        "commit", "synced"}]
  /\ order \in [Worker -> Orders \cup {None}]
  /\ answer \in [Worker -> Seq(Item)]
  /\ item \in [Worker -> Nat \ {0}]
  /\ seenType \in [Worker -> Code \cup {None}]
  /\ seenLink \in [Worker -> LinkRow \cup {None}]
  /\ newAssets \in [Worker -> SUBSET Asset]
  /\ newTypes \in [Worker -> [Cause -> Code \cup {None}]]
  /\ newLinks \in [Worker -> [Link -> LinkRow \cup {None}]]
  /\ newSheet \in [Worker -> SheetRow \cup {None}]
  /\ sheet \in [Worker -> SheetNo \cup {None}]
  /\ added \in [Worker -> [Operation -> Nat]]
  /\ \A w \in Worker : pc[w] = "idle" =>
       /\ order[w] = None /\ sheet[w] = None /\ newSheet[w] = None
       /\ Locked(w) = {} /\ added[w] = Nothing

(* A work order has one worksheet: two with the same asset and times make  *)
(* every later synchronisation of them fail (store_asset_worksheet).       *)
OneWorksheet ==
  \A m, n \in Known(sheets) :
    sheets[m].asset = sheets[n].asset /\ sheets[m].slot = sheets[n].slot => m = n

(* The operations of a worksheet are those of one answer of the CMMS, each *)
(* as often as it was listed there: never a mixture of two answers, never  *)
(* some of them twice (store_cmms_operations).                             *)
OperationsAreReceived ==
  \A n \in Known(sheets) : \E ans \in Answers[sheets[n].asset] : ops[n] = Received(ans)

(* The failure type of a worksheet is stored, belongs to the asset of the  *)
(* worksheet, and, if the CMMS keeps its ids, is that of a work order of   *)
(* that asset and those times: no later synchronisation, of that asset or  *)
(* another one, moves the row to which it refers.                          *)
WorksheetKeepsCause ==
  \A n \in Known(sheets) : LET l == sheets[n].link IN l # None =>
    /\ l \in Known(links)
    /\ links[l].asset = sheets[n].asset
    /\ StableLinks => [asset |-> sheets[n].asset, slot |-> sheets[n].slot,
                       cause |-> links[l].cause] \in Orders

(* After a synchronisation every failure cause the CMMS listed resolves to *)
(* the one id the CMMS gave for it, as resolve_asset_failurecause_ids      *)
(* needs it to send the prediction back.                                   *)
CausesResolve ==
  \A w \in Worker : pc[w] = "synced" => \A i \in DOMAIN answer[w] :
    {l \in Known(links) : /\ links[l].asset = order[w].asset
                          /\ links[l].cause = answer[w][i].cause} = {answer[w][i].link}

(* A synchronisation that fails leaves nothing behind: an asset that has   *)
(* failure causes has a worksheet, because one transaction stores both.    *)
NoPartialSync ==
  \A l \in Known(links) : \E n \in Known(sheets) : sheets[n].asset = links[l].asset

(* Seen from outside, the synchronisation is atomic (WorkorderStore).      *)
Store == INSTANCE WorkorderStore

ImplementsStore == Store!Spec

(* No synchronisation waits for ever: not for a lock, nor in a deadlock.   *)
EverySyncEnds == \A w \in Worker : pc[w] # "idle" ~> pc[w] = "idle"
=============================================================================
