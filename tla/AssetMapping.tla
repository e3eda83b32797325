------------------------------ MODULE AssetMapping ------------------------------
(***************************************************************************)
(* Sessions that store assets: the requests of /sf_asset_mapping           *)
(* (asset_mapping.py), each one transaction over a batch of mappings, and  *)
(* the workers, whose ensure_asset_id looks for one CMMS id and inserts it *)
(* in a transaction that goes on (WorkorderSync).                          *)
(*                                                                         *)
(* PostgreSQL is external, at READ COMMITTED: a SELECT sees what is        *)
(* committed and what its session has flushed, a flush waits for a row or  *)
(* a unique key that another session has written.  The identity map of the *)
(* session is modelled: a SELECT that finds a row whose object the handler *)
(* still holds gives that object, with the attributes it was loaded with.  *)
(***************************************************************************)
EXTENDS Integers, Sequences, FiniteSets

CONSTANTS
  Import,   \* requests of /sf_asset_mapping that are served at once
  Worker,   \* worker processes
  CmmsId, DcId, None,
  Batches,  \* bodies of the requests
  RowId     \* asset_id; as many as rows can exist

Session == Import \cup Worker

Column == {"cmms", "dc"}
Identifiers == [cmms : CmmsId \cup {None}, dc : DcId \cup {None}]
Mapping == {m \in Identifiers : m.cmms # None \/ m.dc # None}
Object  == [id : RowId, cmms : CmmsId \cup {None}, dc : DcId \cup {None}]

ASSUME MappingAssumption ==
  /\ None \notin CmmsId /\ None \notin DcId /\ None \notin RowId
  /\ None \notin Identifiers /\ None \notin Object
  /\ RowId \subseteq Nat
  /\ \A b \in Batches : b \in Seq(Mapping) /\ b # <<>>

VARIABLES
  rows,      \* committed rows of assets, None where there is none
  new,       \* new[s]: rows flushed by session s
  entries,   \* entries[s]: what the flush under way has locked already
  pc,        \* pc[s]: where it is in apply_asset_mappings
  batch,     \* batch[s]: the mappings, and
  item,      \* item[s]: the one it is at
  cmmsAsset, \* cmmsAsset[s], dcAsset[s], asset[s]: the objects that the
  dcAsset,   \* variables of these names refer to
  asset,
  results,   \* results[s]: the items of its answer so far
  told       \* told[r]: identifiers that an answer gave row r (history)

vars == <<rows, new, entries, pc, batch, item, cmmsAsset, dcAsset, asset, results, told>>

Identifier == ({"cmms"} \X CmmsId) \cup ({"dc"} \X DcId)
Result == [mapping : Mapping, status : {"created", "updated", "unchanged", "conflict"},
           id : RowId \cup {None}]

NoRows == [r \in RowId |-> None]

(* A worker looks for its asset, and inserts it, as a batch of one would.  *)
BatchesOf(s) ==
  IF s \in Import THEN Batches ELSE {<<[cmms |-> c, dc |-> None]>> : c \in CmmsId}

Init ==
  /\ rows = NoRows
  /\ new = [s \in Session |-> NoRows]
  /\ entries = [s \in Session |-> {}]
  /\ pc = [s \in Session |-> "idle"]
  /\ batch = [s \in Session |-> <<>>]
  /\ item = [s \in Session |-> 1]
  /\ cmmsAsset = [s \in Session |-> None]
  /\ dcAsset = [s \in Session |-> None]
  /\ asset = [s \in Session |-> None]
  /\ results = [s \in Session |-> <<>>]
  /\ told = [r \in RowId |-> {}]

-----------------------------------------------------------------------------
Mapped(s) == batch[s][item[s]]

(* The table as s sees it, and all that has been written to it.            *)
View(s) == [r \in RowId |-> IF new[s][r] # None THEN new[s][r] ELSE rows[r]]
Merged(old, more) == [r \in RowId |-> IF more[r] # None THEN more[r] ELSE old[r]]

(* An object of the identity map, or one with the row as it is now.        *)
Loaded(s, r, held) ==
  IF \E o \in held : o.id = r THEN CHOOSE o \in held : o.id = r
  ELSE [id |-> r, cmms |-> View(s)[r].cmms, dc |-> View(s)[r].dc]

FoundBy(s, column, value, held) ==
  LET found == {r \in RowId : View(s)[r] # None /\ View(s)[r][column] = value} IN
  IF value = None \/ found = {} THEN None
  ELSE Loaded(s, CHOOSE r \in found : TRUE, held)

(* cmms_asset or dc_asset                                                  *)
Chosen(s) == IF cmmsAsset[s] # None THEN cmmsAsset[s] ELSE dcAsset[s]

TwoAssets(s) ==
  /\ cmmsAsset[s] # None
  /\ dcAsset[s] # None
  /\ cmmsAsset[s].id # dcAsset[s].id

(* Mutation: only the identifier of the CMMS is compared.                  *)
OtherCmmsId(s) ==
  /\ Chosen(s) # None
  /\ Mapped(s).cmms # None /\ Chosen(s).cmms \notin {None, Mapped(s).cmms}

OtherValue(s) ==
  /\ Chosen(s) # None
  /\ \/ Mapped(s).cmms # None /\ Chosen(s).cmms \notin {None, Mapped(s).cmms}
     \/ Mapped(s).dc # None /\ Chosen(s).dc \notin {None, Mapped(s).dc}

Conflict(s) == TwoAssets(s) \/ OtherValue(s)

(* Mutation: a row takes the identifiers of the item, the missing ones too *)
(* (the tests for None are dropped).                                       *)
WritesAll(s) ==
  {c \in Column : IF Chosen(s) = None THEN Mapped(s)[c] # None
                                      ELSE Chosen(s)[c] # Mapped(s)[c]}

(* The columns of the row that are set: all of a new row.                  *)
Writes(s) ==
  {c \in Column : Mapped(s)[c] # None /\ (Chosen(s) = None \/ Chosen(s)[c] = None)}

(* What a flush has to lock, one after the other: the row it updates, and  *)
(* the keys it adds to the unique indexes.                                 *)
Keys(s) == {<<c, Mapped(s)[c]>> : c \in Writes(s)}
Needs(s) ==
  IF pc[s] # "write" \/ Conflict(s) \/ Writes(s) = {} THEN {}
  ELSE (Keys(s) \cup IF Chosen(s) = None THEN {} ELSE {<<"row", Chosen(s).id>>}) \ entries[s]

IndexOrder == <<"row", "cmms", "dc">>
Needed(s) ==
  {n \in Needs(s) : \A k \in Needs(s) :
     \E i, j \in 1..3 : i <= j /\ IndexOrder[i] = n[1] /\ IndexOrder[j] = k[1]}

(* What a session has locked: the rows it has written, and the keys it has *)
(* added or removed.                                                       *)
KeysOf(row) == IF row = None THEN {} ELSE {<<c, row[c]>> : c \in Column}

Written(s) == {r \in RowId : new[s][r] # None}
Locked(s) ==
  entries[s] \cup UNION {{<<"row", r>>} \cup KeysOf(new[s][r]) \cup KeysOf(rows[r]) : r \in Written(s)}

WaitsFor(s, t) == t # s /\ Needed(s) \cap Locked(t) # {}
Waiting(s) == \E t \in Session : WaitsFor(s, t)

Deadlocked(s) ==
  \E S \in SUBSET Session :
    /\ s \in S
    /\ \A t \in S : /\ \E u \in S : WaitsFor(t, u)
                    /\ \E u \in S : WaitsFor(u, t)

(* The key it comes to next is in another row already.                     *)
Duplicate(s) ==
  \E r \in RowId : /\ Chosen(s) # None => r # Chosen(s).id
                   /\ Needed(s) \cap KeysOf(View(s)[r]) # {}

(* The flush gets what it needs next, and that is the last of it.          *)
Proceeds(s) == ~Waiting(s) /\ ~Duplicate(s)
Flushes(s)  == Proceeds(s) /\ Needs(s) = Needed(s)

Goto(s, p) == pc' = [pc EXCEPT ![s] = p]

Forget(s) ==
  /\ Goto(s, "idle")
  /\ batch' = [batch EXCEPT ![s] = <<>>]
  /\ item' = [item EXCEPT ![s] = 1]
  /\ cmmsAsset' = [cmmsAsset EXCEPT ![s] = None]
  /\ dcAsset' = [dcAsset EXCEPT ![s] = None]
  /\ asset' = [asset EXCEPT ![s] = None]
  /\ results' = [results EXCEPT ![s] = <<>>]

Leave(s) ==
  /\ Forget(s)
  /\ new' = [new EXCEPT ![s] = NoRows]
  /\ entries' = [entries EXCEPT ![s] = {}]

(* Mutations: the rollback is forgotten, or commits what was flushed.      *)
ForgetRollback(s) ==
  /\ Forget(s)
  /\ UNCHANGED <<rows, new, entries, told>>

CommitInstead(s) ==
  /\ rows' = Merged(rows, new[s])
  /\ Leave(s)
  /\ UNCHANGED told

Rollback(s) ==
  /\ Leave(s)
  /\ UNCHANGED <<rows, told>>

-----------------------------------------------------------------------------
Begin(s) ==
  /\ pc[s] = "idle"
  /\ \E b \in BatchesOf(s) : batch' = [batch EXCEPT ![s] = b]
  /\ Goto(s, "find_cmms")
  /\ UNCHANGED <<rows, new, entries, item, cmmsAsset, dcAsset, asset, results, told>>

(* The two SELECTs.  dc_asset and asset still hold what the previous item  *)
(* left in them.                                                           *)
FindCmms(s) ==
  /\ pc[s] = "find_cmms"
  /\ cmmsAsset' = [cmmsAsset EXCEPT ![s] =
                     FoundBy(s, "cmms", Mapped(s).cmms, {dcAsset[s], asset[s]} \ {None})]
  /\ Goto(s, "find_dc")
  /\ UNCHANGED <<rows, new, entries, batch, item, dcAsset, asset, results, told>>

FindDc(s) ==
  /\ pc[s] = "find_dc"
  /\ dcAsset' = [dcAsset EXCEPT ![s] =
                   FoundBy(s, "dc", Mapped(s).dc, {cmmsAsset[s], asset[s]} \ {None})]
  /\ Goto(s, "write")
  /\ UNCHANGED <<rows, new, entries, batch, item, cmmsAsset, asset, results, told>>

(* The item gets its result, and the session goes on to the next one.      *)
Report(s, status, id) ==
  /\ results' = [results EXCEPT ![s] =
                   Append(@, [mapping |-> Mapped(s), status |-> status, id |-> id])]
  /\ item' = [item EXCEPT ![s] = @ + 1]
  /\ Goto(s, IF item[s] = Len(batch[s]) THEN "commit" ELSE "find_cmms")

ReportConflict(s) ==
  /\ pc[s] = "write"
  /\ Conflict(s)
  /\ Report(s, "conflict", IF TwoAssets(s) THEN None ELSE Chosen(s).id)
  /\ asset' = [asset EXCEPT ![s] = IF TwoAssets(s) THEN @ ELSE Chosen(s)]
  /\ UNCHANGED <<rows, new, entries, batch, cmmsAsset, dcAsset, told>>

Keep(s) ==
  /\ pc[s] = "write"
  /\ ~Conflict(s)
  /\ Writes(s) = {}
  /\ Report(s, "unchanged", Chosen(s).id)
  /\ asset' = [asset EXCEPT ![s] = Chosen(s)]
  /\ UNCHANGED <<rows, new, entries, batch, cmmsAsset, dcAsset, told>>

TakeEntry(s) ==
  /\ Proceeds(s)
  /\ Needs(s) # Needed(s)
  /\ entries' = [entries EXCEPT ![s] = @ \cup Needed(s)]
  /\ UNCHANGED <<rows, new, pc, batch, item, cmmsAsset, dcAsset, asset, results, told>>

Free == {r \in RowId : \A s \in Session : View(s)[r] = None}

Create(s) ==
  /\ pc[s] = "write"
  /\ Chosen(s) = None
  /\ Flushes(s)
  /\ entries' = [entries EXCEPT ![s] = {}]
  /\ \E r \in Free :
       /\ \A q \in Free : r <= q
       /\ new' = [new EXCEPT ![s][r] = Mapped(s)]
       /\ asset' = [asset EXCEPT ![s] =
                      [id |-> r, cmms |-> Mapped(s).cmms, dc |-> Mapped(s).dc]]
       /\ Report(s, "created", r)
  /\ UNCHANGED <<rows, batch, cmmsAsset, dcAsset, told>>

(* The UPDATE sets the missing columns of the row as it is by then; the    *)
(* object is as it was loaded, with these columns set.                     *)
Set(s, x) == [c \in DOMAIN x |-> IF c \in Writes(s) THEN Mapped(s)[c] ELSE x[c]]

Complete(s) ==
  /\ pc[s] = "write"
  /\ Chosen(s) # None
  /\ ~Conflict(s)
  /\ Writes(s) # {}
  /\ Flushes(s)
  /\ entries' = [entries EXCEPT ![s] = {}]
  /\ new' = [new EXCEPT ![s][Chosen(s).id] = Set(s, View(s)[Chosen(s).id])]
  /\ asset' = [asset EXCEPT ![s] = Set(s, Chosen(s))]
  /\ dcAsset' = [dcAsset EXCEPT ![s] = IF @ = None THEN @ ELSE Set(s, @)]
  /\ Report(s, "updated", Chosen(s).id)
  /\ UNCHANGED <<rows, batch, cmmsAsset, told>>

(* The unique index refuses the flush: rollback, status 503.               *)
Refuse(s) ==
  /\ Duplicate(s)
  /\ ~Waiting(s)
  /\ Rollback(s)

(* The items of the answer that name row r, without conflict.              *)
Placed(s, r) ==
  {x \in {results[s][i] : i \in DOMAIN results[s]} : x.status # "conflict" /\ x.id = r}

Given(m) == {<<c, m[c]>> : c \in {k \in Column : m[k] # None}}

Commit(s) ==
  /\ pc[s] = "commit"
  /\ rows' = Merged(rows, new[s])
  /\ told' = [r \in RowId |-> told[r] \cup UNION {Given(x.mapping) : x \in Placed(s, r)}]
  /\ Leave(s)

(* PostgreSQL ends a deadlock: a statement of one of the sessions fails.   *)
BreakDeadlock(s) ==
  /\ Deadlocked(s)
  /\ Rollback(s)

(* The connection is lost, the process dies, the rest of the worker's      *)
(* transaction fails.                                                      *)
Abandon(s) ==
  /\ pc[s] # "idle"
  /\ Rollback(s)

Step(s) ==
  \/ FindCmms(s)
  \/ FindDc(s)
  \/ ReportConflict(s)
  \/ Keep(s)
  \/ TakeEntry(s)
  \/ Create(s)
  \/ Complete(s)
  \/ Refuse(s)
  \/ Commit(s)

Next == \E s \in Session : Begin(s) \/ Step(s) \/ BreakDeadlock(s) \/ Abandon(s)

Spec == Init /\ [][Next]_vars

(* PostgreSQL serves the sessions that wait for a lock one after another,  *)
(* so that a step that is enabled again and again is taken.                *)
FairSpec ==
  Spec /\ \A s \in Session : SF_vars(Step(s)) /\ WF_vars(BreakDeadlock(s))

-----------------------------------------------------------------------------
(* Everything has its type, an idle session holds no lock.                 *)
TypeOK ==
  /\ rows \in [RowId -> Mapping \cup {None}]
  /\ new \in [Session -> [RowId -> Mapping \cup {None}]]
  /\ entries \in [Session -> SUBSET (({"row"} \X RowId) \cup Identifier)]
  /\ pc \in [Session -> {"idle", "find_cmms", "find_dc", "write", "commit"}]
  /\ batch \in [Session -> Seq(Mapping)]
  /\ item \in [Session -> Nat \ {0}]
  /\ cmmsAsset \in [Session -> Object \cup {None}]
  /\ dcAsset \in [Session -> Object \cup {None}]
  /\ asset \in [Session -> Object \cup {None}]
  /\ results \in [Session -> Seq(Result)]
  /\ told \in [RowId -> SUBSET Identifier]
  /\ \A s \in Session : pc[s] = "idle" => Locked(s) = {}

(* What old has of its identifiers, row has too.                           *)
Keeps(old, row) == row # None /\ \A c \in Column : old[c] # None => row[c] = old[c]
Grows(old, table) == \A r \in RowId : old[r] # None => Keeps(old[r], table[r])

(* No row loses an identifier, and none is replaced: what a session        *)
(* completes of a row, from what it has read, is what the row still lacks  *)
(* at the flush and until the commit (apply_asset_mappings tests the       *)
(* object, which may be older than the row).                               *)
NothingReplaced == \A s \in Session : Grows(rows, View(s))

(* What a request was told is true and stays true (apply_asset_mappings):  *)
(* the row that an item created, completed or found has its identifiers,   *)
(* and when an item is a conflict, no row has both of its identifiers.     *)
AnswersHold ==
  /\ \A r \in RowId : told[r] \subseteq KeysOf(rows[r])
  /\ \A s \in Session : \A i \in DOMAIN results[s] :
       results[s][i].status = "conflict" =>
         \A r \in RowId : ~(Given(results[s][i].mapping) \subseteq KeysOf(View(s)[r]))

(* A batch takes effect at once or not at all, as AssetRegistry says.      *)
Registry == INSTANCE AssetRegistry WITH registry <- {rows[r] : r \in RowId} \ {None}

ImplementsRegistry == Registry!Spec

(* Every request is answered: no session waits for ever for a lock.        *)
EveryBatchEnds == \A s \in Session : pc[s] # "idle" ~> pc[s] = "idle"
=============================================================================
