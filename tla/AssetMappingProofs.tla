-------------------------- MODULE AssetMappingProofs --------------------------
(***************************************************************************)
(* Theorems about AssetMapping.  Under every interleaving, deadlock and    *)
(* rollback: types, and one row per identifier.  As long as no two         *)
(* requests that are served at once contradict each other: identifiers     *)
(* never move, what a request was told stays true, and every batch takes   *)
(* effect as AssetRegistry says.                                           *)
(***************************************************************************)
EXTENDS AssetMapping, WellFoundedInduction, TLAPS

Row    == Mapping \cup {None}

Act(s) == Begin(s) \/ Step(s) \/ BreakDeadlock(s) \/ Abandon(s)

(* Where a session is, and what it has in hand there.                      *)
Looking == {"find_cmms", "find_dc", "write"}

PlaceOK(s) ==
  /\ pc[s] = "idle" => /\ new[s] = NoRows /\ entries[s] = {}
                       /\ batch[s] = <<>> /\ item[s] = 1 /\ results[s] = <<>>
                       /\ cmmsAsset[s] = None /\ dcAsset[s] = None /\ asset[s] = None
  /\ pc[s] # "idle" => batch[s] \in BatchesOf(s)
  /\ pc[s] \in Looking => item[s] \in 1..Len(batch[s]) /\ Len(results[s]) = item[s] - 1
  /\ pc[s] = "commit" => Len(results[s]) = Len(batch[s])
  /\ entries[s] # {} => pc[s] = "write" /\ ~Conflict(s) /\ Writes(s) # {}
  /\ \A i \in 1..Len(results[s]) : results[s][i].mapping = batch[s][i]

(* TypeOK, less its last conjunct, which follows from PlaceOK.             *)
Types ==
  /\ rows \in [RowId -> Row]
  /\ new \in [Session -> [RowId -> Row]]
  /\ entries \in [Session -> SUBSET (({"row"} \X RowId) \cup Identifier)]
  /\ pc \in [Session -> {"idle", "find_cmms", "find_dc", "write", "commit"}]
  /\ batch \in [Session -> Seq(Mapping)]
  /\ item \in [Session -> Nat \ {0}]
  /\ cmmsAsset \in [Session -> Object \cup {None}]
  /\ dcAsset \in [Session -> Object \cup {None}]
  /\ asset \in [Session -> Object \cup {None}]
  /\ results \in [Session -> Seq(Result)]
  /\ told \in [RowId -> SUBSET Identifier]

(* The rows of the objects that it holds exist.                            *)
HeldExist(s) ==
  \A o \in {cmmsAsset[s], dcAsset[s], asset[s]} \ {None} : View(s)[o.id] # None

TypeInv == Types /\ \A s \in Session : PlaceOK(s) /\ HeldExist(s)

-----------------------------------------------------------------------------
(* What the operators of the model return.                                 *)

LEMMA ARow ==
  ASSUME NEW m \in Mapping
  PROVE  /\ m # None /\ m.cmms \in CmmsId \cup {None} /\ m.dc \in DcId \cup {None}
         /\ m["cmms"] = m.cmms /\ m["dc"] = m.dc
         /\ m.cmms # None \/ m.dc # None
  BY MappingAssumption DEF Mapping, Identifiers

LEMMA ViewType ==
  ASSUME Types, NEW s \in Session
  PROVE  View(s) \in [RowId -> Row]
  BY DEF Types, View

LEMMA MergedType ==
  ASSUME NEW f \in [RowId -> Row], NEW g \in [RowId -> Row]
  PROVE  Merged(f, g) \in [RowId -> Row]
  BY DEF Merged

(* A SELECT gives a row of the view, as it is or as it was loaded.         *)
LEMMA Found ==
  ASSUME Types, NEW s \in Session, NEW column \in Column, NEW value,
         NEW held \in SUBSET Object, NEW o, o = FoundBy(s, column, value, held), o # None
  PROVE  /\ value # None /\ o \in Object
         /\ View(s)[o.id] # None /\ View(s)[o.id][column] = value
         /\ \/ o \in held
            \/ /\ o.cmms = View(s)[o.id].cmms /\ o.dc = View(s)[o.id].dc
               /\ \A p \in held : p.id # o.id
<1> DEFINE found == {r \in RowId : View(s)[r] # None /\ View(s)[r][column] = value}
           r == CHOOSE x \in found : TRUE
<1>1. value # None /\ found # {} /\ o = Loaded(s, r, held)
  BY DEF FoundBy
<1>2. r \in found
  BY <1>1
<1>3. View(s)[r] \in Mapping
  BY <1>2, ViewType DEF Row
<1>4. CASE \E x \in held : x.id = r
  <2>1. o \in held /\ o.id = r
    BY <1>1, <1>4 DEF Loaded
  <2> QED
    BY <1>1, <1>2, <2>1
<1>5. CASE ~ \E x \in held : x.id = r
  <2>1. o = [id |-> r, cmms |-> View(s)[r].cmms, dc |-> View(s)[r].dc]
    BY <1>1, <1>5 DEF Loaded
  <2> HIDE DEF r
  <2> QED
    BY <1>1, <1>2, <1>3, <1>5, <2>1, ARow DEF Object
<1> QED
  BY <1>4, <1>5

(* The columns that are set, in a row or in an object.                     *)
LEMMA SetRow ==
  ASSUME NEW s, Mapped(s) \in Mapping, NEW x \in Mapping
  PROVE  /\ Set(s, x) \in Mapping
         /\ \A c \in Column : Set(s, x)[c] = IF c \in Writes(s) THEN Mapped(s)[c] ELSE x[c]
  BY MappingAssumption DEF Set, Writes, Mapping, Identifiers, Column

LEMMA SetObject ==
  ASSUME NEW s, Mapped(s) \in Mapping, NEW x \in Object
  PROVE  /\ Set(s, x) \in Object
         /\ Set(s, x).id = x.id
         /\ \A c \in Column : Set(s, x)[c] = IF c \in Writes(s) THEN Mapped(s)[c] ELSE x[c]
  BY MappingAssumption DEF Set, Writes, Mapping, Identifiers, Object, Column

-----------------------------------------------------------------------------
(* A step of one session changes nothing that another one has in hand.     *)
LEMMA Frame ==
  ASSUME NEW t \in Session, Types, Act(t)
  PROVE  /\ \A s \in Session \ {t} :
              /\ new'[s] = new[s] /\ entries'[s] = entries[s] /\ pc'[s] = pc[s]
              /\ batch'[s] = batch[s] /\ item'[s] = item[s] /\ results'[s] = results[s]
              /\ cmmsAsset'[s] = cmmsAsset[s] /\ dcAsset'[s] = dcAsset[s]
              /\ asset'[s] = asset[s]
         /\ Commit(t) \/ UNCHANGED <<rows, told>>
<1> USE DEF Types
<1>1. CASE Begin(t)
  BY <1>1 DEF Begin, Goto
<1>2. CASE FindCmms(t) \/ FindDc(t)
  BY <1>2 DEF FindCmms, FindDc, Goto
<1>3. CASE ReportConflict(t) \/ Keep(t)
  BY <1>3 DEF ReportConflict, Keep, Report, Goto
<1>4. CASE TakeEntry(t)
  BY <1>4 DEF TakeEntry
<1>5. CASE Create(t)
  BY <1>5 DEF Create, Report, Goto
<1>6. CASE Complete(t)
  BY <1>6 DEF Complete, Report, Goto
<1>7. CASE Refuse(t) \/ BreakDeadlock(t) \/ Abandon(t)
  BY <1>7 DEF Refuse, BreakDeadlock, Abandon, Rollback, Leave, Forget, Goto
<1>8. CASE Commit(t)
  BY <1>8 DEF Commit, Leave, Forget, Goto
<1> QED
  BY <1>1, <1>2, <1>3, <1>4, <1>5, <1>6, <1>7, <1>8 DEF Act, Step

(* So it sees the same item, and would do the same with it.                *)
LEMMA FrameItem ==
  ASSUME NEW t \in Session, Types, Act(t), NEW s \in Session \ {t}
  PROVE  /\ Mapped(s)' = Mapped(s) /\ Chosen(s)' = Chosen(s)
         /\ TwoAssets(s)' = TwoAssets(s) /\ Conflict(s)' = Conflict(s)
         /\ Writes(s)' = Writes(s) /\ Keys(s)' = Keys(s)
         /\ Needs(s)' = Needs(s) /\ Needed(s)' = Needed(s)
<1>1. /\ pc'[s] = pc[s] /\ entries'[s] = entries[s]
      /\ batch'[s] = batch[s] /\ item'[s] = item[s]
      /\ cmmsAsset'[s] = cmmsAsset[s] /\ dcAsset'[s] = dcAsset[s]
  BY Frame
<1>2. Mapped(s)' = Mapped(s) /\ Chosen(s)' = Chosen(s) /\ TwoAssets(s)' = TwoAssets(s)
  BY <1>1 DEF Mapped, Chosen, TwoAssets
<1>3. Conflict(s)' = Conflict(s) /\ Writes(s)' = Writes(s)
  BY <1>2 DEF Conflict, OtherValue, Writes
<1>4. Keys(s)' = Keys(s)
  BY <1>2, <1>3 DEF Keys
<1>5. Needs(s)' = Needs(s)
  BY <1>1, <1>2, <1>3, <1>4 DEF Needs
<1>6. Needed(s)' = Needed(s)
  BY <1>5 DEF Needed
<1> QED
  BY <1>2, <1>3, <1>4, <1>5, <1>6

(* Its view changes when another session commits: rows are added or        *)
(* completed, and none goes.                                               *)
LEMMA FrameView ==
  ASSUME NEW t \in Session, Types, Act(t), NEW s \in Session \ {t}
  PROVE  /\ rows' = rows => View(s)' = View(s)
         /\ \A r \in RowId : View(s)[r] # None => View(s)'[r] # None
         /\ Commit(t) => View(s)' = Merged(View(t), new[s])
<1>1. new'[s] = new[s] /\ (Commit(t) \/ rows' = rows)
  BY Frame
<1>2. rows' = rows => View(s)' = View(s)
  BY <1>1 DEF View
<1>3. Commit(t) => rows' = View(t)
  BY DEF Commit, Merged, View
<1>4. Commit(t) => View(s)' = Merged(View(t), new[s])
  BY <1>1, <1>3 DEF View, Merged
<1>5. \A r \in RowId : View(s)[r] # None => Merged(View(t), new[s])[r] # None
  BY DEF View, Merged
<1>6. \A r \in RowId : View(s)[r] # None => View(s)'[r] # None
  BY <1>1, <1>2, <1>4, <1>5
<1> QED
  BY <1>2, <1>4, <1>6

(* What a session that leaves has in hand: nothing.                        *)
LEMMA Left ==
  ASSUME Types, NEW s \in Session, Leave(s)
  PROVE  /\ new' = [new EXCEPT ![s] = NoRows] /\ entries' = [entries EXCEPT ![s] = {}]
         /\ batch' = [batch EXCEPT ![s] = <<>>] /\ item' = [item EXCEPT ![s] = 1]
         /\ results' = [results EXCEPT ![s] = <<>>] /\ pc' = [pc EXCEPT ![s] = "idle"]
         /\ cmmsAsset' = [cmmsAsset EXCEPT ![s] = None]
         /\ dcAsset' = [dcAsset EXCEPT ![s] = None]
         /\ asset' = [asset EXCEPT ![s] = None]
  BY DEF Leave, Forget, Goto

(* A session at an item has a mapping in hand.                             *)
LEMMA AtItem ==
  ASSUME TypeInv, NEW s \in Session, pc[s] \in Looking
  PROVE  /\ Mapped(s) \in Mapping /\ item[s] \in 1..Len(batch[s])
         /\ Len(results[s]) = item[s] - 1 /\ Mapped(s) = batch[s][item[s]]
  BY DEF TypeInv, Types, PlaceOK, Mapped

LEMMA BatchType ==
  ASSUME NEW s \in Session
  PROVE  BatchesOf(s) \in SUBSET {b \in Seq(Mapping) : b # <<>>}
<1> SUFFICES ASSUME NEW b \in BatchesOf(s) PROVE b \in Seq(Mapping) /\ b # <<>>
  OBVIOUS
<1>1. CASE s \in Import
  BY <1>1, MappingAssumption DEF BatchesOf
<1>2. CASE s \notin Import
  <2>1. PICK c \in CmmsId : b = <<[cmms |-> c, dc |-> None]>>
    BY <1>2 DEF BatchesOf
  <2>2. [cmms |-> c, dc |-> None] \in Mapping
    BY MappingAssumption DEF Mapping, Identifiers
  <2> QED
    BY <2>1, <2>2
<1> QED
  BY <1>1, <1>2

(* The answer grows by one item, which is that of the mapping in hand.     *)
LEMMA Reported ==
  ASSUME TypeInv, NEW s \in Session, pc[s] \in Looking,
         NEW status \in {"created", "updated", "unchanged", "conflict"},
         NEW id \in RowId \cup {None}, Report(s, status, id), entries'[s] = {},
         batch' = batch
  PROVE  /\ results' \in [Session -> Seq(Result)]
         /\ item' \in [Session -> Nat \ {0}]
         /\ pc' = [pc EXCEPT ![s] = pc'[s]] /\ pc'[s] \in {"find_cmms", "commit"}
         /\ PlaceOK(s)'
         /\ Len(results'[s]) = item[s]
         /\ \A i \in 1..Len(results[s]) : results'[s][i] = results[s][i]
         /\ results'[s][item[s]] = [mapping |-> Mapped(s), status |-> status, id |-> id]
<1> DEFINE x == [mapping |-> Mapped(s), status |-> status, id |-> id]
<1>1. x \in Result /\ x.mapping = batch[s][item[s]]
  BY AtItem DEF Result
<1>2. results' = [results EXCEPT ![s] = Append(results[s], x)]
      /\ item' = [item EXCEPT ![s] = item[s] + 1]
      /\ pc' = [pc EXCEPT ![s] = IF item[s] = Len(batch[s]) THEN "commit" ELSE "find_cmms"]
  BY DEF Report, Goto
<1>3. results[s] \in Seq(Result) /\ batch[s] \in Seq(Mapping) /\ item[s] \in Nat \ {0}
      /\ results \in [Session -> Seq(Result)] /\ pc[s] # "idle"
      /\ batch[s] \in BatchesOf(s)
      /\ pc \in [Session -> {"idle", "find_cmms", "find_dc", "write", "commit"}]
      /\ item \in [Session -> Nat \ {0}]
      /\ \A i \in 1..Len(results[s]) : results[s][i].mapping = batch[s][i]
  BY DEF TypeInv, Types, PlaceOK, Looking
<1> HIDE DEF x
<1>4. /\ results'[s] = Append(results[s], x) /\ Len(results'[s]) = item[s]
      /\ results'[s] \in Seq(Result)
      /\ \A i \in 1..Len(results[s]) : results'[s][i] = results[s][i]
      /\ results'[s][item[s]] = x
  BY <1>1, <1>2, <1>3, AtItem
<1>5. /\ pc'[s] = IF item[s] = Len(batch[s]) THEN "commit" ELSE "find_cmms"
      /\ item'[s] = item[s] + 1
  BY <1>2, <1>3
<1>6. PlaceOK(s)'
  BY <1>1, <1>3, <1>4, <1>5, AtItem DEF PlaceOK, BatchesOf, Looking
<1> QED
  BY <1>1, <1>2, <1>3, <1>4, <1>5, <1>6 DEF x

LEMMA TypingInit == Init => TypeInv
<1> SUFFICES ASSUME Init PROVE TypeInv
  OBVIOUS
<1>1. Types
  BY DEF Init, Types, NoRows, Row
<1>2. \A s \in Session : PlaceOK(s) /\ HeldExist(s)
  BY DEF Init, PlaceOK, HeldExist, Looking
<1> QED
  BY <1>1, <1>2 DEF TypeInv

LEMMA ChosenType ==
  ASSUME Types, NEW s \in Session
  PROVE  Chosen(s) \in Object \cup {None}
  BY DEF Types, Chosen

(* What the flush of s comes to next is what it has to lock.               *)
LEMMA NeedsType ==
  ASSUME TypeInv, NEW s \in Session, Needs(s) # {}
  PROVE  /\ pc[s] = "write" /\ ~Conflict(s) /\ Writes(s) # {}
         /\ Needed(s) \subseteq Needs(s)
         /\ Keys(s) \subseteq Identifier
         /\ Needs(s) \subseteq ({"row"} \X RowId) \cup Identifier
         /\ Needs(s) = (Keys(s) \cup IF Chosen(s) = None THEN {} ELSE {<<"row", Chosen(s).id>>})
                         \ entries[s]
         /\ Mapped(s) \in Mapping
<1>1. pc[s] = "write" /\ ~Conflict(s) /\ Writes(s) # {}
      /\ Needs(s) = (Keys(s) \cup IF Chosen(s) = None THEN {} ELSE {<<"row", Chosen(s).id>>})
                      \ entries[s]
  BY DEF Needs
<1>2. Mapped(s) \in Mapping
  BY <1>1, AtItem DEF Looking
<1>3. Keys(s) \subseteq Identifier
  BY <1>2, ARow DEF Keys, Writes, Identifier, Column
<1>4. Chosen(s) # None => Chosen(s).id \in RowId
  BY ChosenType DEF TypeInv, Object
<1> QED
  BY <1>1, <1>2, <1>3, <1>4 DEF Needed

LEMMA TypingStep ==
  ASSUME TypeInv, NEW t \in Session, Act(t)
  PROVE  TypeInv'
<1>f. \A s \in Session \ {t} : PlaceOK(s)' /\ HeldExist(s)'
  <2> SUFFICES ASSUME NEW s \in Session \ {t} PROVE PlaceOK(s)' /\ HeldExist(s)'
    OBVIOUS
  <2>0. Types /\ PlaceOK(s) /\ HeldExist(s)
    BY DEF TypeInv
  <2>1. PlaceOK(s)'
    <3>1. /\ new'[s] = new[s] /\ entries'[s] = entries[s] /\ pc'[s] = pc[s]
          /\ batch'[s] = batch[s] /\ item'[s] = item[s] /\ results'[s] = results[s]
          /\ cmmsAsset'[s] = cmmsAsset[s] /\ dcAsset'[s] = dcAsset[s] /\ asset'[s] = asset[s]
      BY <2>0, Frame
    <3>2. Conflict(s)' = Conflict(s) /\ Writes(s)' = Writes(s)
      BY <2>0, FrameItem
    <3> QED
      BY <2>0, <3>1, <3>2 DEF PlaceOK, BatchesOf
  <2>2. HeldExist(s)'
    <3>1. cmmsAsset'[s] = cmmsAsset[s] /\ dcAsset'[s] = dcAsset[s] /\ asset'[s] = asset[s]
      BY <2>0, Frame
    <3>2. \A q \in RowId : View(s)[q] # None => View(s)'[q] # None
      BY <2>0, FrameView
    <3> QED
      BY <2>0, <3>1, <3>2 DEF Types, HeldExist, Object
  <2> QED
    BY <2>1, <2>2
<1>a. UNCHANGED <<rows, new, cmmsAsset, dcAsset, asset>> => HeldExist(t)'
  BY DEF TypeInv, HeldExist, View
<1>t. Types /\ PlaceOK(t) /\ HeldExist(t)
  BY DEF TypeInv
<1>1. CASE Begin(t)
  <2>1. PICK b \in BatchesOf(t) : batch' = [batch EXCEPT ![t] = b]
    BY <1>1 DEF Begin
  <2>2. b \in Seq(Mapping) /\ b # <<>> /\ 1 \in 1..Len(b)
    BY BatchType
  <2>3. PlaceOK(t)'
    BY <1>1, <1>t, <2>1, <2>2 DEF Begin, Goto, Types, PlaceOK, BatchesOf, Looking
  <2>4. Types' /\ HeldExist(t)'
    BY <1>1, <1>a, <1>t, <2>1, <2>2 DEF Begin, Goto, Types
  <2> QED
    BY <1>f, <2>3, <2>4 DEF TypeInv
<1>2. CASE FindCmms(t)
  <2>1. ({dcAsset[t], asset[t]} \ {None}) \in SUBSET Object
    BY <1>t DEF Types
  <2> DEFINE o == FoundBy(t, "cmms", Mapped(t).cmms, {dcAsset[t], asset[t]} \ {None})
  <2>2. o \in Object \cup {None} /\ (o # None => View(t)[o.id] # None)
    BY <1>t, <2>1, Found DEF Column
  <2> HIDE DEF o
  <2>3. cmmsAsset' = [cmmsAsset EXCEPT ![t] = o]
    BY <1>2 DEF FindCmms, o
  <2>4. PlaceOK(t)'
    BY <1>2, <1>t DEF FindCmms, Goto, Types, PlaceOK, BatchesOf, Looking
  <2>5. Types'
    BY <1>2, <1>t, <2>2, <2>3 DEF FindCmms, Goto, Types
  <2>6. HeldExist(t)'
    BY <1>2, <1>t, <2>2, <2>3 DEF FindCmms, Types, HeldExist, View
  <2> QED
    BY <1>f, <2>4, <2>5, <2>6 DEF TypeInv
<1>3. CASE FindDc(t)
  <2>1. ({cmmsAsset[t], asset[t]} \ {None}) \in SUBSET Object
    BY <1>t DEF Types
  <2> DEFINE o == FoundBy(t, "dc", Mapped(t).dc, {cmmsAsset[t], asset[t]} \ {None})
  <2>2. o \in Object \cup {None} /\ (o # None => View(t)[o.id] # None)
    BY <1>t, <2>1, Found DEF Column
  <2> HIDE DEF o
  <2>3. dcAsset' = [dcAsset EXCEPT ![t] = o]
    BY <1>3 DEF FindDc, o
  <2>4. PlaceOK(t)'
    <3>1. entries[t] = {}
      BY <1>3, <1>t DEF FindDc, PlaceOK
    <3> QED
      BY <1>3, <1>t, <3>1 DEF FindDc, Goto, Types, PlaceOK, BatchesOf, Looking
  <2>5. Types'
    BY <1>3, <1>t, <2>2, <2>3 DEF FindDc, Goto, Types
  <2>6. HeldExist(t)'
    BY <1>3, <1>t, <2>2, <2>3 DEF FindDc, Types, HeldExist, View
  <2> QED
    BY <1>f, <2>4, <2>5, <2>6 DEF TypeInv
<1>r. ASSUME NEW status \in {"created", "updated", "unchanged", "conflict"},
             NEW id \in RowId \cup {None}, Report(t, status, id), entries'[t] = {},
             batch' = batch, pc[t] = "write"
      PROVE  /\ results' \in [Session -> Seq(Result)]
             /\ item' \in [Session -> Nat \ {0}]
             /\ pc' \in [Session -> {"idle", "find_cmms", "find_dc", "write", "commit"}]
             /\ PlaceOK(t)'
  <2>1. /\ results' \in [Session -> Seq(Result)] /\ item' \in [Session -> Nat \ {0}]
        /\ pc' = [pc EXCEPT ![t] = pc'[t]] /\ pc'[t] \in {"find_cmms", "commit"}
        /\ PlaceOK(t)'
    <3>1. pc[t] \in Looking
      BY <1>r DEF Looking
    <3> QED
      BY <1>r, <3>1, Reported
  <2> QED
    BY <1>t, <2>1 DEF Types
<1>4. CASE ReportConflict(t)
  <2> DEFINE id == IF TwoAssets(t) THEN None ELSE Chosen(t).id
  <2>1. ~TwoAssets(t) => Chosen(t) \in Object
    BY <1>4, <1>t, ChosenType DEF ReportConflict, Conflict, OtherValue
  <2>2. id \in RowId \cup {None}
    BY <2>1 DEF Object
  <2>3. entries[t] = {} /\ entries' = entries /\ batch' = batch /\ pc[t] = "write"
        /\ Report(t, "conflict", id)
    BY <1>4, <1>t DEF ReportConflict, PlaceOK
  <2> HIDE DEF id
  <2>4. /\ results' \in [Session -> Seq(Result)] /\ item' \in [Session -> Nat \ {0}]
        /\ pc' \in [Session -> {"idle", "find_cmms", "find_dc", "write", "commit"}]
        /\ PlaceOK(t)'
    BY <2>2, <2>3, <1>r
  <2>5. asset' \in [Session -> Object \cup {None}] /\ HeldExist(t)'
    BY <1>4, <1>t, <2>1 DEF ReportConflict, Types, HeldExist, View, Chosen
  <2>6. Types'
    BY <1>4, <1>t, <2>4, <2>5 DEF ReportConflict, Types
  <2> QED
    BY <1>f, <2>4, <2>5, <2>6 DEF TypeInv
<1>5. CASE Keep(t)
  <2>1. Chosen(t) \in Object
    <3>1. Mapped(t) \in Mapping /\ Writes(t) = {}
      BY <1>5, AtItem DEF Keep, Looking
    <3>2. Chosen(t) # None
      BY <3>1, ARow DEF Writes, Column
    <3> QED
      BY <1>t, <3>2, ChosenType
  <2>2. Chosen(t).id \in RowId /\ entries[t] = {} /\ entries' = entries /\ batch' = batch
        /\ Report(t, "unchanged", Chosen(t).id) /\ pc[t] = "write"
    BY <1>5, <1>t, <2>1 DEF Keep, PlaceOK, Object
  <2>3. /\ results' \in [Session -> Seq(Result)] /\ item' \in [Session -> Nat \ {0}]
        /\ pc' \in [Session -> {"idle", "find_cmms", "find_dc", "write", "commit"}]
        /\ PlaceOK(t)'
    BY <2>2, <1>r
  <2>4. asset' \in [Session -> Object \cup {None}] /\ HeldExist(t)'
    BY <1>5, <1>t, <2>1 DEF Keep, Types, HeldExist, View, Chosen
  <2>5. Types'
    BY <1>5, <1>t, <2>3, <2>4 DEF Keep, Types
  <2> QED
    BY <1>f, <2>3, <2>4, <2>5 DEF TypeInv
<1>6. CASE TakeEntry(t)
  <2>1. Needs(t) # {}
    BY <1>6 DEF TakeEntry, Needed
  <2>2. Needed(t) \subseteq ({"row"} \X RowId) \cup Identifier
    BY <2>1, NeedsType
  <2>3. PlaceOK(t)'
    <3>1. pc[t] = "write" /\ ~Conflict(t) /\ Writes(t) # {}
      BY <2>1, NeedsType
    <3>2. Conflict(t)' = Conflict(t) /\ Writes(t)' = Writes(t)
      BY <1>6 DEF TakeEntry, Conflict, TwoAssets, OtherValue, Writes, Chosen, Mapped
    <3> QED
      BY <1>6, <1>t, <3>1, <3>2 DEF TakeEntry, Types, PlaceOK, Looking, BatchesOf
  <2>4. Types'
    BY <1>6, <1>t, <2>2 DEF TakeEntry, Types
  <2>5. HeldExist(t)'
    BY <1>6, <1>a DEF TakeEntry
  <2> QED
    BY <1>f, <2>3, <2>4, <2>5 DEF TypeInv
<1>7. CASE Create(t)
  <2>1. PICK r \in Free : /\ new' = [new EXCEPT ![t][r] = Mapped(t)]
                         /\ asset' = [asset EXCEPT ![t] =
                              [id |-> r, cmms |-> Mapped(t).cmms, dc |-> Mapped(t).dc]]
                         /\ Report(t, "created", r)
    BY <1>7 DEF Create
  <2> DEFINE o == [id |-> r, cmms |-> Mapped(t).cmms, dc |-> Mapped(t).dc]
  <2>2. Mapped(t) \in Mapping /\ r \in RowId /\ pc[t] = "write"
    BY <1>7, AtItem DEF Create, Looking, Free
  <2>3. o \in Object /\ o.id = r
    BY <2>2, ARow DEF Object
  <2>4. new' \in [Session -> [RowId -> Row]]
    BY <1>t, <2>1, <2>2 DEF Row, Types
  <2>5. /\ results' \in [Session -> Seq(Result)] /\ item' \in [Session -> Nat \ {0}]
        /\ pc' \in [Session -> {"idle", "find_cmms", "find_dc", "write", "commit"}]
        /\ PlaceOK(t)'
    <3>1. entries'[t] = {} /\ batch' = batch
      BY <1>7, <1>t DEF Create, Types
    <3> QED
      BY <2>1, <2>2, <3>1, <1>r
  <2> HIDE DEF o
  <2>6. asset' = [asset EXCEPT ![t] = o]
    BY <2>1 DEF o
  <2>7. Types'
    BY <1>7, <1>t, <2>3, <2>4, <2>5, <2>6 DEF Create, Types
  <2>8. HeldExist(t)'
    <3>1. \A q \in RowId : View(t)'[q] = IF q = r THEN Mapped(t) ELSE View(t)[q]
      BY <1>7, <1>t, <2>1, <2>2, ARow DEF Create, View, Types
    <3>2. cmmsAsset' = cmmsAsset /\ dcAsset' = dcAsset
      BY <1>7 DEF Create
    <3> QED
      BY <1>t, <2>2, <2>3, <2>6, <3>1, <3>2, ARow DEF HeldExist, Types, Object
  <2> QED
    BY <1>f, <2>5, <2>7, <2>8 DEF TypeInv
<1>8. CASE Complete(t)
  <2>1. Mapped(t) \in Mapping /\ Chosen(t) \in Object /\ Chosen(t).id \in RowId
    BY <1>8, <1>t, AtItem, ChosenType DEF Complete, Looking, Object
  <2> DEFINE id == Chosen(t).id
  <2>2. Set(t, Chosen(t)) \in Object /\ Set(t, Chosen(t)).id = id
    BY <2>1, SetObject
  <2>3. /\ dcAsset' \in [Session -> Object \cup {None}]
        /\ dcAsset[t] # None => dcAsset'[t].id = dcAsset[t].id
        /\ dcAsset[t] = None => dcAsset'[t] = None
    BY <1>8, <1>t, <2>1, SetObject DEF Complete, Types
  <2>4. View(t)[id] \in Mapping
    <3>1. View(t)[id] # None
      BY <1>8, <1>t DEF Complete, HeldExist, Chosen
    <3> QED
      BY <1>t, <2>1, <3>1, ViewType DEF Row
  <2>5. Set(t, View(t)[id]) \in Mapping
    BY <2>1, <2>4, SetRow
  <2>6. new' = [new EXCEPT ![t][id] = Set(t, View(t)[id])]
        /\ asset' = [asset EXCEPT ![t] = Set(t, Chosen(t))]
        /\ Report(t, "updated", id) /\ batch' = batch /\ pc[t] = "write" /\ entries'[t] = {}
    BY <1>8, <1>t DEF Complete, Types
  <2>7. new' \in [Session -> [RowId -> Row]] /\ asset' \in [Session -> Object \cup {None}]
    BY <1>t, <2>1, <2>2, <2>5, <2>6 DEF Row, Types
  <2>8. /\ results' \in [Session -> Seq(Result)] /\ item' \in [Session -> Nat \ {0}]
        /\ pc' \in [Session -> {"idle", "find_cmms", "find_dc", "write", "commit"}]
        /\ PlaceOK(t)'
    BY <2>1, <2>6, <1>r
  <2>9. Types'
    BY <1>8, <1>t, <2>3, <2>7, <2>8 DEF Complete, Types
  <2>10. HeldExist(t)'
    <3>1. \A q \in RowId : View(t)[q] # None => View(t)'[q] # None
      BY <1>8, <1>t, <2>1, <2>5, <2>6, ARow DEF Complete, View, Types
    <3>2. cmmsAsset' = cmmsAsset /\ asset'[t].id = id
      BY <1>8, <1>t, <2>2, <2>6 DEF Complete, Types
    <3>3. View(t)[id] # None
      BY <2>4, ARow
    <3> QED
      BY <1>t, <2>1, <2>3, <3>1, <3>2, <3>3 DEF HeldExist, Types, Object
  <2> QED
    BY <1>f, <2>8, <2>9, <2>10 DEF TypeInv
<1>l. ASSUME Leave(t)
      PROVE  /\ new' \in [Session -> [RowId -> Row]]
             /\ entries' \in [Session -> SUBSET (({"row"} \X RowId) \cup Identifier)]
             /\ pc' \in [Session -> {"idle", "find_cmms", "find_dc", "write", "commit"}]
             /\ batch' \in [Session -> Seq(Mapping)]
             /\ item' \in [Session -> Nat \ {0}]
             /\ cmmsAsset' \in [Session -> Object \cup {None}]
             /\ dcAsset' \in [Session -> Object \cup {None}]
             /\ asset' \in [Session -> Object \cup {None}]
             /\ results' \in [Session -> Seq(Result)]
  <2>1. NoRows \in [RowId -> Row] /\ <<>> \in Seq(Mapping) /\ <<>> \in Seq(Result)
    BY DEF NoRows, Row
  <2>2. /\ new' = [new EXCEPT ![t] = NoRows] /\ entries' = [entries EXCEPT ![t] = {}]
        /\ batch' = [batch EXCEPT ![t] = <<>>] /\ item' = [item EXCEPT ![t] = 1]
        /\ results' = [results EXCEPT ![t] = <<>>] /\ pc' = [pc EXCEPT ![t] = "idle"]
        /\ cmmsAsset' = [cmmsAsset EXCEPT ![t] = None]
        /\ dcAsset' = [dcAsset EXCEPT ![t] = None]
        /\ asset' = [asset EXCEPT ![t] = None]
    BY <1>l, <1>t, Left
  <2> QED
    BY <1>t, <2>1, <2>2 DEF Types
<1>9. CASE Commit(t)
  <2>1. Merged(rows, new[t]) \in [RowId -> Row]
    BY <1>t, MergedType DEF Types
  <2>2. told' \in [RowId -> SUBSET Identifier]
    <3>1. \A i \in DOMAIN results[t] : Given(results[t][i].mapping) \subseteq Identifier
      <4> SUFFICES ASSUME NEW i \in DOMAIN results[t]
                   PROVE  Given(results[t][i].mapping) \subseteq Identifier
        OBVIOUS
      <4>1. results[t][i].mapping \in Mapping
        <5>1. results[t] \in Seq(Result)
          BY <1>t DEF Types
        <5>2. results[t][i] \in Result
          BY <5>1
        <5> QED
          BY <5>2 DEF Result
      <4> QED
        BY <4>1, ARow DEF Given, Identifier, Column
    <3>2. \A r \in RowId : told[r] \cup UNION {Given(x.mapping) : x \in Placed(t, r)}
                             \subseteq Identifier
      BY <1>t, <3>1 DEF Placed, Types
    <3> QED
      BY <1>9, <3>2 DEF Commit
  <2>3. PlaceOK(t)' /\ HeldExist(t)'
    BY <1>9, <1>t, Left DEF Commit, PlaceOK, HeldExist, Looking, Types
  <2>4. Types'
    <3>1. Leave(t) /\ rows' = Merged(rows, new[t])
      BY <1>9 DEF Commit
    <3> QED
      BY <1>t, <1>l, <2>1, <2>2, <3>1 DEF Types
  <2> QED
    BY <1>f, <2>3, <2>4 DEF TypeInv
<1>10. CASE Refuse(t) \/ BreakDeadlock(t) \/ Abandon(t)
  <2>1. Leave(t) /\ UNCHANGED <<rows, told>>
    BY <1>10 DEF Refuse, BreakDeadlock, Abandon, Rollback
  <2>2. PlaceOK(t)' /\ HeldExist(t)'
    BY <1>t, <2>1, Left DEF PlaceOK, HeldExist, Looking, Types
  <2>3. Types'
    BY <1>t, <1>l, <2>1 DEF Types
  <2> QED
    BY <1>f, <2>2, <2>3 DEF TypeInv
<1> QED
  BY <1>1, <1>2, <1>3, <1>4, <1>5, <1>6, <1>7, <1>8, <1>9, <1>10 DEF Act, Step

LEMMA Typing ==
  ASSUME TypeInv, [Next]_vars
  PROVE  TypeInv'
<1>1. CASE UNCHANGED vars
  BY <1>1 DEF vars, Column, TypeInv, Types, PlaceOK, HeldExist, View, BatchesOf, Conflict,
              TwoAssets, OtherValue, Writes, Chosen, Mapped
<1>2. CASE Next
  BY <1>2, TypingStep DEF Next, Act
<1> QED
  BY <1>1, <1>2

(* A session between two requests has nothing locked, and everything has   *)
(* its type, for any requests and workers.                                 *)
THEOREM TypeCorrect == Spec => []TypeOK
<1>1. TypeInv => TypeOK
  <2> SUFFICES ASSUME TypeInv PROVE TypeOK
    OBVIOUS
  <2>1. \A s \in Session : pc[s] = "idle" => Locked(s) = {}
    BY DEF TypeInv, PlaceOK, Locked, Written, NoRows
  <2> QED
    BY <2>1 DEF TypeInv, Types, TypeOK, Row
<1> QED
  BY <1>1, TypingInit, Typing, PTL DEF Spec

-----------------------------------------------------------------------------
(* One row per identifier: what the unique indexes and the locks give.     *)

(* No two rows of a table share an identifier.                             *)
OneRowEach(table) ==
  \A r, q \in RowId, c \in Column :
    /\ table[r] # None /\ table[q] # None
    /\ table[r][c] # None /\ table[r][c] = table[q][c]
    => r = q

(* s and t have nothing locked both; NULL is not a key.                    *)
Apart(s, t) ==
  \A x \in {"row"} \cup Column : \A v :
    v # None => ~(<<x, v>> \in Locked(s) /\ <<x, v>> \in Locked(t))

(* What the flush under way has locked is of its own item, the row first,  *)
(* and its keys are in no other row.                                       *)
EntriesOK(s) ==
  /\ entries[s] \subseteq
       Keys(s) \cup IF Chosen(s) = None THEN {} ELSE {<<"row", Chosen(s).id>>}
  /\ Chosen(s) # None /\ entries[s] # {} => <<"row", Chosen(s).id>> \in entries[s]
  /\ \A c \in Column, r \in RowId : \A v :
       <<c, v>> \in entries[s] /\ View(s)[r] # None /\ View(s)[r][c] = v
         => Chosen(s) # None /\ r = Chosen(s).id

LockInv ==
  /\ TypeInv
  /\ OneRowEach(rows)
  /\ \A s \in Session : OneRowEach(View(s)) /\ EntriesOK(s)
  /\ \A s, t \in Session : s # t => Apart(s, t)

LEMMA KeyIn ==
  ASSUME NEW row, NEW c \in Column, NEW v
  PROVE  <<c, v>> \in KeysOf(row) <=> row # None /\ row[c] = v
  BY DEF KeysOf, Column

LEMMA LockedBy ==
  ASSUME NEW s, NEW x \in {"row"} \cup Column, NEW v
  PROVE  <<x, v>> \in Locked(s) <=>
           \/ <<x, v>> \in entries[s]
           \/ \E q \in RowId :
                /\ new[s][q] # None
                /\ \/ x = "row" /\ v = q
                   \/ x \in Column /\ new[s][q][x] = v
                   \/ x \in Column /\ rows[q] # None /\ rows[q][x] = v
<1>1. <<x, v>> \in Locked(s) <=>
        \/ <<x, v>> \in entries[s]
        \/ \E q \in RowId : /\ new[s][q] # None
                            /\ \/ <<x, v>> = <<"row", q>>
                               \/ <<x, v>> \in KeysOf(new[s][q])
                               \/ <<x, v>> \in KeysOf(rows[q])
  BY DEF Locked, Written
<1>2. \A row : x \notin Column => <<x, v>> \notin KeysOf(row)
  BY DEF KeysOf, Column
<1> QED
  BY <1>1, <1>2, KeyIn

(* A row that t has not locked has no identifier that t has locked.        *)
LEMMA FreeRow ==
  ASSUME LockInv, NEW t \in Session, NEW r \in RowId, NEW c \in Column,
         <<"row", r>> \notin Locked(t), rows[r] # None, rows[r][c] # None
  PROVE  <<c, rows[r][c]>> \notin Locked(t)
<1>v. PICK v : v = rows[r][c]
  OBVIOUS
<1>0. Types /\ OneRowEach(rows) /\ OneRowEach(View(t)) /\ EntriesOK(t)
  BY DEF LockInv, TypeInv
<1>1. new[t][r] = None /\ View(t)[r] = rows[r]
  BY LockedBy DEF View
<1>2. <<c, v>> \notin entries[t]
  <2> SUFFICES ASSUME <<c, v>> \in entries[t] PROVE FALSE
    OBVIOUS
  <2>1. Chosen(t) # None /\ r = Chosen(t).id
    BY <1>0, <1>1, <1>v DEF EntriesOK
  <2>2. <<"row", r>> \in entries[t]
    BY <1>0, <2>1 DEF EntriesOK
  <2> QED
    BY <2>2, LockedBy
<1>3. ASSUME NEW q \in RowId, new[t][q] # None PROVE new[t][q][c] # v
  <2>1. View(t)[q] = new[t][q]
    BY <1>3 DEF View
  <2> QED
    BY <1>0, <1>1, <1>3, <1>v, <2>1 DEF OneRowEach
<1>4. ASSUME NEW q \in RowId, new[t][q] # None, rows[q] # None PROVE rows[q][c] # v
  BY <1>0, <1>1, <1>4, <1>v DEF OneRowEach
<1>5. c \in {"row"} \cup Column /\ c # "row"
  BY DEF Column
<1>6. SUFFICES ASSUME <<c, v>> \in Locked(t) PROVE FALSE
  BY <1>v
<1>7. \/ <<c, v>> \in entries[t]
      \/ \E q \in RowId :
           /\ new[t][q] # None
           /\ \/ <<c, v>> = <<"row", q>>
              \/ <<c, v>> \in KeysOf(new[t][q])
              \/ <<c, v>> \in KeysOf(rows[q])
  BY <1>6 DEF Locked, Written
<1>8. PICK q \in RowId : /\ new[t][q] # None
                         /\ \/ <<c, v>> \in KeysOf(new[t][q])
                            \/ <<c, v>> \in KeysOf(rows[q])
  BY <1>2, <1>5, <1>7
<1> QED
  BY <1>3, <1>4, <1>8, KeyIn

(* What a flush that proceeds has: its keys and its row are of no other    *)
(* session, and its keys are in no other row.                              *)
LEMMA Granted ==
  ASSUME LockInv, NEW t \in Session, pc[t] = "write", ~Conflict(t), Writes(t) # {}, Flushes(t)
  PROVE  /\ \A c \in Writes(t), s \in Session \ {t} : <<c, Mapped(t)[c]>> \notin Locked(s)
         /\ \A c \in Writes(t), r \in RowId :
              View(t)[r] # None /\ View(t)[r][c] = Mapped(t)[c]
                => Chosen(t) # None /\ r = Chosen(t).id
         /\ Chosen(t) # None => \A s \in Session \ {t} : <<"row", Chosen(t).id>> \notin Locked(s)
<1>0. /\ Types /\ EntriesOK(t) /\ \A s \in Session \ {t} : Apart(t, s)
      /\ Mapped(t) \in Mapping
  BY AtItem DEF LockInv, TypeInv, Looking
<1>1. Needed(t) = Needs(t)
      /\ Needs(t) = (Keys(t) \cup IF Chosen(t) = None THEN {} ELSE {<<"row", Chosen(t).id>>})
                      \ entries[t]
  BY DEF Flushes, Needs
<1>2. \A s \in Session \ {t} : Needed(t) \cap Locked(s) = {}
  BY DEF Flushes, Proceeds, Waiting, WaitsFor
<1>3. \A k \in Needed(t), r \in RowId :
        k \in KeysOf(View(t)[r]) => Chosen(t) # None /\ r = Chosen(t).id
  BY DEF Flushes, Proceeds, Duplicate
<1>4. \A c \in Writes(t) : c \in Column /\ Mapped(t)[c] # None /\ <<c, Mapped(t)[c]>> \in Keys(t)
  BY DEF Writes, Keys, Column
<1>5. ASSUME NEW c \in Writes(t), NEW s \in Session \ {t}
      PROVE  <<c, Mapped(t)[c]>> \notin Locked(s)
  <2>1. CASE <<c, Mapped(t)[c]>> \in entries[t]
    BY <1>0, <1>4, <2>1, LockedBy DEF Apart
  <2>2. CASE <<c, Mapped(t)[c]>> \in Needed(t)
    BY <1>2, <2>2
  <2> QED
    BY <1>1, <1>4, <2>1, <2>2
<1>6. ASSUME NEW c \in Writes(t), NEW r \in RowId,
             View(t)[r] # None, View(t)[r][c] = Mapped(t)[c]
      PROVE  Chosen(t) # None /\ r = Chosen(t).id
  <2>1. CASE <<c, Mapped(t)[c]>> \in entries[t]
    BY <1>0, <1>4, <1>6, <2>1 DEF EntriesOK
  <2>2. CASE <<c, Mapped(t)[c]>> \in Needed(t)
    BY <1>3, <1>4, <1>6, <2>2, KeyIn
  <2> QED
    BY <1>1, <1>4, <2>1, <2>2
<1>7. ASSUME Chosen(t) # None, NEW s \in Session \ {t}
      PROVE  <<"row", Chosen(t).id>> \notin Locked(s)
  <2>0. Chosen(t).id # None
    BY <1>0, <1>7, ChosenType, MappingAssumption DEF Object
  <2>1. CASE <<"row", Chosen(t).id>> \in entries[t]
    BY <1>0, <2>0, <2>1, LockedBy DEF Apart
  <2>2. CASE <<"row", Chosen(t).id>> \in Needed(t)
    BY <1>2, <2>2
  <2> QED
    BY <1>1, <1>7, <2>1, <2>2
<1> QED
  BY <1>5, <1>6, <1>7

(* A flush: the session has row r, and each identifier of the new row was  *)
(* in it before or is nobody else's.                                       *)
Flushed(t, id, W) ==
  /\ rows' = rows
  /\ new' = [new EXCEPT ![t][id] = W]
  /\ entries'[t] = {}

Owned(t, id, W) ==
  /\ \A s \in Session \ {t} : <<"row", id>> \notin Locked(s)
  /\ \A c \in Column : W[c] # None =>
       \/ View(t)[id] # None /\ W[c] = View(t)[id][c]
       \/ /\ \A s \in Session \ {t} : <<c, W[c]>> \notin Locked(s)
          /\ \A r \in RowId : View(t)[r] # None /\ View(t)[r][c] = W[c] => r = id

LEMMA FlushLocks ==
  ASSUME LockInv, TypeInv', NEW t \in Session, Act(t), NEW id \in RowId, NEW W \in Mapping,
         Flushed(t, id, W), Owned(t, id, W)
  PROVE  LockInv'
<1> USE DEF Flushed, Owned
<1>0. /\ Types /\ OneRowEach(rows) /\ OneRowEach(View(t)) /\ W # None
      /\ new \in [Session -> [RowId -> Row]] /\ rows \in [RowId -> Row]
  BY ARow DEF LockInv, TypeInv, Types
<1>1. \A q \in RowId : View(t)'[q] = IF q = id THEN W ELSE View(t)[q]
  BY <1>0 DEF View
<1>w. ASSUME NEW q \in RowId, q # id, View(t)[q] # None, NEW c \in Column,
             W[c] # None
      PROVE  View(t)[q][c] # W[c]
  BY <1>0, <1>w DEF OneRowEach
<1>2. OneRowEach(View(t))'
  <2> SUFFICES ASSUME NEW r \in RowId, NEW q \in RowId, NEW c \in Column,
                      View(t)'[r] # None, View(t)'[q] # None, View(t)'[r][c] # None,
                      View(t)'[r][c] = View(t)'[q][c], r # q
               PROVE  FALSE
    BY DEF OneRowEach
  <2>1. CASE r = id
    BY <1>1, <1>w, <2>1
  <2>2. CASE q = id
    BY <1>1, <1>w, <2>2
  <2>3. CASE r # id /\ q # id
    BY <1>0, <1>1, <2>3 DEF OneRowEach
  <2> QED
    BY <2>1, <2>2, <2>3
<1>3. EntriesOK(t)'
  BY DEF EntriesOK
<1>4. ASSUME NEW s \in Session \ {t} PROVE OneRowEach(View(s))' /\ EntriesOK(s)'
  <2>1. View(s)' = View(s) /\ entries'[s] = entries[s]
        /\ Chosen(s)' = Chosen(s) /\ Keys(s)' = Keys(s)
    BY <1>0, Frame, FrameItem, FrameView
  <2> QED
    BY <2>1 DEF LockInv, EntriesOK, OneRowEach
<1>5. ASSUME NEW s \in Session \ {t} PROVE Locked(s)' = Locked(s)
  BY <1>0, Frame DEF Locked, Written
<1>6. ASSUME NEW s \in Session \ {t}, NEW x \in {"row"} \cup Column, NEW v, v # None,
             <<x, v>> \in Locked(t)'
      PROVE  <<x, v>> \notin Locked(s)
  <2>0. Apart(t, s)
    BY DEF LockInv
  <2>1. PICK q \in RowId :
          /\ new'[t][q] # None
          /\ \/ x = "row" /\ v = q
             \/ x \in Column /\ new'[t][q][x] = v
             \/ x \in Column /\ rows'[q] # None /\ rows'[q][x] = v
    <3>1. PICK q \in RowId : /\ new'[t][q] # None
                             /\ \/ <<x, v>> = <<"row", q>>
                                \/ <<x, v>> \in KeysOf(new'[t][q])
                                \/ <<x, v>> \in KeysOf(rows'[q])
      BY <1>6 DEF Locked, Written
    <3>2. CASE x \in Column
      BY <3>1, <3>2, KeyIn DEF Column
    <3>3. CASE x = "row"
      BY <3>1, <3>3 DEF KeysOf
    <3> QED
      BY <3>2, <3>3
  <2>2. CASE new[t][q] # None /\ (q = id => x = "row" \/ (rows[q] # None /\ rows[q][x] = v))
    <3>1. q # id => new'[t][q] = new[t][q]
      BY <1>0
    <3>3. \/ x = "row" /\ v = q
          \/ x \in Column /\ new[t][q][x] = v
          \/ x \in Column /\ rows[q] # None /\ rows[q][x] = v
      <4>1. rows'[q] = rows[q]
        OBVIOUS
      <4>2. CASE q = id
        BY <2>1, <2>2, <4>1, <4>2 DEF Column
      <4>3. CASE q # id
        <5>1. new'[t][q] = new[t][q]
          BY <3>1, <4>3
        <5> QED
          BY <2>1, <4>1, <5>1
      <4> QED
        BY <4>2, <4>3
    <3>2. <<x, v>> \in Locked(t)
      BY <2>2, <3>3, LockedBy
    <3> QED
      BY <1>6, <2>0, <3>2 DEF Apart
  <2>3. q # id => new[t][q] # None
    BY <1>0, <2>1
  <2>4. CASE q = id /\ x = "row"
    BY <2>1, <2>4 DEF Column
  <2>5. CASE q = id /\ x \in Column /\ rows[id] # None /\ rows[id][x] = v
    BY <1>6, <2>5, FreeRow
  <2>6. CASE q = id /\ x \in Column /\ W[x] = v
    <3>1. CASE View(t)[id] # None /\ v = View(t)[id][x]
      <4>1. CASE new[t][id] # None
        <5>1. new[t][id][x] = v
          BY <3>1, <4>1 DEF View
        <5>2. <<x, v>> \in Locked(t)
          BY <2>6, <4>1, <5>1, LockedBy
        <5> QED
          BY <1>6, <2>0, <5>2 DEF Apart
      <4>2. CASE new[t][id] = None
        <5>1. rows[id] # None /\ rows[id][x] = v
          BY <3>1, <4>2 DEF View
        <5> QED
          BY <1>6, <2>6, <5>1, FreeRow
      <4> QED
        BY <4>1, <4>2
    <3> QED
      BY <1>6, <2>6, <3>1
  <2>7. q = id /\ x # "row" => x \in Column /\ (W[x] = v \/ (rows[id] # None /\ rows[id][x] = v))
    <3>1. new'[t][id] = W /\ rows'[q] = rows[q]
      BY <1>0
    <3> SUFFICES ASSUME q = id, x # "row"
                 PROVE  x \in Column /\ (W[x] = v \/ (rows[id] # None /\ rows[id][x] = v))
      OBVIOUS
    <3> QED
      BY <2>1, <3>1
  <2> QED
    BY <2>1, <2>2, <2>3, <2>4, <2>5, <2>6, <2>7
<1>7. \A s, u \in Session : s # u => Apart(s, u)'
  <2> SUFFICES ASSUME NEW s \in Session, NEW u \in Session, s # u PROVE Apart(s, u)'
    OBVIOUS
  <2>1. CASE s # t /\ u # t
    BY <1>5, <2>1 DEF LockInv, Apart
  <2>2. CASE s = t
    BY <1>5, <1>6, <2>2 DEF Apart
  <2>3. CASE u = t
    BY <1>5, <1>6, <2>3 DEF Apart
  <2> QED
    BY <2>1, <2>2, <2>3
<1>8. OneRowEach(rows)'
  BY <1>0 DEF OneRowEach
<1> QED
  BY <1>2, <1>3, <1>4, <1>7, <1>8 DEF LockInv

(* A step that writes nothing, and comes to a flush with nothing locked.   *)
LEMMA QuietLocks ==
  ASSUME LockInv, TypeInv', NEW t \in Session, Act(t),
         UNCHANGED <<rows, new, entries>>, entries[t] = {}
  PROVE  LockInv'
<1>0. Types
  BY DEF LockInv, TypeInv
<1>1. \A s \in Session : View(s)' = View(s) /\ Locked(s)' = Locked(s)
  BY DEF View, Locked, Written
<1>2. EntriesOK(t)'
  BY DEF EntriesOK
<1>3. \A s \in Session \ {t} : EntriesOK(s)'
  BY <1>0, <1>1, FrameItem DEF LockInv, EntriesOK
<1> QED
  BY <1>1, <1>2, <1>3 DEF LockInv, Apart, OneRowEach

LEMMA EntryLocks ==
  ASSUME LockInv, TypeInv', NEW t \in Session, TakeEntry(t)
  PROVE  LockInv'
<1>0. Types /\ EntriesOK(t) /\ OneRowEach(View(t))
  BY DEF LockInv, TypeInv
<1>1. /\ UNCHANGED <<rows, new, pc, batch, item, cmmsAsset, dcAsset>>
      /\ entries' = [entries EXCEPT ![t] = entries[t] \cup Needed(t)]
      /\ Needs(t) # {}
  BY DEF TakeEntry, Needed
<1>2. \A s \in Session : View(s)' = View(s) /\ Chosen(s)' = Chosen(s) /\ Keys(s)' = Keys(s)
  BY <1>1 DEF View, Chosen, Keys, Writes, Mapped
<1>3. entries' \in [Session -> SUBSET (({"row"} \X RowId) \cup Identifier)]
      /\ entries'[t] = entries[t] \cup Needed(t)
      /\ \A s \in Session \ {t} : entries'[s] = entries[s]
  BY <1>0, <1>1 DEF TypeInv, Types
<1>4. /\ Needed(t) \subseteq Needs(t)
      /\ Needs(t) = (Keys(t) \cup IF Chosen(t) = None THEN {} ELSE {<<"row", Chosen(t).id>>})
                      \ entries[t]
  BY <1>1, NeedsType DEF LockInv
<1>5. Chosen(t) # None /\ entries'[t] # {} => <<"row", Chosen(t).id>> \in entries'[t]
  <2> SUFFICES ASSUME Chosen(t) # None, entries'[t] # {},
                      <<"row", Chosen(t).id>> \notin entries'[t]
               PROVE  FALSE
    OBVIOUS
  <2>1. entries[t] = {} /\ <<"row", Chosen(t).id>> \in Needs(t)
    BY <1>0, <1>3, <1>4 DEF EntriesOK
  <2>2. PICK n \in Needed(t) : TRUE
    BY <1>3, <2>1
  <2>3. \E i, j \in 1..3 : i <= j /\ IndexOrder[i] = n[1] /\ IndexOrder[j] = "row"
    BY <2>1, <2>2 DEF Needed
  <2>4. n[1] = "row"
    BY <2>3 DEF IndexOrder
  <2>5. n = <<"row", Chosen(t).id>>
    BY <1>4, <2>2, <2>4 DEF Keys, Writes, Column
  <2> QED
    BY <1>3, <2>2, <2>5
<1>6. ASSUME NEW c \in Column, NEW r \in RowId, NEW v, <<c, v>> \in entries'[t],
             View(t)[r] # None, View(t)[r][c] = v
      PROVE  Chosen(t) # None /\ r = Chosen(t).id
  <2>1. CASE <<c, v>> \in entries[t]
    BY <1>0, <1>6, <2>1 DEF EntriesOK
  <2>2. CASE <<c, v>> \in Needed(t)
    BY <1>6, <2>2, KeyIn DEF TakeEntry, Proceeds, Duplicate
  <2> QED
    BY <1>3, <1>6, <2>1, <2>2
<1>7. EntriesOK(t)'
  BY <1>0, <1>2, <1>3, <1>4, <1>5, <1>6 DEF EntriesOK
<1>8. \A s \in Session \ {t} : EntriesOK(s)'
  BY <1>2, <1>3 DEF LockInv, EntriesOK
<1>9. \A s \in Session \ {t} : Locked(s)' = Locked(s) /\ Needed(t) \cap Locked(s) = {}
  BY <1>1, <1>3 DEF Locked, Written, TakeEntry, Proceeds, Waiting, WaitsFor
<1>10. Locked(t)' = Locked(t) \cup Needed(t)
  BY <1>1, <1>3 DEF Locked, Written
<1>11. \A s, u \in Session : s # u => Apart(s, u)'
  BY <1>9, <1>10 DEF LockInv, Apart
<1> QED
  BY <1>1, <1>2, <1>7, <1>8, <1>11 DEF LockInv, OneRowEach

LEMMA LeaveLocks ==
  ASSUME LockInv, TypeInv', NEW t \in Session, Leave(t), Act(t), UNCHANGED rows
  PROVE  LockInv'
<1>0. Types
  BY DEF LockInv, TypeInv
<1>1. new'[t] = NoRows /\ entries'[t] = {}
  BY <1>0, Left DEF Types
<1>2. View(t)' = rows /\ Locked(t)' = {} /\ EntriesOK(t)'
  BY <1>0, <1>1 DEF View, Locked, Written, NoRows, EntriesOK, Types
<1>3. \A s \in Session \ {t} : View(s)' = View(s) /\ Locked(s)' = Locked(s)
  BY <1>0, Frame, FrameView DEF Locked, Written
<1>4. \A s \in Session \ {t} : EntriesOK(s)'
  BY <1>0, <1>3, Frame, FrameItem DEF LockInv, EntriesOK
<1>5. \A s, u \in Session : s # u => Apart(s, u)'
  BY <1>2, <1>3 DEF LockInv, Apart
<1> QED
  BY <1>2, <1>3, <1>4, <1>5 DEF LockInv, OneRowEach

(* No two sessions have written the same row,                              *)
LEMMA WrittenOnce ==
  ASSUME LockInv, NEW t \in Session, NEW s \in Session \ {t}, NEW q \in RowId,
         new[s][q] # None
  PROVE  new[t][q] = None /\ View(t)[q] = rows[q]
<1>1. <<"row", q>> \in Locked(s) /\ q # None
  BY LockedBy, MappingAssumption
<1>2. <<"row", q>> \notin Locked(t)
  BY <1>1 DEF LockInv, Apart
<1> QED
  BY <1>2, LockedBy DEF View

(* so that what one commits adds to what another one sees.                 *)
LEMMA CommitView ==
  ASSUME LockInv, NEW t \in Session, Commit(t), Act(t), NEW s \in Session \ {t},
         NEW q \in RowId
  PROVE  View(s)'[q] = IF new[t][q] # None THEN new[t][q] ELSE View(s)[q]
<1>1. View(s)' = Merged(View(t), new[s])
  BY FrameView DEF LockInv, TypeInv
<1>2. new[s][q] # None => new[t][q] = None /\ View(t)[q] = rows[q]
  BY WrittenOnce
<1> QED
  BY <1>1, <1>2 DEF Merged, View

(* What t commits shares no row and no identifier with what s has written. *)
LEMMA CommitLocks ==
  ASSUME LockInv, TypeInv', NEW t \in Session, Commit(t), Act(t)
  PROVE  LockInv'
<1>0. Types /\ OneRowEach(View(t)) /\ new \in [Session -> [RowId -> Row]]
  BY DEF LockInv, TypeInv, Types
<1>1. new'[t] = NoRows /\ entries'[t] = {} /\ rows' = View(t)
  BY <1>0, Left DEF Types, Commit, Merged, View
<1>2. View(t)' = View(t) /\ Locked(t)' = {} /\ EntriesOK(t)'
  BY <1>0, <1>1 DEF View, Locked, Written, NoRows, EntriesOK, Types
<1>3. ASSUME NEW s \in Session \ {t}, NEW q \in RowId, new[s][q] # None
      PROVE  new[t][q] = None /\ View(t)[q] = rows[q]
  BY <1>3, WrittenOnce
<1>4. ASSUME NEW s \in Session \ {t} PROVE Locked(s)' = Locked(s)
  <2>1. new'[s] = new[s] /\ entries'[s] = entries[s]
    BY <1>0, Frame
  <2>2. \A q \in Written(s) : rows'[q] = rows[q]
    BY <1>1, <1>3 DEF Written
  <2> QED
    BY <2>1, <2>2 DEF Locked, Written
<1>5. ASSUME NEW s \in Session \ {t}, NEW q \in RowId
      PROVE  View(s)'[q] = IF new[t][q] # None THEN new[t][q] ELSE View(s)[q]
  BY CommitView
<1>6. ASSUME NEW s \in Session \ {t}, NEW q \in RowId, new[t][q] # None, NEW c \in Column,
             new[t][q][c] # None
      PROVE  <<c, new[t][q][c]>> \notin Locked(s)
  <2>1. <<c, new[t][q][c]>> \in Locked(t)
    BY <1>6, LockedBy
  <2> QED
    BY <1>6, <2>1 DEF LockInv, Apart
<1>7. ASSUME NEW s \in Session \ {t} PROVE OneRowEach(View(s))'
  <2> SUFFICES ASSUME NEW r \in RowId, NEW q \in RowId, NEW c \in Column,
                      View(s)'[r] # None, View(s)'[q] # None, View(s)'[r][c] # None,
                      View(s)'[r][c] = View(s)'[q][c], new[t][r] # None, r # q
               PROVE  FALSE
    BY <1>5 DEF LockInv, OneRowEach
  <2>1. View(s)'[r] = new[t][r] /\ View(t)[r] = new[t][r]
    BY <1>5 DEF View
  <2>2. CASE new[s][q] # None
    <3>1. View(s)'[q] = new[s][q]
      BY <1>3, <1>5, <2>2 DEF View
    <3>2. <<c, new[s][q][c]>> \in Locked(s)
      BY <2>2, LockedBy
    <3> QED
      BY <1>6, <2>1, <3>1, <3>2
  <2>3. CASE new[s][q] = None
    <3>1. View(s)'[q] = View(t)[q]
      BY <1>5, <2>3 DEF View
    <3> QED
      BY <1>0, <2>1, <3>1 DEF OneRowEach
  <2> QED
    BY <2>2, <2>3
<1>8. ASSUME NEW s \in Session \ {t} PROVE EntriesOK(s)'
  <2>0. Chosen(s)' = Chosen(s) /\ Keys(s)' = Keys(s) /\ entries'[s] = entries[s] /\ EntriesOK(s)
    BY <1>0, Frame, FrameItem DEF LockInv
  <2>1. ASSUME NEW c \in Column, NEW r \in RowId, NEW v, <<c, v>> \in entries[s],
               View(s)'[r] # None, View(s)'[r][c] = v
        PROVE  Chosen(s) # None /\ r = Chosen(s).id
    <3>1. <<c, v>> \in Locked(s)
      BY <2>1, LockedBy
    <3>2. v # None
      BY <1>0, <2>1, MappingAssumption DEF Types, Identifier, Column
    <3>3. new[t][r] = None
      BY <1>5, <1>6, <2>1, <3>1, <3>2
    <3> QED
      BY <1>5, <2>0, <2>1, <3>3 DEF EntriesOK
  <2> QED
    BY <2>0, <2>1 DEF EntriesOK
<1>9. \A s, u \in Session : s # u => Apart(s, u)'
  BY <1>2, <1>4 DEF LockInv, Apart
<1> QED
  BY <1>0, <1>1, <1>2, <1>7, <1>8, <1>9 DEF LockInv, OneRowEach

LEMMA LockingInit == Init => LockInv
<1> SUFFICES ASSUME Init PROVE LockInv
  OBVIOUS
<1>1. rows = NoRows /\ \A s \in Session : View(s) = NoRows /\ Locked(s) = {} /\ entries[s] = {}
  BY DEF Init, View, Locked, Written, NoRows
<1>2. OneRowEach(NoRows)
  BY DEF OneRowEach, NoRows
<1> QED
  BY <1>1, <1>2, TypingInit DEF LockInv, EntriesOK, Apart

LEMMA LockingStep ==
  ASSUME LockInv, TypeInv', NEW t \in Session, Act(t)
  PROVE  LockInv'
<1>0. Types /\ PlaceOK(t) /\ HeldExist(t) /\ View(t) \in [RowId -> Row]
  BY ViewType DEF LockInv, TypeInv
<1>1. CASE Begin(t) \/ FindCmms(t) \/ FindDc(t) \/ ReportConflict(t) \/ Keep(t)
  <2>1. entries[t] = {}
    BY <1>0, <1>1 DEF PlaceOK, Begin, FindCmms, FindDc, ReportConflict, Keep
  <2>2. UNCHANGED <<rows, new, entries>>
    BY <1>1 DEF Begin, FindCmms, FindDc, ReportConflict, Keep
  <2> QED
    BY <2>1, <2>2, QuietLocks
<1>2. CASE TakeEntry(t)
  BY <1>2, EntryLocks
<1>3. CASE Create(t)
  <2>1. PICK r \in Free : new' = [new EXCEPT ![t][r] = Mapped(t)]
    BY <1>3 DEF Create
  <2>2. rows' = rows /\ entries'[t] = {} /\ pc[t] = "write" /\ Chosen(t) = None /\ Flushes(t)
    BY <1>0, <1>3 DEF Create, Types
  <2>3. Mapped(t) \in Mapping /\ r \in RowId /\ \A s \in Session : View(s)[r] = None
    BY <2>2, AtItem DEF LockInv, Looking, Free
  <2>4. Writes(t) # {} /\ ~Conflict(t)
    <3>1. Writes(t) # {}
      BY <2>2, <2>3, ARow DEF Writes, Column
    <3>2. cmmsAsset[t] = None /\ ~OtherValue(t)
      BY <2>2 DEF Chosen, OtherValue
    <3> QED
      BY <3>1, <3>2 DEF Conflict, TwoAssets
  <2>5. ASSUME NEW s \in Session \ {t} PROVE <<"row", r>> \notin Locked(s)
    <3>1. TypeInv /\ HeldExist(s) /\ EntriesOK(s) /\ Types /\ View(s)[r] = None
      BY <2>3 DEF LockInv, TypeInv
    <3>2. new[s][r] = None
      BY <3>1, <2>3, ARow DEF View
    <3>3. ASSUME <<"row", r>> \in entries[s] PROVE FALSE
      <4>1. <<"row", r>> \notin Keys(s)
        BY DEF Keys, Writes, Column
      <4>2. Chosen(s) # None /\ Chosen(s).id = r
        BY <3>1, <3>3, <4>1 DEF EntriesOK
      <4> QED
        BY <3>1, <4>2 DEF HeldExist, Chosen
    <3> QED
      BY <3>2, <3>3, LockedBy DEF Column
  <2>6. ASSUME NEW c \in Column, Mapped(t)[c] # None
        PROVE  /\ \A s \in Session \ {t} : <<c, Mapped(t)[c]>> \notin Locked(s)
               /\ \A q \in RowId : View(t)[q] # None /\ View(t)[q][c] = Mapped(t)[c] => q = r
    <3>1. c \in Writes(t)
      BY <2>2, <2>6 DEF Writes, Column
    <3> QED
      BY <2>2, <2>4, <3>1, Granted
  <2>7. PICK W \in Mapping : W = Mapped(t)
    BY <2>3
  <2>8. \A c \in Column : W[c] # None =>
          \/ View(t)[r] # None /\ W[c] = View(t)[r][c]
          \/ /\ \A s \in Session \ {t} : <<c, W[c]>> \notin Locked(s)
             /\ \A q \in RowId : View(t)[q] # None /\ View(t)[q][c] = W[c] => q = r
    BY <2>6, <2>7
  <2>9. new' = [new EXCEPT ![t][r] = W]
    BY <2>1, <2>7
  <2>10. Owned(t, r, W) /\ Flushed(t, r, W)
    BY <2>2, <2>5, <2>8, <2>9 DEF Owned, Flushed
  <2> QED
    BY <2>3, <2>10, FlushLocks
<1>4. CASE Complete(t)
  <2> DEFINE id == Chosen(t).id
             W == Set(t, View(t)[id])
  <2>1. /\ rows' = rows /\ entries'[t] = {} /\ pc[t] = "write" /\ Chosen(t) # None
        /\ ~Conflict(t) /\ Writes(t) # {} /\ Flushes(t)
        /\ new' = [new EXCEPT ![t][id] = W]
    BY <1>0, <1>4 DEF Complete, Types
  <2>2. Mapped(t) \in Mapping /\ id \in RowId
    BY <1>0, <2>1, AtItem, ChosenType DEF LockInv, Looking, Object
  <2>3. View(t)[id] \in Mapping /\ View(t)[id] # None
    BY <1>0, <2>1, <2>2 DEF HeldExist, Chosen, Row
  <2>4. W \in Mapping
        /\ \A c \in Column : W[c] = IF c \in Writes(t) THEN Mapped(t)[c] ELSE View(t)[id][c]
    BY <2>2, <2>3, SetRow
  <2> HIDE DEF W
  <2>5. \A s \in Session \ {t} : <<"row", id>> \notin Locked(s)
    BY <2>1, Granted
  <2>6. \A c \in Writes(t) :
          /\ \A s \in Session \ {t} : <<c, Mapped(t)[c]>> \notin Locked(s)
          /\ \A q \in RowId : View(t)[q] # None /\ View(t)[q][c] = Mapped(t)[c] => q = id
    BY <2>1, Granted
  <2>7. \A c \in Column : W[c] # None =>
               \/ View(t)[id] # None /\ W[c] = View(t)[id][c]
               \/ /\ \A s \in Session \ {t} : <<c, W[c]>> \notin Locked(s)
                  /\ \A q \in RowId : View(t)[q] # None /\ View(t)[q][c] = W[c] => q = id
    BY <2>3, <2>4, <2>6
  <2> HIDE DEF id
  <2>8. Owned(t, id, W) /\ Flushed(t, id, W)
    BY <2>1, <2>5, <2>7 DEF Owned, Flushed
  <2> QED
    BY <2>2, <2>4, <2>8, FlushLocks
<1>5. CASE Refuse(t) \/ BreakDeadlock(t) \/ Abandon(t)
  <2>1. Leave(t) /\ UNCHANGED rows
    BY <1>5 DEF Refuse, BreakDeadlock, Abandon, Rollback
  <2> QED
    BY <2>1, LeaveLocks
<1>6. CASE Commit(t)
  BY <1>6, CommitLocks
<1> QED
  BY <1>1, <1>2, <1>3, <1>4, <1>5, <1>6 DEF Act, Step

LEMMA Locking ==
  ASSUME LockInv, [Next]_vars
  PROVE  LockInv'
<1>0. TypeInv'
  BY Typing DEF LockInv
<1>1. CASE UNCHANGED vars
  <2>1. \A s \in Session : /\ View(s)' = View(s) /\ Locked(s)' = Locked(s)
                           /\ Chosen(s)' = Chosen(s) /\ Keys(s)' = Keys(s)
                           /\ entries'[s] = entries[s]
    BY <1>1 DEF vars, View, Locked, Written, Chosen, Keys, Writes, Mapped
  <2> QED
    BY <1>0, <1>1, <2>1 DEF vars, LockInv, OneRowEach, EntriesOK, Apart
<1>2. CASE Next
  BY <1>0, <1>2, LockingStep DEF Next, Act
<1> QED
  BY <1>1, <1>2

(* An asset has one row: whatever the sessions do at once, no two rows of  *)
(* the table have the same asset id of the CMMS, or of the DC (the unique  *)
(* indexes of assets, and the flushes of asset_mapping.py that wait for    *)
(* the keys and rows of other sessions).                                   *)
THEOREM OneAsset == Spec => []OneRowEach(rows)
<1>1. LockInv => OneRowEach(rows)
  BY DEF LockInv
<1> QED
  BY <1>1, LockingInit, Locking, PTL DEF Spec

-----------------------------------------------------------------------------
(* What the objects of a session say of the rows.                          *)

Other(c) == IF c = "cmms" THEN "dc" ELSE "cmms"

(* The objects that may still be used: what a first SELECT found is old    *)
(* when the next item begins.                                              *)
Held(s) ==
  ({dcAsset[s], asset[s]} \cup IF pc[s] \in {"find_dc", "write"} THEN {cmmsAsset[s]} ELSE {})
    \ {None}

(* There is one object for a row; what it has, the row has, and what it    *)
(* lacks, the row lacks, or another session has committed since.           *)
HeldOK(s) ==
  /\ \A o, p \in Held(s) : o.id = p.id => o = p
  /\ \A o \in Held(s), c \in Column :
       /\ o[c] # None => View(s)[o.id][c] = o[c]
       /\ o[c] = None /\ View(s)[o.id][c] # None
            => rows[o.id] # None /\ rows[o.id][c] = View(s)[o.id][c]

(* What a SELECT has found by an identifier still has it.                  *)
FoundOK(s) ==
  /\ pc[s] \in {"find_dc", "write"} /\ cmmsAsset[s] # None =>
       Mapped(s).cmms # None /\ View(s)[cmmsAsset[s].id].cmms = Mapped(s).cmms
  /\ pc[s] = "write" /\ dcAsset[s] # None =>
       Mapped(s).dc # None /\ View(s)[dcAsset[s].id].dc = Mapped(s).dc

StoreInv == LockInv /\ \A s \in Session : HeldOK(s) /\ FoundOK(s)

LEMMA GrowsTrans ==
  ASSUME NEW A, NEW B, NEW C, Grows(A, B), Grows(B, C)
  PROVE  Grows(A, C)
  BY DEF Grows, Keeps

LEMMA HeldType ==
  ASSUME TypeInv, NEW s \in Session, NEW o \in Held(s)
  PROVE  /\ o \in Object /\ o.id \in RowId /\ View(s)[o.id] \in Mapping
         /\ o["cmms"] = o.cmms /\ o["dc"] = o.dc
<1>1. o \in Object /\ View(s)[o.id] # None
  BY DEF Held, TypeInv, Types, HeldExist
<1>2. o.id \in RowId
  BY <1>1 DEF Object
<1> QED
  BY <1>1, <1>2, ViewType DEF TypeInv, Row, Object

(* What another session does adds to the rows, and touches none that s has *)
(* written.                                                                *)
LEMMA Others ==
  ASSUME LockInv, NothingReplaced, NEW t \in Session, Act(t), NEW s \in Session \ {t}
  PROVE  /\ Grows(rows, rows') /\ Grows(View(s), View(s)')
         /\ \A q \in RowId : new[s][q] # None => rows'[q] = rows[q]
         /\ \A q \in RowId : View(s)'[q] # View(s)[q] =>
              /\ new[s][q] = None /\ new[t][q] # None
              /\ View(s)'[q] = new[t][q] /\ rows'[q] = new[t][q]
<1>0. Types
  BY DEF LockInv, TypeInv
<1>1. CASE Commit(t)
  <2>1. rows' = View(t)
    BY <1>1 DEF Commit, Merged, View
  <2>2. Grows(rows, rows')
    BY <2>1 DEF NothingReplaced
  <2>3. ASSUME NEW q \in RowId
        PROVE  /\ View(s)'[q] = IF new[t][q] # None THEN new[t][q] ELSE View(s)[q]
               /\ new[s][q] # None => new[t][q] = None /\ View(t)[q] = rows[q]
    BY <1>1, CommitView, WrittenOnce
  <2>4. ASSUME NEW q \in RowId, View(s)'[q] # View(s)[q]
        PROVE  /\ new[s][q] = None /\ new[t][q] # None
               /\ View(s)'[q] = new[t][q] /\ rows'[q] = new[t][q]
    BY <2>1, <2>3, <2>4 DEF View
  <2>5. Grows(View(s), View(s)')
    <3> SUFFICES ASSUME NEW q \in RowId, View(s)[q] # None PROVE Keeps(View(s)[q], View(s)'[q])
      BY DEF Grows
    <3>1. CASE View(s)'[q] = View(s)[q]
      BY <3>1 DEF Keeps
    <3>2. CASE View(s)'[q] # View(s)[q]
      <4>1. View(s)[q] = rows[q] /\ View(s)'[q] = rows'[q]
        BY <2>4, <3>2 DEF View
      <4> QED
        BY <2>2, <4>1 DEF Grows
    <3> QED
      BY <3>1, <3>2
  <2> QED
    BY <2>1, <2>2, <2>3, <2>4, <2>5
<1>2. CASE rows' = rows
  <2>1. View(s)' = View(s)
    BY <1>0, <1>2, FrameView
  <2> QED
    BY <1>2, <2>1 DEF Grows, Keeps
<1> QED
  BY <1>0, <1>1, <1>2, Frame

(* A flush in the view of its session.                                     *)
LEMMA FlushedView ==
  ASSUME Types, NEW t \in Session, NEW id \in RowId, NEW W \in Mapping, Flushed(t, id, W)
  PROVE  \A q \in RowId : View(t)'[q] = IF q = id THEN W ELSE View(t)[q]
  BY ARow DEF Types, View, Flushed

LEMMA Created ==
  ASSUME TypeInv, NEW t \in Session, Create(t)
  PROVE  /\ pc[t] = "write" /\ Chosen(t) = None /\ Mapped(t) \in Mapping
         /\ \E r \in RowId :
              /\ \A s \in Session : View(s)[r] = None
              /\ Flushed(t, r, Mapped(t)) /\ Report(t, "created", r)
              /\ asset' = [asset EXCEPT ![t] =
                             [id |-> r, cmms |-> Mapped(t).cmms, dc |-> Mapped(t).dc]]
              /\ UNCHANGED <<rows, batch, cmmsAsset, dcAsset, told>>
<1>1. pc[t] = "write" /\ Chosen(t) = None /\ UNCHANGED <<rows, batch, cmmsAsset, dcAsset, told>>
      /\ entries'[t] = {}
  BY DEF Create, TypeInv, Types
<1>2. Mapped(t) \in Mapping
  BY <1>1, AtItem DEF Looking
<1> QED
  BY <1>1, <1>2 DEF Create, Flushed, Free

LEMMA Filled ==
  ASSUME TypeInv, NEW t \in Session, Complete(t)
  PROVE  LET id == Chosen(t).id
             W  == Set(t, View(t)[id])
         IN  /\ pc[t] = "write" /\ ~Conflict(t) /\ Mapped(t) \in Mapping
             /\ Chosen(t) \in Held(t) /\ id \in RowId /\ View(t)[id] \in Mapping
             /\ Flushed(t, id, W) /\ Report(t, "updated", id) /\ W \in Mapping
             /\ \A c \in Column : W[c] = IF c \in Writes(t) THEN Mapped(t)[c] ELSE View(t)[id][c]
             /\ asset' = [asset EXCEPT ![t] = Set(t, Chosen(t))]
             /\ dcAsset' = [dcAsset EXCEPT ![t] = IF @ = None THEN @ ELSE Set(t, @)]
             /\ UNCHANGED <<rows, batch, cmmsAsset, told>>
<1>1. pc[t] = "write" /\ Chosen(t) # None /\ ~Conflict(t) /\ entries'[t] = {}
      /\ UNCHANGED <<rows, batch, cmmsAsset, told>>
  BY DEF Complete, TypeInv, Types
<1>2. Mapped(t) \in Mapping /\ Chosen(t) \in Held(t)
  BY <1>1, AtItem DEF Looking, Held, Chosen
<1>3. Chosen(t).id \in RowId /\ View(t)[Chosen(t).id] \in Mapping
  BY <1>2, HeldType
<1> QED
  BY <1>1, <1>2, <1>3, SetRow DEF Complete, Flushed

(* Where the view and the rows are as before, a session that holds no more *)
(* objects than it did knows no less of them.                              *)
LEMMA HeldFewer ==
  ASSUME StoreInv, NEW t \in Session, UNCHANGED <<rows, new>>, Held(t)' \subseteq Held(t)
  PROVE  HeldOK(t)'
<1>1. View(t)' = View(t) /\ HeldOK(t)
  BY DEF View, StoreInv
<1> QED
  BY <1>1 DEF HeldOK

LEMMA StoringOthers ==
  ASSUME StoreInv, NothingReplaced, NEW t \in Session, Act(t), NEW s \in Session \ {t}
  PROVE  HeldOK(s)' /\ FoundOK(s)'
<1>0. LockInv /\ TypeInv /\ Types /\ HeldOK(s) /\ FoundOK(s)
  BY DEF StoreInv, LockInv, TypeInv
<1>1. /\ new'[s] = new[s] /\ pc'[s] = pc[s] /\ cmmsAsset'[s] = cmmsAsset[s]
      /\ dcAsset'[s] = dcAsset[s] /\ asset'[s] = asset[s] /\ Mapped(s)' = Mapped(s)
  BY <1>0, Frame, FrameItem
<1>2. Held(s)' = Held(s)
  BY <1>1 DEF Held
<1>3. Grows(rows, rows') /\ Grows(View(s), View(s)')
  BY <1>0, Others
<1>4. ASSUME NEW o \in Held(s), NEW c \in Column
      PROVE  /\ o[c] # None => View(s)'[o.id][c] = o[c]
             /\ o[c] = None /\ View(s)'[o.id][c] # None
                  => rows'[o.id] # None /\ rows'[o.id][c] = View(s)'[o.id][c]
  <2>1. o.id \in RowId /\ View(s)[o.id] \in Mapping /\ View(s)[o.id] # None
    BY <1>0, HeldType, ARow
  <2>2. o[c] # None => View(s)'[o.id][c] = o[c]
    BY <1>0, <1>3, <2>1 DEF HeldOK, Grows, Keeps
  <2>3. ASSUME o[c] = None, View(s)'[o.id][c] # None
        PROVE  rows'[o.id] # None /\ rows'[o.id][c] = View(s)'[o.id][c]
    <3>1. CASE View(s)'[o.id] = View(s)[o.id]
      <4>1. rows[o.id] # None /\ rows[o.id][c] = View(s)[o.id][c]
        BY <1>0, <2>3, <3>1 DEF HeldOK
      <4> QED
        BY <1>3, <2>1, <2>3, <3>1, <4>1 DEF Grows, Keeps
    <3>2. CASE View(s)'[o.id] # View(s)[o.id]
      BY <1>0, <2>1, <3>2, Others
    <3> QED
      BY <3>1, <3>2
  <2> QED
    BY <2>2, <2>3
<1>5. HeldOK(s)'
  BY <1>0, <1>2, <1>4 DEF HeldOK
<1>6. FoundOK(s)'
  <2>1. \A o \in Object : View(s)[o.id] # None => Keeps(View(s)[o.id], View(s)'[o.id])
    BY <1>3 DEF Grows, Object
  <2>2. cmmsAsset[s] # None => cmmsAsset[s] \in Object /\ View(s)[cmmsAsset[s].id] # None
    BY <1>0 DEF TypeInv, Types, HeldExist
  <2>3. dcAsset[s] # None => dcAsset[s] \in Object /\ View(s)[dcAsset[s].id] # None
    BY <1>0 DEF TypeInv, Types, HeldExist
  <2>4. \A m \in Identifiers : m.cmms = m["cmms"] /\ m.dc = m["dc"]
    OBVIOUS
  <2>5. ASSUME pc[s] \in {"find_dc", "write"}, cmmsAsset[s] # None
        PROVE  Mapped(s).cmms # None /\ View(s)'[cmmsAsset[s].id].cmms = Mapped(s).cmms
    <3>1. Mapped(s).cmms # None /\ View(s)[cmmsAsset[s].id].cmms = Mapped(s).cmms
      BY <1>0, <2>5 DEF FoundOK
    <3>2. Keeps(View(s)[cmmsAsset[s].id], View(s)'[cmmsAsset[s].id])
      BY <2>1, <2>2, <2>5
    <3> QED
      BY <3>1, <3>2 DEF Keeps, Column
  <2>6. ASSUME pc[s] = "write", dcAsset[s] # None
        PROVE  Mapped(s).dc # None /\ View(s)'[dcAsset[s].id].dc = Mapped(s).dc
    <3>1. Mapped(s).dc # None /\ View(s)[dcAsset[s].id].dc = Mapped(s).dc
      BY <1>0, <2>6 DEF FoundOK
    <3>2. Keeps(View(s)[dcAsset[s].id], View(s)'[dcAsset[s].id])
      BY <2>1, <2>3, <2>6
    <3> QED
      BY <3>1, <3>2 DEF Keeps, Column
  <2> QED
    BY <1>1, <2>5, <2>6 DEF FoundOK
<1> QED
  BY <1>5, <1>6

(* What an object lacks and its row has after a step, it lacked before.    *)
Aged(t) ==
  \A x \in Held(t)', c \in Column :
    x[c] = None /\ View(t)'[x.id][c] # None =>
      \/ x \in Held(t) /\ View(t)'[x.id] = View(t)[x.id]
      \/ Complete(t) /\ x.id = Chosen(t).id /\ Chosen(t)[c] = None /\ c \notin Writes(t)

LEMMA StoringOwn ==
  ASSUME StoreInv, NEW t \in Session, Act(t)
  PROVE  HeldOK(t)' /\ FoundOK(t)' /\ Aged(t)
<1>0. LockInv /\ TypeInv /\ Types /\ PlaceOK(t) /\ HeldExist(t) /\ HeldOK(t) /\ FoundOK(t)
  BY DEF StoreInv, LockInv, TypeInv
<1>1. ASSUME Held(t)' = {}, pc'[t] \notin {"find_dc", "write"}
      PROVE  HeldOK(t)' /\ FoundOK(t)' /\ Aged(t)
  BY <1>1 DEF HeldOK, FoundOK, Aged
<1>2. CASE Begin(t)
  <2>1. dcAsset'[t] = None /\ asset'[t] = None /\ pc'[t] = "find_cmms"
    BY <1>0, <1>2 DEF Begin, Goto, PlaceOK, Types
  <2> QED
    BY <1>1, <2>1 DEF Held
<1>3. CASE FindCmms(t)
  <2> DEFINE held == {dcAsset[t], asset[t]} \ {None}
             o    == FoundBy(t, "cmms", Mapped(t).cmms, held)
  <2>1. held \in SUBSET Object /\ held = Held(t)
    BY <1>0, <1>3 DEF Types, FindCmms, Held
  <2>2. o # None => /\ Mapped(t).cmms # None /\ o \in Object
                    /\ View(t)[o.id].cmms = Mapped(t).cmms
                    /\ \/ o \in held
                       \/ /\ o.cmms = View(t)[o.id].cmms /\ o.dc = View(t)[o.id].dc
                          /\ \A p \in held : p.id # o.id
    <3>1. "cmms" \in Column
      BY DEF Column
    <3>2. ASSUME o # None
          PROVE  /\ Mapped(t).cmms # None /\ o \in Object
                 /\ View(t)[o.id]["cmms"] = Mapped(t).cmms
                 /\ \/ o \in held
                    \/ /\ o.cmms = View(t)[o.id].cmms /\ o.dc = View(t)[o.id].dc
                       /\ \A p \in held : p.id # o.id
      <4> HIDE DEF held
      <4> QED
        BY <1>0, <2>1, <3>1, <3>2, Found
    <3> HIDE DEF o, held
    <3> QED
      BY <3>2
  <2>3. /\ cmmsAsset'[t] = o /\ dcAsset'[t] = dcAsset[t] /\ asset'[t] = asset[t]
        /\ pc'[t] = "find_dc" /\ View(t)' = View(t) /\ Mapped(t)' = Mapped(t) /\ rows' = rows
    BY <1>0, <1>3 DEF FindCmms, Goto, Types, View, Mapped
  <2> HIDE DEF o
  <2>4. Held(t)' = (held \cup {o}) \ {None}
    BY <2>3 DEF Held
  <2> HIDE DEF held
  <2>5. HeldOK(t)'
    <3>1. \A x, y \in Held(t)' : x.id = y.id => x = y
      BY <1>0, <2>1, <2>2, <2>4 DEF HeldOK
    <3>2. ASSUME NEW x \in Held(t)', NEW c \in Column
          PROVE  /\ x[c] # None => View(t)[x.id][c] = x[c]
                 /\ x[c] = None /\ View(t)[x.id][c] # None
                      => rows[x.id] # None /\ rows[x.id][c] = View(t)[x.id][c]
      <4>1. CASE x \in held
        BY <1>0, <2>1, <4>1 DEF HeldOK
      <4>2. CASE x \notin held
        <5>1. x.cmms = View(t)[x.id].cmms /\ x.dc = View(t)[x.id].dc
          BY <2>2, <2>4, <4>2
        <5>2. x[c] = View(t)[x.id][c]
          BY <5>1 DEF Column
        <5> QED
          BY <5>2
      <4> QED
        BY <4>1, <4>2
    <3> QED
      BY <2>3, <3>1, <3>2 DEF HeldOK
  <2>6. Aged(t)
    <3> SUFFICES ASSUME NEW x \in Held(t)', x \notin Held(t), NEW c \in Column
                 PROVE  x[c] = View(t)[x.id][c]
      BY <2>3 DEF Aged
    <3> QED
      BY <2>1, <2>2, <2>4 DEF Column
  <2>7. FoundOK(t)'
    BY <2>2, <2>3 DEF FoundOK
  <2> QED
    BY <2>5, <2>6, <2>7
<1>4. CASE FindDc(t)
  <2> DEFINE held == {cmmsAsset[t], asset[t]} \ {None}
             o    == FoundBy(t, "dc", Mapped(t).dc, held)
  <2>1. held \in SUBSET Object /\ held \subseteq Held(t)
    BY <1>0, <1>4 DEF Types, FindDc, Held
  <2>2. o # None => /\ Mapped(t).dc # None /\ o \in Object
                    /\ View(t)[o.id].dc = Mapped(t).dc
                    /\ \/ o \in held
                       \/ /\ o.cmms = View(t)[o.id].cmms /\ o.dc = View(t)[o.id].dc
                          /\ \A p \in held : p.id # o.id
    <3>1. "dc" \in Column
      BY DEF Column
    <3>2. ASSUME o # None
          PROVE  /\ Mapped(t).dc # None /\ o \in Object
                 /\ View(t)[o.id]["dc"] = Mapped(t).dc
                 /\ \/ o \in held
                    \/ /\ o.cmms = View(t)[o.id].cmms /\ o.dc = View(t)[o.id].dc
                       /\ \A p \in held : p.id # o.id
      <4> HIDE DEF held
      <4> QED
        BY <1>0, <2>1, <3>1, <3>2, Found
    <3> HIDE DEF o, held
    <3> QED
      BY <3>2
  <2>3. /\ cmmsAsset'[t] = cmmsAsset[t] /\ dcAsset'[t] = o /\ asset'[t] = asset[t]
        /\ pc'[t] = "write" /\ View(t)' = View(t) /\ Mapped(t)' = Mapped(t) /\ rows' = rows
        /\ pc[t] = "find_dc"
    BY <1>0, <1>4 DEF FindDc, Goto, Types, View, Mapped
  <2> HIDE DEF o
  <2>4. Held(t)' = (held \cup {o}) \ {None}
    BY <2>3 DEF Held
  <2> HIDE DEF held
  <2>5. HeldOK(t)'
    <3>1. \A x, y \in Held(t)' : x.id = y.id => x = y
      BY <1>0, <2>1, <2>2, <2>4 DEF HeldOK
    <3>2. ASSUME NEW x \in Held(t)', NEW c \in Column
          PROVE  /\ x[c] # None => View(t)[x.id][c] = x[c]
                 /\ x[c] = None /\ View(t)[x.id][c] # None
                      => rows[x.id] # None /\ rows[x.id][c] = View(t)[x.id][c]
      <4>1. CASE x \in held
        BY <1>0, <2>1, <4>1 DEF HeldOK
      <4>2. CASE x \notin held
        <5>1. x.cmms = View(t)[x.id].cmms /\ x.dc = View(t)[x.id].dc
          BY <2>2, <2>4, <4>2
        <5>2. x[c] = View(t)[x.id][c]
          BY <5>1 DEF Column
        <5> QED
          BY <5>2
      <4> QED
        BY <4>1, <4>2
    <3> QED
      BY <2>3, <3>1, <3>2 DEF HeldOK
  <2>6. Aged(t)
    <3> SUFFICES ASSUME NEW x \in Held(t)', x \notin Held(t), NEW c \in Column
                 PROVE  x[c] = View(t)[x.id][c]
      BY <2>3 DEF Aged
    <3> QED
      BY <2>1, <2>2, <2>4 DEF Column
  <2>7. FoundOK(t)'
    BY <1>0, <2>2, <2>3 DEF FoundOK
  <2> QED
    BY <2>5, <2>6, <2>7
<1>5. ASSUME NEW status, NEW id, Report(t, status, id) PROVE pc'[t] \in {"find_cmms", "commit"}
  BY <1>0, <1>5 DEF Report, Goto, Types
<1>6. CASE ReportConflict(t) \/ Keep(t)
  <2>1. pc'[t] \in {"find_cmms", "commit"} /\ pc[t] = "write"
    BY <1>5, <1>6 DEF ReportConflict, Keep
  <2>2. /\ UNCHANGED <<rows, new, dcAsset>>
        /\ asset'[t] \in {asset[t], Chosen(t)}
    BY <1>0, <1>6 DEF ReportConflict, Keep, Types
  <2>3. Held(t)' \subseteq Held(t)
    BY <2>1, <2>2 DEF Held, Chosen
  <2>4. View(t)' = View(t)
    BY <2>2 DEF View
  <2> QED
    BY <2>1, <2>2, <2>3, <2>4, HeldFewer DEF FoundOK, Aged
<1>7. CASE TakeEntry(t)
  <2>1. Held(t)' = Held(t) /\ View(t)' = View(t) /\ Mapped(t)' = Mapped(t)
    BY <1>7 DEF TakeEntry, Held, View, Mapped
  <2> QED
    BY <1>0, <1>7, <2>1 DEF TakeEntry, HeldOK, FoundOK, Aged
<1>8. CASE Create(t)
  <2>1. PICK r \in RowId :
          /\ View(t)[r] = None /\ Flushed(t, r, Mapped(t)) /\ Report(t, "created", r)
          /\ asset' = [asset EXCEPT ![t] =
                         [id |-> r, cmms |-> Mapped(t).cmms, dc |-> Mapped(t).dc]]
          /\ UNCHANGED <<rows, dcAsset>>
    BY <1>0, <1>8, Created
  <2> DEFINE o == [id |-> r, cmms |-> Mapped(t).cmms, dc |-> Mapped(t).dc]
  <2>2. pc'[t] \in {"find_cmms", "commit"} /\ asset'[t] = o
    BY <1>0, <1>5, <2>1 DEF Types
  <2>3. Mapped(t) \in Mapping
        /\ \A q \in RowId : View(t)'[q] = IF q = r THEN Mapped(t) ELSE View(t)[q]
    BY <1>0, <1>8, <2>1, Created, FlushedView
  <2>4. o.id = r /\ o["cmms"] = Mapped(t)["cmms"] /\ o["dc"] = Mapped(t)["dc"]
    BY <2>3, ARow
  <2> HIDE DEF o
  <2>5. Held(t)' \subseteq (Held(t) \cup {o})
    BY <2>1, <2>2 DEF Held
  <2>6. \A x \in Held(t) : x.id \in RowId \ {r} /\ View(t)'[x.id] = View(t)[x.id]
    BY <1>0, <2>1, <2>3, HeldType, ARow
  <2>7. \A c \in Column : o[c] = View(t)'[o.id][c]
    BY <2>3, <2>4 DEF Column
  <2>8. HeldOK(t)'
    <3>1. \A x, y \in Held(t)' : x.id = y.id => x = y
      BY <1>0, <2>4, <2>5, <2>6 DEF HeldOK
    <3>2. \A x \in Held(t)', c \in Column :
            /\ x[c] # None => View(t)'[x.id][c] = x[c]
            /\ x[c] = None /\ View(t)'[x.id][c] # None
                 => rows[x.id] # None /\ rows[x.id][c] = View(t)'[x.id][c]
      BY <1>0, <2>5, <2>6, <2>7 DEF HeldOK
    <3> QED
      BY <2>1, <3>1, <3>2 DEF HeldOK
  <2> QED
    BY <2>2, <2>5, <2>6, <2>7, <2>8 DEF FoundOK, Aged
<1>9. CASE Complete(t)
  <2> DEFINE id == Chosen(t).id
             W  == Set(t, View(t)[id])
             o  == Set(t, Chosen(t))
  <2>1. /\ pc[t] = "write" /\ ~Conflict(t) /\ Mapped(t) \in Mapping
        /\ Chosen(t) \in Held(t) /\ id \in RowId /\ View(t)[id] \in Mapping
        /\ Flushed(t, id, W) /\ Report(t, "updated", id) /\ W \in Mapping
        /\ \A c \in Column : W[c] = IF c \in Writes(t) THEN Mapped(t)[c] ELSE View(t)[id][c]
        /\ asset' = [asset EXCEPT ![t] = o]
        /\ dcAsset' = [dcAsset EXCEPT ![t] = IF @ = None THEN @ ELSE Set(t, @)]
        /\ rows' = rows
    BY <1>0, <1>9, Filled
  <2>2. Chosen(t) \in Object
    BY <1>0, <2>1, HeldType
  <2>3. o.id = id /\ \A c \in Column : o[c] = IF c \in Writes(t) THEN Mapped(t)[c] ELSE Chosen(t)[c]
    BY <2>1, <2>2, SetObject
  <2> HIDE DEF W
  <2>4. View(t)'[id] = W
    BY <1>0, <2>1, FlushedView
  <2>5. dcAsset[t] # None => dcAsset[t] = Chosen(t)
    <3>1. dcAsset[t] # None => dcAsset[t].id = id
      BY <2>1 DEF Conflict, TwoAssets, Chosen
    <3>2. dcAsset[t] # None => dcAsset[t] \in Held(t)
      BY DEF Held
    <3> QED
      BY <1>0, <2>1, <3>1, <3>2 DEF HeldOK
  <2>6. pc'[t] \in {"find_cmms", "commit"} /\ asset'[t] = o /\ dcAsset'[t] \in {None, o}
    BY <1>0, <1>5, <2>1, <2>5 DEF Types
  <2> HIDE DEF o
  <2>7. Held(t)' \subseteq {o}
    BY <2>6 DEF Held
  <2>8. ASSUME NEW c \in Column
        PROVE  /\ o[c] # None => W[c] = o[c]
               /\ o[c] = None /\ W[c] # None => rows[id] # None /\ rows[id][c] = W[c]
    <3>1. c \in Writes(t) => Mapped(t)[c] # None
      BY DEF Writes
    <3> QED
      BY <1>0, <2>1, <2>3, <3>1 DEF HeldOK
  <2>9. HeldOK(t)'
    BY <2>1, <2>3, <2>4, <2>7, <2>8 DEF HeldOK
  <2>10. Aged(t)
    <3>1. \A c \in Column : c \in Writes(t) => Mapped(t)[c] # None
      BY DEF Writes
    <3> QED
      BY <1>9, <2>3, <2>7, <3>1 DEF Aged
  <2> QED
    BY <2>6, <2>9, <2>10 DEF FoundOK
<1>10. CASE Commit(t) \/ Refuse(t) \/ BreakDeadlock(t) \/ Abandon(t)
  <2>1. Leave(t)
    BY <1>10 DEF Commit, Refuse, BreakDeadlock, Abandon, Rollback
  <2>2. dcAsset'[t] = None /\ asset'[t] = None /\ pc'[t] = "idle"
    BY <1>0, <2>1, Left DEF Types
  <2> QED
    BY <1>1, <2>2 DEF Held
<1> QED
  BY <1>2, <1>3, <1>4, <1>6, <1>7, <1>8, <1>9, <1>10 DEF Act, Step

LEMMA StoringInit == Init => StoreInv /\ NothingReplaced
<1> SUFFICES ASSUME Init PROVE StoreInv /\ NothingReplaced
  OBVIOUS
<1>1. \A s \in Session : Held(s) = {} /\ View(s) = rows /\ rows = NoRows
  BY DEF Init, Held, View, NoRows
<1>2. \A s \in Session : pc[s] = "idle"
  BY DEF Init
<1> QED
  BY <1>1, <1>2, LockingInit DEF StoreInv, HeldOK, FoundOK, NothingReplaced, Grows, NoRows

LEMMA StoringStep ==
  ASSUME StoreInv, NothingReplaced, NEW t \in Session, Act(t)
  PROVE  StoreInv'
<1>1. LockInv'
  BY TypingStep, LockingStep DEF StoreInv, LockInv
<1>2. \A s \in Session : HeldOK(s)' /\ FoundOK(s)'
  BY StoringOthers, StoringOwn
<1> QED
  BY <1>1, <1>2 DEF StoreInv

LEMMA Unchanged ==
  ASSUME UNCHANGED vars, NEW s
  PROVE  /\ View(s)' = View(s) /\ Held(s)' = Held(s) /\ Mapped(s)' = Mapped(s)
         /\ HeldOK(s) => HeldOK(s)'
         /\ FoundOK(s) => FoundOK(s)'
<1>1. View(s)' = View(s) /\ Held(s)' = Held(s) /\ Mapped(s)' = Mapped(s)
      /\ UNCHANGED <<rows, pc, cmmsAsset, dcAsset>>
  BY DEF vars, View, Held, Mapped
<1> QED
  BY <1>1 DEF HeldOK, FoundOK

LEMMA Storing ==
  ASSUME StoreInv, NothingReplaced, [Next]_vars
  PROVE  StoreInv'
<1>1. CASE UNCHANGED vars
  <2>1. LockInv'
    BY Locking DEF StoreInv
  <2> QED
    BY <1>1, <2>1, Unchanged DEF StoreInv
<1>2. CASE Next
  BY <1>2, StoringStep DEF Next, Act
<1> QED
  BY <1>1, <1>2

(* What an UPDATE sets is missing in the row, or the row has just that.    *)
Agreed(t) == \A c \in Writes(t) : View(t)[Chosen(t).id][c] \in {None, Mapped(t)[c]}

(* If so, the view of the session has grown.                               *)
LEMMA FilledGrows ==
  ASSUME StoreInv, NEW t \in Session, Complete(t), Agreed(t)
  PROVE  Grows(View(t), View(t)')
<1> DEFINE id == Chosen(t).id
           W  == Set(t, View(t)[id])
<1>0. TypeInv /\ Types
  BY DEF StoreInv, LockInv, TypeInv
<1>1. /\ id \in RowId /\ View(t)[id] \in Mapping /\ Flushed(t, id, W) /\ W \in Mapping
      /\ \A c \in Column : W[c] = IF c \in Writes(t) THEN Mapped(t)[c] ELSE View(t)[id][c]
  BY <1>0, Filled
<1> HIDE DEF W
<1>2. \A q \in RowId : View(t)'[q] = IF q = id THEN W ELSE View(t)[q]
  BY <1>0, <1>1, FlushedView
<1>3. Keeps(View(t)[id], W)
  BY <1>1, ARow DEF Agreed, Keeps
<1> QED
  BY <1>2, <1>3 DEF Grows, Keeps

LEMMA FilledAgreed ==
  ASSUME StoreInv, NEW t \in Session, Complete(t), NothingReplaced'
  PROVE  Agreed(t)
<1> DEFINE id == Chosen(t).id
           W  == Set(t, View(t)[id])
<1>0. TypeInv /\ Types /\ HeldOK(t)
  BY DEF StoreInv, LockInv, TypeInv
<1>1. /\ Chosen(t) \in Held(t) /\ id \in RowId /\ Flushed(t, id, W) /\ W \in Mapping
      /\ \A c \in Column : W[c] = IF c \in Writes(t) THEN Mapped(t)[c] ELSE View(t)[id][c]
      /\ rows' = rows
  BY <1>0, Filled
<1> HIDE DEF W
<1>2. View(t)'[id] = W
  BY <1>0, <1>1, FlushedView
<1>3. ASSUME NEW c \in Writes(t), View(t)[id][c] # None PROVE View(t)[id][c] = Mapped(t)[c]
  <2>1. c \in Column /\ Chosen(t)[c] = None
    <3>1. Chosen(t) # None
      BY <1>0, <1>1 DEF Held
    <3> QED
      BY <3>1 DEF Writes, Column
  <2>2. rows[id] # None /\ rows[id][c] = View(t)[id][c]
    BY <1>0, <1>1, <1>3, <2>1 DEF HeldOK
  <2>3. Keeps(rows[id], View(t)'[id])
    BY <1>1, <2>2 DEF NothingReplaced, Grows
  <2> QED
    BY <1>1, <1>2, <1>3, <2>1, <2>2, <2>3 DEF Keeps
<1> QED
  BY <1>3 DEF Agreed

(* So a session loses nothing of its view before it leaves.                *)
LEMMA OwnView ==
  ASSUME StoreInv, NEW t \in Session, Act(t), Complete(t) => Agreed(t), ~Leave(t)
  PROVE  rows' = rows /\ Grows(View(t), View(t)')
<1>0. TypeInv /\ Types
  BY DEF StoreInv, LockInv, TypeInv
<1>1. ~(Commit(t) \/ Refuse(t) \/ BreakDeadlock(t) \/ Abandon(t))
  BY DEF Commit, Refuse, BreakDeadlock, Abandon, Rollback
<1>2. CASE Create(t)
  <2>1. PICK r \in RowId : View(t)[r] = None /\ Flushed(t, r, Mapped(t)) /\ rows' = rows
    BY <1>0, <1>2, Created
  <2>2. Mapped(t) \in Mapping
    BY <1>0, <1>2, Created
  <2>3. \A q \in RowId : View(t)'[q] = IF q = r THEN Mapped(t) ELSE View(t)[q]
    BY <1>0, <2>1, <2>2, FlushedView
  <2> QED
    BY <2>1, <2>3 DEF Grows, Keeps
<1>3. CASE Complete(t)
  BY <1>3, FilledGrows DEF Complete
<1>4. CASE UNCHANGED <<rows, new>>
  <2>1. View(t)' = View(t)
    BY <1>4 DEF View
  <2> QED
    BY <1>4, <2>1 DEF Grows, Keeps
<1> QED
  BY <1>1, <1>2, <1>3, <1>4
     DEF Act, Step, Begin, FindCmms, FindDc, ReportConflict, Keep, TakeEntry

-----------------------------------------------------------------------------
(* What an answer says stays true.                                         *)

(* A row has one of the identifiers of m, and with the other it has, or    *)
(* another row has that other, it can never have both.                     *)
Contradicted(table, m) ==
  \E c \in Column, a \in RowId :
    /\ m[c] # None /\ m[Other(c)] # None
    /\ table[a] # None /\ table[a][c] = m[c]
    /\ \/ table[a][Other(c)] \notin {None, m[Other(c)]}
       \/ \E b \in RowId \ {a} : table[b] # None /\ table[b][Other(c)] = m[Other(c)]

Carries(row, m) == row # None /\ \A c \in Column : m[c] # None => row[c] = m[c]

Settled(table, x) ==
  IF x.status = "conflict" THEN Contradicted(table, x.mapping)
  ELSE x.id \in RowId /\ Carries(table[x.id], x.mapping)

AnswerInv ==
  /\ StoreInv
  /\ NothingReplaced
  /\ \A s \in Session : \A i \in 1..Len(results[s]) : Settled(View(s), results[s][i])
  /\ \A r \in RowId : told[r] \subseteq KeysOf(rows[r])

LEMMA OtherColumn ==
  ASSUME NEW c \in Column
  PROVE  Other(c) \in Column /\ Other(c) # c /\ Other(Other(c)) = c
         /\ \A d \in Column : d = c \/ d = Other(c)
  BY DEF Other, Column

LEMMA GivenIn ==
  ASSUME NEW m \in Mapping, NEW row
  PROVE  Carries(row, m) <=> Given(m) \subseteq KeysOf(row)
<1>1. PICK c \in Column : m[c] # None
  BY ARow DEF Column
<1>2. \A d, v : <<d, v>> \in Given(m) <=> d \in Column /\ m[d] # None /\ v = m[d]
  BY DEF Given, Column
<1>4. \A d \in Column : \A v : <<d, v>> \in KeysOf(row) <=> row # None /\ row[d] = v
  BY KeyIn
<1>5. ASSUME Carries(row, m) PROVE Given(m) \subseteq KeysOf(row)
  <2> SUFFICES ASSUME NEW k \in Given(m) PROVE k \in KeysOf(row)
    OBVIOUS
  <2>1. PICK d \in Column : m[d] # None /\ k = <<d, m[d]>>
    BY DEF Given, Column
  <2> QED
    BY <1>4, <1>5, <2>1 DEF Carries
<1>6. ASSUME Given(m) \subseteq KeysOf(row) PROVE Carries(row, m)
  <2>1. \A d \in Column : m[d] # None => row # None /\ row[d] = m[d]
    BY <1>2, <1>4, <1>6
  <2> QED
    BY <1>1, <2>1 DEF Carries
<1> QED
  BY <1>5, <1>6

LEMMA SettledGrows ==
  ASSUME NEW x, NEW A, NEW B, Grows(A, B), Settled(A, x)
  PROVE  Settled(B, x)
<1>1. CASE x.status = "conflict"
  <2> DEFINE m == x.mapping
  <2>1. PICK c \in Column, a \in RowId :
          /\ m[c] # None /\ m[Other(c)] # None /\ A[a] # None /\ A[a][c] = m[c]
          /\ \/ A[a][Other(c)] \notin {None, m[Other(c)]}
             \/ \E b \in RowId \ {a} : A[b] # None /\ A[b][Other(c)] = m[Other(c)]
    BY <1>1 DEF Settled, Contradicted
  <2>2. Other(c) \in Column
    BY OtherColumn
  <2>3. \A q \in RowId, d \in Column :
          A[q] # None /\ A[q][d] # None => B[q] # None /\ B[q][d] = A[q][d]
    BY DEF Grows, Keeps
  <2> HIDE DEF m
  <2>4. B[a] # None /\ B[a][c] = m[c]
    BY <2>1, <2>3
  <2>5. \/ B[a][Other(c)] \notin {None, m[Other(c)]}
        \/ \E b \in RowId \ {a} : B[b] # None /\ B[b][Other(c)] = m[Other(c)]
    BY <2>1, <2>2, <2>3
  <2>6. Contradicted(B, m)
    BY <2>1, <2>4, <2>5 DEF Contradicted
  <2> QED
    BY <1>1, <2>6 DEF Settled, m
<1>2. CASE x.status # "conflict"
  BY <1>2 DEF Settled, Carries, Grows, Keeps
<1> QED
  BY <1>1, <1>2

(* What t is about to answer for the item in hand.                         *)
LEMMA ConflictSettled ==
  ASSUME StoreInv, NEW t \in Session, pc[t] = "write", Conflict(t)
  PROVE  Contradicted(View(t), Mapped(t))
<1>0. TypeInv /\ Types /\ HeldOK(t) /\ FoundOK(t) /\ Mapped(t) \in Mapping
  BY AtItem DEF StoreInv, LockInv, TypeInv, Looking
<1>1. {cmmsAsset[t], dcAsset[t]} \ {None} \subseteq Held(t)
  BY DEF Held
<1> DEFINE m == Mapped(t)
<1>2. cmmsAsset[t] # None =>
        /\ cmmsAsset[t].id \in RowId /\ View(t)[cmmsAsset[t].id] # None
        /\ m["cmms"] # None /\ View(t)[cmmsAsset[t].id]["cmms"] = m["cmms"]
  BY <1>0, <1>1, HeldType, ARow DEF FoundOK
<1>3. dcAsset[t] # None =>
        /\ dcAsset[t].id \in RowId /\ View(t)[dcAsset[t].id] # None
        /\ m["dc"] # None /\ View(t)[dcAsset[t].id]["dc"] = m["dc"]
  BY <1>0, <1>1, HeldType, ARow DEF FoundOK
<1>4. "cmms" \in Column /\ "dc" \in Column /\ Other("cmms") = "dc" /\ Other("dc") = "cmms"
  BY DEF Column, Other
<1>5. CASE TwoAssets(t)
  BY <1>2, <1>3, <1>4, <1>5 DEF TwoAssets, Contradicted
<1>6. CASE OtherValue(t)
  <2>1. PICK c \in Column : m[c] # None /\ Chosen(t)[c] \notin {None, m[c]}
    BY <1>0, <1>1, <1>6, HeldType, ARow DEF OtherValue, Chosen, Column
  <2>2. Chosen(t) \in Held(t) /\ View(t)[Chosen(t).id][c] = Chosen(t)[c]
    BY <1>0, <1>1, <1>6, <2>1 DEF OtherValue, Chosen, HeldOK
  <2>3. CASE cmmsAsset[t] # None
    <3>1. c = "dc"
      BY <1>2, <2>1, <2>2, <2>3 DEF Chosen, Column
    <3> QED
      BY <1>2, <1>4, <2>1, <2>2, <2>3, <3>1 DEF Chosen, Contradicted
  <2>4. CASE cmmsAsset[t] = None
    <3>1. dcAsset[t] # None /\ c = "cmms"
      BY <1>3, <1>6, <2>1, <2>2, <2>4 DEF Chosen, Column, OtherValue
    <3> QED
      BY <1>3, <1>4, <2>1, <2>2, <2>4, <3>1 DEF Chosen, Contradicted
  <2> QED
    BY <2>3, <2>4
<1> QED
  BY <1>5, <1>6 DEF Conflict

(* Where the chosen object has a value in a column, the row has it.        *)
LEMMA ChosenCarries ==
  ASSUME StoreInv, NEW t \in Session, pc[t] = "write", ~Conflict(t), Chosen(t) # None
  PROVE  /\ Chosen(t).id \in RowId /\ View(t)[Chosen(t).id] \in Mapping
         /\ \A c \in Column \ Writes(t) :
              Mapped(t)[c] # None => View(t)[Chosen(t).id][c] = Mapped(t)[c]
<1>0. TypeInv /\ HeldOK(t) /\ Chosen(t) \in Held(t) /\ Mapped(t) \in Mapping
  BY AtItem DEF StoreInv, LockInv, Held, Chosen, Looking
<1>1. Chosen(t).id \in RowId /\ View(t)[Chosen(t).id] \in Mapping
      /\ Chosen(t)["cmms"] = Chosen(t).cmms /\ Chosen(t)["dc"] = Chosen(t).dc
  BY <1>0, HeldType
<1>2. ASSUME NEW c \in Column \ Writes(t), Mapped(t)[c] # None
      PROVE  View(t)[Chosen(t).id][c] = Mapped(t)[c]
  <2>1. Chosen(t)[c] # None
    BY <1>2 DEF Writes, Column
  <2>2. Chosen(t)[c] = Mapped(t)[c]
    BY <1>0, <1>1, <1>2, <2>1, ARow DEF Conflict, OtherValue, Column
  <2> QED
    BY <1>0, <2>1, <2>2 DEF HeldOK
<1> QED
  BY <1>1, <1>2

LEMMA AnsweringOwn ==
  ASSUME StoreInv, NEW t \in Session, Act(t), Complete(t) => Agreed(t), ~Leave(t),
         \A i \in 1..Len(results[t]) : Settled(View(t), results[t][i])
  PROVE  \A i \in 1..Len(results'[t]) : Settled(View(t)', results'[t][i])
<1>0. TypeInv /\ Types /\ PlaceOK(t) /\ Grows(View(t), View(t)')
  BY OwnView DEF StoreInv, LockInv, TypeInv
<1>1. \A i \in 1..Len(results[t]) : Settled(View(t)', results[t][i])
  BY <1>0, SettledGrows
<1>2. ASSUME NEW status \in {"created", "updated", "unchanged", "conflict"},
             NEW id \in RowId \cup {None}, Report(t, status, id), entries'[t] = {},
             batch' = batch, pc[t] = "write",
             Settled(View(t)', [mapping |-> Mapped(t), status |-> status, id |-> id])
      PROVE  \A i \in 1..Len(results'[t]) : Settled(View(t)', results'[t][i])
  <2>1. pc[t] \in Looking
    BY <1>2 DEF Looking
  <2>2. /\ Len(results'[t]) = item[t]
        /\ \A i \in 1..Len(results[t]) : results'[t][i] = results[t][i]
        /\ results'[t][item[t]] = [mapping |-> Mapped(t), status |-> status, id |-> id]
    BY <1>0, <1>2, <2>1, Reported
  <2>3. Len(results[t]) = item[t] - 1 /\ item[t] \in Nat
    BY <1>0, <2>1, AtItem
  <2> SUFFICES ASSUME NEW i \in 1..Len(results'[t]) PROVE Settled(View(t)', results'[t][i])
    OBVIOUS
  <2>4. i = item[t] \/ i \in 1..Len(results[t])
    BY <2>2, <2>3
  <2> QED
    BY <1>1, <1>2, <2>2, <2>4
<1>3. CASE results' = results
  BY <1>1, <1>3
<1>4. CASE ReportConflict(t)
  <2> DEFINE id == IF TwoAssets(t) THEN None ELSE Chosen(t).id
             x  == [mapping |-> Mapped(t), status |-> "conflict", id |-> id]
  <2>1. /\ pc[t] = "write" /\ Conflict(t) /\ Report(t, "conflict", id) /\ batch' = batch
        /\ entries'[t] = {}
    BY <1>0, <1>4 DEF ReportConflict, PlaceOK
  <2>2. id \in RowId \cup {None}
    <3>1. ~TwoAssets(t) => Chosen(t) \in Object
      BY <1>0, <2>1, ChosenType DEF Conflict, OtherValue
    <3> QED
      BY <3>1 DEF Object
  <2>3. Settled(View(t), x)
    BY <2>1, ConflictSettled DEF Settled
  <2>4. Settled(View(t)', x)
    BY <1>0, <2>3, SettledGrows
  <2> HIDE DEF id
  <2> QED
    BY <1>2, <2>1, <2>2, <2>4
<1>5. CASE Keep(t)
  <2>1. /\ pc[t] = "write" /\ ~Conflict(t) /\ Writes(t) = {} /\ batch' = batch
        /\ Report(t, "unchanged", Chosen(t).id) /\ entries'[t] = {}
    BY <1>0, <1>5 DEF Keep, PlaceOK
  <2>2. Chosen(t) # None
    <3>1. Mapped(t) \in Mapping
      BY <1>0, <2>1, AtItem DEF Looking
    <3> QED
      BY <2>1, <3>1, ARow DEF Writes, Column
  <2> DEFINE x == [mapping |-> Mapped(t), status |-> "unchanged", id |-> Chosen(t).id]
  <2>3. Chosen(t).id \in RowId /\ Settled(View(t), x)
    BY <2>1, <2>2, ChosenCarries, ARow DEF Settled, Carries
  <2>4. Settled(View(t)', x)
    BY <1>0, <2>3, SettledGrows
  <2> QED
    BY <1>2, <2>1, <2>3, <2>4
<1>6. CASE Create(t)
  <2>1. PICK r \in RowId : Flushed(t, r, Mapped(t)) /\ Report(t, "created", r) /\ batch' = batch
    BY <1>0, <1>6, Created
  <2>2. pc[t] = "write" /\ Mapped(t) \in Mapping
    BY <1>0, <1>6, Created
  <2> DEFINE x == [mapping |-> Mapped(t), status |-> "created", id |-> r]
  <2>3. View(t)'[r] = Mapped(t)
    BY <1>0, <2>1, <2>2, FlushedView
  <2>4. Settled(View(t)', x)
    BY <2>2, <2>3, ARow DEF Settled, Carries
  <2>5. entries'[t] = {}
    BY <2>1 DEF Flushed
  <2> QED
    BY <1>2, <2>1, <2>2, <2>4, <2>5
<1>7. CASE Complete(t)
  <2> DEFINE id == Chosen(t).id
             W  == Set(t, View(t)[id])
             x  == [mapping |-> Mapped(t), status |-> "updated", id |-> id]
  <2>1. /\ pc[t] = "write" /\ ~Conflict(t) /\ Mapped(t) \in Mapping /\ id \in RowId
        /\ Flushed(t, id, W) /\ Report(t, "updated", id) /\ W \in Mapping
        /\ \A c \in Column : W[c] = IF c \in Writes(t) THEN Mapped(t)[c] ELSE View(t)[id][c]
        /\ batch' = batch
    BY <1>0, <1>7, Filled
  <2> HIDE DEF W
  <2>2. View(t)'[id] = W /\ entries'[t] = {}
    BY <1>0, <2>1, FlushedView DEF Flushed
  <2>3. Chosen(t) # None
    BY <1>7 DEF Complete
  <2>4. \A c \in Column \ Writes(t) : Mapped(t)[c] # None => View(t)[id][c] = Mapped(t)[c]
    BY <2>1, <2>3, ChosenCarries
  <2>5. Carries(W, Mapped(t))
    BY <2>1, <2>4, ARow DEF Carries
  <2>6. Settled(View(t)', x)
    BY <2>1, <2>2, <2>5 DEF Settled
  <2> QED
    BY <1>2, <2>1, <2>2, <2>6
<1>8. ~(Commit(t) \/ Refuse(t) \/ BreakDeadlock(t) \/ Abandon(t))
  BY DEF Commit, Refuse, BreakDeadlock, Abandon, Rollback
<1> QED
  BY <1>3, <1>4, <1>5, <1>6, <1>7, <1>8
     DEF Act, Step, Begin, FindCmms, FindDc, TakeEntry

LEMMA AnsweringStep ==
  ASSUME AnswerInv, NothingReplaced', NEW t \in Session, Act(t)
  PROVE  AnswerInv'
<1>0. StoreInv /\ LockInv /\ NothingReplaced /\ Types /\ StoreInv'
  BY StoringStep DEF AnswerInv, StoreInv, LockInv, TypeInv
<1>1. Complete(t) => Agreed(t)
  BY <1>0, FilledAgreed
<1>2. ASSUME NEW s \in Session \ {t}
      PROVE  \A i \in 1..Len(results'[s]) : Settled(View(s)', results'[s][i])
  <2>1. Grows(View(s), View(s)') /\ results'[s] = results[s]
    BY <1>0, Frame, Others
  <2> QED
    BY <2>1, SettledGrows DEF AnswerInv
<1>3. \A i \in 1..Len(results'[t]) : Settled(View(t)', results'[t][i])
  <2>1. CASE Leave(t)
    <3>1. results'[t] = <<>>
      BY <1>0, <2>1, Left DEF Types
    <3> QED
      BY <3>1
  <2>2. CASE ~Leave(t)
    BY <1>0, <1>1, <2>2, AnsweringOwn DEF AnswerInv
  <2> QED
    BY <2>1, <2>2
<1>4. ASSUME NEW r \in RowId PROVE told'[r] \subseteq KeysOf(rows'[r])
  <2>1. CASE Commit(t)
    <3>1. rows' = View(t) /\ Grows(rows, View(t))
      BY <1>0, <2>1 DEF Commit, Merged, View, NothingReplaced
    <3>2. told[r] \subseteq KeysOf(View(t)[r])
      <4>1. told[r] \subseteq KeysOf(rows[r])
        BY DEF AnswerInv
      <4>2. ASSUME NEW k \in KeysOf(rows[r]), k \in told[r] PROVE k \in KeysOf(View(t)[r])
        <5>1. PICK c \in Column : rows[r] # None /\ k = <<c, rows[r][c]>>
          BY DEF KeysOf, Column
        <5>2. rows[r][c] # None
          BY <1>0, <4>2, <5>1, MappingAssumption DEF Types, Identifier
        <5>3. View(t)[r] # None /\ View(t)[r][c] = rows[r][c]
          BY <3>1, <5>1, <5>2 DEF Grows, Keeps
        <5> QED
          BY <5>1, <5>3, KeyIn
      <4> QED
        BY <4>1, <4>2
    <3>3. ASSUME NEW x \in Placed(t, r) PROVE Given(x.mapping) \subseteq KeysOf(View(t)[r])
      <4>1. PICK i \in DOMAIN results[t] :
              x = results[t][i] /\ x.status # "conflict" /\ x.id = r
        BY DEF Placed
      <4>2. results[t] \in Seq(Result)
        BY <1>0 DEF Types
      <4>3. i \in 1..Len(results[t]) /\ x \in Result
        BY <4>1, <4>2
      <4>4. Carries(View(t)[r], x.mapping)
        BY <4>1, <4>3 DEF AnswerInv, Settled
      <4> QED
        BY <4>3, <4>4, GivenIn DEF Result
    <3>4. told'[r] = told[r] \cup UNION {Given(x.mapping) : x \in Placed(t, r)}
      BY <2>1 DEF Commit
    <3> QED
      BY <3>1, <3>2, <3>3, <3>4
  <2>2. CASE UNCHANGED <<rows, told>>
    BY <2>2 DEF AnswerInv
  <2> QED
    BY <1>0, <2>1, <2>2, Frame
<1> QED
  BY <1>0, <1>2, <1>3, <1>4 DEF AnswerInv

LEMMA Answering ==
  ASSUME AnswerInv, NothingReplaced', [Next]_vars
  PROVE  AnswerInv'
<1>1. CASE UNCHANGED vars
  <2>1. StoreInv'
    BY Storing DEF AnswerInv
  <2>2. \A s \in Session : View(s)' = View(s)
    BY <1>1, Unchanged
  <2> QED
    BY <1>1, <2>1, <2>2 DEF AnswerInv, vars
<1>2. CASE Next
  BY <1>2, AnsweringStep DEF Next, Act
<1> QED
  BY <1>1, <1>2

LEMMA AnsweringInit == Init => AnswerInv
  BY StoringInit DEF Init, AnswerInv

LEMMA Told ==
  ASSUME AnswerInv
  PROVE  AnswersHold
<1> SUFFICES ASSUME NEW s \in Session, NEW i \in DOMAIN results[s],
                    results[s][i].status = "conflict", NEW r \in RowId,
                    Given(results[s][i].mapping) \subseteq KeysOf(View(s)[r])
             PROVE  FALSE
  BY DEF AnswerInv, AnswersHold
<1> DEFINE m == results[s][i].mapping
           V == View(s)
<1>0. Types /\ OneRowEach(V)
  BY DEF AnswerInv, StoreInv, LockInv, TypeInv
<1>1. i \in 1..Len(results[s]) /\ m \in Mapping
  <2>1. results[s] \in Seq(Result)
    BY <1>0 DEF Types
  <2>2. i \in 1..Len(results[s]) /\ results[s][i] \in Result
    BY <2>1
  <2> QED
    BY <2>2 DEF Result
<1>2. Contradicted(V, m)
  BY <1>1 DEF AnswerInv, Settled
<1>3. Carries(V[r], m)
  BY <1>1, GivenIn
<1> HIDE DEF m, V
<1>4. PICK c \in Column, a \in RowId :
        /\ m[c] # None /\ m[Other(c)] # None /\ V[a] # None /\ V[a][c] = m[c]
        /\ \/ V[a][Other(c)] \notin {None, m[Other(c)]}
           \/ \E b \in RowId \ {a} : V[b] # None /\ V[b][Other(c)] = m[Other(c)]
  BY <1>2 DEF Contradicted
<1>5. Other(c) \in Column
  BY OtherColumn
<1>6. V[r] # None /\ V[r][c] = m[c] /\ V[r][Other(c)] = m[Other(c)]
  BY <1>3, <1>4, <1>5 DEF Carries
<1>7. a = r
  BY <1>0, <1>4, <1>6 DEF OneRowEach
<1>8. PICK b \in RowId \ {a} : V[b] # None /\ V[b][Other(c)] = m[Other(c)]
  BY <1>4, <1>6, <1>7
<1>9. b = r
  BY <1>0, <1>4, <1>5, <1>6, <1>8 DEF OneRowEach
<1> QED
  BY <1>7, <1>8, <1>9

(* As long as no flush replaces an identifier that its row has by then,    *)
(* what a request was told is true and stays true, whatever the sessions   *)
(* do at once (apply_asset_mappings): a stale object can do no other harm. *)
THEOREM Answers == Spec /\ []NothingReplaced => []AnswersHold
<1>1. AnswerInv => AnswersHold
  BY Told
<1> QED
  BY <1>1, AnsweringInit, Answering, PTL DEF Spec

-----------------------------------------------------------------------------
(* When nothing is replaced: as long as no two requests that are served at *)
(* once contradict each other.                                             *)

(* Two mappings give one asset two values of its other identifier.         *)
Contradict(m, n) ==
  \E c \in Column :
    /\ m[c] # None /\ n[c] = m[c]
    /\ m[Other(c)] # None /\ n[Other(c)] # None /\ n[Other(c)] # m[Other(c)]

NoRivals ==
  \A s, t \in Session : s # t =>
    \A i \in 1..Len(batch[s]), j \in 1..Len(batch[t]) : ~Contradict(batch[s][i], batch[t][j])

(* A row that s has completed is one of its mappings.                      *)
CompletedOK(s) ==
  \A r \in RowId, c \in Column :
    /\ new[s][r] # None /\ rows[r] # None
    /\ rows[r][c] = None /\ new[s][r][c] # None
    => new[s][r][Other(c)] # None /\ \E i \in 1..Len(batch[s]) : batch[s][i] = new[s][r]

(* Where an object has become old, the mappings of s say the same as the   *)
(* row: what it is about to write is there.                                *)
OutdatedOK(s) ==
  \A o \in Held(s), c \in Column, i \in 1..Len(batch[s]) :
    LET row == View(s)[o.id] IN
    /\ o[c] = None /\ row[c] # None
    /\ row[Other(c)] # None /\ batch[s][i][Other(c)] = row[Other(c)]
    => batch[s][i][c] \in {None, row[c]}

RivalInv ==
  /\ StoreInv
  /\ NothingReplaced
  /\ \A s \in Session : CompletedOK(s) /\ OutdatedOK(s)

(* The row of the chosen object has one of the identifiers of the mapping. *)
LEMMA ChosenBy ==
  ASSUME StoreInv, NEW t \in Session, pc[t] = "write", Chosen(t) # None
  PROVE  \E d \in Column : Mapped(t)[d] # None /\ View(t)[Chosen(t).id][d] = Mapped(t)[d]
<1>0. TypeInv /\ FoundOK(t) /\ Chosen(t) \in Held(t) /\ Mapped(t) \in Mapping
  BY AtItem DEF StoreInv, LockInv, Held, Chosen, Looking
<1>1. View(t)[Chosen(t).id] \in Mapping
  BY <1>0, HeldType
<1> QED
  BY <1>0, <1>1, ARow DEF FoundOK, Chosen, Column

LEMMA RivalAgreed ==
  ASSUME RivalInv, NEW t \in Session, Complete(t)
  PROVE  Agreed(t)
<1> DEFINE row == View(t)[Chosen(t).id]
<1>0. StoreInv /\ TypeInv /\ OutdatedOK(t) /\ pc[t] = "write" /\ Chosen(t) # None
  BY DEF RivalInv, StoreInv, LockInv, Complete
<1>1. Chosen(t) \in Held(t)
  BY <1>0 DEF Held, Chosen
<1>2. item[t] \in 1..Len(batch[t]) /\ Mapped(t) = batch[t][item[t]]
  BY <1>0, AtItem DEF Looking
<1>3. PICK d \in Column : Mapped(t)[d] # None /\ row[d] = Mapped(t)[d]
  BY <1>0, ChosenBy
<1>4. ASSUME NEW c \in Writes(t), row[c] # None PROVE row[c] = Mapped(t)[c]
  <2>1. c \in Column /\ Mapped(t)[c] # None /\ Chosen(t)[c] = None
    BY <1>0 DEF Writes, Column
  <2>2. CASE d = c
    BY <1>3, <2>2
  <2>3. CASE d = Other(c)
    <3>1. Mapped(t)[c] \in {None, row[c]}
      BY <1>0, <1>1, <1>2, <1>3, <1>4, <2>1, <2>3 DEF OutdatedOK
    <3> QED
      BY <2>1, <3>1
  <2> QED
    BY <2>1, <2>2, <2>3, OtherColumn
<1> QED
  BY <1>4 DEF Agreed

LEMMA RivalReplaced ==
  ASSUME RivalInv, NEW t \in Session, Act(t)
  PROVE  NothingReplaced'
<1>0. StoreInv /\ LockInv /\ NothingReplaced /\ Types
  BY DEF RivalInv, StoreInv, LockInv, TypeInv
<1>1. ASSUME NEW s \in Session \ {t} PROVE Grows(rows', View(s)')
  <2>1. new'[s] = new[s]
    BY <1>0, Frame
  <2>2. ASSUME NEW q \in RowId, new[s][q] # None, rows'[q] # None
        PROVE  Keeps(rows'[q], View(s)'[q])
    <3>1. rows'[q] = rows[q]
      BY <1>0, <2>2, Others
    <3>2. View(s)'[q] = View(s)[q]
      BY <2>1, <2>2 DEF View
    <3> QED
      BY <1>0, <2>2, <3>1, <3>2 DEF NothingReplaced, Grows
  <2>3. ASSUME NEW q \in RowId, new[s][q] = None, rows'[q] # None
        PROVE  Keeps(rows'[q], View(s)'[q])
    BY <2>1, <2>3 DEF View, Keeps
  <2> QED
    BY <2>2, <2>3 DEF Grows
<1>2. Grows(rows', View(t)')
  <2>1. CASE Leave(t)
    <3>1. new'[t] = NoRows
      BY <1>0, <2>1, Left DEF Types
    <3> QED
      BY <3>1 DEF View, NoRows, Grows, Keeps
  <2>2. CASE ~Leave(t)
    <3>1. rows' = rows /\ Grows(View(t), View(t)')
      BY <1>0, <2>2, OwnView, RivalAgreed
    <3> QED
      BY <1>0, <3>1, GrowsTrans DEF NothingReplaced
  <2> QED
    BY <2>1, <2>2
<1> QED
  BY <1>1, <1>2 DEF NothingReplaced

LEMMA RivalOthers ==
  ASSUME RivalInv, NoRivals, NEW t \in Session, Act(t), NEW s \in Session \ {t}
  PROVE  CompletedOK(s)' /\ OutdatedOK(s)'
<1>0. /\ StoreInv /\ LockInv /\ NothingReplaced /\ TypeInv /\ Types
      /\ CompletedOK(s) /\ OutdatedOK(s) /\ CompletedOK(t)
  BY DEF RivalInv, StoreInv, LockInv, TypeInv
<1>1. /\ new'[s] = new[s] /\ batch'[s] = batch[s] /\ pc'[s] = pc[s]
      /\ cmmsAsset'[s] = cmmsAsset[s] /\ dcAsset'[s] = dcAsset[s] /\ asset'[s] = asset[s]
  BY <1>0, Frame
<1>2. Held(s)' = Held(s)
  BY <1>1 DEF Held
<1>3. \A q \in RowId : new[s][q] # None => rows'[q] = rows[q]
  BY <1>0, Others
<1>4. CompletedOK(s)'
  BY <1>0, <1>1, <1>3 DEF CompletedOK
<1>5. ASSUME NEW o \in Held(s), NEW c \in Column, NEW i \in 1..Len(batch[s]), o[c] = None,
             View(s)'[o.id][c] # None, View(s)'[o.id][Other(c)] # None,
             batch[s][i][Other(c)] = View(s)'[o.id][Other(c)]
      PROVE  batch[s][i][c] \in {None, View(s)'[o.id][c]}
  <2> DEFINE q   == o.id
             was == View(s)[q]
             row == View(s)'[q]
  <2>1. q \in RowId /\ was \in Mapping /\ was # None
    BY <1>0, HeldType, ARow
  <2>2. CASE row = was
    BY <1>0, <1>5, <2>2 DEF OutdatedOK
  <2>3. CASE row # was
    <3>1. new[s][q] = None /\ new[t][q] # None /\ row = new[t][q] /\ was = rows[q]
      <4>1. new[s][q] = None /\ new[t][q] # None /\ row = new[t][q]
        BY <1>0, <2>1, <2>3, Others
      <4> QED
        BY <2>1, <4>1 DEF View
    <3>2. Keeps(was, row) /\ row \in Mapping
      <4>1. Grows(View(s), View(s)')
        BY <1>0, Others
      <4>2. Keeps(was, row)
        BY <2>1, <4>1 DEF Grows
      <4>3. row \in Mapping
        BY <1>0, <2>1, <3>1 DEF Types, Row
      <4> QED
        BY <4>2, <4>3
    <3> HIDE DEF was, row, q
    <3>3. PICK e \in Column : was[e] # row[e]
      BY <2>1, <2>3, <3>2 DEF Mapping, Identifiers, Column
    <3>4. was[e] = None /\ row[e] # None
      BY <3>2, <3>3 DEF Keeps
    <3>5. PICK j \in 1..Len(batch[t]) : batch[t][j] = row
      BY <1>0, <2>1, <3>1, <3>4 DEF CompletedOK
    <3>6. ~Contradict(batch[s][i], row)
      BY <3>5 DEF NoRivals
    <3>7. Other(c) \in Column /\ Other(Other(c)) = c
      BY OtherColumn
    <3>8. row[c] # None /\ row[Other(c)] # None /\ batch[s][i][Other(c)] = row[Other(c)]
      BY <1>5 DEF row, q
    <3>9. batch[s][i][c] \in {None, row[c]}
      BY <3>6, <3>7, <3>8 DEF Contradict
    <3> QED
      BY <3>9 DEF row, q
  <2> QED
    BY <2>2, <2>3
<1>6. OutdatedOK(s)'
  BY <1>1, <1>2, <1>5 DEF OutdatedOK
<1> QED
  BY <1>4, <1>6

LEMMA RivalOwn ==
  ASSUME RivalInv, NEW t \in Session, Act(t)
  PROVE  CompletedOK(t)' /\ OutdatedOK(t)'
<1>0. /\ StoreInv /\ LockInv /\ NothingReplaced /\ TypeInv /\ Types /\ PlaceOK(t)
      /\ CompletedOK(t) /\ OutdatedOK(t)
  BY DEF RivalInv, StoreInv, LockInv, TypeInv
<1>1. CASE Leave(t)
  <2>1. /\ new'[t] = NoRows /\ pc'[t] = "idle"
        /\ dcAsset'[t] = None /\ asset'[t] = None
    BY <1>0, <1>1, Left DEF Types
  <2> QED
    BY <2>1 DEF CompletedOK, OutdatedOK, NoRows, Held
<1>2. CASE Begin(t)
  <2>1. /\ new'[t] = NoRows /\ pc'[t] = "find_cmms"
        /\ dcAsset'[t] = None /\ asset'[t] = None
    BY <1>0, <1>2 DEF Begin, Goto, PlaceOK, Types
  <2> QED
    BY <2>1 DEF CompletedOK, OutdatedOK, NoRows, Held
<1>3. CASE ~Leave(t) /\ ~Begin(t)
  <2>1. rows' = rows /\ Grows(View(t), View(t)')
    BY <1>0, <1>3, OwnView, RivalAgreed
  <2>2. batch' = batch
    BY <1>3 DEF Act, Step, FindCmms, FindDc, ReportConflict, Keep, TakeEntry, Create, Complete,
                Commit, Refuse, BreakDeadlock, Abandon, Rollback
  <2>3. CompletedOK(t)'
    <3>1. CASE Create(t)
      <4>1. PICK r \in RowId : View(t)[r] = None /\ Flushed(t, r, Mapped(t))
        BY <1>0, <3>1, Created
      <4>2. rows[r] = None /\ \A q \in RowId \ {r} : new'[t][q] = new[t][q]
        BY <1>0, <4>1 DEF View, Flushed, Types
      <4> QED
        BY <1>0, <2>1, <2>2, <4>2 DEF CompletedOK
    <3>2. CASE Complete(t)
      <4> DEFINE id == Chosen(t).id
                 W  == Set(t, View(t)[id])
                 m  == Mapped(t)
      <4>1. /\ pc[t] = "write" /\ Chosen(t) # None
            /\ m \in Mapping /\ id \in RowId /\ View(t)[id] \in Mapping
            /\ Flushed(t, id, W) /\ W \in Mapping
            /\ \A c \in Column : W[c] = IF c \in Writes(t) THEN m[c] ELSE View(t)[id][c]
        BY <1>0, <3>2, Filled DEF Complete
      <4>2. item[t] \in 1..Len(batch[t]) /\ m = batch[t][item[t]]
        BY <1>0, <4>1, AtItem DEF Looking
      <4>3. PICK d \in Column : m[d] # None /\ View(t)[id][d] = m[d]
        BY <1>0, <4>1, ChosenBy
      <4> HIDE DEF W
      <4>4. View(t)'[id] = W /\ new'[t][id] = W
            /\ \A q \in RowId \ {id} : new'[t][q] = new[t][q]
        <5>1. View(t)'[id] = W
          BY <1>0, <4>1, FlushedView
        <5>2. new \in [Session -> [RowId -> Row]] /\ new' = [new EXCEPT ![t][id] = W]
          BY <1>0, <4>1 DEF Types, Flushed
        <5> HIDE DEF id
        <5> QED
          BY <4>1, <5>1, <5>2
      <4>5. Keeps(View(t)[id], W)
        BY <2>1, <4>1, <4>4, ARow DEF Grows
      <4> HIDE DEF id, m
      <4>6. \A x, y \in Mapping, c \in Column :
              x[c] = y[c] /\ x[Other(c)] = y[Other(c)] => x = y
        BY DEF Mapping, Identifiers, Column, Other
      <4>7. ASSUME NEW c \in Column, rows[id] # None, rows[id][c] = None, W[c] # None
            PROVE  W[Other(c)] # None /\ \E i \in 1..Len(batch[t]) : batch[t][i] = W
        <5>0. Other(c) \in Column /\ (d = c \/ d = Other(c))
          BY OtherColumn
        <5>1. CASE View(t)[id][c] # None
          <6>1. new[t][id] # None /\ View(t)[id] = new[t][id]
            BY <4>1, <4>7, <5>1 DEF View
          <6>2. new[t][id][Other(c)] # None /\ \E i \in 1..Len(batch[t]) : batch[t][i] = new[t][id]
            BY <1>0, <4>1, <4>7, <5>1, <6>1 DEF CompletedOK
          <6>3. W[c] = new[t][id][c] /\ W[Other(c)] = new[t][id][Other(c)]
            BY <4>5, <5>0, <5>1, <6>1, <6>2 DEF Keeps
          <6>4. W = new[t][id]
            BY <4>1, <4>6, <6>1, <6>3
          <6> QED
            BY <6>2, <6>4
        <5>2. CASE View(t)[id][c] = None
          <6>1. W[c] = m[c] /\ d = Other(c)
            BY <4>1, <4>3, <4>7, <5>0, <5>2
          <6>2. W[Other(c)] = m[Other(c)] /\ m[Other(c)] # None
            BY <4>3, <4>5, <6>1 DEF Keeps
          <6>3. W = m
            BY <4>1, <4>6, <6>1, <6>2
          <6> QED
            BY <4>2, <6>2, <6>3
        <5> QED
          BY <5>1, <5>2
      <4> QED
        BY <1>0, <2>1, <2>2, <4>4, <4>7 DEF CompletedOK
    <3>3. CASE new' = new
      BY <1>0, <2>1, <2>2, <3>3 DEF CompletedOK
    <3> QED
      BY <1>3, <3>1, <3>2, <3>3
         DEF Act, Step, FindCmms, FindDc, ReportConflict, Keep, TakeEntry,
             Commit, Refuse, BreakDeadlock, Abandon, Rollback
  <2>4. ASSUME NEW o \in Held(t)', NEW c \in Column, NEW i \in 1..Len(batch[t]), o[c] = None,
               View(t)'[o.id][c] # None, View(t)'[o.id][Other(c)] # None,
               batch[t][i][Other(c)] = View(t)'[o.id][Other(c)]
        PROVE  batch[t][i][c] \in {None, View(t)'[o.id][c]}
    <3>1. \/ o \in Held(t) /\ View(t)'[o.id] = View(t)[o.id]
          \/ Complete(t) /\ o.id = Chosen(t).id /\ Chosen(t)[c] = None /\ c \notin Writes(t)
      BY <1>0, <2>4, StoringOwn DEF Aged
    <3>2. CASE o \in Held(t) /\ View(t)'[o.id] = View(t)[o.id]
      BY <1>0, <2>4, <3>2 DEF OutdatedOK
    <3>3. CASE Complete(t) /\ o.id = Chosen(t).id /\ Chosen(t)[c] = None /\ c \notin Writes(t)
      <4> DEFINE id == Chosen(t).id
                 W  == Set(t, View(t)[id])
      <4>1. /\ pc[t] = "write" /\ Chosen(t) # None /\ Chosen(t) \in Held(t)
            /\ id \in RowId /\ View(t)[id] \in Mapping
            /\ Flushed(t, id, W) /\ W \in Mapping
            /\ \A e \in Column : W[e] = IF e \in Writes(t) THEN Mapped(t)[e] ELSE View(t)[id][e]
        BY <1>0, <3>3, Filled DEF Complete
      <4>2. PICK d \in Column : Mapped(t)[d] # None /\ View(t)[id][d] = Mapped(t)[d]
        BY <1>0, <4>1, ChosenBy
      <4> HIDE DEF W
      <4>3. View(t)'[id] = W
        BY <1>0, <4>1, FlushedView
      <4>4. Mapped(t)[c] = None /\ d = Other(c) /\ Other(c) \in Column
        BY <3>3, <4>1, <4>2, OtherColumn DEF Writes, Column
      <4>5. W[c] = View(t)[id][c] /\ W[Other(c)] = View(t)[id][Other(c)]
        BY <3>3, <4>1, <4>2, <4>4
      <4> QED
        BY <1>0, <2>4, <3>3, <4>1, <4>3, <4>5 DEF OutdatedOK
    <3> QED
      BY <3>1, <3>2, <3>3
  <2>5. OutdatedOK(t)'
    BY <2>2, <2>4 DEF OutdatedOK
  <2> QED
    BY <2>3, <2>5
<1> QED
  BY <1>1, <1>2, <1>3

LEMMA Rivalry ==
  ASSUME RivalInv, NoRivals, [Next]_vars
  PROVE  RivalInv'
<1>1. CASE UNCHANGED vars
  <2>1. StoreInv'
    BY Storing DEF RivalInv
  <2>2. \A s \in Session : View(s)' = View(s) /\ Held(s)' = Held(s)
    BY <1>1, Unchanged
  <2> QED
    BY <1>1, <2>1, <2>2 DEF RivalInv, NothingReplaced, CompletedOK, OutdatedOK, vars
<1>2. CASE Next
  <2>1. PICK t \in Session : Act(t)
    BY <1>2 DEF Next, Act
  <2>2. StoreInv' /\ NothingReplaced'
    BY <2>1, StoringStep, RivalReplaced DEF RivalInv
  <2>3. \A s \in Session : CompletedOK(s)' /\ OutdatedOK(s)'
    BY <2>1, RivalOthers, RivalOwn
  <2> QED
    BY <2>2, <2>3 DEF RivalInv
<1> QED
  BY <1>1, <1>2

LEMMA RivalryInit == Init => RivalInv
<1> SUFFICES ASSUME Init PROVE RivalInv
  OBVIOUS
<1>1. \A s \in Session : Held(s) = {} /\ new[s] = NoRows
  BY DEF Init, Held
<1> QED
  BY <1>1, StoringInit DEF RivalInv, CompletedOK, OutdatedOK, NoRows

(* Requests that do not contradict each other replace nothing: where a     *)
(* flush goes by an object that is old, the row has just what it sets      *)
(* (apply_asset_mappings sets an identifier that the object lacks).        *)
THEOREM Peaceful == Spec /\ []NoRivals => []NothingReplaced
<1>1. RivalInv => NothingReplaced
  BY DEF RivalInv
<1> QED
  BY <1>1, RivalryInit, Rivalry, PTL DEF Spec

(* Their answers are true and stay true.                                   *)
THEOREM PeacefulAnswers == Spec /\ []NoRivals => []AnswersHold
  BY Peaceful, Answers, PTL

-----------------------------------------------------------------------------
(* A batch takes effect as AssetRegistry says.                             *)

Table == [RowId -> Row]
AsSet(table) == {table[r] : r \in RowId} \ {None}

(* An item of a batch, which takes what is written from g to h: it adds a  *)
(* row, fills one in, finds its identifiers, or is a conflict.             *)
Adds(g, h, m) ==
  \E r \in RowId : Merged(rows, g)[r] = None /\ h = [g EXCEPT ![r] = m]

Fills(g, h, m) ==
  \E r \in RowId :
    LET row == Merged(rows, g)[r] IN
    /\ row # None
    /\ \E d \in Column : m[d] # None /\ row[d] = m[d]
    /\ \A d \in Column : m[d] # None => row[d] \in {None, m[d]}
    /\ h = [g EXCEPT ![r] = Registry!Joined(row, m)]

Finds(g, h, m) == h = g /\ \E r \in RowId : Carries(Merged(rows, g)[r], m)

Outcome(g, h, m) ==
  \/ Adds(g, h, m)
  \/ Fills(g, h, m)
  \/ Finds(g, h, m)
  \/ h = g /\ Contradicted(Merged(rows, g), m)

(* What s had written after each item of its answer.                       *)
Chain(s, h) ==
  /\ h \in [0..Len(results[s]) -> Table]
  /\ h[0] = NoRows /\ h[Len(results[s])] = new[s]
  /\ \A i \in 0..Len(results[s]) : Grows(h[i], new[s])
  /\ \A i \in 1..Len(results[s]) : Outcome(h[i - 1], h[i], batch[s][i])

ChainInv ==
  /\ StoreInv
  /\ NothingReplaced
  /\ \A s \in Session : \E h : Chain(s, h)

LEMMA JoinedRow ==
  ASSUME NEW x \in Mapping, NEW m \in Mapping
  PROVE  /\ Registry!Joined(x, m) \in Mapping
         /\ \A c \in Column : Registry!Joined(x, m)[c] = IF m[c] = None THEN x[c] ELSE m[c]
<1>1. x.cmms = x["cmms"] /\ x.dc = x["dc"] /\ m.cmms = m["cmms"] /\ m.dc = m["dc"]
  BY ARow
<1>2. Registry!Joined(x, m) \in Identifiers
  BY DEF Registry!Joined, Mapping, Identifiers
<1>3. \A c \in Column : Registry!Joined(x, m)[c] = IF m[c] = None THEN x[c] ELSE m[c]
  BY <1>1 DEF Registry!Joined, Column
<1> QED
  BY <1>1, <1>2, <1>3, ARow DEF Mapping, Column

LEMMA SameRow ==
  ASSUME NEW x \in Mapping, NEW y \in Mapping, \A c \in Column : x[c] = y[c]
  PROVE  x = y
  BY DEF Mapping, Identifiers, Column

(* A table that one row is changed in.                                     *)
LEMMA MergedRow ==
  ASSUME NEW g, NEW h, NEW r \in RowId, NEW m \in Mapping,
         \A q \in RowId : h[q] = IF q = r THEN m ELSE g[q]
  PROVE  \A q \in RowId : Merged(rows, h)[q] = IF q = r THEN m ELSE Merged(rows, g)[q]
  BY ARow DEF Merged, Table

(* Each outcome is what AssetRegistry applies, given that the table that   *)
(* the batch leads to has one row per identifier.                          *)
LEMMA ApplyOutcome ==
  ASSUME Types, NEW g \in Table, NEW h \in Table, NEW m \in Mapping, NEW V \in Table,
         OneRowEach(V), Grows(Merged(rows, g), V), Grows(Merged(rows, h), V),
         Outcome(g, h, m)
  PROVE  Registry!Apply(AsSet(Merged(rows, g)), m) = AsSet(Merged(rows, h))
<1> DEFINE P == Merged(rows, g)
           Q == Merged(rows, h)
           S == AsSet(P) \cap Registry!Sharing(m)
<1>1. P \in Table /\ Q \in Table
  BY MergedType DEF Types, Table
<1>g. Grows(P, V) /\ Grows(Q, V)
  OBVIOUS
<1>2. Registry!Sharing(m) = {x \in Mapping : \E d \in Column : m[d] # None /\ x[d] = m[d]}
  <2>1. Registry!Mapping = Mapping
    BY DEF Registry!Mapping, Mapping, Identifiers
  <2>2. \A x \in Mapping : (\E d \in Column : m[d] # None /\ x[d] = m[d])
                             <=> (m.cmms # None /\ x.cmms = m.cmms) \/ (m.dc # None /\ x.dc = m.dc)
    BY ARow DEF Column
  <2> QED
    BY <2>1, <2>2 DEF Registry!Sharing
<1>3. S = {P[q] : q \in {p \in RowId :
                           P[p] # None /\ \E d \in Column : m[d] # None /\ P[p][d] = m[d]}}
  BY <1>1, <1>2, ARow DEF AsSet, Table, Row
<1>4. Registry!Apply(AsSet(P), m) =
        IF S = {} THEN AsSet(P) \cup {m}
        ELSE IF \E x \in S :
                  S = {x} /\ Registry!Agrees(x.cmms, m.cmms) /\ Registry!Agrees(x.dc, m.dc)
             THEN (AsSet(P) \ S) \cup {Registry!Joined(x, m) : x \in S}
             ELSE AsSet(P)
  BY DEF Registry!Apply
<1>5. ASSUME NEW q \in RowId, NEW r \in RowId, NEW d \in Column, P[q] # None, m[d] # None,
             P[q][d] = m[d], V[r] # None, V[r][d] = m[d]
      PROVE  q = r
  <2>1. V[q] # None /\ V[q][d] = m[d]
    BY <1>5, <1>g DEF Grows, Keeps
  <2> QED
    BY <1>5, <2>1 DEF OneRowEach
<1>6. PICK e \in Column : m[e] # None
  BY ARow DEF Column
<1> HIDE DEF P, Q, S
<1>7. CASE Adds(g, h, m)
  <2>1. PICK r \in RowId : P[r] = None /\ h = [g EXCEPT ![r] = m]
    BY <1>7 DEF Adds, P
  <2>2. \A q \in RowId : Q[q] = IF q = r THEN m ELSE P[q]
    <3>1. \A q \in RowId : Merged(rows, h)[q] = IF q = r THEN m ELSE Merged(rows, g)[q]
      <4>1. \A q \in RowId : h[q] = IF q = r THEN m ELSE g[q]
        BY <2>1 DEF Table
      <4> QED
        BY <4>1, MergedRow
    <3> QED
      BY <3>1 DEF P, Q
  <2>3. m # None /\ V[r] # None /\ \A d \in Column : m[d] # None => V[r][d] = m[d]
    BY <1>g, <2>2, ARow DEF Grows, Keeps
  <2>4. S = {}
    BY <1>3, <1>5, <2>1, <2>3
  <2>5. AsSet(Q) = AsSet(P) \cup {m}
    BY <2>1, <2>2, <2>3 DEF AsSet
  <2> QED
    BY <1>4, <2>4, <2>5 DEF P, Q
<1>8. ASSUME NEW r \in RowId, P[r] # None,
             \A d \in Column : m[d] # None => P[r][d] \in {None, m[d]},
             NEW d \in Column, m[d] # None, P[r][d] = m[d],
             V[r] # None, \A c \in Column : m[c] # None => V[r][c] = m[c],
             \A q \in RowId : Q[q] = IF q = r THEN Registry!Joined(P[r], m) ELSE P[q]
      PROVE  Registry!Apply(AsSet(P), m) = AsSet(Q)
  <2>0. P[r] \in Mapping
    BY <1>1, <1>8 DEF Table, Row
  <2>1. S = {P[r]}
    <3>1. P[r] \in S
      BY <1>3, <1>8
    <3>2. \A x \in S : x = P[r]
      BY <1>3, <1>5, <1>8
    <3> QED
      BY <3>1, <3>2
  <2>2. Registry!Agrees(P[r].cmms, m.cmms) /\ Registry!Agrees(P[r].dc, m.dc)
    BY <1>8, <2>0, ARow DEF Registry!Agrees, Column
  <2>3. \A q \in RowId : P[q] = P[r] => q = r
    BY <1>5, <1>8
  <2>4. Registry!Joined(P[r], m) # None
    BY <2>0, JoinedRow, ARow
  <2> DEFINE J == Registry!Joined(P[r], m)
  <2>5. AsSet(Q) = (AsSet(P) \ {P[r]}) \cup {J}
    <3>1. \A q \in RowId : Q[q] = IF q = r THEN J ELSE P[q]
      BY <1>8
    <3>2. J # None
      BY <2>4
    <3> HIDE DEF J
    <3> QED
      BY <2>3, <3>1, <3>2 DEF AsSet
  <2>6. {Registry!Joined(x, m) : x \in S} = {J}
    BY <2>1
  <2> HIDE DEF J
  <2> QED
    BY <1>4, <2>1, <2>2, <2>5, <2>6
<1>9. CASE Fills(g, h, m)
  <2>1. PICK r \in RowId :
          /\ P[r] # None
          /\ \E d \in Column : m[d] # None /\ P[r][d] = m[d]
          /\ \A d \in Column : m[d] # None => P[r][d] \in {None, m[d]}
          /\ h = [g EXCEPT ![r] = Registry!Joined(P[r], m)]
    BY <1>9 DEF Fills, P
  <2>2. PICK d \in Column : m[d] # None /\ P[r][d] = m[d]
    BY <2>1
  <2>3. PICK J \in Mapping : /\ J = Registry!Joined(P[r], m)
                             /\ \A c \in Column : J[c] = IF m[c] = None THEN P[r][c] ELSE m[c]
    BY <1>1, <2>1, JoinedRow DEF Table, Row
  <2>4. \A q \in RowId : Q[q] = IF q = r THEN J ELSE P[q]
    <3>1. \A q \in RowId : h[q] = IF q = r THEN J ELSE g[q]
      BY <2>1, <2>3 DEF Table
    <3>2. \A q \in RowId : Merged(rows, h)[q] = IF q = r THEN J ELSE Merged(rows, g)[q]
      BY <3>1, MergedRow
    <3> QED
      BY <3>2 DEF P, Q
  <2>5. V[r] # None /\ \A c \in Column : m[c] # None => V[r][c] = m[c]
    <3>1. Keeps(J, V[r])
      BY <1>g, <2>3, <2>4, ARow DEF Grows
    <3> QED
      BY <2>3, <3>1 DEF Keeps
  <2>6. Registry!Apply(AsSet(P), m) = AsSet(Q)
    BY <1>8, <2>1, <2>2, <2>3, <2>4, <2>5
  <2> QED
    BY <2>6 DEF P, Q
<1>10. CASE Finds(g, h, m)
  <2>1. PICK r \in RowId : Carries(P[r], m)
    BY <1>10 DEF Finds, P
  <2>2. P = Q
    BY <1>10 DEF Finds, P, Q
  <2>3. P[r] \in Mapping /\ \A c \in Column : m[c] # None => P[r][c] = m[c]
    BY <1>1, <2>1 DEF Carries, Table, Row
  <2>4. Registry!Joined(P[r], m) = P[r]
    BY <2>3, JoinedRow, SameRow
  <2>5. P[r] # None /\ V[r] # None /\ \A c \in Column : m[c] # None => V[r][c] = m[c]
    BY <1>g, <2>1, <2>3 DEF Grows, Keeps, Carries
  <2>6. \A q \in RowId : Q[q] = IF q = r THEN Registry!Joined(P[r], m) ELSE P[q]
    BY <2>2, <2>4
  <2>7. Registry!Apply(AsSet(P), m) = AsSet(Q)
    BY <1>6, <1>8, <2>3, <2>5, <2>6
  <2> QED
    BY <2>7 DEF P, Q
<1>11. CASE h = g /\ Contradicted(P, m)
  <2>1. PICK c \in Column, a \in RowId :
          /\ m[c] # None /\ m[Other(c)] # None /\ P[a] # None /\ P[a][c] = m[c]
          /\ \/ P[a][Other(c)] \notin {None, m[Other(c)]}
             \/ \E b \in RowId \ {a} : P[b] # None /\ P[b][Other(c)] = m[Other(c)]
    BY <1>11 DEF Contradicted
  <2>2. P[a] \in S /\ P[a] \in Mapping /\ Other(c) \in Column
    BY <1>1, <1>3, <2>1, OtherColumn DEF Table, Row
  <2>3. ~ \E x \in S :
            S = {x} /\ Registry!Agrees(x.cmms, m.cmms) /\ Registry!Agrees(x.dc, m.dc)
    <3> SUFFICES ASSUME S = {P[a]}, Registry!Agrees(P[a].cmms, m.cmms),
                        Registry!Agrees(P[a].dc, m.dc)
                 PROVE  FALSE
      BY <2>2
    <3>1. \A d \in Column : P[a][d] = None \/ m[d] = None \/ P[a][d] = m[d]
      BY <2>2, ARow DEF Registry!Agrees, Column
    <3>2. PICK b \in RowId \ {a} : P[b] # None /\ P[b][Other(c)] = m[Other(c)]
      BY <2>1, <2>2, <3>1
    <3>3. P[b] = P[a]
      BY <1>3, <2>1, <2>2, <3>2
    <3>4. V[a] # None /\ V[a][c] = m[c]
      BY <1>g, <2>1 DEF Grows, Keeps
    <3>5. b = a
      BY <1>5, <2>1, <3>2, <3>3, <3>4
    <3> QED
      BY <3>5
  <2>4. P = Q
    BY <1>11 DEF P, Q
  <2>5. Registry!Apply(AsSet(P), m) = AsSet(Q)
    BY <1>4, <2>2, <2>3, <2>4
  <2> QED
    BY <2>5 DEF P, Q
<1> QED
  BY <1>7, <1>9, <1>10, <1>11 DEF Outcome, P

LEMMA Least ==
  ASSUME NEW T \in SUBSET Nat, T # {}
  PROVE  \E x \in T : \A y \in T : x <= y
<1> DEFINE R == OpToRel(<, Nat)
<1>1. IsWellFoundedOn(R, Nat)
  BY NatLessThanWellFounded
<1>2. \E x \in T : \A y \in T : ~ (<<y, x>> \in R)
  <2> HIDE DEF R
  <2> QED
    BY <1>1, WFMin
<1>3. \A x, y \in Nat : y < x => <<y, x>> \in R
  BY DEF OpToRel
<1> HIDE DEF R
<1>4. \A x, y \in T : ~ (<<y, x>> \in R) => x <= y
  BY <1>3
<1> QED
  BY <1>2, <1>4

(* What a batch leads to is the end of any chain of its items: the         *)
(* recursive function of Applied is that chain, for there is no least item *)
(* where it would differ.                                                  *)
LEMMA AppliedChain ==
  ASSUME NEW b \in Seq(Mapping), NEW p, p = [i \in 0..Len(b) |-> p[i]],
         \A i \in 1..Len(b) : p[i] = Registry!Apply(p[i - 1], b[i])
  PROVE  Registry!Applied(p[0], b) = p[Len(b)]
<1> DEFINE Chained(f) ==
             f = [n \in 0..Len(b) |-> IF n = 0 THEN p[0] ELSE Registry!Apply(f[n - 1], b[n])]
           after == CHOOSE f : Chained(f)
<1>0. Len(b) \in Nat
  OBVIOUS
<1>1. Chained(p)
  <2>1. \A n \in 0..Len(b) : p[n] = IF n = 0 THEN p[0] ELSE Registry!Apply(p[n - 1], b[n])
    BY <1>0
  <2> QED
    BY <2>1
<1>2. Chained(after)
  BY <1>1
<1>3. Registry!Applied(p[0], b) = after[Len(b)]
  BY DEF Registry!Applied
<1> HIDE DEF after
<1> DEFINE T == {n \in 0..Len(b) : after[n] # p[n]}
<1>4. T = {}
  <2> SUFFICES ASSUME T # {} PROVE FALSE
    OBVIOUS
  <2>1. PICK x \in T : \A y \in T : x <= y
    <3>1. T \in SUBSET Nat
      BY <1>0
    <3> HIDE DEF T
    <3> QED
      BY <3>1, Least
  <2>2. CASE x = 0
    BY <1>0, <1>2, <2>1, <2>2
  <2>3. CASE x # 0
    <3>1. x \in 1..Len(b) /\ x - 1 \in 0..Len(b) /\ ~ (x <= x - 1)
      BY <1>0, <2>1, <2>3
    <3>2. after[x - 1] = p[x - 1]
      BY <2>1, <3>1
    <3>3. after[x] = Registry!Apply(after[x - 1], b[x])
      BY <1>2, <2>3, <3>1
    <3> QED
      BY <2>1, <3>1, <3>2, <3>3
  <2> QED
    BY <2>2, <2>3
<1> QED
  BY <1>0, <1>3, <1>4

(* What another session commits leaves the outcome of an item as it was.   *)
LEMMA OutcomeStable ==
  ASSUME LockInv, NothingReplaced, NEW t \in Session, Act(t), NEW s \in Session \ {t},
         NEW g \in Table, NEW h \in Table, NEW m \in Mapping,
         Grows(g, new[s]), Grows(h, new[s]), Outcome(g, h, m)
  PROVE  Outcome(g, h, m)'
<1>0. Grows(rows, rows') /\ \A q \in RowId : new[s][q] # None => rows'[q] = rows[q]
  BY Others
<1> DEFINE P == Merged(rows, g)
           N == Merged(rows', g)
<1>1. \A q \in RowId : h[q] # None => N[q] = P[q]
  BY <1>0 DEF Merged, Grows, Keeps
<1>2. Grows(P, N)
  BY <1>0 DEF Merged, Grows, Keeps
<1>3. P \in Table
  BY MergedType DEF LockInv, TypeInv, Types, Table
<1> HIDE DEF P, N
<1>4. CASE Adds(g, h, m)
  <2>1. PICK r \in RowId : P[r] = None /\ h = [g EXCEPT ![r] = m]
    BY <1>4 DEF Adds, P
  <2>2. h[r] # None
    BY <2>1, ARow DEF Table
  <2>3. N[r] = None /\ h = [g EXCEPT ![r] = m]
    BY <1>1, <2>1, <2>2
  <2> QED
    BY <2>3 DEF Outcome, Adds, N
<1>5. CASE Fills(g, h, m)
  <2>1. PICK r \in RowId :
          /\ P[r] # None
          /\ \E d \in Column : m[d] # None /\ P[r][d] = m[d]
          /\ \A d \in Column : m[d] # None => P[r][d] \in {None, m[d]}
          /\ h = [g EXCEPT ![r] = Registry!Joined(P[r], m)]
    BY <1>5 DEF Fills, P
  <2>2. h[r] # None
    BY <1>3, <2>1, JoinedRow, ARow DEF Table, Row
  <2>3. N[r] = P[r]
    BY <1>1, <2>2
  <2> QED
    BY <2>1, <2>3 DEF Outcome, Fills, N
<1>6. CASE Finds(g, h, m)
  <2>1. PICK r \in RowId : h = g /\ Carries(P[r], m)
    BY <1>6 DEF Finds, P
  <2>2. Carries(N[r], m)
    BY <1>2, <2>1 DEF Carries, Grows, Keeps
  <2> QED
    BY <2>1, <2>2 DEF Outcome, Finds, N
<1>7. CASE h = g /\ Contradicted(P, m)
  <2> DEFINE x == [status |-> "conflict", mapping |-> m]
  <2>1. Settled(P, x)
    BY <1>7 DEF Settled
  <2>2. Settled(N, x)
    BY <1>2, <2>1, SettledGrows
  <2>3. Contradicted(N, m)
    BY <2>2 DEF Settled
  <2> QED
    BY <1>7, <2>3 DEF Outcome, N
<1> QED
  BY <1>4, <1>5, <1>6, <1>7 DEF Outcome, P

LEMMA ChainOthers ==
  ASSUME ChainInv, NEW t \in Session, Act(t), NEW s \in Session \ {t}
  PROVE  \E h : Chain(s, h)'
<1>0. LockInv /\ TypeInv /\ Types /\ NothingReplaced /\ PlaceOK(s)
  BY DEF ChainInv, StoreInv, LockInv, TypeInv
<1>1. PICK h : Chain(s, h)
  BY DEF ChainInv
<1>2. new'[s] = new[s] /\ results'[s] = results[s] /\ batch'[s] = batch[s]
  BY <1>0, Frame
<1> DEFINE n == Len(results[s])
<1>3. n \in Nat /\ \A i \in 1..n : batch[s][i] \in Mapping
  <2>1. results[s] \in Seq(Result)
    BY <1>0 DEF Types
  <2>2. \A i \in 1..n : results[s][i] \in Result
    BY <2>1
  <2> QED
    BY <1>0, <2>1, <2>2 DEF PlaceOK, Result
<1>4. /\ h \in [0..n -> Table] /\ h[0] = NoRows /\ h[n] = new[s]
      /\ \A i \in 0..n : Grows(h[i], new[s])
      /\ \A i \in 1..n : Outcome(h[i - 1], h[i], batch[s][i])
  BY <1>1 DEF Chain
<1> HIDE DEF n
<1>5. ASSUME NEW i \in 1..n PROVE Outcome(h[i - 1], h[i], batch[s][i])'
  <2>1. i - 1 \in 0..n /\ i \in 0..n
    BY <1>3
  <2> DEFINE g == h[i - 1]
             k == h[i]
             m == batch[s][i]
  <2>2. g \in Table /\ k \in Table /\ m \in Mapping /\ Grows(g, new[s]) /\ Grows(k, new[s])
        /\ Outcome(g, k, m)
    BY <1>3, <1>4, <2>1
  <2>3. m' = m
    BY <1>2
  <2>4. PICK x \in Mapping : x = m
    BY <2>2
  <2>5. Outcome(g, k, x)'
    <3> HIDE DEF g, k, m
    <3> QED
      BY <1>0, <2>2, <2>4, OutcomeStable
  <2> QED
    BY <2>3, <2>4, <2>5
<1>6. Chain(s, h)'
  BY <1>2, <1>4, <1>5 DEF Chain, n
<1> QED
  BY <1>6

LEMMA ChainEmpty ==
  ASSUME NEW t \in Session, results'[t] = <<>>, new'[t] = NoRows
  PROVE  \E h : Chain(t, h)'
<1> DEFINE h == [i \in 0..0 |-> NoRows]
<1>1. NoRows \in Table /\ Grows(NoRows, NoRows)
  BY DEF NoRows, Table, Row, Grows
<1>2. Len(results'[t]) = 0
  OBVIOUS
<1>3. Chain(t, h)'
  BY <1>1, <1>2 DEF Chain
<1> QED
  BY <1>3

(* The answer has one item more.                                           *)
LEMMA ChainLonger ==
  ASSUME ChainInv, NEW t \in Session, Len(results'[t]) = Len(results[t]) + 1,
         batch'[t] = batch[t], rows' = rows, new'[t] \in Table, Grows(new[t], new'[t]),
         Outcome(new[t], new'[t], batch[t][Len(results[t]) + 1])
  PROVE  \E h : Chain(t, h)'
<1>1. PICK h : Chain(t, h)
  BY DEF ChainInv
<1>n. PICK n : n = Len(results[t])
  OBVIOUS
<1>b. PICK b : b = batch[t] /\ b = batch'[t]
  OBVIOUS
<1>w. PICK w : w = new'[t]
  OBVIOUS
<1>k. PICK k : k = [i \in 0..(n + 1) |-> IF i = n + 1 THEN w ELSE h[i]]
  OBVIOUS
<1>2. n \in Nat
  <2>1. results[t] \in Seq(Result)
    BY DEF ChainInv, StoreInv, LockInv, TypeInv, Types
  <2> QED
    BY <1>n, <2>1
<1>3. /\ h \in [0..n -> Table] /\ h[0] = NoRows /\ h[n] = new[t]
      /\ \A i \in 0..n : Grows(h[i], new[t])
      /\ \A i \in 1..n : Outcome(h[i - 1], h[i], b[i])
  BY <1>1, <1>n, <1>b DEF Chain
<1>4. Len(results'[t]) = n + 1
  BY <1>n
<1>5. \A g, x, m : Outcome(g, x, m)' <=> Outcome(g, x, m)
  BY DEF Outcome, Adds, Fills, Finds, Merged
<1>6. Grows(w, w) /\ Grows(new[t], w) /\ w \in Table
  BY <1>w DEF Grows, Keeps
<1>o. Outcome(new[t], w, b[n + 1])
  BY <1>n, <1>b, <1>w
<1>7. k \in [0..(n + 1) -> Table] /\ k[0] = NoRows /\ k[n + 1] = w
  BY <1>2, <1>3, <1>6, <1>k
<1>8. ASSUME NEW i \in 0..(n + 1) PROVE Grows(k[i], w)
  <2>1. CASE i = n + 1
    BY <1>2, <1>6, <1>7, <2>1
  <2>2. CASE i \in 0..n
    <3>1. k[i] = h[i] /\ Grows(h[i], new[t])
      BY <1>2, <1>3, <1>k, <2>2
    <3> QED
      BY <1>6, <3>1, GrowsTrans
  <2> QED
    BY <1>2, <2>1, <2>2
<1>9. ASSUME NEW i \in 1..(n + 1) PROVE Outcome(k[i - 1], k[i], b[i])
  <2>1. CASE i = n + 1
    <3>1. k[i - 1] = new[t] /\ k[i] = w
      BY <1>2, <1>3, <1>k, <2>1
    <3> QED
      BY <1>o, <2>1, <3>1
  <2>2. CASE i \in 1..n
    <3>1. k[i - 1] = h[i - 1] /\ k[i] = h[i]
      BY <1>2, <1>k, <2>2
    <3> QED
      BY <1>3, <2>2, <3>1
  <2> QED
    BY <1>2, <2>1, <2>2
<1>10. \A i \in 1..(n + 1) : Outcome(k[i - 1], k[i], b[i])'
  BY <1>5, <1>9
<1>11. Chain(t, k)'
  BY <1>4, <1>7, <1>8, <1>10, <1>b, <1>w DEF Chain
<1> QED
  BY <1>11

LEMMA ChainSame ==
  ASSUME NEW t, NEW h, Chain(t, h), rows' = rows, new'[t] = new[t],
         results'[t] = results[t], batch'[t] = batch[t]
  PROVE  Chain(t, h)'
<1>1. \A g, x, m : Outcome(g, x, m)' <=> Outcome(g, x, m)
  BY DEF Outcome, Adds, Fills, Finds, Merged
<1>2. PICK b : b = batch[t] /\ b = batch'[t]
  OBVIOUS
<1>3. \A i \in 1..Len(results[t]) : Outcome(h[i - 1], h[i], b[i])
  BY <1>2 DEF Chain
<1>4. \A i \in 1..Len(results[t]) : Outcome(h[i - 1], h[i], b[i])'
  BY <1>1, <1>3
<1> QED
  BY <1>2, <1>4 DEF Chain

LEMMA ChainOwn ==
  ASSUME ChainInv, NothingReplaced', NEW t \in Session, Act(t)
  PROVE  \E h : Chain(t, h)'
<1>0. /\ StoreInv /\ LockInv /\ TypeInv /\ Types /\ PlaceOK(t)
      /\ new \in [Session -> Table] /\ new[t] \in Table
  BY DEF ChainInv, StoreInv, LockInv, TypeInv, Types, Table
<1>1. View(t) = Merged(rows, new[t])
  BY DEF View, Merged
<1>2. CASE Leave(t)
  <2>1. results'[t] = <<>> /\ new'[t] = NoRows
    BY <1>0, <1>2, Left DEF Types
  <2> QED
    BY <2>1, ChainEmpty
<1>3. CASE Begin(t)
  <2>1. results'[t] = <<>> /\ new'[t] = NoRows
    BY <1>0, <1>3 DEF Begin, PlaceOK
  <2> QED
    BY <2>1, ChainEmpty
<1>4. CASE UNCHANGED <<rows, new, results, batch>>
  <2>1. PICK h : Chain(t, h)
    BY DEF ChainInv
  <2>2. Chain(t, h)'
    BY <1>4, <2>1, ChainSame
  <2> QED
    BY <2>2
<1>5. ASSUME NEW status \in {"created", "updated", "unchanged", "conflict"},
             NEW id \in RowId \cup {None}, Report(t, status, id), entries'[t] = {},
             batch' = batch, rows' = rows, pc[t] = "write",
             new'[t] \in Table, Grows(new[t], new'[t]),
             Outcome(new[t], new'[t], Mapped(t))
      PROVE  \E h : Chain(t, h)'
  <2>1. pc[t] \in Looking
    BY <1>5 DEF Looking
  <2>2. Len(results'[t]) = item[t]
    BY <1>0, <1>5, <2>1, Reported
  <2>3. Len(results[t]) = item[t] - 1 /\ item[t] \in Nat /\ Mapped(t) = batch[t][item[t]]
    BY <1>0, <2>1, AtItem
  <2>4. Len(results[t]) + 1 = item[t]
    BY <2>3
  <2>5. Outcome(new[t], new'[t], batch[t][Len(results[t]) + 1])
    BY <1>5, <2>3, <2>4
  <2> QED
    BY <1>5, <2>2, <2>4, <2>5, ChainLonger
<1>6. Grows(new[t], new[t])
  BY DEF Grows, Keeps
<1>7. CASE ReportConflict(t)
  <2> DEFINE id == IF TwoAssets(t) THEN None ELSE Chosen(t).id
  <2>1. /\ pc[t] = "write" /\ Conflict(t) /\ Report(t, "conflict", id) /\ batch' = batch
        /\ entries'[t] = {} /\ rows' = rows /\ new' = new
    BY <1>0, <1>7 DEF ReportConflict, PlaceOK
  <2>2. id \in RowId \cup {None}
    <3>1. ~TwoAssets(t) => Chosen(t) \in Object
      BY <1>0, <2>1, ChosenType DEF Conflict, OtherValue
    <3> QED
      BY <3>1 DEF Object
  <2>3. Contradicted(View(t), Mapped(t))
    BY <1>0, <2>1, ConflictSettled
  <2>4. Outcome(new[t], new[t], Mapped(t))
    BY <1>1, <2>3 DEF Outcome
  <2> HIDE DEF id
  <2> QED
    BY <1>0, <1>5, <1>6, <2>1, <2>2, <2>4
<1>8. CASE Keep(t)
  <2>1. /\ pc[t] = "write" /\ ~Conflict(t) /\ Writes(t) = {} /\ batch' = batch
        /\ Report(t, "unchanged", Chosen(t).id) /\ entries'[t] = {} /\ rows' = rows /\ new' = new
    BY <1>0, <1>8 DEF Keep, PlaceOK
  <2>2. Chosen(t) # None
    <3>1. Mapped(t) \in Mapping
      BY <1>0, <2>1, AtItem DEF Looking
    <3> QED
      BY <2>1, <3>1, ARow DEF Writes, Column
  <2>3. Chosen(t).id \in RowId /\ Carries(View(t)[Chosen(t).id], Mapped(t))
    BY <1>0, <2>1, <2>2, ChosenCarries, ARow DEF Carries
  <2>4. Outcome(new[t], new[t], Mapped(t))
    BY <1>1, <2>3 DEF Outcome, Finds
  <2> QED
    BY <1>0, <1>5, <1>6, <2>1, <2>3, <2>4
<1>9. ASSUME NEW r \in RowId, NEW W \in Mapping, Flushed(t, r, W), Grows(View(t), View(t)')
      PROVE  new'[t] = [new[t] EXCEPT ![r] = W] /\ new'[t] \in Table /\ Grows(new[t], new'[t])
  <2>1. new' = [new EXCEPT ![t][r] = W]
    BY <1>9 DEF Flushed
  <2>2. new'[t] = [new[t] EXCEPT ![r] = W]
    BY <1>0, <2>1
  <2>3. new'[t] \in Table /\ \A q \in RowId : new'[t][q] = IF q = r THEN W ELSE new[t][q]
    BY <1>0, <2>2 DEF Table, Row
  <2>4. View(t)'[r] = W
    BY <1>0, <1>9, FlushedView
  <2>5. ASSUME new[t][r] # None PROVE Keeps(new[t][r], W)
    <3>1. View(t)[r] = new[t][r]
      BY <2>5 DEF View
    <3> QED
      BY <1>9, <2>4, <2>5, <3>1 DEF Grows
  <2>6. Grows(new[t], new'[t])
    BY <2>3, <2>5 DEF Grows, Keeps
  <2> QED
    BY <2>2, <2>3, <2>6
<1>10. CASE ~Leave(t)
  <2>0. Grows(View(t), View(t)')
    BY <1>0, <1>10, OwnView, FilledAgreed
  <2>1. CASE Create(t)
    <3>1. PICK r \in RowId : /\ View(t)[r] = None /\ Flushed(t, r, Mapped(t))
                             /\ Report(t, "created", r) /\ batch' = batch /\ rows' = rows
      BY <1>0, <2>1, Created
    <3>2. pc[t] = "write" /\ Mapped(t) \in Mapping /\ entries'[t] = {}
      BY <1>0, <2>1, <3>1, Created DEF Flushed
    <3>3. new'[t] = [new[t] EXCEPT ![r] = Mapped(t)] /\ new'[t] \in Table
          /\ Grows(new[t], new'[t])
      BY <1>9, <2>0, <3>1, <3>2
    <3>4. Outcome(new[t], new'[t], Mapped(t))
      BY <1>1, <3>1, <3>3 DEF Outcome, Adds
    <3> QED
      BY <1>5, <3>1, <3>2, <3>3, <3>4
  <2>2. CASE Complete(t)
    <3> DEFINE id == Chosen(t).id
               W  == Set(t, View(t)[id])
               m  == Mapped(t)
    <3>1. /\ pc[t] = "write" /\ ~Conflict(t) /\ Chosen(t) # None
          /\ m \in Mapping /\ id \in RowId /\ View(t)[id] \in Mapping
          /\ Flushed(t, id, W) /\ W \in Mapping /\ Report(t, "updated", id)
          /\ \A c \in Column : W[c] = IF c \in Writes(t) THEN m[c] ELSE View(t)[id][c]
          /\ batch' = batch /\ rows' = rows
      BY <1>0, <2>2, Filled DEF Complete
    <3>2. PICK d \in Column : m[d] # None /\ View(t)[id][d] = m[d]
      BY <1>0, <3>1, ChosenBy
    <3>3. \A c \in Writes(t) : m[c] # None /\ View(t)[id][c] \in {None, m[c]}
      BY <1>0, <2>2, FilledAgreed DEF Agreed, Writes
    <3>4. \A c \in Column \ Writes(t) : m[c] # None => View(t)[id][c] = m[c]
      BY <1>0, <3>1, ChosenCarries
    <3> HIDE DEF W
    <3>5. new'[t] = [new[t] EXCEPT ![id] = W] /\ new'[t] \in Table /\ Grows(new[t], new'[t])
      BY <1>9, <2>0, <3>1
    <3> HIDE DEF id, m
    <3>6. W = Registry!Joined(View(t)[id], m)
      BY <3>1, <3>3, <3>4, JoinedRow, SameRow
    <3>7. Fills(new[t], new'[t], m)
      <4>1. \A c \in Column : m[c] # None => View(t)[id][c] \in {None, m[c]}
        BY <3>3, <3>4
      <4>2. View(t)[id] # None
        BY <3>1, ARow
      <4> QED
        BY <1>1, <3>1, <3>2, <3>5, <3>6, <4>1, <4>2 DEF Fills
    <3>8. Outcome(new[t], new'[t], Mapped(t)) /\ entries'[t] = {}
      BY <3>1, <3>7 DEF Outcome, Flushed, m
    <3> QED
      BY <1>5, <3>1, <3>5, <3>8
  <2>3. ~(Commit(t) \/ Refuse(t) \/ BreakDeadlock(t) \/ Abandon(t))
    BY <1>10 DEF Commit, Refuse, BreakDeadlock, Abandon, Rollback
  <2> QED
    BY <1>3, <1>4, <1>7, <1>8, <2>1, <2>2, <2>3 DEF Act, Step, FindCmms, FindDc, TakeEntry
<1> QED
  BY <1>2, <1>10

LEMMA Chaining ==
  ASSUME ChainInv, NothingReplaced', [Next]_vars
  PROVE  ChainInv'
<1>0. StoreInv'
  BY Storing DEF ChainInv
<1>1. CASE UNCHANGED vars
  <2>1. \A s, h : Chain(s, h) => Chain(s, h)'
    BY <1>1, ChainSame DEF vars
  <2> QED
    BY <1>0, <2>1 DEF ChainInv
<1>2. CASE Next
  <2>1. PICK t \in Session : Act(t)
    BY <1>2 DEF Next, Act
  <2>2. \A s \in Session : \E h : Chain(s, h)'
    BY <2>1, ChainOthers, ChainOwn
  <2> QED
    BY <1>0, <2>2 DEF ChainInv
<1> QED
  BY <1>1, <1>2

LEMMA ChainInit == Init => ChainInv
<1> SUFFICES ASSUME Init PROVE ChainInv
  OBVIOUS
<1>1. ASSUME NEW s \in Session PROVE \E h : Chain(s, h)
  <2> DEFINE h == [i \in 0..0 |-> NoRows]
  <2>1. NoRows \in Table /\ Grows(NoRows, NoRows)
    BY DEF NoRows, Table, Row, Grows
  <2>2. Len(results[s]) = 0 /\ new[s] = NoRows
    BY DEF Init
  <2>3. Chain(s, h)
    BY <2>1, <2>2 DEF Chain
  <2> QED
    BY <2>3
<1> QED
  BY <1>1, StoringInit DEF ChainInv

(* A commit takes the registry to what the batch makes of it.              *)
LEMMA CommitApplies ==
  ASSUME ChainInv, NEW t \in Session, Act(t), Commit(t)
  PROVE  AsSet(rows') = Registry!Applied(AsSet(rows), batch[t]) /\ batch[t] \in BatchesOf(t)
<1>0. /\ StoreInv /\ LockInv /\ TypeInv /\ Types /\ PlaceOK(t) /\ OneRowEach(View(t))
      /\ NothingReplaced /\ rows \in Table
  BY DEF ChainInv, StoreInv, LockInv, TypeInv, Types, Table
<1>1. pc[t] = "commit" /\ rows' = View(t) /\ View(t) = Merged(rows, new[t])
  BY DEF Commit, View, Merged
<1>2. PICK n \in Nat : n = Len(results[t]) /\ n = Len(batch[t])
  <2>1. results[t] \in Seq(Result)
    BY <1>0 DEF Types
  <2> QED
    BY <1>0, <1>1, <2>1 DEF PlaceOK
<1>3. PICK h : /\ h \in [0..n -> Table] /\ h[0] = NoRows /\ h[n] = new[t]
               /\ \A i \in 0..n : Grows(h[i], new[t])
               /\ \A i \in 1..n : Outcome(h[i - 1], h[i], batch[t][i])
  BY <1>2 DEF ChainInv, Chain
<1>4. batch[t] \in Seq(Mapping) /\ batch[t] \in BatchesOf(t)
      /\ \A i \in 1..n : batch[t][i] \in Mapping
  BY <1>0, <1>1, <1>2 DEF Types, PlaceOK
<1>5. View(t) \in Table /\ Grows(rows, View(t))
  BY <1>0, ViewType DEF Table, NothingReplaced
<1>6. ASSUME NEW g, Grows(g, new[t]) PROVE Grows(Merged(rows, g), View(t))
  <2> SUFFICES ASSUME NEW q \in RowId, Merged(rows, g)[q] # None
               PROVE  Keeps(Merged(rows, g)[q], View(t)[q])
    BY DEF Grows
  <2>1. CASE g[q] # None
    BY <1>6, <2>1 DEF Merged, View, Grows, Keeps
  <2>2. CASE g[q] = None
    BY <1>5, <2>2 DEF Merged, Grows
  <2> QED
    BY <2>1, <2>2
<1> DEFINE p == [i \in 0..n |-> AsSet(Merged(rows, h[i]))]
<1>7. ASSUME NEW i \in 1..n PROVE p[i] = Registry!Apply(p[i - 1], batch[t][i])
  <2>1. i \in 0..n /\ i - 1 \in 0..n
    OBVIOUS
  <2>2. h[i - 1] \in Table /\ h[i] \in Table /\ Grows(h[i - 1], new[t]) /\ Grows(h[i], new[t])
        /\ Outcome(h[i - 1], h[i], batch[t][i])
    BY <1>3, <2>1
  <2>3. Grows(Merged(rows, h[i - 1]), View(t)) /\ Grows(Merged(rows, h[i]), View(t))
    BY <1>6, <2>2
  <2>4. Registry!Apply(AsSet(Merged(rows, h[i - 1])), batch[t][i]) = AsSet(Merged(rows, h[i]))
    BY <1>0, <1>4, <1>5, <2>2, <2>3, ApplyOutcome
  <2> QED
    BY <2>1, <2>4
<1>8. p[0] = AsSet(rows) /\ p[n] = AsSet(View(t))
  <2>1. Merged(rows, NoRows) = rows
    BY <1>0 DEF Merged, NoRows, Table
  <2> QED
    BY <1>1, <1>3, <2>1
<1>9. p = [i \in 0..n |-> p[i]]
  OBVIOUS
<1> HIDE DEF p
<1>10. Registry!Applied(p[0], batch[t]) = p[n]
  BY <1>2, <1>4, <1>7, <1>9, AppliedChain
<1> QED
  BY <1>1, <1>4, <1>8, <1>10

LEMMA RegistryStep ==
  ASSUME ChainInv, [Next]_vars
  PROVE  [Registry!Next]_({rows[r] : r \in RowId} \ {None})
<1>1. CASE UNCHANGED rows
  BY <1>1
<1>2. CASE ~ UNCHANGED rows
  <2>1. PICK t \in Session : Act(t)
    BY <1>2 DEF Next, Act, vars
  <2>2. Commit(t)
    BY <1>2, <2>1, Frame DEF ChainInv, StoreInv, LockInv, TypeInv
  <2>3. AsSet(rows') = Registry!Applied(AsSet(rows), batch[t]) /\ batch[t] \in BatchesOf(t)
    BY <2>1, <2>2, CommitApplies
  <2>4. CASE t \in Import
    <3>1. batch[t] \in Batches
      BY <2>3, <2>4 DEF BatchesOf
    <3> QED
      BY <2>3, <3>1 DEF Registry!Next, AsSet
  <2>5. CASE t \notin Import
    <3>1. PICK c \in CmmsId : batch[t] = <<[cmms |-> c, dc |-> None]>>
      BY <2>3, <2>5 DEF BatchesOf
    <3> DEFINE m == [cmms |-> c, dc |-> None]
    <3>2. m \in Mapping
      BY MappingAssumption DEF Mapping, Identifiers
    <3> HIDE DEF m
    <3>3. Registry!Applied(AsSet(rows), <<m>>) = Registry!Apply(AsSet(rows), m)
      <4> DEFINE p == [i \in 0..1 |-> IF i = 0 THEN AsSet(rows) ELSE Registry!Apply(AsSet(rows), m)]
      <4>1. <<m>> \in Seq(Mapping) /\ Len(<<m>>) = 1 /\ <<m>>[1] = m
        BY <3>2
      <4>2. p[0] = AsSet(rows) /\ p[1] = Registry!Apply(AsSet(rows), m) /\ p = [i \in 0..1 |-> p[i]]
        OBVIOUS
      <4> HIDE DEF p
      <4>3. p = [i \in 0..Len(<<m>>) |-> p[i]]
            /\ \A i \in 1..Len(<<m>>) : p[i] = Registry!Apply(p[i - 1], <<m>>[i])
        BY <4>1, <4>2
      <4>4. Registry!Applied(p[0], <<m>>) = p[Len(<<m>>)]
        BY <4>1, <4>3, AppliedChain
      <4> QED
        BY <4>1, <4>2, <4>4
    <3> QED
      BY <2>3, <3>1, <3>3 DEF Registry!Next, Registry!ApplyAsset, AsSet, m
  <2> QED
    BY <2>4, <2>5
<1> QED
  BY <1>1, <1>2

(* As long as no flush replaces an identifier that its row has by then,    *)
(* each batch takes effect at its commit, at once and as a whole, and does *)
(* what it would have done alone (apply_asset_mappings and ensure_asset_id *)
(* under READ COMMITTED).                                                  *)
THEOREM Refinement == Spec /\ []NothingReplaced => ImplementsRegistry
<1>1. Init => Registry!Init
  BY DEF Init, NoRows, Registry!Init
<1>2. ChainInv /\ [Next]_vars => [Registry!Next]_({rows[r] : r \in RowId} \ {None})
  BY RegistryStep
<1> QED
  BY <1>1, <1>2, ChainInit, Chaining, PTL DEF Spec, ImplementsRegistry, Registry!Spec

(* So does every batch when no two requests that are served at once        *)
(* contradict each other.                                                  *)
THEOREM PeacefulRefinement == Spec /\ []NoRivals => ImplementsRegistry
  BY Peaceful, Refinement, PTL
===============================================================================
