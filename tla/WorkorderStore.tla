---------------------------- MODULE WorkorderStore ----------------------------
(***************************************************************************)
(* What the synchronisation of work orders promises to the rest of the     *)
(* system: it takes place at once or not at all.  The database goes from   *)
(* one state to the next by a whole work order: its asset, all its failure *)
(* causes, its one worksheet, and exactly the operations received with it. *)
(***************************************************************************)
EXTENDS SyncData

CONSTANT SheetNo   \* asset_worksheet_list_id

VARIABLES
  assets,  \* assets with a row
  types,   \* types[c]: the name in failure_types, None without a row
  links,   \* links[l]: the row of asset_failure_types, or None
  sheets,  \* sheets[n]: the row of asset_worksheet_lists, or None
  ops      \* ops[n][p]: rows of operations_done_lists of that worksheet

vars == <<assets, types, links, sheets, ops>>

Known(t) == {x \in DOMAIN t : t[x] # None}

Sheet(o, l) == [asset |-> o.asset, slot |-> o.slot, link |-> l]

SameKey(row, o) == row # None /\ row.asset = o.asset /\ row.slot = o.slot

Init ==
  /\ assets = {}
  /\ types = [c \in Cause |-> None]
  /\ links = [l \in Link |-> None]
  /\ sheets = [n \in SheetNo |-> None]
  /\ ops = [n \in SheetNo |-> [p \in Operation |-> 0]]

(* Every cause of the answer has its row, nothing else changes, and no row *)
(* of asset_failure_types goes to another asset.                           *)
StoreCauses(o, ans) ==
  /\ Known(types') = Known(types) \cup CausesOf(ans)
  /\ \A c \in Cause \ CausesOf(ans) : types'[c] = types[c]
  /\ Known(links') = Known(links) \cup LinksOf(ans)
  /\ \A l \in LinksOf(ans) : links'[l].asset = o.asset
  /\ \A l \in Known(links) : links'[l].asset = links[l].asset
  /\ \A l \in Link \ LinksOf(ans) : links'[l] = links[l]

(* The one worksheet of the asset and the times, old or new, has exactly   *)
(* the operations of the answer.                                           *)
StoreSheet(o, ans) ==
  \E n \in SheetNo, l \in Targets(o, ans) :
    /\ sheets[n] \in {None, Sheet(o, l)}
    /\ \A m \in SheetNo \ {n} : ~SameKey(sheets[m], o)
    /\ sheets' = [sheets EXCEPT ![n] = Sheet(o, l)]
    /\ ops' = [ops EXCEPT ![n] = Received(ans)]
    /\ \A p \in Operation : ops[n][p] <= ops'[n][p]

Store(o) ==
  /\ assets' = assets \cup {o.asset}
  /\ \E ans \in Answers[o.asset] : StoreCauses(o, ans) /\ StoreSheet(o, ans)

(* The mapping endpoint stores an asset by itself.                         *)
Map(a) ==
  /\ assets' = assets \cup {a}
  /\ UNCHANGED <<types, links, sheets, ops>>

Next ==
  \/ \E o \in Orders : Store(o)
  \/ \E a \in Asset : Map(a)

Spec == Init /\ [][Next]_vars
=============================================================================
