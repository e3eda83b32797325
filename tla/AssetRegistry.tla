----------------------------- MODULE AssetRegistry -----------------------------
(***************************************************************************)
(* What /sf_asset_mapping promises: the assets are a set of rows, each of  *)
(* which has one or both of the identifiers of an asset; a batch of        *)
(* mappings is applied as a whole, one mapping after the other; a mapping  *)
(* adds an identifier that is missing and never moves one that is there.   *)
(***************************************************************************)
EXTENDS Integers, Sequences

CONSTANTS
  CmmsId,   \* asset ids of the CMMS
  DcId,     \* asset ids of the DC
  None,     \* NULL
  Batches   \* the batches that are sent

(* A mapping, and a row of assets, have at least one of the identifiers.   *)
Mapping ==
  {m \in [cmms : CmmsId \cup {None}, dc : DcId \cup {None}] : m.cmms # None \/ m.dc # None}

VARIABLE registry   \* the rows

(* The rows that share an identifier with m.                               *)
Sharing(m) == {r \in Mapping : (m.cmms # None /\ r.cmms = m.cmms) \/ (m.dc # None /\ r.dc = m.dc)}

Agrees(x, y) == x = None \/ y = None \/ x = y

Joined(r, m) == [cmms |-> IF m.cmms = None THEN r.cmms ELSE m.cmms,
                 dc   |-> IF m.dc = None THEN r.dc ELSE m.dc]

(* New, completed or unchanged; two rows, or a contradiction, are a        *)
(* conflict, and change nothing.                                           *)
Apply(rows, m) ==
  LET S == rows \cap Sharing(m) IN
  IF S = {} THEN rows \cup {m}
  ELSE IF \E r \in S : S = {r} /\ Agrees(r.cmms, m.cmms) /\ Agrees(r.dc, m.dc)
       THEN (rows \ S) \cup {Joined(r, m) : r \in S}
       ELSE rows

(* The mappings of a batch, one after the other.                           *)
Applied(rows, b) ==
  LET after[n \in 0..Len(b)] == IF n = 0 THEN rows ELSE Apply(after[n - 1], b[n])
  IN  after[Len(b)]

(* A worker stores an asset that it knows by its CMMS id.                  *)
ApplyAsset(c) == registry' = Apply(registry, [cmms |-> c, dc |-> None])

Init == registry = {}

Next ==
  \/ \E b \in Batches : registry' = Applied(registry, b)
  \/ \E c \in CmmsId : ApplyAsset(c)

Spec == Init /\ [][Next]_registry
=============================================================================
