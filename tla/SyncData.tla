------------------------------- MODULE SyncData -------------------------------
(***************************************************************************)
(* What a work-order synchronisation works with: the work orders, the      *)
(* failure causes as the CMMS lists them, and what data_sync.py computes   *)
(* from both without looking at the database.                              *)
(*                                                                         *)
(* An asset is known by its cmms_asset_id: AssetMapping shows that the row *)
(* of such an id is one and stays the same.  A slot is a pair of ended and *)
(* failure_date; with the asset it is the natural key of a worksheet.      *)
(***************************************************************************)
EXTENDS Integers, Sequences, FiniteSets

CONSTANTS
  Asset,      \* cmms_asset_id of the assets
  Slot,       \* (ended, failure_date) of the work orders
  Cause,      \* failure_cause_id, which is also failure_type_id
  Link,       \* asset_failurecause_id, which is also asset_failure_type_id
  Code,       \* codes (names) of failure causes
  Operation,  \* operation ids
  None,       \* NULL, or no row
  Orders,     \* the work orders that are sent
  Answers     \* Answers[a]: what the CMMS may answer for asset a

(* Percent; a greater default_occurrence_probability is refused.           *)
MaxRate == 99

(* One element of failure_causes.  Its overflow is the first field whose   *)
(* number int() or float() cannot convert: 1e400 and integers of 400       *)
(* digits are valid JSON.  (Such an asset_failurecause_id or operation id  *)
(* fails before anything is written.)  A rate that is NULL is 0.           *)
Item == [link : Link, cause : Cause, code : Code, rate : Nat,
         overflow : {"none", "cause", "rate", "severity"}, ops : Seq(Operation)]

(* A preventive work order has cause None.                                 *)
Order == [asset : Asset, slot : Slot, cause : Cause \cup {None}]

ASSUME DataAssumption ==
  /\ Orders \subseteq Order
  /\ DOMAIN Answers = Asset /\ \A a \in Asset : Answers[a] \subseteq Seq(Item)
  /\ None \notin Cause /\ None \notin Link /\ None \notin Code
  /\ IsFiniteSet(Operation)

-----------------------------------------------------------------------------
(* build_asset_failure_cause_operations, before anything is written.       *)
WellFormed(ans) ==
  \A i, j \in DOMAIN ans : ans[i].link = ans[j].link => i = j

CausesOf(ans) == {ans[i].cause : i \in DOMAIN ans}
LinksOf(ans)  == {ans[i].link : i \in DOMAIN ans}

(* Where p stands in the operation_ids of an answer.                       *)
Places(ans, p) ==
  UNION {{<<i, k>> : k \in {n \in DOMAIN ans[i].ops : ans[i].ops[n] = p}} : i \in DOMAIN ans}

(* The Counter of all operation_ids of an answer.                          *)
Received(ans) == [p \in Operation |-> Cardinality(Places(ans, p))]

(* resolve_workorder_asset_failure_type_id: the links that o may refer to, *)
(* none of them when the CMMS did not list its cause.                      *)
Targets(o, ans) ==
  IF o.cause = None THEN {None}
  ELSE {ans[i].link : i \in {n \in DOMAIN ans : ans[n].cause = o.cause}}

(* For every asset the CMMS always gives a cause the same link, and a link *)
(* the same cause.                                                         *)
StableLinks ==
  \A a \in Asset : \A x, y \in Answers[a] : \A i \in DOMAIN x, j \in DOMAIN y :
    x[i].link = y[j].link <=> x[i].cause = y[j].cause
=============================================================================
