----------------------------- MODULE MCAssetMapping -----------------------------
(* Instances of AssetMapping for TLC: one or two CMMS and two DC           *)
(* identifiers.                                                            *)
EXTENDS AssetMapping

Pair(c, d) == [cmms |-> c, dc |-> d]

(* The same identifiers together and one by one, in opposite orders; a     *)
(* mapping that contradicts, and one that would join two rows.             *)
MixedBatches ==
  {<<Pair(1, "x"), Pair(1, "y")>>, <<Pair(None, "x"), Pair(1, None), Pair(1, "x")>>}

(* Two requests that give one asset two DC identifiers.                    *)
RivalBatches == {<<Pair(1, "x")>>, <<Pair(1, "y")>>}
=============================================================================
