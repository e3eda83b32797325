-------------------------- MODULE MCPredictionDelivery --------------------------
(* Instances of PredictionDelivery for TLC: two jobs of two assets with    *)
(* the same causes, links that the CMMS moves or reuses, and results of    *)
(* which each breaks one rule.                                             *)
EXTENDS PredictionDelivery, TLC

Of(id, types, probs, reliability) ==
  [id |-> id, types |-> types, probs |-> probs, reliability |-> reliability]

Owners == ("j1" :> "pump") @@ ("j2" :> "fan")
At(a, c) == [asset |-> a, cause |-> c]

(* Link 12 may be moved, before or after the causes are looked up; link 21 *)
(* is claimed by both assets, and the first one keeps it.                  *)
Rows == (11 :> {At("pump", 1)}) @@ (12 :> {At("pump", 2), At("pump", 1)})
          @@ (21 :> {At("fan", 1), At("pump", 2)}) @@ (22 :> {At("fan", 2)})

Sound == {Of(1, <<1>>, <<990>>, 1000), Of(2, <<2, 1>>, <<0, 500>>, 0)}
Broken == {Of(0, <<1>>, <<10>>, 10), Of(1, <<>>, <<>>, 10), Of(1, <<1, 1>>, <<10, 20>>, 10),
           Of(1, <<0>>, <<10>>, 10), Of(2, <<3>>, <<10>>, 10), Of(2, <<1>>, <<1001>>, 10),
           Of(2, <<1>>, <<10>>, -1), Of(1, <<2>>, <<991>>, 10)}
Refused  == Sound \cup Broken
Boundary == {Of(1, <<1>>, <<p>>, 1000) : p \in {989, 990, 991, 1000}}
=============================================================================
