---------------------------- MODULE MCWorkorderSync ----------------------------
(* Instances of WorkorderSync for TLC: two assets whose failure causes are *)
(* listed in opposite orders, or one asset whose causes change.            *)
EXTENDS WorkorderSync, TLC

Symmetry == Permutations(Worker)

Listed(l, c, rate, list) ==
  [link |-> l, cause |-> c, code |-> "code", rate |-> rate, overflow |-> "none",
   ops |-> list]

WorkOrder(a, s, c) == [asset |-> a, slot |-> s, cause |-> c]

(* The pump and the fan share two causes; one answer for the fan lists a   *)
(* link of the pump, and another renames a shared cause.                   *)
PumpCauses == <<Listed(11, "wear", 5, <<"oil">>), Listed(12, "leak", 5, <<>>)>>
FanCauses  == <<Listed(21, "leak", 5, <<"oil">>), Listed(22, "wear", 5, <<>>)>>
Stolen     == <<Listed(11, "heat", 5, <<"oil">>), Listed(21, "leak", 5, <<>>)>>
Renamed    == <<[FanCauses[1] EXCEPT !.code = "new code"], FanCauses[2]>>

TwoAssets     == {"pump", "fan"}
SharedOrders  == {WorkOrder("pump", "may", "wear"), WorkOrder("fan", "may", "leak"),
                  WorkOrder("pump", "june", None)}
SharedAnswers == [a \in TwoAssets |-> IF a = "pump" THEN {PumpCauses}
                                      ELSE {FanCauses, Stolen, Renamed}]

(* One asset: operations are added and repeated, a cause is no longer      *)
(* listed, a rate changes or is refused, a cause is listed twice, a number *)
(* cannot be converted, nothing is listed.                                 *)
Base      == <<Listed(11, "wear", 5, <<"oil">>)>>
More      == <<Listed(11, "wear", 6, <<"oil", "oil">>), Listed(12, "leak", 5, <<"belt">>)>>
Added     == <<Listed(11, "wear", 5, <<"oil", "belt">>)>>
Other     == <<Listed(12, "leak", 5, <<>>)>>
Refused   == <<Listed(12, "leak", 5, <<>>), Listed(11, "wear", 100, <<>>)>>
Twice     == <<Listed(11, "wear", 5, <<>>), Listed(13, "wear", 5, <<>>)>>
Reissued  == <<Listed(13, "wear", 5, <<"oil">>)>>
Overflows == {<<Listed(12, "leak", 5, <<>>), [Base[1] EXCEPT !.overflow = f]>> :
                f \in {"cause", "rate", "severity"}}

OneAsset == {"pump"}
PumpOrders == {WorkOrder("pump", "may", "wear"), WorkOrder("pump", "may", None),
               WorkOrder("pump", "june", "leak")}
TwoOrders == {WorkOrder("pump", "may", "wear"), WorkOrder("pump", "june", "wear")}

ChangingAnswers  == [a \in OneAsset |-> {Base, Added, More, Other, Refused, Twice, <<>>}
                                          \cup Overflows]
GrowingAnswers   == [a \in OneAsset |-> {Base, Added}]
ReissuedAnswers  == [a \in OneAsset |-> {Base, Reissued}]
OverflowAnswers  == [a \in OneAsset |-> {Base} \cup Overflows]
=============================================================================
