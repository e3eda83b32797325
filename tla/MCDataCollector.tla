-------------------------- MODULE MCDataCollector --------------------------
(* Instances of DataCollector for TLC: two technical objects with a metric *)
(* each, and a handful of values, two of them with one createdAt.  The     *)
(* watermark can pass a value of time 1 by more than the overlap.          *)
EXTENDS DataCollector

Pump == [asset |-> "pump", metric |-> "temperature"]
Fan  == [asset |-> "fan", metric |-> "speed"]

Value(p, t, n) == [pair |-> p, at |-> t, no |-> n]

Late   == Value(Pump, 2, 3)
Early  == Value(Pump, 1, 3)
Wrong  == Value(Pump, 1, 4)
Astray == Value(Fan, 1, 5)

OneMetric  == {Pump}
TwoMetrics == {Pump, Fan}

PumpValues  == {Value(Pump, 1, 1), Value(Pump, 1, 2), Late}
OtherValues == {Early, Wrong, Astray}
Refused     == {Wrong}
Foreign     == {Astray}
NoItem      == {}
=============================================================================
