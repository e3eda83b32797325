------------------------ MODULE DataCollectorProofs ------------------------
(***************************************************************************)
(* Theorems about DataCollector: the type invariant, that nothing is       *)
(* stored twice or without a mapping, and that the watermark passes no     *)
(* value, for every DC, page size, overlap and number of failures.         *)
(***************************************************************************)
EXTENDS DataCollector, FiniteSetTheorems, TLAPS

LEMMA TypeInit == Init => TypeOK
<1> SUFFICES ASSUME Init PROVE TypeOK
  OBVIOUS
<1>1. exists \in BOOLEAN /\ lastPage \in BOOLEAN /\ refreshed \in BOOLEAN
  BY DEF Init
<1> QED
  BY <1>1, CollectorAssumption DEF Init, TypeOK, Time, NoTime, Refreshing

LEMMA Typing == TypeOK /\ [Next]_vars => TypeOK'
<1> SUFFICES ASSUME TypeOK, [Next]_vars PROVE TypeOK'
  OBVIOUS
<1> USE CollectorAssumption
    DEF TypeOK, Time, NoTime, Refreshing, apiVars, stateVars, cycleVars, refreshVars, pageVars,
        collector, database
<1>1. CASE UNCHANGED vars
  BY <1>1 DEF vars
<1>2. CASE Tick
  BY <1>2 DEF Tick
<1>3. ASSUME NEW i \in Item, Publish(i) PROVE TypeOK'
  BY <1>3 DEF Publish
<1>4. CASE MapBegin
  BY <1>4 DEF MapBegin
<1>5. CASE MapCommit
  BY <1>5 DEF MapCommit
<1>6. CASE MapFails
  BY <1>6 DEF MapFails
<1>7. CASE BeginFirst
  BY <1>7 DEF BeginFirst, StartRefresh
<1>8. CASE Begin
  BY <1>8 DEF Begin, StartRefresh
<1>9. CASE FetchMetrics
  BY <1>9 DEF FetchMetrics
<1>10. ASSUME NEW m \in Metric, StoreMetric(m) PROVE TypeOK'
  BY <1>10 DEF StoreMetric
<1>11. CASE CommitMetrics
  <2>1. exists' \in BOOLEAN
    BY <1>11 DEF CommitMetrics
  <2>2. stored' \in [Item -> Nat]
    BY <1>11 DEF CommitMetrics, Flush
  <2> QED
    BY <1>11, <2>1, <2>2 DEF CommitMetrics
<1>12. CASE SaveSync
  <2>1. lastPage' \in BOOLEAN /\ refreshed' \in BOOLEAN
    BY <1>12 DEF SaveSync, Leave
  <2> QED
    BY <1>12, <2>1 DEF SaveSync, Leave
<1>13. CASE ListPairs
  BY <1>13 DEF ListPairs
<1>14. ASSUME NEW p \in Metric, FetchPage(p) PROVE TypeOK'
  BY <1>14 DEF FetchPage, Result, IsLast
<1>15. ASSUME NEW i \in Item, StoreItem(i) PROVE TypeOK'
  BY <1>15 DEF StoreItem
<1>16. ASSUME NEW i \in Item, MissingMetadata(i) PROVE TypeOK'
  BY <1>16 DEF MissingMetadata, StartRefresh
<1>17. CASE CommitPage
  BY <1>17 DEF CommitPage, Flush
<1>18. CASE EndCycle
  <2>1. lastPage' \in BOOLEAN /\ refreshed' \in BOOLEAN
    BY <1>18 DEF EndCycle, Leave
  <2> QED
    BY <1>18, <2>1 DEF EndCycle, Leave
<1>19. CASE CycleFails
  <2>1. lastPage' \in BOOLEAN /\ refreshed' \in BOOLEAN
    BY <1>19 DEF CycleFails, Leave
  <2> QED
    BY <1>19, <2>1 DEF CycleFails, Leave
<1> QED
  BY <1>1, <1>2, <1>3, <1>4, <1>5, <1>6, <1>7, <1>8, <1>9, <1>10, <1>11, <1>12, <1>13,
     <1>14, <1>15, <1>16, <1>17, <1>18, <1>19 DEF Next, Mapping, RunCycle

(* The variables of the collector keep their types: a cycle that ends or   *)
(* fails leaves nothing in its session, and a refresh of the metadata      *)
(* always knows where to go on.                                            *)
THEOREM TypeCorrect == Spec => []TypeOK
<1> QED
  BY TypeInit, Typing, PTL DEF Spec

-----------------------------------------------------------------------------
(* measurement_exists: the overlap of two cycles stores nothing twice.     *)

(* What waits for the next COMMIT has no row yet.                          *)
PendingIsNew == \A i \in pending : ~MeasurementExists(i)

(* A COMMIT writes only what has no row, and only once.                     *)
LEMMA OnceStep ==
  ASSUME TypeOK, StoredOnce, PendingIsNew, [Next]_vars
  PROVE  StoredOnce' /\ PendingIsNew'
<1> USE CollectorAssumption
    DEF TypeOK, StoredOnce, PendingIsNew, MeasurementExists, Same, apiVars, stateVars,
        cycleVars, refreshVars, pageVars, collector, database
<1> DEFINE Kept == stored' = stored /\ pending' \subseteq pending
<1>1. Kept => StoredOnce' /\ PendingIsNew'
  OBVIOUS
<1>2. Flush /\ pending' = {} => StoredOnce' /\ PendingIsNew'
  <2> SUFFICES ASSUME Flush, pending' = {}, NEW i \in Item PROVE stored'[i] <= 1
    OBVIOUS
  <2>1. i \in pending => stored[i] = 0
    OBVIOUS
  <2> QED
    BY <2>1 DEF Flush
<1>3. CASE UNCHANGED vars
  BY <1>1, <1>3 DEF vars
<1>4. CASE Tick
  BY <1>1, <1>4 DEF Tick
<1>5. ASSUME NEW i \in Item, Publish(i) PROVE Kept
  BY <1>5 DEF Publish
<1>6. CASE Mapping
  BY <1>1, <1>6 DEF Mapping, MapBegin, MapCommit, MapFails
<1>7. CASE BeginFirst \/ Begin \/ FetchMetrics \/ ListPairs
  BY <1>1, <1>7 DEF BeginFirst, Begin, FetchMetrics, ListPairs
<1>8. ASSUME NEW m \in Metric, StoreMetric(m) PROVE Kept
  BY <1>8 DEF StoreMetric
<1>9. CASE CommitMetrics \/ CommitPage
  BY <1>2, <1>9 DEF CommitMetrics, CommitPage
<1>10. CASE SaveSync \/ EndCycle \/ CycleFails
  BY <1>1, <1>10 DEF SaveSync, EndCycle, CycleFails, Leave
<1>11. ASSUME NEW p \in Metric, FetchPage(p) PROVE Kept
  BY <1>11 DEF FetchPage
<1>12. ASSUME NEW i \in Item, StoreItem(i) PROVE StoredOnce' /\ PendingIsNew'
  BY <1>12 DEF StoreItem
<1>13. ASSUME NEW i \in Item, MissingMetadata(i) PROVE Kept
  BY <1>13 DEF MissingMetadata
<1> QED
  BY <1>1, <1>3, <1>4, <1>5, <1>6, <1>7, <1>8, <1>9, <1>10, <1>11, <1>12, <1>13
     DEF Next, RunCycle

(* No value is stored twice, however often failed and overlapping cycles   *)
(* and shifting pages ask for it: measurement_exists needs no unique index *)
(* while one collector runs.                                               *)
THEOREM Once == Spec => []StoredOnce
<1>1. Init => StoredOnce /\ PendingIsNew
  BY DEF Init, StoredOnce, PendingIsNew
<1>2. TypeOK /\ StoredOnce /\ PendingIsNew /\ [Next]_vars => StoredOnce' /\ PendingIsNew'
  BY OnceStep
<1> QED
  BY <1>1, <1>2, TypeCorrect, PTL DEF Spec

-----------------------------------------------------------------------------
(* store_metric and _store_metric_value: only mapped assets, only sound    *)
(* items.                                                                  *)

(* What waits for the next COMMIT is mapped, known and sound as well.      *)
SessionIsMapped ==
  /\ \A m \in fresh : m.asset \in mapped
  /\ \A i \in pending : i.pair \in sensors /\ i \notin Bad

(* Assets keep their mapping and sensors are not removed, so what the      *)
(* session holds is still mapped when it is committed.                     *)
LEMMA MappedStep ==
  ASSUME TypeOK, OnlyMapped, SessionIsMapped, [Next]_vars
  PROVE  OnlyMapped' /\ SessionIsMapped'
<1> USE CollectorAssumption
    DEF TypeOK, OnlyMapped, SessionIsMapped, apiVars, stateVars, cycleVars, refreshVars,
        pageVars, collector, database
<1> DEFINE Kept == /\ UNCHANGED <<sensors, stored>>
                   /\ mapped \subseteq mapped'
                   /\ fresh' \subseteq fresh /\ pending' \subseteq pending
<1>1. Kept => OnlyMapped' /\ SessionIsMapped'
  OBVIOUS
<1>2. CASE UNCHANGED vars
  BY <1>1, <1>2 DEF vars
<1>3. CASE Tick
  BY <1>1, <1>3 DEF Tick
<1>4. ASSUME NEW i \in Item, Publish(i) PROVE Kept
  BY <1>4 DEF Publish
<1>5. CASE Mapping
  BY <1>1, <1>5 DEF Mapping, MapBegin, MapCommit, MapFails
<1>6. CASE BeginFirst \/ Begin \/ FetchMetrics \/ ListPairs
  BY <1>1, <1>6 DEF BeginFirst, Begin, FetchMetrics, ListPairs
<1>7. ASSUME NEW m \in Metric, StoreMetric(m) PROVE OnlyMapped' /\ SessionIsMapped'
  BY <1>7 DEF StoreMetric
<1>8. CASE CommitMetrics
  BY <1>8 DEF CommitMetrics, Flush
<1>9. CASE CommitPage
  BY <1>9 DEF CommitPage, Flush
<1>10. CASE SaveSync \/ EndCycle \/ CycleFails
  BY <1>1, <1>10 DEF SaveSync, EndCycle, CycleFails, Leave
<1>11. ASSUME NEW p \in Metric, FetchPage(p) PROVE Kept
  BY <1>11 DEF FetchPage
<1>12. ASSUME NEW i \in Item, StoreItem(i) PROVE OnlyMapped' /\ SessionIsMapped'
  BY <1>12 DEF StoreItem, Known
<1>13. ASSUME NEW i \in Item, MissingMetadata(i) PROVE Kept
  BY <1>13 DEF MissingMetadata
<1> QED
  BY <1>1, <1>2, <1>3, <1>4, <1>5, <1>6, <1>7, <1>8, <1>9, <1>10, <1>11, <1>12, <1>13
     DEF Next, RunCycle

(* Sensors belong to mapped assets, measurements to sensors, and a refused *)
(* item is never stored, whatever the DC returns and whenever the mapping  *)
(* endpoint commits.                                                       *)
THEOREM Mapped == Spec => []OnlyMapped
<1>1. Init => OnlyMapped /\ SessionIsMapped
  BY DEF Init, OnlyMapped, SessionIsMapped
<1>2. TypeOK /\ OnlyMapped /\ SessionIsMapped /\ [Next]_vars
        => OnlyMapped' /\ SessionIsMapped'
  BY MappedStep
<1> QED
  BY <1>1, <1>2, TypeCorrect, PTL DEF Spec

-----------------------------------------------------------------------------
(* The watermark: the loop over the pairs and their pages skips no value   *)
(* that the next time_from will leave behind.                              *)

InLoop == pc \in {"page", "items"} \/ back = "items"

(* Nothing is known before the state row, and no cycle is in the future.   *)
CycleOK ==
  /\ watermark <= clock /\ now <= clock
  /\ ~exists => sensors = {} /\ ~InLoop /\ pc # "list" /\ back # "list"
  /\ ~InLoop => pageNo = 0

(* The values that this cycle must store, for its end moves past them.     *)
Owed(i) ==
  /\ i \in visible \ Bad
  /\ i.pair \in sensors
  /\ since[i.pair] <= i.at
  /\ i.at < now - Overlap
  /\ ~Recorded(i)

(* The value is in hand or on a page that has not been asked for yet.      *)
Ahead(i) ==
  IF pc = "page"
  THEN pageNo * PageSize <= Rank(i, pair)
  ELSE \/ i \in page \cup pending
       \/ ~lastPage /\ (pageNo + 1) * PageSize <= Rank(i, pair)

NoneSkipped ==
  InLoop => \A i \in Item : Owed(i) => i.pair \in pairs /\ (i.pair = pair => Ahead(i))

GapInv == TypeOK /\ OnlyMapped /\ SessionIsMapped /\ CycleOK /\ NoneSkipped /\ NoGap

(* The clock only grows, and the loop runs after the row was committed.    *)
LEMMA CycleStep ==
  ASSUME TypeOK, CycleOK, [Next]_vars
  PROVE  CycleOK'
<1> USE CollectorAssumption
    DEF TypeOK, Time, NoTime, CycleOK, InLoop, Refreshing, apiVars, stateVars, cycleVars,
        refreshVars, pageVars, collector, database
<1>1. CASE UNCHANGED vars
  BY <1>1 DEF vars
<1>2. CASE Tick
  BY <1>2 DEF Tick
<1>3. ASSUME NEW i \in Item, Publish(i) PROVE CycleOK'
  BY <1>3 DEF Publish
<1>4. CASE Mapping
  BY <1>4 DEF Mapping, MapBegin, MapCommit, MapFails
<1>5. CASE BeginFirst
  BY <1>5 DEF BeginFirst, StartRefresh
<1>6. CASE Begin
  BY <1>6 DEF Begin, StartRefresh
<1>7. CASE FetchMetrics \/ ListPairs
  BY <1>7 DEF FetchMetrics, ListPairs
<1>8. ASSUME NEW m \in Metric, StoreMetric(m) PROVE CycleOK'
  BY <1>8 DEF StoreMetric
<1>9. CASE CommitMetrics
  BY <1>9 DEF CommitMetrics
<1>10. CASE SaveSync
  BY <1>10 DEF SaveSync, Leave
<1>11. ASSUME NEW p \in Metric, FetchPage(p) PROVE CycleOK'
  BY <1>11 DEF FetchPage
<1>12. ASSUME NEW i \in Item, StoreItem(i) PROVE CycleOK'
  BY <1>12 DEF StoreItem
<1>13. ASSUME NEW i \in Item, MissingMetadata(i) PROVE CycleOK'
  BY <1>13 DEF MissingMetadata, StartRefresh
<1>14. CASE CommitPage
  BY <1>14 DEF CommitPage
<1>15. CASE EndCycle \/ CycleFails
  BY <1>15 DEF EndCycle, CycleFails, Leave
<1> QED
  BY <1>1, <1>2, <1>3, <1>4, <1>5, <1>6, <1>7, <1>8, <1>9, <1>10, <1>11, <1>12, <1>13,
     <1>14, <1>15 DEF Next, RunCycle

(* A value has fewer values before it than its result has.                 *)
LEMMA RankBelow ==
  ASSUME TypeOK, NEW p, NEW i \in Result(p)
  PROVE  /\ Rank(i, p) \in Nat /\ Cardinality(Result(p)) \in Nat
         /\ Rank(i, p) < Cardinality(Result(p))
<1> DEFINE Earlier == {j \in Result(p) : Before(j, i)}
<1>1. IsFiniteSet(Result(p))
  BY CollectorAssumption, FS_Subset DEF Result, TypeOK
<1>2. Earlier \in SUBSET Result(p) /\ Earlier # Result(p)
  BY CollectorAssumption DEF Before, Result, TypeOK
<1>3. IsFiniteSet(Earlier) /\ Cardinality(Earlier) <= Cardinality(Result(p))
      /\ Cardinality(Earlier) # Cardinality(Result(p))
  <2> HIDE DEF Earlier
  <2> QED
    BY <1>1, <1>2, FS_Subset
<1>4. Cardinality(Earlier) \in Nat /\ Cardinality(Result(p)) \in Nat
  BY <1>1, <1>3, FS_CardinalityType
<1> QED
  BY <1>3, <1>4 DEF Rank

(* A value that the DC publishes late moves others to later pages only.    *)
LEMMA RankGrows ==
  ASSUME TypeOK, TypeOK', NEW p, NEW i, visible \subseteq visible',
         UNCHANGED <<watermark, now>>
  PROVE  Rank(i, p) \in Nat /\ Rank(i, p)' \in Nat /\ Rank(i, p) <= Rank(i, p)'
<1> DEFINE Earlier == {j \in Result(p) : Before(j, i)}
<1>1. IsFiniteSet(Earlier')
  BY CollectorAssumption, FS_Subset DEF Result, TypeOK
<1>2. Earlier \in SUBSET Earlier'
  BY DEF Result, TimeFrom
<1>3. IsFiniteSet(Earlier) /\ Cardinality(Earlier) <= Cardinality(Earlier')
  <2> HIDE DEF Earlier
  <2> QED
    BY <1>1, <1>2, FS_Subset
<1>4. Cardinality(Earlier) \in Nat /\ Cardinality(Earlier') \in Nat
  BY <1>1, <1>3, FS_CardinalityType
<1> QED
  BY <1>3, <1>4 DEF Rank

(* The first page begins at 0, and the next one is PageSize further on.    *)
LEMMA Pages ==
  ASSUME NEW n \in Nat
  PROVE  /\ n * PageSize \in Nat /\ (n + 1) * PageSize \in Nat
         /\ 0 * PageSize = 0 /\ (0 + 1) * PageSize = PageSize
  BY CollectorAssumption

(* What is owed is not behind time_from yet, so the DC still returns it.   *)
LEMMA OwedIsAskedFor ==
  ASSUME TypeOK, NoGap, NEW i \in Item, Owed(i)
  PROVE  i \in Result(i.pair)
  BY CollectorAssumption DEF TypeOK, Time, NoTime, NoGap, Owed, Result, TimeFrom

(* Rows of measurements are never removed.                                 *)
LEMMA RecordedStays ==
  ASSUME TypeOK, [Next]_vars, NEW i, Recorded(i)
  PROVE  Recorded(i)'
<1> USE DEF apiVars, stateVars, cycleVars, refreshVars, pageVars, collector, database
<1> DEFINE Kept == \A j \in Item : stored[j] > 0 => stored'[j] > 0
<1>1. stored' = stored => Kept
  BY DEF TypeOK
<1>2. Flush => Kept
  BY DEF TypeOK, Flush
<1>3. CASE UNCHANGED vars \/ Tick \/ Mapping \/ CycleFails \/ \E j \in Item : Publish(j)
  BY <1>1, <1>3
     DEF Recorded, vars, Tick, Mapping, MapBegin, MapCommit, MapFails, CycleFails, Publish
<1>4. CASE RunCycle
  <2>1. stored' = stored \/ Flush
    BY <1>4
       DEF RunCycle, BeginFirst, Begin, FetchMetrics, StoreMetric, CommitMetrics, SaveSync,
           ListPairs, FetchPage, StoreItem, MissingMetadata, CommitPage, EndCycle
  <2> QED
    BY <1>1, <1>2, <2>1 DEF Recorded, TypeOK
<1> QED
  BY <1>3, <1>4 DEF Next

(* Only the end of a cycle, the first COMMIT and late values could open a  *)
(* gap behind the watermark.                                               *)
LEMMA WatermarkStep ==
  ASSUME GapInv, [Next]_vars, MaxDelay <= Overlap
  PROVE  NoGap'
<1> USE CollectorAssumption
    DEF GapInv, TypeOK, Time, NoTime, CycleOK, apiVars, stateVars, cycleVars, refreshVars,
        pageVars, collector, database
<1> SUFFICES ASSUME NEW i \in visible' \ Bad,
                    i.pair \in sensors', since'[i.pair] <= i.at, i.at < TimeFrom'
             PROVE  Recorded(i)'
  BY DEF NoGap
<1> DEFINE Kept == UNCHANGED <<visible, sensors, since, watermark>>
<1>1. Kept => Recorded(i)'
  BY RecordedStays DEF NoGap, TimeFrom
<1>2. CASE UNCHANGED vars
  BY <1>1, <1>2 DEF vars
<1>3. CASE Tick
  BY <1>1, <1>3 DEF Tick
<1>4. ASSUME NEW j \in Item, Publish(j) PROVE Recorded(i)'
  <2>1. i # j
    BY <1>4 DEF Publish, TimeFrom
  <2> QED
    BY <1>4, <2>1, RecordedStays DEF Publish, NoGap, TimeFrom
<1>5. CASE Mapping
  BY <1>1, <1>5 DEF Mapping, MapBegin, MapCommit, MapFails
<1>6. CASE BeginFirst \/ Begin \/ FetchMetrics \/ ListPairs \/ SaveSync
  BY <1>1, <1>6 DEF BeginFirst, Begin, FetchMetrics, ListPairs, SaveSync
<1>7. ASSUME NEW m \in Metric, StoreMetric(m) PROVE Kept
  BY <1>7 DEF StoreMetric
<1>8. CASE CommitMetrics
  <2>1. i.pair \in sensors /\ since'[i.pair] = since[i.pair] /\ i \in visible
    BY <1>8 DEF CommitMetrics, TimeFrom
  <2>2. watermark' = watermark
    BY <1>8, <2>1 DEF CommitMetrics
  <2> QED
    BY <2>1, <2>2, RecordedStays DEF NoGap, TimeFrom
<1>9. ASSUME NEW p \in Metric, FetchPage(p) PROVE Kept
  BY <1>9 DEF FetchPage
<1>10. ASSUME NEW j \in Item, StoreItem(j) \/ MissingMetadata(j) PROVE Kept
  BY <1>10 DEF StoreItem, MissingMetadata
<1>11. CASE CommitPage \/ CycleFails
  BY <1>1, <1>11 DEF CommitPage, CycleFails
<1>12. CASE EndCycle
  <2>1. ~Owed(i)
    BY <1>12 DEF EndCycle, NoneSkipped, InLoop
  <2>2. Recorded(i)
    BY <1>12, <2>1 DEF EndCycle, Owed, TimeFrom
  <2> QED
    BY <2>2, RecordedStays
<1> QED
  BY <1>1, <1>2, <1>3, <1>4, <1>5, <1>6, <1>7, <1>8, <1>9, <1>10, <1>11, <1>12
     DEF Next, RunCycle

(* Nothing becomes owed while a cycle runs: what the DC publishes now is   *)
(* younger than the overlap, and what a refresh adds is known since now.   *)
LEMMA OwedBefore ==
  ASSUME GapInv, [Next]_vars, MaxDelay <= Overlap, now' = now, NEW i \in Item, Owed(i)'
  PROVE  Owed(i)
<1> USE CollectorAssumption
    DEF GapInv, TypeOK, Time, NoTime, CycleOK, Owed, apiVars, stateVars, cycleVars,
        refreshVars, pageVars, collector, database
<1> DEFINE Kept == UNCHANGED <<visible, sensors, since>>
<1>1. ~Recorded(i)
  BY RecordedStays
<1>2. Kept => Owed(i)
  BY <1>1
<1>3. CASE UNCHANGED vars
  BY <1>2, <1>3 DEF vars
<1>4. CASE Tick \/ Mapping \/ CycleFails
  BY <1>2, <1>4 DEF Tick, Mapping, MapBegin, MapCommit, MapFails, CycleFails
<1>5. ASSUME NEW j \in Item, Publish(j) PROVE Owed(i)
  <2>1. i # j
    BY <1>5 DEF Publish
  <2> QED
    BY <1>1, <1>5, <2>1 DEF Publish
<1>6. CASE CommitMetrics
  BY <1>1, <1>6 DEF CommitMetrics
<1>7. CASE RunCycle /\ ~CommitMetrics
  BY <1>2, <1>7
     DEF RunCycle, BeginFirst, Begin, FetchMetrics, StoreMetric, SaveSync, ListPairs,
         FetchPage, StoreItem, MissingMetadata, CommitPage, EndCycle
<1> QED
  BY <1>3, <1>4, <1>5, <1>6, <1>7 DEF Next

(* A rank is a number, and nothing but the DC and a new cycle changes it.  *)
LEMMA RankKept ==
  ASSUME TypeOK, NEW p, NEW i
  PROVE  /\ Rank(i, p) \in Nat
         /\ UNCHANGED <<visible, watermark, now>> => Rank(i, p)' = Rank(i, p)
<1> DEFINE Earlier == {j \in Result(p) : Before(j, i)}
<1>1. IsFiniteSet(Earlier)
  BY CollectorAssumption, FS_Subset DEF Result, TypeOK
<1>2. Cardinality(Earlier) \in Nat
  BY <1>1, FS_CardinalityType
<1>3. UNCHANGED <<visible, watermark, now>> => Earlier' = Earlier
  BY DEF Result, TimeFrom
<1> QED
  BY <1>2, <1>3 DEF Rank

(* Each step of the loop leaves what is owed in hand, stored or ahead.     *)
LEMMA LoopStep ==
  ASSUME GapInv, TypeOK', [Next]_vars, MaxDelay <= Overlap
  PROVE  NoneSkipped'
<1> USE CollectorAssumption
    DEF GapInv, TypeOK, CycleOK, InLoop, Refreshing, apiVars, stateVars, cycleVars,
        refreshVars, pageVars, collector, database
<1> SUFFICES ASSUME InLoop', NEW i \in Item, Owed(i)'
             PROVE  i.pair \in pairs' /\ (i.pair = pair' => Ahead(i)')
  BY DEF NoneSkipped
<1>r. /\ \A p : Rank(i, p) \in Nat
      /\ UNCHANGED <<visible, watermark, now>> => \A p : Rank(i, p)' = Rank(i, p)
  BY RankKept
<1>o. now' = now => Owed(i)
  BY OwedBefore
<1>a. now' = now /\ InLoop => i.pair \in pairs /\ (i.pair = pair => Ahead(i))
  BY <1>o DEF NoneSkipped
<1>p. pageNo * PageSize \in Nat /\ (pageNo + 1) * PageSize \in Nat /\ 0 * PageSize = 0
  BY Pages
<1> DEFINE Kept == /\ UNCHANGED <<visible, watermark, now, pc, back, pairs, pair, pageNo,
                                  lastPage, page, pending>>
           Goal == i.pair \in pairs' /\ (i.pair = pair' => Ahead(i)')
<1>k. Kept => Goal
  BY <1>r, <1>a DEF Ahead
<1> HIDE DEF Goal
<1>1. CASE UNCHANGED vars
  BY <1>k, <1>1 DEF vars, Goal
<1>2. CASE Tick
  BY <1>k, <1>2 DEF Tick, Goal
<1>3. ASSUME NEW j \in Item, Publish(j) PROVE Goal
  <2>1. \A p : Rank(i, p) <= Rank(i, p)' /\ Rank(i, p)' \in Nat
    BY <1>3, RankGrows DEF Publish
  <2> QED
    BY <1>3, <1>r, <1>a, <1>p, <2>1 DEF Publish, Ahead, Goal
<1>4. CASE Mapping
  BY <1>k, <1>4 DEF Mapping, MapBegin, MapCommit, MapFails, Goal
<1>5. CASE BeginFirst \/ Begin
  BY <1>5 DEF BeginFirst, Begin, StartRefresh
<1>6. CASE FetchMetrics
  BY <1>6, <1>r, <1>a DEF FetchMetrics, Ahead, Goal
<1>7. ASSUME NEW m \in Metric, StoreMetric(m) PROVE Goal
  BY <1>7, <1>r, <1>a DEF StoreMetric, Ahead, Goal
<1>8. CASE CommitMetrics
  <2>1. InLoop /\ UNCHANGED <<visible, watermark, now>>
    BY <1>8 DEF CommitMetrics
  <2>2. i \notin pending
    BY <1>8 DEF CommitMetrics, Flush, Owed, Recorded, Same
  <2> QED
    BY <1>8, <1>r, <1>a, <2>1, <2>2 DEF CommitMetrics, Ahead, Goal
<1>9. CASE SaveSync
  BY <1>9, <1>r, <1>a DEF SaveSync, Leave, Ahead, Goal
<1>10. CASE ListPairs
  BY <1>10, <1>r, <1>o, <1>p DEF ListPairs, Owed, OnlyMapped, Ahead, Goal
<1>11. ASSUME NEW p \in Metric, FetchPage(p) PROVE Goal
  <2>1. i.pair \in pairs /\ (i.pair = pair => pageNo * PageSize <= Rank(i, pair))
    BY <1>11, <1>a DEF FetchPage, Ahead
  <2>2. ASSUME i.pair = p PROVE Ahead(i)'
    <3>1. i \in Result(p)
      BY <1>11, <1>o, <2>2, OwedIsAskedFor DEF FetchPage
    <3>2. Rank(i, p) < Cardinality(Result(p)) /\ Cardinality(Result(p)) \in Nat
      BY <3>1, RankBelow
    <3>3. pageNo * PageSize <= Rank(i, p)
      <4>1. CASE pageNo = 0
        BY <4>1, <1>r, <1>p
      <4>2. CASE pageNo > 0
        BY <4>2, <1>11, <2>1, <2>2 DEF FetchPage
      <4> QED
        BY <4>1, <4>2
    <3>4. CASE Rank(i, p) < (pageNo + 1) * PageSize
      <4>1. i \in page'
        BY <1>11, <3>1, <3>3, <3>4 DEF FetchPage, OnPage
      <4> QED
        BY <1>11, <4>1 DEF FetchPage, Ahead
    <3>5. CASE (pageNo + 1) * PageSize <= Rank(i, p)
      <4>1. ~lastPage'
        <5>1. ~IsLast(pageNo, p)
          BY <1>r, <1>p, <3>2, <3>5 DEF IsLast
        <5>2. lastPage' = IsLast(pageNo, p)
          BY <1>11 DEF FetchPage
        <5> QED
          BY <5>1, <5>2
      <4>2. (pageNo + 1) * PageSize <= Rank(i, p)'
        BY <1>11, <1>r, <3>5 DEF FetchPage
      <4> QED
        BY <1>11, <4>1, <4>2 DEF FetchPage, Ahead
    <3> QED
      BY <1>r, <1>p, <3>4, <3>5
  <2> QED
    BY <1>11, <2>1, <2>2 DEF FetchPage, Goal
<1>12. ASSUME NEW j \in Item, StoreItem(j) PROVE Goal
  <2>1. j = i => i \in pending'
    BY <1>12, <1>o DEF StoreItem, Known, Owed, OnlyMapped, MeasurementExists, Recorded
  <2> QED
    BY <1>12, <1>r, <1>a, <2>1 DEF StoreItem, Ahead, Goal
<1>13. ASSUME NEW j \in Item, MissingMetadata(j) PROVE Goal
  BY <1>13, <1>r, <1>a DEF MissingMetadata, StartRefresh, Ahead, Goal
<1>14. CASE CommitPage
  <2>1. i \notin pending
    BY <1>14 DEF CommitPage, Flush, Owed, Recorded, Same
  <2>2. i.pair = pair => ~lastPage /\ (pageNo + 1) * PageSize <= Rank(i, pair)
    BY <1>14, <1>a, <2>1 DEF CommitPage, Ahead
  <2>3. i.pair \in pairs
    BY <1>14, <1>a DEF CommitPage
  <2> QED
    BY <1>14, <1>r, <2>2, <2>3 DEF CommitPage, Ahead, Goal
<1>15. CASE EndCycle \/ CycleFails
  BY <1>15 DEF EndCycle, CycleFails, Leave
<1> QED
  BY <1>1, <1>2, <1>3, <1>4, <1>5, <1>6, <1>7, <1>8, <1>9, <1>10, <1>11, <1>12, <1>13,
     <1>14, <1>15 DEF Next, RunCycle, Goal

(* Whatever the DC publishes within Overlap of its createdAt, every value  *)
(* that lies behind the watermark and the overlap, and came after its      *)
(* sensor was known, is stored: no page is skipped, and a cycle that fails *)
(* part of the way does not move the watermark.                            *)
THEOREM Gapless == ASSUME MaxDelay <= Overlap PROVE Spec => []NoGap
<1>1. Init => GapInv
  BY TypeInit, CollectorAssumption
     DEF Init, GapInv, OnlyMapped, SessionIsMapped, CycleOK, InLoop, NoneSkipped, NoGap, NoTime
<1>2. GapInv /\ [Next]_vars => GapInv'
  <2> SUFFICES ASSUME GapInv, [Next]_vars PROVE GapInv'
    OBVIOUS
  <2>1. TypeOK'
    BY Typing DEF GapInv
  <2>2. OnlyMapped' /\ SessionIsMapped'
    BY MappedStep DEF GapInv
  <2>3. CycleOK'
    BY CycleStep DEF GapInv
  <2>4. NoneSkipped' /\ NoGap'
    BY LoopStep, WatermarkStep, <2>1
  <2> QED
    BY <2>1, <2>2, <2>3, <2>4 DEF GapInv
<1>3. GapInv => NoGap
  BY DEF GapInv
<1> QED
  BY <1>1, <1>2, <1>3, PTL DEF Spec

-----------------------------------------------------------------------------
(* A new mapping is noticed: the state says "refreshed" only while every   *)
(* listed metric of a mapped asset has its sensor.                         *)

Complete == \A m \in Metric : m.asset \in mapped => m \in sensors

(* A mapping that keeps last_metrics_sync_at found it empty, and nobody    *)
(* fills it before that mapping commits: refreshes and mappings exclude    *)
(* each other.  So a refresh sees all mappings until its state is saved.   *)
NoticeInv ==
  /\ TypeOK
  /\ pc \in Refreshing => api = "none"
  /\ api = "keep" => lastSync = NoTime
  /\ ~exists => lastSync = NoTime
  /\ pc = "store" => \A m \in Metric \ todo : m.asset \in mapped => m \in fresh
  /\ pc = "save" => exists /\ Complete
  /\ lastSync # NoTime => Complete

LEMMA NoticeStep ==
  ASSUME NoticeInv, [Next]_vars, Races = FALSE
  PROVE  NoticeInv'
<1>1. TypeOK'
  BY Typing DEF NoticeInv
<1> USE DEF TypeOK, NoticeInv, Complete, Refreshing, apiVars, stateVars, cycleVars,
            refreshVars, pageVars, collector, database
<1>2. CASE UNCHANGED vars
  BY <1>1, <1>2 DEF vars
<1>3. CASE Tick
  BY <1>1, <1>3 DEF Tick
<1>4. ASSUME NEW i \in Item, Publish(i) PROVE NoticeInv'
  BY <1>1, <1>4 DEF Publish
<1>5. CASE MapBegin
  BY <1>1, <1>5 DEF MapBegin
<1>6. CASE MapCommit
  BY <1>1, <1>6 DEF MapCommit
<1>7. CASE MapFails
  BY <1>1, <1>7 DEF MapFails
<1>8. CASE BeginFirst
  BY <1>1, <1>8 DEF BeginFirst, StartRefresh
<1>9. CASE Begin
  BY <1>1, <1>9 DEF Begin, StartRefresh
<1>10. CASE FetchMetrics
  BY <1>1, <1>10 DEF FetchMetrics
<1>11. ASSUME NEW m \in Metric, StoreMetric(m) PROVE NoticeInv'
  BY <1>1, <1>11 DEF StoreMetric
<1>12. CASE CommitMetrics
  BY <1>1, <1>12 DEF CommitMetrics
<1>13. CASE SaveSync
  BY <1>1, <1>13 DEF SaveSync, Leave
<1>14. CASE ListPairs
  BY <1>1, <1>14 DEF ListPairs
<1>15. ASSUME NEW p \in Metric, FetchPage(p) PROVE NoticeInv'
  BY <1>1, <1>15 DEF FetchPage
<1>16. ASSUME NEW i \in Item, StoreItem(i) PROVE NoticeInv'
  BY <1>1, <1>16 DEF StoreItem
<1>17. ASSUME NEW i \in Item, MissingMetadata(i) PROVE NoticeInv'
  BY <1>1, <1>17 DEF MissingMetadata, StartRefresh
<1>18. CASE CommitPage
  BY <1>1, <1>18 DEF CommitPage
<1>19. CASE EndCycle \/ CycleFails
  BY <1>1, <1>19 DEF EndCycle, CycleFails, Leave
<1> QED
  BY <1>2, <1>3, <1>4, <1>5, <1>6, <1>7, <1>8, <1>9, <1>10, <1>11, <1>12, <1>13, <1>14,
     <1>15, <1>16, <1>17, <1>18, <1>19 DEF NoticeInv, Next, Mapping, RunCycle

(* If no mapping is committed while the metrics are refreshed, a mapped    *)
(* asset that lacks sensors after a cycle is looked up in the next one,    *)
(* also when cycles fail and when mappings wait through a whole cycle.     *)
THEOREM Noticed == ASSUME Races = FALSE PROVE Spec => []MappingIsNoticed
<1>1. Init => NoticeInv
  BY TypeInit DEF Init, NoticeInv, Refreshing
<1>2. NoticeInv /\ [Next]_vars => NoticeInv'
  BY NoticeStep
<1>3. NoticeInv => MappingIsNoticed
  BY DEF NoticeInv, Complete, MappingIsNoticed
<1> QED
  BY <1>1, <1>2, <1>3, PTL DEF Spec
=============================================================================
