--------------------------- MODULE DataCollector ---------------------------
(***************************************************************************)
(* The data collector (app/datacollector): one process that polls the      *)
(* SilverFrog DC for metric metadata and values, and the mapping endpoint  *)
(* (app/maintenance/asset_mapping.py), which adds assets for it and asks   *)
(* it to refresh the metadata by resetting last_metrics_sync_at.           *)
(*                                                                         *)
(* A step of the collector is one HTTP call, one item of an answer or one  *)
(* COMMIT; what it has not committed is lost when the cycle fails.  Times  *)
(* are ticks of one clock.  The DC is external: it lists a fixed set of    *)
(* metrics and publishes each value at most MaxDelay after its createdAt.  *)
(***************************************************************************)
EXTENDS Integers, FiniteSets

CONSTANTS
  Metric,          \* what /metrics lists, as records [asset, metric]
  Item,            \* values the DC may publish, as records [pair, at, no]
  Bad,             \* items that are not valid or that the parsers refuse
  Stray,           \* items the DC returns whatever pair it is asked for
  Overlap,         \* config.overlap_minutes
  RefreshInterval, \* config.metrics_refresh_interval_minutes
  PageSize,        \* config.page_size
  MaxDelay,        \* how late the DC may publish a value
  Races,           \* the mapping endpoint may commit while metrics are refreshed
  MaxTime,         \* bound on the clock
  MaxFailures      \* bound on the cycles that fail

ASSUME CollectorAssumption ==
  /\ IsFiniteSet(Item)
  /\ \A i \in Item : i.pair \in Metric /\ i.at \in Nat /\ i.no \in Nat
  /\ Bad \subseteq Item /\ Stray \subseteq Item
  /\ Overlap \in Nat /\ MaxDelay \in Nat /\ PageSize \in Nat \ {0}
  /\ RefreshInterval \in Nat \ {0}
  /\ Races \in BOOLEAN
  /\ MaxTime \in Nat /\ MaxFailures \in Nat

VARIABLES
  clock,      \* the time, datetime.now()
  visible,    \* the items that the DC has published
  mapped,     \* the assets with a dc_asset_id
  api,        \* the mapping endpoint: "none", "keep" or "reset" in a transaction
  batch,      \* the assets that this transaction adds
  sensors,    \* the metrics with a row in sensors
  since,      \* history: since[m] is when the sensor of m was committed
  exists,     \* the row of datacollector_sync_state exists
  watermark,  \* its last_successful_time_to
  lastSync,   \* its last_metrics_sync_at
  stored,     \* stored[i]: rows of measurements made from item i
  pc,         \* where the collector is in run_cycle
  now,        \* the time its cycle began
  back,       \* what refresh_metrics returns to
  todo,       \* the listed metrics it has not looked at yet
  fresh,      \* sensors it has added and not committed
  pairs,      \* the pairs whose values it still asks for
  pair,       \* the pair it has asked for
  pageNo,     \* the page it has asked for, or asks for next
  lastPage,   \* that page was the last one
  page,       \* the items of that page it has not looked at yet
  pending,    \* the items it has added and not committed
  refreshed,  \* missing_metadata_refreshed
  failures    \* cycles that failed so far

apiVars     == <<api, batch>>
stateVars   == <<exists, watermark, lastSync>>
cycleVars   == <<now, back>>
refreshVars == <<todo, fresh>>
pageVars    == <<pairs, pair, pageNo, lastPage, page, refreshed>>
collector   == <<pc, cycleVars, refreshVars, pageVars, pending>>
database    == <<mapped, sensors, since, stateVars, stored>>
vars == <<clock, visible, apiVars, database, collector, failures>>

NoTime == -1
NoPair == [asset |-> "none", metric |-> "none"]
Asset  == {m.asset : m \in Metric}

Refreshing == {"fetch", "store", "save"}

Init ==
  /\ clock = 0
  /\ visible = {}
  /\ mapped = {}
  /\ api = "none"
  /\ batch = {}
  /\ sensors = {}
  /\ since = [m \in Metric |-> 0]
  /\ exists = FALSE
  /\ watermark = NoTime
  /\ lastSync = NoTime
  /\ stored = [i \in Item |-> 0]
  /\ pc = "idle"
  /\ now = 0
  /\ back = "none"
  /\ todo = {}
  /\ fresh = {}
  /\ pairs = {}
  /\ pair = NoPair
  /\ pageNo = 0
  /\ lastPage = FALSE
  /\ page = {}
  /\ pending = {}
  /\ refreshed = FALSE
  /\ failures = 0

-----------------------------------------------------------------------------
(* The world: time, and the DC.                                            *)
Tick ==
  /\ clock < MaxTime
  /\ clock' = clock + 1
  /\ UNCHANGED <<visible, apiVars, database, collector, failures>>

Publish(i) ==
  /\ i \notin visible
  /\ i.at <= clock /\ clock <= i.at + MaxDelay
  /\ visible' = visible \cup {i}
  /\ UNCHANGED <<clock, apiVars, database, collector, failures>>

-----------------------------------------------------------------------------
(* The mapping endpoint: apply_asset_mappings, one transaction that adds   *)
(* new assets or changes others, and at its end resets the state.          *)

(* It reads the state row that is committed; the ORM writes the reset only *)
(* if the value it has read is not NULL already.                           *)
MapBegin ==
  /\ api = "none"
  /\ Races \/ pc \notin Refreshing
  /\ api' = IF exists /\ lastSync # NoTime THEN "reset" ELSE "keep"
  /\ batch' \in SUBSET (Asset \ mapped)
  /\ UNCHANGED <<clock, visible, database, collector, failures>>

(* Mutation: the new mapping is stored and the collector is not told.      *)
MapCommitWithoutReset ==
  /\ api # "none"
  /\ mapped' = mapped \cup batch
  /\ api' = "none"
  /\ batch' = {}
  /\ UNCHANGED <<clock, visible, sensors, since, stateVars, stored, collector, failures>>

MapCommit ==
  /\ api # "none"
  /\ mapped' = mapped \cup batch
  /\ lastSync' = IF api = "reset" THEN NoTime ELSE lastSync
  /\ api' = "none"
  /\ batch' = {}
  /\ UNCHANGED <<clock, visible, sensors, since, exists, watermark, stored, collector,
                 failures>>

MapFails ==
  /\ api # "none"
  /\ api' = "none"
  /\ batch' = {}
  /\ UNCHANGED <<clock, visible, database, collector, failures>>

-----------------------------------------------------------------------------
(* run_cycle, up to the loop over the pairs.                               *)

(* Mutation: the items of the failed page stay in the session.             *)
LeaveKeepingPending ==
  /\ pc' = "idle"
  /\ now' = 0 /\ back' = "none" /\ todo' = {} /\ fresh' = {}
  /\ pairs' = {} /\ pair' = NoPair /\ pageNo' = 0 /\ lastPage' = FALSE
  /\ page' = {} /\ refreshed' = FALSE
  /\ UNCHANGED pending

(* The end of a cycle: the session is closed and its locals are gone.      *)
Leave ==
  /\ pc' = "idle"
  /\ now' = 0 /\ back' = "none" /\ todo' = {} /\ fresh' = {}
  /\ pairs' = {} /\ pair' = NoPair /\ pageNo' = 0 /\ lastPage' = FALSE
  /\ page' = {} /\ pending' = {} /\ refreshed' = FALSE

StartRefresh(next) ==
  /\ Races \/ api = "none"
  /\ pc' = "fetch"
  /\ back' = next

Due(t) == lastSync = NoTime \/ t - lastSync >= RefreshInterval

(* The new state row is flushed here and committed with the metrics.       *)
BeginFirst ==
  /\ pc = "idle"
  /\ ~exists
  /\ now' = clock
  /\ StartRefresh("idle")
  /\ UNCHANGED <<clock, visible, apiVars, database, refreshVars, pageVars, pending, failures>>

Begin ==
  /\ pc = "idle"
  /\ exists
  /\ now' = clock
  /\ IF Due(clock) THEN StartRefresh("list") ELSE pc' = "list" /\ UNCHANGED back
  /\ UNCHANGED <<clock, visible, apiVars, database, refreshVars, pageVars, pending, failures>>

ListPairs ==
  /\ pc = "list"
  /\ pairs' = {m \in sensors : m.asset \in mapped}
  /\ pc' = "page"
  /\ UNCHANGED <<clock, visible, apiVars, database, cycleVars, refreshVars, pair, pageNo,
                 lastPage, page, refreshed, pending, failures>>

-----------------------------------------------------------------------------
(* refresh_metrics, and the save of last_metrics_sync_at after it.         *)
FetchMetrics ==
  /\ pc = "fetch"
  /\ todo' = Metric
  /\ pc' = "store"
  /\ UNCHANGED <<clock, visible, apiVars, database, cycleVars, fresh, pageVars, pending,
                 failures>>

(* Mutation: metrics of unknown technical objects are stored as well.      *)
StoreUnmapped(m) ==
  /\ pc = "store"
  /\ m \in todo
  /\ todo' = todo \ {m}
  /\ fresh' = fresh \cup {m}
  /\ UNCHANGED <<clock, visible, apiVars, database, pc, cycleVars, pageVars, pending, failures>>

(* store_metric: nothing is stored for a technical object without a mapping*)
StoreMetric(m) ==
  /\ pc = "store"
  /\ m \in todo
  /\ todo' = todo \ {m}
  /\ fresh' = IF m.asset \in mapped THEN fresh \cup {m} ELSE fresh
  /\ UNCHANGED <<clock, visible, apiVars, database, pc, cycleVars, pageVars, pending, failures>>

Flush == stored' = [i \in Item |-> IF i \in pending THEN stored[i] + 1 ELSE stored[i]]

(* The COMMIT takes along whatever the cycle has added so far.             *)
CommitMetrics ==
  /\ pc = "store"
  /\ todo = {}
  /\ sensors' = sensors \cup fresh
  /\ since' = [m \in Metric |-> IF m \in fresh \ sensors THEN clock ELSE since[m]]
  /\ Flush
  /\ IF exists THEN UNCHANGED <<exists, watermark>> ELSE exists' = TRUE /\ watermark' = now
  /\ pc' = "save"
  /\ fresh' = {}
  /\ pending' = {}
  /\ UNCHANGED <<clock, visible, apiVars, mapped, lastSync, cycleVars, todo, pageVars, failures>>

SaveSync ==
  /\ pc = "save"
  /\ lastSync' = now
  /\ IF back = "idle"
     THEN Leave
     ELSE /\ pc' = back
          /\ refreshed' = (back = "items")
          /\ back' = "none"
          /\ UNCHANGED <<now, refreshVars, pairs, pair, pageNo, lastPage, page, pending>>
  /\ UNCHANGED <<clock, visible, apiVars, mapped, sensors, since, exists, watermark, stored,
                 failures>>

-----------------------------------------------------------------------------
(* The values of the pairs, page by page.                                  *)

TimeFrom == watermark - Overlap

(* Mutation: the query does not overlap with the previous cycle.           *)
ResultSinceWatermark(p) ==
  {i \in visible : (i.pair = p \/ i \in Stray) /\ watermark <= i.at /\ i.at <= now}

(* What the DC answers now to the query for p, in the order of createdAt.  *)
Result(p) ==
  {i \in visible : (i.pair = p \/ i \in Stray) /\ TimeFrom <= i.at /\ i.at <= now}

Before(i, j) == i.at < j.at \/ (i.at = j.at /\ i.no < j.no)

Rank(i, p) == Cardinality({j \in Result(p) : Before(j, i)})

OnPage(i, p, n) == n * PageSize <= Rank(i, p) /\ Rank(i, p) < (n + 1) * PageSize

(* page.number + 1 >= page.totalPages                                      *)
IsLast(n, p) == Cardinality(Result(p)) <= (n + 1) * PageSize

FetchPage(p) ==
  /\ pc = "page"
  /\ p \in pairs
  /\ pageNo > 0 => p = pair
  /\ pair' = p
  /\ page' = {i \in Result(p) : OnPage(i, p, pageNo)}
  /\ lastPage' = IsLast(pageNo, p)
  /\ pc' = "items"
  /\ UNCHANGED <<clock, visible, apiVars, database, cycleVars, refreshVars, pairs, pageNo,
                 refreshed, pending, failures>>

Same(i, j) == i.pair = j.pair /\ i.at = j.at

(* Mutation: the look-up stops at the watermark and forgets the overlap.   *)
ExistsAfterWatermark(i) ==
  i.at >= watermark /\ \E j \in Item : Same(i, j) /\ stored[j] > 0

(* A query, which does not see the rows that the session has not flushed.  *)
MeasurementExists(i) == \E j \in Item : Same(i, j) /\ stored[j] > 0

Known(i) == i.pair \in sensors /\ i.pair.asset \in mapped

(* _store_metric_value of an item that is refused, stored or dropped.      *)
StoreItem(i) ==
  /\ pc = "items"
  /\ i \in page
  /\ i \in Bad \/ Known(i) \/ refreshed
  /\ page' = page \ {i}
  /\ pending' = IF i \notin Bad /\ Known(i) /\ ~MeasurementExists(i)
                THEN pending \cup {i} ELSE pending
  /\ UNCHANGED <<clock, visible, apiVars, database, pc, cycleVars, refreshVars, pairs, pair,
                 pageNo, lastPage, refreshed, failures>>

(* The first item of a cycle whose metric is unknown: the metadata are     *)
(* refreshed, and then the item is looked at again.                        *)
MissingMetadata(i) ==
  /\ pc = "items"
  /\ i \in page \ Bad
  /\ ~Known(i) /\ ~refreshed
  /\ StartRefresh("items")
  /\ UNCHANGED <<clock, visible, apiVars, database, now, refreshVars, pageVars, pending,
                 failures>>

(* Mutation: the number of the next page is not advanced.                  *)
CommitSamePage ==
  /\ pc = "items"
  /\ page = {}
  /\ Flush
  /\ pending' = {}
  /\ pc' = "page"
  /\ pairs' = IF lastPage THEN pairs \ {pair} ELSE pairs
  /\ UNCHANGED <<clock, visible, apiVars, mapped, sensors, since, stateVars, cycleVars,
                 refreshVars, pair, pageNo, lastPage, page, refreshed, failures>>

CommitPage ==
  /\ pc = "items"
  /\ page = {}
  /\ Flush
  /\ pending' = {}
  /\ pc' = "page"
  /\ IF lastPage
     THEN pairs' = pairs \ {pair} /\ pageNo' = 0
     ELSE pageNo' = pageNo + 1 /\ UNCHANGED pairs
  /\ UNCHANGED <<clock, visible, apiVars, mapped, sensors, since, stateVars, cycleVars,
                 refreshVars, pair, lastPage, page, refreshed, failures>>

(* Mutation: the clock is read again at the end of the cycle.              *)
EndCycleLate ==
  /\ pc = "page"
  /\ pairs = {}
  /\ watermark' = clock
  /\ Leave
  /\ UNCHANGED <<clock, visible, apiVars, mapped, sensors, since, exists, lastSync, stored,
                 failures>>

EndCycle ==
  /\ pc = "page"
  /\ pairs = {}
  /\ watermark' = now
  /\ Leave
  /\ UNCHANGED <<clock, visible, apiVars, mapped, sensors, since, exists, lastSync, stored,
                 failures>>

(* An HTTP or database error, an answer that is refused, or the death of   *)
(* the process: main() rolls back and goes to sleep.                       *)
CycleFails ==
  /\ pc # "idle"
  /\ failures < MaxFailures
  /\ failures' = failures + 1
  /\ Leave
  /\ UNCHANGED <<clock, visible, apiVars, database>>

-----------------------------------------------------------------------------
RunCycle ==
  \/ BeginFirst
  \/ Begin
  \/ FetchMetrics
  \/ \E m \in Metric : StoreMetric(m)
  \/ CommitMetrics
  \/ SaveSync
  \/ ListPairs
  \/ \E p \in Metric : FetchPage(p)
  \/ \E i \in Item : StoreItem(i) \/ MissingMetadata(i)
  \/ CommitPage
  \/ EndCycle

Mapping == MapBegin \/ MapCommit \/ MapFails

Next ==
  \/ Tick
  \/ \E i \in Item : Publish(i)
  \/ Mapping
  \/ RunCycle
  \/ CycleFails

Spec == Init /\ [][Next]_vars

(* The loop of runner.main never ends, and its HTTP calls have timeouts.   *)
FairSpec == Spec /\ WF_vars(RunCycle)

-----------------------------------------------------------------------------
Time == {NoTime} \cup 0..MaxTime

TypeOK ==
  /\ clock \in 0..MaxTime
  /\ visible \subseteq Item
  /\ mapped \subseteq Asset
  /\ api \in {"none", "keep", "reset"}
  /\ batch \subseteq Asset
  /\ sensors \subseteq Metric
  /\ since \in [Metric -> 0..MaxTime]
  /\ exists \in BOOLEAN
  /\ watermark \in Time /\ lastSync \in Time
  /\ stored \in [Item -> Nat]
  /\ pc \in {"idle", "list", "page", "items"} \cup Refreshing
  /\ now \in 0..MaxTime
  /\ back \in {"none", "idle", "list", "items"}
  /\ todo \subseteq Metric /\ fresh \subseteq Metric
  /\ pairs \subseteq Metric /\ pair \in Metric \cup {NoPair}
  /\ pageNo \in Nat /\ lastPage \in BOOLEAN
  /\ page \subseteq Item /\ pending \subseteq Item
  /\ refreshed \in BOOLEAN
  /\ failures \in 0..MaxFailures
  /\ pc = "idle" => page = {} /\ pending = {} /\ fresh = {} /\ pairs = {}
  /\ pc \in Refreshing <=> back # "none"

(* No value is stored twice, although overlapping cycles, cycles that are  *)
(* repeated after a failure and pages that shift while they are read ask   *)
(* for it again and again (measurement_exists).                            *)
StoredOnce == \A i \in Item : stored[i] <= 1

(* A sensor, and so a measurement, belongs to a mapped asset               *)
(* (docs/asset_mapping.md:11-13), and a refused item is never stored.      *)
OnlyMapped ==
  /\ \A m \in sensors : m.asset \in mapped
  /\ \A i \in Item : stored[i] > 0 => i.pair \in sensors /\ i \notin Bad

Recorded(i) == \E j \in Item : Same(i, j) /\ stored[j] > 0

(* The watermark passes no value: whatever lies before the next time_from  *)
(* and came after the sensor was known is stored, through failed cycles,   *)
(* shifting pages and values that are published late (but within Overlap). *)
NoGap ==
  \A i \in visible \ Bad :
    /\ i.pair \in sensors
    /\ since[i.pair] <= i.at
    /\ i.at < TimeFrom
    => Recorded(i)

(* Between two cycles: if a mapped asset still lacks sensors, the next     *)
(* cycle refreshes the metrics (docs/asset_mapping.md:49-51).              *)
MappingIsNoticed ==
  pc = "idle" /\ exists /\ (\E m \in Metric \ sensors : m.asset \in mapped)
    => lastSync = NoTime

(* Every value that is published for a known sensor is stored in the end.  *)
EveryValueStored ==
  \A i \in Item \ Bad :
    (i \in visible /\ i.pair \in sensors /\ since[i.pair] <= i.at) ~> Recorded(i)
=============================================================================
