----------------------- MODULE JobQueueHealthyProofs ------------------------
(***************************************************************************)
(* Theorems about JobQueue when workers keep their deadlines (Healthy):    *)
(* crashes, restarts, exceptions, failed recoveries and MaxMisses failed   *)
(* heartbeats in a row may still happen, any number of times.              *)
(*                                                                         *)
(* The argument is about time.  A worker's clock allows misses *           *)
(* HeartbeatInterval + wait ticks since updated_at was last written; that  *)
(* never exceeds StuckMaxAge, so requeue_stuck_jobs does not take a job    *)
(* that somebody works on, so nobody else claims it, so nobody else writes *)
(* it.                                                                     *)
(***************************************************************************)
EXTENDS JobQueueProofs

InTime(w, r) == age[r] <= misses[w] * HeartbeatInterval + wait[w]

AllInTime == \A w \in Worker, r \in Request : Holds(w, r) => InTime(w, r)

Beats == \A w \in Worker : phase[w] \in Running \ {"claimed"} => beating[w]

HeldProcessing == \A w \in Worker, r \in Request : Holds(w, r) => status[r] = "processing"

RetriesWait ==
  \A h \in Handler : call[h] = "retry" =>
    /\ status[body[h]] \in Retryable
    /\ \A g \in Handler : call[g] = "retry" /\ body[g] = body[h] => g = h

HealthyInv ==
  /\ TypeOK /\ OneClaimant /\ OneWorkerPerJob
  /\ HeldProcessing /\ AllInTime /\ Beats /\ RetriesWait

LEMMA Bounds ==
  ASSUME NEW m \in 0..MaxMisses
  PROVE  /\ m * HeartbeatInterval \in Nat
         /\ (m + 1) * HeartbeatInterval = m * HeartbeatInterval + HeartbeatInterval
         /\ m * HeartbeatInterval + HeartbeatInterval <= StuckMaxAge
<1>1. m \in Nat /\ m + 1 <= MaxMisses + 1 /\ HeartbeatInterval \in Nat /\ MaxMisses \in Nat /\ StuckMaxAge \in Nat
  BY ConstantsAssumption
<1>2. /\ m * HeartbeatInterval \in Nat
      /\ (m + 1) * HeartbeatInterval = m * HeartbeatInterval + HeartbeatInterval
  BY <1>1
<1>3. (m + 1) * HeartbeatInterval <= (MaxMisses + 1) * HeartbeatInterval
  BY <1>1
<1> QED
  BY <1>1, <1>2, <1>3, TimingAssumption

LEMMA InTimeIsFresh ==
  ASSUME TypeOK, NEW w \in Worker, NEW r \in Request, InTime(w, r)
  PROVE  age[r] <= StuckMaxAge
<1>1. misses[w] \in 0..MaxMisses /\ wait[w] \in 0..HeartbeatInterval /\ age[r] \in Nat
  BY ConstantsAssumption DEF TypeOK
<1>2. /\ misses[w] * HeartbeatInterval \in Nat
      /\ misses[w] * HeartbeatInterval + HeartbeatInterval <= StuckMaxAge
  BY <1>1, Bounds
<1> QED
  BY <1>1, <1>2, ConstantsAssumption DEF InTime

-----------------------------------------------------------------------------
(* Who writes a status, who takes a job, who prepares a retry, and what a  *)
(* step does to the clock of a worker.                                     *)

LEMMA StatusChange ==
  ASSUME TypeOK, [Next]_vars, NEW r \in Request, status'[r] # status[r], Healthy
  PROVE  \/ status[r] = "none" /\ status'[r] \in {"queued", "skipped"}
         \/ \E h \in Handler : call[h] = "retry" /\ body[h] = r /\ status'[r] = "queued" /\ call'[h] = "none"
         \/ \E w \in Worker : phase[w] = "locking" /\ job[w] = r /\ Holds(w, r)' /\ status'[r] = "processing"
         \/ status[r] = "processing" /\ age[r] > StuckMaxAge
         \/ \E w \in Worker : Holds(w, r) /\ ~Holds(w, r)'
<1> USE
    DEF TypeOK, rowVars, effectVars, workerVars, handlerVars, budgetVars, Write, Holds,
        Running, Recovering
<1>1. ASSUME Tick \/ (\E h \in Handler : \E q \in Request : Submit(h, q)) \/ UNCHANGED vars
      PROVE  FALSE
  BY <1>1 DEF Tick, Submit, vars
<1>2. ASSUME NEW h \in Handler, HandlerStep(h)
      PROVE  \/ status[r] = "none" /\ status'[r] \in {"queued", "skipped"}
             \/ call[h] = "retry" /\ body[h] = r /\ status'[r] = "queued" /\ call'[h] = "none"
  BY <1>2 DEF HandlerStep, Insert, InsertConflict, Retry, HandlerFails
<1>3. ASSUME NEW w \in Worker, ClaimLock(w) \/ Heartbeat(w) \/ Restart(w) \/ StartHeartbeat(w)
      PROVE  FALSE
  BY <1>3 DEF ClaimLock, Heartbeat, Restart, StartHeartbeat, TouchRow
<1>4. ASSUME NEW w \in Worker, ClaimCommit(w)
      PROVE  phase[w] = "locking" /\ job[w] = r /\ Holds(w, r)' /\ status'[r] = "processing"
  BY <1>4 DEF ClaimCommit, Goto
<1>5. ASSUME NEW w \in Worker, RequeueStuck(w)
      PROVE  status[r] = "processing" /\ age[r] > StuckMaxAge
  BY <1>5 DEF RequeueStuck, Stuck
<1>6. ASSUME NEW w \in Worker, WorkerFault(w)
      PROVE  FALSE
  BY <1>6
     DEF WorkerFault, ClaimFails, ClaimForgotten, Escape, CommitUnacknowledged,
         RecoverFails, Crash, Healthy
<1>7. ASSUME NEW w \in Worker, ProcessJob(w) \/ Recover(w)
      PROVE  Holds(w, r) /\ ~Holds(w, r)'
  BY <1>7
     DEF ProcessJob, SyncFails, Sync, SkipWithoutOperations, PredictionFails,
         PostFails, Complete, Predict, PostAsset, PostCauses, Goto, UpdateStatus,
         Idle, Leave, Recover
<1> QED
  BY <1>1, <1>2, <1>3, <1>4, <1>5, <1>6, <1>7 DEF Next, WorkerStep

LEMMA HoldChange ==
  ASSUME TypeOK, [Next]_vars, NEW w \in Worker, NEW r \in Request, Holds(w, r)', ~Holds(w, r)
  PROVE  phase[w] = "locking" /\ job[w] = r /\ status'[r] = "processing" /\ age'[r] = 0
<1> USE ConstantsAssumption
    DEF TypeOK, rowVars, effectVars, workerVars, handlerVars, budgetVars, Write, Holds,
        Running, Recovering
<1>1. ASSUME Tick \/ (\E h \in Handler : HandlerStep(h) \/ \E q \in Request : Submit(h, q)) \/ UNCHANGED vars
      PROVE  FALSE
  BY <1>1 DEF Tick, Submit, vars, HandlerStep, Insert, InsertConflict, Retry, HandlerFails
<1>3. ASSUME NEW v \in Worker, ClaimLock(v) \/ Heartbeat(v) \/ Restart(v) \/ StartHeartbeat(v) \/ RequeueStuck(v)
      PROVE  FALSE
  BY <1>3 DEF ClaimLock, Heartbeat, Restart, StartHeartbeat, Goto, RequeueStuck
<1>4. ASSUME NEW v \in Worker, ClaimCommit(v)
      PROVE  phase[w] = "locking" /\ job[w] = r /\ status'[r] = "processing" /\ age'[r] = 0
  BY <1>4 DEF ClaimCommit, Goto
<1>6. ASSUME NEW v \in Worker, WorkerFault(v)
      PROVE  FALSE
  BY <1>6
     DEF WorkerFault, ClaimFails, ClaimForgotten, Escape, CommitUnacknowledged,
         RecoverFails, Crash, Idle, Leave, Unwind, Verdicts
<1>7. ASSUME NEW v \in Worker, ProcessJob(v) \/ Recover(v)
      PROVE  FALSE
  BY <1>7
     DEF ProcessJob, SyncFails, Sync, SkipWithoutOperations, PredictionFails,
         PostFails, Complete, Predict, PostAsset, PostCauses, Goto, UpdateStatus,
         Idle, Leave, Recover
<1> QED
  BY <1>1, <1>3, <1>4, <1>6, <1>7 DEF Next, WorkerStep

LEMMA CallChange ==
  ASSUME TypeOK, [Next]_vars, Healthy, NEW h \in Handler, call'[h] = "retry"
  PROVE  \/ call[h] = "retry" /\ body'[h] = body[h]
         \/ /\ status' = status /\ status[body'[h]] \in Retryable
            /\ \A g \in Handler \ {h} : /\ call'[g] = call[g] /\ body'[g] = body[g]
                                        /\ ~(call[g] = "retry" /\ body[g] = body'[h])
<1> USE DEF TypeOK, rowVars, effectVars, workerVars, handlerVars, budgetVars, Write
<1>1. CASE UNCHANGED handlerVars
  BY <1>1
<1>2. ASSUME NEW g \in Handler, InsertConflict(g) \/ \E r \in Request : Submit(g, r)
      PROVE  \/ call[h] = "retry" /\ body'[h] = body[h]
             \/ /\ status' = status /\ status[body'[h]] \in Retryable
                /\ \A f \in Handler \ {h} : /\ call'[f] = call[f] /\ body'[f] = body[f]
                                            /\ ~(call[f] = "retry" /\ body[f] = body'[h])
  BY <1>2 DEF Submit, InsertConflict, Reuse, Healthy
<1>3. ASSUME NEW g \in Handler, Insert(g) \/ Retry(g) \/ HandlerFails(g)
      PROVE  call[h] = "retry" /\ body'[h] = body[h]
  BY <1>3 DEF Insert, Retry, HandlerFails
<1>4. ASSUME NEW w \in Worker, WorkerFault(w) \/ RequeueStuck(w) \/ Heartbeat(w) \/ Restart(w)
      PROVE  UNCHANGED handlerVars
  BY <1>4
     DEF WorkerFault, ClaimFails, ClaimForgotten, Escape, CommitUnacknowledged,
         RecoverFails, Crash, RequeueStuck, Heartbeat, Restart
<1>5. ASSUME NEW w \in Worker, WorkerStep(w)
      PROVE  UNCHANGED handlerVars
  BY <1>5
     DEF WorkerStep, ProcessJob, SyncFails, Sync, SkipWithoutOperations,
         PredictionFails, PostFails, Complete, Predict, PostAsset, PostCauses,
         Recover, ClaimLock, ClaimCommit, StartHeartbeat
<1>6. CASE Tick \/ UNCHANGED vars
  BY <1>6, <1>1 DEF Tick, vars
<1> QED
  BY <1>1, <1>2, <1>3, <1>4, <1>5, <1>6 DEF Next, HandlerStep

HeldClock(w, r) ==
  \/ age'[r] <= age[r] /\ misses'[w] = misses[w] /\ wait'[w] = wait[w]
  \/ age'[r] = 0
  \/ age'[r] <= age[r] /\ misses[w] < MaxMisses /\ misses'[w] = misses[w] + 1 /\ wait'[w] = 0
  \/ age'[r] <= age[r] + 1 /\ misses'[w] = misses[w] /\ wait'[w] = wait[w] + 1

LEMMA ClockStep ==
  ASSUME TypeOK, [Next]_vars, Healthy, NEW w \in Worker, NEW r \in Request, Holds(w, r), Holds(w, r)',
         Beats, status[r] = "processing"
  PROVE  HeldClock(w, r)
<1> USE ConstantsAssumption
    DEF TypeOK, rowVars, effectVars, workerVars, handlerVars, budgetVars, Write, Holds,
        Running, Recovering, HeldClock
<1>1. CASE Tick
  <2>1. Timed(w)
    BY DEF Timed, Beats
  <2>2. wait[w] < HeartbeatInterval /\ wait'[w] = wait[w] + 1
    BY <2>1, <1>1 DEF Tick, Healthy, Lower
  <2>3. age'[r] <= age[r] + 1 /\ misses' = misses
    BY <1>1 DEF Tick, Lower
  <2> QED
    BY <2>2, <2>3
<1>2. CASE (\E h \in Handler : HandlerStep(h) \/ \E q \in Request : Submit(h, q)) \/ UNCHANGED vars
  BY <1>2 DEF Submit, vars, HandlerStep, Insert, InsertConflict, Retry, HandlerFails
<1>3. ASSUME NEW v \in Worker, StartHeartbeat(v) \/ Heartbeat(v)
      PROVE  HeldClock(w, r)
  BY <1>3 DEF Heartbeat, StartHeartbeat, TouchRow, MayMiss, Healthy, Lower
<1>4. ASSUME NEW v \in Worker, ClaimLock(v) \/ ClaimCommit(v) \/ Restart(v) \/ RequeueStuck(v)
      PROVE  HeldClock(w, r)
  BY <1>4 DEF ClaimLock, ClaimCommit, Restart, Goto, RequeueStuck
<1>6. ASSUME NEW v \in Worker, WorkerFault(v)
      PROVE  HeldClock(w, r)
  BY <1>6
     DEF WorkerFault, ClaimFails, ClaimForgotten, Escape, CommitUnacknowledged,
         RecoverFails, Crash, Idle, Leave, Unwind, Healthy
<1>7. ASSUME NEW v \in Worker, ProcessJob(v) \/ Recover(v)
      PROVE  HeldClock(w, r)
  BY <1>7
     DEF ProcessJob, SyncFails, Sync, SkipWithoutOperations, PredictionFails,
         PostFails, Complete, Predict, PostAsset, PostCauses, Goto, UpdateStatus,
         Idle, Leave, Recover
<1> QED
  BY <1>1, <1>2, <1>3, <1>4, <1>6, <1>7 DEF Next, WorkerStep

LEMMA BeatStep ==
  ASSUME TypeOK, [Next]_vars, Beats, HeldProcessing
  PROVE  Beats'
<1> SUFFICES ASSUME NEW w \in Worker, phase'[w] \in Running \ {"claimed"}
             PROVE  beating'[w]
  BY DEF Beats
<1> USE ConstantsAssumption
    DEF TypeOK, rowVars, effectVars, workerVars, handlerVars, budgetVars, Beats,
        Running, Recovering
<1>1. CASE Tick \/ (\E h \in Handler : HandlerStep(h) \/ \E q \in Request : Submit(h, q)) \/ UNCHANGED vars
  BY <1>1 DEF Tick, Submit, vars, HandlerStep, Insert, InsertConflict, Retry, HandlerFails
<1>2. ASSUME NEW v \in Worker, StartHeartbeat(v)
      PROVE  beating'[w]
  BY <1>2 DEF StartHeartbeat, HeldProcessing, Holds
<1>3. ASSUME NEW v \in Worker, Heartbeat(v)
      PROVE  beating'[w]
  BY <1>3 DEF Heartbeat, HeldProcessing, Holds
<1>4. ASSUME NEW v \in Worker, ClaimLock(v) \/ ClaimCommit(v) \/ Restart(v) \/ RequeueStuck(v)
      PROVE  beating'[w]
  BY <1>4 DEF ClaimLock, ClaimCommit, Restart, Goto, RequeueStuck
<1>6. ASSUME NEW v \in Worker, WorkerFault(v)
      PROVE  beating'[w]
  BY <1>6
     DEF WorkerFault, ClaimFails, ClaimForgotten, Escape, CommitUnacknowledged,
         RecoverFails, Crash, Idle, Leave, Unwind
<1>7. ASSUME NEW v \in Worker, ProcessJob(v) \/ Recover(v)
      PROVE  beating'[w]
  BY <1>7
     DEF ProcessJob, SyncFails, Sync, SkipWithoutOperations, PredictionFails,
         PostFails, Complete, Predict, PostAsset, PostCauses, Goto, UpdateStatus,
         Idle, Leave, Recover
<1> QED
  BY <1>1, <1>2, <1>3, <1>4, <1>6, <1>7 DEF Next, WorkerStep

-----------------------------------------------------------------------------
LEMMA HealthyStep ==
  ASSUME Healthy, HealthyInv, [Next]_vars
  PROVE  HealthyInv'
<1> USE DEF HealthyInv
<1>1. TypeOK'
  BY Typing
<1>2. OneClaimant'
  BY ClaimantStep
<1>3. OneWorkerPerJob'
  <2> SUFFICES ASSUME NEW v \in Worker, NEW w \in Worker, NEW r \in Request,
                      Holds(v, r)', Holds(w, r)'
               PROVE  v = w
    BY DEF OneWorkerPerJob
  <2>1. CASE Holds(v, r) /\ Holds(w, r)
    BY <2>1 DEF OneWorkerPerJob
  <2>2. CASE ~Holds(v, r) /\ ~Holds(w, r)
    BY <2>2, HoldChange DEF OneClaimant
  <2>3. ASSUME NEW x \in Worker, NEW y \in Worker, Holds(x, r), ~Holds(y, r), Holds(y, r)'
        PROVE  FALSE
    BY <2>3, HoldChange DEF OneClaimant, HeldProcessing
  <2> QED
    BY <2>1, <2>2, <2>3
<1>4. HeldProcessing'
  <2> SUFFICES ASSUME NEW w \in Worker, NEW r \in Request, Holds(w, r)', status'[r] # "processing"
               PROVE  FALSE
    BY DEF HeldProcessing
  <2>1. Holds(w, r) /\ status[r] = "processing"
    BY HoldChange DEF HeldProcessing
  <2>2. ~(age[r] > StuckMaxAge)
    BY <2>1, InTimeIsFresh, ConstantsAssumption DEF AllInTime, TypeOK
  <2>3. ~\E h \in Handler : call[h] = "retry" /\ body[h] = r
    BY <2>1 DEF RetriesWait, Retryable
  <2>4. ~\E v \in Worker : Holds(v, r) /\ ~Holds(v, r)'
    BY <2>1 DEF OneWorkerPerJob
  <2> QED
    BY <2>1, <2>2, <2>3, <2>4, StatusChange
<1>5. AllInTime'
  <2> SUFFICES ASSUME NEW w \in Worker, NEW r \in Request, Holds(w, r)'
               PROVE  InTime(w, r)'
    BY DEF AllInTime
  <2>1. /\ misses[w] \in 0..MaxMisses /\ misses'[w] \in 0..MaxMisses
        /\ wait[w] \in 0..HeartbeatInterval /\ wait'[w] \in 0..HeartbeatInterval
        /\ age[r] \in Nat /\ age'[r] \in Nat /\ HeartbeatInterval \in Nat
    BY <1>1, ConstantsAssumption DEF TypeOK
  <2>2. /\ misses[w] * HeartbeatInterval \in Nat /\ misses'[w] * HeartbeatInterval \in Nat
        /\ (misses[w] + 1) * HeartbeatInterval = misses[w] * HeartbeatInterval + HeartbeatInterval
    BY <2>1, Bounds
  <2>3. CASE ~Holds(w, r)
    BY <2>1, <2>2, <2>3, HoldChange DEF InTime
  <2>4. CASE Holds(w, r)
    <3>1. InTime(w, r) /\ status[r] = "processing"
      BY <2>4 DEF AllInTime, HeldProcessing
    <3>2. HeldClock(w, r)
      BY <2>4, <3>1, ClockStep
    <3> QED
      BY <3>1, <3>2, <2>1, <2>2 DEF InTime, HeldClock
  <2> QED
    BY <2>3, <2>4
<1>6. Beats'
  BY BeatStep
<1>7. RetriesWait'
  <2> SUFFICES ASSUME NEW h \in Handler, call'[h] = "retry"
               PROVE  /\ status'[body'[h]] \in Retryable
                      /\ \A g \in Handler : call'[g] = "retry" /\ body'[g] = body'[h] => g = h
    BY DEF RetriesWait
  <2>1. body'[h] \in Request
    BY <1>1 DEF TypeOK
  <2>2. CASE call[h] = "retry" /\ body'[h] = body[h]
    <3>1. status'[body'[h]] \in Retryable
      <4>1. status[body[h]] \in Retryable
        BY <2>2 DEF RetriesWait
      <4>2. SUFFICES ASSUME status'[body[h]] # status[body[h]] PROVE FALSE
        BY <4>1, <2>2
      <4>3. ~\E g \in Handler : call[g] = "retry" /\ body[g] = body[h] /\ call'[g] = "none"
        BY <2>2 DEF RetriesWait
      <4>4. ~\E w \in Worker : phase[w] = "locking" /\ job[w] = body[h]
        BY <4>1 DEF OneClaimant, Retryable
      <4>5. ~\E w \in Worker : Holds(w, body[h])
        BY <4>1, <2>1, <2>2 DEF HeldProcessing, Retryable
      <4> QED
        BY <4>1, <4>2, <4>3, <4>4, <4>5, <2>1, <2>2, StatusChange DEF Retryable
    <3>2. ASSUME NEW g \in Handler, call'[g] = "retry", body'[g] = body'[h], g # h
          PROVE  FALSE
      <4>1. CASE call[g] = "retry" /\ body'[g] = body[g]
        BY <4>1, <3>2, <2>2 DEF RetriesWait
      <4>2. CASE ~(call[g] = "retry" /\ body'[g] = body[g])
        BY <4>2, <3>2, <2>2, CallChange
      <4> QED
        BY <4>1, <4>2
    <3> QED
      BY <3>1, <3>2
  <2>3. CASE ~(call[h] = "retry" /\ body'[h] = body[h])
    <3>1. /\ status' = status /\ status[body'[h]] \in Retryable
          /\ \A g \in Handler \ {h} : /\ call'[g] = call[g] /\ body'[g] = body[g]
                                      /\ ~(call[g] = "retry" /\ body[g] = body'[h])
      BY <2>3, CallChange
    <3> QED
      BY <3>1
  <2> QED
    BY <2>2, <2>3
<1> QED
  BY <1>1, <1>2, <1>3, <1>4, <1>5, <1>6, <1>7

LEMMA HealthyInit == Init => HealthyInv
<1> SUFFICES ASSUME Init PROVE HealthyInv
  OBVIOUS
<1>1. TypeOK
  BY ConstantsAssumption DEF Init, TypeOK, Status, Phase
<1>2. \A w \in Worker, r \in Request : ~Holds(w, r)
  BY DEF Init, Holds, Running, Recovering
<1> QED
  BY <1>1, <1>2
     DEF Init, HealthyInv, OneClaimant, OneWorkerPerJob, HeldProcessing, AllInTime,
         Beats, RetriesWait, Running

(* Two workers never work on one job, and a job in hand reads "processing" *)
(* and is never old enough to be requeued.                                 *)
THEOREM Exclusive == ASSUME Healthy PROVE Spec => [](OneWorkerPerJob /\ HeldIsFresh)
<1>1. HealthyInv => OneWorkerPerJob /\ HeldIsFresh
  BY InTimeIsFresh DEF HealthyInv, HeldIsFresh, HeldProcessing, AllInTime
<1>2. HealthyInv /\ [Next]_vars => HealthyInv'
  BY HealthyStep
<1> QED
  BY HealthyInit, <1>1, <1>2, PTL DEF Spec

(* A job that is done or skipped stays so: no retry, requeue, recovery or  *)
(* late worker writes it again.                                            *)
THEOREM Finality == ASSUME Healthy PROVE Spec => FinalStays
<1>1. HealthyInv /\ [Next]_vars => [\A r \in Request : status[r] \in Final => status'[r] = status[r]]_vars
  <2> SUFFICES ASSUME HealthyInv, [Next]_vars, NEW r \in Request, status[r] \in Final, status'[r] # status[r]
               PROVE  FALSE
    OBVIOUS
  <2> QED
    BY StatusChange
       DEF HealthyInv, HeldProcessing, OneClaimant, RetriesWait, Final, Retryable
<1>2. HealthyInv /\ [Next]_vars => HealthyInv'
  BY HealthyStep
<1> QED
  BY HealthyInit, <1>1, <1>2, PTL DEF Spec, FinalStays

-----------------------------------------------------------------------------
(* JobQueue implements JobLifecycle.                                       *)

Holders == [r \in Request |-> {w \in Worker : Holds(w, r)}]

LEMMA SameHolders ==
  ASSUME \A w \in Worker, r \in Request : Holds(w, r)' <=> Holds(w, r)
  PROVE  Holders' = Holders
BY DEF Holders

LEMMA HoldersOf ==
  ASSUME HealthyInv, NEW w \in Worker, NEW r \in Request, Holds(w, r)
  PROVE  Holders[r] = {w} /\ status[r] = "processing"
BY DEF Holders, HealthyInv, OneWorkerPerJob, HeldProcessing

LEMMA Released ==
  ASSUME HealthyInv, NEW w \in Worker, NEW r \in Request, Holds(w, r), ~Holds(w, r)',
         \A v \in Worker, q \in Request : v # w => (Holds(v, q)' <=> Holds(v, q)),
         \A q \in Request : q # r => ~Holds(w, q)'
  PROVE  Holders' = [Holders EXCEPT ![r] = {}]
<1>1. ASSUME NEW q \in Request
      PROVE  Holders'[q] = IF q = r THEN {} ELSE Holders[q]
  <2>1. CASE q = r
    BY <2>1 DEF Holders, HealthyInv, OneWorkerPerJob
  <2>2. CASE q # r
    <3>1. ~Holds(w, q)
      BY <2>2 DEF Holds
    <3> QED
      BY <2>2, <3>1 DEF Holders
  <2> QED
    BY <2>1, <2>2
<1> QED
  BY <1>1 DEF Holders

LEMMA StepRefines ==
  ASSUME Healthy, HealthyInv, HealthyInv', [Next]_vars
  PROVE  [Lifecycle!Next]_(Lifecycle!vars)
<1> DEFINE Goal == Lifecycle!Next \/ (status' = status /\ Holders' = Holders)
<1>0. SUFFICES Goal
  BY DEF Lifecycle!vars, Holders
<1> HIDE DEF Goal
<1> USE DEF rowVars, effectVars, workerVars, handlerVars, budgetVars
<1>1. TypeOK /\ TypeOK'
  BY DEF HealthyInv
<1>2. ASSUME status' = status, phase' = phase, job' = job
      PROVE  Goal
  BY <1>2, SameHolders DEF Goal, Holds
<1>3. ASSUME NEW h \in Handler, Insert(h)
      PROVE  Goal
  <2>1. body[h] \in Request /\ Holders' = Holders
    BY <1>1, <1>3, SameHolders DEF Insert, TypeOK, Holds
  <2>2. Lifecycle!Accept(body[h])
    BY <2>1, <1>3 DEF Insert, Lifecycle!Accept, Holders
  <2> QED
    BY <2>1, <2>2 DEF Goal, Lifecycle!Next
<1>4. ASSUME NEW h \in Handler, Retry(h)
      PROVE  Goal
  <2>1. body[h] \in Request /\ Holders' = Holders /\ status[body[h]] \in Retryable
    BY <1>1, <1>4, SameHolders DEF Retry, TypeOK, Holds, HealthyInv, RetriesWait
  <2>2. Lifecycle!Retry(body[h])
    BY <2>1, <1>4
       DEF Retry, Write, Lifecycle!Retry, Lifecycle!Retryable, Retryable, Holders
  <2> QED
    BY <2>1, <2>2 DEF Goal, Lifecycle!Next
<1>5. ASSUME NEW w \in Worker, RequeueStuck(w)
      PROVE  Goal
  <2>1. Holders' = Holders
    BY <1>5, SameHolders DEF RequeueStuck, Holds
  <2>2. \A r \in Stuck : status[r] = "processing" /\ Holders[r] = {}
    BY InTimeIsFresh, ConstantsAssumption, <1>1
       DEF Stuck, Holders, HealthyInv, AllInTime, TypeOK
  <2>3. Lifecycle!Reclaim(Stuck)
    BY <2>1, <2>2, <1>5 DEF RequeueStuck, Lifecycle!Reclaim, Holders
  <2> QED
    BY <2>3 DEF Goal, Lifecycle!Next, Stuck
<1>6. ASSUME NEW w \in Worker, ClaimCommit(w)
      PROVE  Goal
  <2> DEFINE r == job[w]
  <2>1. r \in Request /\ status[r] = "queued" /\ \A q \in Request : ~Holds(w, q)
    BY <1>1, <1>6
       DEF ClaimCommit, TypeOK, HealthyInv, OneClaimant, Holds, Running, Recovering
  <2>2. \A v \in Worker : ~Holds(v, r)
    BY <2>1 DEF HealthyInv, HeldProcessing
  <2>3. \A v \in Worker, q \in Request : Holds(v, q)' <=> Holds(v, q) \/ (v = w /\ q = r)
    BY <1>1, <1>6, <2>1 DEF ClaimCommit, Goto, Holds, Running, TypeOK
  <2>4. Holders' = [Holders EXCEPT ![r] = {w}]
    <3>1. ASSUME NEW q \in Request
          PROVE  {v \in Worker : Holds(v, q)'} = IF q = job[w] THEN {w} ELSE {v \in Worker : Holds(v, q)}
      BY <2>2, <2>3
    <3> QED
      BY <3>1, <2>1 DEF Holders
  <2>5. Lifecycle!Claim(w, r)
    BY <2>1, <2>2, <2>4, <1>6 DEF ClaimCommit, Write, Lifecycle!Claim, Holders
  <2> QED
    BY <2>1, <2>5 DEF Goal, Lifecycle!Next
<1>7. ASSUME NEW w \in Worker, NEW r \in Request, Holds(w, r), Idle(w) \/ Leave(w, "down"), 
             status' = status \/ \E s \in Status \ {"none", "processing"} : Write(r, s)
      PROVE  Goal
  <2>1. /\ ~Holds(w, r)' /\ \A q \in Request : q # r => ~Holds(w, q)'
        /\ \A v \in Worker, q \in Request : v # w => (Holds(v, q)' <=> Holds(v, q))
    BY <1>1, <1>7, ConstantsAssumption DEF Idle, Leave, Holds, TypeOK
  <2>2. Holders' = [Holders EXCEPT ![r] = {}]
    BY <1>7, <2>1, Released
  <2>3. Holders[r] = {w} /\ status[r] = "processing"
    BY <1>7, HoldersOf
  <2>4. Lifecycle!Abandon(w, r) \/ Lifecycle!Settle(w, r)
    BY <1>7, <2>2, <2>3
       DEF Write, Lifecycle!Abandon, Lifecycle!Settle, Holders, Lifecycle!Result,
           Status, Final, Retryable
  <2> QED
    BY <2>4 DEF Goal, Lifecycle!Next
<1>8. ASSUME NEW w \in Worker, ~(phase[w] \in Running \cup Recovering), 
             phase'[w] \notin Running \cup Recovering,
             \A v \in Worker : v # w => phase'[v] = phase[v] /\ job'[v] = job[v],
             status' = status
      PROVE  Goal
  BY <1>8, SameHolders DEF Goal, Holds
<1>9. ASSUME NEW w \in Worker, WorkerFault(w)
      PROVE  Goal
  <2>1. CASE ClaimFails(w)
    BY <2>1, <1>8, <1>1 DEF ClaimFails, Idle, Leave, Running, Recovering, TypeOK
  <2>2. CASE (ClaimForgotten(w) \/ RecoverFails(w) \/ Crash(w)) /\ phase[w] \in Running \cup Recovering
    <3>1. job[w] \in Request /\ Holds(w, job[w])
      BY <1>1, <2>2 DEF Holds, TypeOK, Running, Recovering
    <3> QED
      BY <3>1, <2>2, <1>7 DEF ClaimForgotten, RecoverFails, Crash
  <2>3. CASE Crash(w) /\ phase[w] \notin Running \cup Recovering
    BY <2>3, <1>8, <1>1 DEF Crash, Leave, Running, Recovering, TypeOK
  <2>4. CASE Escape(w)
    BY <2>4, <1>1, SameHolders DEF Escape, Unwind, Goal, Holds, TypeOK
  <2>5. ~CommitUnacknowledged(w)
    BY DEF CommitUnacknowledged, Healthy
  <2>6. ClaimForgotten(w) \/ RecoverFails(w) => phase[w] \in Running \cup Recovering
    BY DEF ClaimForgotten, RecoverFails, Running
  <2> QED
    BY <1>9, <2>1, <2>2, <2>3, <2>4, <2>5, <2>6 DEF WorkerFault
<1>10. ASSUME NEW w \in Worker, WorkerStep(w)
       PROVE  Goal
  <2>1. CASE ClaimLock(w)
    BY <2>1, <1>8, <1>1 DEF ClaimLock, Running, Recovering, TypeOK
  <2>2. CASE StartHeartbeat(w)
    BY <2>2, <1>1, SameHolders DEF StartHeartbeat, TouchRow, Goal, Holds, TypeOK, Running
  <2>3. CASE Sync(w) \/ Predict(w) \/ PostAsset(w) \/ PostCauses(w)
    BY <2>3, <1>1, SameHolders
       DEF Sync, Predict, PostAsset, PostCauses, Goto, Goal, Holds, TypeOK, Running
  <2>4. CASE SyncFails(w) \/ SkipWithoutOperations(w) \/ PredictionFails(w) \/ PostFails(w) \/ Complete(w)
             \/ Recover(w)
    <3>1. job[w] \in Request /\ Holds(w, job[w])
      BY <1>1, <2>4
         DEF Holds, TypeOK, Running, Recovering, SyncFails, SkipWithoutOperations,
             PredictionFails, PostFails, Complete, Recover
    <3>2. Idle(w) /\ \E s \in Status \ {"none", "processing"} : Write(job[w], s)
      BY <2>4
         DEF SyncFails, SkipWithoutOperations, PredictionFails, PostFails,
             Complete, Recover, UpdateStatus, Status, Final, Retryable
    <3> QED
      BY <3>1, <3>2, <1>7
  <2> QED
    BY <1>10, <2>1, <2>2, <2>3, <2>4, <1>6 DEF WorkerStep, ProcessJob
<1>11. ASSUME NEW w \in Worker, Heartbeat(w)
       PROVE  Goal
  BY <1>11, <1>2 DEF Heartbeat, TouchRow
<1>12. ASSUME NEW w \in Worker, Restart(w)
       PROVE  Goal
  BY <1>12, <1>8, <1>1 DEF Restart, Goto, Running, Recovering, TypeOK
<1>13. ASSUME NEW h \in Handler, InsertConflict(h) \/ HandlerFails(h) \/ \E r \in Request : Submit(h, r)
       PROVE  Goal
  BY <1>13, <1>2 DEF InsertConflict, HandlerFails, Submit
<1>14. CASE Tick \/ UNCHANGED vars
  BY <1>14, <1>2 DEF Tick, vars
<1> QED
  BY <1>3, <1>4, <1>5, <1>9, <1>10, <1>11, <1>12, <1>13, <1>14 DEF Next, HandlerStep

(* Every step of the queue is a step of JobLifecycle or changes neither a  *)
(* status nor a holder: a job in hand is written by its holder alone, and  *)
(* only abandoned jobs are requeued.                                       *)
THEOREM Refinement == ASSUME Healthy PROVE Spec => ImplementsLifecycle
<1>1. Init => Lifecycle!Init
  BY DEF Init, Lifecycle!Init, Holds, Running, Recovering
<1>2. HealthyInv /\ HealthyInv' /\ [Next]_vars => [Lifecycle!Next]_(Lifecycle!vars)
  BY StepRefines
<1>3. HealthyInv /\ [Next]_vars => HealthyInv'
  BY HealthyStep
<1> QED
  BY HealthyInit, <1>1, <1>2, <1>3, PTL DEF Spec, ImplementsLifecycle, Lifecycle!Spec

-----------------------------------------------------------------------------
(* Why a job is predicted more than once.                                  *)

(* A job that can still be predicted once has not used up its first        *)
(* prediction, or a fault or a retry has paid for the next one.            *)
BeforePrediction == {"claimed", "started", "synced"} \cup Recovering

Unspent(r) ==
  \/ status[r] \in {"none", "queued"}
  \/ /\ status[r] = "processing"
     /\ \A w \in Worker : Holds(w, r) => phase[w] \in BeforePrediction

Accounts ==
  \A r \in Request : /\ stored[r] <= 1 + faults + retries
                     /\ Unspent(r) => stored[r] <= faults + retries

LEMMA AccountsStep ==
  ASSUME Healthy, HealthyInv, HealthyInv', Accounts, [Next]_vars
  PROVE  Accounts'
<1> DEFINE Goal(r) == /\ stored'[r] <= 1 + faults' + retries'
                      /\ Unspent(r)' => stored'[r] <= faults' + retries'
<1> SUFFICES ASSUME NEW r \in Request PROVE Goal(r)
  BY DEF Accounts
<1> HIDE DEF Goal
<1> USE DEF rowVars, effectVars, workerVars, handlerVars, budgetVars
<1>1. /\ TypeOK /\ TypeOK'
      /\ stored[r] \in Nat /\ stored'[r] \in Nat
      /\ faults \in Nat /\ retries \in Nat /\ faults' \in Nat /\ retries' \in Nat
  BY ConstantsAssumption DEF HealthyInv, TypeOK
<1>2. stored[r] <= 1 + faults + retries /\ (Unspent(r) => stored[r] <= faults + retries)
  BY DEF Accounts
<1>3. ASSUME stored'[r] = stored[r],
             \/ faults' = faults + 1 /\ retries' = retries
             \/ faults' = faults /\ retries' = retries + 1
             \/ faults' = faults /\ retries' = retries /\ (Unspent(r)' => Unspent(r))
      PROVE  Goal(r)
  <2>1. CASE faults' = faults + 1 /\ retries' = retries
    BY <1>1, <1>2, <1>3, <2>1 DEF Goal
  <2>2. CASE faults' = faults /\ retries' = retries + 1
    BY <1>1, <1>2, <1>3, <2>2 DEF Goal
  <2>3. CASE faults' = faults /\ retries' = retries /\ (Unspent(r)' => Unspent(r))
    BY <1>1, <1>2, <1>3, <2>3 DEF Goal
  <2> QED
    BY <1>3, <2>1, <2>2, <2>3
<1>4. ASSUME stored'[r] <= stored[r] + 1, Unspent(r), ~Unspent(r)', faults' = faults, retries' = retries
      PROVE  Goal(r)
  BY <1>1, <1>2, <1>4 DEF Goal
<1>5. ASSUME NEW w \in Worker, Holds(w, r), phase[w] \in BeforePrediction
      PROVE  Unspent(r)
  <2>1. status[r] = "processing" /\ \A v \in Worker : Holds(v, r) => v = w
    BY <1>5 DEF HealthyInv, HeldProcessing, OneWorkerPerJob
  <2> QED
    BY <1>5, <2>1 DEF Unspent
<1>6. CASE status' = status /\ phase' = phase /\ job' = job /\ stored' = stored /\ UNCHANGED budgetVars
  BY <1>1, <1>3, <1>6 DEF Unspent, Holds
<1>7. ASSUME NEW h \in Handler, Insert(h)
      PROVE  Goal(r)
  <2>1. stored' = stored /\ job' = job /\ phase' = phase /\ UNCHANGED budgetVars
    BY <1>7 DEF Insert
  <2>2. Unspent(r)' => Unspent(r)
    BY <1>1, <1>7, <2>1 DEF Insert, Unspent, Holds, TypeOK
  <2> QED
    BY <1>1, <1>3, <2>1, <2>2
<1>20. ASSUME NEW h \in Handler, Retry(h)
       PROVE  Goal(r)
  <2>1. stored' = stored /\ retries' = retries + 1 /\ faults' = faults
    BY <1>20 DEF Retry
  <2> QED
    BY <1>1, <1>3, <2>1
<1>8. ASSUME NEW w \in Worker, RequeueStuck(w)
      PROVE  Goal(r)
  <2>1. r \in Stuck => Unspent(r)
    BY InTimeIsFresh, ConstantsAssumption, <1>1
       DEF Stuck, Unspent, HealthyInv, AllInTime, TypeOK
  <2>2. r \notin Stuck => (Unspent(r)' => Unspent(r))
    BY <1>8 DEF RequeueStuck, Unspent, Holds
  <2> QED
    BY <1>1, <1>3, <1>8, <2>1, <2>2 DEF RequeueStuck
<1>9. ASSUME NEW w \in Worker, WorkerFault(w)
      PROVE  Goal(r)
  <2>1. stored' = stored /\ retries' = retries /\ faults' = faults + 1
    BY <1>9
       DEF WorkerFault, ClaimFails, ClaimForgotten, Escape, CommitUnacknowledged,
           RecoverFails, Crash, Fault, Healthy
  <2> QED
    BY <1>1, <1>3, <2>1
<1>10. ASSUME NEW w \in Worker, ClaimLock(w) \/ Restart(w)
       PROVE  Goal(r)
  <2>1. stored' = stored /\ status' = status /\ UNCHANGED budgetVars
    BY <1>10 DEF ClaimLock, Restart, Goto
  <2>2. \A v \in Worker : Holds(v, r) => Holds(v, r)' /\ phase'[v] = phase[v]
    BY <1>1, <1>10 DEF ClaimLock, Restart, Goto, Holds, Running, Recovering, TypeOK
  <2> QED
    BY <1>1, <1>3, <2>1, <2>2 DEF Unspent
<1>11. ASSUME NEW w \in Worker, ClaimCommit(w)
       PROVE  Goal(r)
  <2>1. job[w] \in Request /\ status[job[w]] = "queued"
    BY <1>11 DEF ClaimCommit, HealthyInv, OneClaimant, TypeOK
  <2>2. CASE r = job[w]
    BY <1>1, <1>3, <1>11, <2>1, <2>2 DEF ClaimCommit, Unspent
  <2>3. CASE r # job[w]
    <3>1. status'[r] = status[r] /\ \A v \in Worker : Holds(v, r) => Holds(v, r)' /\ phase'[v] = phase[v]
      BY <1>1, <1>11, <2>3 DEF ClaimCommit, Write, Goto, Holds, TypeOK
    <3> QED
      BY <1>1, <1>3, <1>11, <3>1 DEF ClaimCommit, Unspent
  <2> QED
    BY <2>2, <2>3
<1>12. ASSUME NEW w \in Worker, StartHeartbeat(w) \/ Sync(w)
       PROVE  Goal(r)
  <2>1. status' = status /\ stored' = stored /\ job' = job /\ UNCHANGED budgetVars
    BY <1>12 DEF StartHeartbeat, Sync, Goto, TouchRow
  <2>2. phase[w] \in {"claimed", "started"} /\ \A v \in Worker : v # w => phase'[v] = phase[v]
    BY <1>1, <1>12 DEF StartHeartbeat, Sync, Goto, TypeOK
  <2>3. \A v \in Worker : Holds(v, r) => (Holds(v, r)' /\ (phase'[v] \in BeforePrediction => phase[v] \in BeforePrediction))
    BY <1>1, <1>12, <2>1, <2>2
       DEF StartHeartbeat, Sync, Goto, Holds, Running, BeforePrediction, TypeOK
  <2> QED
    BY <1>1, <1>3, <2>1, <2>3 DEF Unspent
<1>13. ASSUME NEW w \in Worker, PostAsset(w) \/ PostCauses(w)
       PROVE  Goal(r)
  <2>1. \A v \in Worker : Holds(v, r) => (Holds(v, r)' /\ (phase'[v] \in BeforePrediction => phase[v] \in BeforePrediction))
    BY <1>1, <1>13
       DEF PostAsset, PostCauses, Goto, Holds, Running, BeforePrediction,
           Recovering, TypeOK
  <2> QED
    BY <1>1, <1>3, <1>13, <2>1 DEF PostAsset, PostCauses, Goto, Unspent
<1>14. ASSUME NEW w \in Worker, Predict(w)
       PROVE  Goal(r)
  <2>1. job[w] \in Request /\ Holds(w, job[w]) /\ status[job[w]] = "processing"
    BY <1>1, <1>14 DEF Predict, TypeOK, Holds, Running, HealthyInv, HeldProcessing
  <2>2. CASE r = job[w]
    <3>1. Unspent(r)
      BY <1>5, <1>14, <2>1, <2>2 DEF Predict, BeforePrediction
    <3>2. ~Unspent(r)'
      BY <1>1, <1>14, <2>1, <2>2
         DEF Predict, Unspent, Holds, BeforePrediction, Running, Recovering,
             TypeOK
    <3> QED
      BY <1>1, <1>4, <1>14, <2>2, <3>1, <3>2 DEF Predict, TypeOK
  <2>3. CASE r # job[w]
    BY <1>1, <1>3, <1>14, <2>3 DEF Predict, Unspent, Holds, TypeOK
  <2> QED
    BY <2>2, <2>3
<1>15. ASSUME NEW w \in Worker, job[w] \in Request, Holds(w, job[w]), Idle(w), r # job[w],
              \E s \in Status : Write(job[w], s), stored'[r] = stored[r], UNCHANGED budgetVars
       PROVE  Goal(r)
  <2>1. status'[r] = status[r] /\ \A v \in Worker : Holds(v, r) => Holds(v, r)' /\ phase'[v] = phase[v]
    BY <1>1, <1>15 DEF Idle, Leave, Write, Holds, TypeOK
  <2> QED
    BY <1>1, <1>3, <1>15, <2>1 DEF Unspent
<1>16. ASSUME NEW w \in Worker,
              SyncFails(w) \/ SkipWithoutOperations(w) \/ PredictionFails(w) \/ PostFails(w) \/ Complete(w) \/ Recover(w)
       PROVE  Goal(r)
  <2>1. job[w] \in Request /\ Holds(w, job[w])
    BY <1>1, <1>16
       DEF Holds, TypeOK, Running, Recovering, SyncFails, SkipWithoutOperations,
           PredictionFails, PostFails, Complete, Recover
  <2>2. Idle(w) /\ (\E s \in Status : Write(job[w], s)) /\ UNCHANGED budgetVars
    BY <1>16
       DEF SyncFails, SkipWithoutOperations, PredictionFails, PostFails, Complete,
           Recover, UpdateStatus, Status, Final, Retryable
  <2>3. CASE r # job[w]
    <3>1. stored'[r] = stored[r]
      BY <1>1, <1>16, <2>3
         DEF SyncFails, SkipWithoutOperations, PredictionFails, PostFails,
             Complete, Recover, TypeOK
    <3> QED
      BY <1>15, <2>1, <2>2, <2>3, <3>1
  <2>4. CASE r = job[w] /\ Recover(w)
    <3>1. Unspent(r)
      BY <1>5, <2>1, <2>4 DEF Recover, BeforePrediction
    <3> QED
      BY <1>1, <1>3, <2>4, <3>1 DEF Recover
  <2>5. CASE r = job[w] /\ ~Recover(w)
    <3>1. status'[r] \in Final \cup Retryable
      BY <1>1, <1>16, <2>5
         DEF SyncFails, SkipWithoutOperations, PredictionFails, PostFails,
             Complete, Recover, UpdateStatus, Write, Final, Retryable, TypeOK
    <3>2. ~Unspent(r)'
      BY <3>1 DEF Unspent, Final, Retryable
    <3>3. CASE PredictionFails(w)
      <4>1. Unspent(r)
        BY <1>5, <2>1, <2>5, <3>3 DEF PredictionFails, BeforePrediction
      <4> QED
        BY <1>1, <1>4, <2>5, <3>2, <3>3, <4>1 DEF PredictionFails, TypeOK
    <3>4. CASE ~PredictionFails(w)
      <4>1. stored' = stored
        BY <1>16, <2>5, <3>4 DEF SyncFails, SkipWithoutOperations, PostFails, Complete
      <4> QED
        BY <1>1, <1>3, <2>2, <3>2, <4>1
    <3> QED
      BY <3>3, <3>4
  <2> QED
    BY <2>3, <2>4, <2>5
<1>17. ASSUME NEW w \in Worker, Heartbeat(w)
       PROVE  Goal(r)
  BY <1>6, <1>17 DEF Heartbeat, TouchRow
<1>18. ASSUME NEW h \in Handler, InsertConflict(h) \/ HandlerFails(h) \/ \E q \in Request : Submit(h, q)
       PROVE  Goal(r)
  BY <1>18, <1>6 DEF InsertConflict, HandlerFails, Submit
<1>19. CASE Tick \/ UNCHANGED vars
  BY <1>19, <1>6 DEF Tick, vars
<1> QED
  BY <1>7, <1>20, <1>8, <1>9, <1>10, <1>11, <1>12, <1>13, <1>14, <1>16, <1>17, <1>18,
     <1>19
     DEF Next, HandlerStep, WorkerStep, ProcessJob

(* The predictions of a job after its first are at most as many as the     *)
(* faults and retries so far.                                              *)
THEOREM Explained == ASSUME Healthy PROVE Spec => []PredictionsAreExplained
<1>1. Init => Accounts
  BY DEF Init, Accounts
<1>2. HealthyInv /\ HealthyInv' /\ Accounts /\ [Next]_vars => Accounts'
  BY AccountsStep
<1>3. HealthyInv /\ [Next]_vars => HealthyInv'
  BY HealthyStep
<1>4. Accounts => PredictionsAreExplained
  BY DEF Accounts, PredictionsAreExplained
<1> QED
  BY HealthyInit, <1>1, <1>2, <1>3, <1>4, PTL DEF Spec
=============================================================================
