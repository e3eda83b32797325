--------------------------- MODULE JobQueueProofs ---------------------------
(***************************************************************************)
(* Theorems about JobQueue that hold whatever faults occur: the type       *)
(* invariant, the exclusive claim, what "done" means, and what is never    *)
(* predicted.                                                              *)
(***************************************************************************)
EXTENDS JobQueue, TLAPS

LEMMA TypeInit == Init => TypeOK
  BY ConstantsAssumption DEF Init, TypeOK, Status, Phase

LEMMA Typing == TypeOK /\ [Next]_vars => TypeOK'
<1> SUFFICES ASSUME TypeOK, [Next]_vars PROVE TypeOK'
  OBVIOUS
<1> USE ConstantsAssumption
    DEF TypeOK, Status, Final, Retryable, Phase, Running, Recovering, rowVars,
        effectVars, workerVars, handlerVars, budgetVars
<1>1. CASE UNCHANGED vars
  BY <1>1 DEF vars
<1>2. CASE Tick
  BY <1>2 DEF Tick, Lower
<1>3. ASSUME NEW h \in Handler, NEW r \in Request, Submit(h, r) PROVE TypeOK'
  BY <1>3 DEF Submit, Reuse
<1>4. ASSUME NEW h \in Handler, Insert(h) PROVE TypeOK'
  BY <1>4 DEF Insert
<1>5. ASSUME NEW h \in Handler, InsertConflict(h) PROVE TypeOK'
  BY <1>5 DEF InsertConflict, Reuse
<1>6. ASSUME NEW h \in Handler, Retry(h) PROVE TypeOK'
  BY <1>6 DEF Retry, Write
<1>7. ASSUME NEW h \in Handler, HandlerFails(h) PROVE TypeOK'
  BY <1>7 DEF HandlerFails
<1>8. ASSUME NEW w \in Worker, RequeueStuck(w) PROVE TypeOK'
  BY <1>8 DEF RequeueStuck, Stuck
<1>9. ASSUME NEW w \in Worker, ClaimLock(w) PROVE TypeOK'
  BY <1>9 DEF ClaimLock
<1>10. ASSUME NEW w \in Worker, ClaimCommit(w) PROVE TypeOK'
  BY <1>10 DEF ClaimCommit, Write, Goto
<1>11. ASSUME NEW w \in Worker, ClaimFails(w) PROVE TypeOK'
  BY <1>11 DEF ClaimFails, Idle, Leave, Fault
<1>12. ASSUME NEW w \in Worker, ClaimForgotten(w) PROVE TypeOK'
  BY <1>12 DEF ClaimForgotten, Idle, Leave, Fault
<1>13. ASSUME NEW w \in Worker, SyncFails(w) PROVE TypeOK'
  BY <1>13 DEF SyncFails, UpdateStatus, Write, Idle, Leave
<1>14. ASSUME NEW w \in Worker, Sync(w) PROVE TypeOK'
  BY <1>14 DEF Sync, Goto
<1>15. ASSUME NEW w \in Worker, SkipWithoutOperations(w) PROVE TypeOK'
  BY <1>15 DEF SkipWithoutOperations, UpdateStatus, Write, Idle, Leave
<1>16. ASSUME NEW w \in Worker, Predict(w) PROVE TypeOK'
  BY <1>16 DEF Predict
<1>17. ASSUME NEW w \in Worker, PredictionFails(w) PROVE TypeOK'
  BY <1>17 DEF PredictionFails, UpdateStatus, Write, Idle, Leave
<1>18. ASSUME NEW w \in Worker, PostAsset(w) PROVE TypeOK'
  BY <1>18 DEF PostAsset, Send, Packet, Message, Goto
<1>19. ASSUME NEW w \in Worker, PostCauses(w) PROVE TypeOK'
  BY <1>19 DEF PostCauses, Send, Packet, Message, Goto
<1>20. ASSUME NEW w \in Worker, PostFails(w) PROVE TypeOK'
  BY <1>20 DEF PostFails, Send, Packet, Message, UpdateStatus, Write, Idle, Leave
<1>21. ASSUME NEW w \in Worker, Complete(w) PROVE TypeOK'
  BY <1>21 DEF Complete, UpdateStatus, Write, Idle, Leave
<1>22. ASSUME NEW w \in Worker, Escape(w) PROVE TypeOK'
  BY <1>22 DEF Escape, Fault, Unwind
<1>23. ASSUME NEW w \in Worker, CommitUnacknowledged(w) PROVE TypeOK'
  BY <1>23 DEF CommitUnacknowledged, Fault, Verdicts, Write, Unwind
<1>24. ASSUME NEW w \in Worker, Recover(w) PROVE TypeOK'
  BY <1>24 DEF Recover, UpdateStatus, Write, Idle, Leave
<1>25. ASSUME NEW w \in Worker, RecoverFails(w) PROVE TypeOK'
  BY <1>25 DEF RecoverFails, Fault, Idle, Leave
<1>26. ASSUME NEW w \in Worker, Crash(w) PROVE TypeOK'
  BY <1>26 DEF Crash, Fault, Leave
<1>27. ASSUME NEW w \in Worker, Restart(w) PROVE TypeOK'
  BY <1>27 DEF Restart, Goto
<1>28. ASSUME NEW w \in Worker, StartHeartbeat(w) PROVE TypeOK'
  <2>1. age' \in [Request -> 0..(StuckMaxAge + 1)] /\ UNCHANGED <<status, older>>
    BY <1>28 DEF StartHeartbeat, TouchRow
  <2>2. misses' \in [Worker -> 0..MaxMisses]
    BY <1>28 DEF StartHeartbeat, Lower
  <2>3. beating' \in [Worker -> BOOLEAN]
    BY <1>28 DEF StartHeartbeat
  <2>4. wait' \in [Worker -> 0..HeartbeatInterval]
    BY <1>28 DEF StartHeartbeat
  <2>5. phase[w] = "claimed" /\ phase' = [phase EXCEPT ![w] = "started"]
    BY <1>28 DEF StartHeartbeat
  <2>6. UNCHANGED <<effectVars, job, prediction, handlerVars, budgetVars>>
    BY <1>28 DEF StartHeartbeat
  <2> QED
    BY <2>1, <2>2, <2>3, <2>4, <2>5, <2>6
<1>29. ASSUME NEW w \in Worker, Heartbeat(w) PROVE TypeOK'
  <2>1. age' \in [Request -> 0..(StuckMaxAge + 1)] /\ UNCHANGED <<status, older>>
    BY <1>29 DEF Heartbeat, TouchRow
  <2>2. misses' \in [Worker -> 0..MaxMisses]
    BY <1>29 DEF Heartbeat, Lower
  <2>3. beating' \in [Worker -> BOOLEAN]
    BY <1>29 DEF Heartbeat
  <2>4. wait' \in [Worker -> 0..HeartbeatInterval]
    BY <1>29 DEF Heartbeat
  <2>5. UNCHANGED <<effectVars, phase, job, prediction, handlerVars, budgetVars>>
    BY <1>29 DEF Heartbeat
  <2> QED
    BY <2>1, <2>2, <2>3, <2>4, <2>5
<1> QED
  BY <1>1, <1>2, <1>3, <1>4, <1>5, <1>6, <1>7, <1>8, <1>9, <1>10, <1>11, <1>12, <1>13,
     <1>14, <1>15, <1>16, <1>17, <1>18, <1>19, <1>20, <1>21, <1>22, <1>23, <1>24,
     <1>25, <1>26, <1>27, <1>28, <1>29
     DEF Next, HandlerStep, ProcessJob, WorkerStep, WorkerFault

(* The variables of the queue keep their types: no write, crash or retry   *)
(* leaves a worker without the job its phase needs, or with one it dropped.*)
THEOREM TypeCorrect == Spec => []TypeOK
<1> QED
  BY TypeInit, Typing, PTL DEF Spec

-----------------------------------------------------------------------------
(* claim_one_job: FOR UPDATE SKIP LOCKED.                                  *)

(* A row whose lock is held is only written by the worker that holds it.   *)
LEMMA ClaimantStep ==
  ASSUME TypeOK, OneClaimant, [Next]_vars
  PROVE  OneClaimant'
<1> USE
    DEF TypeOK, OneClaimant, rowVars, effectVars, workerVars, handlerVars, budgetVars,
        Write
<1>1. ASSUME Tick \/ (\E h \in Handler : \E q \in Request : Submit(h, q)) \/ UNCHANGED vars
      PROVE  OneClaimant'
  BY <1>1 DEF Tick, Submit, vars
<1>2. ASSUME NEW h \in Handler, HandlerStep(h)
      PROVE  OneClaimant'
  BY <1>2 DEF HandlerStep, Insert, InsertConflict, Retry, HandlerFails, Unlocked
<1>3. ASSUME NEW w \in Worker, ClaimLock(w)
      PROVE  OneClaimant'
  BY <1>3 DEF ClaimLock, Free, Unlocked
<1>4. ASSUME NEW w \in Worker, ClaimCommit(w)
      PROVE  OneClaimant'
  BY <1>4 DEF ClaimCommit, Goto
<1>5. ASSUME NEW w \in Worker, RequeueStuck(w) \/ Heartbeat(w) \/ Restart(w) \/ StartHeartbeat(w)
      PROVE  OneClaimant'
  BY <1>5 DEF RequeueStuck, Heartbeat, Restart, Goto, StartHeartbeat, TouchRow, Stuck
<1>6. ASSUME NEW w \in Worker, WorkerFault(w) \/ Recover(w)
      PROVE  OneClaimant'
  BY <1>6
     DEF WorkerFault, ClaimFails, ClaimForgotten, Escape, CommitUnacknowledged,
         RecoverFails, Crash, Recover, UpdateStatus, Idle, Leave, Unwind, Recovering,
         Unlocked
<1>7. ASSUME NEW w \in Worker, ProcessJob(w)
      PROVE  OneClaimant'
  BY <1>7
     DEF ProcessJob, SyncFails, Sync, SkipWithoutOperations, PredictionFails,
         PostFails, Complete, Predict, PostAsset, PostCauses, Goto, UpdateStatus,
         Idle, Leave, Unlocked
<1> QED
  BY <1>1, <1>2, <1>3, <1>4, <1>5, <1>6, <1>7 DEF Next, WorkerStep

(* Two workers never have the same row locked, and a locked row is queued, *)
(* whatever faults occur: the docstring of claim_one_job.                  *)
THEOREM Claimants == Spec => []OneClaimant
<1>1. Init => OneClaimant
  BY DEF Init, OneClaimant
<1>2. TypeOK /\ OneClaimant /\ [Next]_vars => OneClaimant'
  BY ClaimantStep
<1> QED
  BY TypeCorrect, <1>1, <1>2, PTL DEF Spec

-----------------------------------------------------------------------------
(* process_job: the two POSTs come before "done".                          *)

(* The phases of process_job in which a prediction is at hand, and what    *)
(* the worker has already sent in each of them.                            *)
Deliverable == {"predicted", "half_posted", "posted"}

WorkersDeliver ==
  \A w \in Worker :
    /\ phase[w] \in Deliverable => prediction[w] \in 1..stored[job[w]]
    /\ phase[w] \in {"half_posted", "posted"} => Packet(w, "asset") \in received
    /\ phase[w] = "posted" => Packet(w, "causes") \in received

DeliveryInv == TypeOK /\ WorkersDeliver /\ CausesFollowAsset /\ DoneIsDelivered

Still(v) == phase'[v] = phase[v] /\ job'[v] = job[v] /\ prediction'[v] = prediction[v]

(* Predictions are not deleted and messages are not unsent.                *)
LEMMA Growth ==
  ASSUME TypeOK, [Next]_vars
  PROVE  received \subseteq received' /\ \A r \in Request : stored[r] <= stored'[r]
<1> USE DEF TypeOK, rowVars, effectVars, workerVars, handlerVars, budgetVars
<1>1. CASE UNCHANGED <<stored, received>>
  BY <1>1
<1>2. ASSUME NEW w \in Worker, Predict(w) \/ PredictionFails(w) 
      PROVE  received \subseteq received' /\ \A r \in Request : stored[r] <= stored'[r]
  BY <1>2 DEF Predict, PredictionFails
<1>3. ASSUME NEW w \in Worker, PostAsset(w) \/ PostCauses(w) \/ PostFails(w)
      PROVE  received \subseteq received' /\ \A r \in Request : stored[r] <= stored'[r]
  BY <1>3 DEF PostAsset, PostCauses, PostFails, Send
<1>4. CASE Tick \/ (\E h \in Handler : HandlerStep(h) \/ \E r \in Request : Submit(h, r))
  BY <1>4, <1>1 DEF Tick, HandlerStep, Submit, Insert, InsertConflict, Retry, HandlerFails
<1>5. ASSUME NEW w \in Worker, RequeueStuck(w) \/ WorkerFault(w) \/ Restart(w) \/ Heartbeat(w)
      PROVE UNCHANGED <<stored, received>>
  BY <1>5
     DEF RequeueStuck, WorkerFault, Restart, Heartbeat, ClaimFails, ClaimForgotten,
         Escape, CommitUnacknowledged, RecoverFails, Crash
<1>6. ASSUME NEW w \in Worker, WorkerStep(w)
      PROVE  received \subseteq received' /\ \A r \in Request : stored[r] <= stored'[r]
  BY <1>6, <1>1, <1>2, <1>3
     DEF WorkerStep, ProcessJob, ClaimLock, ClaimCommit, StartHeartbeat, Recover,
         Sync, SyncFails, SkipWithoutOperations, Complete
<1> QED
  BY <1>1, <1>4, <1>5, <1>6 DEF Next, vars

(* "done" is written for a job both of whose POSTs were answered.          *)
LEMMA OnlyPostedBecomesDone ==
  ASSUME TypeOK, [Next]_vars, NEW r \in Request, status[r] # "done", status'[r] = "done"
  PROVE  \E w \in Worker : phase[w] = "posted" /\ job[w] = r
<1> USE
    DEF TypeOK, rowVars, effectVars, workerVars, handlerVars, budgetVars, Write,
        UpdateStatus
<1>2. ASSUME NEW w \in Worker, Complete(w) \/ CommitUnacknowledged(w)
      PROVE  phase[w] = "posted" /\ job[w] = r
  BY <1>2 DEF Complete, CommitUnacknowledged, Verdicts, Retryable
<1>3. ASSUME NEW w \in Worker, ProcessJob(w) , ~Complete(w)
      PROVE  FALSE
  BY <1>3
     DEF ProcessJob, PredictionFails, PostFails, SyncFails, SkipWithoutOperations,
         Retryable, Sync, Predict, PostAsset, PostCauses
<1>4. ASSUME NEW w \in Worker, ClaimLock(w) \/ ClaimCommit(w) \/ StartHeartbeat(w) \/ Recover(w)
      PROVE  FALSE
  BY <1>4 DEF ClaimLock, ClaimCommit, StartHeartbeat, Recover, TouchRow
<1>5. ASSUME NEW w \in Worker, RequeueStuck(w) \/ Heartbeat(w) \/ Restart(w)
      PROVE  FALSE
  BY <1>5 DEF RequeueStuck, Restart, Heartbeat, TouchRow
<1>6. ASSUME NEW w \in Worker, WorkerFault(w), ~CommitUnacknowledged(w)
      PROVE  FALSE
  BY <1>6 DEF WorkerFault, ClaimFails, ClaimForgotten, Escape, RecoverFails, Crash
<1>7. ASSUME Tick \/ (\E h \in Handler : HandlerStep(h) \/ \E q \in Request : Submit(h, q))
      PROVE FALSE
  BY <1>7 DEF Tick, HandlerStep, Submit, Insert, InsertConflict, Retry, HandlerFails
<1> QED
  BY <1>2, <1>3, <1>4, <1>5, <1>6, <1>7 DEF Next, vars, WorkerStep

LEMMA WaysToDeliver ==
  ASSUME TypeOK, [Next]_vars, NEW v \in Worker
  PROVE  Still(v) \/ phase'[v] \notin Deliverable \/ Predict(v) \/ PostAsset(v) \/ PostCauses(v)
<1> USE
    DEF TypeOK, Still, Deliverable, rowVars, effectVars, workerVars, handlerVars,
        budgetVars
<1>1. ASSUME Tick \/ (\E h \in Handler : HandlerStep(h) \/ \E q \in Request : Submit(h, q)) \/ UNCHANGED vars
      PROVE  Still(v)
  BY <1>1 DEF Tick, HandlerStep, Submit, Insert, InsertConflict, Retry, HandlerFails, vars
<1>2. ASSUME NEW w \in Worker, RequeueStuck(w) \/ Heartbeat(w) \/ Restart(w)
      PROVE  Still(v) \/ phase'[v] \notin Deliverable
  BY <1>2 DEF RequeueStuck, Heartbeat, Restart, Goto
<1>3. ASSUME NEW w \in Worker, WorkerFault(w)
      PROVE  Still(v) \/ phase'[v] \notin Deliverable
  BY <1>3
     DEF WorkerFault, ClaimFails, ClaimForgotten, Escape, CommitUnacknowledged,
         RecoverFails, Crash, Idle, Leave, Unwind, Recovering
<1>4. ASSUME NEW w \in Worker, ClaimLock(w) \/ ClaimCommit(w) \/ StartHeartbeat(w) \/ Recover(w)
      PROVE  Still(v) \/ phase'[v] \notin Deliverable
  BY <1>4
     DEF ClaimLock, ClaimCommit, StartHeartbeat, Recover, Goto, UpdateStatus, Idle,
         Leave
<1>5. ASSUME NEW w \in Worker, SyncFails(w) \/ Sync(w) \/ SkipWithoutOperations(w) \/ PredictionFails(w)
                                 \/ PostFails(w) \/ Complete(w)
      PROVE  Still(v) \/ phase'[v] \notin Deliverable
  BY <1>5
     DEF SyncFails, Sync, SkipWithoutOperations, PredictionFails, PostFails, Complete,
         Goto, UpdateStatus, Idle, Leave
<1>6. ASSUME NEW w \in Worker, Predict(w) \/ PostAsset(w) \/ PostCauses(w), w # v
      PROVE  Still(v)
  BY <1>6 DEF Predict, PostAsset, PostCauses, Goto
<1> QED
  BY <1>1, <1>2, <1>3, <1>4, <1>5, <1>6 DEF Next, WorkerStep, ProcessJob

LEMMA WorkersDeliverStep ==
  TypeOK /\ TypeOK' /\ WorkersDeliver /\ [Next]_vars => WorkersDeliver'
<1> SUFFICES ASSUME TypeOK, TypeOK', WorkersDeliver, [Next]_vars, NEW v \in Worker
             PROVE  /\ phase'[v] \in Deliverable => prediction'[v] \in 1..stored'[job'[v]]
                    /\ phase'[v] \in {"half_posted", "posted"} => Packet(v, "asset")' \in received'
                    /\ phase'[v] = "posted" => Packet(v, "causes")' \in received'
  BY DEF WorkersDeliver, Deliverable
<1> USE DEF WorkersDeliver, Deliverable, Packet
<1>1. /\ received \subseteq received' /\ \A r \in Request : stored[r] <= stored'[r]
      /\ stored \in [Request -> Nat] /\ stored' \in [Request -> Nat]
      /\ prediction \in [Worker -> Nat] /\ prediction' \in [Worker -> Nat]
      /\ phase[v] \in Deliverable => job[v] \in Request
  BY Growth DEF TypeOK
<1>2. CASE Still(v)
  BY <1>1, <1>2 DEF Still
<1>3. CASE phase'[v] \notin Deliverable
  BY <1>3
<1>4. CASE Predict(v)
  BY <1>1, <1>4 DEF Predict, TypeOK
<1>5. CASE PostAsset(v)
  BY <1>1, <1>5 DEF PostAsset, Send, Goto, TypeOK
<1>6. CASE PostCauses(v)
  BY <1>1, <1>6 DEF PostCauses, Send, Goto, TypeOK
<1> QED
  BY <1>2, <1>3, <1>4, <1>5, <1>6, WaysToDeliver

LEMMA NewMessage ==
  ASSUME TypeOK, [Next]_vars, NEW m \in received', m \notin received
  PROVE  \E w \in Worker : \/ phase[w] \in Deliverable /\ m = Packet(w, "asset")
                           \/ phase[w] = "half_posted" /\ m = Packet(w, "causes")
<1> USE DEF TypeOK, rowVars, effectVars, workerVars, handlerVars, budgetVars
<1>1. ASSUME NEW w \in Worker, PostAsset(w) \/ PostCauses(w) \/ PostFails(w)
      PROVE  \/ phase[w] \in Deliverable /\ m = Packet(w, "asset")
             \/ phase[w] = "half_posted" /\ m = Packet(w, "causes")
  BY <1>1 DEF Deliverable, PostAsset, PostCauses, PostFails, Send
<1>2. CASE Tick \/ (\E h \in Handler : HandlerStep(h) \/ \E r \in Request : Submit(h, r))
  BY <1>2 DEF Tick, HandlerStep, Submit, Insert, InsertConflict, Retry, HandlerFails
<1>3. ASSUME NEW w \in Worker, RequeueStuck(w) \/ WorkerFault(w) \/ Restart(w) \/ Heartbeat(w)
      PROVE  FALSE
  BY <1>3
     DEF RequeueStuck, WorkerFault, Restart, Heartbeat, ClaimFails, ClaimForgotten,
         Escape, CommitUnacknowledged, RecoverFails, Crash
<1>4. ASSUME NEW w \in Worker, WorkerStep(w), ~PostAsset(w), ~PostCauses(w), ~PostFails(w)
      PROVE  FALSE
  BY <1>4
     DEF WorkerStep, ProcessJob, ClaimLock, ClaimCommit, StartHeartbeat, Recover,
         Sync, SyncFails, SkipWithoutOperations, Complete, Predict, PredictionFails
<1> QED
  BY <1>1, <1>2, <1>3, <1>4 DEF Next, vars, WorkerStep, ProcessJob

(* For every number of workers, requests and handlers, every timing and    *)
(* every fault: a job that reads "done" was delivered to the CMMS, both    *)
(* messages of one stored prediction; and failure causes never precede the *)
(* asset's reliability.  The invariant adds what each worker, also one     *)
(* that has lost its job to another, has already sent.                     *)
THEOREM Delivery == Spec => [](DoneIsDelivered /\ CausesFollowAsset)
<1>1. Init => DeliveryInv
  <2>1. Init => TypeOK
    BY TypeInit
  <2>2. Init => WorkersDeliver /\ CausesFollowAsset /\ DoneIsDelivered
    BY DEF Init, WorkersDeliver, Deliverable, CausesFollowAsset, DoneIsDelivered
  <2> QED
    BY <2>1, <2>2 DEF DeliveryInv
<1>2. DeliveryInv /\ [Next]_vars => DeliveryInv'
  <2> SUFFICES ASSUME DeliveryInv, [Next]_vars PROVE DeliveryInv'
    OBVIOUS
  <2> USE DEF DeliveryInv
  <2>1. TypeOK'
    BY Typing
  <2>2. WorkersDeliver'
    BY <2>1, WorkersDeliverStep
  <2>3. /\ received \subseteq received' /\ \A r \in Request : stored[r] <= stored'[r]
        /\ stored \in [Request -> Nat] /\ stored' \in [Request -> Nat]
    BY <2>1, Growth DEF TypeOK
  <2>4. ASSUME NEW m \in received'
        PROVE  /\ m.id \in 1..stored'[m.req]
               /\ m.kind = "causes" => [m EXCEPT !.kind = "asset"] \in received'
    <3>1. CASE m \in received
      BY <3>1, <2>3 DEF CausesFollowAsset, TypeOK, Message
    <3>2. CASE m \notin received
      <4>1. PICK w \in Worker : \/ phase[w] \in Deliverable /\ m = Packet(w, "asset")
                                \/ phase[w] = "half_posted" /\ m = Packet(w, "causes")
        BY <3>2, NewMessage
      <4>2. job[w] \in Request /\ prediction[w] \in 1..stored[job[w]]
        BY <4>1 DEF WorkersDeliver, Deliverable, TypeOK
      <4>3. m.id \in 1..stored'[m.req]
        BY <4>1, <4>2, <2>3 DEF Packet
      <4>4. m.kind = "causes" => m = Packet(w, "causes") /\ Packet(w, "asset") \in received
        BY <4>1 DEF Packet, WorkersDeliver
      <4>5. [Packet(w, "causes") EXCEPT !.kind = "asset"] = Packet(w, "asset")
        BY DEF Packet
      <4> QED
        BY <4>3, <4>4, <4>5, <2>3
    <3> QED
      BY <3>1, <3>2
  <2>5. ASSUME NEW r \in Request, status'[r] = "done"
        PROVE  \E n \in 1..stored'[r] : \A k \in {"asset", "causes"} :
                 [req |-> r, kind |-> k, id |-> n] \in received'
    <3>1. CASE status[r] = "done"
      BY <3>1, <2>3 DEF DoneIsDelivered
    <3>2. CASE status[r] # "done"
      <4>1. PICK w \in Worker : phase[w] = "posted" /\ job[w] = r
        BY <3>2, <2>5, OnlyPostedBecomesDone
      <4> QED
        BY <4>1, <2>3 DEF WorkersDeliver, Deliverable, Packet
    <3> QED
      BY <3>1, <3>2
  <2> QED
    BY <2>1, <2>2, <2>4, <2>5 DEF CausesFollowAsset, DoneIsDelivered
<1>3. DeliveryInv => DoneIsDelivered /\ CausesFollowAsset
  BY DEF DeliveryInv
<1> QED
  BY <1>1, <1>2, <1>3, PTL DEF Spec

-----------------------------------------------------------------------------
(* prediction_skip_reason and the check for operation_ids.                 *)

(* A late request never gets as far as a worker or a retry.                *)
SkipInv ==
  /\ TypeOK /\ SkippedIsNotPredicted
  /\ \A w \in Worker : job[w] \notin LateRequests
  /\ \A h \in Handler : call[h] = "retry" => body[h] \notin LateRequests

LEMMA SkipStep ==
  ASSUME SkipInv, [Next]_vars
  PROVE  SkipInv'
<1>1. TypeOK'
  BY Typing DEF SkipInv
<1> DEFINE Goal == /\ SkippedIsNotPredicted'
                   /\ \A w \in Worker : job'[w] \notin LateRequests
                   /\ \A h \in Handler : call'[h] = "retry" => body'[h] \notin LateRequests
<1> SUFFICES Goal
  BY <1>1 DEF SkipInv
<1> USE ConstantsAssumption
    DEF SkipInv, TypeOK, SkippedIsNotPredicted, Retryable, rowVars, effectVars,
        workerVars, handlerVars, budgetVars, Write
<1>2. CASE Tick \/ UNCHANGED vars
  BY <1>2 DEF Tick, vars
<1>3. ASSUME NEW h \in Handler, HandlerStep(h) \/ \E r \in Request : Submit(h, r)
      PROVE  Goal
  BY <1>3 DEF HandlerStep, Submit, Reuse, Insert, InsertConflict, Retry, HandlerFails
<1>4. ASSUME NEW w \in Worker, ClaimLock(w)
      PROVE  Goal
  BY <1>4 DEF ClaimLock, Free
<1>5. ASSUME NEW w \in Worker, ClaimCommit(w) \/ RequeueStuck(w) \/ Heartbeat(w) \/ Restart(w) \/ StartHeartbeat(w)
      PROVE  Goal
  BY <1>5
     DEF ClaimCommit, RequeueStuck, Stuck, Heartbeat, Restart, Goto, StartHeartbeat,
         TouchRow
<1>6. ASSUME NEW w \in Worker, WorkerFault(w) \/ Recover(w)
      PROVE  Goal
  BY <1>6
     DEF WorkerFault, ClaimFails, ClaimForgotten, Escape, CommitUnacknowledged,
         RecoverFails, Crash, Recover, UpdateStatus, Idle, Leave, Unwind
<1>7. ASSUME NEW w \in Worker, Predict(w) \/ PredictionFails(w)
      PROVE  Goal
  BY <1>7 DEF Predict, PredictionFails, UpdateStatus, Idle, Leave
<1>8. ASSUME NEW w \in Worker, ProcessJob(w), ~Predict(w), ~PredictionFails(w)
      PROVE  Goal
  BY <1>8
     DEF ProcessJob, SyncFails, Sync, SkipWithoutOperations, PostFails, Complete,
         PostAsset, PostCauses, Goto, UpdateStatus, Idle, Leave
<1> QED
  BY <1>2, <1>3, <1>4, <1>5, <1>6, <1>7, <1>8 DEF Next, WorkerStep

(* Requests that must be skipped are not predicted, whatever faults occur. *)
THEOREM NeverPredicted == Spec => []SkippedIsNotPredicted
<1>1. Init => SkipInv
  <2>1. Init => SkippedIsNotPredicted
    BY DEF Init, SkippedIsNotPredicted
  <2>2. Init => /\ \A w \in Worker : job[w] \notin LateRequests
                /\ \A h \in Handler : call[h] = "retry" => body[h] \notin LateRequests
    BY ConstantsAssumption DEF Init
  <2> QED
    BY <2>1, <2>2, TypeInit DEF SkipInv
<1>2. SkipInv /\ [Next]_vars => SkipInv'
  BY SkipStep
<1>3. SkipInv => SkippedIsNotPredicted
  BY DEF SkipInv
<1> QED
  BY <1>1, <1>2, <1>3, PTL DEF Spec
=============================================================================
