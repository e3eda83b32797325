------------------------------ MODULE JobQueue ------------------------------
(***************************************************************************)
(* The prediction job queue: the table prediction_jobs, the API handlers   *)
(* of POST /asset_predict that fill it (app/maintenance/jobs.py), and the  *)
(* worker processes that empty it (worker.py, job_queue.py), each with the *)
(* heartbeat thread of the job it runs.                                    *)
(*                                                                         *)
(* Every database transaction is one step; PostgreSQL runs at READ         *)
(* COMMITTED.  The claim is two steps, because its row lock is held from   *)
(* the SELECT to the COMMIT and other transactions meet it.  Time is       *)
(* counted in ticks: what matters of updated_at is its age while the job   *)
(* is "processing".  The CMMS is external: it is the set of predictions it *)
(* received.  So is the prediction module: it stores a prediction or fails.*)
(***************************************************************************)
EXTENDS Integers

CONSTANTS
  Worker,            \* worker processes (compose.yaml: worker)
  Handler,           \* concurrent /asset_predict handlers of the API
  Request,           \* distinct request bodies, i.e. distinct request_hash values
  LateRequests,      \* requests whose failure_date is later than ended
  EmptyRequests,     \* requests without operation_ids
  NoJob,             \* not a request
  HeartbeatInterval, \* ticks between heartbeats: JOB_HEARTBEAT_INTERVAL_SEC
  StuckMaxAge,       \* ticks: STUCK_JOB_MAX_AGE_SEC
  MaxMisses,         \* heartbeats that may fail in a row when nothing stalls
  Faults,            \* which of FaultKinds may happen
  MaxFaults,         \* bound on crashes, escaped exceptions and lost writes
  MaxRetries         \* bound on the retries clients send

(***************************************************************************)
(* "stall": a worker may miss every deadline (a suspended container, a     *)
(* database that is away for longer than StuckMaxAge).                     *)
(* "concurrent_retry": two handlers may retry the same failed job at once. *)
(* "lost_ack": a COMMIT takes effect but the worker sees an exception.     *)
(***************************************************************************)
FaultKinds == {"stall", "concurrent_retry", "lost_ack"}

(* Nothing stalls, is retried twice at once or commits in silence.         *)
Healthy == Faults = {}

ASSUME ConstantsAssumption ==
  /\ LateRequests \subseteq Request /\ EmptyRequests \subseteq Request
  /\ NoJob \notin Request
  /\ HeartbeatInterval \in Nat \ {0} /\ StuckMaxAge \in Nat /\ MaxMisses \in Nat
  /\ Faults \subseteq FaultKinds
  /\ MaxFaults \in Nat /\ MaxRetries \in Nat

(* 30 s and 600 s leave room for 19 failed heartbeats in a row.            *)
ASSUME TimingAssumption == (MaxMisses + 1) * HeartbeatInterval <= StuckMaxAge

VARIABLES
  status,      \* status[r]: prediction_jobs.status, "none" while there is no row
  older,       \* older[r]: the rows before r in ORDER BY created_at, job_id
  age,         \* age[r]: ticks since updated_at, counted while "processing"
  stored,      \* stored[r]: how many predictions of job r are in the database
  received,    \* the prediction messages the CMMS has received
  phase,       \* phase[w]: where worker w is in main() and process_job()
  job,         \* job[w]: the job it is at, NoJob when it has none
  prediction,  \* prediction[w]: the prediction_id it will post, 0 for none
  beating,     \* beating[w]: its heartbeat thread runs
  wait,        \* wait[w]: ticks since its last heartbeat, claim or failure
  misses,      \* misses[w]: heartbeats that failed since the last good one
  call,        \* call[h]: what handler h is about to write
  body,        \* body[h]: the request of handler h
  faults,      \* faults so far, at most MaxFaults
  retries      \* retries so far, at most MaxRetries

rowVars     == <<status, older, age>>
effectVars  == <<stored, received>>
workerVars  == <<phase, job, prediction, beating, wait, misses>>
handlerVars == <<call, body>>
budgetVars  == <<faults, retries>>
vars == <<rowVars, effectVars, workerVars, handlerVars, budgetVars>>

Retryable == {"error", "not_found"}
Final     == {"done", "skipped"}
Status    == {"none", "queued", "processing"} \cup Final \cup Retryable

Running    == {"claimed", "started", "synced", "predicted", "half_posted", "posted"}
Recovering == {"recover_error", "recover_queued"}
Phase      == {"down", "idle", "locking"} \cup Running \cup Recovering

Message == [req : Request, kind : {"asset", "causes"}, id : Nat]

Lower(a, b) == IF a < b THEN a ELSE b

-----------------------------------------------------------------------------
(* Worker w has job r in hand: from its claim until it writes a result.    *)
Holds(w, r) == job[w] = r /\ phase[w] \in Running \cup Recovering

(* No open claim holds the row lock of r.                                  *)
Unlocked(r) == \A w \in Worker : ~(phase[w] = "locking" /\ job[w] = r)

(* The steps that w must take before its clock runs out.                   *)
Timed(w) == beating[w] \/ phase[w] = "claimed" \/ phase[w] \in Recovering

(* Mutation: the job of the previous round is not dropped.                 *)
LeaveKeepingJob(w, p) ==
  /\ phase' = [phase EXCEPT ![w] = p]
  /\ beating' = [beating EXCEPT ![w] = FALSE]
  /\ UNCHANGED <<job, prediction, wait, misses>>

(* The worker drops what it was doing.                                     *)
Leave(w, p) ==
  /\ phase' = [phase EXCEPT ![w] = p]
  /\ job' = [job EXCEPT ![w] = NoJob]
  /\ prediction' = [prediction EXCEPT ![w] = 0]
  /\ beating' = [beating EXCEPT ![w] = FALSE]
  /\ wait' = [wait EXCEPT ![w] = 0]
  /\ misses' = [misses EXCEPT ![w] = 0]

Idle(w) == Leave(w, "idle")

Goto(w, p) ==
  /\ phase' = [phase EXCEPT ![w] = p]
  /\ UNCHANGED <<job, prediction, beating, wait, misses>>

Write(r, s) ==
  /\ status' = [status EXCEPT ![r] = s]
  /\ age' = [age EXCEPT ![r] = 0]
  /\ UNCHANGED older

Fault ==
  /\ faults < MaxFaults
  /\ faults' = faults + 1
  /\ UNCHANGED retries

Init ==
  /\ status = [r \in Request |-> "none"]
  /\ older = [r \in Request |-> {}]
  /\ age = [r \in Request |-> 0]
  /\ stored = [r \in Request |-> 0]
  /\ received = {}
  /\ phase = [w \in Worker |-> "idle"]
  /\ job = [w \in Worker |-> NoJob]
  /\ prediction = [w \in Worker |-> 0]
  /\ beating = [w \in Worker |-> FALSE]
  /\ wait = [w \in Worker |-> 0]
  /\ misses = [w \in Worker |-> 0]
  /\ call = [h \in Handler |-> "none"]
  /\ body = [h \in Handler |-> NoJob]
  /\ faults = 0
  /\ retries = 0

-----------------------------------------------------------------------------
(* Time.  A tick waits for a step that is due, unless workers may stall.   *)
Tick ==
  /\ "stall" \in Faults \/ \A w \in Worker : Timed(w) => wait[w] < HeartbeatInterval
  /\ age' = [r \in Request |->
               IF status[r] = "processing" THEN Lower(age[r] + 1, StuckMaxAge + 1)
                                           ELSE age[r]]
  /\ wait' = [w \in Worker |->
               IF Timed(w) THEN Lower(wait[w] + 1, HeartbeatInterval) ELSE wait[w]]
  /\ UNCHANGED <<status, older, effectVars, phase, job, prediction, beating, misses,
                 handlerVars, budgetVars>>

-----------------------------------------------------------------------------
(* The API: enqueue_prediction_job and reuse_existing_job.                 *)

(* Mutation: any finished job is queued again, not only a failed one.      *)
ReuseFinished(h, r) ==
  IF status[r] \in Retryable \cup Final
  THEN /\ \A g \in Handler : ~(call[g] = "retry" /\ body[g] = r)
       /\ call' = [call EXCEPT ![h] = "retry"]
       /\ body' = [body EXCEPT ![h] = r]
  ELSE /\ call' = [call EXCEPT ![h] = "none"]
       /\ body' = [body EXCEPT ![h] = NoJob]

(* What a handler does next with a row it has read: the read and the write *)
(* that follows it are two statements, with an await between them.         *)
Reuse(h, r) ==
  IF status[r] \in Retryable
  THEN /\ \/ "concurrent_retry" \in Faults
          \/ \A g \in Handler : ~(call[g] = "retry" /\ body[g] = r)
       /\ call' = [call EXCEPT ![h] = "retry"]
       /\ body' = [body EXCEPT ![h] = r]
  ELSE /\ call' = [call EXCEPT ![h] = "none"]
       /\ body' = [body EXCEPT ![h] = NoJob]

Submit(h, r) ==
  /\ call[h] = "none"
  /\ IF status[r] = "none"
     THEN /\ call' = [call EXCEPT ![h] = "insert"]
          /\ body' = [body EXCEPT ![h] = r]
     ELSE Reuse(h, r)
  /\ UNCHANGED <<rowVars, effectVars, workerVars, budgetVars>>

(* Mutation: the skip reason is computed but not looked at.                *)
InsertAlwaysQueued(h) ==
  LET r == body[h] IN
  /\ call[h] = "insert"
  /\ status[r] = "none"
  /\ status' = [status EXCEPT ![r] = "queued"]
  /\ older' = [older EXCEPT ![r] = {q \in Request : status[q] # "none"}]
  /\ call' = [call EXCEPT ![h] = "none"]
  /\ body' = [body EXCEPT ![h] = NoJob]
  /\ UNCHANGED <<age, effectVars, workerVars, budgetVars>>

Insert(h) ==
  LET r == body[h] IN
  /\ call[h] = "insert"
  /\ status[r] = "none"
  /\ status' = [status EXCEPT ![r] = IF r \in LateRequests THEN "skipped" ELSE "queued"]
  /\ older' = [older EXCEPT ![r] = {q \in Request : status[q] # "none"}]
  /\ call' = [call EXCEPT ![h] = "none"]
  /\ body' = [body EXCEPT ![h] = NoJob]
  /\ UNCHANGED <<age, effectVars, workerVars, budgetVars>>

(* The unique index on request_hash refuses the second INSERT; the handler *)
(* reads the row that won.                                                 *)
InsertConflict(h) ==
  /\ call[h] = "insert"
  /\ status[body[h]] # "none"
  /\ Reuse(h, body[h])
  /\ UNCHANGED <<rowVars, effectVars, workerVars, budgetVars>>

(* UPDATE ... WHERE job_id = ...: it does not look at the status again.    *)
Retry(h) ==
  LET r == body[h] IN
  /\ call[h] = "retry"
  /\ Unlocked(r)
  /\ retries < MaxRetries
  /\ Write(r, "queued")
  /\ call' = [call EXCEPT ![h] = "none"]
  /\ body' = [body EXCEPT ![h] = NoJob]
  /\ retries' = retries + 1
  /\ UNCHANGED <<effectVars, workerVars, faults>>

(* The write fails or the client goes away: 503, nothing is written.       *)
HandlerFails(h) ==
  /\ call[h] # "none"
  /\ call' = [call EXCEPT ![h] = "none"]
  /\ body' = [body EXCEPT ![h] = NoJob]
  /\ UNCHANGED <<rowVars, effectVars, workerVars, budgetVars>>

-----------------------------------------------------------------------------
(* The worker loop: requeue_stuck_jobs and claim_one_job.                  *)

(* Mutations: the age is compared with <=, the wrong way, or not at all.   *)
StuckTooSoon == {r \in Request : status[r] = "processing" /\ age[r] >= StuckMaxAge}
StuckReversed == {r \in Request : status[r] = "processing" /\ age[r] <= StuckMaxAge}
StuckAnyAge == {r \in Request : status[r] = "processing"}

Stuck == {r \in Request : status[r] = "processing" /\ age[r] > StuckMaxAge}

(* The pause of REQUEUE_INTERVAL_SEC between two requeues is not counted:  *)
(* a worker may requeue whenever it is between two jobs.                   *)
RequeueStuck(w) ==
  /\ phase[w] = "idle"
  /\ Stuck # {}
  /\ status' = [r \in Request |-> IF r \in Stuck THEN "queued" ELSE status[r]]
  /\ age' = [r \in Request |-> IF r \in Stuck THEN 0 ELSE age[r]]
  /\ UNCHANGED <<older, effectVars, workerVars, handlerVars, budgetVars>>

(* Mutation: no FOR UPDATE SKIP LOCKED.                                    *)
FreeIgnoringLocks(r) == status[r] = "queued"

(* SELECT ... ORDER BY created_at, job_id FOR UPDATE SKIP LOCKED LIMIT 1.  *)
Free(r) == status[r] = "queued" /\ Unlocked(r)

ClaimLock(w) ==
  /\ phase[w] = "idle"
  /\ \E r \in Request :
       /\ Free(r)
       /\ \A q \in older[r] : ~Free(q)
       /\ job' = [job EXCEPT ![w] = r]
  /\ phase' = [phase EXCEPT ![w] = "locking"]
  /\ UNCHANGED <<rowVars, effectVars, prediction, beating, wait, misses,
                 handlerVars, budgetVars>>

ClaimCommit(w) ==
  /\ phase[w] = "locking"
  /\ Write(job[w], "processing")
  /\ Goto(w, "claimed")
  /\ UNCHANGED <<effectVars, handlerVars, budgetVars>>

(* The claim's transaction fails: the row stays queued.                    *)
ClaimFails(w) ==
  /\ phase[w] = "locking"
  /\ Fault
  /\ Idle(w)
  /\ UNCHANGED <<rowVars, effectVars, handlerVars>>

(* A statement between the claim's COMMIT and the heartbeat fails: main()  *)
(* logs it and goes on, and the row stays "processing" with no owner.      *)
ClaimForgotten(w) ==
  /\ phase[w] = "claimed"
  /\ Fault
  /\ Idle(w)
  /\ UNCHANGED <<rowVars, effectVars, handlerVars>>

-----------------------------------------------------------------------------
(* The heartbeat: JobHeartbeat.start and _run.                             *)

(* Mutation: the heartbeat does not move updated_at.                       *)
TouchNothing(w) == UNCHANGED <<status, age, older>>

TouchRow(w) == age' = [age EXCEPT ![job[w]] = 0] /\ UNCHANGED <<status, older>>

MayMiss(w) == misses[w] < MaxMisses \/ "stall" \in Faults

StartHeartbeat(w) ==
  /\ phase[w] = "claimed"
  /\ phase' = [phase EXCEPT ![w] = "started"]
  /\ \/ /\ status[job[w]] = "processing"
        /\ TouchRow(w)
        /\ beating' = [beating EXCEPT ![w] = TRUE]
        /\ wait' = [wait EXCEPT ![w] = 0]
        /\ UNCHANGED misses
     \/ /\ status[job[w]] # "processing"   \* only a warning: the job runs anyway
        /\ UNCHANGED <<rowVars, beating, wait, misses>>
     \/ /\ MayMiss(w)                      \* the touch fails, the thread starts
        /\ beating' = [beating EXCEPT ![w] = TRUE]
        /\ wait' = [wait EXCEPT ![w] = 0]
        /\ misses' = [misses EXCEPT ![w] = Lower(@ + 1, MaxMisses)]
        /\ UNCHANGED rowVars
  /\ UNCHANGED <<effectVars, job, prediction, handlerVars, budgetVars>>

(* One turn of the thread: touch_processing_job takes any "processing" row,*)
(* whoever claimed it; the thread ends when the row has another status.    *)
Heartbeat(w) ==
  /\ beating[w]
  /\ wait[w] = HeartbeatInterval
  /\ \/ /\ status[job[w]] = "processing"
        /\ TouchRow(w)
        /\ wait' = [wait EXCEPT ![w] = 0]
        /\ misses' = [misses EXCEPT ![w] = 0]
        /\ UNCHANGED beating
     \/ /\ status[job[w]] # "processing"
        /\ beating' = [beating EXCEPT ![w] = FALSE]
        /\ UNCHANGED <<rowVars, wait, misses>>
     \/ /\ MayMiss(w)
        /\ wait' = [wait EXCEPT ![w] = 0]
        /\ misses' = [misses EXCEPT ![w] = Lower(@ + 1, MaxMisses)]
        /\ UNCHANGED <<rowVars, beating>>
  /\ UNCHANGED <<effectVars, phase, job, prediction, handlerVars, budgetVars>>

-----------------------------------------------------------------------------
(* process_job.                                                            *)

(* update_job_status, the end of process_job and the stop of the heartbeat:*)
(* the write looks neither at the status nor at the owner of the row.      *)
UpdateStatus(w, s) ==
  /\ Unlocked(job[w])
  /\ Write(job[w], s)
  /\ Idle(w)

(* The stored payload is invalid, the CMMS knows no such asset, or the     *)
(* answer does not fit the database: rolled back and recorded.             *)
SyncFails(w) ==
  /\ phase[w] = "started"
  /\ \E s \in Retryable : UpdateStatus(w, s)
  /\ UNCHANGED <<effectVars, handlerVars, budgetVars>>

Sync(w) ==
  /\ phase[w] = "started"
  /\ Goto(w, "synced")
  /\ UNCHANGED <<rowVars, effectVars, handlerVars, budgetVars>>

SkipWithoutOperations(w) ==
  /\ phase[w] = "synced"
  /\ job[w] \in EmptyRequests
  /\ UpdateStatus(w, "skipped")
  /\ UNCHANGED <<effectVars, handlerVars, budgetVars>>

(* run_prediction stores a prediction, and its result passes the checks.   *)
Predict(w) ==
  LET r == job[w] IN
  /\ phase[w] = "synced"
  /\ r \notin EmptyRequests
  /\ stored' = [stored EXCEPT ![r] = @ + 1]
  /\ prediction' = [prediction EXCEPT ![w] = stored[r] + 1]
  /\ phase' = [phase EXCEPT ![w] = "predicted"]
  /\ UNCHANGED <<rowVars, received, job, beating, wait, misses, handlerVars, budgetVars>>

(* It fails, or stores a prediction that the checks refuse.                *)
PredictionFails(w) ==
  /\ phase[w] = "synced"
  /\ job[w] \notin EmptyRequests
  /\ \E n \in {0, 1} : stored' = [stored EXCEPT ![job[w]] = @ + n]
  /\ UpdateStatus(w, "error")
  /\ UNCHANGED <<received, handlerVars, budgetVars>>

Packet(w, kind) == [req |-> job[w], kind |-> kind, id |-> prediction[w]]

Send(w, kind) == received' = received \cup {Packet(w, kind)}

(* Mutation: an error of the first POST is only logged.                    *)
PostAssetOrLog(w) ==
  /\ phase[w] = "predicted"
  /\ Send(w, "asset") \/ UNCHANGED received
  /\ Goto(w, "half_posted")
  /\ UNCHANGED <<rowVars, stored, handlerVars, budgetVars>>

(* A POST that is answered.                                                *)
PostAsset(w) ==
  /\ phase[w] = "predicted"
  /\ Send(w, "asset")
  /\ Goto(w, "half_posted")
  /\ UNCHANGED <<rowVars, stored, handlerVars, budgetVars>>

PostCauses(w) ==
  /\ phase[w] = "half_posted"
  /\ Send(w, "causes")
  /\ Goto(w, "posted")
  /\ UNCHANGED <<rowVars, stored, handlerVars, budgetVars>>

(* The payload is refused, or the POST fails; the CMMS may have received   *)
(* it all the same.                                                        *)
PostFails(w) ==
  /\ \/ /\ phase[w] = "predicted"
        /\ Send(w, "asset") \/ UNCHANGED received
     \/ /\ phase[w] = "half_posted"
        /\ Send(w, "causes") \/ UNCHANGED received
  /\ UpdateStatus(w, "error")
  /\ UNCHANGED <<stored, handlerVars, budgetVars>>

(* Mutation: an error of the second POST is only logged.                   *)
CompleteHalfPosted(w) ==
  /\ phase[w] \in {"half_posted", "posted"}
  /\ UpdateStatus(w, "done")
  /\ UNCHANGED <<effectVars, handlerVars, budgetVars>>

Complete(w) ==
  /\ phase[w] = "posted"
  /\ UpdateStatus(w, "done")
  /\ UNCHANGED <<effectVars, handlerVars, budgetVars>>

-----------------------------------------------------------------------------
(* Exceptions that process_job lets through, and the recovery in main().   *)

(* The heartbeat is stopped first (its context manager ends).              *)
Unwind(w) ==
  /\ \E p \in Recovering : phase' = [phase EXCEPT ![w] = p]
  /\ beating' = [beating EXCEPT ![w] = FALSE]
  /\ prediction' = [prediction EXCEPT ![w] = 0]
  /\ UNCHANGED <<job, wait, misses>>

Escape(w) ==
  /\ phase[w] \in Running
  /\ Fault
  /\ Unwind(w)
  /\ UNCHANGED <<rowVars, effectVars, handlerVars>>

(* What update_job_status may be writing in the phase w is in.             *)
Verdicts(w) ==
  CASE phase[w] = "started" -> Retryable
    [] phase[w] = "synced"  -> IF job[w] \in EmptyRequests THEN {"skipped"} ELSE {"error"}
    [] phase[w] \in {"predicted", "half_posted"} -> {"error"}
    [] phase[w] = "posted"  -> {"done"}
    [] OTHER -> {}

(* The COMMIT of update_job_status takes effect but raises an exception.   *)
CommitUnacknowledged(w) ==
  /\ "lost_ack" \in Faults
  /\ Fault
  /\ Unlocked(job[w])
  /\ \E s \in Verdicts(w) : Write(job[w], s)
  /\ Unwind(w)
  /\ UNCHANGED <<effectVars, handlerVars>>

Recover(w) ==
  /\ phase[w] \in Recovering
  /\ UpdateStatus(w, IF phase[w] = "recover_queued" THEN "queued" ELSE "error")
  /\ UNCHANGED <<effectVars, handlerVars, budgetVars>>

(* The recovery fails too: the row stays as it is.                         *)
RecoverFails(w) ==
  /\ phase[w] \in Recovering
  /\ Fault
  /\ Idle(w)
  /\ UNCHANGED <<rowVars, effectVars, handlerVars>>

Crash(w) ==
  /\ phase[w] # "down"
  /\ Fault
  /\ Leave(w, "down")
  /\ UNCHANGED <<rowVars, effectVars, handlerVars>>

(* compose.yaml: restart: unless-stopped.                                  *)
Restart(w) ==
  /\ phase[w] = "down"
  /\ Goto(w, "idle")
  /\ UNCHANGED <<rowVars, effectVars, handlerVars, budgetVars>>

-----------------------------------------------------------------------------
HandlerStep(h) ==
  \/ Insert(h)
  \/ InsertConflict(h)
  \/ Retry(h)
  \/ HandlerFails(h)

ProcessJob(w) ==
  \/ SyncFails(w)
  \/ Sync(w)
  \/ SkipWithoutOperations(w)
  \/ Predict(w)
  \/ PredictionFails(w)
  \/ PostAsset(w)
  \/ PostCauses(w)
  \/ PostFails(w)
  \/ Complete(w)

WorkerStep(w) ==
  \/ ClaimLock(w)
  \/ ClaimCommit(w)
  \/ StartHeartbeat(w)
  \/ ProcessJob(w)
  \/ Recover(w)

WorkerFault(w) ==
  \/ ClaimFails(w)
  \/ ClaimForgotten(w)
  \/ Escape(w)
  \/ CommitUnacknowledged(w)
  \/ RecoverFails(w)
  \/ Crash(w)

Next ==
  \/ Tick
  \/ \E h \in Handler : HandlerStep(h) \/ \E r \in Request : Submit(h, r)
  \/ \E w \in Worker :
       RequeueStuck(w) \/ WorkerStep(w) \/ Heartbeat(w) \/ WorkerFault(w) \/ Restart(w)

Spec == Init /\ [][Next]_vars

(* Time passes; threads and processes that can go on do so; PostgreSQL     *)
(* answers; compose restarts a dead worker; an idle worker looks for stuck *)
(* jobs again and again.  Nothing obliges a client to send or to retry.    *)
Fairness ==
  /\ WF_vars(Tick)
  /\ \A h \in Handler : WF_vars(HandlerStep(h))
  /\ \A w \in Worker :
       /\ WF_vars(WorkerStep(w))
       /\ WF_vars(Heartbeat(w))
       /\ WF_vars(RequeueStuck(w))
       /\ WF_vars(Restart(w))

FairSpec == Spec /\ Fairness

-----------------------------------------------------------------------------
TypeOK ==
  /\ status \in [Request -> Status]
  /\ older \in [Request -> SUBSET Request]
  /\ age \in [Request -> 0..(StuckMaxAge + 1)]
  /\ stored \in [Request -> Nat]
  /\ received \subseteq Message
  /\ phase \in [Worker -> Phase]
  /\ job \in [Worker -> Request \cup {NoJob}]
  /\ \A w \in Worker : job[w] = NoJob <=> phase[w] \in {"down", "idle"}
  /\ prediction \in [Worker -> Nat]
  /\ beating \in [Worker -> BOOLEAN]
  /\ wait \in [Worker -> 0..HeartbeatInterval]
  /\ misses \in [Worker -> 0..MaxMisses]
  /\ call \in [Handler -> {"none", "insert", "retry"}]
  /\ body \in [Handler -> Request \cup {NoJob}]
  /\ \A h \in Handler : body[h] = NoJob <=> call[h] = "none"
  /\ faults \in 0..MaxFaults
  /\ retries \in 0..MaxRetries

(* A job is "done" only if the CMMS has received both messages of one and  *)
(* the same stored prediction (process_job: the two POSTs come before the  *)
(* last update_job_status).  Whatever fails, whoever else wrote the row.   *)
DoneIsDelivered ==
  \A r \in Request : status[r] = "done" =>
    \E n \in 1..stored[r] : \A k \in {"asset", "causes"} :
      [req |-> r, kind |-> k, id |-> n] \in received

(* The CMMS never has the failure causes of a prediction without its       *)
(* reliability, and only predictions that are in the database reach it.    *)
CausesFollowAsset ==
  \A m \in received :
    /\ m.id \in 1..stored[m.req]
    /\ m.kind = "causes" => [m EXCEPT !.kind = "asset"] \in received

(* A request that must be skipped (prediction_skip_reason, or no           *)
(* operation_ids) is never predicted, however often it is sent or retried; *)
(* a late one is not even processed.                                       *)
SkippedIsNotPredicted ==
  \A r \in Request :
    /\ r \in LateRequests \cup EmptyRequests => stored[r] = 0
    /\ r \in LateRequests => status[r] \in {"none", "skipped"}

(* FOR UPDATE SKIP LOCKED: a locked row is queued and has one claimant,    *)
(* whatever retries, requeues and late workers do to the table meanwhile.  *)
OneClaimant ==
  \A w \in Worker : phase[w] = "locking" =>
    /\ status[job[w]] = "queued"
    /\ \A v \in Worker : phase[v] = "locking" /\ job[v] = job[w] => v = w

(* Every prediction after the first one of a job is due to a fault or to a *)
(* client's retry: the queue itself does not run a job twice.              *)
PredictionsAreExplained ==
  \A r \in Request : stored[r] <= 1 + faults + retries

(* Two workers never work on the same job.                                 *)
OneWorkerPerJob ==
  \A v, w \in Worker, r \in Request : Holds(v, r) /\ Holds(w, r) => v = w

(* The job a worker has in hand reads "processing", and its last heartbeat *)
(* is recent enough that requeue_stuck_jobs leaves it alone.               *)
HeldIsFresh ==
  \A w \in Worker, r \in Request :
    Holds(w, r) => status[r] = "processing" /\ age[r] <= StuckMaxAge

(* A job that is done or skipped stays so.                                 *)
FinalStays ==
  [][\A r \in Request : status[r] \in Final => status'[r] = status[r]]_vars

(* The queue implements JobLifecycle.                                      *)
Lifecycle == INSTANCE JobLifecycle
  WITH holders <- [r \in Request |-> {w \in Worker : Holds(w, r)}]

ImplementsLifecycle == Lifecycle!Spec

(* Every job that is queued, or whose worker died, is finished in the end. *)
EveryJobSettles ==
  \A r \in Request :
    status[r] \in {"queued", "processing"} ~> status[r] \in Final \cup Retryable
=============================================================================
