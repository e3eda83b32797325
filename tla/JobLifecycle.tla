---------------------------- MODULE JobLifecycle ----------------------------
(***************************************************************************)
(* What the prediction queue promises, without its mechanism: a request    *)
(* becomes one job; a queued job is taken by one worker; while a worker    *)
(* holds a job nobody else takes it or changes it; the holder writes its   *)
(* result; a job whose holder has gone is queued again; done and skipped   *)
(* are final, error and not_found can be queued again by the client.       *)
(*                                                                         *)
(* There are no clocks, locks, heartbeats or fault budgets here.  JobQueue *)
(* implements this specification when its workers keep their deadlines.    *)
(***************************************************************************)
CONSTANTS Worker,   \* the worker processes
          Request   \* the distinct /asset_predict requests, one job each

VARIABLES status,   \* status[r]: the job of request r, "none" before it exists
          holders   \* holders[r]: the workers that work on the job of r

vars == <<status, holders>>

Retryable == {"error", "not_found"}
Result    == {"done", "skipped", "error", "not_found"}
Status    == {"none", "queued", "processing"} \cup Result

Init ==
  /\ status = [r \in Request |-> "none"]
  /\ holders = [r \in Request |-> {}]

(* A request is accepted; one that must not be predicted is born skipped.  *)
Accept(r) ==
  /\ status[r] = "none"
  /\ \E s \in {"queued", "skipped"} : status' = [status EXCEPT ![r] = s]
  /\ UNCHANGED holders

(* One worker takes a queued job.                                          *)
Claim(w, r) ==
  /\ status[r] = "queued"
  /\ holders[r] = {}
  /\ \A q \in Request : w \notin holders[q]
  /\ status' = [status EXCEPT ![r] = "processing"]
  /\ holders' = [holders EXCEPT ![r] = {w}]

(* The holder writes a result, or gives the job back to the queue.         *)
Settle(w, r) ==
  /\ status[r] = "processing"
  /\ holders[r] = {w}
  /\ \E s \in Result \cup {"queued"} : status' = [status EXCEPT ![r] = s]
  /\ holders' = [holders EXCEPT ![r] = {}]

(* The holder is gone; the job still reads "processing".                   *)
Abandon(w, r) ==
  /\ status[r] = "processing"
  /\ holders[r] = {w}
  /\ holders' = [holders EXCEPT ![r] = {}]
  /\ UNCHANGED status

(* Abandoned jobs, and only those, return to the queue.                    *)
Reclaim(S) ==
  /\ \A r \in S : status[r] = "processing" /\ holders[r] = {}
  /\ status' = [r \in Request |-> IF r \in S THEN "queued" ELSE status[r]]
  /\ UNCHANGED holders

(* The client sends a failed request again.                                *)
Retry(r) ==
  /\ status[r] \in Retryable
  /\ status' = [status EXCEPT ![r] = "queued"]
  /\ UNCHANGED holders

Next ==
  \/ \E r \in Request : Accept(r) \/ Retry(r)
  \/ \E w \in Worker, r \in Request : Claim(w, r) \/ Settle(w, r) \/ Abandon(w, r)
  \/ \E S \in SUBSET Request : Reclaim(S)

Spec == Init /\ [][Next]_vars
=============================================================================
