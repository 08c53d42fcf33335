---------------------------- MODULE ExtractionJobs ----------------------------
(***************************************************************************)
(* The life of an extraction job: admission by the API (memory_service.py),*)
(* the job row in PostgreSQL, the Celery message, the worker that claims   *)
(* and processes it (extraction_tasks.py), the watchdog and the durable    *)
(* dispatch recovery (watchdog_tasks.py) and the operator's retry of a     *)
(* dead job (routers/internal.py).                                         *)
(*                                                                         *)
(* Every commit, publication and slot release is a step of its own, and a  *)
(* process may die between any two.  Publications may fail, or succeed and *)
(* be reported as failed.  A worker that dies gives its message back       *)
(* (acks_late, reject_on_worker_lost); one that exceeds the hard time      *)
(* limit is killed and its message is acknowledged.                        *)
(*                                                                         *)
(* Task ids: 0 is NULL, 1 the job's own id (the stable delivery id of the  *)
(* durable lane), 2 .. MaxTask are generated.                              *)
(***************************************************************************)
EXTENDS Naturals, FiniteSets

CONSTANTS Jobs, Workers, Watchdogs,
          Lane,         \* Lane[j] \in {"durable", "plain", "prepared"}
          MaxAttempts,  \* DEFAULT_MAX_EXTRACTION_ATTEMPTS
          Slots,        \* the tenant's queue limit
          Faults,       \* the kinds of fault that may happen, see AllFaults
          MaxFaults,    \* bound: faults in a behaviour
          MaxTask,      \* bound: task ids per job
          MaxCopies,    \* bound: copies of one message in the broker
          MaxRetries,   \* bound: operator retries per job
          MaxRequests   \* bound: jobs that are requested

\* "api": the API process dies.  "publish": a publication by the API or by
\* the queued recovery fails or its acknowledgement is lost.  "retry": the
\* worker's own publication of a retry fails.  "requeue": the publication of
\* a stale job fails.  "crash": a worker dies.  "timeout": the hard time limit.
\* "watchdog": the watchdog dies.  "db", "redis": a statement or a command
\* raises.  "slow": a request outlives the grace period of its queued row.
AllFaults == {"api", "publish", "retry", "requeue", "crash", "timeout",
              "watchdog", "db", "redis", "slow"}

\* The kinds the code recovers from.  After another one a job may be left in
\* a row that no cycle selects (a statement raises, the hard time limit or the
\* end of a watchdog falls between a commit and the publication after it), or
\* an outcome may be reported as a failure ("redis", "retry").
Recovered == {"api", "publish", "crash"}

ASSUME JobsAssumption ==
  /\ Lane \in [Jobs -> {"durable", "plain", "prepared"}]
  /\ MaxAttempts \in Nat \ {0}
  /\ Slots \in Nat
  /\ Faults \subseteq AllFaults
  /\ MaxFaults \in Nat /\ MaxTask \in Nat \ {0} /\ MaxCopies \in Nat
  /\ MaxRetries \in Nat
  /\ MaxRequests \in Nat

VARIABLES
  row,         \* row[j]: the extraction_jobs row
  msgs,        \* msgs[j][t]: copies of the message of job j and task t
  slots,       \* jobs with a reserved slot
  api,         \* api[j]: the request that admits or retries job j
  worker,      \* worker[w]: what a worker process is doing
  watch,       \* watch[d]: the row a watchdog cycle is handling
  authorised,  \* jobs whose tenant, owner and key are all in force
  issued,      \* issued[j]: the last generated task id
  retries,     \* retries[j]: operator retries so far
  faults       \* the faults so far, and whether one was not of a kind in Recovered

vars == <<row, msgs, slots, api, worker, watch, authorised, issued, retries, faults>>

Tasks == 1 .. MaxTask
OwnId == 1
NoTask == 0

\* lease stands for stale_after: a new value for every claim; runs counts the
\* claims since the job was admitted or retried by the operator.
Rows == [status : {"none", "queued", "processing", "failed", "completed", "dead"},
         task : Tasks \union {NoTask}, attempts : Nat, started : BOOLEAN,
         lease : Nat, runs : Nat]
ApiStates == [pc : {"idle", "reserved", "committed", "retried", "published",
                    "unsent", "marked", "failed", "full", "rejected", "done"},
              task : Tasks \union {NoTask}]
WorkerStates == [pc : {"run", "completed", "failing", "failed", "unretried", "retained", "release"},
                 job : Jobs, task : Tasks]
WatchStates == [pc : {"stale", "publish", "release", "queued", "dispatch", "undo"},
                job : Jobs, attempts : Nat, lease : Nat, stamp : Nat,
                task : Tasks \union {NoTask}]
Idle == [pc |-> "idle"]

\* The faults so far, and the last of them that nothing recovers from.
FaultLog == [n : 0 .. MaxFaults, lost : 0 .. MaxFaults]

TypeOK ==
  /\ row \in [Jobs -> Rows]
  /\ msgs \in [Jobs -> [Tasks -> 0 .. MaxCopies]]
  /\ slots \subseteq Jobs
  /\ api \in [Jobs -> ApiStates]
  /\ worker \in [Workers -> WorkerStates \union {Idle}]
  /\ watch \in [Watchdogs -> WatchStates \union {Idle}]
  /\ authorised \subseteq Jobs
  /\ issued \in [Jobs -> Tasks]
  /\ retries \in [Jobs -> 0 .. MaxRetries]
  /\ faults \in FaultLog

Init ==
  /\ row = [j \in Jobs |-> [status |-> "none", task |-> NoTask, attempts |-> 0,
                            started |-> FALSE, lease |-> 0, runs |-> 0]]
  /\ msgs = [j \in Jobs |-> [t \in Tasks |-> 0]]
  /\ slots = {}
  /\ api = [j \in Jobs |-> [pc |-> "idle", task |-> NoTask]]
  /\ worker = [w \in Workers |-> Idle]
  /\ watch = [d \in Watchdogs |-> Idle]
  /\ authorised = Jobs
  /\ issued = [j \in Jobs |-> OwnId]
  /\ retries = [j \in Jobs |-> 0]
  /\ faults = [n |-> 0, lost |-> 0]

-----------------------------------------------------------------------------
Fault(kind) ==
  /\ kind \in Faults
  /\ faults.n < MaxFaults
  /\ faults' = [n |-> faults.n + 1,
                lost |-> IF kind \in Recovered THEN faults.lost ELSE faults.n + 1]

\* The outcomes of publishing task t of job j: sent, or an error after no
\* copy or after a copy that the caller does not know of.
Sent(j, t) ==
  /\ msgs[j][t] < MaxCopies
  /\ msgs' = [msgs EXCEPT ![j][t] = @ + 1]

Unsent(j, t) ==
  \/ UNCHANGED msgs
  \/ Sent(j, t)

\* Celery or uuid4 generates a task id.
NewTask(j) ==
  /\ issued[j] < MaxTask
  /\ issued' = [issued EXCEPT ![j] = @ + 1]

SetApi(j, pc, t) == api' = [api EXCEPT ![j] = [pc |-> pc, task |-> t]]

-----------------------------------------------------------------------------
(* The API: queue_memory_add and dispatch_prepared_turn.                   *)

Reserve(j) ==
  /\ api[j].pc = "idle" /\ Cardinality({k \in Jobs : api[k].pc # "idle"}) < MaxRequests
  /\ IF Cardinality(slots) < Slots
     THEN slots' = slots \union {j} /\ SetApi(j, "reserved", NoTask)
     ELSE UNCHANGED slots /\ SetApi(j, "full", NoTask)
  /\ UNCHANGED <<row, msgs, worker, watch, authorised, issued, retries, faults>>

\* _create_extraction_job commits the row; a durable job with its delivery id.
Commit(j) ==
  /\ api[j].pc = "reserved"
  /\ row' = [row EXCEPT ![j].status = "queued",
                        ![j].task = IF Lane[j] = "durable" THEN OwnId ELSE NoTask]
  /\ SetApi(j, "committed", NoTask)
  /\ UNCHANGED <<msgs, slots, worker, watch, authorised, issued, retries, faults>>

\* The commit raises: the slot is released and the request fails.
CommitFails(j) ==
  /\ api[j].pc = "reserved"
  /\ Fault("db")
  /\ slots' = slots \ {j}
  /\ SetApi(j, "rejected", NoTask)
  /\ UNCHANGED <<row, msgs, worker, watch, authorised, issued, retries>>

\* _dispatch_extraction_job sends the task.  The id of the plain lane is
\* stored in a second step, as is the id of an operator's runtime retry.
Dispatch(j) ==
  LET own == Lane[j] = "durable" /\ api[j].pc = "committed"
      t == IF own THEN OwnId ELSE issued[j] + 1
      stores == Lane[j] = (IF api[j].pc = "committed" THEN "plain" ELSE "prepared")
  IN
  /\ api[j].pc \in {"committed", "retried"}
  /\ IF own THEN UNCHANGED issued ELSE NewTask(j)
  /\ Sent(j, t)
  /\ IF stores THEN SetApi(j, "published", t) ELSE SetApi(j, "done", NoTask)
  /\ UNCHANGED <<row, slots, worker, watch, authorised, retries, faults>>

\* The publication raises.  Only the plain lane then fails the job.
DispatchFails(j) ==
  LET own == Lane[j] = "durable" /\ api[j].pc = "committed"
      t == IF own THEN OwnId ELSE issued[j] + 1
  IN
  /\ api[j].pc \in {"committed", "retried"}
  /\ Fault("publish")
  /\ IF own THEN UNCHANGED issued ELSE NewTask(j)
  /\ Unsent(j, t)
  /\ IF Lane[j] = "plain" /\ api[j].pc = "committed"
     THEN SetApi(j, "unsent", NoTask)
     ELSE SetApi(j, "done", NoTask)
  /\ UNCHANGED <<row, slots, worker, watch, authorised, retries>>

\* Mutant: the id is stored whatever happened to the row meanwhile.
PersistTaskIdAlways(j) ==
  /\ api[j].pc = "published"
  /\ row' = [row EXCEPT ![j].task = api[j].task]
  /\ SetApi(j, "done", NoTask)
  /\ UNCHANGED <<msgs, slots, worker, watch, authorised, issued, retries, faults>>

\* UPDATE ... WHERE status = queued AND celery_task_id IS NULL; an error of
\* the statement is logged and nothing is stored.
PersistTaskId(j) ==
  /\ api[j].pc = "published"
  /\ \/ /\ row' = IF row[j].status = "queued" /\ row[j].task = NoTask
                  THEN [row EXCEPT ![j].task = api[j].task]
                  ELSE row
        /\ UNCHANGED faults
     \/ UNCHANGED row /\ Fault("db")
  /\ SetApi(j, "done", NoTask)
  /\ UNCHANGED <<msgs, slots, worker, watch, authorised, issued, retries>>

\* _mark_extraction_job_failed, whatever the row says by now ...
MarkFailed(j) ==
  /\ api[j].pc = "unsent"
  /\ row' = [row EXCEPT ![j].status = "failed"]
  /\ SetApi(j, "marked", NoTask)
  /\ UNCHANGED <<msgs, slots, worker, watch, authorised, issued, retries, faults>>

\* ... and the slot is released.
ReleaseFailed(j) ==
  /\ api[j].pc = "marked"
  /\ slots' = slots \ {j}
  /\ SetApi(j, "failed", NoTask)
  /\ UNCHANGED <<row, msgs, worker, watch, authorised, issued, retries, faults>>

\* The API process dies, or a cache write between two steps raises.
ApiCrash(j) ==
  /\ api[j].pc \in {"reserved", "committed", "retried", "published", "unsent", "marked"}
  /\ Fault("api")
  /\ SetApi(j, IF api[j].pc = "reserved" THEN "rejected"
               ELSE IF api[j].pc = "marked" THEN "failed" ELSE "done", NoTask)
  /\ UNCHANGED <<row, msgs, slots, worker, watch, authorised, issued, retries>>

\* retry_dead_letter_job: under the row lock a slot is reserved (or found) and
\* the row is reset; the message follows.
OperatorRetry(j) ==
  /\ row[j].status = "dead"
  /\ api[j].pc \notin {"committed", "retried", "published"}
  /\ retries[j] < MaxRetries
  /\ j \in slots \/ Cardinality(slots) < Slots
  /\ slots' = slots \union {j}
  /\ row' = [row EXCEPT ![j].status = "queued", ![j].task = NoTask,
                        ![j].attempts = 0, ![j].started = FALSE, ![j].runs = 0]
  /\ retries' = [retries EXCEPT ![j] = @ + 1]
  /\ SetApi(j, "retried", NoTask)
  /\ UNCHANGED <<msgs, worker, watch, authorised, issued, faults>>

\* The retry stops after the reservation: its commit raises and the slot is
\* released, or the process dies and the slot stays taken.
OperatorRetryFails(j) ==
  /\ row[j].status = "dead"
  /\ api[j].pc \notin {"committed", "retried", "published"}
  /\ retries[j] < MaxRetries
  /\ j \in slots \/ Cardinality(slots) < Slots
  /\ \/ slots' = slots \ {j} /\ Fault("db")
     \/ slots' = slots \union {j} /\ Fault("api")
  /\ UNCHANGED <<row, msgs, api, worker, watch, authorised, issued, retries>>

-----------------------------------------------------------------------------
(* The worker: _process_extraction_job and the task_postrun handler.       *)

Step(w, pc) == worker' = [worker EXCEPT ![w].pc = pc]

Take(w, j, t) ==
  /\ worker[w] = Idle
  /\ msgs[j][t] > 0
  /\ msgs' = [msgs EXCEPT ![j][t] = @ - 1]

\* Mutant: a message with the stored task id is claimed whatever the status.
ClaimableAnyStatus(j, t) ==
  row[j].status # "none" /\ row[j].task \in {NoTask, t}

\* The condition under which _set_db_job_processing takes the job.
Claimable(j, t) ==
  /\ row[j].status \in {"queued", "failed"}
  /\ row[j].task \in {NoTask, t}

Claim(w, j, t) ==
  /\ Take(w, j, t)
  /\ Claimable(j, t)
  /\ row' = [row EXCEPT ![j].status = "processing", ![j].task = t,
                        ![j].started = TRUE, ![j].lease = @ + 1,
                        ![j].runs = @ + 1]
  /\ worker' = [worker EXCEPT ![w] = [pc |-> "run", job |-> j, task |-> t]]
  /\ UNCHANGED <<slots, api, watch, authorised, issued, retries, faults>>

\* duplicate_ignored, or the claim raises: the row stays as it is and the
\* task ends.
Ignore(w, j, t) ==
  /\ Take(w, j, t)
  /\ \/ ~Claimable(j, t) /\ UNCHANGED faults
     \/ Fault("db")
  /\ worker' = [worker EXCEPT ![w] = [pc |-> "release", job |-> j, task |-> t]]
  /\ UNCHANGED <<row, slots, api, watch, authorised, issued, retries>>

\* run_extraction_pipeline (or the runtime preference worker) returns and
\* _set_db_job_completed commits.
Complete(w) ==
  /\ worker[w].pc = "run"
  /\ row' = [row EXCEPT ![worker[w].job].status = "completed"]
  /\ Step(w, "completed")
  /\ UNCHANGED <<msgs, slots, api, watch, authorised, issued, retries, faults>>

\* The pipeline raises, before or after its own commits, or the soft time
\* limit interrupts it.
PipelineFails(w) ==
  /\ worker[w].pc = "run"
  /\ Step(w, "failing")
  /\ UNCHANGED <<row, msgs, slots, api, watch, authorised, issued, retries, faults>>

\* The status is written to Redis.  If that raises after the completion, the
\* handler of the pipeline's failures takes over.
ReportCompleted(w) ==
  /\ worker[w].pc = "completed"
  /\ \/ Step(w, "release") /\ UNCHANGED faults
     \/ Step(w, "failing") /\ Fault("redis")
  /\ UNCHANGED <<row, msgs, slots, api, watch, authorised, issued, retries>>

\* Mutant: the attempt is not counted.
SetDbJobFailureUncounted(w) ==
  LET j == worker[w].job IN
  /\ worker[w].pc = "failing"
  /\ row' = [row EXCEPT ![j].status = "failed", ![j].task = NoTask]
  /\ Step(w, "failed")
  /\ UNCHANGED <<msgs, slots, api, watch, authorised, issued, retries, faults>>

\* _set_db_job_failure; if it raises, the row stays in processing.
SetDbJobFailure(w) ==
  LET j == worker[w].job
      n == row[j].attempts + 1
  IN
  /\ worker[w].pc = "failing"
  /\ \/ /\ row' = [row EXCEPT ![j].status = IF n >= MaxAttempts THEN "dead" ELSE "failed",
                              ![j].attempts = n, ![j].task = NoTask]
        /\ Step(w, IF n >= MaxAttempts THEN "release" ELSE "failed")
        /\ UNCHANGED faults
     \/ UNCHANGED row /\ Step(w, "release") /\ Fault("db")
  /\ UNCHANGED <<msgs, slots, api, watch, authorised, issued, retries>>

\* The retry is published and the slot retained ...
PublishRetry(w) ==
  LET j == worker[w].job IN
  /\ worker[w].pc = "failed"
  /\ NewTask(j)
  /\ Sent(j, issued[j] + 1)
  /\ Step(w, "retained")
  /\ UNCHANGED <<row, slots, api, watch, authorised, retries, faults>>

\* ... or its publication raises ...
RetryFails(w) ==
  LET j == worker[w].job IN
  /\ worker[w].pc = "failed"
  /\ Fault("retry")
  /\ NewTask(j)
  /\ Unsent(j, issued[j] + 1)
  /\ Step(w, "unretried")
  /\ UNCHANGED <<row, slots, api, watch, authorised, retries>>

\* ... and _force_dead_letter_job gives up on the job, whatever the row says
\* by now; it may raise too ...
ForceDeadLetter(w) ==
  /\ worker[w].pc = "unretried"
  /\ \/ /\ row' = [row EXCEPT ![worker[w].job].status = "dead",
                              ![worker[w].job].task = NoTask]
        /\ UNCHANGED faults
     \/ UNCHANGED row /\ Fault("db")
  /\ Step(w, "release")
  /\ UNCHANGED <<msgs, slots, api, watch, authorised, issued, retries>>

\* ... or the write of the failed status to Redis raises out of the task.
ReportFailedRaises(w) ==
  /\ worker[w].pc = "failed"
  /\ Fault("redis")
  /\ Step(w, "release")
  /\ UNCHANGED <<row, msgs, slots, api, watch, authorised, issued, retries>>

\* Mutant: the slot of a job that was given up is kept.
PostRunKeepsDead(w) ==
  /\ worker[w].pc \in {"release", "retained"}
  /\ slots' = IF row[worker[w].job].status = "completed"
              THEN slots \ {worker[w].job} ELSE slots
  /\ worker' = [worker EXCEPT ![w] = Idle]
  /\ UNCHANGED <<row, msgs, api, watch, authorised, issued, retries, faults>>

\* release_queue_slot_after_extraction, then the message is acknowledged.
PostRun(w) ==
  /\ worker[w].pc \in {"release", "retained"}
  /\ slots' = IF worker[w].pc = "release" THEN slots \ {worker[w].job} ELSE slots
  /\ worker' = [worker EXCEPT ![w] = Idle]
  /\ UNCHANGED <<row, msgs, api, watch, authorised, issued, retries, faults>>

\* The worker process is lost: its message goes back to the queue.
WorkerCrash(w) ==
  LET j == worker[w].job
      t == worker[w].task
  IN
  /\ worker[w] # Idle
  /\ Fault("crash")
  /\ Sent(j, t)
  /\ worker' = [worker EXCEPT ![w] = Idle]
  /\ UNCHANGED <<row, slots, api, watch, authorised, issued, retries>>

\* The hard time limit: killed, acknowledged, no postrun.
HardTimeLimit(w) ==
  /\ worker[w] # Idle
  /\ Fault("timeout")
  /\ worker' = [worker EXCEPT ![w] = Idle]
  /\ UNCHANGED <<row, msgs, slots, api, watch, authorised, issued, retries>>

\* A worker is on its way from the claim to the write of the outcome.
Running(w, j) ==
  /\ worker[w] # Idle
  /\ worker[w].job = j
  /\ worker[w].pc \in {"run", "completed", "failing"}

-----------------------------------------------------------------------------
(* The watchdog: run_watchdog_cycle.                                       *)

Watch(d, pc) == watch' = [watch EXCEPT ![d].pc = pc]

\* The ten minutes of a lease are over: a worker (at most 120 seconds) or a
\* request that was busy with the job when it was claimed is gone.
LeaseExpired(j) ==
  /\ \A w \in Workers : ~Running(w, j)
  /\ api[j].pc \notin {"committed", "retried", "published", "unsent"}

\* QUEUED_DISPATCH_GRACE after queued_at: the request that stamped it is over,
\* unless it is slow.  An operator's retry stamps it in the prepared lane only.
GraceOver(j) ==
  \/ "slow" \in Faults
  \/ retries[j] > 0 /\ Lane[j] # "prepared"
  \/ api[j].pc \notin {"committed", "retried", "published"}

\* queued_at: it changes only when the operator retries a prepared job.
QueuedAt(j) == IF Lane[j] = "prepared" THEN retries[j] ELSE 0

\* A cycle selects a job: a processing one whose lease is over, or a queued
\* one without a task id after the grace period.
Select(d, j) ==
  /\ watch[d] = Idle
  /\ \/ /\ row[j].status = "processing"
        /\ LeaseExpired(j)
        /\ watch' = [watch EXCEPT ![d] =
             [pc |-> "stale", job |-> j, attempts |-> row[j].attempts,
              lease |-> row[j].lease, stamp |-> QueuedAt(j), task |-> NoTask]]
     \/ /\ row[j].status = "queued"
        /\ row[j].task = NoTask
        /\ ~row[j].started
        /\ GraceOver(j)
        /\ watch' = [watch EXCEPT ![d] =
             [pc |-> "queued", job |-> j, attempts |-> row[j].attempts,
              lease |-> row[j].lease, stamp |-> QueuedAt(j), task |-> NoTask]]
  /\ UNCHANGED <<row, msgs, slots, api, worker, authorised, issued, retries, faults>>

\* A stale job that may run again goes back to queued if it is still the row
\* that was selected (its processing_started_at stays set); its message is
\* published afterwards.
RequeueStale(d) ==
  LET j == watch[d].job
      n == watch[d].attempts + 1
  IN
  /\ watch[d].pc = "stale"
  /\ n <= MaxAttempts
  /\ IF row[j].status = "processing" /\ row[j].lease = watch[d].lease
     THEN /\ row' = [row EXCEPT ![j].status = "queued", ![j].attempts = n,
                                ![j].task = NoTask]
          /\ Watch(d, "publish")
     ELSE UNCHANGED row /\ watch' = [watch EXCEPT ![d] = Idle]
  /\ UNCHANGED <<msgs, slots, api, worker, authorised, issued, retries, faults>>

\* _mark_dead_without_requeue: the selected row is written back as dead,
\* without a condition, and its slot released afterwards.
MarkDead(d) ==
  LET j == watch[d].job
      n == watch[d].attempts + 1
  IN
  /\ watch[d].pc = "stale"
  /\ n > MaxAttempts
  /\ row' = [row EXCEPT ![j].status = "dead", ![j].attempts = n, ![j].task = NoTask]
  /\ Watch(d, "release")
  /\ UNCHANGED <<msgs, slots, api, worker, authorised, issued, retries, faults>>

ReleaseDead(d) ==
  /\ watch[d].pc = "release"
  /\ slots' = slots \ {watch[d].job}
  /\ watch' = [watch EXCEPT ![d] = Idle]
  /\ UNCHANGED <<row, msgs, api, worker, authorised, issued, retries, faults>>

PublishStale(d) ==
  LET j == watch[d].job IN
  /\ watch[d].pc = "publish"
  /\ NewTask(j)
  /\ \/ Sent(j, issued[j] + 1) /\ UNCHANGED faults
     \/ Unsent(j, issued[j] + 1) /\ Fault("requeue")
  /\ watch' = [watch EXCEPT ![d] = Idle]
  /\ UNCHANGED <<row, slots, api, worker, authorised, retries>>

\* An unclaimed queued job is given a task id under the same condition it was
\* selected by (queued_at before the cutoff of this cycle included) ...
RecoverQueued(d) ==
  LET j == watch[d].job
      t == issued[j] + 1
  IN
  /\ watch[d].pc = "queued"
  /\ IF /\ row[j].status = "queued" /\ row[j].task = NoTask /\ ~row[j].started
        /\ QueuedAt(j) = watch[d].stamp
     THEN /\ NewTask(j)
          /\ row' = [row EXCEPT ![j].task = t]
          /\ watch' = [watch EXCEPT ![d].pc = "dispatch", ![d].task = t]
     ELSE UNCHANGED <<issued, row>> /\ watch' = [watch EXCEPT ![d] = Idle]
  /\ UNCHANGED <<msgs, slots, api, worker, authorised, retries, faults>>

\* ... its message is published ...
DispatchRecovered(d) ==
  LET j == watch[d].job
      t == watch[d].task
  IN
  /\ watch[d].pc = "dispatch"
  /\ \/ /\ Sent(j, t)
        /\ watch' = [watch EXCEPT ![d] = Idle]
        /\ UNCHANGED faults
     \/ Unsent(j, t) /\ Watch(d, "undo") /\ Fault("publish")
  /\ UNCHANGED <<row, slots, api, worker, authorised, issued, retries>>

\* ... and if that raised the id is taken back, unless the row moved on.
UndoRecovery(d) ==
  LET j == watch[d].job IN
  /\ watch[d].pc = "undo"
  /\ row' = IF row[j].status = "queued" /\ row[j].task = watch[d].task
            THEN [row EXCEPT ![j].task = NoTask] ELSE row
  /\ watch' = [watch EXCEPT ![d] = Idle]
  /\ UNCHANGED <<msgs, slots, api, worker, authorised, issued, retries, faults>>

WatchdogCrash(d) ==
  /\ watch[d] # Idle
  /\ Fault("watchdog")
  /\ watch' = [watch EXCEPT ![d] = Idle]
  /\ UNCHANGED <<row, msgs, slots, api, worker, authorised, issued, retries>>

-----------------------------------------------------------------------------
(* run_durable_dispatch_recovery: one job under its row lock.              *)

\* Mutant: only a row without a delivery id is recovered.
RecoverableUnassigned(j) ==
  /\ Lane[j] = "durable"
  /\ row[j].status = "queued"
  /\ ~row[j].started
  /\ j \in authorised
  /\ row[j].task = NoTask

Recoverable(j) ==
  /\ Lane[j] = "durable"
  /\ row[j].status = "queued"
  /\ ~row[j].started
  /\ j \in authorised

\* The stored delivery id is published again, whether or not an earlier copy
\* is still queued; a row without an id only gets one.
RecoverDispatch(j) ==
  /\ Recoverable(j)
  /\ IF row[j].task = NoTask
     THEN row' = [row EXCEPT ![j].task = OwnId] /\ UNCHANGED msgs
     ELSE Sent(j, row[j].task) /\ UNCHANGED row
  /\ UNCHANGED <<slots, api, worker, watch, authorised, issued, retries, faults>>

\* The tenant, the owner or the key is deactivated, or reactivated.
ChangeAuthority(j) ==
  /\ Lane[j] = "durable"
  /\ authorised' = IF j \in authorised THEN authorised \ {j} ELSE authorised \union {j}
  /\ UNCHANGED <<row, msgs, slots, api, worker, watch, issued, retries, faults>>

-----------------------------------------------------------------------------
ApiNext(j) ==
  \/ Reserve(j) \/ Commit(j) \/ CommitFails(j) \/ Dispatch(j) \/ DispatchFails(j)
  \/ PersistTaskId(j) \/ MarkFailed(j) \/ ReleaseFailed(j) \/ ApiCrash(j)
  \/ OperatorRetry(j) \/ OperatorRetryFails(j)

WorkerNext(w) ==
  \/ \E j \in Jobs, t \in Tasks : Claim(w, j, t) \/ Ignore(w, j, t)
  \/ Complete(w) \/ PipelineFails(w) \/ ReportCompleted(w) \/ SetDbJobFailure(w)
  \/ PublishRetry(w) \/ RetryFails(w) \/ ForceDeadLetter(w) \/ ReportFailedRaises(w)
  \/ PostRun(w) \/ WorkerCrash(w) \/ HardTimeLimit(w)

WatchNext(d) ==
  \/ \E j \in Jobs : Select(d, j)
  \/ RequeueStale(d) \/ MarkDead(d) \/ ReleaseDead(d) \/ PublishStale(d)
  \/ RecoverQueued(d) \/ DispatchRecovered(d) \/ UndoRecovery(d) \/ WatchdogCrash(d)

Next ==
  \/ \E j \in Jobs : ApiNext(j) \/ RecoverDispatch(j) \/ ChangeAuthority(j)
  \/ \E w \in Workers : WorkerNext(w)
  \/ \E d \in Watchdogs : WatchNext(d)

Spec == Init /\ [][Next]_vars

\* Requests and tasks run to their end (a task has a time limit), Beat starts
\* a watchdog cycle every two minutes and a dispatch recovery every five
\* seconds, and the broker delivers a message to a worker again and again
\* free.  No fault is assumed to happen, nor the operator's retry.
Fairness ==
  /\ \A j \in Jobs :
       /\ WF_vars(Commit(j) \/ Dispatch(j) \/ PersistTaskId(j) \/ MarkFailed(j)
                  \/ ReleaseFailed(j))
       /\ WF_vars(RecoverDispatch(j))
       /\ SF_vars(\E d \in Watchdogs : Select(d, j))
       /\ \A t \in Tasks : SF_vars(\E w \in Workers : Claim(w, j, t) \/ Ignore(w, j, t))
  /\ \A w \in Workers :
       WF_vars(Complete(w) \/ PipelineFails(w) \/ ReportCompleted(w)
               \/ SetDbJobFailure(w) \/ PublishRetry(w) \/ ForceDeadLetter(w) \/ PostRun(w))
  /\ \A d \in Watchdogs :
       WF_vars(RequeueStale(d) \/ MarkDead(d) \/ ReleaseDead(d) \/ PublishStale(d)
               \/ RecoverQueued(d) \/ DispatchRecovered(d) \/ UndoRecovery(d))

FairSpec == Spec /\ Fairness

-----------------------------------------------------------------------------
(* Properties.                                                             *)

\* The jobs the code keeps to one run at a time.  Two writes are made without
\* looking at the row, and a job they hit while it runs can be started again:
\* the plain lane answers a failed publication by failing the job although its
\* message may be on its way (such a job is trusted until that write); and a
\* worker that cannot publish its retry, or one of two watchdog cycles, may
\* declare a job dead that a duplicate message or the operator has started
\* again, which the operator can then retry.
Steady == "retry" \notin Faults /\ \A d, e \in Watchdogs : d = e

FailedByApi(j) == api[j].pc \in {"marked", "failed"}

Trusted(j) ==
  /\ \/ Lane[j] # "plain"
     \/ "publish" \notin Faults
     \/ retries[j] = 0 /\ ~FailedByApi(j)
  /\ retries[j] = 0 \/ Steady

\* However often a message is published, redelivered or recovered, no two
\* workers process the same job (the row lock, status and task id tested by
\* _set_db_job_processing, and the lease the watchdog waits for).
AtMostOneRunner ==
  \A j \in Jobs : Trusted(j) =>
    \A v, w \in Workers : Running(v, j) /\ Running(w, j) => v = w

Holds(w, j) == worker[w] # Idle /\ worker[w].job = j
Handles(d, j) == watch[d] # Idle /\ watch[d].job = j

\* The parts of the inductive invariant behind AtMostOneRunner.  Nothing
\* exists for a job before its row does.
Unadmitted(j) ==
  /\ api[j].pc \in {"idle", "reserved"} => row[j].status = "none"
  /\ row[j].status = "none" =>
       /\ api[j].pc \notin {"committed", "retried", "published", "unsent"}
       /\ \A t \in Tasks : msgs[j][t] = 0
       /\ \A w \in Workers : ~Holds(w, j)
       /\ \A d \in Watchdogs : ~Handles(d, j)

\* The unconditional writes wait only where their fault has happened.
Unconditional(j) ==
  /\ api[j].pc \in {"unsent", "marked", "failed"} => Lane[j] = "plain" /\ "publish" \in Faults
  /\ \A w \in Workers : Holds(w, j) /\ worker[w].pc = "unretried" => "retry" \in Faults

\* A running job is not claimable, and it has one runner.
Exclusive(j) ==
  \A w \in Workers : Running(w, j) =>
    /\ row[j].status \in {"processing", "completed", "dead"}
    /\ Steady => row[j].status # "dead"
    /\ \A v \in Workers : Running(v, j) => v = w

\* The lease a watchdog saw expire has no runner as long as it is current.
StaleLease(j) ==
  \A d \in Watchdogs : Handles(d, j) /\ watch[d].pc = "stale" =>
    /\ watch[d].lease <= row[j].lease
    /\ row[j].status = "processing" /\ row[j].lease = watch[d].lease =>
         \A w \in Workers : ~Running(w, j)
    /\ Steady => row[j].status = "processing" /\ \A w \in Workers : ~Running(w, j)

\* The inductive invariant: a running job is neither queued nor failed, so no
\* message can start it, and the watchdog's knowledge of a lease stays valid
\* until the job is claimed again.
RunnerInv ==
  \A j \in Jobs : /\ Unadmitted(j)
                  /\ Unconditional(j)
                  /\ Trusted(j) => Exclusive(j) /\ StaleLease(j)

\* Every run but the last is paid for with an attempt, whichever of the
\* worker and the watchdog ended it, so a job runs at most MaxAttempts + 1
\* times (the worker gives up at attempts >= max_attempts, the watchdog at
\* attempts > max_attempts).
RunsBounded ==
  \A j \in Jobs : Trusted(j) =>
    /\ row[j].runs <= row[j].attempts + 1
    /\ row[j].runs <= MaxAttempts + 1
    /\ row[j].attempts <= MaxAttempts + 1

\* The inductive invariant behind RunsBounded.  A job that can be claimed has
\* paid for its runs ...
RunsPaid(j) ==
  /\ row[j].runs <= row[j].attempts + 1
  /\ row[j].runs <= MaxAttempts + 1
  /\ row[j].attempts <= MaxAttempts + 1
  /\ row[j].status \in {"none", "queued", "failed"} =>
       row[j].runs <= row[j].attempts /\ row[j].attempts <= MaxAttempts
  /\ row[j].status = "processing" => row[j].attempts <= MaxAttempts
  /\ \A w \in Workers : Running(w, j) => row[j].attempts <= MaxAttempts

\* ... and the attempts a watchdog read are those of the lease it read; a job
\* it will declare dead is not running and cannot be claimed.
StaleAttempts(j) ==
  \A d \in Watchdogs : Handles(d, j) /\ watch[d].pc = "stale" =>
    /\ watch[d].attempts <= MaxAttempts
    /\ watch[d].attempts <= row[j].attempts
    /\ row[j].status = "processing" /\ row[j].lease = watch[d].lease =>
         watch[d].attempts = row[j].attempts
    /\ watch[d].attempts = MaxAttempts =>
         /\ row[j].status \notin {"queued", "failed"}
         /\ \A w \in Workers : ~Running(w, j)

\* The inductive invariant behind RunsBounded: retries and requeues charge the
\* row before they let anyone claim it again, and what a watchdog read of a
\* lease still describes the row when it acts on it.
AttemptsInv == \A j \in Jobs : Trusted(j) => RunsPaid(j) /\ StaleAttempts(j)

\* A completed job stays completed, and a dead one leaves that state only by
\* an operator's retry, a plain one also by the failure its own request
\* reports: late, duplicated or redelivered messages and the unconditional
\* writes of the worker and the watchdog never undo an outcome (a command of
\* Redis that raises after the commit does, and a retry that cannot be published
\* while a duplicate runs: _process_extraction_job).
TerminalIsFinal ==
  [][\A j \in Jobs : Trusted(j) /\ (FailedByApi(j)' => FailedByApi(j)) /\ faults'.lost = 0 =>
       /\ row[j].status = "completed" => row'[j].status = "completed"
       /\ row[j].status = "dead" =>
            row'[j].status = "dead" \/ retries'[j] = retries[j] + 1]_vars

\* A job that is neither completed nor dead is never forgotten: a message can
\* still start it, a process still holds it, or its row is one that the
\* watchdog or the dispatch recovery selects.  This holds until a fault of a
\* kind not in Recovered; with "slow" in Faults the late update of a retry may
\* store the id of a message that is gone.
NoStrandedJob ==
  \A j \in Jobs : Trusted(j) /\ faults.lost = 0 /\ row[j].status \in {"queued", "processing", "failed"} =>
    \/ row[j].status = "processing"
    \/ \E t \in Tasks : msgs[j][t] > 0 /\ Claimable(j, t)
    \/ row[j].status = "queued" /\ ~row[j].started
         /\ (row[j].task = NoTask \/ Lane[j] = "durable")
    \/ \E w \in Workers : /\ worker[w] # Idle
                          /\ worker[w].job = j
                          /\ worker[w].pc \in {"failed", "unretried"}
    \/ \E d \in Watchdogs : /\ watch[d] # Idle
                            /\ watch[d].job = j
                            /\ watch[d].pc \in {"publish", "dispatch", "undo"}

\* An admitted job ends completed or dead.  A durable job whose messages were
\* lost depends on the recovery, which needs the identity to stay in force.
JobSettles ==
  \A j \in Jobs :
    <>[](j \in authorised) =>
      (row[j].status = "queued" ~> row[j].status \in {"completed", "dead"})

\* The slot of a job that ended is given back.
SlotFreed ==
  \A j \in Jobs :
    row[j].status \in {"completed", "dead"} ~>
      (j \notin slots \/ row[j].status \notin {"completed", "dead"})

=============================================================================
