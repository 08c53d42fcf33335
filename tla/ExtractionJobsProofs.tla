------------------------- MODULE ExtractionJobsProofs -------------------------
(***************************************************************************)
(* TLAPS proofs about ExtractionJobs, for any jobs, workers, watchdogs,    *)
(* lanes, faults and bounds; and about QueueSlots, the counters that admit *)
(* those jobs, for any tenants, handlers, plans and queues.                *)
(***************************************************************************)
EXTENDS ExtractionJobs, QueueSlots, FiniteSetTheorems, TLAPS

-----------------------------------------------------------------------------
(* Type correctness.                                                       *)

LEMMA TypeInit == Init => TypeOK
  BY JobsAssumption DEF Init, TypeOK, Rows, ApiStates, Tasks, OwnId, NoTask, Idle, FaultLog

\* What a publication does to the broker.
LEMMA SentType ==
  ASSUME TypeOK, NEW j \in Jobs, NEW t \in Tasks \union {NoTask},
         Sent(j, t) \/ Unsent(j, t) \/ UNCHANGED msgs
  PROVE  msgs' \in [Jobs -> [Tasks -> 0 .. MaxCopies]]
<1>1. msgs \in [Jobs -> [Tasks -> Nat]] /\ msgs[j] \in [Tasks -> 0 .. MaxCopies]
  BY JobsAssumption DEF TypeOK
<1>2. CASE Sent(j, t)
  <2>1. t \in Tasks => msgs[j][t] + 1 \in 0 .. MaxCopies
    BY <1>1, <1>2, JobsAssumption DEF Sent
  <2>2. [msgs[j] EXCEPT ![t] = @ + 1] \in [Tasks -> 0 .. MaxCopies]
    BY <1>1, <2>1
  <2> QED BY <1>1, <1>2, <2>2 DEF Sent, TypeOK
<1>3. CASE UNCHANGED msgs
  BY <1>3 DEF TypeOK
<1> QED BY <1>2, <1>3 DEF Unsent

LEMMA NewTaskType ==
  ASSUME TypeOK, NEW j \in Jobs, NewTask(j)
  PROVE  issued[j] + 1 \in Tasks /\ issued' \in [Jobs -> Tasks]
BY JobsAssumption DEF TypeOK, NewTask, Tasks

LEMMA FaultType ==
  ASSUME TypeOK, NEW k, Fault(k) \/ UNCHANGED faults
  PROVE  faults' \in FaultLog
BY JobsAssumption DEF TypeOK, Fault, FaultLog

LEMMA SetApiType ==
  ASSUME TypeOK, NEW j \in Jobs, NEW t \in Tasks \union {NoTask},
         NEW pc \in {"idle", "reserved", "committed", "retried", "published",
                    "unsent", "marked", "failed", "full", "rejected", "done"},
         SetApi(j, pc, t)
  PROVE  api' \in [Jobs -> ApiStates]
BY DEF TypeOK, SetApi, ApiStates

LEMMA StepType ==
  ASSUME TypeOK, NEW w \in Workers, worker[w] # Idle,
         NEW pc \in {"run", "completed", "failing", "failed", "unretried", "retained", "release"},
         Step(w, pc)
  PROVE  worker' \in [Workers -> WorkerStates \union {Idle}]
<1>1. worker[w] \in WorkerStates
  BY DEF TypeOK
<1>2. [worker[w] EXCEPT !.pc = pc] \in WorkerStates
  BY <1>1 DEF WorkerStates
<1> QED BY <1>2 DEF TypeOK, Step

LEMMA WatchType ==
  ASSUME TypeOK, NEW d \in Watchdogs, watch[d] # Idle,
         NEW pc \in {"stale", "publish", "release", "queued", "dispatch", "undo"},
         NEW t \in Tasks \union {NoTask},
         watch' = [watch EXCEPT ![d].pc = pc, ![d].task = t] \/ Watch(d, pc)
  PROVE  watch' \in [Watchdogs -> WatchStates \union {Idle}]
<1>1. watch[d] \in WatchStates
  BY DEF TypeOK
<1>2. /\ [watch[d] EXCEPT !.pc = pc] \in WatchStates
      /\ [watch[d] EXCEPT !.pc = pc, !.task = t] \in WatchStates
  BY <1>1 DEF WatchStates
<1> QED BY <1>2 DEF TypeOK, Watch

\* A process in one of the given states holds a job.
LEMMA Busy ==
  ASSUME TypeOK
  PROVE  /\ \A w \in Workers : worker[w].pc # "idle" =>
              /\ worker[w] # Idle
              /\ worker[w] \in WorkerStates
              /\ worker[w].job \in Jobs
              /\ worker[w].task \in Tasks
         /\ \A d \in Watchdogs : watch[d].pc # "idle" =>
              /\ watch[d] # Idle
              /\ watch[d] \in WatchStates
              /\ watch[d].job \in Jobs
              /\ watch[d].attempts \in Nat
              /\ watch[d].lease \in Nat
              /\ watch[d].task \in Tasks \union {NoTask}
         /\ \A w \in Workers : worker[w] # Idle => worker[w].pc # "idle"
         /\ \A d \in Watchdogs : watch[d] # Idle => watch[d].pc # "idle"
<1>1. ASSUME NEW w \in Workers
      PROVE  /\ worker[w].pc # "idle" => worker[w] \in WorkerStates /\ worker[w] # Idle
             /\ worker[w] # Idle => worker[w].pc # "idle"
  BY <1>1 DEF TypeOK, WorkerStates, Idle
<1>2. ASSUME NEW d \in Watchdogs
      PROVE  /\ watch[d].pc # "idle" => watch[d] \in WatchStates /\ watch[d] # Idle
             /\ watch[d] # Idle => watch[d].pc # "idle"
  BY <1>2 DEF TypeOK, WatchStates, Idle
<1> QED BY <1>1, <1>2 DEF WorkerStates, WatchStates

\* The changes that the code makes to a row yield a row.
LEMMA RowType ==
  ASSUME NEW r \in Rows, NEW t \in Tasks \union {NoTask}, NEW n \in Nat,
         NEW st \in {"none", "queued", "processing", "failed", "completed", "dead"}
  PROVE  /\ [r EXCEPT !.status = st] \in Rows
         /\ [r EXCEPT !.task = t] \in Rows
         /\ [r EXCEPT !.status = st, !.task = t] \in Rows
         /\ [r EXCEPT !.status = st, !.attempts = n, !.task = t] \in Rows
         /\ [r EXCEPT !.status = st, !.task = t, !.started = TRUE, !.lease = @ + 1,
                      !.runs = @ + 1] \in Rows
<1>1. [r EXCEPT !.status = st] \in Rows
  BY DEF Rows
<1>2. [r EXCEPT !.task = t] \in Rows
  BY DEF Rows
<1>3. [r EXCEPT !.status = st, !.task = t] \in Rows
  BY DEF Rows
<1>4. [r EXCEPT !.status = st, !.attempts = n, !.task = t] \in Rows
  BY DEF Rows
<1>5. [r EXCEPT !.status = st, !.task = t, !.started = TRUE, !.lease = @ + 1,
               !.runs = @ + 1] \in Rows
  <2>1. r.lease + 1 \in Nat /\ r.runs + 1 \in Nat
    BY DEF Rows
  <2> QED BY <2>1 DEF Rows
<1> QED BY <1>1, <1>2, <1>3, <1>4, <1>5

LEMMA TypeApi ==
  ASSUME TypeOK, NEW j \in Jobs, ApiNext(j)
  PROVE  TypeOK'
<1> USE DEF NoTask
<1>1. CASE Reserve(j)
  <2>1. api' \in [Jobs -> ApiStates]
    BY <1>1, SetApiType DEF Reserve
  <2> QED BY <1>1, <2>1 DEF Reserve, TypeOK
<1>2. CASE Commit(j)
  <2>1. api' \in [Jobs -> ApiStates]
    BY <1>2, SetApiType DEF Commit
  <2>2. row' \in [Jobs -> Rows]
    <3> DEFINE t == IF Lane[j] = "durable" THEN OwnId ELSE NoTask
    <3>1. t \in Tasks \union {NoTask}
      BY JobsAssumption DEF Tasks, OwnId
    <3>2. [row[j] EXCEPT !.status = "queued", !.task = t] \in Rows
      BY <3>1 DEF TypeOK, Rows
    <3> QED BY <1>2, <3>2 DEF Commit, TypeOK
  <2> QED BY <1>2, <2>1, <2>2 DEF Commit, TypeOK
<1>3. CASE CommitFails(j)
  <2>1. api' \in [Jobs -> ApiStates]
    BY <1>3, SetApiType DEF CommitFails
  <2>2. faults' \in FaultLog
    BY <1>3, FaultType DEF CommitFails
  <2> QED BY <1>3, <2>1, <2>2 DEF CommitFails, TypeOK
<1>4. CASE Dispatch(j)
  <2> DEFINE own == Lane[j] = "durable" /\ api[j].pc = "committed"
             t == IF own THEN OwnId ELSE issued[j] + 1
  <2>1. t \in Tasks /\ issued' \in [Jobs -> Tasks]
    <3>1. CASE own
      BY <1>4, <3>1, JobsAssumption DEF Dispatch, Tasks, OwnId, TypeOK
    <3>2. CASE ~own
      BY <1>4, <3>2, NewTaskType DEF Dispatch
    <3> QED BY <3>1, <3>2
  <2>2. api' \in [Jobs -> ApiStates]
    BY <1>4, <2>1, SetApiType DEF Dispatch
  <2>3. msgs' \in [Jobs -> [Tasks -> 0 .. MaxCopies]]
    BY <1>4, <2>1, SentType DEF Dispatch
  <2> QED BY <1>4, <2>1, <2>2, <2>3 DEF Dispatch, TypeOK
<1>5. CASE DispatchFails(j)
  <2> DEFINE own == Lane[j] = "durable" /\ api[j].pc = "committed"
             t == IF own THEN OwnId ELSE issued[j] + 1
  <2>1. t \in Tasks /\ issued' \in [Jobs -> Tasks]
    <3>1. CASE own
      BY <1>5, <3>1, JobsAssumption DEF DispatchFails, Tasks, OwnId, TypeOK
    <3>2. CASE ~own
      BY <1>5, <3>2, NewTaskType DEF DispatchFails
    <3> QED BY <3>1, <3>2
  <2>2. api' \in [Jobs -> ApiStates]
    BY <1>5, <2>1, SetApiType DEF DispatchFails
  <2>3. msgs' \in [Jobs -> [Tasks -> 0 .. MaxCopies]]
    BY <1>5, <2>1, SentType DEF DispatchFails
  <2>4. faults' \in FaultLog
    BY <1>5, FaultType DEF DispatchFails
  <2> QED BY <1>5, <2>1, <2>2, <2>3, <2>4 DEF DispatchFails, TypeOK
<1>6. CASE PersistTaskId(j)
  <2>1. api' \in [Jobs -> ApiStates]
    BY <1>6, SetApiType DEF PersistTaskId
  <2>2. row' \in [Jobs -> Rows]
    <3>0. row[j] \in Rows /\ api[j] \in ApiStates
      BY DEF TypeOK
    <3>1. [row[j] EXCEPT !.task = api[j].task] \in Rows
      BY <3>0 DEF Rows, ApiStates
    <3> QED BY <1>6, <3>1 DEF PersistTaskId, TypeOK
  <2>3. faults' \in FaultLog
    BY <1>6, FaultType DEF PersistTaskId
  <2> QED BY <1>6, <2>1, <2>2, <2>3 DEF PersistTaskId, TypeOK
<1>7. CASE MarkFailed(j)
  <2>1. api' \in [Jobs -> ApiStates]
    BY <1>7, SetApiType DEF MarkFailed
  <2>2. row' \in [Jobs -> Rows]
    <3>1. [row[j] EXCEPT !.status = "failed"] \in Rows
      BY DEF TypeOK, Rows
    <3> QED BY <1>7, <3>1 DEF MarkFailed, TypeOK
  <2> QED BY <1>7, <2>1, <2>2 DEF MarkFailed, TypeOK
<1>8. CASE ReleaseFailed(j)
  <2>1. api' \in [Jobs -> ApiStates]
    BY <1>8, SetApiType DEF ReleaseFailed
  <2> QED BY <1>8, <2>1 DEF ReleaseFailed, TypeOK
<1>9. CASE ApiCrash(j)
  <2>1. api' \in [Jobs -> ApiStates]
    BY <1>9, SetApiType DEF ApiCrash
  <2>2. faults' \in FaultLog
    BY <1>9, FaultType DEF ApiCrash
  <2> QED BY <1>9, <2>1, <2>2 DEF ApiCrash, TypeOK
<1>10. CASE OperatorRetry(j)
  <2>1. api' \in [Jobs -> ApiStates]
    BY <1>10, SetApiType DEF OperatorRetry
  <2>2. row' \in [Jobs -> Rows]
    <3>1. [row[j] EXCEPT !.status = "queued", !.task = NoTask, !.attempts = 0,
                         !.started = FALSE, !.runs = 0] \in Rows
      BY DEF TypeOK, Rows
    <3> QED BY <1>10, <3>1 DEF OperatorRetry, TypeOK
  <2>3. retries' \in [Jobs -> 0 .. MaxRetries]
    BY <1>10, JobsAssumption DEF OperatorRetry, TypeOK
  <2> QED BY <1>10, <2>1, <2>2, <2>3 DEF OperatorRetry, TypeOK
<1>11. CASE OperatorRetryFails(j)
  <2>1. faults' \in FaultLog
    BY <1>11, FaultType DEF OperatorRetryFails
  <2> QED BY <1>11, <2>1 DEF OperatorRetryFails, TypeOK
<1> QED BY <1>1, <1>2, <1>3, <1>4, <1>5, <1>6, <1>7, <1>8, <1>9, <1>10, <1>11 DEF ApiNext

LEMMA TypeWorker ==
  ASSUME TypeOK, NEW w \in Workers, WorkerNext(w)
  PROVE  TypeOK'
<1> USE DEF NoTask
<1>1. ASSUME NEW j \in Jobs, NEW t \in Tasks, Take(w, j, t)
      PROVE  msgs' \in [Jobs -> [Tasks -> 0 .. MaxCopies]]
  <2>1. msgs[j][t] - 1 \in 0 .. MaxCopies /\ msgs[j] \in [Tasks -> 0 .. MaxCopies]
    BY <1>1, JobsAssumption DEF Take, TypeOK
  <2> QED BY <1>1, <2>1 DEF Take, TypeOK
<1>2. ASSUME NEW j \in Jobs, NEW t \in Tasks, Claim(w, j, t)
      PROVE  TypeOK'
  <2>1. [row[j] EXCEPT !.status = "processing", !.task = t, !.started = TRUE,
                       !.lease = @ + 1, !.runs = @ + 1] \in Rows
    BY RowType DEF TypeOK
  <2>2. row' \in [Jobs -> Rows]
    BY <1>2, <2>1 DEF Claim, TypeOK
  <2>3. worker' \in [Workers -> WorkerStates \union {Idle}]
    BY <1>2 DEF Claim, TypeOK, WorkerStates
  <2> QED BY <1>1, <1>2, <2>2, <2>3 DEF Claim, TypeOK
<1>3. ASSUME NEW j \in Jobs, NEW t \in Tasks, Ignore(w, j, t)
      PROVE  TypeOK'
  <2>1. worker' \in [Workers -> WorkerStates \union {Idle}]
    BY <1>3 DEF Ignore, TypeOK, WorkerStates
  <2>2. faults' \in FaultLog
    BY <1>3, FaultType DEF Ignore
  <2> QED BY <1>1, <1>3, <2>1, <2>2 DEF Ignore, TypeOK
<1>4. CASE Complete(w)
  <2>1. worker[w] # Idle /\ worker[w].job \in Jobs
    BY <1>4, Busy DEF Complete
  <2>2. [row[worker[w].job] EXCEPT !.status = "completed"] \in Rows
    BY <2>1, RowType DEF TypeOK
  <2>3. row' \in [Jobs -> Rows]
    BY <1>4, <2>1, <2>2 DEF Complete, TypeOK
  <2>4. worker' \in [Workers -> WorkerStates \union {Idle}]
    BY <1>4, <2>1, StepType DEF Complete
  <2> QED BY <1>4, <2>3, <2>4 DEF Complete, TypeOK
<1>5. CASE PipelineFails(w)
  <2>1. worker' \in [Workers -> WorkerStates \union {Idle}]
    BY <1>5, Busy, StepType DEF PipelineFails
  <2> QED BY <1>5, <2>1 DEF PipelineFails, TypeOK
<1>6. CASE ReportCompleted(w)
  <2>1. worker' \in [Workers -> WorkerStates \union {Idle}]
    BY <1>6, Busy, StepType DEF ReportCompleted
  <2>2. faults' \in FaultLog
    BY <1>6, FaultType DEF ReportCompleted
  <2> QED BY <1>6, <2>1, <2>2 DEF ReportCompleted, TypeOK
<1>7. CASE SetDbJobFailure(w)
  <2> DEFINE j == worker[w].job
             n == row[j].attempts + 1
             st == IF n >= MaxAttempts THEN "dead" ELSE "failed"
  <2>1. worker[w] # Idle /\ j \in Jobs
    BY <1>7, Busy DEF SetDbJobFailure
  <2>2. [row[j] EXCEPT !.status = st, !.attempts = n, !.task = NoTask] \in Rows
    <3>1. row[j] \in Rows /\ n \in Nat
      BY <2>1 DEF TypeOK, Rows
    <3> QED BY <3>1, RowType
  <2>3. row' \in [Jobs -> Rows]
    BY <1>7, <2>1, <2>2 DEF SetDbJobFailure, TypeOK
  <2>4. worker' \in [Workers -> WorkerStates \union {Idle}]
    BY <1>7, <2>1, StepType DEF SetDbJobFailure
  <2>5. faults' \in FaultLog
    BY <1>7, FaultType DEF SetDbJobFailure
  <2> QED BY <1>7, <2>3, <2>4, <2>5 DEF SetDbJobFailure, TypeOK
<1>8. CASE PublishRetry(w)
  <2>1. worker[w] # Idle /\ worker[w].job \in Jobs
    BY <1>8, Busy DEF PublishRetry
  <2>2. issued[worker[w].job] + 1 \in Tasks /\ issued' \in [Jobs -> Tasks]
    BY <1>8, <2>1, NewTaskType DEF PublishRetry
  <2>3. msgs' \in [Jobs -> [Tasks -> 0 .. MaxCopies]]
    BY <1>8, <2>1, <2>2, SentType DEF PublishRetry
  <2>4. worker' \in [Workers -> WorkerStates \union {Idle}]
    BY <1>8, <2>1, StepType DEF PublishRetry
  <2> QED BY <1>8, <2>2, <2>3, <2>4 DEF PublishRetry, TypeOK
<1>9. CASE RetryFails(w)
  <2>1. worker[w] # Idle /\ worker[w].job \in Jobs
    BY <1>9, Busy DEF RetryFails
  <2>2. issued[worker[w].job] + 1 \in Tasks /\ issued' \in [Jobs -> Tasks]
    BY <1>9, <2>1, NewTaskType DEF RetryFails
  <2>3. msgs' \in [Jobs -> [Tasks -> 0 .. MaxCopies]]
    BY <1>9, <2>1, <2>2, SentType DEF RetryFails
  <2>4. worker' \in [Workers -> WorkerStates \union {Idle}]
    BY <1>9, <2>1, StepType DEF RetryFails
  <2>5. faults' \in FaultLog
    BY <1>9, FaultType DEF RetryFails
  <2> QED BY <1>9, <2>2, <2>3, <2>4, <2>5 DEF RetryFails, TypeOK
<1>10. CASE ForceDeadLetter(w)
  <2>1. worker[w] # Idle /\ worker[w].job \in Jobs
    BY <1>10, Busy DEF ForceDeadLetter
  <2>2. [row[worker[w].job] EXCEPT !.status = "dead", !.task = NoTask] \in Rows
    BY <2>1, RowType DEF TypeOK
  <2>3. row' \in [Jobs -> Rows]
    BY <1>10, <2>1, <2>2 DEF ForceDeadLetter, TypeOK
  <2>4. worker' \in [Workers -> WorkerStates \union {Idle}]
    BY <1>10, <2>1, StepType DEF ForceDeadLetter
  <2>5. faults' \in FaultLog
    BY <1>10, FaultType DEF ForceDeadLetter
  <2> QED BY <1>10, <2>3, <2>4, <2>5 DEF ForceDeadLetter, TypeOK
<1>11. CASE ReportFailedRaises(w)
  <2>1. worker' \in [Workers -> WorkerStates \union {Idle}]
    BY <1>11, Busy, StepType DEF ReportFailedRaises
  <2>2. faults' \in FaultLog
    BY <1>11, FaultType DEF ReportFailedRaises
  <2> QED BY <1>11, <2>1, <2>2 DEF ReportFailedRaises, TypeOK
<1>12. CASE PostRun(w)
  BY <1>12 DEF PostRun, TypeOK
<1>13. CASE WorkerCrash(w)
  <2>1. worker[w].job \in Jobs /\ worker[w].task \in Tasks
    BY <1>13, Busy DEF WorkerCrash
  <2>2. msgs' \in [Jobs -> [Tasks -> 0 .. MaxCopies]]
    BY <1>13, <2>1, SentType DEF WorkerCrash
  <2>3. faults' \in FaultLog
    BY <1>13, FaultType DEF WorkerCrash
  <2> QED BY <1>13, <2>2, <2>3 DEF WorkerCrash, TypeOK
<1>14. CASE HardTimeLimit(w)
  <2>1. faults' \in FaultLog
    BY <1>14, FaultType DEF HardTimeLimit
  <2> QED BY <1>14, <2>1 DEF HardTimeLimit, TypeOK
<1> QED
  BY <1>2, <1>3, <1>4, <1>5, <1>6, <1>7, <1>8, <1>9, <1>10, <1>11, <1>12, <1>13, <1>14
  DEF WorkerNext

LEMMA TypeWatch ==
  ASSUME TypeOK, NEW d \in Watchdogs, WatchNext(d)
  PROVE  TypeOK'
<1> USE DEF NoTask
<1>1. ASSUME NEW j \in Jobs, Select(d, j)
      PROVE  TypeOK'
  <2>1. row[j].attempts \in Nat /\ row[j].lease \in Nat /\ QueuedAt(j) \in Nat
    BY JobsAssumption DEF TypeOK, Rows, QueuedAt
  <2>2. watch' \in [Watchdogs -> WatchStates \union {Idle}]
    BY <1>1, <2>1 DEF Select, TypeOK, WatchStates
  <2> QED BY <1>1, <2>2 DEF Select, TypeOK
<1>2. CASE RequeueStale(d)
  <2> DEFINE j == watch[d].job
  <2>1. watch[d] # Idle /\ j \in Jobs /\ watch[d].attempts + 1 \in Nat
    BY <1>2, Busy DEF RequeueStale
  <2>2. [row[j] EXCEPT !.status = "queued", !.attempts = watch[d].attempts + 1,
                       !.task = NoTask] \in Rows
    BY <2>1, RowType DEF TypeOK
  <2>3. row' \in [Jobs -> Rows]
    BY <1>2, <2>1, <2>2 DEF RequeueStale, TypeOK
  <2>4. watch' \in [Watchdogs -> WatchStates \union {Idle}]
    <3>1. CASE Watch(d, "publish")
      BY <2>1, <3>1, WatchType
    <3>2. CASE watch' = [watch EXCEPT ![d] = Idle]
      BY <3>2 DEF TypeOK
    <3> QED BY <1>2, <3>1, <3>2 DEF RequeueStale
  <2> QED BY <1>2, <2>3, <2>4 DEF RequeueStale, TypeOK
<1>3. CASE MarkDead(d)
  <2> DEFINE j == watch[d].job
  <2>1. watch[d] # Idle /\ j \in Jobs /\ watch[d].attempts + 1 \in Nat
    BY <1>3, Busy DEF MarkDead
  <2>2. [row[j] EXCEPT !.status = "dead", !.attempts = watch[d].attempts + 1,
                       !.task = NoTask] \in Rows
    BY <2>1, RowType DEF TypeOK
  <2>3. row' \in [Jobs -> Rows]
    BY <1>3, <2>1, <2>2 DEF MarkDead, TypeOK
  <2>4. watch' \in [Watchdogs -> WatchStates \union {Idle}]
    BY <1>3, <2>1, WatchType DEF MarkDead
  <2> QED BY <1>3, <2>3, <2>4 DEF MarkDead, TypeOK
<1>4. CASE ReleaseDead(d)
  BY <1>4 DEF ReleaseDead, TypeOK
<1>5. CASE PublishStale(d)
  <2>1. watch[d].job \in Jobs
    BY <1>5, Busy DEF PublishStale
  <2>2. issued[watch[d].job] + 1 \in Tasks /\ issued' \in [Jobs -> Tasks]
    BY <1>5, <2>1, NewTaskType DEF PublishStale
  <2>3. msgs' \in [Jobs -> [Tasks -> 0 .. MaxCopies]]
    BY <1>5, <2>1, <2>2, SentType DEF PublishStale
  <2>4. faults' \in FaultLog
    BY <1>5, FaultType DEF PublishStale
  <2> QED BY <1>5, <2>2, <2>3, <2>4 DEF PublishStale, TypeOK
<1>6. CASE RecoverQueued(d)
  <2> DEFINE j == watch[d].job
             t == issued[j] + 1
  <2>1. watch[d] # Idle /\ j \in Jobs
    BY <1>6, Busy DEF RecoverQueued
  <2>2. CASE UNCHANGED <<issued, row>> /\ watch' = [watch EXCEPT ![d] = Idle]
    BY <1>6, <2>2 DEF RecoverQueued, TypeOK
  <2>3. CASE /\ NewTask(j)
             /\ row' = [row EXCEPT ![j].task = t]
             /\ watch' = [watch EXCEPT ![d].pc = "dispatch", ![d].task = t]
    <3>1. t \in Tasks /\ issued' \in [Jobs -> Tasks]
      BY <2>1, <2>3, NewTaskType
    <3>2. [row[j] EXCEPT !.task = t] \in Rows
      BY <2>1, <3>1, RowType DEF TypeOK
    <3>3. row' \in [Jobs -> Rows]
      BY <2>1, <2>3, <3>2 DEF TypeOK
    <3>4. watch' \in [Watchdogs -> WatchStates \union {Idle}]
      BY <2>1, <2>3, <3>1, WatchType
    <3> QED BY <1>6, <3>1, <3>3, <3>4 DEF RecoverQueued, TypeOK
  <2> QED BY <1>6, <2>2, <2>3 DEF RecoverQueued
<1>7. CASE DispatchRecovered(d)
  <2>1. watch[d] # Idle /\ watch[d].job \in Jobs
    BY <1>7, Busy DEF DispatchRecovered
  <2>2. watch' \in [Watchdogs -> WatchStates \union {Idle}]
    <3>1. CASE Watch(d, "undo")
      BY <2>1, <3>1, WatchType
    <3>2. CASE watch' = [watch EXCEPT ![d] = Idle]
      BY <3>2 DEF TypeOK
    <3> QED BY <1>7, <3>1, <3>2 DEF DispatchRecovered
  <2>3. faults' \in FaultLog
    BY <1>7, FaultType DEF DispatchRecovered
  <2>4. msgs' \in [Jobs -> [Tasks -> 0 .. MaxCopies]]
    BY <1>7, <2>1, Busy, SentType DEF DispatchRecovered
  <2> QED BY <1>7, <2>2, <2>3, <2>4 DEF DispatchRecovered, TypeOK
<1>8. CASE UndoRecovery(d)
  <2>1. watch[d].job \in Jobs
    BY <1>8, Busy DEF UndoRecovery
  <2>2. [row[watch[d].job] EXCEPT !.task = NoTask] \in Rows
    BY <2>1, RowType DEF TypeOK
  <2>3. row' \in [Jobs -> Rows]
    BY <1>8, <2>1, <2>2 DEF UndoRecovery, TypeOK
  <2> QED BY <1>8, <2>3 DEF UndoRecovery, TypeOK
<1>9. CASE WatchdogCrash(d)
  <2>1. faults' \in FaultLog
    BY <1>9, FaultType DEF WatchdogCrash
  <2> QED BY <1>9, <2>1 DEF WatchdogCrash, TypeOK
<1> QED BY <1>1, <1>2, <1>3, <1>4, <1>5, <1>6, <1>7, <1>8, <1>9 DEF WatchNext

\* Every state of the system has its type: no id beyond the generated ones,
\* no status but the enumerated ones, whatever fails and whoever interleaves.
THEOREM TypeCorrect == Spec => []TypeOK
<1>1. TypeOK /\ [Next]_vars => TypeOK'
  <2> SUFFICES ASSUME TypeOK, [Next]_vars PROVE TypeOK'
    OBVIOUS
  <2>1. ASSUME NEW j \in Jobs, RecoverDispatch(j) PROVE TypeOK'
    <3>1. CASE row[j].task = NoTask
      <4> OwnId \in Tasks \union {NoTask}
        BY JobsAssumption DEF Tasks, OwnId
      <4>1. [row[j] EXCEPT !.task = OwnId] \in Rows
        BY RowType DEF TypeOK
      <4>2. row' \in [Jobs -> Rows]
        BY <2>1, <3>1, <4>1 DEF RecoverDispatch, TypeOK
      <4> QED BY <2>1, <3>1, <4>2 DEF RecoverDispatch, TypeOK
    <3>2. CASE row[j].task # NoTask
      <4>1. row[j].task \in Tasks
        BY <3>2 DEF TypeOK, Rows
      <4>2. msgs' \in [Jobs -> [Tasks -> 0 .. MaxCopies]]
        BY <2>1, <3>2, <4>1, SentType DEF RecoverDispatch
      <4> QED BY <2>1, <3>2, <4>2 DEF RecoverDispatch, TypeOK
    <3> QED BY <3>1, <3>2
  <2>2. ASSUME NEW j \in Jobs, ChangeAuthority(j) PROVE TypeOK'
    BY <2>2 DEF ChangeAuthority, TypeOK
  <2>3. CASE UNCHANGED vars
    BY <2>3 DEF vars, TypeOK
  <2> QED BY <2>1, <2>2, <2>3, TypeApi, TypeWorker, TypeWatch DEF Next
<1> QED BY <1>1, TypeInit, PTL DEF Spec

-----------------------------------------------------------------------------
(* No job has two runners.                                                 *)

JobInv(j) ==
  /\ Unadmitted(j)
  /\ Unconditional(j)
  /\ Trusted(j) => Exclusive(j) /\ StaleLease(j)

\* A step never brings the code's promises back: a job it leaves trusted was
\* trusted before.
KeepsTrust(j) == Trusted(j)' => Trusted(j)

LEMMA TrustKept ==
  ASSUME NEW j \in Jobs, api'[j] = api[j], retries'[j] = retries[j]
  PROVE  KeepsTrust(j)
  BY DEF KeepsTrust, Trusted, FailedByApi, Steady

LEMMA TrustApi ==
  ASSUME TypeOK, NEW i \in Jobs, NEW j \in Jobs, ApiNext(i)
  PROVE  KeepsTrust(j)
<1>1. CASE OperatorRetry(i) /\ j = i
  <2>1. retries'[j] # 0
    BY <1>1, JobsAssumption DEF OperatorRetry, TypeOK
  <2> QED BY <2>1 DEF KeepsTrust, Trusted, Steady
<1>2. CASE OperatorRetry(i) /\ j # i
  <2>1. api'[j] = api[j] /\ retries'[j] = retries[j]
    BY <1>2 DEF OperatorRetry, SetApi, TypeOK
  <2> QED BY <2>1, TrustKept
<1>3. CASE OperatorRetryFails(i)
  BY <1>3, TrustKept DEF OperatorRetryFails
<1>4. CASE ~OperatorRetry(i) /\ ~OperatorRetryFails(i)
  <2>1. UNCHANGED retries /\ \E pc, t : SetApi(i, pc, t) /\ (FailedByApi(i) => pc = "failed")
    BY <1>4 DEF ApiNext, Reserve, Commit, CommitFails, Dispatch, DispatchFails, PersistTaskId,
                MarkFailed, ReleaseFailed, ApiCrash, FailedByApi
  <2>2. FailedByApi(j) => FailedByApi(j)'
    BY <2>1 DEF SetApi, TypeOK, FailedByApi
  <2> QED BY <2>1, <2>2 DEF KeepsTrust, Trusted, Steady
<1> QED BY <1>1, <1>2, <1>3, <1>4

LEMMA RunnerInit == Init => RunnerInv
  BY DEF Init, RunnerInv, Unadmitted, Unconditional, Exclusive, StaleLease, Holds,
         Handles, Running, Idle

\* A job that a step neither writes nor takes up keeps its invariant.
LEMMA Frame ==
  ASSUME NEW j \in Jobs, JobInv(j),
         row'[j] = row[j], api'[j] = api[j], msgs'[j] = msgs[j], retries'[j] = retries[j],
         \A w \in Workers : Holds(w, j)' => worker'[w] = worker[w],
         \A d \in Watchdogs : Handles(d, j)' => watch'[d] = watch[d]
  PROVE  JobInv(j)'
<1>1. Unadmitted(j)'
  BY DEF JobInv, Unadmitted, Holds, Handles
<1>2. Unconditional(j)'
  BY DEF JobInv, Unconditional, Holds
<1>3. \A w \in Workers : Running(w, j)' => Running(w, j)
  BY DEF Running, Holds
<1>4. ASSUME Trusted(j)' PROVE Trusted(j)
  BY <1>4 DEF Trusted, FailedByApi, Steady
<1>5. ASSUME Exclusive(j) PROVE Exclusive(j)'
  BY <1>3, <1>5 DEF Exclusive, Steady
<1>6. ASSUME StaleLease(j) PROVE StaleLease(j)'
  BY <1>3, <1>6 DEF StaleLease, Steady, Handles
<1> QED BY <1>1, <1>2, <1>4, <1>5, <1>6 DEF JobInv

\* A step of a request that leaves the row alone.
LEMMA ApiFrame ==
  ASSUME TypeOK, RunnerInv, NEW i \in Jobs, NEW pc, NEW t, SetApi(i, pc, t),
         UNCHANGED <<row, worker, watch, retries>>,
         \A j \in Jobs : j # i => msgs'[j] = msgs[j],
         pc \in {"idle", "reserved"} => row[i].status = "none",
         row[i].status = "none" =>
           /\ pc \notin {"committed", "retried", "published", "unsent"}
           /\ \A u \in Tasks : msgs'[i][u] = 0,
         pc \in {"unsent", "marked", "failed"} => Lane[i] = "plain" /\ "publish" \in Faults,
         KeepsTrust(i)
  PROVE  RunnerInv'
<1> SUFFICES ASSUME NEW j \in Jobs PROVE JobInv(j)'
  BY DEF RunnerInv, JobInv
<1>1. JobInv(j)
  BY DEF RunnerInv, JobInv
<1>2. CASE j # i
  <2>1. api'[j] = api[j]
    BY <1>2 DEF SetApi, TypeOK
  <2> QED BY <1>1, <1>2, <2>1, Frame DEF Holds, Handles
<1>3. CASE j = i
  <2>1. api'[i].pc = pc
    BY DEF SetApi, TypeOK
  <2>2. Unadmitted(i)'
    BY <1>1, <1>3, <2>1 DEF JobInv, Unadmitted, Holds, Handles
  <2>3. Unconditional(i)'
    BY <1>1, <1>3, <2>1 DEF JobInv, Unconditional, Holds
  <2>4. Exclusive(i)' = Exclusive(i) /\ StaleLease(i)' = StaleLease(i)
    BY DEF Steady, Exclusive, StaleLease, Running, Handles
  <2> QED BY <1>1, <1>3, <2>2, <2>3, <2>4 DEF JobInv, KeepsTrust
<1> QED BY <1>2, <1>3

LEMMA RunnerApi ==
  ASSUME TypeOK, RunnerInv, NEW i \in Jobs, ApiNext(i)
  PROVE  RunnerInv'
<1>0. Unadmitted(i) /\ Unconditional(i) /\ KeepsTrust(i)
  BY TrustApi DEF RunnerInv
<1>1. CASE Reserve(i)
  BY <1>0, <1>1, ApiFrame DEF Reserve, Unadmitted
<1>3. CASE CommitFails(i)
  BY <1>0, <1>3, ApiFrame DEF CommitFails, Unadmitted
<1>4. CASE Dispatch(i)
  <2>1. row[i].status # "none"
    BY <1>0, <1>4 DEF Dispatch, Unadmitted
  <2>2. \A j \in Jobs : j # i => msgs'[j] = msgs[j]
    BY <1>4 DEF Dispatch, Sent, TypeOK
  <2> QED BY <1>0, <1>4, <2>1, <2>2, ApiFrame DEF Dispatch
<1>5. CASE DispatchFails(i)
  <2>1. row[i].status # "none"
    BY <1>0, <1>5 DEF DispatchFails, Unadmitted
  <2>2. \A j \in Jobs : j # i => msgs'[j] = msgs[j]
    BY <1>5 DEF DispatchFails, Sent, Unsent, TypeOK
  <2>3. "publish" \in Faults
    BY <1>5 DEF DispatchFails, Fault
  <2> QED BY <1>0, <1>5, <2>1, <2>2, <2>3, ApiFrame DEF DispatchFails
<1>8. CASE ReleaseFailed(i)
  BY <1>0, <1>8, ApiFrame DEF ReleaseFailed, Unadmitted, Unconditional
<1>9. CASE ApiCrash(i)
  BY <1>0, <1>9, ApiFrame DEF ApiCrash, Unadmitted, Unconditional
<1>11. CASE OperatorRetryFails(i)
  <2> SUFFICES ASSUME NEW j \in Jobs PROVE JobInv(j)'
    BY DEF RunnerInv, JobInv
  <2> QED BY <1>11, Frame DEF RunnerInv, JobInv, OperatorRetryFails, Holds, Handles
<1>12. ASSUME Commit(i) \/ PersistTaskId(i) \/ MarkFailed(i) \/ OperatorRetry(i),
              NEW j \in Jobs, j # i
       PROVE  JobInv(j)'
  <2>1. row'[j] = row[j] /\ api'[j] = api[j] /\ retries'[j] = retries[j]
    BY <1>12 DEF Commit, PersistTaskId, MarkFailed, OperatorRetry, SetApi, TypeOK
  <2>2. UNCHANGED <<msgs, worker, watch>>
    BY <1>12 DEF Commit, PersistTaskId, MarkFailed, OperatorRetry
  <2> QED BY <2>1, <2>2, Frame DEF RunnerInv, JobInv, Holds, Handles
<1>2. CASE Commit(i)
  <2>1. row[i].status = "none" /\ row'[i].status = "queued" /\ api'[i].pc = "committed"
    BY <1>0, <1>2 DEF Commit, Unadmitted, SetApi, TypeOK, Rows
  <2>2. UNCHANGED <<msgs, worker, watch, retries>>
    BY <1>2 DEF Commit
  <2>3. \A w \in Workers : ~Running(w, i)'
    BY <1>0, <2>1, <2>2 DEF Unadmitted, Holds, Running
  <2>4. \A d \in Watchdogs : ~Handles(d, i)'
    BY <1>0, <2>1, <2>2 DEF Unadmitted, Handles
  <2>5. JobInv(i)'
    BY <1>0, <2>1, <2>2, <2>3, <2>4
    DEF JobInv, Unadmitted, Unconditional, Exclusive, StaleLease, Holds
  <2> QED BY <1>2, <1>12, <2>5 DEF RunnerInv, JobInv
<1>6. CASE PersistTaskId(i)
  <2>1. row'[i].status = row[i].status /\ row'[i].lease = row[i].lease /\ api'[i].pc = "done"
    BY <1>6 DEF PersistTaskId, SetApi, TypeOK, Rows
  <2>2. UNCHANGED <<msgs, worker, watch, retries>>
    BY <1>6 DEF PersistTaskId
  <2>3. Unadmitted(i)' /\ Unconditional(i)'
    BY <1>0, <2>1, <2>2 DEF Unadmitted, Unconditional, Holds, Handles
  <2>4. /\ Exclusive(i) => Exclusive(i)'
        /\ StaleLease(i) => StaleLease(i)'
    BY <2>1, <2>2 DEF Steady, Exclusive, StaleLease, Running, Handles
  <2> QED BY <1>0, <1>6, <1>12, <2>3, <2>4 DEF RunnerInv, JobInv, KeepsTrust
<1>7. CASE MarkFailed(i)
  <2>1. ~Trusted(i)'
    BY <1>0, <1>7 DEF MarkFailed, Unconditional, Trusted, FailedByApi, SetApi, TypeOK
  <2>2. /\ api[i].pc = "unsent" /\ api'[i].pc = "marked"
        /\ row'[i].status = "failed" /\ UNCHANGED worker
    BY <1>7 DEF MarkFailed, SetApi, TypeOK, Rows
  <2>3. Unadmitted(i)' /\ Unconditional(i)'
    BY <1>0, <2>2 DEF Unadmitted, Unconditional, Holds
  <2> QED BY <1>7, <1>12, <2>1, <2>3 DEF RunnerInv, JobInv
<1>10. CASE OperatorRetry(i)
  <2>1. /\ row[i].status = "dead" /\ row'[i].status = "queued"
        /\ api'[i].pc = "retried" /\ retries'[i] # 0
        /\ UNCHANGED <<msgs, worker, watch>>
    BY <1>10, JobsAssumption DEF OperatorRetry, SetApi, TypeOK, Rows
  <2>2. Unadmitted(i)' /\ Unconditional(i)'
    BY <1>0, <2>1 DEF Unadmitted, Unconditional, Holds
  <2>3. ASSUME Trusted(i)' PROVE Exclusive(i)' /\ StaleLease(i)'
    <3>1. Steady /\ Trusted(i)
      BY <2>1, <2>3 DEF Trusted, FailedByApi, Steady
    <3>2. Exclusive(i) /\ StaleLease(i)
      BY <3>1 DEF RunnerInv
    <3>3. \A w \in Workers : ~Running(w, i)'
      BY <2>1, <3>1, <3>2 DEF Exclusive, Running
    <3>4. \A d \in Watchdogs : ~(Handles(d, i)' /\ watch'[d].pc = "stale")
      BY <2>1, <3>1, <3>2 DEF StaleLease, Handles
    <3> QED BY <3>3, <3>4 DEF Exclusive, StaleLease
  <2> QED BY <1>10, <1>12, <2>2, <2>3 DEF RunnerInv, JobInv
<1> QED
  BY <1>1, <1>2, <1>3, <1>4, <1>5, <1>6, <1>7, <1>8, <1>9, <1>10, <1>11 DEF ApiNext

\* What a step of worker w on job i leaves alone.
LEMMA WorkerOthers ==
  ASSUME TypeOK, RunnerInv, NEW w \in Workers, NEW i \in Jobs,
         UNCHANGED <<api, watch, retries>>,
         \A j \in Jobs : j # i => row'[j] = row[j] /\ msgs'[j] = msgs[j],
         \A v \in Workers : v # w => worker'[v] = worker[v],
         worker'[w] # Idle => worker'[w].job = i,
         NEW j \in Jobs, j # i
  PROVE  JobInv(j)'
<1>1. JobInv(j)
  BY DEF RunnerInv, JobInv
<1>2. \A v \in Workers : Holds(v, j)' => worker'[v] = worker[v]
  BY DEF Holds
<1>3. \A d \in Watchdogs : Handles(d, j)' => watch'[d] = watch[d]
  OBVIOUS
<1> QED BY <1>1, <1>2, <1>3, Frame

\* A worker moves on, or is lost, without writing the row.
LEMMA WorkerFrame ==
  ASSUME TypeOK, RunnerInv, NEW w \in Workers, NEW i \in Jobs, Holds(w, i),
         UNCHANGED <<row, api, watch, retries>>,
         \A j \in Jobs : j # i => msgs'[j] = msgs[j],
         \A v \in Workers : v # w => worker'[v] = worker[v],
         worker'[w] # Idle =>
           /\ worker'[w].job = i
           /\ worker'[w].pc \in {"run", "completed", "failing"} =>
                worker[w].pc \in {"run", "completed", "failing"}
           /\ worker'[w].pc = "unretried" => "retry" \in Faults
  PROVE  RunnerInv'
<1> SUFFICES ASSUME NEW j \in Jobs PROVE JobInv(j)'
  BY DEF RunnerInv, JobInv
<1>1. CASE j # i
  BY <1>1, WorkerOthers
<1>2. CASE j = i
  <2>1. JobInv(i)
    BY DEF RunnerInv, JobInv
  <2>2. row[i].status # "none"
    BY <2>1 DEF JobInv, Unadmitted
  <2>3. Unadmitted(i)'
    BY <2>1, <2>2 DEF JobInv, Unadmitted
  <2>4. \A v \in Workers : Running(v, i)' => Running(v, i)
    BY DEF Running, Holds
  <2>5. Unconditional(i)'
    BY <2>1 DEF JobInv, Unconditional, Holds
  <2>6. Trusted(i)' => Exclusive(i)' /\ StaleLease(i)'
    BY <2>1, <2>4 DEF JobInv, Trusted, FailedByApi, Steady, Exclusive, StaleLease, Handles
  <2> QED BY <1>2, <2>3, <2>5, <2>6 DEF JobInv
<1> QED BY <1>1, <1>2

LEMMA RunnerWorker ==
  ASSUME TypeOK, RunnerInv, NEW w \in Workers, WorkerNext(w)
  PROVE  RunnerInv'
<1>1. ASSUME NEW i \in Jobs, NEW t \in Tasks, Claim(w, i, t)
      PROVE  RunnerInv'
  <2>1. /\ row[i].status \in {"queued", "failed"}
        /\ row'[i].status = "processing" /\ row'[i].lease = row[i].lease + 1
        /\ worker[w] = Idle /\ worker'[w] = [pc |-> "run", job |-> i, task |-> t]
        /\ \A v \in Workers : v # w => worker'[v] = worker[v]
        /\ UNCHANGED <<api, watch, retries>>
        /\ \A j \in Jobs : j # i => row'[j] = row[j] /\ msgs'[j] = msgs[j]
    BY <1>1 DEF Claim, Claimable, Take, TypeOK, Rows
  <2>2. \A j \in Jobs : j # i => JobInv(j)'
    BY <2>1, WorkerOthers
  <2>3. JobInv(i)
    BY DEF RunnerInv, JobInv
  <2>4. Unadmitted(i)' /\ Unconditional(i)'
    BY <2>1, <2>3 DEF JobInv, Unadmitted, Unconditional, Holds
  <2>5. ASSUME Trusted(i)' PROVE Exclusive(i)' /\ StaleLease(i)'
    <3>1. Exclusive(i) /\ StaleLease(i)
      BY <2>1, <2>3, <2>5 DEF JobInv, Trusted, FailedByApi, Steady
    <3>2. \A v \in Workers : ~Running(v, i)
      BY <2>1, <3>1 DEF Exclusive
    <3>3. Exclusive(i)'
      BY <2>1, <3>2 DEF Exclusive, Running
    <3>4. \A d \in Watchdogs : Handles(d, i) /\ watch[d].pc = "stale" =>
            watch[d].lease \in Nat /\ watch[d].lease <= row[i].lease
      BY <3>1, Busy DEF StaleLease, Handles
    <3>5. row[i].lease \in Nat
      BY DEF TypeOK, Rows
    <3>6. StaleLease(i)'
      BY <2>1, <3>1, <3>4, <3>5 DEF StaleLease, Handles, Steady
    <3> QED BY <3>3, <3>6
  <2> QED BY <2>2, <2>4, <2>5 DEF RunnerInv, JobInv
<1>2. ASSUME NEW i \in Jobs, NEW t \in Tasks, Ignore(w, i, t)
      PROVE  RunnerInv'
  <2>1. /\ worker[w] = Idle /\ worker'[w] = [pc |-> "release", job |-> i, task |-> t]
        /\ \A v \in Workers : v # w => worker'[v] = worker[v]
        /\ UNCHANGED <<row, api, watch, retries>>
        /\ \A j \in Jobs : j # i => msgs'[j] = msgs[j]
        /\ msgs[i][t] # 0
    BY <1>2, JobsAssumption DEF Ignore, Take, TypeOK
  <2>2. \A j \in Jobs : j # i => JobInv(j)'
    BY <2>1, WorkerOthers
  <2>3. JobInv(i) /\ row[i].status # "none"
    BY <2>1 DEF RunnerInv, JobInv, Unadmitted
  <2>4. Unadmitted(i)' /\ Unconditional(i)'
    BY <2>1, <2>3 DEF JobInv, Unadmitted, Unconditional, Holds
  <2>5. \A v \in Workers : Running(v, i)' => Running(v, i)
    BY <2>1 DEF Running
  <2>6. Trusted(i)' => Exclusive(i)' /\ StaleLease(i)'
    BY <2>1, <2>3, <2>5 DEF JobInv, Trusted, FailedByApi, Steady, Exclusive, StaleLease, Handles
  <2> QED BY <2>2, <2>4, <2>6 DEF RunnerInv, JobInv
<1>3. CASE Complete(w)
  <2>0. PICK i \in Jobs : i = worker[w].job /\ worker[w] # Idle /\ Running(w, i)
    BY <1>3, Busy DEF Complete, Running
  <2>1. /\ row'[i].status = "completed" /\ row'[i].lease = row[i].lease
        /\ worker'[w].pc = "completed" /\ worker'[w].job = i
        /\ \A v \in Workers : v # w => worker'[v] = worker[v]
        /\ UNCHANGED <<api, watch, retries, msgs>>
        /\ \A j \in Jobs : j # i => row'[j] = row[j]
    BY <1>3, <2>0, Busy DEF Complete, Step, TypeOK, Rows, WorkerStates
  <2>2. \A j \in Jobs : j # i => JobInv(j)'
    BY <2>0, <2>1, WorkerOthers
  <2>3. JobInv(i)
    BY <2>0 DEF RunnerInv, JobInv
  <2>4. row[i].status # "none"
    BY <2>0, <2>3 DEF JobInv, Unadmitted, Holds
  <2>5. Unadmitted(i)' /\ Unconditional(i)'
    BY <2>1, <2>3, <2>4 DEF JobInv, Unadmitted, Unconditional, Holds
  <2>6. ASSUME Trusted(i)' PROVE Exclusive(i)' /\ StaleLease(i)'
    <3>1. Exclusive(i) /\ StaleLease(i)
      BY <2>1, <2>3, <2>6 DEF JobInv, Trusted, FailedByApi, Steady
    <3>2. \A v \in Workers : Running(v, i)' => Running(v, i)
      BY <2>0, <2>1 DEF Running
    <3>3. Exclusive(i)'
      BY <2>1, <3>1, <3>2 DEF Exclusive
    <3>4. StaleLease(i)'
      BY <2>0, <2>1, <3>1 DEF StaleLease, Handles, Steady
    <3> QED BY <3>3, <3>4
  <2> QED BY <2>2, <2>5, <2>6 DEF RunnerInv, JobInv
<1>4. CASE SetDbJobFailure(w) /\ ~Fault("db")
  <2>0. PICK i \in Jobs : i = worker[w].job /\ worker[w] # Idle /\ Running(w, i)
    BY <1>4, Busy DEF SetDbJobFailure, Running
  <2>1. /\ row'[i].status \in {"dead", "failed"} /\ row'[i].lease = row[i].lease
        /\ worker'[w].pc \in {"release", "failed"} /\ worker'[w].job = i
        /\ \A v \in Workers : v # w => worker'[v] = worker[v]
        /\ UNCHANGED <<api, watch, retries, msgs>>
        /\ \A j \in Jobs : j # i => row'[j] = row[j]
    BY <1>4, <2>0, Busy DEF SetDbJobFailure, Step, TypeOK, Rows, WorkerStates
  <2>2. \A j \in Jobs : j # i => JobInv(j)'
    BY <2>0, <2>1, WorkerOthers
  <2>3. JobInv(i)
    BY <2>0 DEF RunnerInv, JobInv
  <2>4. row[i].status # "none"
    BY <2>0, <2>3 DEF JobInv, Unadmitted, Holds
  <2>5. Unadmitted(i)' /\ Unconditional(i)'
    BY <2>1, <2>3, <2>4 DEF JobInv, Unadmitted, Unconditional, Holds
  <2>6. ASSUME Trusted(i)' PROVE Exclusive(i)' /\ StaleLease(i)'
    <3>1. Exclusive(i) /\ StaleLease(i)
      BY <2>1, <2>3, <2>6 DEF JobInv, Trusted, FailedByApi, Steady
    <3>2. \A v \in Workers : ~Running(v, i)'
      BY <2>0, <2>1, <3>1 DEF Running, Exclusive
    <3>3. Exclusive(i)'
      BY <3>2 DEF Exclusive
    <3>4. StaleLease(i)'
      BY <2>0, <2>1, <3>1, <3>2 DEF StaleLease, Handles, Steady
    <3> QED BY <3>3, <3>4
  <2> QED BY <2>2, <2>5, <2>6 DEF RunnerInv, JobInv
<1>5. CASE ForceDeadLetter(w) /\ ~Fault("db")
  <2>0. PICK i \in Jobs : i = worker[w].job /\ worker[w] # Idle /\ Holds(w, i) /\ worker[w].pc = "unretried"
    BY <1>5, Busy DEF ForceDeadLetter, Holds
  <2>1. /\ row'[i].status = "dead" /\ row'[i].lease = row[i].lease
        /\ worker'[w].pc = "release" /\ worker'[w].job = i
        /\ \A v \in Workers : v # w => worker'[v] = worker[v]
        /\ UNCHANGED <<api, watch, retries, msgs>>
        /\ \A j \in Jobs : j # i => row'[j] = row[j]
    <3>1. /\ row' = [row EXCEPT ![i].status = "dead", ![i].task = NoTask]
          /\ Step(w, "release") /\ UNCHANGED <<api, watch, retries, msgs>>
      BY <1>5, <2>0 DEF ForceDeadLetter
    <3>2. /\ row'[i].status = "dead" /\ row'[i].lease = row[i].lease
          /\ \A j \in Jobs : j # i => row'[j] = row[j]
      BY <3>1 DEF TypeOK, Rows
    <3>3. /\ worker'[w].pc = "release" /\ worker'[w].job = i
          /\ \A v \in Workers : v # w => worker'[v] = worker[v]
      BY <2>0, <3>1, Busy DEF Step, TypeOK, WorkerStates
    <3> QED BY <3>1, <3>2, <3>3
  <2>2. \A j \in Jobs : j # i => JobInv(j)'
    BY <2>0, <2>1, WorkerOthers
  <2>3. JobInv(i) /\ ~Steady
    BY <2>0 DEF RunnerInv, JobInv, Unconditional, Steady
  <2>4. row[i].status # "none"
    BY <2>0, <2>3 DEF JobInv, Unadmitted
  <2>5. Unadmitted(i)' /\ Unconditional(i)'
    BY <2>1, <2>3, <2>4 DEF JobInv, Unadmitted, Unconditional, Holds
  <2>6. ASSUME Trusted(i)' PROVE Exclusive(i)' /\ StaleLease(i)'
    <3>1. Exclusive(i) /\ StaleLease(i)
      BY <2>1, <2>3, <2>6 DEF JobInv, Trusted, FailedByApi, Steady
    <3>2. \A v \in Workers : Running(v, i)' => Running(v, i)
      BY <2>0, <2>1 DEF Running
    <3>3. Exclusive(i)'
      BY <2>1, <2>3, <3>1, <3>2 DEF Exclusive, Steady
    <3>4. StaleLease(i)'
      BY <2>1, <2>3, <3>1 DEF StaleLease, Handles, Steady
    <3> QED BY <3>3, <3>4
  <2> QED BY <2>2, <2>5, <2>6 DEF RunnerInv, JobInv
<1>6. ASSUME \/ PipelineFails(w) \/ ReportCompleted(w) \/ PublishRetry(w) \/ RetryFails(w)
             \/ ReportFailedRaises(w)
             \/ SetDbJobFailure(w) /\ UNCHANGED row
             \/ ForceDeadLetter(w) /\ UNCHANGED row
      PROVE  RunnerInv'
  <2>0. PICK i \in Jobs : i = worker[w].job /\ worker[w] # Idle /\ Holds(w, i) /\ worker[w] \in WorkerStates
    BY <1>6, Busy DEF PipelineFails, ReportCompleted, PublishRetry, RetryFails,
                      ReportFailedRaises, SetDbJobFailure, ForceDeadLetter, Holds
  <2>1. UNCHANGED <<row, api, watch, retries>>
    BY <1>6 DEF PipelineFails, ReportCompleted, PublishRetry, RetryFails,
                ReportFailedRaises, SetDbJobFailure, ForceDeadLetter
  <2>2. \A j \in Jobs : j # i => msgs'[j] = msgs[j]
    BY <1>6, <2>0 DEF PipelineFails, ReportCompleted, PublishRetry, RetryFails, Sent, Unsent,
                ReportFailedRaises, SetDbJobFailure, ForceDeadLetter, TypeOK
  <2>3. PICK pc : /\ Step(w, pc)
                  /\ pc \in {"run", "completed", "failing"} =>
                       worker[w].pc \in {"run", "completed", "failing"}
                  /\ pc = "unretried" => "retry" \in Faults
    BY <1>6 DEF PipelineFails, ReportCompleted, PublishRetry, RetryFails,
                ReportFailedRaises, SetDbJobFailure, ForceDeadLetter, Fault
  <2>4. /\ \A v \in Workers : v # w => worker'[v] = worker[v]
        /\ worker'[w].job = i /\ worker'[w].pc = pc
    BY <2>0, <2>3 DEF Step, TypeOK, WorkerStates
  <2> QED BY <2>0, <2>1, <2>2, <2>3, <2>4, WorkerFrame
<1>7. ASSUME PostRun(w) \/ WorkerCrash(w) \/ HardTimeLimit(w)
      PROVE  RunnerInv'
  <2>0. PICK i \in Jobs : i = worker[w].job /\ worker[w] # Idle /\ Holds(w, i)
    BY <1>7, Busy DEF PostRun, WorkerCrash, HardTimeLimit, Holds
  <2>1. UNCHANGED <<row, api, watch, retries>>
    BY <1>7 DEF PostRun, WorkerCrash, HardTimeLimit
  <2>2. \A j \in Jobs : j # i => msgs'[j] = msgs[j]
    BY <1>7, <2>0 DEF PostRun, WorkerCrash, HardTimeLimit, Sent, TypeOK
  <2>3. worker'[w] = Idle /\ \A v \in Workers : v # w => worker'[v] = worker[v]
    BY <1>7 DEF PostRun, WorkerCrash, HardTimeLimit, TypeOK
  <2> QED BY <2>0, <2>1, <2>2, <2>3, WorkerFrame
<1>8. SetDbJobFailure(w) => ~Fault("db") \/ UNCHANGED row
  BY DEF SetDbJobFailure, Fault, TypeOK, FaultLog
<1>9. ForceDeadLetter(w) => ~Fault("db") \/ UNCHANGED row
  BY DEF ForceDeadLetter, Fault, TypeOK, FaultLog
<1>10. CASE SetDbJobFailure(w)
  BY <1>4, <1>6, <1>8, <1>10
<1>11. CASE ForceDeadLetter(w)
  BY <1>5, <1>6, <1>9, <1>11
<1>12. CASE \E i \in Jobs, t \in Tasks : Claim(w, i, t) \/ Ignore(w, i, t)
  BY <1>1, <1>2, <1>12
<1>13. CASE PipelineFails(w) \/ ReportCompleted(w) \/ PublishRetry(w) \/ RetryFails(w)
            \/ ReportFailedRaises(w)
  BY <1>6, <1>13
<1> QED BY <1>3, <1>7, <1>10, <1>11, <1>12, <1>13 DEF WorkerNext

\* What a step of watchdog d on job i leaves alone.
LEMMA WatchOthers ==
  ASSUME TypeOK, RunnerInv, NEW d \in Watchdogs, NEW i \in Jobs,
         UNCHANGED <<api, worker, retries>>,
         \A j \in Jobs : j # i => row'[j] = row[j] /\ msgs'[j] = msgs[j],
         \A e \in Watchdogs : e # d => watch'[e] = watch[e],
         watch'[d] # Idle => watch'[d].job = i,
         NEW j \in Jobs, j # i
  PROVE  JobInv(j)'
<1>1. JobInv(j)
  BY DEF RunnerInv, JobInv
<1>2. \A e \in Watchdogs : Handles(e, j)' => watch'[e] = watch[e]
  BY DEF Handles
<1>3. \A w \in Workers : Holds(w, j)' => worker'[w] = worker[w]
  OBVIOUS
<1> QED BY <1>1, <1>2, <1>3, Frame

\* A watchdog cycle moves on, or is lost, without writing status or lease.
LEMMA WatchFrame ==
  ASSUME TypeOK, RunnerInv, NEW d \in Watchdogs, NEW i \in Jobs, Handles(d, i),
         UNCHANGED <<api, worker, retries>>,
         \A j \in Jobs : j # i => row'[j] = row[j] /\ msgs'[j] = msgs[j],
         row'[i].status = row[i].status, row'[i].lease = row[i].lease,
         \A e \in Watchdogs : e # d => watch'[e] = watch[e],
         watch'[d] # Idle => watch'[d].job = i /\ watch'[d].pc # "stale"
  PROVE  RunnerInv'
<1> SUFFICES ASSUME NEW j \in Jobs PROVE JobInv(j)'
  BY DEF RunnerInv, JobInv
<1>1. CASE j # i
  BY <1>1, WatchOthers
<1>2. CASE j = i
  <2>1. JobInv(i)
    BY DEF RunnerInv, JobInv
  <2>2. row[i].status # "none"
    BY <2>1 DEF JobInv, Unadmitted
  <2>3. Unadmitted(i)' /\ Unconditional(i)'
    BY <2>1, <2>2 DEF JobInv, Unadmitted, Unconditional, Holds
  <2>4. \A w \in Workers : Running(w, i)' <=> Running(w, i)
    BY DEF Running
  <2>5. \A e \in Watchdogs : Handles(e, i)' /\ watch'[e].pc = "stale" =>
          Handles(e, i) /\ watch'[e] = watch[e]
    BY DEF Handles
  <2>6. Exclusive(i) => Exclusive(i)'
    BY <2>4 DEF Exclusive, Steady
  <2>7. StaleLease(i) => StaleLease(i)'
    BY <2>4, <2>5 DEF StaleLease, Steady
  <2> QED BY <1>2, <2>1, <2>3, <2>6, <2>7 DEF JobInv, Trusted, FailedByApi, Steady
<1> QED BY <1>1, <1>2

LEMMA RunnerWatch ==
  ASSUME TypeOK, RunnerInv, NEW d \in Watchdogs, WatchNext(d)
  PROVE  RunnerInv'
<1>1. ASSUME NEW i \in Jobs, Select(d, i)
      PROVE  RunnerInv'
  <2>1. /\ UNCHANGED <<row, msgs, api, worker, retries>>
        /\ \A e \in Watchdogs : e # d => watch'[e] = watch[e]
        /\ watch[d] = Idle /\ watch'[d].job = i /\ row[i].status # "none"
        /\ watch'[d].pc = "stale" =>
             /\ watch'[d].lease = row[i].lease
             /\ row[i].status = "processing"
             /\ \A w \in Workers : ~Running(w, i)
    BY <1>1 DEF Select, LeaseExpired, TypeOK
  <2>2. \A j \in Jobs : j # i => JobInv(j)'
    BY <2>1, WatchOthers
  <2>3. JobInv(i)
    BY DEF RunnerInv, JobInv
  <2>4. Unadmitted(i)' /\ Unconditional(i)'
    BY <2>1, <2>3 DEF JobInv, Unadmitted, Unconditional, Holds
  <2>5. \A w \in Workers : Running(w, i)' <=> Running(w, i)
    BY <2>1 DEF Running
  <2>6. Exclusive(i) => Exclusive(i)'
    BY <2>1, <2>5 DEF Exclusive, Steady
  <2>7. row[i].lease \in Nat
    BY DEF TypeOK, Rows
  <2>8. StaleLease(i) => StaleLease(i)'
    BY <2>1, <2>5, <2>7 DEF StaleLease, Steady, Handles
  <2>9. JobInv(i)'
    BY <2>1, <2>3, <2>4, <2>6, <2>8 DEF JobInv, Trusted, FailedByApi, Steady
  <2> QED BY <2>2, <2>9 DEF RunnerInv, JobInv
<1>2. CASE RequeueStale(d)
  <2>0. PICK i \in Jobs : i = watch[d].job /\ Handles(d, i) /\ watch[d] \in WatchStates
    BY <1>2, Busy DEF RequeueStale, Handles
  <2>1. CASE row[i].status = "processing" /\ row[i].lease = watch[d].lease
    <3>1. /\ row'[i].status = "queued" /\ row'[i].lease = row[i].lease
          /\ watch'[d].pc = "publish" /\ watch'[d].job = i
          /\ UNCHANGED <<msgs, api, worker, retries>>
          /\ \A e \in Watchdogs : e # d => watch'[e] = watch[e]
          /\ \A j \in Jobs : j # i => row'[j] = row[j]
      BY <1>2, <2>0, <2>1 DEF RequeueStale, Watch, TypeOK, Rows, WatchStates
    <3>2. \A j \in Jobs : j # i => JobInv(j)'
      BY <2>0, <3>1, WatchOthers
    <3>3. JobInv(i)
      BY DEF RunnerInv, JobInv
    <3>4. Unadmitted(i)' /\ Unconditional(i)'
      BY <2>1, <3>1, <3>3 DEF JobInv, Unadmitted, Unconditional, Holds
    <3>5. ASSUME Trusted(i)' PROVE Exclusive(i)' /\ StaleLease(i)'
      <4>1. StaleLease(i)
        BY <3>1, <3>3, <3>5 DEF JobInv, Trusted, FailedByApi, Steady
      <4>2. \A w \in Workers : ~Running(w, i)'
        BY <1>2, <2>0, <2>1, <3>1, <4>1 DEF StaleLease, Running, RequeueStale
      <4>3. StaleLease(i)'
        BY <2>0, <3>1, <4>1, <4>2 DEF StaleLease, Handles, Steady
      <4> QED BY <4>2, <4>3 DEF Exclusive
    <3> QED BY <3>2, <3>4, <3>5 DEF RunnerInv, JobInv
  <2>2. CASE ~(row[i].status = "processing" /\ row[i].lease = watch[d].lease)
    <3>1. /\ UNCHANGED <<row, msgs, api, worker, retries>> /\ watch'[d] = Idle
          /\ \A e \in Watchdogs : e # d => watch'[e] = watch[e]
      BY <1>2, <2>0, <2>2 DEF RequeueStale, TypeOK
    <3> QED BY <2>0, <3>1, WatchFrame
  <2> QED BY <2>1, <2>2
<1>3. CASE MarkDead(d)
  <2>0. PICK i \in Jobs : i = watch[d].job /\ Handles(d, i) /\ watch[d] \in WatchStates
    BY <1>3, Busy DEF MarkDead, Handles
  <2>1. /\ row'[i].status = "dead" /\ row'[i].lease = row[i].lease
        /\ watch[d].pc = "stale" /\ watch'[d].pc = "release" /\ watch'[d].job = i
        /\ UNCHANGED <<msgs, api, worker, retries>>
        /\ \A e \in Watchdogs : e # d => watch'[e] = watch[e]
        /\ \A j \in Jobs : j # i => row'[j] = row[j]
    BY <1>3, <2>0 DEF MarkDead, Watch, TypeOK, Rows, WatchStates
  <2>2. \A j \in Jobs : j # i => JobInv(j)'
    BY <2>0, <2>1, WatchOthers
  <2>3. JobInv(i)
    BY DEF RunnerInv, JobInv
  <2>4. row[i].status # "none"
    BY <2>0, <2>3 DEF JobInv, Unadmitted
  <2>5. Unadmitted(i)' /\ Unconditional(i)'
    BY <2>1, <2>3, <2>4 DEF JobInv, Unadmitted, Unconditional, Holds
  <2>6. ASSUME Trusted(i)' PROVE Exclusive(i)' /\ StaleLease(i)'
    <3>1. Exclusive(i) /\ StaleLease(i)
      BY <2>1, <2>3, <2>6 DEF JobInv, Trusted, FailedByApi, Steady
    <3>2. \A w \in Workers : Running(w, i)' => Running(w, i) /\ ~Steady
      BY <2>0, <2>1, <3>1 DEF Running, StaleLease
    <3>3. Exclusive(i)'
      BY <2>1, <3>1, <3>2 DEF Exclusive, Steady
    <3>4. StaleLease(i)'
      BY <2>0, <2>1, <3>1 DEF StaleLease, Handles, Steady
    <3> QED BY <3>3, <3>4
  <2> QED BY <2>2, <2>5, <2>6 DEF RunnerInv, JobInv
<1>4. ASSUME ReleaseDead(d) \/ PublishStale(d) \/ DispatchRecovered(d) \/ WatchdogCrash(d)
      PROVE  RunnerInv'
  <2>0. PICK i \in Jobs : i = watch[d].job /\ Handles(d, i) /\ watch[d] \in WatchStates
    BY <1>4, Busy DEF ReleaseDead, PublishStale, DispatchRecovered, WatchdogCrash, Handles
  <2>1. /\ UNCHANGED <<row, api, worker, retries>>
        /\ watch' = [watch EXCEPT ![d] = Idle] \/ Watch(d, "undo")
    BY <1>4 DEF ReleaseDead, PublishStale, DispatchRecovered, WatchdogCrash
  <2>2. \A j \in Jobs : j # i => msgs'[j] = msgs[j]
    BY <1>4, <2>0 DEF ReleaseDead, PublishStale, DispatchRecovered, WatchdogCrash, Sent, Unsent, TypeOK
  <2>3. /\ \A e \in Watchdogs : e # d => watch'[e] = watch[e]
        /\ watch'[d] # Idle => watch'[d].job = i /\ watch'[d].pc = "undo"
    BY <2>0, <2>1 DEF Watch, TypeOK, WatchStates
  <2> QED BY <2>0, <2>1, <2>2, <2>3, WatchFrame
<1>5. ASSUME RecoverQueued(d) \/ UndoRecovery(d)
      PROVE  RunnerInv'
  <2>0. PICK i \in Jobs : i = watch[d].job /\ Handles(d, i) /\ watch[d] \in WatchStates
    BY <1>5, Busy DEF RecoverQueued, UndoRecovery, Handles
  <2>1. /\ UNCHANGED <<msgs, api, worker, retries>>
        /\ UNCHANGED row \/ \E t : row' = [row EXCEPT ![i].task = t]
        /\ \/ watch' = [watch EXCEPT ![d] = Idle]
           \/ \E t : watch' = [watch EXCEPT ![d].pc = "dispatch", ![d].task = t]
    BY <1>5, <2>0 DEF RecoverQueued, UndoRecovery
  <2>2. /\ \A j \in Jobs : j # i => row'[j] = row[j]
        /\ row'[i].status = row[i].status /\ row'[i].lease = row[i].lease
    <3>1. CASE UNCHANGED row
      BY <3>1
    <3>2. ASSUME NEW t, row' = [row EXCEPT ![i].task = t]
          PROVE  /\ \A j \in Jobs : j # i => row'[j] = row[j]
                 /\ row'[i].status = row[i].status /\ row'[i].lease = row[i].lease
      BY <3>2 DEF TypeOK, Rows
    <3> QED BY <2>1, <3>1, <3>2
  <2>3. /\ \A e \in Watchdogs : e # d => watch'[e] = watch[e]
        /\ watch'[d] # Idle => watch'[d].job = i /\ watch'[d].pc = "dispatch"
    BY <2>0, <2>1 DEF TypeOK, WatchStates
  <2> QED BY <2>0, <2>1, <2>2, <2>3, WatchFrame
<1> QED BY <1>1, <1>2, <1>3, <1>4, <1>5 DEF WatchNext

\* RunnerInv is an invariant: with it, a message can start a job only when
\* nobody runs it.
THEOREM RunnerInvariant == Spec => []RunnerInv
<1>1. TypeOK /\ RunnerInv /\ [Next]_vars => RunnerInv'
  <2> SUFFICES ASSUME TypeOK, RunnerInv, [Next]_vars PROVE RunnerInv'
    OBVIOUS
  <2>1. ASSUME NEW i \in Jobs, RecoverDispatch(i) PROVE RunnerInv'
    <3> SUFFICES ASSUME NEW j \in Jobs PROVE JobInv(j)'
      BY DEF RunnerInv, JobInv
    <3>1. JobInv(j)
      BY DEF RunnerInv, JobInv
    <3>2. /\ UNCHANGED <<api, worker, watch, retries>>
          /\ row'[j].status = row[j].status /\ row'[j].lease = row[j].lease
          /\ row[j].status = "none" => msgs'[j] = msgs[j]
      <4>1. CASE row' = [row EXCEPT ![i].task = OwnId] /\ UNCHANGED msgs
        <5>1. row'[j].status = row[j].status /\ row'[j].lease = row[j].lease
          BY <4>1 DEF TypeOK, Rows
        <5> QED BY <2>1, <4>1, <5>1 DEF RecoverDispatch
      <4>2. CASE Sent(i, row[i].task) /\ UNCHANGED row
        <5>1. row[j].status = "none" => msgs'[j] = msgs[j]
          BY <2>1, <4>2 DEF RecoverDispatch, Recoverable, Sent, TypeOK
        <5> QED BY <2>1, <4>2, <5>1 DEF RecoverDispatch
      <4> QED BY <2>1, <4>1, <4>2 DEF RecoverDispatch
    <3>3. Unadmitted(j)' /\ Unconditional(j)'
      BY <3>1, <3>2 DEF JobInv, Unadmitted, Unconditional, Holds, Handles
    <3>4. /\ Trusted(j)' => Trusted(j)
          /\ Exclusive(j) => Exclusive(j)'
          /\ StaleLease(j) => StaleLease(j)'
      BY <3>2 DEF Trusted, FailedByApi, Steady, Exclusive, StaleLease, Running, Handles
    <3> QED BY <3>1, <3>3, <3>4 DEF JobInv
  <2>2. ASSUME NEW i \in Jobs, ChangeAuthority(i) PROVE RunnerInv'
    BY <2>2 DEF ChangeAuthority, RunnerInv, Unadmitted, Unconditional, Trusted, FailedByApi, Steady,
                Exclusive, StaleLease, Running, Holds, Handles
  <2>3. CASE UNCHANGED vars
    BY <2>3 DEF vars, RunnerInv, Unadmitted, Unconditional, Trusted, FailedByApi, Steady,
                Exclusive, StaleLease, Running, Holds, Handles
  <2> QED BY <2>1, <2>2, <2>3, RunnerApi, RunnerWorker, RunnerWatch DEF Next
<1> QED BY <1>1, RunnerInit, TypeCorrect, PTL DEF Spec

\* No two workers process one job, for any number of workers, watchdogs,
\* copies of a message and faults (_set_db_job_processing and the lease).
THEOREM OneRunner == Spec => []AtMostOneRunner
<1>1. RunnerInv => AtMostOneRunner
  BY DEF RunnerInv, Exclusive, AtMostOneRunner
<1> QED BY <1>1, RunnerInvariant, PTL

-----------------------------------------------------------------------------
(* Runs are bounded by attempts.                                           *)

Paid(j) == Trusted(j) => RunsPaid(j) /\ StaleAttempts(j)

Stale(d, j) == Handles(d, j) /\ watch[d].pc = "stale"

SameRow(j) ==
  /\ row'[j].status = row[j].status
  /\ row'[j].lease = row[j].lease
  /\ row'[j].attempts = row[j].attempts
  /\ row'[j].runs = row[j].runs

\* No run and no stale lease of job j begins.
NoStart(j) ==
  /\ \A w \in Workers : Running(w, j)' => Running(w, j)
  /\ \A d \in Watchdogs : Stale(d, j)' => Stale(d, j) /\ watch'[d] = watch[d]

LEMMA PaidFrame ==
  ASSUME NEW j \in Jobs, Paid(j), SameRow(j), NoStart(j), KeepsTrust(j)
  PROVE  Paid(j)'
<1>1. RunsPaid(j) => RunsPaid(j)'
  BY DEF RunsPaid, SameRow, NoStart
<1>2. StaleAttempts(j) => StaleAttempts(j)'
  BY DEF StaleAttempts, SameRow, NoStart, Stale
<1> QED BY <1>1, <1>2 DEF Paid, KeepsTrust

\* A new task id changes nothing that the invariant is about.
LEMMA TaskOnly ==
  ASSUME TypeOK, NEW i \in Jobs, NEW t, NEW j \in Jobs,
         row' = row \/ row' = [row EXCEPT ![i].task = t]
  PROVE  SameRow(j)
<1>1. CASE row' = row
  BY <1>1 DEF SameRow
<1>2. CASE row' = [row EXCEPT ![i].task = t]
  BY <1>2 DEF SameRow, TypeOK, Rows
<1> QED BY <1>1, <1>2

LEMMA PaidApi ==
  ASSUME TypeOK, RunnerInv, AttemptsInv, NEW i \in Jobs, ApiNext(i), NEW j \in Jobs
  PROVE  Paid(j)'
<1>0. Paid(j) /\ JobInv(j) /\ NoStart(j) /\ KeepsTrust(j)
  BY TrustApi DEF AttemptsInv, Paid, RunnerInv, JobInv, NoStart, ApiNext, Reserve, Commit, CommitFails,
         Dispatch, DispatchFails, PersistTaskId, MarkFailed, ReleaseFailed, ApiCrash,
         OperatorRetry, OperatorRetryFails, Running, Stale, Handles
<1>1. CASE Reserve(i) \/ CommitFails(i) \/ Dispatch(i) \/ DispatchFails(i)
           \/ ReleaseFailed(i) \/ ApiCrash(i) \/ OperatorRetryFails(i)
  <2>1. UNCHANGED <<row, retries>>
    BY <1>1 DEF Reserve, CommitFails, Dispatch, DispatchFails, ReleaseFailed, ApiCrash,
                OperatorRetryFails
  <2> QED BY <1>0, <2>1, PaidFrame DEF SameRow
<1>2. CASE PersistTaskId(i)
  <2>1. SameRow(j) /\ UNCHANGED retries
    BY <1>2, TaskOnly DEF PersistTaskId
  <2> QED BY <1>0, <2>1, PaidFrame
<1>3. ASSUME Commit(i) \/ MarkFailed(i) \/ OperatorRetry(i), j # i PROVE Paid(j)'
  <2>1. row'[j] = row[j] /\ retries'[j] = retries[j]
    BY <1>3 DEF Commit, MarkFailed, OperatorRetry, TypeOK
  <2> QED BY <1>0, <2>1, PaidFrame DEF SameRow
<1>4. CASE Commit(i) /\ j = i
  <2>1. /\ row[j].status = "none" /\ row'[j].status = "queued"
        /\ row'[j].attempts = row[j].attempts /\ row'[j].runs = row[j].runs
        /\ UNCHANGED <<worker, watch, retries>>
    BY <1>0, <1>4 DEF Commit, JobInv, Unadmitted, TypeOK, Rows
  <2>2. RunsPaid(j) => RunsPaid(j)'
    BY <1>0, <2>1 DEF RunsPaid, NoStart
  <2>3. StaleAttempts(j)'
    BY <1>0, <2>1 DEF JobInv, Unadmitted, StaleAttempts, Handles
  <2> QED BY <1>0, <2>1, <2>2, <2>3 DEF Paid, KeepsTrust
<1>5. CASE MarkFailed(i) /\ j = i
  <2>1. ~Trusted(j)'
    BY <1>0, <1>5 DEF MarkFailed, JobInv, Unconditional, Trusted, FailedByApi, SetApi, TypeOK
  <2> QED BY <2>1 DEF Paid
<1>6. CASE OperatorRetry(i) /\ j = i
  <2> SUFFICES ASSUME Trusted(j)' PROVE RunsPaid(j)' /\ StaleAttempts(j)'
    BY DEF Paid
  <2>1. /\ row[j].status = "dead" /\ row'[j].status = "queued"
        /\ row'[j].attempts = 0 /\ row'[j].runs = 0
        /\ retries'[j] # 0 /\ UNCHANGED <<worker, watch>>
    BY <1>6, JobsAssumption DEF OperatorRetry, TypeOK, Rows
  <2>2. Steady /\ Trusted(j)
    BY <2>1, TrustApi DEF Trusted, Steady, KeepsTrust
  <2>3. \A d \in Watchdogs : ~Stale(d, j)'
    BY <1>0, <2>1, <2>2 DEF JobInv, StaleLease, Stale, Handles
  <2>4. StaleAttempts(j)'
    BY <2>3 DEF StaleAttempts, Stale
  <2>5. RunsPaid(j)'
    BY <2>1, JobsAssumption DEF RunsPaid
  <2> QED BY <2>4, <2>5
<1> QED BY <1>1, <1>2, <1>3, <1>4, <1>5, <1>6 DEF ApiNext

LEMMA PaidWorker ==
  ASSUME TypeOK, RunnerInv, AttemptsInv, NEW w \in Workers, WorkerNext(w), NEW j \in Jobs
  PROVE  Paid(j)'
<1>0. /\ Paid(j) /\ JobInv(j)
      /\ row[j].attempts \in Nat /\ row[j].runs \in Nat /\ row[j].lease \in Nat
  BY DEF AttemptsInv, Paid, RunnerInv, JobInv, TypeOK, Rows
<1>1. /\ UNCHANGED watch /\ KeepsTrust(j)
      /\ \A d \in Watchdogs : Stale(d, j)' <=> Stale(d, j)
  BY TrustKept DEF WorkerNext, Claim, Ignore, Complete, PipelineFails, ReportCompleted, SetDbJobFailure,
         PublishRetry, RetryFails, ForceDeadLetter, ReportFailedRaises, PostRun, WorkerCrash,
         HardTimeLimit, Stale, Handles
<1>2. ASSUME NEW i \in Jobs, NEW t \in Tasks, Claim(w, i, t)
      PROVE  Paid(j)'
  <2>1. CASE j # i
    <3>1. row'[j] = row[j] /\ \A v \in Workers : Running(v, j)' => Running(v, j)
      BY <1>2, <2>1 DEF Claim, Take, TypeOK, Running
    <3> QED BY <1>0, <1>1, <3>1, PaidFrame DEF SameRow, NoStart
  <2>2. CASE j = i
    <3> SUFFICES ASSUME Trusted(j)' PROVE RunsPaid(j)' /\ StaleAttempts(j)'
      BY DEF Paid
    <3>1. Trusted(j) /\ RunsPaid(j) /\ StaleAttempts(j) /\ StaleLease(j)
      BY <1>0, <1>1 DEF Paid, JobInv, KeepsTrust
    <3>2. /\ row[j].status \in {"queued", "failed"} /\ row'[j].status = "processing"
          /\ row'[j].attempts = row[j].attempts /\ row'[j].runs = row[j].runs + 1
          /\ row'[j].lease = row[j].lease + 1
      BY <1>2, <2>2 DEF Claim, Claimable, TypeOK, Rows
    <3>3. RunsPaid(j)'
      BY <1>0, <3>1, <3>2, JobsAssumption DEF RunsPaid
    <3>4. \A d \in Watchdogs : Stale(d, j) => watch[d].lease \in Nat /\ watch[d].lease <= row[j].lease
      BY <3>1, Busy DEF StaleLease, Stale, Handles
    <3>5. StaleAttempts(j)'
      BY <1>0, <1>1, <3>1, <3>2, <3>4 DEF StaleAttempts, Stale
    <3> QED BY <3>3, <3>5
  <2> QED BY <2>1, <2>2
<1>3. ASSUME NEW i \in Jobs, NEW t \in Tasks, Ignore(w, i, t)
      PROVE  Paid(j)'
  <2>1. UNCHANGED row /\ \A v \in Workers : Running(v, j)' => Running(v, j)
    BY <1>3 DEF Ignore, Take, TypeOK, Running
  <2> QED BY <1>0, <1>1, <2>1, PaidFrame DEF SameRow, NoStart
<1>4. CASE PostRun(w) \/ WorkerCrash(w) \/ HardTimeLimit(w)
  <2>1. UNCHANGED row /\ \A v \in Workers : Running(v, j)' => Running(v, j)
    BY <1>4 DEF PostRun, WorkerCrash, HardTimeLimit, TypeOK, Running
  <2> QED BY <1>0, <1>1, <2>1, PaidFrame DEF SameRow, NoStart
<1>5. ASSUME NEW pc, Step(w, pc), worker[w].pc # "idle",
             pc \in {"run", "completed", "failing"} =>
               worker[w].pc \in {"run", "completed", "failing"}
      PROVE  \A v \in Workers : Running(v, j)' => Running(v, j)
  <2>1. worker[w] \in WorkerStates /\ worker[w] # Idle
    BY <1>5, Busy
  <2>2. /\ \A v \in Workers : v # w => worker'[v] = worker[v]
        /\ worker'[w].job = worker[w].job /\ worker'[w].pc = pc
    BY <1>5, <2>1 DEF Step, TypeOK, WorkerStates
  <2> QED BY <1>5, <2>1, <2>2 DEF Running
<1>6. ASSUME \/ PipelineFails(w) \/ ReportCompleted(w) \/ PublishRetry(w) \/ RetryFails(w)
             \/ ReportFailedRaises(w)
             \/ SetDbJobFailure(w) /\ UNCHANGED row
             \/ ForceDeadLetter(w) /\ UNCHANGED row
      PROVE  Paid(j)'
  <2>1. UNCHANGED row
    BY <1>6 DEF PipelineFails, ReportCompleted, PublishRetry, RetryFails, ReportFailedRaises
  <2>2. PICK pc : /\ Step(w, pc) /\ worker[w].pc # "idle"
                  /\ pc \in {"run", "completed", "failing"} =>
                       worker[w].pc \in {"run", "completed", "failing"}
    BY <1>6 DEF PipelineFails, ReportCompleted, PublishRetry, RetryFails,
                ReportFailedRaises, SetDbJobFailure, ForceDeadLetter
  <2> QED BY <1>0, <1>1, <1>5, <2>1, <2>2, PaidFrame DEF SameRow, NoStart
<1>7. CASE Complete(w)
  <2>0. PICK i \in Jobs : i = worker[w].job /\ Running(w, i)
    BY <1>7, Busy DEF Complete, Running
  <2>1. /\ row' = [row EXCEPT ![i].status = "completed"]
        /\ \A v \in Workers : Running(v, j)' => Running(v, j)
    BY <1>5, <1>7, <2>0 DEF Complete
  <2>2. CASE j # i
    <3>1. row'[j] = row[j]
      BY <2>1, <2>2 DEF TypeOK
    <3> QED BY <1>0, <1>1, <2>1, <3>1, PaidFrame DEF SameRow, NoStart
  <2>3. CASE j = i
    <3>1. /\ row'[j].status = "completed" /\ row'[j].attempts = row[j].attempts
          /\ row'[j].runs = row[j].runs
      BY <2>1, <2>3 DEF TypeOK, Rows
    <3>2. RunsPaid(j) => RunsPaid(j)'
      BY <2>1, <3>1 DEF RunsPaid
    <3>3. StaleAttempts(j) => StaleAttempts(j)'
      BY <1>1, <2>1, <3>1 DEF StaleAttempts, Stale
    <3> QED BY <1>0, <1>1, <3>2, <3>3 DEF Paid, KeepsTrust
  <2> QED BY <2>2, <2>3
<1>8. CASE ForceDeadLetter(w) /\ ~Fault("db")
  <2>0. PICK i \in Jobs : i = worker[w].job
    BY <1>8, Busy DEF ForceDeadLetter
  <2>1. /\ row' = [row EXCEPT ![i].status = "dead", ![i].task = NoTask]
        /\ \A v \in Workers : Running(v, j)' => Running(v, j)
    BY <1>5, <1>8, <2>0 DEF ForceDeadLetter
  <2>2. CASE j # i
    <3>1. row'[j] = row[j]
      BY <2>1, <2>2 DEF TypeOK
    <3> QED BY <1>0, <1>1, <2>1, <3>1, PaidFrame DEF SameRow, NoStart
  <2>3. CASE j = i
    <3>1. /\ row'[j].status = "dead" /\ row'[j].attempts = row[j].attempts
          /\ row'[j].runs = row[j].runs
      BY <2>1, <2>3 DEF TypeOK, Rows
    <3>2. RunsPaid(j) => RunsPaid(j)'
      BY <2>1, <3>1 DEF RunsPaid
    <3>3. StaleAttempts(j) => StaleAttempts(j)'
      BY <1>1, <2>1, <3>1 DEF StaleAttempts, Stale
    <3> QED BY <1>0, <1>1, <3>2, <3>3 DEF Paid, KeepsTrust
  <2> QED BY <2>2, <2>3
<1>9. CASE SetDbJobFailure(w) /\ ~Fault("db")
  <2>0. PICK i \in Jobs : i = worker[w].job /\ Running(w, i) /\ worker[w].pc = "failing"
    BY <1>9, Busy DEF SetDbJobFailure, Running
  <2> DEFINE n == row[i].attempts + 1
             st == IF n >= MaxAttempts THEN "dead" ELSE "failed"
  <2>1. /\ row' = [row EXCEPT ![i].status = st, ![i].attempts = n, ![i].task = NoTask]
        /\ Step(w, IF n >= MaxAttempts THEN "release" ELSE "failed")
    BY <1>9, <2>0 DEF SetDbJobFailure
  <2>2. \A v \in Workers : Running(v, j)' => Running(v, j)
    BY <1>5, <2>0, <2>1
  <2>3. CASE j # i
    <3>1. row'[j] = row[j]
      BY <2>1, <2>3 DEF TypeOK
    <3> QED BY <1>0, <1>1, <2>2, <3>1, PaidFrame DEF SameRow, NoStart
  <2>4. CASE j = i
    <3> SUFFICES ASSUME Trusted(j)' PROVE RunsPaid(j)' /\ StaleAttempts(j)'
      BY DEF Paid
    <3>1. Trusted(j) /\ RunsPaid(j) /\ StaleAttempts(j) /\ Exclusive(j)
      BY <1>0, <1>1 DEF Paid, JobInv, KeepsTrust
    <3>2. /\ row'[j].status = st /\ row'[j].attempts = n /\ row'[j].runs = row[j].runs
      BY <2>1, <2>4 DEF TypeOK, Rows
    <3>3. \A v \in Workers : ~Running(v, j)'
      <4>1. worker[w] \in WorkerStates /\ worker[w] # Idle
        BY <2>0, Busy
      <4>2. worker'[w].pc \in {"release", "failed"}
        BY <2>1, <4>1 DEF Step, TypeOK, WorkerStates
      <4> QED BY <2>0, <2>2, <2>4, <3>1, <4>2 DEF Exclusive, Running
    <3>4. row[j].attempts <= MaxAttempts
      BY <2>0, <2>4, <3>1 DEF RunsPaid
    <3>5. RunsPaid(j)'
      BY <1>0, <2>4, <3>1, <3>2, <3>3, <3>4, JobsAssumption DEF RunsPaid
    <3>6. \A d \in Watchdogs : Stale(d, j) =>
            /\ watch[d].attempts \in Nat /\ watch[d].attempts # MaxAttempts
            /\ watch[d].attempts <= row[j].attempts /\ watch[d].attempts <= MaxAttempts
      BY <2>0, <2>4, <3>1, Busy DEF StaleAttempts, Stale, Handles
    <3>7. row'[j].status # "processing"
      BY <3>2
    <3>8. StaleAttempts(j)'
      BY <1>0, <1>1, <2>4, <3>2, <3>6, <3>7 DEF StaleAttempts, Stale
    <3> QED BY <3>5, <3>8
  <2> QED BY <2>3, <2>4
<1>10. SetDbJobFailure(w) => ~Fault("db") \/ UNCHANGED row
  BY DEF SetDbJobFailure, Fault, TypeOK, FaultLog
<1>11. ForceDeadLetter(w) => ~Fault("db") \/ UNCHANGED row
  BY DEF ForceDeadLetter, Fault, TypeOK, FaultLog
<1>12. CASE SetDbJobFailure(w) \/ ForceDeadLetter(w)
  BY <1>6, <1>8, <1>9, <1>10, <1>11, <1>12
<1>13. CASE \E i \in Jobs, t \in Tasks : Claim(w, i, t) \/ Ignore(w, i, t)
  BY <1>2, <1>3, <1>13
<1>14. CASE PipelineFails(w) \/ ReportCompleted(w) \/ PublishRetry(w) \/ RetryFails(w)
            \/ ReportFailedRaises(w)
  BY <1>6, <1>14
<1> QED BY <1>4, <1>7, <1>12, <1>13, <1>14 DEF WorkerNext

LEMMA PaidWatch ==
  ASSUME TypeOK, RunnerInv, AttemptsInv, NEW d \in Watchdogs, WatchNext(d), NEW j \in Jobs
  PROVE  Paid(j)'
<1>0. /\ Paid(j) /\ JobInv(j)
      /\ row[j].attempts \in Nat /\ row[j].runs \in Nat /\ row[j].lease \in Nat
  BY DEF AttemptsInv, Paid, RunnerInv, JobInv, TypeOK, Rows
<1>1. KeepsTrust(j) /\ \A w \in Workers : Running(w, j)' <=> Running(w, j)
  BY TrustKept DEF WatchNext, Select, RequeueStale, MarkDead, ReleaseDead, PublishStale, RecoverQueued,
         DispatchRecovered, UndoRecovery, WatchdogCrash, Running
<1>2. ASSUME \/ watch' = [watch EXCEPT ![d] = Idle]
             \/ /\ watch[d].pc # "idle"
                /\ \E pc, t : /\ pc # "stale"
                              /\ \/ Watch(d, pc)
                                 \/ watch' = [watch EXCEPT ![d].pc = pc, ![d].task = t]
      PROVE  NoStart(j)
  <2>1. \A e \in Watchdogs : e # d => watch'[e] = watch[e]
    BY <1>2 DEF Watch, TypeOK
  <2>2. ~Stale(d, j)'
    <3>1. CASE watch' = [watch EXCEPT ![d] = Idle]
      BY <3>1 DEF TypeOK, Stale, Handles
    <3>2. ASSUME watch[d].pc # "idle", NEW pc, NEW t, pc # "stale",
                 Watch(d, pc) \/ watch' = [watch EXCEPT ![d].pc = pc, ![d].task = t]
          PROVE  ~Stale(d, j)'
      <4>1. watch[d] \in WatchStates
        BY <3>2, Busy
      <4>2. watch'[d].pc = pc
        BY <3>2, <4>1 DEF Watch, TypeOK, WatchStates
      <4> QED BY <3>2, <4>2 DEF Stale
    <3> QED BY <1>2, <3>1, <3>2
  <2>3. \A e \in Watchdogs : e # d /\ Stale(e, j)' => Stale(e, j)
    BY <2>1 DEF Stale, Handles
  <2> QED BY <1>1, <2>1, <2>2, <2>3 DEF NoStart
<1>3. ASSUME NEW i \in Jobs, Select(d, i)
      PROVE  Paid(j)'
  <2>1. /\ UNCHANGED row /\ \A e \in Watchdogs : e # d => watch'[e] = watch[e]
        /\ watch'[d].job = i
        /\ watch'[d].pc = "stale" =>
             /\ row[i].status = "processing" /\ watch'[d].lease = row[i].lease
             /\ watch'[d].attempts = row[i].attempts
             /\ \A w \in Workers : ~Running(w, i)
    BY <1>3 DEF Select, LeaseExpired, TypeOK
  <2>2. RunsPaid(j) => RunsPaid(j)'
    BY <1>1, <2>1 DEF RunsPaid
  <2>3. RunsPaid(j) /\ StaleAttempts(j) => StaleAttempts(j)'
    BY <1>0, <1>1, <2>1 DEF StaleAttempts, Handles, RunsPaid
  <2> QED BY <1>0, <1>1, <2>2, <2>3 DEF Paid, KeepsTrust
<1>4. CASE RequeueStale(d)
  <2>0. PICK i \in Jobs : /\ i = watch[d].job /\ Stale(d, i) /\ watch[d] \in WatchStates
                          /\ watch[d].pc # "idle"
    BY <1>4, Busy DEF RequeueStale, Handles, Stale
  <2>1. NoStart(j)
    BY <1>2, <1>4, <2>0 DEF RequeueStale
  <2>2. CASE UNCHANGED row
    BY <1>0, <1>1, <2>1, <2>2, PaidFrame DEF SameRow
  <2>3. CASE ~UNCHANGED row
    <3>1. /\ row' = [row EXCEPT ![i].status = "queued", ![i].attempts = watch[d].attempts + 1,
                                ![i].task = NoTask]
          /\ watch[d].attempts + 1 <= MaxAttempts
          /\ row[i].status = "processing" /\ row[i].lease = watch[d].lease
          /\ watch[d].attempts \in Nat
          /\ Watch(d, "publish")
      BY <1>4, <2>0, <2>3, Busy DEF RequeueStale
    <3>2. CASE j # i
      <4>1. row'[j] = row[j]
        BY <3>1, <3>2 DEF TypeOK
      <4> QED BY <1>0, <1>1, <2>1, <4>1, PaidFrame DEF SameRow
    <3>3. CASE j = i
      <4> SUFFICES ASSUME Trusted(j)' PROVE RunsPaid(j)' /\ StaleAttempts(j)'
        BY DEF Paid
      <4>1. Trusted(j) /\ RunsPaid(j) /\ StaleAttempts(j) /\ StaleLease(j)
        BY <1>0, <1>1 DEF Paid, JobInv, KeepsTrust
      <4>2. watch[d].attempts = row[j].attempts /\ \A w \in Workers : ~Running(w, j)
        BY <2>0, <3>1, <3>3, <4>1 DEF StaleAttempts, StaleLease, Stale
      <4>3. /\ row'[j].status = "queued" /\ row'[j].attempts = row[j].attempts + 1
            /\ row'[j].runs = row[j].runs
        BY <3>1, <3>3, <4>2 DEF TypeOK, Rows
      <4>4. RunsPaid(j)'
        <5>1. row[j].attempts \in Nat /\ row[j].runs \in Nat
          BY DEF TypeOK, Rows
        <5>2. row[j].attempts + 1 <= MaxAttempts /\ row[j].runs <= row[j].attempts + 1
          BY <3>1, <4>1, <4>2 DEF RunsPaid
        <5>3. \A w \in Workers : ~Running(w, j)'
          BY <2>1, <4>2 DEF NoStart
        <5> QED BY <4>3, <5>1, <5>2, <5>3, JobsAssumption DEF RunsPaid
      <4>5. \A e \in Watchdogs : Stale(e, j) =>
              watch[e].attempts \in Nat /\ watch[e].attempts <= row[j].attempts
        BY <4>1, Busy DEF StaleAttempts, Stale, Handles
      <4>6. StaleAttempts(j)'
        BY <1>0, <2>1, <3>1, <4>2, <4>3, <4>5, JobsAssumption DEF StaleAttempts, Stale, NoStart
      <4> QED BY <4>4, <4>6
    <3> QED BY <3>2, <3>3
  <2> QED BY <2>2, <2>3
<1>5. CASE MarkDead(d)
  <2>0. PICK i \in Jobs : /\ i = watch[d].job /\ Stale(d, i) /\ watch[d] \in WatchStates
                          /\ watch[d].pc # "idle"
    BY <1>5, Busy DEF MarkDead, Handles, Stale
  <2>1. NoStart(j)
    BY <1>2, <1>5, <2>0 DEF MarkDead
  <2>2. /\ row' = [row EXCEPT ![i].status = "dead", ![i].attempts = watch[d].attempts + 1,
                              ![i].task = NoTask]
        /\ watch[d].attempts + 1 > MaxAttempts
        /\ watch[d].attempts \in Nat
    BY <1>5, <2>0, Busy DEF MarkDead
  <2>3. CASE j # i
    <3>1. row'[j] = row[j]
      BY <2>2, <2>3 DEF TypeOK
    <3> QED BY <1>0, <1>1, <2>1, <3>1, PaidFrame DEF SameRow
  <2>4. CASE j = i
    <3> SUFFICES ASSUME Trusted(j)' PROVE RunsPaid(j)' /\ StaleAttempts(j)'
      BY DEF Paid
    <3>1. Trusted(j) /\ RunsPaid(j) /\ StaleAttempts(j)
      BY <1>0, <1>1 DEF Paid, KeepsTrust
    <3>2. watch[d].attempts = MaxAttempts /\ \A w \in Workers : ~Running(w, j)
      BY <2>0, <2>2, <2>4, <3>1, JobsAssumption DEF StaleAttempts, Stale
    <3>3. /\ row'[j].status = "dead" /\ row'[j].attempts = MaxAttempts + 1
          /\ row'[j].runs = row[j].runs
      BY <2>2, <2>4, <3>2 DEF TypeOK, Rows
    <3>4. RunsPaid(j)'
      BY <1>0, <1>1, <3>1, <3>2, <3>3, JobsAssumption DEF RunsPaid
    <3>5. \A e \in Watchdogs : Stale(e, j) =>
            watch[e].attempts \in Nat /\ watch[e].attempts <= MaxAttempts
      BY <3>1, Busy DEF StaleAttempts, Stale, Handles
    <3>6. StaleAttempts(j)'
      BY <1>1, <2>1, <3>2, <3>3, <3>5, JobsAssumption DEF StaleAttempts, Stale, NoStart
    <3> QED BY <3>4, <3>6
  <2> QED BY <2>3, <2>4
<1>6. CASE ReleaseDead(d) \/ PublishStale(d) \/ DispatchRecovered(d) \/ WatchdogCrash(d)
  <2>1. UNCHANGED row
    BY <1>6 DEF ReleaseDead, PublishStale, DispatchRecovered, WatchdogCrash
  <2>2. NoStart(j)
    BY <1>2, <1>6 DEF ReleaseDead, PublishStale, DispatchRecovered, WatchdogCrash
  <2> QED BY <1>0, <1>1, <2>1, <2>2, PaidFrame DEF SameRow
<1>7. CASE RecoverQueued(d) \/ UndoRecovery(d)
  <2>0. PICK i \in Jobs : i = watch[d].job
    BY <1>7, Busy DEF RecoverQueued, UndoRecovery
  <2>1. PICK t : row' = row \/ row' = [row EXCEPT ![i].task = t]
    BY <1>7, <2>0 DEF RecoverQueued, UndoRecovery
  <2>2. SameRow(j)
    BY <2>1, TaskOnly
  <2>3. NoStart(j)
    BY <1>2, <1>7 DEF RecoverQueued, UndoRecovery
  <2> QED BY <1>0, <1>1, <2>2, <2>3, PaidFrame
<1> QED BY <1>3, <1>4, <1>5, <1>6, <1>7 DEF WatchNext

\* AttemptsInv is an invariant: every run is paid for with an attempt, by the
\* worker or by the watchdog.
THEOREM AttemptsInvariant == Spec => []AttemptsInv
<1>1. Init => AttemptsInv
  BY JobsAssumption DEF Init, AttemptsInv, RunsPaid, StaleAttempts, Running, Handles
<1>2. TypeOK /\ RunnerInv /\ AttemptsInv /\ [Next]_vars => AttemptsInv'
  <2> SUFFICES ASSUME TypeOK, RunnerInv, AttemptsInv, [Next]_vars, NEW j \in Jobs
               PROVE  Paid(j)'
    BY DEF AttemptsInv, Paid
  <2>0. Paid(j)
    BY DEF AttemptsInv, Paid
  <2>1. ASSUME NEW i \in Jobs, RecoverDispatch(i) PROVE Paid(j)'
    <3>1. SameRow(j)
      BY <2>1, TaskOnly DEF RecoverDispatch
    <3>2. NoStart(j) /\ KeepsTrust(j)
      BY <2>1, TrustKept DEF RecoverDispatch, NoStart, Running, Stale, Handles
    <3> QED BY <2>0, <3>1, <3>2, PaidFrame
  <2>2. ASSUME (\E i \in Jobs : ChangeAuthority(i)) \/ UNCHANGED vars PROVE Paid(j)'
    <3>1. UNCHANGED <<row, api, worker, watch, retries>>
      BY <2>2 DEF ChangeAuthority, vars
    <3>2. SameRow(j) /\ NoStart(j) /\ KeepsTrust(j)
      BY <3>1, TrustKept DEF SameRow, NoStart, Running, Stale, Handles
    <3> QED BY <2>0, <3>1, <3>2, PaidFrame
  <2> QED BY <2>1, <2>2, PaidApi, PaidWorker, PaidWatch DEF Next
<1> QED BY <1>1, <1>2, TypeCorrect, RunnerInvariant, PTL DEF Spec

\* A job is run at most MaxAttempts + 1 times between its admission or the
\* operator's retry and its end (_set_db_job_failure, run_watchdog_cycle).
THEOREM BoundedRuns == Spec => []RunsBounded
<1>1. AttemptsInv => RunsBounded
  BY DEF AttemptsInv, RunsPaid, RunsBounded
<1> QED BY <1>1, AttemptsInvariant, PTL

-----------------------------------------------------------------------------
(* An outcome is final.                                                    *)

\* The row shows what its runner does, and a lease that a watchdog will give
\* up is of a job that is not completed.
Outcome(j) ==
  /\ \A w \in Workers : Running(w, j) =>
       row[j].status = IF worker[w].pc = "completed" THEN "completed" ELSE "processing"
  /\ \A d \in Watchdogs : Stale(d, j) /\ watch[d].attempts = MaxAttempts =>
       row[j].status \in {"processing", "dead"}

\* Until a fault that is not recovered from, no retry failed to be published
\* and every row shows its outcome.
Settled(j) ==
  faults.lost = 0 =>
    /\ \A w \in Workers : Holds(w, j) => worker[w].pc # "unretried"
    /\ Trusted(j) => Outcome(j)
SettledInv == \A j \in Jobs : Settled(j)

\* A fault that was not recovered from is not forgotten.
LostKept == faults'.lost = 0 => faults.lost = 0
LEMMA FaultLost ==
  ASSUME TypeOK, NEW k, Fault(k)
  PROVE  /\ LostKept
         /\ k \notin Recovered => faults'.lost # 0
  BY DEF Fault, TypeOK, FaultLog, LostKept

\* Every step keeps what was lost in mind.
LEMMA LostKeeps ==
  ASSUME TypeOK, [Next]_vars
  PROVE  LostKept
<1>1. faults' = faults \/ \E k \in AllFaults : Fault(k)
  <2>1. ASSUME NEW j \in Jobs, ApiNext(j)
        PROVE  faults' = faults \/ \E k \in AllFaults : Fault(k)
    BY <2>1 DEF ApiNext, Reserve, Commit, CommitFails, Dispatch, DispatchFails, PersistTaskId, MarkFailed,
           ReleaseFailed, ApiCrash, OperatorRetry, OperatorRetryFails, AllFaults
  <2>2. ASSUME NEW w \in Workers, WorkerNext(w)
        PROVE  faults' = faults \/ \E k \in AllFaults : Fault(k)
    BY <2>2 DEF WorkerNext, Claim, Ignore, Complete, PipelineFails, ReportCompleted, SetDbJobFailure,
           PublishRetry, RetryFails, ForceDeadLetter, ReportFailedRaises, PostRun, WorkerCrash,
           HardTimeLimit, AllFaults
  <2>3. ASSUME NEW d \in Watchdogs, WatchNext(d)
        PROVE  faults' = faults \/ \E k \in AllFaults : Fault(k)
    BY <2>3 DEF WatchNext, Select, RequeueStale, MarkDead, ReleaseDead, PublishStale, RecoverQueued,
           DispatchRecovered, UndoRecovery, WatchdogCrash, AllFaults
  <2> QED
    BY <2>1, <2>2, <2>3 DEF Next, RecoverDispatch, ChangeAuthority, vars
<1> QED
  BY <1>1, FaultLost DEF LostKept

\* A step that leaves the status, the runners and the stale leases of a job as
\* they were, or takes some away.
LEMMA SettledFrame ==
  ASSUME NEW j \in Jobs, Settled(j), row'[j].status = row[j].status, NoStart(j), KeepsTrust(j), LostKept,
         \A w \in Workers : Holds(w, j)' => \/ worker'[w] = worker[w] /\ Holds(w, j)
                                            \/ worker'[w].pc \in {"release", "retained", "failed"}
                                            \/ /\ Running(w, j) /\ worker[w].pc = "run"
                                               /\ worker'[w].pc = "failing"
  PROVE  Settled(j)'
<1> SUFFICES ASSUME faults'.lost = 0
             PROVE  /\ \A w \in Workers : Holds(w, j)' => worker'[w].pc # "unretried"
                    /\ Trusted(j)' => Outcome(j)'
  BY DEF Settled
<1>1. /\ \A w \in Workers : Holds(w, j) => worker[w].pc # "unretried"
      /\ Trusted(j) => Outcome(j)
  BY DEF Settled, LostKept
<1>2. \A w \in Workers : Holds(w, j)' => worker'[w].pc # "unretried"
  BY <1>1
<1>3. ASSUME Trusted(j)' PROVE Outcome(j)'
  <2>1. Outcome(j)
    BY <1>1, <1>3 DEF KeepsTrust
  <2>2. ASSUME NEW w \in Workers, Running(w, j)'
        PROVE  row'[j].status = IF worker'[w].pc = "completed" THEN "completed" ELSE "processing"
    <3>1. Running(w, j) /\ Holds(w, j)' /\ worker'[w].pc \in {"run", "completed", "failing"}
      BY <2>2 DEF NoStart, Running, Holds
    <3> QED
      BY <2>1, <3>1 DEF Outcome
  <2>3. ASSUME NEW d \in Watchdogs, Stale(d, j)', watch'[d].attempts = MaxAttempts
        PROVE  row'[j].status \in {"processing", "dead"}
    BY <2>1, <2>3 DEF Outcome, NoStart
  <2> QED
    BY <2>2, <2>3 DEF Outcome
<1> QED
  BY <1>2, <1>3

\* The requests and the operator.
LEMMA SettledApi ==
  ASSUME TypeOK, RunnerInv, AttemptsInv, SettledInv, NEW i \in Jobs, ApiNext(i), LostKept, NEW j \in Jobs
  PROVE  Settled(j)'
<1>0. Settled(j) /\ JobInv(j) /\ NoStart(j) /\ KeepsTrust(j) /\ UNCHANGED <<worker, watch>>
  BY TrustApi DEF SettledInv, RunnerInv, JobInv, NoStart, ApiNext, Reserve, Commit, CommitFails,
         Dispatch, DispatchFails, PersistTaskId, MarkFailed, ReleaseFailed, ApiCrash,
         OperatorRetry, OperatorRetryFails, Running, Stale, Handles
<1>1. CASE row'[j].status = row[j].status
  BY <1>0, <1>1, SettledFrame DEF Holds
<1>2. CASE row'[j].status # row[j].status
  <2>1. j = i /\ (Commit(i) \/ MarkFailed(i) \/ OperatorRetry(i))
    <3>1. CASE Reserve(i) \/ CommitFails(i) \/ Dispatch(i) \/ DispatchFails(i)
               \/ ReleaseFailed(i) \/ ApiCrash(i) \/ OperatorRetryFails(i)
      BY <1>2, <3>1 DEF Reserve, CommitFails, Dispatch, DispatchFails, ReleaseFailed, ApiCrash,
                  OperatorRetryFails
    <3>2. CASE PersistTaskId(i)
      BY <1>2, <3>2, TaskOnly DEF PersistTaskId, SameRow
    <3>3. CASE Commit(i) \/ MarkFailed(i) \/ OperatorRetry(i)
      BY <1>2, <3>3 DEF Commit, MarkFailed, OperatorRetry, TypeOK
    <3> QED
      BY <3>1, <3>2, <3>3 DEF ApiNext
  <2> SUFFICES ASSUME faults'.lost = 0
               PROVE  /\ \A w \in Workers : Holds(w, j)' => worker'[w].pc # "unretried"
                      /\ Trusted(j)' => Outcome(j)'
    BY DEF Settled
  <2>2. \A w \in Workers : Holds(w, j)' => worker'[w].pc # "unretried"
    BY <1>0 DEF Settled, LostKept, Holds
  <2>3. CASE Commit(i)
    <3>1. row[j].status = "none"
      BY <1>0, <2>1, <2>3 DEF Commit, JobInv, Unadmitted
    <3>2. \A w \in Workers : ~Running(w, j)'
      BY <1>0, <3>1 DEF JobInv, Unadmitted, Running, Holds
    <3>3. \A d \in Watchdogs : ~Stale(d, j)'
      BY <1>0, <3>1 DEF JobInv, Unadmitted, Stale, Handles
    <3> QED
      BY <2>2, <3>2, <3>3 DEF Outcome
  <2>4. CASE MarkFailed(i)
    <3>1. ~Trusted(j)'
      BY <1>0, <2>1, <2>4 DEF MarkFailed, JobInv, Unconditional, Trusted, FailedByApi, SetApi, TypeOK
    <3> QED
      BY <2>2, <3>1
  <2>5. ASSUME OperatorRetry(i), Trusted(j)'
        PROVE  Outcome(j)'
    <3>1. row[j].status = "dead" /\ retries'[j] # 0
      BY <2>1, <2>5, JobsAssumption DEF OperatorRetry, TypeOK
    <3>2. Steady /\ Trusted(j)
      BY <1>0, <2>5, <3>1 DEF Trusted, Steady, KeepsTrust
    <3>3. \A w \in Workers : ~Running(w, j)'
      BY <1>0, <3>1, <3>2 DEF JobInv, Exclusive, Running
    <3>4. \A d \in Watchdogs : ~Stale(d, j)'
      BY <1>0, <3>1, <3>2 DEF JobInv, StaleLease, Stale, Handles
    <3> QED
      BY <3>3, <3>4 DEF Outcome
  <2> QED
    BY <2>1, <2>2, <2>3, <2>4, <2>5
<1> QED
  BY <1>1, <1>2

\* A step of worker w that is not one of the three below keeps the outcome.
LEMMA SettledWorker ==
  ASSUME TypeOK, RunnerInv, AttemptsInv, SettledInv, NEW w \in Workers, WorkerNext(w), LostKept,
         NEW j \in Jobs
  PROVE  Settled(j)'
<1>0. Settled(j) /\ JobInv(j) /\ Paid(j)
  BY DEF SettledInv, RunnerInv, JobInv, AttemptsInv, Paid
<1>1. /\ UNCHANGED watch /\ KeepsTrust(j)
      /\ \A d \in Watchdogs : Stale(d, j)' <=> Stale(d, j)
  BY TrustKept DEF WorkerNext, Claim, Ignore, Complete, PipelineFails, ReportCompleted, SetDbJobFailure,
         PublishRetry, RetryFails, ForceDeadLetter, ReportFailedRaises, PostRun, WorkerCrash,
         HardTimeLimit, Stale, Handles
<1> SUFFICES ASSUME faults'.lost = 0
             PROVE  Settled(j)'
  BY DEF Settled
<1>2. faults.lost = 0 /\ (\A v \in Workers : Holds(v, j) => worker[v].pc # "unretried")
      /\ (Trusted(j)' => Trusted(j) /\ Outcome(j) /\ Exclusive(j) /\ StaleAttempts(j))
  BY <1>0, <1>1 DEF Settled, LostKept, JobInv, Paid, KeepsTrust
\* What a move of w is for the workers of j.
<1>3. ASSUME NEW pc, Step(w, pc), worker[w].pc # "idle"
      PROVE  /\ \A v \in Workers : v # w => worker'[v] = worker[v]
             /\ worker'[w].job = worker[w].job /\ worker'[w].pc = pc /\ worker[w] # Idle
             /\ worker[w].job \in Jobs
  <2>1. worker[w] \in WorkerStates /\ worker[w] # Idle
    BY <1>3, Busy
  <2> QED
    BY <1>3, <2>1 DEF Step, TypeOK, WorkerStates
<1>4. ASSUME NEW i \in Jobs, NEW t \in Tasks, Claim(w, i, t)
      PROVE  Settled(j)'
  <2>1. /\ row[i].status \in {"queued", "failed"} /\ row'[i].status = "processing"
        /\ worker[w] = Idle /\ worker'[w] = [pc |-> "run", job |-> i, task |-> t]
        /\ \A v \in Workers : v # w => worker'[v] = worker[v]
        /\ \A k \in Jobs : k # i => row'[k] = row[k]
    BY <1>4 DEF Claim, Claimable, Take, TypeOK, Rows
  <2>2. CASE j # i
    <3>1. \A v \in Workers : Holds(v, j)' => worker'[v] = worker[v] /\ Holds(v, j)
      BY <2>1, <2>2 DEF Holds
    <3>2. NoStart(j)
      BY <1>1, <3>1 DEF NoStart, Running, Holds
    <3> QED
      BY <1>0, <1>1, <2>1, <2>2, <3>1, <3>2, SettledFrame
  <2>3. CASE j = i
    <3>1. \A v \in Workers : Holds(v, j)' => worker'[v].pc # "unretried"
      BY <1>2, <2>1 DEF Holds
    <3>2. ASSUME Trusted(j)' PROVE Outcome(j)'
      <4>1. \A v \in Workers : Running(v, j)' => v = w
        BY <1>2, <2>1, <2>3, <3>2 DEF Exclusive, Running
      <4>2. \A d \in Watchdogs : Stale(d, j)' => watch'[d].attempts # MaxAttempts
        BY <1>1, <1>2, <2>1, <2>3, <3>2 DEF StaleAttempts, Stale
      <4> QED
        BY <2>1, <2>3, <4>1, <4>2 DEF Outcome
    <3> QED
      BY <3>1, <3>2 DEF Settled
  <2> QED
    BY <2>2, <2>3
<1>5. ASSUME NEW i \in Jobs, NEW t \in Tasks, Ignore(w, i, t)
      PROVE  Settled(j)'
  <2>1. /\ UNCHANGED row /\ \A v \in Workers : v # w => worker'[v] = worker[v]
        /\ worker[w] = Idle /\ worker'[w] = [pc |-> "release", job |-> i, task |-> t]
    BY <1>5 DEF Ignore, Take, TypeOK
  <2>2. NoStart(j)
    BY <1>1, <2>1 DEF NoStart, Running
  <2> QED
    BY <1>0, <1>1, <2>1, <2>2, SettledFrame DEF Holds
<1>6. CASE PostRun(w) \/ WorkerCrash(w) \/ HardTimeLimit(w)
  <2>1. UNCHANGED row /\ worker'[w] = Idle /\ \A v \in Workers : v # w => worker'[v] = worker[v]
    BY <1>6 DEF PostRun, WorkerCrash, HardTimeLimit, TypeOK
  <2>2. NoStart(j)
    BY <1>1, <2>1 DEF NoStart, Running
  <2> QED
    BY <1>0, <1>1, <2>1, <2>2, SettledFrame DEF Holds
<1>7. ASSUME NEW pc, Step(w, pc), UNCHANGED row,
             \/ pc \in {"release", "retained", "failed"} /\ worker[w].pc # "idle"
             \/ worker[w].pc = "run" /\ pc = "failing"
      PROVE  Settled(j)'
  <2>1. /\ \A v \in Workers : v # w => worker'[v] = worker[v]
        /\ worker'[w].job = worker[w].job /\ worker'[w].pc = pc /\ worker[w] # Idle
    BY <1>3, <1>7
  <2>2. NoStart(j)
    BY <1>1, <1>7, <2>1 DEF NoStart, Running
  <2>3. \A v \in Workers : Holds(v, j)' => \/ worker'[v] = worker[v] /\ Holds(v, j)
                                           \/ worker'[v].pc \in {"release", "retained", "failed"}
                                           \/ /\ Running(v, j) /\ worker[v].pc = "run"
                                              /\ worker'[v].pc = "failing"
    BY <1>7, <2>1 DEF Holds, Running
  <2> QED
    BY <1>0, <1>1, <1>7, <2>2, <2>3, SettledFrame
<1>8. CASE PipelineFails(w) \/ PublishRetry(w)
  BY <1>7, <1>8 DEF PipelineFails, PublishRetry
<1>9. ~Fault("redis") /\ ~Fault("retry") /\ ~Fault("db")
  BY FaultLost DEF Recovered
<1>10. CASE ReportCompleted(w)
  BY <1>7, <1>9, <1>10 DEF ReportCompleted
<1>11. ~RetryFails(w) /\ ~ReportFailedRaises(w)
  BY <1>9 DEF RetryFails, ReportFailedRaises
<1>12. CASE Complete(w)
  <2>0. PICK i \in Jobs : i = worker[w].job /\ Running(w, i)
    BY <1>12, Busy DEF Complete, Running
  <2>1. /\ row' = [row EXCEPT ![i].status = "completed"] /\ worker'[w].pc = "completed"
        /\ \A v \in Workers : v # w => worker'[v] = worker[v]
        /\ worker'[w].job = i
    BY <1>3, <1>12, <2>0 DEF Complete
  <2>2. CASE j # i
    <3>1. \A v \in Workers : Holds(v, j)' => worker'[v] = worker[v] /\ Holds(v, j)
      BY <2>1, <2>2 DEF Holds
    <3>2. NoStart(j)
      BY <1>1, <3>1 DEF NoStart, Running, Holds
    <3>3. row'[j] = row[j]
      BY <2>1, <2>2 DEF TypeOK
    <3> QED
      BY <1>0, <1>1, <3>1, <3>2, <3>3, SettledFrame
  <2>3. CASE j = i
    <3>1. \A v \in Workers : Holds(v, j)' => worker'[v].pc # "unretried"
      BY <1>2, <2>1 DEF Holds
    <3>2. ASSUME Trusted(j)' PROVE Outcome(j)'
      <4>1. \A v \in Workers : Running(v, j)' => v = w
        BY <1>2, <2>0, <2>1, <2>3, <3>2 DEF Exclusive, Running
      <4>2. \A d \in Watchdogs : Stale(d, j)' => watch'[d].attempts # MaxAttempts
        BY <1>1, <1>2, <2>0, <2>3, <3>2 DEF StaleAttempts, Stale
      <4>3. row'[j].status = "completed"
        BY <2>1, <2>3 DEF TypeOK, Rows
      <4> QED
        BY <2>1, <4>1, <4>2, <4>3 DEF Outcome
    <3> QED
      BY <3>1, <3>2 DEF Settled
  <2> QED
    BY <2>2, <2>3
<1>13. CASE SetDbJobFailure(w)
  <2>0. PICK i \in Jobs : i = worker[w].job /\ Running(w, i) /\ worker[w].pc = "failing"
    BY <1>13, Busy DEF SetDbJobFailure, Running
  <2> DEFINE n == row[i].attempts + 1
             pc == IF n >= MaxAttempts THEN "release" ELSE "failed"
             st == IF n >= MaxAttempts THEN "dead" ELSE "failed"
  <2>1. row' = [row EXCEPT ![i].status = st, ![i].attempts = n, ![i].task = NoTask] /\ Step(w, pc)
    BY <1>9, <1>13, <2>0 DEF SetDbJobFailure
  <2>2. /\ \A v \in Workers : v # w => worker'[v] = worker[v]
        /\ worker'[w].job = i /\ worker'[w].pc \in {"release", "failed"}
    BY <1>3, <2>0, <2>1
  <2>3. CASE j # i
    <3>1. \A v \in Workers : Holds(v, j)' => worker'[v] = worker[v] /\ Holds(v, j)
      BY <2>2, <2>3 DEF Holds
    <3>2. NoStart(j)
      BY <1>1, <3>1 DEF NoStart, Running, Holds
    <3>3. row'[j] = row[j]
      BY <2>1, <2>3 DEF TypeOK
    <3> QED
      BY <1>0, <1>1, <3>1, <3>2, <3>3, SettledFrame
  <2>4. CASE j = i
    <3>1. \A v \in Workers : Holds(v, j)' => worker'[v].pc # "unretried"
      BY <1>2, <2>2 DEF Holds
    <3>2. ASSUME Trusted(j)' PROVE Outcome(j)'
      <4>1. \A v \in Workers : ~Running(v, j)'
        BY <1>2, <2>0, <2>2, <2>4, <3>2 DEF Exclusive, Running
      <4>2. \A d \in Watchdogs : Stale(d, j)' => watch'[d].attempts # MaxAttempts
        BY <1>1, <1>2, <2>0, <2>4, <3>2 DEF StaleAttempts, Stale
      <4> QED
        BY <4>1, <4>2 DEF Outcome
    <3> QED
      BY <3>1, <3>2 DEF Settled
  <2> QED
    BY <2>3, <2>4
<1>14. CASE ForceDeadLetter(w)
  <2>1. Holds(w, worker[w].job) /\ worker[w].pc = "unretried" /\ worker[w].job \in Jobs
    BY <1>14, Busy DEF ForceDeadLetter, Holds
  <2>2. Settled(worker[w].job)
    BY <2>1 DEF SettledInv
  <2> QED
    BY <1>2, <2>1, <2>2 DEF Settled
<1> QED
  BY <1>4, <1>5, <1>6, <1>8, <1>10, <1>11, <1>12, <1>13, <1>14 DEF WorkerNext

\* The watchdog.
LEMMA SettledWatch ==
  ASSUME TypeOK, RunnerInv, AttemptsInv, SettledInv, NEW d \in Watchdogs, WatchNext(d), LostKept,
         NEW j \in Jobs
  PROVE  Settled(j)'
<1>0. Settled(j) /\ JobInv(j) /\ Paid(j)
  BY DEF SettledInv, RunnerInv, JobInv, AttemptsInv, Paid
<1>1. UNCHANGED worker /\ KeepsTrust(j) /\ \A w \in Workers : Running(w, j)' <=> Running(w, j)
  BY TrustKept DEF WatchNext, Select, RequeueStale, MarkDead, ReleaseDead, PublishStale, RecoverQueued,
         DispatchRecovered, UndoRecovery, WatchdogCrash, Running
<1> SUFFICES ASSUME faults'.lost = 0
             PROVE  Settled(j)'
  BY DEF Settled
<1>2. (\A v \in Workers : Holds(v, j)' => worker'[v].pc # "unretried")
      /\ (Trusted(j)' => /\ Trusted(j) /\ Outcome(j) /\ Exclusive(j) /\ StaleLease(j)
                         /\ RunsPaid(j) /\ StaleAttempts(j))
  BY <1>0, <1>1 DEF Settled, LostKept, JobInv, Paid, KeepsTrust, Holds
<1>3. ASSUME \/ watch' = [watch EXCEPT ![d] = Idle]
             \/ /\ watch[d].pc # "idle"
                /\ \E pc, t : /\ pc # "stale"
                              /\ \/ Watch(d, pc)
                                 \/ watch' = [watch EXCEPT ![d].pc = pc, ![d].task = t]
      PROVE  NoStart(j)
  <2>1. \A e \in Watchdogs : e # d => watch'[e] = watch[e]
    BY <1>3 DEF Watch, TypeOK
  <2>2. ~Stale(d, j)'
    <3>1. CASE watch' = [watch EXCEPT ![d] = Idle]
      BY <3>1 DEF TypeOK, Stale, Handles
    <3>2. ASSUME watch[d].pc # "idle", NEW pc, NEW t, pc # "stale",
                 Watch(d, pc) \/ watch' = [watch EXCEPT ![d].pc = pc, ![d].task = t]
          PROVE  ~Stale(d, j)'
      <4>1. watch[d] \in WatchStates
        BY <3>2, Busy
      <4>2. watch'[d].pc = pc
        BY <3>2, <4>1 DEF Watch, TypeOK, WatchStates
      <4> QED BY <3>2, <4>2 DEF Stale
    <3> QED BY <1>3, <3>1, <3>2
  <2>3. \A e \in Watchdogs : e # d /\ Stale(e, j)' => Stale(e, j)
    BY <2>1 DEF Stale, Handles
  <2> QED BY <1>1, <2>1, <2>2, <2>3 DEF NoStart
<1>4. CASE row'[j].status = row[j].status /\ NoStart(j)
  BY <1>0, <1>1, <1>4, SettledFrame DEF Holds
<1>5. ASSUME NEW i \in Jobs, Select(d, i)
      PROVE  Settled(j)'
  <2>1. /\ UNCHANGED row /\ \A e \in Watchdogs : e # d => watch'[e] = watch[e]
        /\ watch'[d].job = i
        /\ watch'[d].pc = "stale" => row[i].status = "processing"
    BY <1>5 DEF Select, TypeOK
  <2>2. ASSUME Trusted(j)' PROVE Outcome(j)'
    <3>1. \A e \in Watchdogs : Stale(e, j)' =>
            \/ e = d /\ row[j].status = "processing"
            \/ e # d /\ Stale(e, j) /\ watch'[e] = watch[e]
      BY <2>1 DEF Stale, Handles
    <3> QED
      BY <1>1, <1>2, <2>1, <2>2, <3>1 DEF Outcome
  <2> QED
    BY <1>2, <2>2 DEF Settled
<1>6. CASE RequeueStale(d)
  <2>0. PICK i \in Jobs : /\ i = watch[d].job /\ Stale(d, i) /\ watch[d] \in WatchStates
                          /\ watch[d].pc # "idle"
    BY <1>6, Busy DEF RequeueStale, Handles, Stale
  <2>1. NoStart(j)
    BY <1>3, <1>6, <2>0 DEF RequeueStale
  <2>2. CASE UNCHANGED row
    BY <1>4, <2>1, <2>2
  <2>3. CASE ~UNCHANGED row
    <3>1. /\ row' = [row EXCEPT ![i].status = "queued", ![i].attempts = watch[d].attempts + 1,
                                ![i].task = NoTask]
          /\ watch[d].attempts + 1 <= MaxAttempts
          /\ row[i].status = "processing" /\ row[i].lease = watch[d].lease
          /\ watch[d].attempts \in Nat
      BY <1>6, <2>0, <2>3, Busy DEF RequeueStale
    <3>2. CASE j # i
      <4>1. row'[j] = row[j]
        BY <3>1, <3>2 DEF TypeOK
      <4> QED
        BY <1>4, <2>1, <4>1
    <3>3. CASE j = i
      <4>1. ASSUME Trusted(j)' PROVE Outcome(j)'
        <5>1. watch[d].attempts = row[j].attempts /\ \A w \in Workers : ~Running(w, j)
          BY <1>2, <2>0, <3>1, <3>3, <4>1 DEF StaleAttempts, StaleLease, Stale
        <5>2. \A e \in Watchdogs : Stale(e, j) => watch[e].attempts # MaxAttempts
          BY <1>2, <3>1, <3>3, <4>1, <5>1, JobsAssumption DEF StaleAttempts, Stale
        <5> QED
          BY <1>1, <2>1, <5>1, <5>2 DEF Outcome, NoStart
      <4> QED
        BY <1>2, <4>1 DEF Settled
    <3> QED
      BY <3>2, <3>3
  <2> QED
    BY <2>2, <2>3
<1>7. CASE MarkDead(d)
  <2>0. PICK i \in Jobs : /\ i = watch[d].job /\ Stale(d, i) /\ watch[d] \in WatchStates
                          /\ watch[d].pc # "idle"
    BY <1>7, Busy DEF MarkDead, Handles, Stale
  <2>1. NoStart(j)
    BY <1>3, <1>7, <2>0 DEF MarkDead
  <2>2. /\ row' = [row EXCEPT ![i].status = "dead", ![i].attempts = watch[d].attempts + 1,
                              ![i].task = NoTask]
        /\ watch[d].attempts + 1 > MaxAttempts
        /\ watch[d].attempts \in Nat
    BY <1>7, <2>0, Busy DEF MarkDead
  <2>3. CASE j # i
    <3>1. row'[j] = row[j]
      BY <2>2, <2>3 DEF TypeOK
    <3> QED
      BY <1>4, <2>1, <3>1
  <2>4. CASE j = i
    <3>1. ASSUME Trusted(j)' PROVE Outcome(j)'
      <4>1. \A w \in Workers : ~Running(w, j)'
        BY <1>1, <1>2, <2>0, <2>2, <2>4, <3>1, JobsAssumption DEF StaleAttempts, Stale
      <4>2. row'[j].status = "dead"
        BY <2>2, <2>4 DEF TypeOK, Rows
      <4> QED
        BY <4>1, <4>2 DEF Outcome
    <3> QED
      BY <1>2, <3>1 DEF Settled
  <2> QED
    BY <2>3, <2>4
<1>8. CASE ReleaseDead(d) \/ PublishStale(d) \/ DispatchRecovered(d) \/ WatchdogCrash(d)
  <2>1. UNCHANGED row
    BY <1>8 DEF ReleaseDead, PublishStale, DispatchRecovered, WatchdogCrash
  <2>2. NoStart(j)
    BY <1>3, <1>8 DEF ReleaseDead, PublishStale, DispatchRecovered, WatchdogCrash
  <2> QED
    BY <1>4, <2>1, <2>2
<1>9. CASE RecoverQueued(d) \/ UndoRecovery(d)
  <2>0. PICK i \in Jobs : i = watch[d].job
    BY <1>9, Busy DEF RecoverQueued, UndoRecovery
  <2>1. PICK t : row' = row \/ row' = [row EXCEPT ![i].task = t]
    BY <1>9, <2>0 DEF RecoverQueued, UndoRecovery
  <2>2. SameRow(j)
    BY <2>1, TaskOnly
  <2>3. NoStart(j)
    BY <1>3, <1>9 DEF RecoverQueued, UndoRecovery
  <2> QED
    BY <1>4, <2>2, <2>3 DEF SameRow
<1> QED
  BY <1>5, <1>6, <1>7, <1>8, <1>9 DEF WatchNext

\* Until a fault that is not recovered from, the row of a job shows what its
\* runner does, and no watchdog is about to give up a completed job
\* (_set_db_job_completed, _set_db_job_failure, _mark_dead_without_requeue).
THEOREM SettledInvariant == Spec => []SettledInv
<1>1. Init => SettledInv
  BY DEF Init, SettledInv, Settled, Outcome, Running, Holds, Stale, Handles
<1>2. TypeOK /\ RunnerInv /\ AttemptsInv /\ SettledInv /\ [Next]_vars => SettledInv'
  <2> SUFFICES ASSUME TypeOK, RunnerInv, AttemptsInv, SettledInv, [Next]_vars, NEW j \in Jobs
               PROVE  Settled(j)'
    BY DEF SettledInv
  <2>0. Settled(j) /\ LostKept
    BY LostKeeps DEF SettledInv
  <2>1. ASSUME NEW i \in Jobs, RecoverDispatch(i) PROVE Settled(j)'
    <3>1. SameRow(j)
      BY <2>1, TaskOnly DEF RecoverDispatch
    <3>2. NoStart(j) /\ KeepsTrust(j) /\ UNCHANGED worker
      BY <2>1, TrustKept DEF RecoverDispatch, NoStart, Running, Stale, Handles
    <3> QED
      BY <2>0, <3>1, <3>2, SettledFrame DEF SameRow, Holds
  <2>2. ASSUME (\E i \in Jobs : ChangeAuthority(i)) \/ UNCHANGED vars PROVE Settled(j)'
    <3>1. UNCHANGED <<row, api, worker, watch, retries>>
      BY <2>2 DEF ChangeAuthority, vars
    <3>2. NoStart(j) /\ KeepsTrust(j)
      BY <3>1, TrustKept DEF NoStart, Running, Stale, Handles
    <3> QED
      BY <2>0, <3>1, <3>2, SettledFrame DEF Holds
  <2> QED
    BY <2>0, <2>1, <2>2, SettledApi, SettledWorker, SettledWatch DEF Next
<1> QED
  BY <1>1, <1>2, TypeCorrect, RunnerInvariant, AttemptsInvariant, PTL DEF Spec

\* What a step may do to an outcome.
KeepsOutcome(j) ==
  /\ row[j].status = "completed" => row'[j].status = "completed"
  /\ row[j].status = "dead" => row'[j].status = "dead" \/ retries'[j] = retries[j] + 1

\* No step undoes an outcome.
LEMMA OutcomeKept ==
  ASSUME TypeOK, RunnerInv, AttemptsInv, SettledInv, [Next]_vars, NEW j \in Jobs, Trusted(j),
         FailedByApi(j)' => FailedByApi(j), faults'.lost = 0
  PROVE  KeepsOutcome(j)
<1>0. faults.lost = 0 /\ JobInv(j) /\ Outcome(j) /\ StaleAttempts(j)
      /\ \A i \in Jobs : \A w \in Workers : Holds(w, i) => worker[w].pc # "unretried"
  BY LostKeeps DEF LostKept, RunnerInv, JobInv, AttemptsInv, SettledInv, Settled
<1>1. CASE row'[j].status = row[j].status
  BY <1>1 DEF KeepsOutcome
<1>2. ASSUME NEW i \in Jobs, ApiNext(i)
      PROVE  KeepsOutcome(j)
  <2>1. CASE Reserve(i) \/ CommitFails(i) \/ Dispatch(i) \/ DispatchFails(i)
             \/ ReleaseFailed(i) \/ ApiCrash(i) \/ OperatorRetryFails(i)
    BY <1>1, <2>1 DEF Reserve, CommitFails, Dispatch, DispatchFails, ReleaseFailed, ApiCrash,
                OperatorRetryFails
  <2>2. CASE PersistTaskId(i)
    BY <1>1, <2>2, TaskOnly DEF PersistTaskId, SameRow
  <2>3. CASE (Commit(i) \/ MarkFailed(i) \/ OperatorRetry(i)) /\ j # i
    BY <1>1, <2>3 DEF Commit, MarkFailed, OperatorRetry, TypeOK
  <2>4. CASE Commit(i) /\ j = i
    BY <1>0, <2>4 DEF Commit, JobInv, Unadmitted, KeepsOutcome
  <2>5. CASE MarkFailed(i) /\ j = i
    BY <2>5 DEF MarkFailed, SetApi, FailedByApi, TypeOK
  <2>6. CASE OperatorRetry(i) /\ j = i
    BY <2>6 DEF OperatorRetry, KeepsOutcome, TypeOK
  <2> QED
    BY <1>2, <2>1, <2>2, <2>3, <2>4, <2>5, <2>6 DEF ApiNext
<1>3. ASSUME NEW w \in Workers, WorkerNext(w)
      PROVE  KeepsOutcome(j)
  <2>1. CASE UNCHANGED row
    BY <1>1, <2>1
  <2>2. ASSUME NEW i \in Jobs, NEW t \in Tasks, Claim(w, i, t)
        PROVE  KeepsOutcome(j)
    BY <1>1, <2>2 DEF Claim, Claimable, TypeOK, KeepsOutcome
  <2>3. CASE Complete(w) \/ SetDbJobFailure(w)
    <3>1. PICK i \in Jobs : i = worker[w].job /\ Running(w, i) /\ worker[w].pc \in {"run", "failing"}
      BY <2>3, Busy DEF Complete, SetDbJobFailure, Running
    <3>2. CASE i = j
      <4>1. row[j].status = "processing"
        BY <1>0, <3>1, <3>2 DEF Outcome
      <4> QED
        BY <4>1 DEF KeepsOutcome
    <3>3. CASE i # j
      BY <1>1, <2>3, <3>1, <3>3 DEF Complete, SetDbJobFailure, TypeOK
    <3> QED
      BY <3>2, <3>3
  <2>4. ~ForceDeadLetter(w)
    BY <1>0, Busy DEF ForceDeadLetter, Holds
  <2> QED
    BY <1>3, <2>1, <2>2, <2>3, <2>4 DEF WorkerNext, Ignore, PipelineFails, ReportCompleted, PublishRetry,
         RetryFails, ReportFailedRaises, PostRun, WorkerCrash, HardTimeLimit
<1>4. ASSUME NEW d \in Watchdogs, WatchNext(d)
      PROVE  KeepsOutcome(j)
  <2>1. CASE UNCHANGED row
    BY <1>1, <2>1
  <2>2. CASE RequeueStale(d)
    BY <1>1, <2>2, Busy DEF RequeueStale, KeepsOutcome, TypeOK
  <2>3. CASE MarkDead(d)
    <3>1. PICK i \in Jobs : /\ i = watch[d].job /\ Stale(d, i) /\ watch[d].attempts \in Nat
                            /\ watch[d].attempts + 1 > MaxAttempts
                            /\ row' = [row EXCEPT ![i].status = "dead",
                                                  ![i].attempts = watch[d].attempts + 1, ![i].task = NoTask]
      BY <2>3, Busy DEF MarkDead, Handles, Stale
    <3>2. CASE i = j
      <4>1. watch[d].attempts = MaxAttempts
        BY <1>0, <3>1, <3>2, JobsAssumption DEF StaleAttempts, Stale
      <4>2. row[j].status \in {"processing", "dead"}
        BY <1>0, <3>1, <3>2, <4>1 DEF Outcome
      <4>3. row'[j].status = "dead"
        BY <3>1, <3>2 DEF TypeOK, Rows
      <4> QED
        BY <4>2, <4>3 DEF KeepsOutcome
    <3>3. CASE i # j
      BY <1>1, <3>1, <3>3 DEF TypeOK
    <3> QED
      BY <3>2, <3>3
  <2>4. CASE RecoverQueued(d) \/ UndoRecovery(d)
    <3>1. PICK i \in Jobs : i = watch[d].job
      BY <2>4, Busy DEF RecoverQueued, UndoRecovery
    <3>2. PICK t : row' = row \/ row' = [row EXCEPT ![i].task = t]
      BY <2>4, <3>1 DEF RecoverQueued, UndoRecovery
    <3> QED
      BY <1>1, <3>2, TaskOnly DEF SameRow
  <2> QED
    BY <1>4, <2>1, <2>2, <2>3, <2>4 DEF WatchNext, Select, ReleaseDead, PublishStale, DispatchRecovered,
         WatchdogCrash
<1>5. ASSUME NEW i \in Jobs, RecoverDispatch(i) PROVE KeepsOutcome(j)
  BY <1>1, <1>5, TaskOnly DEF RecoverDispatch, SameRow
<1>6. CASE UNCHANGED row
  BY <1>1, <1>6
<1> QED
  BY <1>2, <1>3, <1>4, <1>5, <1>6 DEF Next, ChangeAuthority, vars

\* A completed job stays completed and a dead one waits for the operator,
\* whatever messages are late, duplicated or redelivered and however many
\* workers and watchdogs write to the row without looking at it
\* (_process_extraction_job, run_watchdog_cycle, retry_dead_letter_job).
THEOREM OutcomesFinal == Spec => TerminalIsFinal
<1>1. TypeOK /\ RunnerInv /\ AttemptsInv /\ SettledInv /\ [Next]_vars =>
        [\A j \in Jobs : Trusted(j) /\ (FailedByApi(j)' => FailedByApi(j)) /\ faults'.lost = 0 =>
           /\ row[j].status = "completed" => row'[j].status = "completed"
           /\ row[j].status = "dead" =>
                row'[j].status = "dead" \/ retries'[j] = retries[j] + 1]_vars
  BY OutcomeKept DEF KeepsOutcome
<1> QED
  BY <1>1, TypeCorrect, RunnerInvariant, AttemptsInvariant, SettledInvariant, PTL
     DEF Spec, TerminalIsFinal

-----------------------------------------------------------------------------
(* No job is forgotten.                                                    *)

\* Some message of the job is on its way.
Pending(j) == \E t \in Tasks : msgs[j][t] > 0

\* The request will store the id of the message it publishes.
Storing(j) ==
  /\ api[j].pc \in {"committed", "retried", "published"}
  /\ Lane[j] = "prepared" \/ (Lane[j] = "plain" /\ api[j].pc # "retried")

\* Before its row is written a job was neither started nor retried, and a
\* plain job stores an id only for the message of its admission.
Fresh(j) ==
  /\ row[j].status = "none" => ~row[j].started /\ retries[j] = 0
  /\ Lane[j] = "plain" /\ Storing(j) => retries[j] = 0
  /\ api[j].pc = "published" => Storing(j) /\ api[j].task \in Tasks

\* What the watchdog knows of a row it is busy with.
Watched(j) ==
  \A d \in Watchdogs : Handles(d, j) =>
    /\ watch[d].pc \in {"dispatch", "undo"} => watch[d].task # NoTask
    /\ watch[d].pc = "queued" => watch[d].stamp <= QueuedAt(j)
    /\ watch[d].pc = "queued" /\ Storing(j) => watch[d].stamp < QueuedAt(j)

\* A lease that is over has outlived the request before it.
LeaseOutlived(j) ==
  \A d \in Watchdogs :
    Stale(d, j) /\ row[j].status = "processing" /\ row[j].lease = watch[d].lease =>
      api[j].pc \notin {"committed", "retried", "published"}

\* A failed row will be retried.
FailedKept(j) ==
  row[j].status = "failed" =>
    /\ row[j].task = NoTask
    /\ Pending(j) \/ \E w \in Workers : Holds(w, j) /\ worker[w].pc = "failed"

\* A row that the watchdog put back has a message, or will have one.
RequeuedKept(j) ==
  row[j].status = "queued" /\ row[j].started =>
    /\ row[j].task = NoTask /\ api[j].pc \notin {"committed", "retried", "published"}
    /\ Pending(j) \/ \E d \in Watchdogs : Handles(d, j) /\ watch[d].pc = "publish"

\* The id in a queued row is that of a message that is there, or is about to
\* be sent or taken back.
AssignedKept(j) ==
  row[j].status = "queued" /\ ~row[j].started /\ row[j].task # NoTask /\ Lane[j] # "durable" =>
    \/ msgs[j][row[j].task] > 0
    \/ \E d \in Watchdogs : /\ Handles(d, j) /\ watch[d].pc \in {"dispatch", "undo"}
                            /\ watch[d].task = row[j].task

\* The id that a request will store is still good.
StoringKept(j) ==
  Storing(j) /\ row[j].status = "queued" =>
    /\ row[j].task = NoTask /\ ~row[j].started
    /\ api[j].pc = "published" => msgs[j][api[j].task] > 0

Kept(j) ==
  /\ Fresh(j) /\ Watched(j)
  /\ faults.lost = 0 /\ Trusted(j) =>
       LeaseOutlived(j) /\ FailedKept(j) /\ RequeuedKept(j) /\ AssignedKept(j) /\ StoringKept(j)
KeptInv == \A j \in Jobs : Kept(j)

\* Messages of the job are added only.
Grows(j) == \A t \in Tasks : msgs[j][t] > 0 => msgs'[j][t] > 0

\* A request moves on without writing the row: it stores no id it would not
\* have stored before, and what it publishes is there.
LEMMA KeptApiMove ==
  ASSUME TypeOK, NEW j \in Jobs, Kept(j), LostKept, KeepsTrust(j), Grows(j),
         row'[j] = row[j], retries'[j] = retries[j], UNCHANGED <<worker, watch>>,
         api'[j].pc \in {"committed", "retried", "published"} =>
           api[j].pc \in {"committed", "retried", "published"},
         Storing(j)' => Storing(j),
         api'[j].pc = "published" =>
           \/ api'[j] = api[j]
           \/ Storing(j)' /\ api'[j].task \in Tasks /\ msgs'[j][api'[j].task] > 0
  PROVE  Kept(j)'
<1>1. QueuedAt(j)' = QueuedAt(j) /\ (Pending(j) => Pending(j)')
  BY DEF QueuedAt, Pending, Grows
<1>2. \A d \in Watchdogs : (Handles(d, j)' <=> Handles(d, j)) /\ (Stale(d, j)' <=> Stale(d, j))
  BY DEF Handles, Stale
<1>3. \A w \in Workers : Holds(w, j)' <=> Holds(w, j)
  BY DEF Holds
<1>4. Fresh(j)'
  BY DEF Kept, Fresh, Storing
<1>5. Watched(j)'
  BY <1>1, <1>2 DEF Kept, Watched
<1>6. ASSUME faults'.lost = 0, Trusted(j)'
      PROVE  /\ LeaseOutlived(j)' /\ FailedKept(j)' /\ RequeuedKept(j)' /\ AssignedKept(j)'
             /\ StoringKept(j)'
  <2>1. LeaseOutlived(j) /\ FailedKept(j) /\ RequeuedKept(j) /\ AssignedKept(j) /\ StoringKept(j)
        /\ Fresh(j)
    BY <1>6 DEF Kept, LostKept, KeepsTrust
  <2>2. LeaseOutlived(j)'
    BY <1>2, <2>1 DEF LeaseOutlived
  <2>3. FailedKept(j)'
    BY <1>1, <1>3, <2>1 DEF FailedKept
  <2>4. RequeuedKept(j)'
    BY <1>1, <1>2, <2>1 DEF RequeuedKept
  <2>5. row[j].task # NoTask => row[j].task \in Tasks
    BY DEF TypeOK, Rows
  <2>6. AssignedKept(j)'
    BY <1>2, <2>1, <2>5 DEF AssignedKept, Grows
  <2>7. StoringKept(j)'
    BY <2>1 DEF StoringKept, Grows, Fresh
  <2> QED
    BY <2>2, <2>3, <2>4, <2>6, <2>7
<1> QED
  BY <1>4, <1>5, <1>6 DEF Kept

\* Publishing adds a message of the job and touches no other.
LEMMA SentGrows ==
  ASSUME TypeOK, NEW i \in Jobs, NEW t \in Tasks, NEW j \in Jobs,
         Sent(i, t) \/ Unsent(i, t) \/ UNCHANGED msgs
  PROVE  Grows(j) /\ (Sent(i, t) => msgs'[i][t] > 0)
<1>1. msgs \in [Jobs -> [Tasks -> Nat]]
  BY JobsAssumption DEF TypeOK
<1>2. CASE UNCHANGED msgs /\ ~Sent(i, t)
  BY <1>2 DEF Grows
<1>3. CASE Sent(i, t)
  <2>1. msgs' = [msgs EXCEPT ![i] = [msgs[i] EXCEPT ![t] = msgs[i][t] + 1]]
    BY <1>1, <1>3 DEF Sent
  <2>2. msgs[i] \in [Tasks -> Nat] /\ msgs'[i] = [msgs[i] EXCEPT ![t] = msgs[i][t] + 1]
    BY <1>1, <2>1
  <2>3. msgs'[i][t] = msgs[i][t] + 1 /\ \A u \in Tasks : u # t => msgs'[i][u] = msgs[i][u]
    BY <2>2
  <2>4. j # i => msgs'[j] = msgs[j]
    BY <1>1, <2>1
  <2>5. msgs[i][t] \in Nat
    BY <2>2
  <2> QED
    BY <2>3, <2>4, <2>5 DEF Grows
<1> QED
  BY <1>2, <1>3 DEF Unsent

\* The requests and the operator forget no job.
LEMMA KeptApi ==
  ASSUME TypeOK, RunnerInv, KeptInv, NEW i \in Jobs, ApiNext(i), LostKept, NEW j \in Jobs
  PROVE  Kept(j)'
<1>0. Kept(j) /\ JobInv(j) /\ KeepsTrust(j) /\ UNCHANGED <<worker, watch>>
  BY TrustApi DEF KeptInv, RunnerInv, JobInv, ApiNext, Reserve, Commit, CommitFails,
         Dispatch, DispatchFails, PersistTaskId, MarkFailed, ReleaseFailed, ApiCrash,
         OperatorRetry, OperatorRetryFails
<1> USE DEF NoTask
<1>1. ASSUME UNCHANGED msgs PROVE Grows(j)
  BY <1>1 DEF Grows
<1>2. CASE OperatorRetryFails(i)
  BY <1>0, <1>1, <1>2, KeptApiMove DEF OperatorRetryFails, Storing
<1>3. ASSUME NEW pc \in {"reserved", "full", "rejected", "failed", "done", "unsent", "marked"},
             NEW t \in Tasks \union {NoTask},
             SetApi(i, pc, t), UNCHANGED <<row, retries>>, Grows(j)
      PROVE  Kept(j)'
  <2>1. api'[i].pc = pc /\ (j # i => api'[j] = api[j])
    BY <1>3 DEF SetApi, TypeOK
  <2>2. (Storing(j)' => Storing(j)) /\ (api'[j].pc = "published" => api'[j] = api[j])
        /\ (api'[j].pc \in {"committed", "retried", "published"} =>
              api[j].pc \in {"committed", "retried", "published"})
    BY <2>1 DEF Storing
  <2> QED
    BY <1>0, <1>3, <2>2, KeptApiMove
<1>4. CASE Reserve(i) \/ CommitFails(i) \/ ReleaseFailed(i) \/ ApiCrash(i)
  BY <1>1, <1>3, <1>4 DEF Reserve, CommitFails, ReleaseFailed, ApiCrash
<1>5. CASE Dispatch(i) \/ DispatchFails(i)
  <2> DEFINE own == Lane[i] = "durable" /\ api[i].pc = "committed"
             t == IF own THEN OwnId ELSE issued[i] + 1
  <2>1. t \in Tasks
    BY <1>5, NewTaskType, JobsAssumption DEF Dispatch, DispatchFails, Tasks, OwnId
  <2>2. /\ api[i].pc \in {"committed", "retried"} /\ UNCHANGED <<row, retries>>
        /\ Sent(i, t) \/ Unsent(i, t)
    BY <1>5 DEF Dispatch, DispatchFails
  <2>3. Grows(j)
    BY <2>1, <2>2, SentGrows
  <2>4. CASE DispatchFails(i)
    BY <1>3, <2>2, <2>3, <2>4 DEF DispatchFails
  <2>5. CASE Dispatch(i) /\ ~SetApi(i, "published", t)
    BY <1>3, <2>2, <2>3, <2>5 DEF Dispatch
  <2>6. CASE Dispatch(i) /\ SetApi(i, "published", t)
    <3>1. Lane[i] = (IF api[i].pc = "committed" THEN "plain" ELSE "prepared")
      BY <2>6 DEF Dispatch, SetApi, TypeOK
    <3>2. Storing(i)
      BY <2>2, <3>1 DEF Storing
    <3>3. api'[i] = [pc |-> "published", task |-> t] /\ (j # i => api'[j] = api[j])
      BY <2>6 DEF SetApi, TypeOK
    <3>4. msgs'[i][t] > 0
      BY <2>1, <2>6, SentGrows DEF Dispatch
    <3>5. Storing(i)'
      BY <2>2, <3>1, <3>3 DEF Storing
    <3>6. Storing(j)' => Storing(j)
      BY <3>2, <3>3 DEF Storing
    <3>7. api'[i].task = t
      BY <3>3
    <3>8. api'[j].pc = "published" =>
            \/ api'[j] = api[j]
            \/ Storing(j)' /\ api'[j].task \in Tasks /\ msgs'[j][api'[j].task] > 0
      <4> HIDE DEF t
      <4>1. CASE j # i
        BY <3>3, <4>1
      <4>2. CASE j = i
        BY <2>1, <3>4, <3>5, <3>7, <4>2
      <4> QED
        BY <4>1, <4>2
    <3>9. api'[j].pc \in {"committed", "retried", "published"} =>
            api[j].pc \in {"committed", "retried", "published"}
      BY <2>2, <3>3
    <3> QED
      BY <1>0, <2>2, <2>3, <3>6, <3>8, <3>9, KeptApiMove
  <2> QED
    BY <1>5, <2>4, <2>5, <2>6
\* The writes, for another job ...
<1>6. CASE j # i /\ (Commit(i) \/ PersistTaskId(i) \/ MarkFailed(i) \/ OperatorRetry(i))
  <2>1. row'[j] = row[j] /\ api'[j] = api[j] /\ retries'[j] = retries[j] /\ UNCHANGED msgs
    BY <1>6 DEF Commit, PersistTaskId, MarkFailed, OperatorRetry, SetApi, TypeOK
  <2> QED
    BY <1>0, <1>1, <2>1, KeptApiMove DEF Storing
\* ... and for this one.
<1>7. CASE j = i /\ Commit(i)
  <2>1. /\ row[j].status = "none" /\ row'[j].status = "queued" /\ row'[j].started = row[j].started
        /\ row'[j].task = (IF Lane[j] = "durable" THEN OwnId ELSE NoTask)
        /\ api'[j] = [pc |-> "committed", task |-> NoTask] /\ UNCHANGED <<msgs, retries>>
    BY <1>0, <1>7 DEF Commit, JobInv, Unadmitted, SetApi, TypeOK, Rows
  <2>2. \A d \in Watchdogs : ~Handles(d, j)'
    BY <1>0, <2>1 DEF JobInv, Unadmitted, Handles
  <2>3. ~row[j].started /\ retries[j] = 0
    BY <1>0, <2>1 DEF Kept, Fresh
  <2>4. Fresh(j)' /\ Watched(j)'
    BY <2>1, <2>2, <2>3 DEF Fresh, Watched, Storing
  <2>5. LeaseOutlived(j)' /\ FailedKept(j)' /\ RequeuedKept(j)'
    BY <2>1, <2>2, <2>3 DEF LeaseOutlived, FailedKept, RequeuedKept, Stale
  <2>6. AssignedKept(j)' /\ StoringKept(j)'
    BY <2>1, <2>3 DEF AssignedKept, StoringKept, Storing
  <2> QED
    BY <2>4, <2>5, <2>6 DEF Kept
<1>8. CASE j = i /\ PersistTaskId(i)
  <2>1. api[j].pc = "published" /\ SetApi(i, "done", NoTask) /\ UNCHANGED <<msgs, retries>>
    BY <1>8 DEF PersistTaskId
  <2>2. CASE UNCHANGED row
    BY <1>1, <1>3, <2>1, <2>2
  <2>3. CASE ~UNCHANGED row
    <3>1. /\ row[j].status = "queued" /\ row[j].task = NoTask
          /\ row' = [row EXCEPT ![j].task = api[j].task]
      BY <1>8, <2>3 DEF PersistTaskId
    <3>2. api'[j] = [pc |-> "done", task |-> NoTask]
      BY <1>8, <2>1 DEF SetApi, TypeOK
    <3>3. row'[j].status = "queued" /\ row'[j].task = api[j].task /\ row'[j].started = row[j].started
      BY <3>1 DEF TypeOK, Rows
    <3>4. \A d \in Watchdogs : (Handles(d, j)' <=> Handles(d, j)) /\ (Stale(d, j)' <=> Stale(d, j))
      BY <1>0 DEF Handles, Stale
    <3>5. Fresh(j)' /\ Watched(j)'
      BY <1>0, <2>1, <3>1, <3>2, <3>3, <3>4 DEF Kept, Fresh, Watched, Storing, QueuedAt
    <3>6. ASSUME faults'.lost = 0, Trusted(j)'
          PROVE  /\ LeaseOutlived(j)' /\ FailedKept(j)' /\ RequeuedKept(j)' /\ AssignedKept(j)'
                 /\ StoringKept(j)'
      <4>1. Storing(j) /\ StoringKept(j)
        BY <1>0, <2>1, <3>6 DEF Kept, LostKept, KeepsTrust, Fresh
      <4>2. msgs[j][api[j].task] > 0 /\ ~row[j].started
        BY <2>1, <3>1, <4>1 DEF StoringKept
      <4> QED
        BY <2>1, <3>2, <3>3, <4>2 DEF LeaseOutlived, FailedKept, RequeuedKept, AssignedKept, StoringKept, Storing
    <3> QED
      BY <3>5, <3>6 DEF Kept
  <2> QED
    BY <2>2, <2>3
<1>9. CASE j = i /\ MarkFailed(i)
  <2>1. ~Trusted(j)'
    BY <1>0, <1>9 DEF MarkFailed, JobInv, Unconditional, Trusted, FailedByApi, SetApi, TypeOK
  <2>2. api'[j] = [pc |-> "marked", task |-> NoTask] /\ row'[j].status = "failed" /\ UNCHANGED retries
    BY <1>9 DEF MarkFailed, SetApi, TypeOK, Rows
  <2>3. Fresh(j)' /\ Watched(j)'
    BY <1>0, <2>2 DEF Kept, Fresh, Watched, Storing, QueuedAt, Handles
  <2> QED
    BY <2>1, <2>3 DEF Kept
<1>10. CASE j = i /\ OperatorRetry(i)
  <2>1. /\ row'[j].status = "queued" /\ row'[j].task = NoTask /\ ~row'[j].started
        /\ api'[j] = [pc |-> "retried", task |-> NoTask] /\ retries'[j] = retries[j] + 1
        /\ retries[j] \in Nat
    BY <1>10, JobsAssumption DEF OperatorRetry, SetApi, TypeOK, Rows
  <2>2. Fresh(j)'
    BY <2>1 DEF Fresh, Storing
  <2>3. Watched(j)'
    <3> SUFFICES ASSUME NEW d \in Watchdogs, Handles(d, j)
                 PROVE  /\ watch[d].pc \in {"dispatch", "undo"} => watch[d].task # NoTask
                        /\ watch[d].pc = "queued" => watch[d].stamp <= QueuedAt(j)'
                        /\ watch[d].pc = "queued" /\ Storing(j)' => watch[d].stamp < QueuedAt(j)'
      BY <1>0 DEF Watched, Handles
    <3>1. watch[d].stamp \in Nat
      BY DEF TypeOK, WatchStates, Handles
    <3>2. /\ watch[d].pc \in {"dispatch", "undo"} => watch[d].task # NoTask
          /\ watch[d].pc = "queued" => watch[d].stamp <= QueuedAt(j)
      BY <1>0 DEF Kept, Watched
    <3>3. Storing(j)' => Lane[j] = "prepared"
      BY <2>1 DEF Storing
    <3> QED
      BY <2>1, <3>1, <3>2, <3>3 DEF QueuedAt
  <2>4. LeaseOutlived(j)' /\ FailedKept(j)' /\ RequeuedKept(j)' /\ AssignedKept(j)' /\ StoringKept(j)'
    BY <2>1 DEF LeaseOutlived, FailedKept, RequeuedKept, AssignedKept, StoringKept
  <2> QED
    BY <2>2, <2>3, <2>4 DEF Kept
<1> QED
  BY <1>2, <1>4, <1>5, <1>6, <1>7, <1>8, <1>9, <1>10 DEF ApiNext

\* A worker moves on without writing the row: who was to retry the job has
\* published it, unless a fault was not recovered from.
LEMMA KeptWorkerMove ==
  ASSUME TypeOK, NEW j \in Jobs, Kept(j), LostKept, Grows(j),
         row'[j] = row[j], UNCHANGED <<api, watch, retries>>,
         faults'.lost = 0 => \A w \in Workers : Holds(w, j) /\ worker[w].pc = "failed" =>
                               (Holds(w, j)' /\ worker'[w].pc = "failed") \/ Pending(j)'
  PROVE  Kept(j)'
<1>1. QueuedAt(j)' = QueuedAt(j) /\ (Pending(j) => Pending(j)') /\ (Storing(j)' <=> Storing(j))
      /\ KeepsTrust(j)
  BY TrustKept DEF QueuedAt, Pending, Grows, Storing
<1>2. \A d \in Watchdogs : (Handles(d, j)' <=> Handles(d, j)) /\ (Stale(d, j)' <=> Stale(d, j))
  BY DEF Handles, Stale
<1>3. Fresh(j)' /\ Watched(j)'
  BY <1>1, <1>2 DEF Kept, Fresh, Watched
<1>4. ASSUME faults'.lost = 0, Trusted(j)'
      PROVE  /\ LeaseOutlived(j)' /\ FailedKept(j)' /\ RequeuedKept(j)' /\ AssignedKept(j)'
             /\ StoringKept(j)'
  <2>1. LeaseOutlived(j) /\ FailedKept(j) /\ RequeuedKept(j) /\ AssignedKept(j) /\ StoringKept(j)
        /\ Fresh(j)
    BY <1>1, <1>4 DEF Kept, LostKept, KeepsTrust
  <2>2. LeaseOutlived(j)'
    BY <1>2, <2>1 DEF LeaseOutlived
  <2>3. FailedKept(j)'
    BY <1>1, <1>4, <2>1 DEF FailedKept
  <2>4. RequeuedKept(j)'
    BY <1>1, <1>2, <2>1 DEF RequeuedKept
  <2>5. row[j].task # NoTask => row[j].task \in Tasks
    BY DEF TypeOK, Rows
  <2>6. AssignedKept(j)'
    BY <1>2, <2>1, <2>5 DEF AssignedKept, Grows
  <2>7. StoringKept(j)'
    BY <1>1, <2>1 DEF StoringKept, Grows, Fresh
  <2> QED
    BY <2>2, <2>3, <2>4, <2>6, <2>7
<1> QED
  BY <1>3, <1>4 DEF Kept

\* The workers forget no job.
LEMMA KeptWorker ==
  ASSUME TypeOK, RunnerInv, KeptInv, NEW w \in Workers, WorkerNext(w), LostKept, NEW j \in Jobs
  PROVE  Kept(j)'
<1>0. Kept(j) /\ JobInv(j) /\ UNCHANGED <<api, watch, retries>> /\ KeepsTrust(j)
  BY TrustKept DEF KeptInv, RunnerInv, JobInv, WorkerNext, Claim, Ignore, Complete, PipelineFails,
         ReportCompleted, SetDbJobFailure, PublishRetry, RetryFails, ForceDeadLetter, ReportFailedRaises,
         PostRun, WorkerCrash, HardTimeLimit
<1>1. /\ UNCHANGED msgs => Grows(j)
      /\ QueuedAt(j)' = QueuedAt(j) /\ (Storing(j)' <=> Storing(j))
      /\ \A d \in Watchdogs : (Handles(d, j)' <=> Handles(d, j)) /\ (Stale(d, j)' <=> Stale(d, j))
  BY <1>0 DEF Grows, QueuedAt, Storing, Handles, Stale
<1>2. ASSUME row'[j].status # "none"
      PROVE  Fresh(j)' /\ Watched(j)'
  BY <1>0, <1>1, <1>2 DEF Kept, Fresh, Watched
\* What a step of worker w is for the others.
<1>3. ASSUME NEW pc, Step(w, pc), worker[w].pc # "idle"
      PROVE  /\ \A v \in Workers : v # w => worker'[v] = worker[v]
             /\ worker'[w].job = worker[w].job /\ worker'[w].pc = pc /\ worker[w] # Idle
             /\ worker'[w] # Idle
  <2>1. worker[w] \in WorkerStates /\ worker[w] # Idle
    BY <1>3, Busy
  <2>2. worker'[w] = [worker[w] EXCEPT !.pc = pc] /\ \A v \in Workers : v # w => worker'[v] = worker[v]
    BY <1>3 DEF Step, TypeOK
  <2> QED
    BY <2>1, <2>2 DEF WorkerStates, Idle
<1>4. ASSUME NEW i \in Jobs, NEW t \in Tasks, Take(w, i, t)
      PROVE  /\ \A u \in Tasks : ~(j = i /\ u = t) => msgs'[j][u] = msgs[j][u]
             /\ worker[w] = Idle
  <2>1. msgs \in [Jobs -> [Tasks -> Nat]]
    BY JobsAssumption DEF TypeOK
  <2>2. msgs' = [msgs EXCEPT ![i] = [msgs[i] EXCEPT ![t] = msgs[i][t] - 1]]
    BY <1>4, <2>1 DEF Take
  <2> QED
    BY <1>4, <2>1, <2>2 DEF Take
<1>5. ASSUME NEW i \in Jobs, NEW t \in Tasks, Claim(w, i, t)
      PROVE  Kept(j)'
  <2>1. /\ row'[i].status = "processing" /\ row'[i].lease = row[i].lease + 1
        /\ worker[w] = Idle /\ \A v \in Workers : v # w => worker'[v] = worker[v]
        /\ \A k \in Jobs : k # i => row'[k] = row[k]
    BY <1>5 DEF Claim, Take, TypeOK, Rows
  <2>2. CASE j # i
    <3>1. Grows(j)
      BY <1>4, <1>5, <2>2 DEF Claim, Grows
    <3>2. \A v \in Workers : Holds(v, j) => worker'[v] = worker[v]
      BY <2>1 DEF Holds
    <3> QED
      BY <1>0, <2>1, <2>2, <3>1, <3>2, KeptWorkerMove DEF Holds
  <2>3. CASE j = i
    <3>1. Fresh(j)' /\ Watched(j)'
      BY <1>2, <2>1, <2>3
    <3>2. ASSUME Trusted(j)' PROVE LeaseOutlived(j)'
      <4>1. StaleLease(j)
        BY <1>0, <3>2 DEF JobInv, KeepsTrust
      <4>2. \A d \in Watchdogs : Stale(d, j)' =>
              watch[d].lease \in Nat /\ watch[d].lease <= row[j].lease /\ watch'[d] = watch[d]
        BY <1>0, <1>1, <4>1, Busy DEF StaleLease, Stale, Handles
      <4>3. row[j].lease \in Nat
        BY DEF TypeOK, Rows
      <4> QED
        BY <2>1, <2>3, <4>2, <4>3 DEF LeaseOutlived
    <3>3. FailedKept(j)' /\ RequeuedKept(j)' /\ AssignedKept(j)' /\ StoringKept(j)'
      BY <2>1, <2>3 DEF FailedKept, RequeuedKept, AssignedKept, StoringKept
    <3> QED
      BY <3>1, <3>2, <3>3 DEF Kept
  <2> QED
    BY <2>2, <2>3
<1>6. ASSUME NEW i \in Jobs, NEW t \in Tasks, Ignore(w, i, t)
      PROVE  Kept(j)'
  <2>1. /\ UNCHANGED row /\ worker[w] = Idle /\ \A v \in Workers : v # w => worker'[v] = worker[v]
    BY <1>6 DEF Ignore, Take, TypeOK
  <2>2. \A v \in Workers : Holds(v, j) => worker'[v] = worker[v]
    BY <2>1 DEF Holds
  <2>3. CASE j # i
    <3>1. Grows(j)
      BY <1>4, <1>6, <2>3 DEF Ignore, Grows
    <3> QED
      BY <1>0, <2>1, <2>2, <3>1, KeptWorkerMove DEF Holds
  <2>4. CASE j = i
    <3>1. Fresh(j)' /\ Watched(j)'
      BY <1>0, <1>1, <2>1 DEF Kept, Fresh, Watched
    <3>2. ASSUME faults'.lost = 0, Trusted(j)'
          PROVE  /\ LeaseOutlived(j)' /\ FailedKept(j)' /\ RequeuedKept(j)' /\ AssignedKept(j)'
                 /\ StoringKept(j)'
      <4>1. ~Claimable(j, t)
        BY <1>6, <2>4, <3>2, FaultLost DEF Ignore, Recovered
      <4>2. LeaseOutlived(j) /\ FailedKept(j) /\ RequeuedKept(j) /\ AssignedKept(j) /\ StoringKept(j)
            /\ Fresh(j)
        BY <1>0, <3>2 DEF Kept, LostKept, KeepsTrust
      <4>3. row[j].status # "failed" /\ ~(row[j].status = "queued" /\ row[j].task \in {NoTask, t})
        BY <4>1, <4>2 DEF Claimable, FailedKept
      <4>4. \A u \in Tasks : u # t => msgs'[j][u] = msgs[j][u]
        BY <1>4, <1>6 DEF Ignore
      <4>5. LeaseOutlived(j)' /\ FailedKept(j)' /\ RequeuedKept(j)' /\ StoringKept(j)'
        BY <1>0, <1>1, <2>1, <4>2, <4>3 DEF LeaseOutlived, FailedKept, RequeuedKept, StoringKept
      <4>6. row[j].task # NoTask => row[j].task \in Tasks
        BY DEF TypeOK, Rows
      <4>7. AssignedKept(j)'
        BY <1>0, <1>1, <2>1, <4>2, <4>3, <4>4, <4>6 DEF AssignedKept
      <4> QED
        BY <4>5, <4>7
    <3> QED
      BY <3>1, <3>2 DEF Kept
  <2> QED
    BY <2>3, <2>4
<1>7. CASE WorkerCrash(w)
  <2>1. PICK i \in Jobs, t \in Tasks : worker[w].job = i /\ worker[w] # Idle /\ Sent(i, t)
    BY <1>7, Busy DEF WorkerCrash
  <2>2. Grows(j) /\ msgs'[i][t] > 0
    BY <2>1, SentGrows
  <2>3. UNCHANGED row /\ \A v \in Workers : v # w => worker'[v] = worker[v]
    BY <1>7 DEF WorkerCrash, TypeOK
  <2>4. \A v \in Workers : Holds(v, j) => (v # w /\ Holds(v, j)' /\ worker'[v] = worker[v]) \/ Pending(j)'
    BY <2>1, <2>2, <2>3 DEF Holds, Pending
  <2> QED
    BY <1>0, <2>2, <2>3, <2>4, KeptWorkerMove
<1>8. CASE PostRun(w) \/ HardTimeLimit(w)
  <2>1. /\ UNCHANGED <<row, msgs>> /\ \A v \in Workers : v # w => worker'[v] = worker[v]
        /\ faults'.lost = 0 => worker[w].pc # "failed"
    BY <1>8, FaultLost DEF PostRun, HardTimeLimit, TypeOK, Recovered
  <2>2. faults'.lost = 0 => \A v \in Workers : Holds(v, j) /\ worker[v].pc = "failed" =>
                              Holds(v, j)' /\ worker'[v].pc = "failed"
    BY <2>1 DEF Holds
  <2> QED
    BY <1>0, <1>1, <2>1, <2>2, KeptWorkerMove
<1>9. ASSUME NEW pc, Step(w, pc), worker[w].pc # "idle", UNCHANGED row, Grows(j),
             faults'.lost = 0 => worker[w].pc # "failed" \/ (worker[w].job = j => Pending(j)')
      PROVE  Kept(j)'
  <2>1. /\ \A v \in Workers : v # w => worker'[v] = worker[v]
    BY <1>3, <1>9
  <2>2. faults'.lost = 0 => \A v \in Workers : Holds(v, j) /\ worker[v].pc = "failed" =>
                              (Holds(v, j)' /\ worker'[v].pc = "failed") \/ Pending(j)'
    BY <1>9, <2>1 DEF Holds
  <2> QED
    BY <1>0, <1>9, <2>2, KeptWorkerMove
<1>10. CASE PipelineFails(w) \/ ReportCompleted(w) \/ ReportFailedRaises(w)
            \/ (SetDbJobFailure(w) /\ UNCHANGED row) \/ (ForceDeadLetter(w) /\ UNCHANGED row)
  <2>1. PICK pc : /\ Step(w, pc) /\ worker[w].pc # "idle" /\ UNCHANGED <<row, msgs>>
                  /\ worker[w].pc # "failed" \/ Fault("redis")
    BY <1>10 DEF PipelineFails, ReportCompleted, ReportFailedRaises, SetDbJobFailure, ForceDeadLetter
  <2>2. faults'.lost = 0 => worker[w].pc # "failed"
    BY <2>1, FaultLost DEF Recovered
  <2> QED
    BY <1>1, <1>9, <2>1, <2>2
<1>11. CASE PublishRetry(w) \/ RetryFails(w)
  <2>1. PICK i \in Jobs : i = worker[w].job
    BY <1>11, Busy DEF PublishRetry, RetryFails
  <2>2. issued[i] + 1 \in Tasks /\ UNCHANGED row
    BY <1>11, <2>1, NewTaskType DEF PublishRetry, RetryFails
  <2>3. Sent(i, issued[i] + 1) \/ (Unsent(i, issued[i] + 1) /\ Fault("retry"))
    BY <1>11, <2>1 DEF PublishRetry, RetryFails
  <2>4. Grows(j) /\ (Sent(i, issued[i] + 1) => msgs'[i][issued[i] + 1] > 0)
    BY <2>2, <2>3, SentGrows
  <2>5. faults'.lost = 0 => Pending(i)' \/ Sent(i, issued[i] + 1)
    BY <2>3, FaultLost DEF Recovered
  <2>6. faults'.lost = 0 => (worker[w].job = j => Pending(j)')
    BY <2>1, <2>2, <2>4, <2>5 DEF Pending
  <2>7. PICK pc : Step(w, pc) /\ worker[w].pc # "idle"
    BY <1>11 DEF PublishRetry, RetryFails
  <2> QED
    BY <1>9, <2>2, <2>4, <2>6, <2>7
\* The writes.
<1>12. CASE (Complete(w) \/ SetDbJobFailure(w) \/ ForceDeadLetter(w)) /\ ~UNCHANGED row
  <2>1. PICK i \in Jobs : i = worker[w].job /\ worker[w] # Idle
    BY <1>12, Busy DEF Complete, SetDbJobFailure, ForceDeadLetter
  <2>2. PICK pc : Step(w, pc) /\ worker[w].pc \in {"run", "failing", "unretried"} /\ UNCHANGED msgs
    BY <1>12 DEF Complete, SetDbJobFailure, ForceDeadLetter
  <2>3. /\ \A v \in Workers : v # w => worker'[v] = worker[v]
        /\ worker'[w].job = i /\ worker'[w].pc = pc /\ worker'[w] # Idle
    BY <1>3, <2>1, <2>2
  <2>4. CASE j # i
    <3>1. row'[j] = row[j]
      BY <1>12, <2>1, <2>4 DEF Complete, SetDbJobFailure, ForceDeadLetter, TypeOK
    <3>2. \A v \in Workers : Holds(v, j) => worker'[v] = worker[v]
      BY <2>1, <2>3, <2>4 DEF Holds
    <3> QED
      BY <1>0, <1>1, <2>2, <3>1, <3>2, KeptWorkerMove DEF Holds
  <2>5. CASE j = i
    <3>1. /\ row'[j].status \in {"completed", "dead", "failed"}
          /\ row'[j].status = "failed" => row'[j].task = NoTask /\ pc = "failed"
      <4>1. CASE Complete(w)
        BY <2>1, <2>5, <4>1 DEF Complete, TypeOK, Rows
      <4>2. CASE ForceDeadLetter(w)
        BY <1>12, <2>1, <2>5, <4>2 DEF ForceDeadLetter, TypeOK, Rows
      <4>3. CASE SetDbJobFailure(w)
        <5> DEFINE n == row[j].attempts + 1
                   st == IF n >= MaxAttempts THEN "dead" ELSE "failed"
        <5>1. row' = [row EXCEPT ![j].status = st, ![j].attempts = n, ![j].task = NoTask]
              /\ Step(w, IF n >= MaxAttempts THEN "release" ELSE "failed")
          BY <1>12, <2>1, <2>5, <4>3 DEF SetDbJobFailure
        <5>2. worker'[w].pc = IF n >= MaxAttempts THEN "release" ELSE "failed"
          BY <1>3, <2>2, <5>1
        <5>3. row'[j].status = st /\ row'[j].task = NoTask
          BY <5>1 DEF TypeOK, Rows
        <5> QED
          BY <2>3, <5>2, <5>3
      <4> QED
        BY <1>12, <4>1, <4>2, <4>3
    <3>2. Fresh(j)' /\ Watched(j)'
      BY <1>2, <3>1
    <3>3. row'[j].status = "failed" => Holds(w, j)' /\ worker'[w].pc = "failed"
      BY <2>3, <2>5, <3>1 DEF Holds
    <3>4. LeaseOutlived(j)' /\ FailedKept(j)' /\ RequeuedKept(j)' /\ AssignedKept(j)' /\ StoringKept(j)'
      BY <3>1, <3>3 DEF LeaseOutlived, FailedKept, RequeuedKept, AssignedKept, StoringKept
    <3> QED
      BY <3>2, <3>4 DEF Kept
  <2> QED
    BY <2>4, <2>5
<1>13. CASE Complete(w) /\ UNCHANGED row
  BY <1>1, <1>9, <1>13 DEF Complete
<1> QED
  BY <1>5, <1>6, <1>7, <1>8, <1>10, <1>11, <1>12, <1>13 DEF WorkerNext

\* A watchdog moves on without writing the row: what it was to send is there,
\* or another step will send it or take it back.
LEMMA KeptWatchMove ==
  ASSUME TypeOK, NEW j \in Jobs, Kept(j), LostKept, Grows(j),
         row'[j] = row[j], UNCHANGED <<api, worker, retries>>, Watched(j)',
         \A d \in Watchdogs : Stale(d, j)' =>
           \/ Stale(d, j) /\ watch'[d].lease = watch[d].lease
           \/ api[j].pc \notin {"committed", "retried", "published"},
         faults'.lost = 0 => \A d \in Watchdogs : Handles(d, j) /\ watch[d].pc = "publish" =>
           (Handles(d, j)' /\ watch'[d].pc = "publish") \/ Pending(j)',
         faults'.lost = 0 => \A d \in Watchdogs :
           (Handles(d, j) /\ watch[d].pc \in {"dispatch", "undo"}
             /\ row[j].status = "queued" /\ row[j].task = watch[d].task) =>
             \/ /\ Handles(d, j)' /\ watch'[d].pc \in {"dispatch", "undo"}
                /\ watch'[d].task = watch[d].task
             \/ msgs'[j][watch[d].task] > 0
  PROVE  Kept(j)'
<1>1. (Pending(j) => Pending(j)') /\ (Storing(j)' <=> Storing(j)) /\ KeepsTrust(j)
      /\ \A w \in Workers : Holds(w, j)' <=> Holds(w, j)
  BY TrustKept DEF Pending, Grows, Storing, Holds
<1>2. Fresh(j)'
  BY <1>1 DEF Kept, Fresh
<1>3. ASSUME faults'.lost = 0, Trusted(j)'
      PROVE  /\ LeaseOutlived(j)' /\ FailedKept(j)' /\ RequeuedKept(j)' /\ AssignedKept(j)'
             /\ StoringKept(j)'
  <2>1. LeaseOutlived(j) /\ FailedKept(j) /\ RequeuedKept(j) /\ AssignedKept(j) /\ StoringKept(j)
        /\ Fresh(j)
    BY <1>1, <1>3 DEF Kept, LostKept, KeepsTrust
  <2>2. LeaseOutlived(j)'
    BY <2>1 DEF LeaseOutlived
  <2>3. FailedKept(j)'
    BY <1>1, <2>1 DEF FailedKept
  <2>4. RequeuedKept(j)'
    BY <1>1, <1>3, <2>1 DEF RequeuedKept
  <2>5. row[j].task # NoTask => row[j].task \in Tasks
    BY DEF TypeOK, Rows
  <2>6. AssignedKept(j)'
    BY <1>3, <2>1, <2>5 DEF AssignedKept, Grows
  <2>7. StoringKept(j)'
    BY <1>1, <2>1 DEF StoringKept, Grows, Fresh
  <2> QED
    BY <2>2, <2>3, <2>4, <2>6, <2>7
<1> QED
  BY <1>2, <1>3 DEF Kept

\* The watchdog and the queued recovery forget no job.
LEMMA KeptWatch ==
  ASSUME "slow" \notin Faults,
         TypeOK, RunnerInv, KeptInv, NEW d \in Watchdogs, WatchNext(d), LostKept, NEW j \in Jobs
  PROVE  Kept(j)'
<1>0. Kept(j) /\ UNCHANGED <<api, worker, retries>> /\ KeepsTrust(j)
  BY TrustKept DEF KeptInv, WatchNext, Select, RequeueStale, MarkDead, ReleaseDead, PublishStale,
         RecoverQueued, DispatchRecovered, UndoRecovery, WatchdogCrash
<1>1. /\ UNCHANGED msgs => Grows(j)
      /\ QueuedAt(j)' = QueuedAt(j) /\ (Storing(j)' <=> Storing(j))
  BY <1>0 DEF Grows, QueuedAt, Storing
\* What the step is for the other watchdogs, and for the other jobs.
<1>2. /\ \A e \in Watchdogs : e # d => watch'[e] = watch[e]
      /\ watch[d] # Idle /\ watch'[d] # Idle => watch'[d].job = watch[d].job
  <2>1. \A e \in Watchdogs : e # d => watch'[e] = watch[e]
    BY DEF WatchNext, Select, RequeueStale, MarkDead, ReleaseDead, PublishStale, RecoverQueued,
           DispatchRecovered, UndoRecovery, WatchdogCrash, Watch, TypeOK
  <2>2. CASE watch[d] # Idle
    <3>1. watch[d] \in WatchStates
      BY <2>2, Busy
    <3>2. \/ watch' = [watch EXCEPT ![d] = Idle]
          \/ \E pc : watch' = [watch EXCEPT ![d].pc = pc]
          \/ \E pc, t : watch' = [watch EXCEPT ![d].pc = pc, ![d].task = t]
          \/ UNCHANGED watch
      BY <2>2 DEF WatchNext, Select, RequeueStale, MarkDead, ReleaseDead, PublishStale, RecoverQueued,
           DispatchRecovered, UndoRecovery, WatchdogCrash, Watch
    <3> QED
      BY <2>1, <3>1, <3>2 DEF TypeOK, WatchStates
  <2> QED
    BY <2>1, <2>2
<1>3. ASSUME \A e \in Watchdogs : e # d => watch'[e] = watch[e],
             Handles(d, j)' => /\ watch'[d].pc \in {"dispatch", "undo"} => watch'[d].task # NoTask
                               /\ watch'[d].pc = "queued" =>
                                    ~Storing(j) /\ watch'[d].stamp <= QueuedAt(j)
      PROVE  Watched(j)'
  <2>1. Watched(j)
    BY <1>0 DEF Kept
  <2>2. \A e \in Watchdogs : e # d => (Handles(e, j)' <=> Handles(e, j))
    BY <1>3 DEF Handles
  <2> QED
    BY <1>1, <1>3, <2>1, <2>2 DEF Watched
<1>4. CASE row'[j] = row[j] /\ Grows(j) /\ ~Handles(d, j) /\ ~Handles(d, j)'
  <2>1. Watched(j)'
    BY <1>2, <1>3, <1>4
  <2>2. \A e \in Watchdogs : Handles(e, j) \/ Handles(e, j)' =>
          Handles(e, j) /\ Handles(e, j)' /\ watch'[e] = watch[e]
    BY <1>2, <1>4 DEF Handles
  <2> QED
    BY <1>0, <1>4, <2>1, <2>2, KeptWatchMove DEF Stale
\* A watchdog is done with its row.
<1>5. ASSUME watch' = [watch EXCEPT ![d] = Idle], row'[j] = row[j], Grows(j),
             faults'.lost = 0 /\ Handles(d, j) =>
               /\ watch[d].pc = "publish" => Pending(j)'
               /\ (watch[d].pc \in {"dispatch", "undo"} /\ row[j].status = "queued"
                    /\ row[j].task = watch[d].task) => msgs'[j][watch[d].task] > 0
      PROVE  Kept(j)'
  <2>1. ~Handles(d, j)'
    BY <1>5 DEF TypeOK, Handles
  <2>2. Watched(j)'
    BY <1>2, <1>3, <2>1
  <2>3. \A e \in Watchdogs : e # d => (Handles(e, j)' <=> Handles(e, j)) /\ (Stale(e, j)' <=> Stale(e, j))
    BY <1>2 DEF Handles, Stale
  <2>4. \A e \in Watchdogs : Stale(e, j)' => Stale(e, j) /\ watch'[e].lease = watch[e].lease
    BY <1>2, <2>1, <2>3 DEF Stale
  <2>5. faults'.lost = 0 => \A e \in Watchdogs : Handles(e, j) /\ watch[e].pc = "publish" =>
           (Handles(e, j)' /\ watch'[e].pc = "publish") \/ Pending(j)'
    BY <1>2, <1>5, <2>3
  <2>6. faults'.lost = 0 => \A e \in Watchdogs :
           (Handles(e, j) /\ watch[e].pc \in {"dispatch", "undo"}
             /\ row[j].status = "queued" /\ row[j].task = watch[e].task) =>
             \/ /\ Handles(e, j)' /\ watch'[e].pc \in {"dispatch", "undo"}
                /\ watch'[e].task = watch[e].task
             \/ msgs'[j][watch[e].task] > 0
    BY <1>2, <1>5, <2>3
  <2> QED
    BY <1>0, <1>5, <2>2, <2>4, <2>5, <2>6, KeptWatchMove
<1>6. ASSUME NEW i \in Jobs, Select(d, i) PROVE Kept(j)'
  <2>1. UNCHANGED <<row, msgs>> /\ watch[d] = Idle /\ watch'[d] # Idle /\ watch'[d].job = i
        /\ watch'[d].stamp = QueuedAt(i) /\ ~Handles(d, j)
    BY <1>6 DEF Select, TypeOK, Idle, Handles
  <2>2. CASE j # i
    BY <1>1, <1>4, <2>1, <2>2 DEF Handles
  <2>3. CASE j = i
    <3>1. \/ watch'[d].pc = "stale" /\ LeaseExpired(j)
          \/ watch'[d].pc = "queued" /\ GraceOver(j)
      BY <1>6, <2>3 DEF Select, TypeOK
    <3>2. GraceOver(j) => ~Storing(j)
      BY <1>0 DEF GraceOver, Storing, Kept, Fresh
    <3>3. QueuedAt(j) <= QueuedAt(j)
      BY JobsAssumption DEF QueuedAt, TypeOK
    <3>4. Watched(j)'
      BY <1>2, <1>3, <2>1, <2>3, <3>1, <3>2, <3>3
    <3>5. \A e \in Watchdogs : e # d => (Handles(e, j)' <=> Handles(e, j)) /\ (Stale(e, j)' <=> Stale(e, j))
      BY <1>2 DEF Handles, Stale
    <3>6. \A e \in Watchdogs : Stale(e, j)' =>
            \/ Stale(e, j) /\ watch'[e].lease = watch[e].lease
            \/ api[j].pc \notin {"committed", "retried", "published"}
      BY <1>2, <3>1, <3>5 DEF Stale, LeaseExpired
    <3>7. \A e \in Watchdogs : Handles(e, j) => e # d /\ Handles(e, j)' /\ watch'[e] = watch[e]
      BY <1>2, <2>1, <3>5
    <3> QED
      BY <1>0, <1>1, <2>1, <3>4, <3>6, <3>7, KeptWatchMove
  <2> QED
    BY <2>2, <2>3
<1>7. CASE ReleaseDead(d) \/ WatchdogCrash(d)
  <2>1. /\ UNCHANGED <<row, msgs>> /\ watch' = [watch EXCEPT ![d] = Idle]
        /\ watch[d].pc = "release" \/ Fault("watchdog")
    BY <1>7 DEF ReleaseDead, WatchdogCrash
  <2>2. faults'.lost = 0 => watch[d].pc = "release"
    BY <2>1, FaultLost DEF Recovered
  <2> QED
    BY <1>1, <1>5, <2>1, <2>2
<1>8. CASE PublishStale(d)
  <2>1. PICK i \in Jobs : i = watch[d].job /\ watch[d].pc = "publish"
    BY <1>8, Busy DEF PublishStale
  <2>2. /\ issued[i] + 1 \in Tasks /\ UNCHANGED row /\ watch' = [watch EXCEPT ![d] = Idle]
        /\ Sent(i, issued[i] + 1) \/ (Unsent(i, issued[i] + 1) /\ Fault("requeue"))
    BY <1>8, <2>1, NewTaskType DEF PublishStale
  <2>3. Grows(j) /\ (Sent(i, issued[i] + 1) => Pending(i)')
    BY <2>2, SentGrows DEF Pending
  <2>4. faults'.lost = 0 => Sent(i, issued[i] + 1)
    BY <2>2, FaultLost DEF Recovered
  <2>5. faults'.lost = 0 /\ Handles(d, j) => Pending(j)'
    BY <2>1, <2>3, <2>4 DEF Handles
  <2> QED
    BY <1>5, <2>1, <2>2, <2>3, <2>5
<1>9. CASE RequeueStale(d) /\ watch' = [watch EXCEPT ![d] = Idle]
  <2>1. UNCHANGED <<row, msgs>> /\ watch[d].pc = "stale"
    <3>1. watch[d].pc = "stale" /\ watch[d] \in WatchStates /\ UNCHANGED msgs
      BY <1>9, Busy DEF RequeueStale
    <3>2. ~Watch(d, "publish")
      <4>1. watch'[d] = Idle
        BY <1>9 DEF TypeOK
      <4>2. Watch(d, "publish") => watch'[d].pc = "publish"
        BY <3>1 DEF Watch, TypeOK, WatchStates
      <4> QED
        BY <4>1, <4>2 DEF Idle
    <3> QED
      BY <1>9, <3>1, <3>2 DEF RequeueStale
  <2> QED
    BY <1>1, <1>5, <1>9, <2>1
\* The writes, for another job ...
<1>10. ASSUME NEW i \in Jobs, i = watch[d].job, watch[d].pc # "idle", j # i,
              NEW rec, row' = [row EXCEPT ![i] = rec], UNCHANGED msgs
       PROVE  Kept(j)'
  <2>1. row'[j] = row[j] /\ ~Handles(d, j) /\ watch[d] # Idle
    BY <1>10, Busy DEF TypeOK, Handles
  <2>2. ~Handles(d, j)'
    BY <1>2, <1>10, <2>1 DEF Handles
  <2> QED
    BY <1>1, <1>4, <1>10, <2>1, <2>2
\* ... and for this one: the parts that need no trust.
<1>11. ASSUME row'[j].status # "none",
              Handles(d, j)' => /\ watch'[d].pc \in {"dispatch", "undo"} => watch'[d].task # NoTask
                                /\ watch'[d].pc # "queued"
       PROVE  Fresh(j)' /\ Watched(j)'
  <2>1. Fresh(j)'
    BY <1>0, <1>1, <1>11 DEF Kept, Fresh
  <2> QED
    BY <1>2, <1>3, <1>11, <2>1
<1>12. CASE RequeueStale(d) /\ watch' # [watch EXCEPT ![d] = Idle]
  <2>1. PICK i \in Jobs : i = watch[d].job /\ watch[d].pc = "stale" /\ watch[d] \in WatchStates
                          /\ watch[d] # Idle /\ watch[d].attempts \in Nat
    BY <1>12, Busy DEF RequeueStale
  <2> DEFINE n == watch[d].attempts + 1
  <2>2. /\ row' = [row EXCEPT ![i].status = "queued", ![i].attempts = n, ![i].task = NoTask]
        /\ row[i].status = "processing" /\ row[i].lease = watch[d].lease /\ Watch(d, "publish")
        /\ UNCHANGED msgs
    BY <1>12, <2>1 DEF RequeueStale
  <2>3. CASE j # i
    <3>1. \E rec : row' = [row EXCEPT ![i] = rec]
      BY <2>2
    <3> QED
      BY <1>10, <2>1, <2>2, <2>3, <3>1
  <2>4. CASE j = i
    <3>1. row'[j].status = "queued" /\ row'[j].task = NoTask
      <4> HIDE DEF n
      <4> QED BY <2>2, <2>4 DEF TypeOK, Rows
    <3>2. watch'[d] = [watch[d] EXCEPT !.pc = "publish"]
      BY <2>2 DEF Watch, TypeOK
    <3>3. watch'[d].pc = "publish" /\ watch'[d].job = i
      BY <2>1, <3>2 DEF WatchStates
    <3>4. Handles(d, j)'
      BY <2>4, <3>3 DEF Handles, Idle
    <3>5. Fresh(j)' /\ Watched(j)'
      BY <1>11, <3>1, <3>3
    <3>6. ASSUME faults'.lost = 0, Trusted(j)'
          PROVE  /\ LeaseOutlived(j)' /\ FailedKept(j)' /\ RequeuedKept(j)' /\ AssignedKept(j)'
                 /\ StoringKept(j)'
      <4>1. LeaseOutlived(j)
        BY <1>0, <3>6 DEF Kept, LostKept, KeepsTrust
      <4>2. api[j].pc \notin {"committed", "retried", "published"}
        BY <2>1, <2>2, <2>4, <4>1 DEF LeaseOutlived, Stale, Handles
      <4> QED
        BY <1>0, <3>1, <3>3, <3>4, <4>2 DEF LeaseOutlived, FailedKept, RequeuedKept, AssignedKept,
               StoringKept, Storing
    <3> QED
      BY <3>5, <3>6 DEF Kept
  <2> QED
    BY <2>3, <2>4
<1>13. CASE MarkDead(d)
  <2>1. PICK i \in Jobs : i = watch[d].job /\ watch[d].pc = "stale" /\ watch[d] \in WatchStates
    BY <1>13, Busy DEF MarkDead
  <2> DEFINE n == watch[d].attempts + 1
  <2>2. /\ row' = [row EXCEPT ![i].status = "dead", ![i].attempts = n, ![i].task = NoTask]
        /\ Watch(d, "release") /\ UNCHANGED msgs
    BY <1>13, <2>1 DEF MarkDead
  <2>3. CASE j # i
    <3>1. \E rec : row' = [row EXCEPT ![i] = rec]
      BY <2>2
    <3> QED
      BY <1>10, <2>1, <2>2, <2>3, <3>1
  <2>4. CASE j = i
    <3>1. row'[j].status = "dead"
      <4> HIDE DEF n
      <4> QED BY <2>2, <2>4 DEF TypeOK, Rows
    <3>2. watch'[d].pc = "release"
      BY <2>1, <2>2 DEF Watch, TypeOK, WatchStates
    <3>3. Fresh(j)' /\ Watched(j)'
      BY <1>11, <3>1, <3>2
    <3>4. LeaseOutlived(j)' /\ FailedKept(j)' /\ RequeuedKept(j)' /\ AssignedKept(j)' /\ StoringKept(j)'
      BY <3>1 DEF LeaseOutlived, FailedKept, RequeuedKept, AssignedKept, StoringKept
    <3> QED
      BY <3>3, <3>4 DEF Kept
  <2> QED
    BY <2>3, <2>4
<1>14. CASE RecoverQueued(d)
  <2>1. PICK i \in Jobs : i = watch[d].job /\ watch[d].pc = "queued" /\ watch[d] \in WatchStates
                          /\ watch[d] # Idle /\ UNCHANGED msgs
    BY <1>14, Busy DEF RecoverQueued
  <2> DEFINE t == issued[i] + 1
  <2>2. CASE ~(/\ row[i].status = "queued" /\ row[i].task = NoTask /\ ~row[i].started
               /\ QueuedAt(i) = watch[d].stamp)
    <3>1. UNCHANGED row /\ watch' = [watch EXCEPT ![d] = Idle]
      BY <1>14, <2>1, <2>2 DEF RecoverQueued
    <3> QED
      BY <1>1, <1>5, <2>1, <3>1
  <2>3. CASE /\ row[i].status = "queued" /\ row[i].task = NoTask /\ ~row[i].started
             /\ QueuedAt(i) = watch[d].stamp
    <3>1. /\ NewTask(i) /\ row' = [row EXCEPT ![i].task = t]
          /\ watch' = [watch EXCEPT ![d].pc = "dispatch", ![d].task = t]
      BY <1>14, <2>1, <2>3 DEF RecoverQueued
    <3>2. t \in Tasks /\ t # NoTask
      BY <3>1, NewTaskType, JobsAssumption DEF Tasks, NoTask
    <3> HIDE DEF t
    <3>3. CASE j # i
      <4>1. \E rec : row' = [row EXCEPT ![i] = rec]
        BY <3>1
      <4> QED
        BY <1>10, <2>1, <3>3, <4>1
    <3>4. CASE j = i
      <4>1. row'[j].status = "queued" /\ row'[j].task = t /\ ~row'[j].started
        BY <2>3, <3>1, <3>4 DEF TypeOK, Rows
      <4>2. watch'[d].pc = "dispatch" /\ watch'[d].task = t /\ watch'[d].job = i
        BY <2>1, <3>1 DEF TypeOK, WatchStates
      <4>3. Handles(d, j)'
        BY <3>4, <4>2 DEF Handles, Idle
      <4>4. Fresh(j)' /\ Watched(j)'
        BY <1>11, <3>2, <4>1, <4>2
      <4>5. ~Storing(j)
        <5>1. watch[d].stamp \in Nat /\ Watched(j) /\ Handles(d, j)
          BY <1>0, <2>1, <3>4 DEF Kept, Handles, WatchStates
        <5>2. Storing(j) => watch[d].stamp < QueuedAt(j)
          BY <2>1, <5>1 DEF Watched
        <5> QED
          BY <2>3, <3>4, <5>1, <5>2
      <4>6. LeaseOutlived(j)' /\ FailedKept(j)' /\ RequeuedKept(j)' /\ AssignedKept(j)' /\ StoringKept(j)'
        BY <1>1, <4>1, <4>2, <4>3, <4>5 DEF LeaseOutlived, FailedKept, RequeuedKept, AssignedKept, StoringKept
      <4> QED
        BY <4>4, <4>6 DEF Kept
    <3> QED
      BY <3>3, <3>4
  <2> QED
    BY <2>2, <2>3
<1>15. CASE DispatchRecovered(d)
  <2>1. PICK i \in Jobs : /\ i = watch[d].job /\ watch[d].pc = "dispatch" /\ watch[d] \in WatchStates
                          /\ watch[d] # Idle /\ Handles(d, i)
    BY <1>15, Busy DEF DispatchRecovered, Handles
  <2>2. PICK t \in Tasks : t = watch[d].task
    <3>1. watch[d].task # NoTask
      BY <2>1 DEF KeptInv, Kept, Watched
    <3> QED
      BY <2>1, <3>1, Busy
  <2>3. UNCHANGED row /\ (Sent(i, t) \/ Unsent(i, t))
    BY <1>15, <2>1, <2>2 DEF DispatchRecovered
  <2>4. Grows(j) /\ (Sent(i, t) => msgs'[i][t] > 0)
    BY <2>3, SentGrows
  <2>5. CASE Sent(i, t) /\ watch' = [watch EXCEPT ![d] = Idle]
    <3>1. Handles(d, j) => msgs'[j][watch[d].task] > 0
      BY <2>1, <2>2, <2>4, <2>5 DEF Handles
    <3> QED
      BY <1>5, <2>1, <2>3, <2>4, <2>5, <3>1
  <2>6. CASE Watch(d, "undo")
    <3>1. watch'[d] = [watch[d] EXCEPT !.pc = "undo"]
      BY <2>6 DEF Watch, TypeOK
    <3>2. watch'[d].pc = "undo" /\ watch'[d].job = i /\ watch'[d].task = t
      BY <2>1, <2>2, <3>1 DEF WatchStates
    <3>3. watch'[d] # Idle /\ t # NoTask
      BY <3>2 DEF Idle, Tasks, NoTask
    <3>4. Watched(j)'
      BY <1>2, <1>3, <3>2, <3>3
    <3>5. \A e \in Watchdogs : Handles(e, j) => Handles(e, j)'
      BY <1>2, <2>1, <3>2, <3>3 DEF Handles
    <3>6. \A e \in Watchdogs : Stale(e, j)' => Stale(e, j) /\ watch'[e].lease = watch[e].lease
      BY <1>2, <3>2 DEF Stale, Handles
    <3>7. \A e \in Watchdogs : watch[e].pc = "publish" => watch'[e].pc = "publish"
      BY <1>2, <2>1
    <3>8. \A e \in Watchdogs : watch[e].pc \in {"dispatch", "undo"} =>
            watch'[e].pc \in {"dispatch", "undo"} /\ watch'[e].task = watch[e].task
      BY <1>2, <2>2, <3>2
    <3> QED
      BY <1>0, <2>3, <2>4, <3>4, <3>5, <3>6, <3>7, <3>8, KeptWatchMove
  <2> QED
    BY <1>15, <2>1, <2>2, <2>5, <2>6 DEF DispatchRecovered
<1>16. CASE UndoRecovery(d)
  <2>1. PICK i \in Jobs : /\ i = watch[d].job /\ watch[d].pc = "undo" /\ watch[d] # Idle
                          /\ Handles(d, i) /\ UNCHANGED msgs /\ watch' = [watch EXCEPT ![d] = Idle]
    BY <1>16, Busy DEF UndoRecovery, Handles
  <2>2. watch[d].task # NoTask
    BY <2>1 DEF KeptInv, Kept, Watched
  <2>3. CASE ~(row[i].status = "queued" /\ row[i].task = watch[d].task)
    <3>1. UNCHANGED row /\ ~(Handles(d, j) /\ row[j].status = "queued" /\ row[j].task = watch[d].task)
      BY <1>16, <2>1, <2>3 DEF UndoRecovery, Handles
    <3> QED
      BY <1>1, <1>5, <2>1, <3>1
  <2>4. CASE row[i].status = "queued" /\ row[i].task = watch[d].task
    <3>1. row' = [row EXCEPT ![i].task = NoTask]
      BY <1>16, <2>1, <2>4 DEF UndoRecovery
    <3>2. CASE j # i
      <4>1. \E rec : row' = [row EXCEPT ![i] = rec]
        BY <3>1
      <4> QED
        BY <1>10, <2>1, <3>2, <4>1
    <3>3. CASE j = i
      <4>1. row'[j].status = "queued" /\ row'[j].task = NoTask /\ row'[j].started = row[j].started
        BY <2>4, <3>1, <3>3 DEF TypeOK, Rows
      <4>2. ~Handles(d, j)'
        BY <2>1 DEF Handles, TypeOK
      <4>3. Fresh(j)' /\ Watched(j)'
        BY <1>11, <4>1, <4>2
      <4>4. ASSUME faults'.lost = 0, Trusted(j)'
            PROVE  /\ LeaseOutlived(j)' /\ FailedKept(j)' /\ RequeuedKept(j)' /\ AssignedKept(j)'
                   /\ StoringKept(j)'
        <5>1. RequeuedKept(j) /\ StoringKept(j)
          BY <1>0, <4>4 DEF Kept, LostKept, KeepsTrust
        <5>2. ~row[j].started /\ ~Storing(j)
          BY <2>2, <2>4, <3>3, <5>1 DEF RequeuedKept, StoringKept
        <5> QED
          BY <1>1, <4>1, <5>2 DEF LeaseOutlived, FailedKept, RequeuedKept, AssignedKept, StoringKept
      <4> QED
        BY <4>3, <4>4 DEF Kept
    <3> QED
      BY <3>2, <3>3
  <2> QED
    BY <2>3, <2>4
<1> QED
  BY <1>6, <1>7, <1>8, <1>9, <1>12, <1>13, <1>14, <1>15, <1>16 DEF WatchNext

\* The dispatch recovery forgets no job.
LEMMA KeptRecover ==
  ASSUME TypeOK, KeptInv, LostKept, NEW i \in Jobs, RecoverDispatch(i), NEW j \in Jobs
  PROVE  Kept(j)'
<1>0. Kept(j) /\ Watched(j) /\ UNCHANGED <<api, worker, watch, retries>>
  BY DEF KeptInv, Kept, RecoverDispatch
<1>1. /\ QueuedAt(j)' = QueuedAt(j) /\ (Storing(j)' <=> Storing(j))
      /\ \A d \in Watchdogs : (Handles(d, j)' <=> Handles(d, j)) /\ (Stale(d, j)' <=> Stale(d, j))
  BY <1>0 DEF QueuedAt, Storing, Handles, Stale
<1>2. Watched(j)'
  BY <1>0, <1>1 DEF Watched
<1>3. CASE row'[j] = row[j] /\ Grows(j)
  BY <1>0, <1>1, <1>2, <1>3, KeptWatchMove
<1>4. CASE row[i].task # NoTask
  <2>1. PICK t \in Tasks : t = row[i].task
    BY <1>4 DEF TypeOK, Rows
  <2>2. Sent(i, t) /\ UNCHANGED row
    BY <1>4, <2>1 DEF RecoverDispatch
  <2> QED
    BY <1>3, <2>2, SentGrows
<1>5. CASE row[i].task = NoTask
  <2>1. /\ row' = [row EXCEPT ![i].task = OwnId] /\ UNCHANGED msgs
        /\ Lane[i] = "durable" /\ row[i].status = "queued" /\ ~row[i].started
    BY <1>5 DEF RecoverDispatch, Recoverable
  <2>2. CASE j # i
    BY <1>3, <2>1, <2>2 DEF TypeOK, Grows
  <2>3. CASE j = i
    <3>1. row'[j].status = "queued" /\ ~row'[j].started
      BY <2>1, <2>3 DEF TypeOK, Rows
    <3>2. Fresh(j)'
      BY <1>0, <1>1, <3>1 DEF Kept, Fresh
    <3>3. LeaseOutlived(j)' /\ FailedKept(j)' /\ RequeuedKept(j)' /\ AssignedKept(j)' /\ StoringKept(j)'
      BY <1>1, <2>1, <2>3, <3>1 DEF LeaseOutlived, FailedKept, RequeuedKept, AssignedKept, StoringKept,
             Storing
    <3> QED
      BY <1>2, <3>2, <3>3 DEF Kept
  <2> QED
    BY <2>2, <2>3
<1> QED
  BY <1>4, <1>5

\* Unless a request outlives the grace period of its row, a job that is to be
\* run again has a message, or a process that will send one, and the id in its
\* row is that of a message that is there (PUBLISH after COMMIT in
\* memory_service.py, extraction_tasks.py and watchdog_tasks.py).
THEOREM KeptInvariant ==
  ASSUME "slow" \notin Faults
  PROVE  Spec => []KeptInv
<1>1. Init => KeptInv
  BY DEF Init, KeptInv, Kept, Fresh, Watched, LeaseOutlived, FailedKept, RequeuedKept, AssignedKept,
         StoringKept, Storing, Stale, Handles
<1>2. TypeOK /\ RunnerInv /\ KeptInv /\ [Next]_vars => KeptInv'
  <2> SUFFICES ASSUME TypeOK, RunnerInv, KeptInv, [Next]_vars, NEW j \in Jobs
               PROVE  Kept(j)'
    BY DEF KeptInv
  <2>0. Kept(j) /\ LostKept
    BY LostKeeps DEF KeptInv
  <2>1. ASSUME (\E i \in Jobs : ChangeAuthority(i)) \/ UNCHANGED vars PROVE Kept(j)'
    <3>1. UNCHANGED <<row, msgs, api, worker, watch, retries>>
      BY <2>1 DEF ChangeAuthority, vars
    <3>2. Watched(j)' /\ Grows(j)
      BY <2>0, <3>1 DEF Kept, Watched, Handles, QueuedAt, Storing, Grows
    <3> QED
      BY <2>0, <3>1, <3>2, KeptWatchMove DEF Stale, Handles
  <2> QED
    BY <2>0, <2>1, KeptApi, KeptWorker, KeptWatch, KeptRecover DEF Next
<1> QED
  BY <1>1, <1>2, TypeCorrect, RunnerInvariant, PTL DEF Spec

\* A job that is neither completed nor dead always has something that will
\* take it further: a message that its row accepts, a process that holds it,
\* or a row that the watchdog or the dispatch recovery selects.
THEOREM NothingStranded ==
  ASSUME "slow" \notin Faults
  PROVE  Spec => []NoStrandedJob
<1>1. TypeOK /\ KeptInv => NoStrandedJob
  <2> SUFFICES ASSUME TypeOK, KeptInv, NEW j \in Jobs, Trusted(j), faults.lost = 0,
                      row[j].status \in {"queued", "failed"},
                      ~(row[j].status = "queued" /\ ~row[j].started
                          /\ (row[j].task = NoTask \/ Lane[j] = "durable")),
                      \A w \in Workers : ~(Holds(w, j) /\ worker[w].pc = "failed"),
                      \A d \in Watchdogs :
                        ~(Handles(d, j) /\ watch[d].pc \in {"publish", "dispatch", "undo"})
               PROVE  \E t \in Tasks : msgs[j][t] > 0 /\ Claimable(j, t)
    BY DEF NoStrandedJob, Holds, Handles
  <2>1. FailedKept(j) /\ RequeuedKept(j) /\ AssignedKept(j)
    BY DEF KeptInv, Kept
  <2>2. CASE row[j].status = "failed" \/ row[j].started
    <3>1. row[j].task = NoTask /\ Pending(j)
      BY <2>1, <2>2 DEF FailedKept, RequeuedKept
    <3> QED
      BY <3>1 DEF Pending, Claimable
  <2>3. CASE row[j].status = "queued" /\ ~row[j].started
    <3>1. msgs[j][row[j].task] > 0 /\ row[j].task \in Tasks
      BY <2>1, <2>3 DEF AssignedKept, TypeOK, Rows
    <3> QED
      BY <2>3, <3>1 DEF Claimable
  <2> QED
    BY <2>2, <2>3
<1> QED
  BY <1>1, TypeCorrect, KeptInvariant, PTL

-----------------------------------------------------------------------------
(* The slots that the jobs are admitted to: the safety properties of         *)
(* QueueSlots for any number of tenants, jobs, handlers, plans and queues.   *)
(* The counters are related to the sorted set by an inductive invariant; the *)
(* facts about cardinalities it needs are stated first, for an arbitrary set *)
(* of reservations.                                                          *)

\* The reservations of tenant t among the members S of a sorted set.
Of(S, t) == {m \in S : m[1] = t}

\* Any set of reservations is finite, and so is a tenant's part of it.
LEMMA ReservationsFinite ==
  ASSUME NEW S \in SUBSET Members, NEW t
  PROVE  IsFiniteSet(Of(S, t)) /\ Cardinality(Of(S, t)) \in Nat
<1>1. IsFiniteSet(Members)
  BY FiniteAssumption, FS_Product, FS_Subset, Members \subseteq Tenants \X JobIds DEF Members
<1>2. IsFiniteSet(Of(S, t))
  BY <1>1, FS_Subset, Of(S, t) \in SUBSET Members DEF Of
<1> QED
  BY <1>2, FS_CardinalityType

\* ZADD of a new member adds one to its tenant's part and to no other.
LEMMA ReservationAdded ==
  ASSUME NEW S \in SUBSET Members, NEW m \in Members, m \notin S, NEW t
  PROVE  Cardinality(Of(S \union {m}, t)) =
           IF t = m[1] THEN Cardinality(Of(S, t)) + 1 ELSE Cardinality(Of(S, t))
<1>1. IsFiniteSet(Of(S, t))
  BY ReservationsFinite
<1>2. CASE t = m[1]
  <2>1. Of(S \union {m}, t) = Of(S, t) \union {m} /\ m \notin Of(S, t)
    BY <1>2 DEF Of
  <2>2. Cardinality(Of(S, t) \union {m}) = Cardinality(Of(S, t)) + 1
    BY <1>1, <2>1, FS_AddElement
  <2> QED
    BY <1>2, <2>1, <2>2
<1>3. CASE t # m[1]
  BY <1>3, Of(S \union {m}, t) = Of(S, t) DEF Of
<1> QED
  BY <1>2, <1>3

\* ZREM of a present member takes one from its tenant's part, which was not
\* empty, and from no other.
LEMMA ReservationRemoved ==
  ASSUME NEW S \in SUBSET Members, NEW m \in S, NEW t
  PROVE  /\ t = m[1] => Cardinality(Of(S, t)) >= 1
         /\ Cardinality(Of(S \ {m}, t)) =
              IF t = m[1] THEN Cardinality(Of(S, t)) - 1 ELSE Cardinality(Of(S, t))
<1>1. IsFiniteSet(Of(S, t)) /\ Cardinality(Of(S, t)) \in Nat
  BY ReservationsFinite
<1>2. CASE t = m[1]
  <2>1. Of(S \ {m}, t) = Of(S, t) \ {m} /\ m \in Of(S, t)
    BY <1>2 DEF Of
  <2>2. Cardinality(Of(S, t)) # 0
    BY <1>1, <2>1, FS_EmptySet
  <2>3. Cardinality(Of(S, t) \ {m}) = Cardinality(Of(S, t)) - 1
    BY <1>1, <2>1, FS_RemoveElement
  <2>4. Cardinality(Of(S, t)) >= 1
    BY <1>1, <2>2
  <2> QED
    BY <1>2, <2>1, <2>3, <2>4
<1>3. CASE t # m[1]
  BY <1>3, Of(S \ {m}, t) = Of(S, t) DEF Of
<1> QED
  BY <1>2, <1>3

\* Every counter and every hash field against the sorted set of its queue.
CountsAgree ==
  \A q \in Queues, t \in Tenants :
    /\ depth[q][t] <= Cardinality(Of(jobs[q], t))
    /\ breakdown[q][t] = Cardinality(Of(jobs[q], t))

\* The inductive invariant: the three properties need one another's types
\* and nothing more.
QueueInv == QueueTypeOK /\ CountsAgree /\ DepthWithinLimit

-----------------------------------------------------------------------------
\* The reserve script keeps the invariant's conjuncts about Redis.
LEMMA ReserveScriptStep ==
  ASSUME QueueInv, NEW p \in Plans, NEW m \in Members, ReserveScript(p, m)
  PROVE  /\ depth' \in [Queues -> [Tenants -> Nat]]
         /\ jobs' \in [Queues -> SUBSET Members]
         /\ breakdown' \in [Queues -> [Tenants -> Nat]]
         /\ lastReserver' \in [Queues -> Tenants \union {NoTenant}]
         /\ CountsAgree'
         /\ DepthWithinLimit'
<1> DEFINE r == PLAN_QUEUE_MAP[p]
           s == m[1]
<1>1. r \in Queues /\ s \in Tenants
  BY QueueAssumption DEF Members, QueueInv
<1>2. /\ m \notin jobs[r]
      /\ depth[r][s] < PLAN_QUEUE_LIMITS[p]
      /\ depth' = [depth EXCEPT ![r][s] = @ + 1]
      /\ jobs' = [jobs EXCEPT ![r] = @ \union {m}]
      /\ breakdown' = [breakdown EXCEPT ![r][s] = @ + 1]
      /\ lastReserver' = [lastReserver EXCEPT ![r] = s]
  BY DEF ReserveScript
<1> HIDE DEF r, s
<1>3. /\ depth' \in [Queues -> [Tenants -> Nat]]
      /\ jobs' \in [Queues -> SUBSET Members]
      /\ breakdown' \in [Queues -> [Tenants -> Nat]]
      /\ lastReserver' \in [Queues -> Tenants \union {NoTenant}]
  BY <1>1, <1>2 DEF QueueInv, QueueTypeOK
<1>4. CountsAgree'
  <2> SUFFICES ASSUME NEW q \in Queues, NEW t \in Tenants
               PROVE  /\ depth'[q][t] <= Cardinality(Of(jobs'[q], t))
                      /\ breakdown'[q][t] = Cardinality(Of(jobs'[q], t))
    BY DEF CountsAgree
  <2>1. /\ depth[q][t] <= Cardinality(Of(jobs[q], t))
        /\ breakdown[q][t] = Cardinality(Of(jobs[q], t))
        /\ Cardinality(Of(jobs[q], t)) \in Nat
        /\ depth[q][t] \in Nat
    BY ReservationsFinite DEF QueueInv, CountsAgree, QueueTypeOK
  <2>2. CASE q # r
    BY <1>1, <1>2, <2>1, <2>2 DEF QueueInv, QueueTypeOK
  <2>3. CASE q = r
    <3>1. jobs'[q] = jobs[q] \union {m}
      BY <1>2, <2>3 DEF QueueInv, QueueTypeOK
    <3>2. Cardinality(Of(jobs'[q], t)) =
            IF t = s THEN Cardinality(Of(jobs[q], t)) + 1
                     ELSE Cardinality(Of(jobs[q], t))
      <4>1. jobs[q] \in SUBSET Members /\ m \notin jobs[q]
        BY <1>2, <2>3 DEF QueueInv, QueueTypeOK
      <4> QED
        BY <3>1, <4>1, ReservationAdded DEF s, QueueInv
    <3>3. CASE t = s
      BY <1>1, <1>2, <2>1, <2>3, <3>2, <3>3 DEF QueueInv, QueueTypeOK
    <3>4. CASE t # s
      BY <1>1, <1>2, <2>1, <2>3, <3>2, <3>4 DEF QueueInv, QueueTypeOK
    <3> QED
      BY <3>3, <3>4
  <2> QED
    BY <2>2, <2>3
<1>5. DepthWithinLimit'
  <2> SUFFICES ASSUME NEW pp \in Plans, NEW t \in Tenants
               PROVE  depth'[PLAN_QUEUE_MAP[pp]][t] <= PLAN_QUEUE_LIMITS[pp]
    BY DEF DepthWithinLimit
  <2>1. /\ depth[PLAN_QUEUE_MAP[pp]][t] <= PLAN_QUEUE_LIMITS[pp]
        /\ PLAN_QUEUE_MAP[pp] \in Queues
        /\ PLAN_QUEUE_LIMITS[pp] \in Nat
        /\ PLAN_QUEUE_MAP[pp] = r => pp = p
    BY QueueAssumption DEF QueueInv, DepthWithinLimit, r
  <2>2. CASE PLAN_QUEUE_MAP[pp] = r /\ t = s
    BY <1>1, <1>2, <2>1, <2>2 DEF QueueInv, QueueTypeOK
  <2>3. CASE ~(PLAN_QUEUE_MAP[pp] = r /\ t = s)
    BY <1>1, <1>2, <2>1, <2>3 DEF QueueInv, QueueTypeOK
  <2> QED
    BY <2>2, <2>3
<1> QED
  BY <1>3, <1>4, <1>5

\* So does the release script, under whatever queue name it runs.
LEMMA ReleaseScriptStep ==
  ASSUME QueueInv, NEW r \in Queues, NEW m \in Members, ReleaseScript(r, m)
  PROVE  /\ depth' \in [Queues -> [Tenants -> Nat]]
         /\ jobs' \in [Queues -> SUBSET Members]
         /\ breakdown' \in [Queues -> [Tenants -> Nat]]
         /\ lastReserver' \in [Queues -> Tenants \union {NoTenant}]
         /\ CountsAgree'
         /\ DepthWithinLimit'
<1>1. CASE m \notin jobs[r]
  BY <1>1 DEF ReleaseScript, slotVars, QueueInv, QueueTypeOK, CountsAgree,
              DepthWithinLimit
<1>2. CASE m \in jobs[r]
  <2> DEFINE s == m[1]
  <2>1. s \in Tenants
    BY DEF Members
  <2>2. /\ depth' = [depth EXCEPT ![r][s] = Decrement(@)]
        /\ jobs' = [jobs EXCEPT ![r] = @ \ {m}]
        /\ breakdown' = [breakdown EXCEPT ![r][s] = Decrement(@)]
        /\ lastReserver' = lastReserver
    BY <1>2 DEF ReleaseScript
  <2> HIDE DEF s
  <2>3. \A n \in Nat : Decrement(n) \in Nat /\ Decrement(n) <= n
    BY DEF Decrement
  <2>4. /\ depth' \in [Queues -> [Tenants -> Nat]]
        /\ jobs' \in [Queues -> SUBSET Members]
        /\ breakdown' \in [Queues -> [Tenants -> Nat]]
        /\ lastReserver' \in [Queues -> Tenants \union {NoTenant}]
    BY <2>1, <2>2, <2>3 DEF QueueInv, QueueTypeOK
  <2>5. CountsAgree'
    <3> SUFFICES ASSUME NEW q \in Queues, NEW t \in Tenants
                 PROVE  /\ depth'[q][t] <= Cardinality(Of(jobs'[q], t))
                        /\ breakdown'[q][t] = Cardinality(Of(jobs'[q], t))
      BY DEF CountsAgree
    <3>1. /\ depth[q][t] <= Cardinality(Of(jobs[q], t))
          /\ breakdown[q][t] = Cardinality(Of(jobs[q], t))
          /\ Cardinality(Of(jobs[q], t)) \in Nat
          /\ depth[q][t] \in Nat
      BY ReservationsFinite DEF QueueInv, CountsAgree, QueueTypeOK
    <3>2. CASE q # r
      BY <2>1, <2>2, <3>1, <3>2 DEF QueueInv, QueueTypeOK
    <3>3. CASE q = r
      <4>1. jobs'[q] = jobs[q] \ {m}
        BY <2>2, <3>3 DEF QueueInv, QueueTypeOK
      <4>2. /\ t = s => Cardinality(Of(jobs[q], t)) >= 1
            /\ Cardinality(Of(jobs'[q], t)) =
                 IF t = s THEN Cardinality(Of(jobs[q], t)) - 1
                          ELSE Cardinality(Of(jobs[q], t))
        <5>1. jobs[q] \in SUBSET Members /\ m \in jobs[q]
          BY <1>2, <3>3 DEF QueueInv, QueueTypeOK
        <5> QED
          BY <4>1, <5>1, ReservationRemoved DEF s, QueueInv
      <4>3. CASE t = s
        <5>1. /\ depth'[q][t] = Decrement(depth[q][t])
              /\ breakdown'[q][t] = Decrement(breakdown[q][t])
          BY <2>1, <2>2, <3>3, <4>3 DEF QueueInv, QueueTypeOK
        <5> QED
          BY <3>1, <4>2, <4>3, <5>1 DEF Decrement
      <4>4. CASE t # s
        BY <2>1, <2>2, <3>1, <3>3, <4>2, <4>4 DEF QueueInv, QueueTypeOK
      <4> QED
        BY <4>3, <4>4
    <3> QED
      BY <3>2, <3>3
  <2>6. DepthWithinLimit'
    <3> SUFFICES ASSUME NEW pp \in Plans, NEW t \in Tenants
                 PROVE  depth'[PLAN_QUEUE_MAP[pp]][t] <= PLAN_QUEUE_LIMITS[pp]
      BY DEF DepthWithinLimit
    <3>1. /\ depth[PLAN_QUEUE_MAP[pp]][t] <= PLAN_QUEUE_LIMITS[pp]
          /\ PLAN_QUEUE_MAP[pp] \in Queues
          /\ PLAN_QUEUE_LIMITS[pp] \in Nat
          /\ depth[PLAN_QUEUE_MAP[pp]][t] \in Nat
      BY QueueAssumption DEF QueueInv, DepthWithinLimit, QueueTypeOK
    <3>2. \/ depth'[PLAN_QUEUE_MAP[pp]][t] = depth[PLAN_QUEUE_MAP[pp]][t]
          \/ depth'[PLAN_QUEUE_MAP[pp]][t] = Decrement(depth[PLAN_QUEUE_MAP[pp]][t])
      BY <2>1, <2>2, <3>1 DEF QueueInv, QueueTypeOK
    <3> QED
      BY <2>3, <2>4, <3>1, <3>2
  <2> QED
    BY <2>4, <2>5, <2>6
<1> QED
  BY <1>1, <1>2

\* Keys that expire: counters only fall, and the shared keys fall with the set.
LEMMA ExpiryStep ==
  ASSUME QueueInv, NEW r \in Queues,
         ExpireQueue(r) \/ \E t \in Tenants : ExpireDepth(r, t)
  PROVE  QueueInv'
<1>0. Cardinality({}) = 0
  BY FS_EmptySet
<1>1. CASE ExpireQueue(r)
  <2>1. QueueTypeOK'
    BY <1>1 DEF ExpireQueue, QueueInv, QueueTypeOK, planVars
  <2>2. CountsAgree'
    <3> SUFFICES ASSUME NEW q \in Queues, NEW t \in Tenants
                 PROVE  /\ depth'[q][t] <= Cardinality(Of(jobs'[q], t))
                        /\ breakdown'[q][t] = Cardinality(Of(jobs'[q], t))
      BY DEF CountsAgree
    <3>1. Cardinality(Of({}, t)) = 0
      BY <1>0, Of({}, t) = {} DEF Of
    <3>2. CASE q = r
      <4>1. depth'[q][t] = 0 /\ jobs'[q] = {} /\ breakdown'[q][t] = 0
        BY <1>1, <3>2 DEF ExpireQueue, QueueInv, QueueTypeOK
      <4> QED
        BY <3>1, <4>1
    <3>3. CASE q # r
      BY <1>1, <3>3 DEF ExpireQueue, QueueInv, QueueTypeOK, CountsAgree
    <3> QED
      BY <3>2, <3>3
  <2>3. DepthWithinLimit'
    BY <1>1, QueueAssumption DEF ExpireQueue, QueueInv, QueueTypeOK, DepthWithinLimit
  <2> QED
    BY <2>1, <2>2, <2>3 DEF QueueInv
<1>2. ASSUME NEW t \in Tenants, ExpireDepth(r, t)
      PROVE  QueueInv'
  <2>1. QueueTypeOK'
    BY <1>2 DEF ExpireDepth, QueueInv, QueueTypeOK, planVars
  <2>2. CountsAgree'
    <3>1. \A q \in Queues, tt \in Tenants : Cardinality(Of(jobs[q], tt)) \in Nat
      BY ReservationsFinite DEF QueueInv, QueueTypeOK
    <3> QED
      BY <1>2, <3>1 DEF ExpireDepth, QueueInv, QueueTypeOK, CountsAgree
  <2>3. DepthWithinLimit'
    BY <1>2, QueueAssumption DEF ExpireDepth, QueueInv, QueueTypeOK, DepthWithinLimit
  <2> QED
    BY <2>1, <2>2, <2>3 DEF QueueInv
<1> QED
  BY <1>1, <1>2

-----------------------------------------------------------------------------
LEMMA QueueStarts == QueueInit => QueueInv
<1> SUFFICES ASSUME QueueInit PROVE QueueInv
  OBVIOUS
<1>1. QueueTypeOK
  BY DEF QueueInit, QueueTypeOK
<1>2. CountsAgree
  <2> SUFFICES ASSUME NEW q \in Queues, NEW t \in Tenants
               PROVE  /\ depth[q][t] <= Cardinality(Of(jobs[q], t))
                      /\ breakdown[q][t] = Cardinality(Of(jobs[q], t))
    BY DEF CountsAgree
  <2>1. Cardinality(Of({}, t)) = 0
    BY FS_EmptySet, Of({}, t) = {} DEF Of
  <2>2. depth[q][t] = 0 /\ jobs[q] = {} /\ breakdown[q][t] = 0
    BY DEF QueueInit
  <2> QED
    BY <2>1, <2>2
<1>3. DepthWithinLimit
  BY QueueAssumption DEF QueueInit, DepthWithinLimit, QueueInv
<1> QED
  BY <1>1, <1>2, <1>3 DEF QueueInv

\* A step that leaves Redis's slot keys alone keeps the counts.
LEMMA SlotsUntouched ==
  ASSUME QueueInv, UNCHANGED slotVars
  PROVE  CountsAgree' /\ DepthWithinLimit'
BY DEF QueueInv, CountsAgree, DepthWithinLimit, slotVars

\* A handler's record names a plan and a member.
LEMMA CallTypes ==
  ASSUME QueueInv, NEW h \in Handlers, call[h] # NoCall
  PROVE  /\ call[h] \in Calls
         /\ call[h].plan \in Plans
         /\ call[h].member \in Members
         /\ PLAN_QUEUE_MAP[call[h].plan] \in Queues
<1>1. call[h] \in Calls
  BY DEF QueueInv, QueueTypeOK
<1> QED
  BY <1>1, QueueAssumption DEF Calls, QueueInv

LEMMA QueueStep == QueueInv /\ [QueueNext]_queueVars => QueueInv'
<1> SUFFICES ASSUME QueueInv, [QueueNext]_queueVars PROVE QueueInv'
  OBVIOUS
<1>1. ASSUME NEW h \in Handlers, NEW m \in Members,
             BeginReserve(h, m) \/ BeginRequeue(h, m)
      PROVE  QueueInv'
  <2>1. PICK op \in {"reserve", "requeue"} : GetPlanTier(h, op, m)
    BY <1>1 DEF BeginReserve, BeginRequeue
  <2>2. PICK pc \in {"fill", "planned"}, p \in Plans :
          call' = [call EXCEPT ![h] = [op |-> op, pc |-> pc,
                                       member |-> m, plan |-> p]]
    <3>1. m[1] \in Tenants
      BY DEF Members
    <3> QED
      BY <2>1, <3>1 DEF GetPlanTier, QueueInv, QueueTypeOK
  <2>3. QueueTypeOK'
    <3>1. [op |-> op, pc |-> pc, member |-> m, plan |-> p] \in Calls
      BY DEF Calls
    <3>2. call' \in [Handlers -> Calls \union {NoCall}]
      BY <2>2, <3>1 DEF QueueInv, QueueTypeOK
    <3> QED
      BY <2>1, <3>2 DEF GetPlanTier, QueueInv, QueueTypeOK, planVars, slotVars
  <2> QED
    BY <2>1, <2>3, SlotsUntouched DEF GetPlanTier, QueueInv
<1>2. ASSUME NEW h \in Handlers, FillPlanCache(h)
      PROVE  QueueInv'
  <2>1. call[h] \in Calls /\ call[h].plan \in Plans /\ call[h].member[1] \in Tenants
    BY <1>2, CallTypes DEF FillPlanCache, Members
  <2>2. [call[h] EXCEPT !.pc = "planned"] \in Calls
    BY <2>1 DEF Calls
  <2>3. QueueTypeOK'
    BY <1>2, <2>1, <2>2 DEF FillPlanCache, QueueInv, QueueTypeOK, slotVars
  <2> QED
    BY <1>2, <2>3, SlotsUntouched DEF FillPlanCache, QueueInv
<1>3. ASSUME NEW h \in Handlers,
             ReserveExtractionSlot(h) \/ QueueFull(h) \/ ReserveError(h)
      PROVE  QueueInv'
  <2>1. call[h] # NoCall
    BY <1>3 DEF ReserveExtractionSlot, QueueFull, ReserveError, Planned
  <2>2. /\ call[h].plan \in Plans
        /\ call[h].member \in Members
        /\ PLAN_QUEUE_MAP[call[h].plan] \in Queues
    BY <2>1, CallTypes
  <2>3. /\ UNCHANGED planVars
        /\ call' = [call EXCEPT ![h] = NoCall]
        /\ \/ UNCHANGED queueName
           \/ queueName' = [queueName EXCEPT ![call[h].member] =
                              PLAN_QUEUE_MAP[call[h].plan]]
    BY <1>3 DEF ReserveExtractionSlot, QueueFull, ReserveError
  <2>4. /\ plan' \in [Tenants -> Plans]
        /\ planCache' \in [Tenants -> Plans \union {NoPlan}]
        /\ changing' \in SUBSET Tenants
        /\ queueName' \in [Members -> Queues \union {NoQueue}]
        /\ call' \in [Handlers -> Calls \union {NoCall}]
    BY <2>2, <2>3 DEF QueueInv, QueueTypeOK, planVars
  <2>5. CASE ReserveScript(call[h].plan, call[h].member)
    BY <2>2, <2>4, <2>5, ReserveScriptStep DEF QueueInv, QueueTypeOK
  <2>6. CASE UNCHANGED slotVars
    BY <2>4, <2>6, SlotsUntouched DEF QueueInv, QueueTypeOK, slotVars
  <2> QED
    BY <1>3, <2>5, <2>6 DEF ReserveExtractionSlot, QueueFull, ReserveError
<1>4. ASSUME NEW h \in Handlers, RequeueJob(h)
      PROVE  QueueInv'
  <2>1. call[h] # NoCall
    BY <1>4 DEF RequeueJob, Planned
  <2>2. QueueTypeOK'
    BY <1>4, <2>1, CallTypes DEF RequeueJob, QueueInv, QueueTypeOK, planVars, slotVars
  <2> QED
    BY <1>4, <2>2, SlotsUntouched DEF RequeueJob, QueueInv
<1>5. ASSUME NEW m \in Members, ReleaseExtractionSlot(m)
      PROVE  QueueInv'
  <2>1. queueName[m] \in Queues
    BY <1>5 DEF ReleaseExtractionSlot, QueueInv, QueueTypeOK
  <2>2. ReleaseScript(queueName[m], m)
    BY <1>5 DEF ReleaseExtractionSlot
  <2> QED
    BY <1>5, <2>1, <2>2, ReleaseScriptStep
       DEF ReleaseExtractionSlot, QueueInv, QueueTypeOK, planVars
<1>6. ASSUME NEW t \in Tenants, NEW p \in Plans, ApplyPlanLimits(t, p)
      PROVE  QueueInv'
  BY <1>6, SlotsUntouched DEF ApplyPlanLimits, QueueInv, QueueTypeOK, slotVars
<1>7. ASSUME NEW t \in Tenants, InvalidatePlanCache(t) \/ ExpirePlanCache(t)
      PROVE  QueueInv'
  BY <1>7, SlotsUntouched
     DEF InvalidatePlanCache, ExpirePlanCache, QueueInv, QueueTypeOK, slotVars
<1>8. CASE UNCHANGED queueVars
  BY <1>8, SlotsUntouched DEF queueVars, slotVars, QueueInv, QueueTypeOK
<1> QED
  BY <1>1, <1>2, <1>3, <1>4, <1>5, <1>6, <1>7, <1>8, ExpiryStep DEF QueueNext

\* The inductive invariant holds in every reachable state.
THEOREM QueueInvariant == QueueSpec => []QueueInv
<1> QED
  BY QueueStarts, QueueStep, PTL DEF QueueSpec

\* Every variable keeps its type, for any tenants, jobs, plans and handlers:
\* in particular no Redis counter goes negative under repeated releases.
THEOREM QueueTypes == QueueSpec => []QueueTypeOK
<1>1. QueueInv => QueueTypeOK
  BY DEF QueueInv
<1> QED
  BY <1>1, QueueInvariant, PTL

\* The counter the reserve script tests never exceeds the reservations the
\* tenant holds (RESERVE_ and RELEASE_EXTRACTION_SLOT_SCRIPT, key expiry).
THEOREM NeverOvercounts == QueueSpec => []CounterNeverOvercounts
<1>1. QueueInv => CounterNeverOvercounts
  BY DEF QueueInv, CountsAgree, CounterNeverOvercounts, Held, Of
<1> QED
  BY <1>1, QueueInvariant, PTL

\* The per-tenant hash equals the tenant's part of the sorted set.
THEOREM BreakdownExact == QueueSpec => []BreakdownMatchesJobs
<1>1. QueueInv => BreakdownMatchesJobs
  BY DEF QueueInv, CountsAgree, BreakdownMatchesJobs, Held, Of
<1> QED
  BY <1>1, QueueInvariant, PTL

\* No tenant's counter passes the limit of the plan that owns the queue.
THEOREM LimitRespected == QueueSpec => []DepthWithinLimit
<1>1. QueueInv => DepthWithinLimit
  BY DEF QueueInv
<1> QED
  BY <1>1, QueueInvariant, PTL
===============================================================================
