---------------------------- MODULE Maintenance ----------------------------
(***************************************************************************)
(* The operator's long tasks over stored memories: re-embedding a tenant   *)
(* with another model (reembedding_tasks.py), the three backfills          *)
(* (backfill_tasks.py, UniversalClaimLedgerService.backfill_revision_sync) *)
(* and the change of the active embedding model (embedding_service.py).    *)
(*                                                                         *)
(* A task goes through a table in the order of its random ids, in batches, *)
(* and keeps a cursor in Redis; deliveries of a task may overlap, fail     *)
(* halfway or die.  The re-embedding moves its cursor and the vectors row  *)
(* by row and commits by batch; a backfill commits and then moves its      *)
(* cursor.  A script gives the table, the tasks that are delivered and     *)
(* what the live service does meanwhile.                                   *)
(***************************************************************************)
EXTENDS Naturals, Sequences, FiniteSets, FiniteSetsExt

CONSTANTS Ids,        \* 1 .. n: memories in the order of their ids
          BatchSize,
          Scripts,    \* see Script
          MaxFaults   \* bound: failed calls and deaths of workers

Backfills == {"users", "tenant", "passport"}
Tasks == Backfills \cup {"embed"}
Locked == {"tenant", "passport"}
Models == {"old", "new", "other"}
Live == Cardinality(Ids) + 1  \* stands for the revision of a live record
LegacyUsers == {1, 2}

\* memories and universal_memories; at: created_at; owner: proxy_user_id, 0 when null.
Memory == [st : {"live", "archived", "gone"}, model : {"old", "new"}, edited : BOOLEAN,
           at : Nat, val : {1, 2}, src : {"passport_agent", "user_correction"},
           user : LegacyUsers, owner : {0} \cup LegacyUsers]
\* memory_claims and universal_memory_claims: the one the rows of the table are about.
Claim == [st : {"none", "active", "disputed", "archived"}, val : 0 .. 2,
          win : 0 .. Live, live : BOOLEAN]
BackfillJob == [task : Tasks, st : {"running", "paused", "complete", "failed"}, total : Nat, done : Nat]
Request == [task : Locked, dry : BOOLEAN] \cup [task : {"embed", "users"}, dry : {FALSE}]
           \cup [task : {"activate"}, model : Models] \cup [task : {"ask"}]
Script == [rows : [Ids -> Memory], claim : Claim, asked : Seq(Request),
           then : Seq([ev : {"archive", "delete", "edit"}, id : Ids] \cup [ev : {"record"}, val : {1, 2}])]

NoClaim == [st |-> "none", val |-> 0, win |-> 0, live |-> FALSE]

\* A script is about the memories of a tenant or about those of a Passport, and a claim that is
\* there before a backfill was recorded live.
ASSUME MaintenanceAssumption ==
  /\ IsFiniteSet(Ids) /\ Ids = 1 .. Cardinality(Ids) /\ BatchSize \in Nat \ {0} /\ MaxFaults \in Nat
  /\ \A k \in DOMAIN Scripts :
       /\ Scripts[k] \in Script
       /\ \E t \in Locked : \A r \in DOMAIN Scripts[k].asked :
            Scripts[k].asked[r].task \in Locked => Scripts[k].asked[r].task = t
       /\ Scripts[k].claim = NoClaim \/ (Scripts[k].claim.live /\ Scripts[k].claim.st # "none")

VARIABLES
  script, happened, faults,
  mem,     \* the table
  vec,     \* vec[i]: the collections with a vector of i
  orders,  \* outbox rows of live edits, still to be delivered
  claim,   \* the claim
  revs,    \* revs[i]: how many revisions a backfill wrote for i
  count,   \* count[u]: proxy_users.memory_count
  jobs,    \* backfill_jobs, in the order they were started
  cursor,  \* cursor[t, dry] in Redis, 0 when absent
  lock,    \* lock[t]: the delivery that holds the task's lock in Redis, or 0
  active,  \* embedding_models with is_active
  cached,  \* the active model's record in Redis, or "none"
  run,     \* run[r]: the deliveries and requests
  lapsed   \* history: a lock expired while its holder was at work

tables == <<mem, vec, orders, claim, revs, count>>
redisVars == <<cursor, lock, cached>>
vars == <<script, happened, faults, tables, jobs, redisVars, active, run, lapsed>>

Asked == Scripts[script].asked
Deliveries == DOMAIN Asked
AnyDelivery == UNION {DOMAIN Scripts[k].asked : k \in DOMAIN Scripts}
Task(r) == Asked[r].task
Name(r) == <<Task(r), Asked[r].dry>>
At(r, pc) == r \in Deliveries /\ run[r].pc = pc
\* What a delivery keeps: its cursor and the one it began with, the batch and what is staged of
\* it, what it read of the ledger, its job, the model it read, how it ended.
Fresh == [pc |-> "new", cur |-> 0, from |-> 0, batch |-> {}, staged |-> {}, claim |-> NoClaim,
          known |-> {}, job |-> 0, model |-> "none", end |-> "none"]

Init ==
  /\ script \in DOMAIN Scripts /\ happened = 0 /\ faults = 0
  /\ mem = Scripts[script].rows
  /\ vec = [i \in Ids |-> IF mem[i].st = "live" THEN {mem[i].model} ELSE {}]
  /\ orders = {}
  /\ claim = Scripts[script].claim
  /\ revs = [i \in Ids |-> 0]
  /\ count = [u \in LegacyUsers |-> Cardinality({i \in Ids : mem[i].owner = u})]
  /\ jobs = <<>>
  /\ cursor = [n \in Tasks \X BOOLEAN |-> 0]
  /\ lock = [t \in Locked |-> 0]
  /\ active = {"old"} /\ cached = "old"
  /\ run = [r \in Deliveries |-> Fresh]
  /\ lapsed = FALSE

Goes(r, pc) == run' = [run EXCEPT ![r].pc = pc]
Calm == faults' = faults
Fault == faults < MaxFaults /\ faults' = faults + 1
Same(same) == UNCHANGED <<script, happened, same>>

-----------------------------------------------------------------------------
(* What is still to be done, and a batch of it.                             *)

\* _where_sql of each backfill, and the condition of the re-embedding's queries.
Eligible(t, i) ==
  CASE t = "embed" -> mem[i].st = "live" /\ mem[i].model = "old"
    [] t = "users" -> mem[i].st # "gone" /\ mem[i].owner = 0
    [] OTHER -> mem[i].st # "gone" /\ revs[i] = 0
Remaining(t, c) == {i \in Ids : i > c /\ Eligible(t, i)}
\* Mutant: the row behind the cursor is passed over.
SelectedPast(t, c) == {i \in Remaining(t, c + 1) : Cardinality({k \in Remaining(t, c + 1) : k < i}) < BatchSize}
\* _select_batch, _select_batch_ids: ORDER BY id LIMIT.
Selected(t, c) == {i \in Remaining(t, c) : Cardinality({k \in Remaining(t, c) : k < i}) < BatchSize}

\* Mutant: the lock is not looked at.
AcquirableAlways(t) == TRUE
\* SET NX.
Acquirable(t) == lock[t] = 0

\* A provenance backfill takes its lock; without it, or without Redis, it is skipped.
Acquire(r) ==
  /\ At(r, "new") /\ Task(r) \in Locked
  /\ \/ /\ Acquirable(Task(r)) /\ Calm
        /\ lock' = [lock EXCEPT ![Task(r)] = r] /\ Goes(r, "cursor")
     \/ /\ ~Acquirable(Task(r)) /\ Calm /\ UNCHANGED lock
        /\ run' = [run EXCEPT ![r].pc = "over", ![r].end = "skipped"]
     \/ /\ Fault /\ UNCHANGED lock
        /\ run' = [run EXCEPT ![r].pc = "over", ![r].end = "skipped"]
  /\ Same(<<tables, jobs, cursor, cached, active, lapsed>>)

\* A backfill that cannot read its cursor begins at the start, the re-embedding does not begin.
ReadCursor(r) ==
  /\ At(r, "cursor") \/ (At(r, "new") /\ Task(r) \in {"embed", "users"})
  /\ \/ run' = [run EXCEPT ![r].pc = "open", ![r].cur = cursor[Name(r)], ![r].from = cursor[Name(r)]] /\ Calm
     \/ Fault /\ run' = [run EXCEPT ![r].pc = IF Task(r) = "embed" THEN "over" ELSE "open",
                                    ![r].end = IF Task(r) = "embed" THEN "failed" ELSE "none"]
  /\ Same(<<tables, jobs, redisVars, active, lapsed>>)

\* _latest_incomplete_job; a backfill always starts a job of its own.
Resumed(r) == IF Task(r) # "embed" THEN 0
              ELSE Max({0} \cup {k \in DOMAIN jobs : jobs[k].task = "embed" /\ jobs[k].st # "complete"})
OpenJob(r) ==
  /\ At(r, "open")
  /\ LET k == Resumed(r)
         left == Cardinality(Remaining(Task(r), run[r].cur))
     IN /\ jobs' = IF k = 0 THEN Append(jobs, [task |-> Task(r), st |-> "running", total |-> left, done |-> 0])
                   ELSE [jobs EXCEPT ![k].st = "running", ![k].total = Max({@, jobs[k].done + left})]
        /\ run' = [run EXCEPT ![r].pc = "loop", ![r].job = IF k = 0 THEN Len(jobs) + 1 ELSE k]
  /\ Same(<<faults, tables, redisVars, active, lapsed>>)

\* _should_pause: under load a backfill marks its job and waits, with its lock as it is.
Pause(r) ==
  /\ At(r, "loop") /\ Task(r) \in Backfills
  /\ jobs[run[r].job].st # "paused"
  /\ jobs' = [jobs EXCEPT ![run[r].job].st = "paused"]
  /\ Same(<<faults, tables, redisVars, active, run, lapsed>>)

Select(r) ==
  /\ At(r, "loop")
  /\ LET batch == Selected(Task(r), run[r].cur)
     IN run' = [run EXCEPT ![r].batch = batch,
                           ![r].pc = IF batch = {} THEN "finish" ELSE IF Task(r) = "embed" THEN "row" ELSE "read"]
  /\ Same(<<faults, tables, jobs, redisVars, active, lapsed>>)

\* The except branch: everything staged is rolled back, the job says so; the cursor stays.
Failed(r) ==
  /\ jobs' = [jobs EXCEPT ![run[r].job].st = "failed"]
  /\ run' = [run EXCEPT ![r].pc = IF Task(r) \in Locked THEN "release" ELSE "over", ![r].end = "failed",
                        ![r].staged = {}, ![r].batch = {}, ![r].claim = NoClaim, ![r].known = {}]

-----------------------------------------------------------------------------
(* run_reembedding_cycle: one row, and the commit of a batch.               *)

Row(r) == Min(run[r].batch)

\* session.get reads the row again: one that is gone or has another model is passed over.
Look(r) ==
  /\ At(r, "row")
  /\ Goes(r, IF mem[Row(r)].st = "gone" \/ mem[Row(r)].model # "old" THEN "pass" ELSE "upsert")
  /\ Same(<<faults, tables, jobs, redisVars, active, lapsed>>)

\* Embed, upsert in the new collection, delete in the old one: three calls that may raise.
Carry(r) ==
  /\ \/ /\ At(r, "upsert") /\ vec' = [vec EXCEPT ![Row(r)] = @ \cup {"new"}]
        /\ Goes(r, "drop") /\ Calm /\ UNCHANGED jobs
     \/ /\ At(r, "drop") /\ vec' = [vec EXCEPT ![Row(r)] = @ \ {"old"}]
        /\ Goes(r, "mark") /\ Calm /\ UNCHANGED jobs
     \/ /\ At(r, "upsert") \/ At(r, "drop")
        /\ Fault /\ Failed(r) /\ UNCHANGED vec
  /\ Same(<<mem, orders, claim, revs, count, redisVars, active, lapsed>>)

\* The cursor moves in Redis with every row, ahead of the commit.
Mark(r) ==
  /\ At(r, "mark") \/ At(r, "pass")
  /\ \/ /\ cursor' = [cursor EXCEPT ![Name(r)] = Row(r)] /\ Calm /\ UNCHANGED jobs
        /\ run' = [run EXCEPT ![r].cur = Row(r), ![r].batch = @ \ {Row(r)},
                              ![r].staged = IF run[r].pc = "mark" THEN @ \cup {Row(r)} ELSE @,
                              ![r].pc = IF run[r].batch = {Row(r)} THEN "commit" ELSE "row"]
     \/ Fault /\ Failed(r) /\ UNCHANGED cursor
  /\ Same(<<tables, lock, cached, active, lapsed>>)

\* A row deleted meanwhile makes the flush raise, and the batch is rolled back as a whole.
CommitBatch(r) ==
  /\ At(r, "commit") /\ Task(r) = "embed"
  /\ IF \E i \in run[r].staged : mem[i].st = "gone" THEN Failed(r) /\ UNCHANGED mem
     ELSE /\ mem' = [i \in Ids |-> IF i \in run[r].staged THEN [mem[i] EXCEPT !.model = "new"] ELSE mem[i]]
          /\ jobs' = [jobs EXCEPT ![run[r].job].st = "running",
                                  ![run[r].job].done = @ + Cardinality(run[r].staged)]
          /\ run' = [run EXCEPT ![r].pc = "loop", ![r].staged = {}]
  /\ Same(<<faults, vec, orders, claim, revs, count, redisVars, active, lapsed>>)

-----------------------------------------------------------------------------
(* BackfillTask.run and the three process_batch.                            *)

\* ON CONFLICT DO UPDATE holds the users of a batch's rows until its commit.
UsersHeld(r) == {mem[i].user : i \in {k \in run[r].batch : Eligible("users", k)}}
\* process_batch begins: the lock is renewed, the ledger is read, nothing in it is locked.
ReadLedger(r) ==
  /\ At(r, "read")
  /\ Task(r) = "users" =>
       \A s \in Deliveries \ {r} : (Task(s) = "users" /\ At(s, "commit")) => UsersHeld(s) \cap UsersHeld(r) = {}
  /\ run' = [run EXCEPT ![r].pc = "commit", ![r].claim = claim, ![r].known = {i \in Ids : revs[i] # 0}]
  /\ Same(<<faults, tables, jobs, redisVars, active, lapsed>>)

\* The first of the batch's rows in the order of created_at.
Oldest(S) == CHOOSE i \in S : \A k \in S : mem[i].at < mem[k].at \/ (mem[i].at = mem[k].at /\ i <= k)
\* The claim that the first row about it makes.
Created(i) == IF mem[i].st = "live" THEN [st |-> "active", val |-> mem[i].val, win |-> i, live |-> FALSE]
              ELSE [st |-> "archived", val |-> 0, win |-> 0, live |-> FALSE]

\* A revision's created_at and source; a live one is newer than every legacy memory.
Date(i) == IF i = Live THEN Live ELSE mem[i].at
Source(i) == IF i = Live THEN "passport_agent" ELSE mem[i].src
\* Mutant: the claim of a live record counts as the backfill's own.
ManagedAlways(c) == TRUE
\* claim_is_backfill_managed: every revision of the claim is the backfill's.
Managed(c) == ~c.live
\* Mutant: the date is not compared.
AdvancesAnyway(a, i) == mem[i].st = "live" /\ Source(a.by) # "user_correction"
\* can_advance_legacy_winner, of a claim that is the backfill's.
Advances(a, i) ==
  /\ mem[i].st = "live"
  /\ \/ mem[i].src = "user_correction"
     \/ mem[i].at > Date(a.by) /\ Source(a.by) # "user_correction"
\* backfill_revision_sync for a claim that is the backfill's: the claim, and the revision it goes
\* by (current_revision).
PassportRow(a, i) ==
  LET same == a.claim.val = mem[i].val
      c == CASE a.claim.st = "none" -> Created(i)
             [] a.claim.st # "none" /\ Advances(a, i) ->
                  [a.claim EXCEPT !.val = mem[i].val, !.win = i,
                     !.st = IF mem[i].src = "user_correction" \/ same THEN "active" ELSE "disputed"]
             [] a.claim.st # "none" /\ ~Advances(a, i) ->
                  IF mem[i].st = "live" /\ ~same /\ mem[i].src # "user_correction"
                  THEN [a.claim EXCEPT !.st = "disputed"] ELSE a.claim
  IN [claim |-> c, by |-> IF c.win # 0 THEN c.win ELSE i]
Begun(r) ==
  [claim |-> run[r].claim,
   by |-> IF run[r].claim.win # 0 THEN run[r].claim.win
          ELSE IF run[r].known = {} THEN 0
          ELSE CHOOSE i \in run[r].known : \A k \in run[r].known : mem[k].at <= mem[i].at]

\* The rows of a batch one by one, the oldest first: the claim and the rows left after n of them.
Walk(a, S) ==
  LET walk[n \in 0 .. Cardinality(S)] ==
        IF n = 0 THEN [at |-> a, left |-> S]
        ELSE LET before == walk[n - 1]
                 i == Oldest(before.left)
             IN [at |-> PassportRow(before.at, i), left |-> before.left \ {i}]
  IN walk

\* Rows that have a revision by the time the ledger is read are left out.
Unwritten(r) == IF Asked[r].dry THEN {} ELSE {i \in run[r].batch \ run[r].known : mem[i].st # "gone"}
\* The claim after a batch.  Of tenant memories only the first can make one, and a claim that
\* was recorded live is left as it is.
Folded(r) ==
  IF Unwritten(r) = {} \/ ~Managed(run[r].claim) THEN run[r].claim
  ELSE IF Task(r) = "passport" THEN Walk(Begun(r), Unwritten(r))[Cardinality(Unwritten(r))].at.claim
  ELSE IF run[r].claim.st = "none" THEN Created(Oldest(Unwritten(r))) ELSE run[r].claim
\* The unique fingerprint refuses a claim that somebody else has inserted since.
Clash(r) == run[r].claim.st = "none" /\ Folded(r).st # "none" /\ claim.st # "none"
\* Only changed columns are written, over whatever the row holds by now.
Merged(r) == [f \in DOMAIN claim |-> IF Folded(r)[f] # run[r].claim[f] THEN Folded(r)[f] ELSE claim[f]]

Progress(r, n) == jobs' = [jobs EXCEPT ![run[r].job].st = "running", ![run[r].job].done = @ + n]
ApplyLedger(r) ==
  /\ At(r, "commit") /\ Task(r) \in Locked
  /\ IF Clash(r) THEN Failed(r) /\ UNCHANGED <<claim, revs>>
     ELSE /\ claim' = Merged(r)
          /\ revs' = [i \in Ids |-> IF i \in Unwritten(r) THEN revs[i] + 1 ELSE revs[i]]
          /\ Progress(r, Cardinality(IF Asked[r].dry THEN run[r].batch ELSE Unwritten(r)))
          /\ run' = [run EXCEPT ![r].pc = "note", ![r].claim = NoClaim, ![r].known = {}]
  /\ Same(<<faults, mem, vec, orders, count, redisVars, active, lapsed>>)

\* BackfillProxyUserIds: rows still without an owner get one, the users of the batch are counted.
ApplyUsers(r) ==
  /\ At(r, "commit") /\ Task(r) = "users"
  /\ LET rows == {i \in run[r].batch : Eligible("users", i)}
     IN /\ mem' = [i \in Ids |-> IF i \in rows THEN [mem[i] EXCEPT !.owner = mem[i].user] ELSE mem[i]]
        /\ count' = [u \in LegacyUsers |->
             IF \E i \in run[r].batch : mem[i].st # "gone" /\ mem'[i].owner = u
             THEN Cardinality({i \in Ids : mem'[i].owner = u /\ mem[i].st # "gone"}) ELSE count[u]]
        /\ Progress(r, Cardinality(rows))
  /\ run' = [run EXCEPT ![r].pc = "note", ![r].claim = NoClaim, ![r].known = {}]
  /\ Same(<<faults, vec, orders, claim, revs, redisVars, active, lapsed>>)

\* Mutant: the cursor is set one further than the batch went.
LastIdPast(r) == Max(run[r].batch) + 1
\* batch_ids[-1].
LastId(r) == Max(run[r].batch)
\* _set_cursor follows the commit; Redis may not take it.
Note(r) ==
  /\ At(r, "note")
  /\ \/ cursor' = [cursor EXCEPT ![Name(r)] = LastId(r)] /\ Calm
     \/ Fault /\ UNCHANGED cursor
  /\ run' = [run EXCEPT ![r].pc = "loop", ![r].cur = LastId(r), ![r].batch = {}]
  /\ Same(<<tables, jobs, lock, cached, active, lapsed>>)

-----------------------------------------------------------------------------
(* How a task ends.                                                         *)

Finish(r) ==
  /\ At(r, "finish")
  /\ jobs' = [jobs EXCEPT ![run[r].job].st = "complete"]
  /\ run' = [run EXCEPT ![r].pc = IF Task(r) = "users" THEN "over" ELSE "clear", ![r].end = "complete"]
  /\ Same(<<faults, tables, redisVars, active, lapsed>>)

\* The cursor is deleted; a re-embedding that cannot is reported as failed after all.
Clear(r) ==
  /\ At(r, "clear")
  /\ \/ /\ cursor' = [cursor EXCEPT ![Name(r)] = 0] /\ Calm /\ UNCHANGED jobs
        /\ Goes(r, IF Task(r) \in Locked THEN "release" ELSE "over")
     \/ /\ Fault /\ UNCHANGED cursor
        /\ IF Task(r) = "embed" THEN Failed(r) ELSE Goes(r, "release") /\ UNCHANGED jobs
  /\ Same(<<tables, lock, cached, active, lapsed>>)

\* The lock is compared with the delivery's own token and then deleted, in two calls.
Release(r) ==
  /\ \/ /\ At(r, "release") /\ Goes(r, IF lock[Task(r)] = r THEN "unlock" ELSE "over")
        /\ Calm /\ UNCHANGED lock
     \/ /\ At(r, "unlock") /\ Goes(r, "over") /\ Calm
        /\ lock' = [lock EXCEPT ![Task(r)] = 0]
     \/ /\ At(r, "release") \/ At(r, "unlock")
        /\ Fault /\ Goes(r, "over") /\ UNCHANGED lock
  /\ Same(<<tables, jobs, cursor, cached, active, lapsed>>)

\* The worker dies: nothing staged is committed, the job stays as it was.
Die(r) ==
  /\ r \in Deliveries /\ Task(r) \in Tasks /\ run[r].pc \notin {"new", "over", "dead"}
  /\ Fault
  /\ run' = [run EXCEPT ![r].pc = "dead", ![r].staged = {}, ![r].batch = {}]
  /\ Same(<<tables, jobs, redisVars, active, lapsed>>)

\* An hour without renewal: the holder is gone, or waits for the load to fall.
Lapse(t) ==
  /\ lock[t] # 0
  /\ LET h == run[lock[t]]
     IN /\ h.pc \in {"over", "dead"} \/ (h.pc = "loop" /\ jobs[h.job].st = "paused")
        /\ lapsed' = (lapsed \/ h.pc = "loop")
  /\ lock' = [lock EXCEPT ![t] = 0]
  /\ Same(<<faults, tables, jobs, cursor, cached, active, run>>)

-----------------------------------------------------------------------------
(* The active model.                                                        *)

\* set_active_model: the others are switched off and the target on, in one transaction; who finds
\* another at it waits for the row, and then for the unique index.
Switching == {r \in Deliveries : run[r].pc = "switch"}
Activate(r) ==
  /\ \/ /\ At(r, "new") /\ Task(r) = "activate"
        /\ \E m \in active : run' = [run EXCEPT ![r].pc = IF Switching = {} THEN "switch" ELSE "wait",
                                                ![r].model = m]
        /\ UNCHANGED <<active, cached>>
     \/ /\ At(r, "wait") /\ Switching = {}
        /\ Goes(r, IF active \subseteq {run[r].model, Asked[r].model} THEN "switch" ELSE "over")
        /\ UNCHANGED <<active, cached>>
     \/ /\ At(r, "switch")
        /\ active' = {Asked[r].model} /\ UNCHANGED cached /\ Goes(r, "forget")
     \/ At(r, "forget") /\ cached' \in {cached, "none"} /\ UNCHANGED active /\ Goes(r, "tell")
     \/ At(r, "tell") /\ cached' \in {cached, Asked[r].model} /\ UNCHANGED active /\ Goes(r, "over")
  /\ Same(<<faults, tables, jobs, cursor, lock, lapsed>>)

\* get_active_model with a session: the row is read and its copy in Redis is set.
Ask(r) ==
  /\ \/ /\ At(r, "new") /\ Task(r) = "ask" /\ UNCHANGED cached
        /\ \E m \in active : run' = [run EXCEPT ![r].pc = "keep", ![r].model = m]
     \/ At(r, "keep") /\ cached' \in {cached, run[r].model} /\ Goes(r, "over")
  /\ Same(<<faults, tables, jobs, cursor, lock, active, lapsed>>)

-----------------------------------------------------------------------------
(* The live service.                                                        *)

Event == Scripts[script].then[happened + 1]
Next1 == happened < Len(Scripts[script].then) /\ happened' = happened + 1 /\ UNCHANGED script
\* An archived or deleted memory orders the deletion of its vector where its row says it is.
Withdraw ==
  /\ Next1 /\ Event.ev \in {"archive", "delete"} /\ mem[Event.id].st # "gone"
  /\ mem' = [mem EXCEPT ![Event.id].st = IF Event.ev = "delete" THEN "gone" ELSE "archived"]
  /\ orders' = orders \cup {[op |-> "delete", id |-> Event.id, to |-> mem[Event.id].model]}
  /\ UNCHANGED <<faults, vec, claim, revs, count, jobs, redisVars, active, run, lapsed>>
\* An edit embeds with the active model and orders the vector; the old collection is left alone.
Edit ==
  /\ Next1 /\ Event.ev = "edit" /\ mem[Event.id].st # "gone"
  /\ mem' = [mem EXCEPT ![Event.id].model = "new", ![Event.id].edited = TRUE]
  /\ orders' = orders \cup {[op |-> "upsert", id |-> Event.id, to |-> "new"]}
  /\ UNCHANGED <<faults, vec, claim, revs, count, jobs, redisVars, active, run, lapsed>>
\* The vector worker.
Deliver(o) ==
  /\ vec' = [vec EXCEPT ![o.id] = IF o.op = "upsert" THEN @ \cup {o.to} ELSE @ \ {o.to}]
  /\ orders' = orders \ {o}
  /\ Same(<<faults, mem, claim, revs, count, jobs, redisVars, active, run, lapsed>>)
\* A live record or a correction by the user decides the claim.
Record ==
  /\ Next1 /\ Event.ev = "record"
  /\ claim' = [st |-> "active", val |-> Event.val, win |-> Live, live |-> TRUE]
  /\ UNCHANGED <<faults, mem, vec, orders, revs, count, jobs, redisVars, active, run, lapsed>>

Next ==
  \/ \E r \in AnyDelivery :
       \/ Acquire(r) \/ ReadCursor(r) \/ OpenJob(r) \/ Pause(r) \/ Select(r)
       \/ Look(r) \/ Carry(r) \/ Mark(r) \/ CommitBatch(r)
       \/ ReadLedger(r) \/ ApplyLedger(r) \/ ApplyUsers(r) \/ Note(r)
       \/ Finish(r) \/ Clear(r) \/ Release(r) \/ Die(r) \/ Activate(r) \/ Ask(r)
  \/ \E t \in Locked : Lapse(t)
  \/ Withdraw \/ Edit \/ Record
  \/ \E o \in orders : Deliver(o)

Spec == Init /\ [][Next]_vars

-----------------------------------------------------------------------------
(* Properties.                                                              *)

TypeOK ==
  /\ mem \in [Ids -> Memory] /\ vec \in [Ids -> SUBSET Models]
  /\ claim \in Claim /\ revs \in [Ids -> Nat] /\ count \in [LegacyUsers -> Nat]
  /\ jobs \in Seq(BackfillJob) /\ cursor \in [Tasks \X BOOLEAN -> Ids \cup {0}]
  /\ lock \in [Locked -> {0} \cup Deliveries]
  /\ Cardinality(active) = 1 /\ active \subseteq Models /\ cached \in Models \cup {"none"}

\* What a task is to do for a row.
Treated(t, i) ==
  CASE t = "embed" -> /\ mem[i].model = "new"
                      /\ "new" \in vec[i] \/ \E o \in orders : o.id = i
                      /\ "old" \notin vec[i] \/ mem[i].edited
    [] t = "users" -> mem[i].owner # 0
    [] OTHER -> revs[i] # 0
OutOfReach(t, i) == mem[i].st = "gone" \/ (t = "embed" /\ mem[i].st = "archived")

\* A task that began at the start of the table and reports that it is complete has treated every
\* row, whatever other deliveries of it did beside it, and wherever they failed:
\* a re-embedded row has its vector in the new collection and none in the old one.
LeftNothing ==
  \A r \in Deliveries :
    (Task(r) \in Tasks /\ run[r].end = "complete" /\ run[r].from = 0 /\ ~Asked[r].dry)
      => \A i \in Ids : OutOfReach(Task(r), i) \/ Treated(Task(r), i)

\* A cursor in Redis never passes over a row that is still to be done: a later delivery that begins
\* there misses nothing.  For the backfills this holds through every failure, because the cursor
\* follows the commit.  The re-embedding moves its cursor first, and for it this holds as long as
\* no delivery failed or died.
BehindDone ==
  \A t \in Tasks : \A i \in Ids : i <= cursor[<<t, FALSE>>] =>
    \/ OutOfReach(t, i) \/ Treated(t, i)
    \/ t = "embed" /\ \/ \E r \in Deliveries : run[r].end = "failed" \/ run[r].pc = "dead"
                      \/ \E r \in Deliveries : i \in run[r].staged

\* No legacy memory gets two revisions from a backfill, whichever deliveries overlapped, as long as
\* no lock expired under a holder that was waiting for the load to fall: nothing in the tables
\* would refuse the second one.  And the users a backfill made have the count of their memories.
WrittenOnce ==
  /\ ~lapsed => \A i \in Ids : revs[i] <= 1
  /\ (\A i \in Ids : mem[i].st # "gone") =>
       \A u \in LegacyUsers : count[u] = Cardinality({i \in Ids : mem[i].owner = u})

\* "Existing live-ledger winners and user corrections are immutable from the backfill": a live
\* winner is replaced by no backfill of tenant memories, and by one of the Passport only when it
\* was recorded after the batch had read the claim.
WinnerKept ==
  [][(claim.win = Live /\ claim'.win # Live)
       => \E r \in Deliveries : At(r, "commit") /\ Task(r) = "passport" /\ run[r].claim.win # Live]_vars

\* "So UUID scan order cannot choose the winner": when the backfill of a Passport that nobody wrote
\* to is complete, the user's correction, or else the newest memory, is the winner, in whatever
\* batches the ids put the rows.  For one correction at most, no archived memory and a lock that
\* held: a second correction replaces an earlier one whatever their dates, and an archived
\* memory that comes first keeps older ones from winning.
NewestWins ==
  \A r \in Deliveries :
    /\ Task(r) = "passport" /\ run[r].end = "complete" /\ run[r].from = 0 /\ ~Asked[r].dry
    /\ ~claim.live /\ ~lapsed /\ \A i \in Ids : mem[i].st = "live"
    /\ Cardinality({i \in Ids : mem[i].src = "user_correction"}) <= 1
    => LET best == {i \in Ids : mem[i].src = "user_correction"}
           from == IF best = {} THEN Ids ELSE best
       IN \A i \in from : mem[i].at <= mem[claim.win].at /\ claim.win \in from
=============================================================================
