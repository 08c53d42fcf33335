------------------------------ MODULE VectorOutbox ------------------------------
(***************************************************************************)
(* The vector index and how it follows the database: every change of a     *)
(* memory commits an outbox row with it; every five seconds a cycle        *)
(* (api/tasks/vector_sync_tasks.py) claims a batch of rows, applies it to  *)
(* Qdrant and commits the outcome; every night the reconciliation          *)
(* (api/tasks/reconciliation_tasks.py) compares the two sides, queues the  *)
(* vectors that are missing and deletes the ones that are not wanted.      *)
(*                                                                         *)
(* Cycles overlap (beat publishes one every five seconds, whatever the     *)
(* earlier ones do), and a worker may die between the commit of the claims *)
(* and the commit of the outcome.                                          *)
(***************************************************************************)
EXTENDS Integers, FiniteSets

CONSTANTS
  Memories,      \* the memories, tenant and universal
  Universal,     \* those of the universal passport (UniversalMemory)
  Collections,   \* the collections of the embedding models
  Default,       \* QdrantService.COLLECTION_NAME
  Cycles,        \* run_outbox_cycle executions that may overlap
  BatchSize,     \* batch_size: rows claimed by one cycle
  ChunkSize,     \* DEFAULT_QDRANT_SYNC_CHUNK_SIZE
  MaxAttempts,   \* the 3 of _mark_rows_failed_or_pending
  RepairLimit,   \* the 100 of run_reconciliation_cycle
  Faults,        \* what may go wrong: a subset of AllFaults
  MaxFaults,     \* bound: how often it does
  MaxRows,       \* bound: outbox rows ever written
  MaxWrites,     \* bound: operations on memories happen up to that many rows
  MaxVersion,    \* bound: content versions of a memory
  Operations,    \* which operations on memories happen
  NightlyDrained \* bound: a reconciliation starts only once no row is pending

AllFaults == {"qdrant", "crash", "reconcile"}
AllOperations == {"update", "archive", "decay", "supersede", "erase"}

\* The collection of the universal memories, unknown to the reconciliation.
Passport == "universal"

ASSUME OutboxAssumption ==
  /\ IsFiniteSet(Memories) /\ Universal \subseteq Memories
  /\ Default \in Collections /\ Passport \notin Collections
  /\ BatchSize \in Nat \ {0} /\ ChunkSize \in Nat \ {0}
  /\ MaxAttempts \in Nat \ {0} /\ RepairLimit \in Nat
  /\ Faults \subseteq AllFaults /\ MaxFaults \in Nat
  /\ MaxRows \in Nat /\ MaxWrites \in 0..MaxRows /\ MaxVersion \in Nat \ {0}
  /\ Operations \subseteq AllOperations
  /\ NightlyDrained \in BOOLEAN

VARIABLES
  mem,        \* the memories table
  outbox,     \* vector_sync_outbox, by order of creation
  issued,     \* rows written so far
  points,     \* Qdrant: collection, memory -> its point
  cycle,      \* the running cycles
  recon,      \* the running reconciliation
  faults,     \* faults so far
  applied,    \* history: rows whose operation reached Qdrant
  disordered  \* history: memories whose index entry an older write could spoil

vars == <<mem, outbox, issued, points, cycle, recon, faults, applied, disordered>>

RowIds == 1..MaxRows
Places == Collections \cup {Passport}
NoRow == [status |-> "none"]
Ops == {"upsert", "archive", "delete"}
Entries == [status : {"pending", "processing", "done", "failed"}, op : Ops, mem : Memories,
            coll : Places, ver : Nat, attempts : Nat, privacy : BOOLEAN]

\* A point carries the content version of its vector and the is_archived flag.
NoPoint == [ver |-> 0, archived |-> FALSE]
Points == [ver : Nat, archived : BOOLEAN]

NoCycle == [pc |-> "idle"]
CycleStates == [pc : {"selected", "claimed"}, left : SUBSET RowIds, chunk : SUBSET RowIds,
                todo : SUBSET RowIds, done : SUBSET RowIds, bad : SUBSET RowIds]

MemStates == [state : {"none", "live", "archived", "gone"}, ver : Nat, coll : Places]
NoRecon == [pc |-> "idle"]
ReconStates == [pc : {"read", "missing", "scrolled", "checked", "deleted"}, seen : [Memories -> MemStates],
                missing : SUBSET Memories, found : SUBSET (Collections \X Memories),
                orphans : SUBSET (Collections \X Memories)]

TypeOK ==
  /\ mem \in [Memories -> MemStates]
  /\ outbox \in [RowIds -> Entries \cup {NoRow}]
  /\ issued \in 0..MaxRows
  /\ points \in [Places -> [Memories -> Points]]
  /\ cycle \in [Cycles -> CycleStates \cup {NoCycle}]
  /\ recon \in ReconStates \cup {NoRecon}
  /\ faults \in 0..MaxFaults
  /\ applied \subseteq RowIds
  /\ disordered \subseteq Memories

Init ==
  /\ mem = [m \in Memories |-> [state |-> "none", ver |-> 0,
                                coll |-> IF m \in Universal THEN Passport ELSE Default]]
  /\ outbox = [r \in RowIds |-> NoRow]
  /\ issued = 0
  /\ points = [p \in Places |-> [m \in Memories |-> NoPoint]]
  /\ cycle = [c \in Cycles |-> NoCycle]
  /\ recon = NoRecon
  /\ faults = 0
  /\ applied = {}
  /\ disordered = {}

Fault(f) == f \in Faults /\ faults < MaxFaults /\ faults' = faults + 1

------------------------------------------------------------------------------
(* Operations on memories.  Each commits its outbox row with the change.   *)

\* enqueue_vector_upsert, enqueue_vector_archive and enqueue_vector_delete.
Entry(op, m, coll, ver) ==
  [status |-> "pending", op |-> op, mem |-> m, coll |-> coll, ver |-> ver, attempts |-> 0,
   privacy |-> op = "delete" /\ m \in Universal]

Enqueue(op, m, coll, ver) ==
  /\ issued < MaxWrites
  /\ issued' = issued + 1
  /\ outbox' = [outbox EXCEPT ![issued + 1] = Entry(op, m, coll, ver)]
  /\ UNCHANGED <<points, cycle, recon, faults, applied>>

\* _store_memory, a domain projection, or a universal extraction: a new
\* memory in the collection of the embedding model in use.
StoreMemory(m) ==
  /\ mem[m].state = "none"
  /\ \E coll \in IF m \in Universal THEN {Passport} ELSE Collections :
       /\ mem' = [mem EXCEPT ![m] = [state |-> "live", ver |-> 1, coll |-> coll]]
       /\ Enqueue("upsert", m, coll, 1)
  /\ UNCHANGED disordered

\* update_memory may change the content or leave it.
Revised(m) == {v \in {mem[m].ver, mem[m].ver + 1} : v <= MaxVersion}

\* update_memory of a memory that is live afterwards (an edit, a new
\* importance, a restoration), embedded again with the model now in use, and a
\* reviewed conflict that brings a memory back.
UpdateMemory(m) ==
  /\ "update" \in Operations
  /\ mem[m].state \in {"live", "archived"} /\ m \notin Universal
  /\ \E coll \in Collections, ver \in Revised(m) :
       /\ mem' = [mem EXCEPT ![m] = [state |-> "live", ver |-> ver, coll |-> coll]]
       /\ Enqueue("upsert", m, coll, ver)
  /\ UNCHANGED disordered

\* update_memory of a memory that is archived afterwards, and
\* delete_memory(soft): the row names the collection the memory is in.
ArchiveMemory(m) ==
  /\ "archive" \in Operations
  /\ mem[m].state \in {"live", "archived"} /\ m \notin Universal
  /\ \E ver \in Revised(m) :
       mem' = [mem EXCEPT ![m] = [state |-> "archived", ver |-> ver, coll |-> mem[m].coll]]
  /\ Enqueue("delete", m, mem[m].coll, 0)
  /\ UNCHANGED disordered

\* The archival of stale memories (decay, lifecycle) and the losing side of a
\* reviewed conflict: the row names no collection, so the worker deletes from
\* the default one, whichever the memory is in.
ArchiveStale(m) ==
  /\ "decay" \in Operations
  /\ mem[m].state = "live" /\ m \notin Universal
  /\ mem' = [mem EXCEPT ![m].state = "archived"]
  /\ Enqueue("delete", m, Default, 0)
  /\ disordered' = IF mem[m].coll = Default THEN disordered ELSE disordered \cup {m}

\* _archive_memory: a newer memory supersedes this one, whose vector is kept
\* and marked.
SupersedeMemory(m) ==
  /\ "supersede" \in Operations
  /\ mem[m].state = "live" /\ m \notin Universal
  /\ mem' = [mem EXCEPT ![m].state = "archived"]
  /\ Enqueue("archive", m, mem[m].coll, 0)
  /\ UNCHANGED disordered

\* delete_memory(hard), which knows the collection, and the deletion of a
\* proxy user, which does not; the passport owner's deletion of a universal
\* memory (the row is a privacy delete).
EraseMemory(m) ==
  /\ "erase" \in Operations
  /\ mem[m].state \in {"live", "archived"}
  /\ mem' = [mem EXCEPT ![m].state = "gone"]
  /\ \E coll \in IF m \in Universal THEN {Passport} ELSE {mem[m].coll, Default} :
       /\ Enqueue("delete", m, coll, 0)
       /\ disordered' = IF coll = mem[m].coll THEN disordered ELSE disordered \cup {m}

Operation(m) ==
  \/ StoreMemory(m) \/ UpdateMemory(m) \/ ArchiveMemory(m) \/ ArchiveStale(m)
  \/ SupersedeMemory(m) \/ EraseMemory(m)

------------------------------------------------------------------------------
(* run_outbox_cycle.                                                       *)

Pending == {r \in RowIds : outbox[r].status = "pending"}
Oldest(rows, n) == {r \in rows : Cardinality({q \in rows : q < r}) < n}

Fresh(rows) == [pc |-> "selected", left |-> rows, chunk |-> {}, todo |-> {},
                done |-> {}, bad |-> {}]

\* The SELECT of the oldest pending rows.
Select(c) ==
  /\ cycle[c] = NoCycle
  /\ Pending # {}
  /\ cycle' = [cycle EXCEPT ![c] = Fresh(Oldest(Pending, BatchSize))]
  /\ UNCHANGED <<mem, outbox, issued, points, recon, faults, applied, disordered>>

\* _claim_outbox_row for every row selected, and the commit.  A row another
\* cycle claimed meanwhile is skipped.
ClaimRows(c, rows) ==
  /\ outbox' = [r \in RowIds |-> IF r \in rows
                  THEN [outbox[r] EXCEPT !.status = "processing",
                                       !.attempts = outbox[r].attempts + 1]
                  ELSE outbox[r]]
  /\ cycle' = [cycle EXCEPT ![c] = IF rows = {} THEN NoCycle
                                   ELSE [cycle[c] EXCEPT !.pc = "claimed", !.left = rows]]
  /\ UNCHANGED <<mem, issued, points, recon, faults, applied, disordered>>

\* Mutant: the UPDATE does not test the status again.
ClaimUnchecked(c) == cycle[c].pc = "selected" /\ ClaimRows(c, cycle[c].left)

\* _claim_outbox_row takes only what is still pending.
Claim(c) == cycle[c].pc = "selected" /\ ClaimRows(c, cycle[c].left \cap Pending)

\* Upserts are applied before archivals and these before deletions, whatever
\* the order the rows were written in; within an operation, oldest first and
\* ChunkSize at a time.
Of(rows, op) == {r \in rows : outbox[r].op = op}
FirstOp(rows) ==
  IF Of(rows, "upsert") # {} THEN "upsert"
  ELSE IF Of(rows, "archive") # {} THEN "archive" ELSE "delete"

NextChunk(c) ==
  /\ cycle[c].pc = "claimed" /\ cycle[c].chunk = {} /\ cycle[c].left # {}
  /\ LET rows == Oldest(Of(cycle[c].left, FirstOp(cycle[c].left)), ChunkSize)
     IN  cycle' = [cycle EXCEPT ![c] = [cycle[c] EXCEPT !.left = cycle[c].left \ rows,
                                          !.chunk = rows, !.todo = rows]]
  /\ UNCHANGED <<mem, outbox, issued, points, recon, faults, applied, disordered>>

\* What a row does to the point of its memory (external: Qdrant).  A payload
\* can be set only on a point that exists.
Effect(row, point) ==
  CASE row.op = "upsert"  -> [ver |-> row.ver, archived |-> FALSE]
    [] row.op = "archive" -> IF point = NoPoint THEN NoPoint ELSE [point EXCEPT !.archived = TRUE]
    [] row.op = "delete"  -> NoPoint

Overtaken(r) == \E q \in applied : q > r /\ outbox[q].mem = outbox[r].mem

\* The next row of the chunk reaches Qdrant.
Reach(r) ==
  /\ points' = [points EXCEPT ![outbox[r].coll][outbox[r].mem] = Effect(outbox[r], @)]
  /\ applied' = applied \cup {r}
  /\ disordered' = IF Overtaken(r) THEN disordered \cup {outbox[r].mem} ELSE disordered

\* The oldest row of the chunk that has not been applied.
First(c, r) == r \in cycle[c].todo /\ \A q \in cycle[c].todo : r <= q

ApplyRow(c) ==
  /\ cycle[c].pc = "claimed"
  /\ \E r \in RowIds : /\ First(c, r)
                       /\ Reach(r)
                       /\ cycle' = [cycle EXCEPT ![c] = [cycle[c] EXCEPT !.todo = cycle[c].todo \ {r}]]
  /\ UNCHANGED <<mem, outbox, issued, recon, faults>>

\* _mark_rows_done, in a session that is not committed yet.
ChunkDone(c) ==
  /\ cycle[c].pc = "claimed" /\ cycle[c].chunk # {} /\ cycle[c].todo = {}
  /\ cycle' = [cycle EXCEPT ![c] = [cycle[c] EXCEPT !.done = cycle[c].done \cup cycle[c].chunk, !.chunk = {}]]
  /\ UNCHANGED <<mem, outbox, issued, points, recon, faults, applied, disordered>>

\* A call to Qdrant fails (or the payload of an absent point cannot be set),
\* with or without its effect: _mark_rows_failed_or_pending for the whole
\* chunk, also not committed yet.
CallFails(c) ==
  /\ cycle[c].pc = "claimed"
  /\ \E r \in RowIds :
       /\ First(c, r)
       /\ \/ Fault("qdrant") /\ UNCHANGED <<points, applied, disordered>>
          \/ Fault("qdrant") /\ Reach(r)
          \/ /\ outbox[r].op = "archive" /\ points[outbox[r].coll][outbox[r].mem] = NoPoint
             /\ UNCHANGED <<faults, points, applied, disordered>>
  /\ UNCHANGED <<mem, outbox, issued, recon>>

\* Mutant: a failed chunk is reported as done.
ChunkFailedAsDone(c) ==
  /\ CallFails(c)
  /\ cycle' = [cycle EXCEPT ![c] = [cycle[c] EXCEPT
        !.done = cycle[c].done \cup cycle[c].chunk, !.chunk = {}, !.todo = {}]]

\* The rows of the chunk fail together, those already applied too.
ChunkFailed(c) ==
  /\ CallFails(c)
  /\ cycle' = [cycle EXCEPT ![c] = [cycle[c] EXCEPT
        !.bad = cycle[c].bad \cup cycle[c].chunk, !.chunk = {}, !.todo = {}]]

\* Mutant: no limit of attempts.
RetriedAlways(row) == TRUE

\* A row that failed is tried again, at most MaxAttempts times unless it
\* erases a passport owner's data.
Retried(row) == row.attempts < MaxAttempts \/ row.privacy

\* The commit at the end of the cycle publishes the outcome of every chunk.
Commit(c) ==
  /\ cycle[c].pc = "claimed" /\ cycle[c].chunk = {} /\ cycle[c].left = {}
  /\ outbox' = [r \in RowIds |->
       IF r \in cycle[c].done THEN [outbox[r] EXCEPT !.status = "done"]
       ELSE IF r \in cycle[c].bad
         THEN [outbox[r] EXCEPT !.status = IF Retried(outbox[r]) THEN "pending" ELSE "failed"]
         ELSE outbox[r]]
  /\ cycle' = [cycle EXCEPT ![c] = NoCycle]
  /\ UNCHANGED <<mem, issued, points, recon, faults, applied, disordered>>

\* The worker dies, or the database refuses the last commit: nothing is
\* rolled back but the outcome, and the claimed rows stay in processing.
CycleCrash(c) ==
  /\ cycle[c] # NoCycle
  /\ Fault("crash")
  /\ cycle' = [cycle EXCEPT ![c] = NoCycle]
  /\ UNCHANGED <<mem, outbox, issued, points, recon, applied, disordered>>

Cycle(c) ==
  \/ Select(c) \/ Claim(c) \/ NextChunk(c) \/ ApplyRow(c) \/ ChunkDone(c) \/ ChunkFailed(c)
  \/ Commit(c) \/ CycleCrash(c)

------------------------------------------------------------------------------
(* run_reconciliation_cycle.                                               *)

Tenant == Memories \ Universal

\* _find_missing_memories reads the live memories ...
ReconcileRead ==
  /\ recon = NoRecon
  /\ NightlyDrained => /\ Pending = {}
                       /\ \A c \in Cycles : cycle[c] = NoCycle
  /\ recon' = [pc |-> "read", seen |-> mem, missing |-> {}, found |-> {}, orphans |-> {}]
  /\ UNCHANGED <<mem, outbox, issued, points, cycle, faults, applied, disordered>>

\* ... and asks Qdrant which of them it has; if too many are missing, none is
\* repaired.
ReconcileMissing ==
  /\ recon.pc = "read"
  /\ LET absent == {m \in Tenant : /\ recon.seen[m].state = "live"
                                   /\ points[recon.seen[m].coll][m] = NoPoint}
     IN  recon' = [recon EXCEPT !.pc = "missing",
                     !.missing = IF Cardinality(absent) > RepairLimit THEN {} ELSE absent]
  /\ UNCHANGED <<mem, outbox, issued, points, cycle, faults, applied, disordered>>

\* _remove_orphan_vectors: the points there are ...
ReconcileScroll ==
  /\ recon.pc = "missing"
  /\ recon' = [recon EXCEPT !.pc = "scrolled",
                 !.found = {x \in Collections \X Memories : points[x[1]][x[2]] # NoPoint}]
  /\ UNCHANGED <<mem, outbox, issued, points, cycle, faults, applied, disordered>>

\* Mutant: the vectors of archived memories are kept.
ReconcileCheckGone ==
  /\ recon.pc = "scrolled"
  /\ recon' = [recon EXCEPT !.pc = "checked", !.found = {},
                 !.orphans = {x \in recon.found : mem[x[2]].state = "gone"}]
  /\ UNCHANGED <<mem, outbox, issued, points, cycle, faults, applied, disordered>>

\* ... those whose memory is not live in the database ...
ReconcileCheck ==
  /\ recon.pc = "scrolled"
  /\ recon' = [recon EXCEPT !.pc = "checked", !.found = {},
                 !.orphans = {x \in recon.found : mem[x[2]].state # "live"}]
  /\ UNCHANGED <<mem, outbox, issued, points, cycle, faults, applied, disordered>>

\* ... are deleted from Qdrant at once.
ReconcileDelete ==
  /\ recon.pc = "checked"
  /\ points' = [p \in Places |-> [m \in Memories |->
                  IF <<p, m>> \in recon.orphans THEN NoPoint ELSE points[p][m]]]
  /\ disordered' = disordered \cup {m \in Memories : /\ \E p \in Collections : <<p, m>> \in recon.orphans
                                                     /\ mem[m].state = "live"}
  /\ recon' = [recon EXCEPT !.pc = "deleted", !.orphans = {}]
  /\ UNCHANGED <<mem, outbox, issued, cycle, faults, applied>>

\* The commit writes the repairs: upserts of the missing memories as they were
\* read at the beginning.
ReconcileCommit ==
  /\ recon.pc = "deleted"
  /\ LET k == Cardinality(recon.missing)
         repair(m) == Entry("upsert", m, recon.seen[m].coll, recon.seen[m].ver)
     IN  /\ issued + k <= MaxRows
         /\ issued' = issued + k
         /\ \E f \in [1..k -> recon.missing] :
              /\ \A m \in recon.missing : \E n \in 1..k : f[n] = m
              /\ outbox' = [r \in RowIds |-> IF r - issued \in 1..k THEN repair(f[r - issued])
                                             ELSE outbox[r]]
  /\ disordered' = disordered \cup {m \in recon.missing : mem[m] # recon.seen[m]}
  /\ recon' = NoRecon
  /\ UNCHANGED <<mem, points, cycle, faults, applied>>

\* Qdrant, the database or the worker fails: the repairs are rolled back.
ReconcileFails ==
  /\ recon # NoRecon
  /\ Fault("reconcile")
  /\ recon' = NoRecon
  /\ UNCHANGED <<mem, outbox, issued, points, cycle, applied, disordered>>

Reconcile ==
  \/ ReconcileRead \/ ReconcileMissing \/ ReconcileScroll \/ ReconcileCheck
  \/ ReconcileDelete \/ ReconcileCommit \/ ReconcileFails

Next == (\E m \in Memories : Operation(m)) \/ (\E c \in Cycles : Cycle(c)) \/ Reconcile

Spec == Init /\ [][Next]_vars

\* Beat schedules a cycle every five seconds and a reconciliation every night,
\* and a running one goes on; faults and operations on memories are not fair.
Steps(c) ==
  Select(c) \/ Claim(c) \/ NextChunk(c) \/ ApplyRow(c) \/ ChunkDone(c) \/ Commit(c)
Nightly ==
  \/ ReconcileRead \/ ReconcileMissing \/ ReconcileScroll \/ ReconcileCheck
  \/ ReconcileDelete \/ ReconcileCommit
FairSpec == /\ Spec /\ WF_vars(Nightly)
            /\ \A c \in Cycles : WF_vars(Steps(c))

------------------------------------------------------------------------------
(* Properties.                                                             *)

Held(c) == IF cycle[c].pc = "claimed"
           THEN cycle[c].left \cup cycle[c].chunk \cup cycle[c].done \cup cycle[c].bad
           ELSE {}

\* Overlapping cycles never work on the same row, and no other cycle can
\* select a row that is being worked on (_claim_outbox_row tests the status
\* again in its UPDATE, the SELECT that chose the row is only a hint).
ClaimedOnce ==
  \A c \in Cycles :
    /\ \A r \in Held(c) : outbox[r].status = "processing"
    /\ \A d \in Cycles : c # d => Held(c) \cap Held(d) = {}

\* Failing chunks, whoever ran them, charge each row at most MaxAttempts
\* times before it is given up, and the erasure of a passport owner's data is
\* never given up (_mark_rows_failed_or_pending).
AttemptsRespected ==
  \A r \in RowIds : outbox[r] # NoRow =>
    /\ outbox[r].privacy \/ outbox[r].attempts <= MaxAttempts
    /\ outbox[r].status = "failed" => ~outbox[r].privacy /\ outbox[r].attempts = MaxAttempts

\* What the index should hold for a memory.
InSync(m) ==
  IF mem[m].state = "live"
  THEN points[mem[m].coll][m] = [ver |-> mem[m].ver, archived |-> FALSE]
  ELSE LET p == points[mem[m].coll][m] IN p = NoPoint \/ p.archived

Unsettled(m) ==
  \E r \in RowIds : outbox[r] # NoRow /\ outbox[r].mem = m /\ outbox[r].status # "done"

\* The parts of the inductive invariant behind OnlyDisorderSpoils.  Rows are
\* written in order, and only written rows reach Qdrant; what a cycle has
\* marked done, it has applied.
Issued(r) == r \in RowIds /\ r <= issued
RowOf(r, m) == Issued(r) /\ outbox[r].mem = m
Newest(r, m) == RowOf(r, m) /\ \A q \in RowIds : RowOf(q, m) => q <= r

RowsInv ==
  /\ \A r \in RowIds : outbox[r] = NoRow <=> ~Issued(r)
  /\ \A r \in applied : Issued(r)
  /\ \A r \in RowIds : outbox[r].status = "done" => r \in applied
  /\ \A c \in Cycles :
       /\ cycle[c].pc # "idle" => \A r \in cycle[c].left : Issued(r)
       /\ cycle[c].pc = "selected" =>
            /\ cycle[c].chunk = {} /\ cycle[c].todo = {}
            /\ cycle[c].done = {} /\ cycle[c].bad = {}
       /\ cycle[c].pc = "claimed" =>
            /\ cycle[c].todo \subseteq cycle[c].chunk
            /\ cycle[c].chunk \ cycle[c].todo \subseteq applied
            /\ cycle[c].done \subseteq applied

\* The newest row of an orderly memory says what the memory is now ...
Describes(row, m) ==
  /\ row.coll = mem[m].coll
  /\ row.op = "upsert" <=> mem[m].state = "live"
  /\ row.op = "upsert" => row.ver = mem[m].ver

\* ... and once all its rows have been applied the index agrees.
Orderly(m) ==
  /\ \A r \in RowIds : Newest(r, m) => Describes(outbox[r], m)
  /\ (\A r \in RowIds : RowOf(r, m) => r \in applied) => InSync(m)

OrderInv ==
  /\ \A m \in Memories : m \notin disordered => Orderly(m)
  /\ recon.pc # "idle" => \A m \in recon.missing : recon.seen[m].state = "live"

\* Through retries, overlapping cycles, partial failures and reconciliation,
\* a memory whose rows are all done has the point its state calls for, unless
\* an older write reached Qdrant after a newer one, the row named another
\* collection, or the reconciliation acted on what it had read before.
OnlyDisorderSpoils ==
  \A m \in Memories : Unsettled(m) \/ m \in disordered \/ InSync(m)

\* Once the operations and the faults end, the index has a point for every
\* live tenant memory and none for the others, whatever happened before: rows
\* given up or stuck in processing, writes out of order, rows that named the
\* wrong collection.
IndexConverges ==
  <>[](\A m \in Tenant :
         IF mem[m].state = "live" THEN points[mem[m].coll][m] # NoPoint
         ELSE \A p \in Collections : points[p][m] = NoPoint)

================================================================================
