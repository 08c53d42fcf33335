--------------------------- MODULE VectorOutboxProofs ---------------------------
(***************************************************************************)
(* Proofs about VectorOutbox for every set of memories, collections and    *)
(* cycles and every batch, chunk and attempt bound; and about              *)
(* MemoryRetrieval, which reads the index that VectorOutbox keeps.         *)
(***************************************************************************)
EXTENDS VectorOutbox, MemoryRetrieval, FiniteSetTheorems, WellFoundedInduction, TLAPS

\* A cycle that is not idle has rows in its hands.
LEMMA Busy ==
  ASSUME TypeOK, NEW c \in Cycles, cycle[c].pc # "idle"
  PROVE  cycle[c] \in CycleStates
BY DEF TypeOK, NoCycle

LEMMA Written ==
  ASSUME TypeOK, NEW r \in RowIds, outbox[r].status # "none"
  PROVE  outbox[r] \in Entries
BY DEF TypeOK, NoRow

LEMMA Reconciling ==
  ASSUME TypeOK, recon.pc # "idle"
  PROVE  recon \in ReconStates
BY DEF TypeOK, NoRecon

LEMMA EntryType ==
  ASSUME NEW op \in Ops, NEW m \in Memories, NEW p \in Places, NEW v \in Nat
  PROVE  Entry(op, m, p, v) \in Entries /\ Entry(op, m, p, v) # NoRow
BY DEF Entry, Entries, NoRow, Ops

\* An operation on a memory keeps the types whatever row it writes.
LEMMA EnqueueType ==
  ASSUME TypeOK, NEW op \in Ops, NEW m \in Memories, NEW p \in Places, NEW v \in Nat,
         Enqueue(op, m, p, v), mem' \in [Memories -> MemStates], disordered' \subseteq Memories
  PROVE  TypeOK'
<1>1. issued + 1 \in RowIds /\ issued' \in 0..MaxRows
  BY OutboxAssumption DEF Enqueue, RowIds, TypeOK
<1>2. outbox' \in [RowIds -> Entries \cup {NoRow}]
  BY <1>1, EntryType DEF Enqueue, TypeOK
<1> QED BY <1>1, <1>2 DEF Enqueue, TypeOK

LEMMA RevisedType ==
  ASSUME TypeOK, NEW m \in Memories
  PROVE  Revised(m) \subseteq Nat
BY DEF TypeOK, MemStates, Revised

LEMMA OperationType ==
  ASSUME TypeOK, NEW m \in Memories, Operation(m)
  PROVE  TypeOK'
<1>0. /\ mem[m] \in MemStates /\ Default \in Places /\ Passport \in Places
      /\ Collections \subseteq Places /\ "upsert" \in Ops /\ "archive" \in Ops /\ "delete" \in Ops
      /\ 0 \in Nat /\ 1 \in Nat
  BY OutboxAssumption DEF TypeOK, Places, Ops
<1>1. CASE StoreMemory(m)
  <2>1. PICK p \in Places : /\ mem' = [mem EXCEPT ![m] = [state |-> "live", ver |-> 1, coll |-> p]]
                            /\ Enqueue("upsert", m, p, 1)
    BY <1>0, <1>1 DEF StoreMemory
  <2>2. mem' \in [Memories -> MemStates]
    BY <1>0, <2>1 DEF TypeOK, MemStates
  <2> QED BY <1>0, <1>1, <2>1, <2>2, EnqueueType DEF StoreMemory, TypeOK
<1>2. CASE UpdateMemory(m)
  <2>1. PICK p \in Places, v \in Nat :
          /\ mem' = [mem EXCEPT ![m] = [state |-> "live", ver |-> v, coll |-> p]]
          /\ Enqueue("upsert", m, p, v)
    BY <1>0, <1>2, RevisedType DEF UpdateMemory
  <2>2. mem' \in [Memories -> MemStates]
    BY <2>1 DEF TypeOK, MemStates
  <2> QED BY <1>0, <1>2, <2>1, <2>2, EnqueueType DEF UpdateMemory, TypeOK
<1>4. CASE ArchiveMemory(m)
  <2>1. PICK v \in Nat : mem' = [mem EXCEPT ![m] = [state |-> "archived", ver |-> v, coll |-> mem[m].coll]]
    BY <1>4, RevisedType DEF ArchiveMemory
  <2>2. mem' \in [Memories -> MemStates] /\ mem[m].coll \in Places
    BY <1>0, <2>1 DEF TypeOK, MemStates
  <2> QED BY <1>0, <1>4, <2>2, EnqueueType DEF ArchiveMemory, TypeOK
<1>3. CASE ArchiveStale(m) \/ SupersedeMemory(m)
  <2>0. [mem[m] EXCEPT !.state = "archived"] \in MemStates /\ mem[m].coll \in Places
    BY <1>0 DEF MemStates
  <2>1. mem' \in [Memories -> MemStates] /\ disordered' \subseteq Memories
    BY <1>3, <2>0 DEF ArchiveStale, SupersedeMemory, TypeOK
  <2>2. \E op \in Ops, p \in Places : Enqueue(op, m, p, 0)
    BY <1>0, <1>3, <2>0 DEF ArchiveStale, SupersedeMemory
  <2> QED BY <1>0, <2>1, <2>2, EnqueueType
<1>5. CASE EraseMemory(m)
  <2>1. mem' \in [Memories -> MemStates] /\ mem[m].coll \in Places
    BY <1>0, <1>5 DEF EraseMemory, TypeOK, MemStates
  <2>2. disordered' \subseteq Memories /\ \E p \in Places : Enqueue("delete", m, p, 0)
    BY <1>0, <1>5, <2>1 DEF EraseMemory, TypeOK
  <2> QED BY <1>0, <2>1, <2>2, EnqueueType
<1> QED BY <1>1, <1>2, <1>3, <1>4, <1>5 DEF Operation

LEMMA ReachType ==
  ASSUME TypeOK, NEW r \in RowIds, outbox[r] \in Entries, Reach(r)
  PROVE  /\ points' \in [Places -> [Memories -> Points]]
         /\ applied' \subseteq RowIds /\ disordered' \subseteq Memories
<1>1. outbox[r].coll \in Places /\ outbox[r].mem \in Memories /\ outbox[r].ver \in Nat
  BY DEF Entries
<1>2. \A x \in Points : Effect(outbox[r], x) \in Points
  BY <1>1 DEF Effect, Points, NoPoint, Entries, Ops
<1>3. points' \in [Places -> [Memories -> Points]]
  BY <1>1, <1>2 DEF Reach, TypeOK
<1> QED BY <1>1, <1>3 DEF Reach, TypeOK

------------------------------------------------------------------------------
(* Rows and cycles.                                                        *)

Base == TypeOK /\ RowsInv /\ ClaimedOnce

\* Rows are only added, and the cycles do not move.
Extends ==
  /\ UNCHANGED <<cycle, applied>>
  /\ issued' \in Nat /\ issued <= issued'
  /\ \A r \in RowIds : Issued(r) => outbox'[r] = outbox[r]
  /\ \A r \in RowIds : Issued(r)' /\ ~Issued(r) =>
       outbox'[r] \in Entries /\ outbox'[r].status = "pending"
  /\ \A r \in RowIds : ~Issued(r)' => outbox'[r] = NoRow

LEMMA HeldIssued ==
  ASSUME Base, NEW c \in Cycles, NEW r \in Held(c)
  PROVE  r \in RowIds /\ Issued(r) /\ outbox[r].status = "processing" /\ outbox[r] \in Entries
<1>1. r \in RowIds /\ outbox[r].status = "processing"
  BY Busy DEF Base, ClaimedOnce, Held, CycleStates
<1>2. outbox[r] # NoRow
  BY <1>1 DEF NoRow
<1> QED BY <1>1, <1>2, Written DEF Base, RowsInv

LEMMA ExtendsBase ==
  ASSUME Base, Extends, TypeOK'
  PROVE  Base'
<1>0. issued \in Nat /\ \A r \in RowIds : Issued(r) => Issued(r)'
  BY DEF Base, TypeOK, Extends, Issued, RowIds
<1>1. \A r \in RowIds : outbox'[r] = NoRow <=> ~Issued(r)'
  <2> TAKE r \in RowIds
  <2>1. CASE Issued(r)
    BY <1>0, <2>1 DEF Extends, Base, RowsInv
  <2>2. CASE ~Issued(r) /\ Issued(r)'
    BY <2>2 DEF Extends, NoRow
  <2>3. CASE ~Issued(r)'
    BY <2>3 DEF Extends
  <2> QED BY <2>1, <2>2, <2>3
<1>2. \A r \in RowIds : outbox'[r].status = "done" => r \in applied'
  <2> TAKE r \in RowIds
  <2>1. CASE Issued(r)
    BY <2>1 DEF Extends, Base, RowsInv
  <2>2. CASE ~Issued(r)
    BY <2>2 DEF Extends, NoRow
  <2> QED BY <2>1, <2>2
<1>3. RowsInv'
  <2>1. \A r \in applied' : Issued(r)'
    BY <1>0 DEF Extends, Base, RowsInv, Issued
  <2>2. \A c \in Cycles : cycle'[c].pc # "idle" => \A r \in cycle'[c].left : Issued(r)'
    BY <1>0 DEF Extends, Base, RowsInv, Issued
  <2> QED BY <1>1, <1>2, <2>1, <2>2 DEF RowsInv, Extends, Base
<1>4. ClaimedOnce'
  <2>1. \A c \in Cycles : Held(c)' = Held(c)
    BY DEF Held, Extends
  <2>2. \A c \in Cycles : \A r \in Held(c) : outbox'[r] = outbox[r]
    BY HeldIssued DEF Extends
  <2> QED BY <2>1, <2>2 DEF ClaimedOnce, Base
<1> QED BY <1>3, <1>4 DEF Base

LEMMA EnqueueExtends ==
  ASSUME Base, NEW op \in Ops, NEW m \in Memories, NEW p \in Places, NEW v \in Nat,
         Enqueue(op, m, p, v)
  PROVE  /\ Extends
         /\ issued' = issued + 1 /\ issued + 1 \in RowIds
         /\ outbox' = [outbox EXCEPT ![issued + 1] = Entry(op, m, p, v)]
<1>1. issued + 1 \in RowIds /\ issued \in Nat
  BY OutboxAssumption DEF Enqueue, RowIds, Base, TypeOK
<1>2. Entry(op, m, p, v) \in Entries /\ Entry(op, m, p, v).status = "pending"
  BY EntryType DEF Entry
<1>3. \A r \in RowIds : outbox'[r] = IF r = issued + 1 THEN Entry(op, m, p, v) ELSE outbox[r]
  BY <1>1 DEF Enqueue, Base, TypeOK
<1>4. \A r \in RowIds : /\ Issued(r) => r # issued + 1
                        /\ Issued(r)' /\ ~Issued(r) => r = issued + 1
                        /\ ~Issued(r)' => ~Issued(r) /\ r # issued + 1
  BY <1>1 DEF Issued, Enqueue, RowIds
<1> QED BY <1>1, <1>2, <1>3, <1>4 DEF Extends, Enqueue, Base, RowsInv

\* Every operation writes one row that describes the memory it leaves, or
\* marks the memory as disordered.
Writes(m, op, p, v) ==
  /\ Enqueue(op, m, p, v)
  /\ mem'[m].state # "none" /\ disordered \subseteq disordered'
  /\ \A n \in Memories : n # m => mem'[n] = mem[n] /\ (n \in disordered' => n \in disordered)
  /\ m \notin disordered' =>
       /\ p = mem'[m].coll
       /\ op = "upsert" <=> mem'[m].state = "live"
       /\ op = "upsert" => v = mem'[m].ver

LEMMA OperationWrites ==
  ASSUME TypeOK, NEW m \in Memories, Operation(m)
  PROVE  \E op \in Ops, p \in Places, v \in Nat : Writes(m, op, p, v)
<1>0. /\ mem[m] \in MemStates /\ Default \in Places /\ Passport \in Places
      /\ Collections \subseteq Places /\ "upsert" \in Ops /\ "archive" \in Ops /\ "delete" \in Ops
      /\ 0 \in Nat /\ 1 \in Nat /\ mem[m].coll \in Places /\ mem[m].ver \in Nat
      /\ mem[m].ver + 1 \in Nat
  BY OutboxAssumption DEF TypeOK, Places, Ops, MemStates
<1>1. CASE StoreMemory(m)
  <2>1. PICK p \in Places : /\ mem' = [mem EXCEPT ![m] = [state |-> "live", ver |-> 1, coll |-> p]]
                            /\ Enqueue("upsert", m, p, 1)
    BY <1>0, <1>1 DEF StoreMemory
  <2>2. Writes(m, "upsert", p, 1)
    BY <1>1, <2>1 DEF StoreMemory, Writes, TypeOK
  <2> QED BY <1>0, <2>2
<1>2. CASE UpdateMemory(m)
  <2>1. PICK p \in Places, v \in Nat :
          /\ mem' = [mem EXCEPT ![m] = [state |-> "live", ver |-> v, coll |-> p]]
          /\ Enqueue("upsert", m, p, v)
    BY <1>0, <1>2, RevisedType DEF UpdateMemory
  <2>2. Writes(m, "upsert", p, v)
    BY <1>2, <2>1 DEF UpdateMemory, Writes, TypeOK
  <2> QED BY <1>0, <2>2
<1>3. CASE ArchiveMemory(m)
  <2>1. PICK v \in Nat : mem' = [mem EXCEPT ![m] = [state |-> "archived", ver |-> v, coll |-> mem[m].coll]]
    BY <1>3, RevisedType DEF ArchiveMemory
  <2>2. Writes(m, "delete", mem[m].coll, 0)
    BY <1>3, <2>1 DEF ArchiveMemory, Writes, TypeOK
  <2> QED BY <1>0, <2>2
<1>4. CASE ArchiveStale(m)
  <2>1. mem'[m].coll = mem[m].coll /\ mem'[m].state = "archived"
    BY <1>0, <1>4 DEF ArchiveStale, TypeOK, MemStates
  <2>2. \A n \in Memories : n # m => mem'[n] = mem[n]
    BY <1>4 DEF ArchiveStale, TypeOK
  <2>3. Writes(m, "delete", Default, 0)
    BY <1>4, <2>1, <2>2 DEF ArchiveStale, Writes
  <2> QED BY <1>0, <2>3
<1>5. CASE SupersedeMemory(m)
  <2>1. Writes(m, "archive", mem[m].coll, 0)
    BY <1>0, <1>5 DEF SupersedeMemory, Writes, TypeOK, MemStates
  <2> QED BY <1>0, <2>1
<1>7. CASE EraseMemory(m)
  <2>1. mem'[m].coll = mem[m].coll /\ mem'[m].state = "gone"
    BY <1>0, <1>7 DEF EraseMemory, TypeOK, MemStates
  <2>2. \A n \in Memories : n # m => mem'[n] = mem[n]
    BY <1>7 DEF EraseMemory, TypeOK
  <2>3. PICK p \in Places : /\ Enqueue("delete", m, p, 0)
                            /\ disordered' = IF p = mem[m].coll THEN disordered
                                             ELSE disordered \cup {m}
    BY <1>0, <1>7 DEF EraseMemory
  <2>4. Writes(m, "delete", p, 0)
    BY <2>1, <2>2, <2>3 DEF Writes
  <2> QED BY <1>0, <2>4
<1> QED BY <1>1, <1>2, <1>3, <1>4, <1>5, <1>7 DEF Operation

\* The rows the reconciliation writes.
LEMMA CommitExtends ==
  ASSUME Base, ReconcileCommit
  PROVE  /\ Extends /\ TypeOK'
         /\ \A r \in RowIds : Issued(r)' /\ ~Issued(r) =>
              \E m \in recon.missing :
                outbox'[r] = Entry("upsert", m, recon.seen[m].coll, recon.seen[m].ver)
<1>0. recon \in ReconStates /\ issued \in Nat /\ issued \in 0..MaxRows /\ MaxRows \in Nat
  BY Reconciling, OutboxAssumption DEF Base, TypeOK, ReconcileCommit
<1>1. PICK k, f : /\ k = Cardinality(recon.missing)
                  /\ issued + k <= MaxRows /\ issued' = issued + k
                  /\ f \in [1..k -> recon.missing]
                  /\ outbox' = [r \in RowIds |->
                       IF r - issued \in 1..k
                       THEN Entry("upsert", f[r - issued], recon.seen[f[r - issued]].coll,
                                  recon.seen[f[r - issued]].ver)
                       ELSE outbox[r]]
  BY DEF ReconcileCommit
<1>2. k \in Nat
  <2>1. IsFiniteSet(recon.missing)
    BY <1>0, FS_Subset, OutboxAssumption DEF ReconStates
  <2> QED BY <1>1, <2>1, FS_CardinalityType
<1>3. \A r \in RowIds : r - issued \in 1..k =>
        \E m \in recon.missing :
          outbox'[r] = Entry("upsert", m, recon.seen[m].coll, recon.seen[m].ver)
  BY <1>1
<1>4. \A m \in recon.missing :
        /\ Entry("upsert", m, recon.seen[m].coll, recon.seen[m].ver) \in Entries
        /\ Entry("upsert", m, recon.seen[m].coll, recon.seen[m].ver).status = "pending"
  <2> TAKE m \in recon.missing
  <2>1. m \in Memories /\ recon.seen[m].coll \in Places /\ recon.seen[m].ver \in Nat
    BY <1>0 DEF ReconStates, MemStates
  <2>2. Entry("upsert", m, recon.seen[m].coll, recon.seen[m].ver).status = "pending"
    BY DEF Entry
  <2> QED BY <2>1, <2>2, EntryType DEF Ops
<1>5. \A r \in RowIds : /\ Issued(r)' /\ ~Issued(r) <=> r - issued \in 1..k
                        /\ Issued(r) => Issued(r)'
  BY <1>0, <1>1, <1>2 DEF Issued, RowIds
<1>6. \A r \in RowIds : Issued(r)' /\ ~Issued(r) =>
        \E m \in recon.missing :
          outbox'[r] = Entry("upsert", m, recon.seen[m].coll, recon.seen[m].ver)
  BY <1>3, <1>5
<1>7. \A r \in RowIds : Issued(r)' /\ ~Issued(r) =>
        outbox'[r] \in Entries /\ outbox'[r].status = "pending"
  BY <1>4, <1>6
<1>8. \A r \in RowIds : Issued(r) \/ ~Issued(r)' => outbox'[r] = outbox[r]
  BY <1>1, <1>5
<1>9. Extends
  BY <1>0, <1>1, <1>2, <1>5, <1>7, <1>8 DEF Extends, ReconcileCommit, Base, RowsInv
<1>10. outbox' \in [RowIds -> Entries \cup {NoRow}]
  <2>1. \A r \in RowIds : outbox'[r] \in Entries \cup {NoRow}
    BY <1>7, <1>8 DEF Base, TypeOK
  <2>2. outbox' = [r \in RowIds |-> outbox'[r]]
    BY <1>1
  <2> QED BY <2>1, <2>2
<1>11. TypeOK'
  BY <1>0, <1>1, <1>2, <1>10 DEF Base, TypeOK, ReconcileCommit, ReconStates
<1> QED BY <1>6, <1>9, <1>11

\* A step of one cycle that leaves the rows alone.
CycleMoves(c) ==
  /\ UNCHANGED <<outbox, issued>>
  /\ \A d \in Cycles : d # c => cycle'[d] = cycle[d]
  /\ applied \subseteq applied' /\ \A r \in applied' : Issued(r)
  /\ Held(c)' \subseteq Held(c)
  /\ cycle'[c].pc # "idle" => \A r \in cycle'[c].left : Issued(r)
  /\ cycle'[c].pc = "selected" =>
       /\ cycle'[c].chunk = {} /\ cycle'[c].todo = {}
       /\ cycle'[c].done = {} /\ cycle'[c].bad = {}
  /\ cycle'[c].pc = "claimed" =>
       /\ cycle'[c].todo \subseteq cycle'[c].chunk
       /\ cycle'[c].chunk \ cycle'[c].todo \subseteq applied'
       /\ cycle'[c].done \subseteq applied'

LEMMA CycleFrame ==
  ASSUME Base, NEW c \in Cycles, TypeOK', CycleMoves(c)
  PROVE  Base'
<1>1. \A r \in RowIds : Issued(r)' <=> Issued(r)
  BY DEF Issued, CycleMoves
<1>2. \A r : Issued(r) => Issued(r)'
  BY DEF Issued, CycleMoves
<1>3. RowsInv'
  <2>1. /\ \A r \in RowIds : outbox'[r] = NoRow <=> ~Issued(r)'
        /\ \A r \in applied' : Issued(r)'
        /\ \A r \in RowIds : outbox'[r].status = "done" => r \in applied'
    BY <1>1, <1>2 DEF Base, RowsInv, CycleMoves
  <2>2. ASSUME NEW d \in Cycles
        PROVE  /\ cycle'[d].pc # "idle" => \A r \in cycle'[d].left : Issued(r)'
               /\ cycle'[d].pc = "selected" =>
                    /\ cycle'[d].chunk = {} /\ cycle'[d].todo = {}
                    /\ cycle'[d].done = {} /\ cycle'[d].bad = {}
               /\ cycle'[d].pc = "claimed" =>
                    /\ cycle'[d].todo \subseteq cycle'[d].chunk
                    /\ cycle'[d].chunk \ cycle'[d].todo \subseteq applied'
                    /\ cycle'[d].done \subseteq applied'
    <3>1. CASE d = c
      BY <1>2, <3>1 DEF CycleMoves
    <3>2. CASE d # c
      <4>1. cycle'[d] = cycle[d]
        BY <3>2 DEF CycleMoves
      <4> QED BY <1>2, <4>1 DEF Base, RowsInv, CycleMoves
    <3> QED BY <3>1, <3>2
  <2> QED BY <2>1, <2>2 DEF RowsInv
<1>4. ClaimedOnce'
  <2>1. \A d \in Cycles : Held(d)' \subseteq Held(d)
    BY DEF Held, CycleMoves
  <2> QED BY <2>1 DEF ClaimedOnce, Base, CycleMoves
<1> QED BY <1>3, <1>4 DEF Base

LEMMA SelectBase ==
  ASSUME Base, NEW c \in Cycles, Select(c)
  PROVE  Base'
<1>1. PICK S \in SUBSET RowIds : /\ cycle' = [cycle EXCEPT ![c] = Fresh(S)]
                                 /\ \A r \in S : outbox[r].status = "pending"
  BY DEF Select, Oldest, Pending
<1>2. /\ Fresh(S) \in CycleStates /\ Fresh(S).pc = "selected" /\ Fresh(S).left = S
      /\ Fresh(S).chunk = {} /\ Fresh(S).todo = {} /\ Fresh(S).done = {} /\ Fresh(S).bad = {}
  BY DEF Fresh, CycleStates
<1>3. cycle'[c] = Fresh(S) /\ \A d \in Cycles : d # c => cycle'[d] = cycle[d]
  BY <1>1 DEF Base, TypeOK
<1>4. TypeOK'
  BY <1>1, <1>2 DEF Select, Base, TypeOK
<1>5. \A r \in S : Issued(r)
  BY <1>1 DEF Base, RowsInv, NoRow
<1>6. Held(c)' \subseteq Held(c)
  BY <1>2, <1>3 DEF Held
<1>7. CycleMoves(c)
  BY <1>2, <1>3, <1>4, <1>5, <1>6 DEF CycleMoves, Select, Base, RowsInv
<1> QED BY <1>4, <1>7, CycleFrame

LEMMA ClaimBase ==
  ASSUME Base, NEW c \in Cycles, Claim(c)
  PROVE  Base'
<1>0. cycle[c] \in CycleStates /\ cycle[c].pc = "selected"
  BY Busy DEF Base, Claim
<1>1. PICK rows \in SUBSET RowIds :
        /\ \A r \in rows : outbox[r].status = "pending"
        /\ ClaimRows(c, rows)
  BY <1>0 DEF Claim, Pending, CycleStates
<1>2. \A r \in rows : /\ outbox[r] \in Entries
                      /\ [outbox[r] EXCEPT !.status = "processing",
                                           !.attempts = outbox[r].attempts + 1] \in Entries
  <2> TAKE r \in rows
  <2>1. outbox[r] \in Entries
    BY <1>1, Written DEF Base
  <2>2. outbox[r].attempts + 1 \in Nat
    BY <2>1 DEF Entries
  <2> QED BY <2>1, <2>2 DEF Entries
<1>3. \A r \in RowIds :
        /\ r \notin rows => outbox'[r] = outbox[r]
        /\ r \in rows => outbox'[r].status = "processing" /\ outbox'[r] \in Entries
  BY <1>1, <1>2 DEF ClaimRows, Entries
<1>4. [cycle[c] EXCEPT !.pc = "claimed", !.left = rows] \in CycleStates
  BY <1>0 DEF CycleStates
<1>5. TypeOK'
  <2>1. outbox' \in [RowIds -> Entries \cup {NoRow}]
    BY <1>1, <1>3 DEF ClaimRows, Base, TypeOK
  <2>2. cycle' \in [Cycles -> CycleStates \cup {NoCycle}]
    BY <1>1, <1>4 DEF ClaimRows, Base, TypeOK
  <2> QED BY <1>1, <2>1, <2>2 DEF ClaimRows, Base, TypeOK
<1>6. /\ \A d \in Cycles : d # c => cycle'[d] = cycle[d]
      /\ cycle'[c] = IF rows = {} THEN NoCycle
                     ELSE [cycle[c] EXCEPT !.pc = "claimed", !.left = rows]
  BY <1>1 DEF ClaimRows, Base, TypeOK
<1>7. /\ cycle'[c].pc # "selected"
      /\ cycle'[c].pc # "idle" => cycle'[c].left = rows
      /\ cycle'[c].pc = "claimed" => /\ cycle'[c].chunk = {} /\ cycle'[c].done = {}
                                     /\ cycle'[c].bad = {} /\ cycle'[c].left = rows
                                     /\ cycle'[c].todo = {}
  BY <1>0, <1>6 DEF NoCycle, Base, RowsInv, CycleStates
<1>8. \A r \in RowIds : Issued(r)' <=> Issued(r)
  BY <1>1 DEF Issued, ClaimRows
<1>9. \A r \in rows : Issued(r)
  BY <1>1 DEF Base, RowsInv, NoRow
<1>10. RowsInv'
  <2>1. \A r \in RowIds : outbox'[r] = NoRow <=> ~Issued(r)'
    BY <1>3, <1>8, <1>9 DEF Base, RowsInv, NoRow
  <2>2. /\ \A r \in applied' : Issued(r)'
        /\ \A r \in RowIds : outbox'[r].status = "done" => r \in applied'
    BY <1>1, <1>3, <1>8 DEF Base, RowsInv, ClaimRows, TypeOK
  <2>3. ASSUME NEW d \in Cycles
        PROVE  /\ cycle'[d].pc # "idle" => \A r \in cycle'[d].left : Issued(r)'
               /\ cycle'[d].pc = "selected" =>
                    /\ cycle'[d].chunk = {} /\ cycle'[d].todo = {}
                    /\ cycle'[d].done = {} /\ cycle'[d].bad = {}
               /\ cycle'[d].pc = "claimed" =>
                    /\ cycle'[d].todo \subseteq cycle'[d].chunk
                    /\ cycle'[d].chunk \ cycle'[d].todo \subseteq applied'
                    /\ cycle'[d].done \subseteq applied'
    <3>1. CASE d = c
      BY <1>7, <1>8, <1>9, <3>1
    <3>2. CASE d # c
      <4>1. cycle'[d] = cycle[d] /\ applied' = applied
        BY <1>1, <1>6, <3>2 DEF ClaimRows
      <4>2. cycle[d].pc # "idle" => cycle[d].left \subseteq RowIds
        BY Busy DEF Base, CycleStates
      <4> QED BY <1>8, <4>1, <4>2 DEF Base, RowsInv
    <3> QED BY <3>1, <3>2
  <2> QED BY <2>1, <2>2, <2>3 DEF RowsInv
<1>11. ClaimedOnce'
  <2>1. Held(c)' \subseteq rows
    BY <1>7 DEF Held
  <2>2. \A d \in Cycles : d # c => Held(d)' = Held(d)
    BY <1>6 DEF Held
  <2>3. \A d \in Cycles : \A r \in Held(d) : r \in RowIds /\ r \notin rows
    BY <1>1, HeldIssued
  <2> QED BY <1>1, <1>3, <2>1, <2>2, <2>3 DEF ClaimedOnce, Base
<1> QED BY <1>5, <1>10, <1>11 DEF Base

\* A claimed cycle that changes only its own record.
LEMMA NextChunkBase ==
  ASSUME Base, NEW c \in Cycles, NextChunk(c)
  PROVE  Base'
<1>0. cycle[c] \in CycleStates /\ cycle[c].pc = "claimed"
  BY Busy DEF Base, NextChunk
<1>1. PICK rows \in SUBSET cycle[c].left :
        cycle' = [cycle EXCEPT ![c] = [cycle[c] EXCEPT !.left = cycle[c].left \ rows,
                                                       !.chunk = rows, !.todo = rows]]
  BY DEF NextChunk, Oldest, Of
<1>2. /\ \A d \in Cycles : d # c => cycle'[d] = cycle[d]
      /\ cycle'[c] = [cycle[c] EXCEPT !.left = cycle[c].left \ rows,
                                      !.chunk = rows, !.todo = rows]
  BY <1>1 DEF Base, TypeOK
<1>3. /\ cycle'[c] \in CycleStates /\ cycle'[c].pc = "claimed"
      /\ cycle'[c].left = cycle[c].left \ rows /\ cycle'[c].chunk = rows /\ cycle'[c].todo = rows
      /\ cycle'[c].done = cycle[c].done /\ cycle'[c].bad = cycle[c].bad
  BY <1>0, <1>2 DEF CycleStates
<1>4. TypeOK'
  BY <1>1, <1>2, <1>3 DEF NextChunk, Base, TypeOK
<1>5. Held(c)' \subseteq Held(c)
  BY <1>0, <1>3 DEF Held
<1>6. /\ \A r \in applied' : Issued(r)
      /\ \A r \in cycle'[c].left : Issued(r)
      /\ cycle'[c].done \subseteq applied'
  BY <1>0, <1>3 DEF Base, RowsInv, NextChunk
<1>7. UNCHANGED <<outbox, issued, applied>>
  BY DEF NextChunk
<1>8. /\ cycle'[c].todo \subseteq cycle'[c].chunk
      /\ cycle'[c].chunk \ cycle'[c].todo \subseteq applied'
  BY <1>3
<1>9. CycleMoves(c)
  BY <1>2, <1>3, <1>4, <1>5, <1>6, <1>7, <1>8 DEF CycleMoves
<1> QED BY <1>4, <1>9, CycleFrame

LEMMA ChunkDoneBase ==
  ASSUME Base, NEW c \in Cycles, ChunkDone(c)
  PROVE  Base'
<1>0. cycle[c] \in CycleStates /\ cycle[c].pc = "claimed"
  BY Busy DEF Base, ChunkDone
<1>1. /\ \A d \in Cycles : d # c => cycle'[d] = cycle[d]
      /\ cycle'[c] = [cycle[c] EXCEPT !.done = cycle[c].done \cup cycle[c].chunk, !.chunk = {}]
  BY DEF ChunkDone, Base, TypeOK
<1>2. /\ cycle'[c] \in CycleStates /\ cycle'[c].pc = "claimed"
      /\ cycle'[c].left = cycle[c].left /\ cycle'[c].chunk = {} /\ cycle'[c].todo = cycle[c].todo
      /\ cycle'[c].done = cycle[c].done \cup cycle[c].chunk /\ cycle'[c].bad = cycle[c].bad
  BY <1>0, <1>1 DEF CycleStates
<1>3. TypeOK'
  BY <1>2 DEF ChunkDone, Base, TypeOK
<1>4. Held(c)' \subseteq Held(c)
  BY <1>0, <1>2 DEF Held
<1>5. /\ \A r \in applied' : Issued(r)
      /\ \A r \in cycle'[c].left : Issued(r)
      /\ cycle'[c].done \subseteq applied' /\ cycle'[c].todo = {}
  BY <1>0, <1>2 DEF Base, RowsInv, ChunkDone
<1>6. CycleMoves(c)
  BY <1>1, <1>2, <1>3, <1>4, <1>5 DEF CycleMoves, ChunkDone
<1> QED BY <1>3, <1>6, CycleFrame

\* A call to Qdrant by a claimed cycle concerns a row it holds.
LEMMA FirstHeld ==
  ASSUME Base, NEW c \in Cycles, cycle[c].pc = "claimed", NEW r \in RowIds, First(c, r)
  PROVE  r \in Held(c) /\ Issued(r) /\ outbox[r] \in Entries
<1>1. r \in Held(c)
  BY DEF Base, RowsInv, First, Held
<1> QED BY <1>1, HeldIssued

LEMMA ApplyRowBase ==
  ASSUME Base, NEW c \in Cycles, ApplyRow(c)
  PROVE  Base'
<1>0. cycle[c] \in CycleStates /\ cycle[c].pc = "claimed"
  BY Busy DEF Base, ApplyRow
<1>1. PICK r \in RowIds : /\ First(c, r) /\ Reach(r)
                          /\ cycle' = [cycle EXCEPT ![c] =
                               [cycle[c] EXCEPT !.todo = cycle[c].todo \ {r}]]
  BY DEF ApplyRow
<1>2. Issued(r) /\ outbox[r] \in Entries
  BY <1>0, <1>1, FirstHeld
<1>3. /\ \A d \in Cycles : d # c => cycle'[d] = cycle[d]
      /\ cycle'[c] = [cycle[c] EXCEPT !.todo = cycle[c].todo \ {r}]
  BY <1>1 DEF Base, TypeOK
<1>4. /\ cycle'[c] \in CycleStates /\ cycle'[c].pc = "claimed"
      /\ cycle'[c].left = cycle[c].left /\ cycle'[c].chunk = cycle[c].chunk
      /\ cycle'[c].todo = cycle[c].todo \ {r}
      /\ cycle'[c].done = cycle[c].done /\ cycle'[c].bad = cycle[c].bad
  BY <1>0, <1>3 DEF CycleStates
<1>5. TypeOK'
  <2>1. cycle' \in [Cycles -> CycleStates \cup {NoCycle}]
    BY <1>1, <1>3, <1>4 DEF Base, TypeOK
  <2> QED BY <1>1, <1>2, <2>1, ReachType DEF ApplyRow, Base, TypeOK
<1>6. Held(c)' \subseteq Held(c)
  BY <1>0, <1>4 DEF Held
<1>7. applied' = applied \cup {r}
  BY <1>1 DEF Reach
<1>8. /\ \A q \in applied' : Issued(q)
      /\ \A q \in cycle'[c].left : Issued(q)
      /\ cycle'[c].done \subseteq applied' /\ cycle'[c].todo \subseteq cycle'[c].chunk
      /\ cycle'[c].chunk \ cycle'[c].todo \subseteq applied'
  BY <1>0, <1>2, <1>4, <1>7 DEF Base, RowsInv
<1>9. CycleMoves(c)
  BY <1>3, <1>4, <1>5, <1>6, <1>7, <1>8 DEF CycleMoves, ApplyRow
<1> QED BY <1>5, <1>9, CycleFrame

LEMMA ChunkFailedBase ==
  ASSUME Base, NEW c \in Cycles, ChunkFailed(c)
  PROVE  Base'
<1>0. cycle[c] \in CycleStates /\ cycle[c].pc = "claimed"
  BY Busy DEF Base, ChunkFailed, CallFails
<1>1. PICK r \in RowIds : /\ First(c, r)
                          /\ Reach(r) \/ UNCHANGED <<points, applied, disordered>>
                          /\ faults' \in 0..MaxFaults
  BY OutboxAssumption DEF ChunkFailed, CallFails, Fault, Base, TypeOK
<1>2. Issued(r) /\ outbox[r] \in Entries
  BY <1>0, <1>1, FirstHeld
<1>3. /\ \A d \in Cycles : d # c => cycle'[d] = cycle[d]
      /\ cycle'[c] = [cycle[c] EXCEPT !.bad = cycle[c].bad \cup cycle[c].chunk,
                                      !.chunk = {}, !.todo = {}]
  BY DEF ChunkFailed, Base, TypeOK
<1>4. /\ cycle'[c] \in CycleStates /\ cycle'[c].pc = "claimed"
      /\ cycle'[c].left = cycle[c].left /\ cycle'[c].chunk = {} /\ cycle'[c].todo = {}
      /\ cycle'[c].done = cycle[c].done /\ cycle'[c].bad = cycle[c].bad \cup cycle[c].chunk
  BY <1>0, <1>3 DEF CycleStates
<1>5. TypeOK'
  <2>1. cycle' \in [Cycles -> CycleStates \cup {NoCycle}]
    BY <1>3, <1>4 DEF ChunkFailed, Base, TypeOK
  <2>2. /\ points' \in [Places -> [Memories -> Points]]
        /\ applied' \subseteq RowIds /\ disordered' \subseteq Memories
    BY <1>1, <1>2, ReachType DEF Base, TypeOK
  <2> QED BY <1>1, <2>1, <2>2 DEF ChunkFailed, CallFails, Base, TypeOK
<1>6. Held(c)' \subseteq Held(c)
  BY <1>0, <1>4 DEF Held
<1>7. applied \subseteq applied' /\ applied' \subseteq applied \cup {r}
  BY <1>1 DEF Reach
<1>8. /\ \A q \in applied' : Issued(q)
      /\ \A q \in cycle'[c].left : Issued(q)
      /\ cycle'[c].done \subseteq applied'
  BY <1>0, <1>2, <1>4, <1>7 DEF Base, RowsInv
<1>9. UNCHANGED <<outbox, issued>>
  BY DEF ChunkFailed, CallFails
<1>10. /\ cycle'[c].todo \subseteq cycle'[c].chunk
       /\ cycle'[c].chunk \ cycle'[c].todo \subseteq applied'
  BY <1>4
<1>11. CycleMoves(c)
  BY <1>3, <1>4, <1>5, <1>6, <1>7, <1>8, <1>9, <1>10 DEF CycleMoves
<1> QED BY <1>5, <1>11, CycleFrame

LEMMA CrashBase ==
  ASSUME Base, NEW c \in Cycles, CycleCrash(c)
  PROVE  Base'
<1>1. /\ \A d \in Cycles : d # c => cycle'[d] = cycle[d]
      /\ cycle'[c] = NoCycle /\ NoCycle.pc = "idle"
  BY DEF CycleCrash, Base, TypeOK, NoCycle
<1>2. TypeOK'
  BY OutboxAssumption DEF CycleCrash, Fault, Base, TypeOK
<1>3. Held(c)' \subseteq Held(c)
  BY <1>1 DEF Held
<1>4. \A r \in applied' : Issued(r)
  BY DEF CycleCrash, Base, RowsInv
<1>5. CycleMoves(c)
  BY <1>1, <1>2, <1>3, <1>4 DEF CycleMoves, CycleCrash
<1> QED BY <1>2, <1>5, CycleFrame

LEMMA CommitBase ==
  ASSUME Base, NEW c \in Cycles, Commit(c)
  PROVE  Base'
<1>0. cycle[c] \in CycleStates /\ cycle[c].pc = "claimed"
  BY Busy DEF Base, Commit
<1>1. /\ \A d \in Cycles : d # c => cycle'[d] = cycle[d]
      /\ cycle'[c] = NoCycle /\ NoCycle.pc = "idle"
  BY DEF Commit, Base, TypeOK, NoCycle
<1>2. \A r \in cycle[c].done \cup cycle[c].bad :
        r \in RowIds /\ r \in Held(c) /\ Issued(r) /\ outbox[r] \in Entries
  BY <1>0, HeldIssued DEF Held
<1>3. ASSUME NEW r \in RowIds
      PROVE  /\ r \notin cycle[c].done \cup cycle[c].bad => outbox'[r] = outbox[r]
             /\ r \in cycle[c].done \cup cycle[c].bad => outbox'[r] \in Entries
             /\ r \in cycle[c].bad \ cycle[c].done => outbox'[r].status # "done"
  BY <1>2 DEF Commit, Entries
<1>4. TypeOK'
  <2>1. outbox' \in [RowIds -> Entries \cup {NoRow}]
    BY <1>3 DEF Commit, Base, TypeOK
  <2> QED BY <2>1 DEF Commit, Base, TypeOK
<1>5. \A r \in RowIds : Issued(r)' <=> Issued(r)
  BY DEF Issued, Commit
<1>6. RowsInv'
  <2>1. \A r \in RowIds : outbox'[r] = NoRow <=> ~Issued(r)'
    BY <1>2, <1>3, <1>5 DEF Base, RowsInv, NoRow, Entries
  <2>2. /\ applied' = applied /\ applied \subseteq RowIds
        /\ \A r \in applied' : Issued(r)'
    BY <1>5 DEF Base, RowsInv, Commit, TypeOK
  <2>3. \A r \in RowIds : outbox'[r].status = "done" => r \in applied'
    BY <1>0, <1>3, <2>2 DEF Base, RowsInv
  <2>4. ASSUME NEW d \in Cycles, d # c
        PROVE  /\ cycle'[d] = cycle[d]
               /\ cycle[d].pc # "idle" => \A r \in cycle[d].left : Issued(r)'
    <3>1. cycle[d].pc # "idle" => cycle[d].left \subseteq RowIds
      BY Busy DEF Base, CycleStates
    <3> QED BY <1>1, <1>5, <2>4, <3>1 DEF Base, RowsInv
  <2> QED BY <1>1, <2>1, <2>2, <2>3, <2>4 DEF Base, RowsInv
<1>7. ClaimedOnce'
  <2>1. Held(c)' = {} /\ \A d \in Cycles : d # c => Held(d)' = Held(d)
    BY <1>1 DEF Held
  <2>2. ASSUME NEW d \in Cycles, d # c, NEW r \in Held(d)
        PROVE  outbox'[r].status = "processing"
    <3>1. r \in RowIds /\ r \notin Held(c) /\ outbox[r].status = "processing"
      BY <2>2, HeldIssued DEF Base, ClaimedOnce
    <3> QED BY <1>2, <1>3, <3>1
  <2> QED BY <2>1, <2>2 DEF ClaimedOnce, Base
<1> QED BY <1>4, <1>6, <1>7 DEF Base


\* A step that leaves the rows and the cycles alone.
LEMMA SameRows ==
  ASSUME Base, TypeOK', UNCHANGED <<outbox, issued, cycle, applied>>
  PROVE  Base'
<1>1. \A r : Issued(r)' <=> Issued(r)
  BY DEF Issued
<1>2. \A c : Held(c)' = Held(c)
  BY DEF Held
<1> QED BY <1>1, <1>2 DEF Base, RowsInv, ClaimedOnce

LEMMA ReconcileBase ==
  ASSUME Base, Reconcile
  PROVE  Base'
<1>1. CASE ReconcileCommit
  BY <1>1, CommitExtends, ExtendsBase
<1>2. CASE ReconcileRead
  <2>1. recon' \in ReconStates
    BY <1>2 DEF ReconcileRead, ReconStates, Base, TypeOK
  <2> QED BY <1>2, <2>1, SameRows DEF ReconcileRead, Base, TypeOK
<1>3. CASE ReconcileMissing
  <2>0. recon \in ReconStates
    BY <1>3, Reconciling DEF ReconcileMissing, Base
  <2>1. PICK S \in SUBSET Memories : recon' = [recon EXCEPT !.pc = "missing", !.missing = S]
    BY <1>3 DEF ReconcileMissing, Tenant
  <2>2. recon' \in ReconStates
    BY <2>0, <2>1 DEF ReconStates
  <2> QED BY <1>3, <2>2, SameRows DEF ReconcileMissing, Base, TypeOK
<1>4. CASE ReconcileScroll
  <2>0. recon \in ReconStates
    BY <1>4, Reconciling DEF ReconcileScroll, Base
  <2>1. PICK S \in SUBSET (Collections \X Memories) :
          recon' = [recon EXCEPT !.pc = "scrolled", !.found = S]
    BY <1>4 DEF ReconcileScroll
  <2>2. recon' \in ReconStates
    BY <2>0, <2>1 DEF ReconStates
  <2> QED BY <1>4, <2>2, SameRows DEF ReconcileScroll, Base, TypeOK
<1>5. CASE ReconcileCheck
  <2>0. recon \in ReconStates
    BY <1>5, Reconciling DEF ReconcileCheck, Base
  <2>1. PICK S \in SUBSET recon.found :
          recon' = [recon EXCEPT !.pc = "checked", !.found = {}, !.orphans = S]
    BY <1>5 DEF ReconcileCheck
  <2>2. recon' \in ReconStates
    BY <2>0, <2>1 DEF ReconStates
  <2> QED BY <1>5, <2>2, SameRows DEF ReconcileCheck, Base, TypeOK
<1>6. CASE ReconcileDelete
  <2>0. recon \in ReconStates
    BY <1>6, Reconciling DEF ReconcileDelete, Base
  <2>1. recon' \in ReconStates
    BY <1>6, <2>0 DEF ReconcileDelete, ReconStates
  <2>2. points' \in [Places -> [Memories -> Points]]
    BY <1>6 DEF ReconcileDelete, Base, TypeOK, Points, NoPoint
  <2> QED BY <1>6, <2>1, <2>2, SameRows DEF ReconcileDelete, Base, TypeOK
<1>7. CASE ReconcileFails
  BY <1>7, SameRows, OutboxAssumption DEF ReconcileFails, Fault, Base, TypeOK
<1> QED BY <1>1, <1>2, <1>3, <1>4, <1>5, <1>6, <1>7 DEF Reconcile

LEMMA BaseInit == Init => Base
<1> SUFFICES ASSUME Init PROVE Base
  OBVIOUS
<1>1. issued = 0 /\ \A r \in RowIds : ~Issued(r) /\ outbox[r] = NoRow
  BY DEF Init, Issued, RowIds
<1>2. \A c \in Cycles : cycle[c] = NoCycle /\ NoCycle.pc = "idle"
  BY DEF Init, NoCycle
<1>3. TypeOK
  <2>1. mem \in [Memories -> MemStates]
    BY OutboxAssumption DEF Init, MemStates, Places
  <2>2. points \in [Places -> [Memories -> Points]]
    BY DEF Init, NoPoint, Points
  <2> QED BY <2>1, <2>2, OutboxAssumption DEF Init, TypeOK
<1>4. RowsInv
  BY <1>1, <1>2 DEF RowsInv, Init, NoRow
<1>5. ClaimedOnce
  BY <1>2 DEF ClaimedOnce, Held
<1> QED BY <1>3, <1>4, <1>5 DEF Base

LEMMA BaseNext ==
  ASSUME Base, [Next]_vars
  PROVE  Base'
<1>1. ASSUME NEW m \in Memories, Operation(m)
      PROVE  Base'
  <2>1. TypeOK'
    BY <1>1, OperationType DEF Base
  <2>2. Extends
    BY <1>1, OperationWrites, EnqueueExtends DEF Base, Writes
  <2> QED BY <2>1, <2>2, ExtendsBase
<1>2. ASSUME NEW c \in Cycles, Cycle(c)
      PROVE  Base'
  BY <1>2, SelectBase, ClaimBase, NextChunkBase, ApplyRowBase, ChunkDoneBase, ChunkFailedBase,
     CommitBase, CrashBase DEF Cycle
<1>3. CASE Reconcile
  BY <1>3, ReconcileBase
<1>4. CASE UNCHANGED vars
  BY <1>4, SameRows DEF vars, Base, TypeOK
<1> QED BY <1>1, <1>2, <1>3, <1>4 DEF Next

LEMMA BaseAlways == Spec => []Base
BY BaseInit, BaseNext, PTL DEF Spec

\* The outbox, the cycles and the reconciliation keep their types: the code's
\* status values and counters, for any memories, collections and bounds.
THEOREM TypeCorrect == Spec => []TypeOK
BY BaseAlways, PTL DEF Base

\* Overlapping run_outbox_cycle executions never hold the same row, whatever
\* crashes and retries happen (the status test in _claim_outbox_row).
THEOREM ExclusiveClaims == Spec => []ClaimedOnce
BY BaseAlways, PTL DEF Base

------------------------------------------------------------------------------
(* Attempts.                                                               *)

\* A pending row has an attempt left, unless it may be tried for ever.
Charged(row) ==
  /\ row.privacy \/ row.attempts <= MaxAttempts
  /\ row.status = "pending" => row.privacy \/ row.attempts < MaxAttempts
  /\ row.status = "failed" => ~row.privacy /\ row.attempts = MaxAttempts

AllCharged == \A r \in RowIds : outbox[r] # NoRow => Charged(outbox[r])

LEMMA NewRowCharged ==
  ASSUME NEW op, NEW m, NEW p, NEW v
  PROVE  Charged(Entry(op, m, p, v))
BY OutboxAssumption DEF Charged, Entry

LEMMA ChargedNext ==
  ASSUME Base, AllCharged, [Next]_vars
  PROVE  AllCharged'
<1>1. ASSUME NEW m \in Memories, Operation(m)
      PROVE  AllCharged'
  <2>1. PICK op \in Ops, p \in Places, v \in Nat :
          /\ outbox' = [outbox EXCEPT ![issued + 1] = Entry(op, m, p, v)]
          /\ issued + 1 \in RowIds
    BY <1>1, OperationWrites, EnqueueExtends DEF Base, Writes
  <2>2. \A r \in RowIds : outbox'[r] = IF r = issued + 1 THEN Entry(op, m, p, v) ELSE outbox[r]
    BY <2>1 DEF Base, TypeOK
  <2> QED BY <2>2, NewRowCharged DEF AllCharged
<1>2. CASE ReconcileCommit
  <2>1. \A r \in RowIds : \/ outbox'[r] = outbox[r] \/ outbox'[r] = NoRow
                          \/ Charged(outbox'[r])
    BY <1>2, CommitExtends, NewRowCharged DEF Extends
  <2> QED BY <2>1 DEF AllCharged
<1>3. ASSUME NEW c \in Cycles, Claim(c)
      PROVE  AllCharged'
  <2>1. PICK rows : ClaimRows(c, rows) /\ \A r \in rows : outbox[r].status = "pending"
    BY <1>3 DEF Claim, Pending
  <2>2. ASSUME NEW r \in RowIds, r \in rows
        PROVE  Charged(outbox'[r])
    <3>1. outbox[r] \in Entries /\ outbox[r] # NoRow /\ outbox[r].status = "pending"
      BY <2>1, <2>2, Written DEF Base, NoRow
    <3>2. outbox'[r] = [outbox[r] EXCEPT !.status = "processing",
                                         !.attempts = outbox[r].attempts + 1]
      BY <2>1, <2>2 DEF ClaimRows
    <3>3. /\ outbox'[r].status = "processing" /\ outbox'[r].privacy = outbox[r].privacy
          /\ outbox'[r].attempts = outbox[r].attempts + 1 /\ outbox[r].attempts \in Nat
      BY <3>1, <3>2 DEF Entries
    <3>4. outbox[r].privacy \/ outbox[r].attempts < MaxAttempts
      BY <3>1 DEF AllCharged, Charged
    <3> QED BY <3>3, <3>4, OutboxAssumption DEF Charged
  <2>3. \A r \in RowIds : r \notin rows => outbox'[r] = outbox[r]
    BY <2>1 DEF ClaimRows
  <2> QED BY <2>2, <2>3 DEF AllCharged
<1>4. ASSUME NEW c \in Cycles, Commit(c)
      PROVE  AllCharged'
  <2>1. ASSUME NEW r \in RowIds, r \in cycle[c].done \cup cycle[c].bad
        PROVE  Charged(outbox'[r])
    <3>1. r \in Held(c)
      BY <1>4, <2>1 DEF Commit, Held
    <3>2. outbox[r] \in Entries /\ outbox[r] # NoRow /\ outbox[r].status = "processing"
      BY <3>1, HeldIssued DEF NoRow
    <3>3. /\ outbox'[r].privacy = outbox[r].privacy /\ outbox'[r].attempts = outbox[r].attempts
          /\ \/ outbox'[r].status = "done"
             \/ outbox'[r].status = IF Retried(outbox[r]) THEN "pending" ELSE "failed"
      BY <1>4, <2>1, <3>2 DEF Commit, Entries
    <3>4. Charged(outbox[r]) /\ outbox[r].attempts \in Nat /\ outbox[r].privacy \in BOOLEAN
      BY <3>2 DEF AllCharged, Entries
    <3> QED BY <3>3, <3>4, OutboxAssumption DEF Charged, Retried
  <2>2. \A r \in RowIds : r \notin cycle[c].done \cup cycle[c].bad => outbox'[r] = outbox[r]
    BY <1>4 DEF Commit
  <2> QED BY <2>1, <2>2 DEF AllCharged
<1>5. CASE UNCHANGED outbox
  BY <1>5 DEF AllCharged
<1>6. ASSUME NEW c \in Cycles, Cycle(c)
      PROVE  AllCharged'
  BY <1>3, <1>4, <1>5, <1>6 DEF Cycle, Select, NextChunk, ApplyRow, ChunkDone, ChunkFailed,
     CallFails, CycleCrash
<1>7. CASE Reconcile
  BY <1>2, <1>5, <1>7 DEF Reconcile, ReconcileRead, ReconcileMissing, ReconcileScroll,
     ReconcileCheck, ReconcileDelete, ReconcileFails
<1> QED BY <1>1, <1>5, <1>6, <1>7 DEF Next, vars

\* No row is charged more than MaxAttempts times and a privacy delete is never
\* given up, under any interleaving of cycles (_mark_rows_failed_or_pending).
THEOREM AttemptsBounded == Spec => []AttemptsRespected
<1>1. Init => AllCharged
  BY DEF Init, AllCharged
<1>2. Base /\ AllCharged /\ [Next]_vars => AllCharged'
  BY ChargedNext
<1>3. AllCharged => AttemptsRespected
  BY DEF AllCharged, Charged, AttemptsRespected
<1> QED BY <1>1, <1>2, <1>3, BaseAlways, PTL DEF Spec

------------------------------------------------------------------------------
(* The order of writes.                                                    *)

SameContent ==
  /\ issued' = issued
  /\ \A r \in RowIds : Issued(r) =>
       /\ outbox'[r].op = outbox[r].op /\ outbox'[r].mem = outbox[r].mem
       /\ outbox'[r].coll = outbox[r].coll /\ outbox'[r].ver = outbox[r].ver

\* A step that touches neither the memories nor the index.
LEMMA OrderFrame ==
  ASSUME OrderInv, SameContent, UNCHANGED <<mem, points, applied, disordered, recon>>
  PROVE  OrderInv'
<1>1. ASSUME NEW m \in Memories, m \notin disordered'
      PROVE  Orderly(m)'
  <2>1. \A r \in RowIds : RowOf(r, m)' <=> RowOf(r, m)
    BY DEF RowOf, Issued, SameContent
  <2>2. \A r \in RowIds : Newest(r, m)' => Newest(r, m) /\ Issued(r)
    BY <2>1 DEF Newest, RowOf
  <2>3. Orderly(m) /\ InSync(m)' = InSync(m)
    BY <1>1 DEF OrderInv, InSync
  <2>4. \A r \in RowIds : Newest(r, m)' => Describes(outbox[r], m)'
    BY <2>2, <2>3 DEF Orderly, Describes, SameContent
  <2> QED BY <2>1, <2>3, <2>4 DEF Orderly
<1> QED BY <1>1 DEF OrderInv

\* Rows are added, the index does not move.
LEMMA OperationOrder ==
  ASSUME Base, OrderInv, NEW m \in Memories, Operation(m)
  PROVE  OrderInv'
<1>1. PICK op \in Ops, p \in Places, v \in Nat : Writes(m, op, p, v)
  BY OperationWrites DEF Base
<1>0. /\ issued' = issued + 1 /\ issued + 1 \in RowIds /\ issued \in Nat
      /\ outbox' = [outbox EXCEPT ![issued + 1] = Entry(op, m, p, v)]
  BY <1>1, EnqueueExtends DEF Base, TypeOK, Writes
<1>2. PICK k \in RowIds :
        /\ k = issued + 1 /\ issued' = k /\ issued \in Nat
        /\ \A r \in RowIds : outbox'[r] = IF r = k THEN Entry(op, m, p, v) ELSE outbox[r]
        /\ UNCHANGED <<points, recon, applied>>
  BY <1>0, <1>1 DEF Base, TypeOK, Writes, Enqueue
<1>3. \A r \in RowIds : Issued(r)' <=> (Issued(r) \/ r = k)
  BY <1>2 DEF Issued, RowIds
<1>4. k \notin applied
  BY <1>2 DEF Base, RowsInv, Issued
<1>5. Entry(op, m, p, v).mem = m /\ Entry(op, m, p, v).op = op /\ Entry(op, m, p, v).coll = p
      /\ Entry(op, m, p, v).ver = v
  BY DEF Entry
<1>6. ASSUME NEW n \in Memories, n \notin disordered', n # m
      PROVE  Orderly(n)'
  <2>1. \A r \in RowIds : RowOf(r, n)' <=> RowOf(r, n)
    BY <1>2, <1>3, <1>5, <1>6 DEF RowOf, Issued
  <2>2. \A r \in RowIds : Newest(r, n)' => Newest(r, n) /\ outbox'[r] = outbox[r]
    BY <1>2, <2>1, <1>5, <1>6 DEF Newest, RowOf
  <2>3. Orderly(n) /\ mem'[n] = mem[n]
    BY <1>1, <1>6 DEF OrderInv, Writes
  <2>4. \A r \in RowIds : Newest(r, n)' => Describes(outbox[r], n)'
    BY <2>2, <2>3 DEF Orderly, Describes
  <2>5. InSync(n)' = InSync(n)
    BY <1>2, <2>3 DEF InSync
  <2> QED BY <1>2, <2>1, <2>3, <2>4, <2>5 DEF Orderly
<1>7. m \notin disordered' => Orderly(m)'
  <2>1. RowOf(k, m)'
    BY <1>2, <1>3, <1>5 DEF RowOf
  <2>2. \A r \in RowIds : Newest(r, m)' => r = k
    BY <1>2, <2>1 DEF Newest, RowOf, Issued, RowIds
  <2>3. outbox'[k] = Entry(op, m, p, v)
    BY <1>2
  <2>4. m \notin disordered' => Describes(outbox[k], m)'
    BY <1>1, <1>5, <2>3 DEF Describes, Writes
  <2> QED BY <1>2, <1>4, <2>1, <2>2, <2>4 DEF Orderly, Describes
<1> QED BY <1>2, <1>6, <1>7 DEF OrderInv

LEMMA CommitOrder ==
  ASSUME Base, OrderInv, ReconcileCommit
  PROVE  OrderInv'
<1>1. /\ Extends
      /\ \A r \in RowIds : Issued(r)' /\ ~Issued(r) =>
           \E m \in recon.missing :
             outbox'[r] = Entry("upsert", m, recon.seen[m].coll, recon.seen[m].ver)
  BY CommitExtends
<1>2. /\ UNCHANGED <<mem, points, applied>> /\ recon' = NoRecon
      /\ disordered' = disordered \cup {m \in recon.missing : mem[m] # recon.seen[m]}
      /\ \A m \in recon.missing : recon.seen[m].state = "live"
  BY DEF ReconcileCommit, OrderInv
<1>3. \A r \in RowIds : Issued(r) => Issued(r)' /\ outbox'[r] = outbox[r]
  BY <1>1 DEF Extends, Issued, RowIds, Base, TypeOK
<1>4. \A r \in applied' : r \in RowIds /\ Issued(r)
  BY <1>2 DEF Base, RowsInv, TypeOK
<1>5. ASSUME NEW m \in Memories, m \notin disordered'
      PROVE  Orderly(m)'
  <2>0. Orderly(m) /\ InSync(m)' = InSync(m)
    BY <1>2, <1>5 DEF OrderInv, InSync
  <2>1. \A r \in RowIds : RowOf(r, m) => RowOf(r, m)'
    BY <1>3 DEF RowOf
  <2>2. ASSUME NEW r \in RowIds, Newest(r, m)'
        PROVE  Describes(outbox[r], m)'
    <3>1. CASE Issued(r)
      <4>1. Newest(r, m) /\ outbox'[r] = outbox[r]
        BY <1>3, <2>1, <2>2, <3>1 DEF Newest, RowOf
      <4> QED BY <1>2, <2>0, <4>1 DEF Orderly, Describes
    <3>2. CASE ~Issued(r)
      <4>1. Issued(r)' /\ outbox'[r].mem = m
        BY <2>2 DEF Newest, RowOf
      <4>2. PICK n \in recon.missing :
              outbox'[r] = Entry("upsert", n, recon.seen[n].coll, recon.seen[n].ver)
        BY <1>1, <3>2, <4>1
      <4>3. /\ outbox'[r].mem = n /\ outbox'[r].op = "upsert"
            /\ outbox'[r].coll = recon.seen[n].coll /\ outbox'[r].ver = recon.seen[n].ver
        BY <4>2 DEF Entry
      <4>4. n = m /\ mem[m] = recon.seen[m] /\ mem[m].state = "live"
        BY <1>2, <1>5, <4>1, <4>3
      <4> QED BY <1>2, <4>3, <4>4 DEF Describes
    <3> QED BY <3>1, <3>2
  <2>3. (\A r \in RowIds : RowOf(r, m)' => r \in applied') =>
          \A r \in RowIds : RowOf(r, m) => r \in applied
    BY <1>2, <2>1
  <2> QED BY <2>0, <2>2, <2>3 DEF Orderly
<1> QED BY <1>2, <1>5 DEF OrderInv, NoRecon

\* A row reaches the index: if it is the newest row of its memory, the point
\* becomes what the memory calls for; if it is not, and all are applied, a
\* newer one was overtaken.
LEMMA ReachOrder ==
  ASSUME Base, OrderInv, NEW r \in RowIds, Issued(r), Reach(r),
         UNCHANGED <<mem, outbox, issued, recon>>
  PROVE  OrderInv'
<1>0. outbox[r] \in Entries /\ r \in Nat /\ applied' = applied \cup {r} /\ RowIds \subseteq Nat
  BY DEF Base, TypeOK, RowsInv, Reach, RowIds
<1>1. PICK n \in Memories, p \in Places :
        /\ n = outbox[r].mem /\ p = outbox[r].coll
        /\ points' = [points EXCEPT ![p][n] = Effect(outbox[r], points[p][n])]
        /\ disordered' = IF Overtaken(r) THEN disordered \cup {n} ELSE disordered
  BY <1>0 DEF Reach, Entries, Base, TypeOK
<1>2. \A m \in Memories, q \in Places :
        points'[q][m] = IF q = p /\ m = n THEN Effect(outbox[r], points[p][n]) ELSE points[q][m]
  BY <1>1 DEF Base, TypeOK
<1>3. \A m \in Memories : mem[m].coll \in Places
  BY DEF Base, TypeOK, MemStates
<1>4. ASSUME NEW m \in Memories, m \notin disordered'
      PROVE  Orderly(m)'
  <2>1. Orderly(m)
    BY <1>1, <1>4 DEF OrderInv
  <2>2. \A q \in RowIds : (RowOf(q, m)' <=> RowOf(q, m)) /\ (Newest(q, m)' <=> Newest(q, m))
    BY DEF RowOf, Newest, Issued
  <2>3. \A q \in RowIds : Newest(q, m)' => Describes(outbox[q], m)'
    BY <2>1, <2>2 DEF Orderly, Describes
  <2>4. CASE m # n
    <3>1. InSync(m)' = InSync(m)
      BY <1>2, <1>3, <2>4 DEF InSync
    <3>2. ~RowOf(r, m)
      BY <1>1, <2>4 DEF RowOf
    <3> QED BY <1>0, <2>1, <2>2, <2>3, <3>1, <3>2 DEF Orderly
  <2>5. CASE m = n
    <3>1. ASSUME \A q \in RowIds : RowOf(q, m)' => q \in applied'
          PROVE  InSync(m)'
      <4>1. ~Overtaken(r)
        BY <1>1, <1>4, <2>5
      <4>2. \A q \in RowIds : RowOf(q, m) => q <= r
        BY <1>0, <1>1, <2>2, <2>5, <3>1, <4>1 DEF Overtaken, RowOf
      <4>3. Newest(r, m)
        BY <1>1, <2>5, <4>2 DEF Newest, RowOf
      <4>4. Describes(outbox[r], m)
        BY <2>1, <4>3 DEF Orderly
      <4>5. points'[mem[m].coll][m] = Effect(outbox[r], points[p][m])
        BY <1>1, <1>2, <2>5, <4>4 DEF Describes
      <4>6. points[p][m] \in Points
        BY DEF Base, TypeOK
      <4>7. CASE outbox[r].op = "upsert"
        BY <4>4, <4>5, <4>7 DEF InSync, Describes, Effect
      <4>8. CASE outbox[r].op # "upsert"
        <5>1. outbox[r].op \in {"archive", "delete"} /\ mem[m].state # "live"
          BY <1>0, <4>4, <4>8 DEF Describes, Entries, Ops
        <5>2. Effect(outbox[r], points[p][m]) = NoPoint \/ Effect(outbox[r], points[p][m]).archived
          BY <4>6, <5>1 DEF Effect, Points
        <5> QED BY <4>5, <5>1, <5>2 DEF InSync
      <4> QED BY <4>7, <4>8
    <3> QED BY <2>3, <3>1 DEF Orderly
  <2> QED BY <2>4, <2>5
<1> QED BY <1>4 DEF OrderInv

\* What the orphan sweep deletes is unwanted, or its memory is disordered.
LEMMA DeleteOrder ==
  ASSUME Base, OrderInv, ReconcileDelete
  PROVE  OrderInv'
<1>0. recon \in ReconStates
  BY Reconciling DEF ReconcileDelete, Base
<1>1. \A m \in Memories, p \in Places :
        points'[p][m] = IF <<p, m>> \in recon.orphans THEN NoPoint ELSE points[p][m]
  BY DEF ReconcileDelete
<1>2. \A m \in Memories : mem[m].coll \in Places
  BY DEF Base, TypeOK, MemStates
<1>3. ASSUME NEW m \in Memories, m \notin disordered'
      PROVE  Orderly(m)'
  <2>1. Orderly(m) /\ UNCHANGED <<mem, outbox, issued, applied>>
    BY <1>3 DEF OrderInv, ReconcileDelete
  <2>2. \A q \in RowIds : (RowOf(q, m)' <=> RowOf(q, m)) /\ (Newest(q, m)' <=> Newest(q, m))
    BY <2>1 DEF RowOf, Newest, Issued
  <2>3. \A q \in RowIds : Newest(q, m)' => Describes(outbox[q], m)'
    BY <2>1, <2>2 DEF Orderly, Describes
  <2>4. mem[m].state = "live" => points'[mem[m].coll][m] = points[mem[m].coll][m]
    <3>1. mem[m].state = "live" => \A p \in Collections : <<p, m>> \notin recon.orphans
      BY <1>3 DEF ReconcileDelete
    <3>2. \A p : <<p, m>> \in recon.orphans => p \in Collections
      BY <1>0 DEF ReconStates
    <3> QED BY <1>1, <1>2, <3>1, <3>2
  <2>5. points'[mem[m].coll][m] \in {NoPoint, points[mem[m].coll][m]}
    BY <1>1, <1>2
  <2>6. InSync(m) => InSync(m)'
    BY <2>1, <2>4, <2>5 DEF InSync
  <2> QED BY <2>1, <2>2, <2>3, <2>6 DEF Orderly
<1>4. recon'.pc # "idle" => \A m \in recon'.missing : recon'.seen[m].state = "live"
  BY <1>0 DEF OrderInv, ReconcileDelete, ReconStates
<1> QED BY <1>3, <1>4 DEF OrderInv

\* A step that moves only the reconciliation.
LEMMA ReconOrder ==
  ASSUME OrderInv, UNCHANGED <<mem, outbox, issued, points, applied, disordered>>,
         recon'.pc # "idle" => \A m \in recon'.missing : recon'.seen[m].state = "live"
  PROVE  OrderInv'
<1>1. ASSUME NEW m \in Memories
      PROVE  Orderly(m)' = Orderly(m)
  BY DEF Orderly, RowOf, Newest, Issued, Describes, InSync
<1> QED BY <1>1 DEF OrderInv

LEMMA ReconcileOrder ==
  ASSUME Base, OrderInv, Reconcile
  PROVE  OrderInv'
<1>1. CASE ReconcileCommit
  BY <1>1, CommitOrder
<1>2. CASE ReconcileDelete
  BY <1>2, DeleteOrder
<1>3. CASE ReconcileRead
  BY <1>3, ReconOrder DEF ReconcileRead
<1>4. CASE ReconcileFails
  BY <1>4, ReconOrder DEF ReconcileFails, NoRecon
<1>5. CASE ReconcileMissing
  <2>0. recon \in ReconStates
    BY <1>5, Reconciling DEF ReconcileMissing, Base
  <2>1. PICK S \in SUBSET Memories :
          /\ recon' = [recon EXCEPT !.pc = "missing", !.missing = S]
          /\ \A m \in S : recon.seen[m].state = "live"
    <3> DEFINE absent == {m \in Tenant : /\ recon.seen[m].state = "live"
                                         /\ points[recon.seen[m].coll][m] = NoPoint}
               T == IF Cardinality(absent) > RepairLimit THEN {} ELSE absent
    <3>1. recon' = [recon EXCEPT !.pc = "missing", !.missing = T]
      BY <1>5 DEF ReconcileMissing
    <3>2. T \in SUBSET Memories /\ \A m \in T : recon.seen[m].state = "live"
      BY DEF Tenant
    <3> HIDE DEF T
    <3> QED BY <3>1, <3>2
  <2>2. recon'.missing = S /\ recon'.seen = recon.seen
    BY <2>0, <2>1 DEF ReconStates
  <2> QED BY <1>5, <2>1, <2>2, ReconOrder DEF ReconcileMissing
<1>6. CASE ReconcileScroll \/ ReconcileCheck
  <2>0. recon \in ReconStates /\ recon.pc # "idle"
    BY <1>6, Reconciling DEF ReconcileScroll, ReconcileCheck, Base
  <2>1. recon'.missing = recon.missing /\ recon'.seen = recon.seen
    BY <1>6, <2>0 DEF ReconcileScroll, ReconcileCheck, ReconStates
  <2> QED BY <1>6, <2>0, <2>1, ReconOrder DEF ReconcileScroll, ReconcileCheck, OrderInv
<1> QED BY <1>1, <1>2, <1>3, <1>4, <1>5, <1>6 DEF Reconcile

\* The row a cycle applies next has been written.
LEMMA TodoIssued ==
  ASSUME Base, NEW c \in Cycles, cycle[c].pc = "claimed", NEW r \in cycle[c].todo
  PROVE  Issued(r)
<1>1. r \in Held(c)
  BY DEF Base, RowsInv, Held
<1> QED BY <1>1, HeldIssued

LEMMA CycleOrder ==
  ASSUME Base, OrderInv, NEW c \in Cycles, Cycle(c)
  PROVE  OrderInv'
<1>1. CASE ApplyRow(c)
  BY <1>1, TodoIssued, ReachOrder DEF ApplyRow, First
<1>2. CASE ChunkFailed(c)
  <2>1. UNCHANGED <<mem, outbox, issued, recon>> /\ cycle[c].pc = "claimed"
    BY <1>2 DEF ChunkFailed, CallFails
  <2>2. PICK r \in RowIds : /\ r \in cycle[c].todo
                            /\ Reach(r) \/ UNCHANGED <<points, applied, disordered>>
    BY <1>2 DEF ChunkFailed, CallFails, First
  <2>3. CASE Reach(r)
    BY <2>1, <2>2, <2>3, TodoIssued, ReachOrder
  <2>4. CASE UNCHANGED <<points, applied, disordered>>
    BY <2>1, <2>4, OrderFrame DEF SameContent
  <2> QED BY <2>2, <2>3, <2>4
<1>3. CASE Claim(c)
  <2>1. PICK rows : ClaimRows(c, rows)
    BY <1>3 DEF Claim
  <2>2. ASSUME NEW r \in RowIds, Issued(r)
        PROVE  /\ outbox'[r].op = outbox[r].op /\ outbox'[r].mem = outbox[r].mem
               /\ outbox'[r].coll = outbox[r].coll /\ outbox'[r].ver = outbox[r].ver
    <3>1. outbox[r] \in Entries
      BY <2>2 DEF Base, TypeOK, RowsInv
    <3>2. outbox'[r] = IF r \in rows
            THEN [outbox[r] EXCEPT !.status = "processing", !.attempts = outbox[r].attempts + 1]
            ELSE outbox[r]
      BY <2>1 DEF ClaimRows
    <3> QED BY <3>1, <3>2 DEF Entries
  <2> QED BY <2>1, <2>2, OrderFrame DEF SameContent, ClaimRows
<1>4. CASE Commit(c)
  <2>1. ASSUME NEW r \in RowIds, Issued(r)
        PROVE  /\ outbox'[r].op = outbox[r].op /\ outbox'[r].mem = outbox[r].mem
               /\ outbox'[r].coll = outbox[r].coll /\ outbox'[r].ver = outbox[r].ver
    <3>1. outbox[r] \in Entries
      BY <2>1 DEF Base, TypeOK, RowsInv
    <3>2. \E s : outbox'[r] = [outbox[r] EXCEPT !.status = s] \/ outbox'[r] = outbox[r]
      BY <1>4 DEF Commit
    <3> QED BY <3>1, <3>2 DEF Entries
  <2> QED BY <1>4, <2>1, OrderFrame DEF SameContent, Commit
<1>5. CASE Select(c) \/ NextChunk(c) \/ ChunkDone(c) \/ CycleCrash(c)
  <2>1. UNCHANGED <<mem, outbox, issued, points, recon, applied, disordered>>
    BY <1>5 DEF Select, NextChunk, ChunkDone, CycleCrash
  <2> QED BY <2>1, OrderFrame DEF SameContent
<1> QED BY <1>1, <1>2, <1>3, <1>4, <1>5 DEF Cycle

LEMMA OrderInit == Init => OrderInv
<1> SUFFICES ASSUME Init PROVE OrderInv
  OBVIOUS
<1>1. \A r \in RowIds, m \in Memories : ~RowOf(r, m)
  BY DEF Init, RowOf, Issued, RowIds
<1>2. ASSUME NEW m \in Memories
      PROVE  InSync(m)
  <2>1. mem[m].coll \in Places /\ mem[m].state = "none"
    BY OutboxAssumption DEF Init, Places
  <2>2. points[mem[m].coll][m] = NoPoint
    BY <2>1 DEF Init
  <2> QED BY <2>1, <2>2 DEF InSync
<1> QED BY <1>1, <1>2 DEF OrderInv, Orderly, Newest, Init, NoRecon

LEMMA OrderNext ==
  ASSUME Base, OrderInv, [Next]_vars
  PROVE  OrderInv'
<1>1. CASE UNCHANGED vars
  BY <1>1, OrderFrame DEF vars, SameContent
<1> QED BY <1>1, OperationOrder, CycleOrder, ReconcileOrder DEF Next

\* Whatever cycles overlap, fail, crash and retry, a memory whose rows are all
\* done has the point its state calls for, unless an older write reached
\* Qdrant after a newer one, a row named another collection, or the
\* reconciliation acted on what it had read before (run_outbox_cycle with
\* run_reconciliation_cycle).
THEOREM OnlyDisorder == Spec => []OnlyDisorderSpoils
<1>1. Base /\ OrderInv => OnlyDisorderSpoils
  <2> SUFFICES ASSUME Base, OrderInv, NEW m \in Memories, ~Unsettled(m), m \notin disordered
               PROVE  InSync(m)
    BY DEF OnlyDisorderSpoils
  <2>1. \A r \in RowIds : RowOf(r, m) => r \in applied
    BY DEF Unsettled, RowOf, Base, RowsInv
  <2> QED BY <2>1 DEF OrderInv, Orderly
<1> QED BY <1>1, OrderInit, OrderNext, BaseAlways, PTL DEF Spec

-----------------------------------------------------------------------------
(* Reading while memories change: MemoryRetrieval, for every set of memories *)
(* and processes, every page size and every script.                          *)

\* A result names a memory once.
Once(S) == \A x, y \in S : x[1] = y[1] => x = y
\* Where the requests of a kind can be.
Watched == {"read", "asof", "list"}
HotPcs == {"pending", "cold", "coldstart", "full", "embed", "search", "fetch"}
ReadPcs == {"idle", "refused", "preflight", "cache", "verify", "hot", "hydrate", "final", "history",
            "answered", "failed"} \cup HotPcs
ListPcs == {"idle", "page", "listed", "refused"}
WritePcs == {"update", "archive", "delete", "pages", "hottier", "local", "written", "promote", "promoted"}
HoldType == [broad : BOOLEAN, facts : Versions]
Progress == [pc : ReadPcs \cup ListPcs \cup WritePcs, uid : Nat, got : Versions, hot : Versions,
             ids : SUBSET MemoryIds, models : SUBSET Models, hit : BOOLEAN, stale : BOOLEAN,
             save : Versions, cursor : MemoryIds \cup {0}]
Seen == [seen : Versions, waiting : SUBSET MemoryIds, published : SUBSET MemoryIds]

\* The tables, the index and the caches.
TablesKept ==
  /\ script \in DOMAIN Scripts /\ happened \in Nat
  /\ table \in [MemoryIds -> Memory] /\ user \in User
  /\ pend \in SUBSET MemoryIds /\ winner \in Sourced \cup {0}
  /\ index \in SUBSET (MemoryIds \X Models) /\ Once(index)
  /\ hold \in HoldType /\ routed \in BOOLEAN /\ correction \in BOOLEAN
CachesKept ==
  /\ page \in Versions /\ Once(page) /\ hot \in Versions
  /\ l1 \in [Processes -> Versions] /\ \A i \in Processes : Once(l1[i])
  /\ hotL \in [Processes -> Versions] /\ modelL \in [Processes -> SUBSET Models]
RequestsKept ==
  /\ req \in [Requests -> Progress] /\ hist \in [Requests -> Seen]
  /\ \A r \in Requests : Once(req[r].got) /\ Once(req[r].hot) /\ Once(req[r].save)
  /\ \A r \in Requests : req[r].pc = "listed" => Op(r) = "list"

Under(r) == req[r].pc \notin {"idle"} \cup Over

\* What the history of a request that is under way says of this moment.
Recorded ==
  \A r \in Requests :
    /\ Under(r) /\ Op(r) \in Watched =>
         /\ Shown(r) \subseteq hist[r].seen
         /\ hist[r].waiting \subseteq Waiting(r)
         /\ hist[r].published \subseteq Published(r)
    /\ req[r].pc = "idle" => hist[r].published = {}

\* Nothing is promised of a read that met a cached page, an old model or an open circuit, or
\* whose user was erased.
Excused(r, x, id) == x.hit \/ x.stale \/ Asked[r].quota # "full" \/ x.uid # id

\* What a read has collected when it is at x, with the history h, the table t and the user id.
Fits(r, x, h, t, id) ==
  /\ x.pc \in ReadPcs /\ x.uid <= id
  /\ x.pc \in {"idle", "preflight"} => x.got = {}
  /\ x.pc = "idle" => x.save = {}
  /\ x.pc = "history" => Op(r) = "asof"
  /\ x.pc \in {"final", "answered"} => x.got \subseteq h.seen
  /\ x.pc \in HotPcs => x.hot \subseteq h.seen
  /\ x.pc = "full" => MemoryIds \subseteq Ids(x.hot)
  /\ x.pc = "search" => Excused(r, x, id) \/ \A m \in h.published : t[m].model \in x.models
  /\ x.pc = "fetch" => Excused(r, x, id) \/ h.published \subseteq x.ids
  /\ x.pc = "final" => Excused(r, x, id) \/ h.published \subseteq Ids(x.got)
ReadsFit == \A r \in Reads : Fits(r, req[r], hist[r], table, user.id)

\* What the pages of a listing have passed.
Passed(x, h) ==
  /\ x.pc \in ListPcs
  /\ x.pc = "idle" => x.ids = {} /\ x.cursor = 0
  /\ x.pc = "page" => \A m \in h.published : m \in x.ids \/ m < x.cursor
  /\ x.pc = "listed" => h.published \subseteq x.ids
ListsPass == \A r \in Requests : Op(r) = "list" => Passed(req[r], hist[r])

RetrievalInv == TablesKept /\ CachesKept /\ RequestsKept /\ Recorded /\ ReadsFit /\ ListsPass

-----------------------------------------------------------------------------
(* What the setting says, and what the helpers return.                      *)

LEMMA ScriptIs ==
  ASSUME script \in DOMAIN Scripts
  PROVE  /\ Scripts[script] \in Script
         /\ \A r \in Requests : Asked[r] \in Request
<1>1. Scripts[script] \in Script
  BY RetrievalAssumption
<1>2. Asked \in Seq(Request)
  BY <1>1 DEF Asked, Script
<1> QED
  BY <1>1, <1>2 DEF Requests

LEMMA AskedIs ==
  ASSUME script \in DOMAIN Scripts, NEW r \in Requests
  PROVE  Proc(r) \in Processes /\ Target(r) \in MemoryIds
<1>1. Asked[r] \in Request
  BY ScriptIs
<1> QED
  BY <1>1 DEF Request, Proc, Target

LEMMA SettingIs ==
  /\ MemoryIds \in SUBSET (Nat \ {0}) /\ IsFiniteSet(MemoryIds) /\ Cardinality(MemoryIds) \in Nat
  /\ Limit \in Nat /\ Limit >= Cardinality(MemoryIds) /\ PageSize \in Nat \ {0}
  BY RetrievalAssumption, FS_CardinalityType

\* A row in its version, and a set of them.
LEMMA RowIs ==
  ASSUME TablesKept, NEW m \in MemoryIds
  PROVE  Row(m) \in MemoryIds \X Nat /\ Row(m)[1] = m
<1>1. table[m] \in Memory
  BY DEF TablesKept
<1> QED
  BY <1>1 DEF Row, Memory

LEMMA RowsAre ==
  ASSUME TablesKept, NEW S \in SUBSET MemoryIds
  PROVE  /\ {Row(m) : m \in S} \in Versions /\ Once({Row(m) : m \in S})
         /\ Ids({Row(m) : m \in S}) = S
<1>1. \A m \in S : Row(m) \in MemoryIds \X Nat /\ Row(m)[1] = m
  BY RowIs
<1> QED
  BY <1>1 DEF Versions, Once, Ids

LEMMA IdsAre ==
  ASSUME NEW S \in Versions
  PROVE  Ids(S) \in SUBSET MemoryIds
  BY DEF Versions, Ids

\* _hydrate_current_results shows rows of the moment, each once.
LEMMA HydrateIs ==
  ASSUME TablesKept, NEW r, NEW S, Ids(S) \in SUBSET MemoryIds
  PROVE  /\ Hydrate(r, S) \in Versions /\ Once(Hydrate(r, S)) /\ Hydrate(r, S) \subseteq Shown(r)
         /\ Ids(Hydrate(r, S)) = {m \in Ids(S) : Current(m) /\ Known(r)}
<1> DEFINE T == {m \in Ids(S) : Current(m) /\ Known(r)}
<1>1. Hydrate(r, S) = {Row(m) : m \in T} /\ T \in SUBSET MemoryIds
  BY DEF Hydrate
<1>2. \A m \in T : m \in MemoryIds /\ Current(m) /\ Historical(m)
  BY DEF Current, Historical
<1>3. Hydrate(r, S) \subseteq Shown(r)
  BY <1>1, <1>2 DEF Shown
<1> HIDE DEF T
<1>4. /\ Hydrate(r, S) \in Versions /\ Once(Hydrate(r, S)) /\ Ids(Hydrate(r, S)) = T
  BY <1>1, RowsAre
<1> QED
  BY <1>3, <1>4 DEF T

LEMMA ColdIs ==
  ASSUME TablesKept, NEW r
  PROVE  /\ ColdStart \in Versions /\ Once(ColdStart) /\ ColdStart \subseteq Shown(r)
         /\ Ids(ColdStart) = {m \in MemoryIds : Current(m)}
<1> DEFINE T == {m \in MemoryIds : Current(m)}
<1>1. ColdStart = {Row(m) : m \in T} /\ T \in SUBSET MemoryIds
  BY DEF ColdStart
<1>2. \A m \in T : m \in MemoryIds /\ Current(m) /\ Historical(m)
  BY DEF Current, Historical
<1>3. ColdStart \subseteq Shown(r)
  BY <1>1, <1>2 DEF Shown
<1> HIDE DEF T
<1>4. /\ ColdStart \in Versions /\ Once(ColdStart) /\ Ids(ColdStart) = T
  BY <1>1, RowsAre
<1> QED
  BY <1>3, <1>4 DEF T

\* _merge_hot_tier_results.
LEMMA MergeIs ==
  ASSUME NEW S \in Versions, NEW T \in Versions, Once(S), Once(T)
  PROVE  /\ Merge(S, T) \in Versions /\ Once(Merge(S, T)) /\ Merge(S, T) \subseteq S \cup T
         /\ Ids(Merge(S, T)) = Ids(S) \cup Ids(T)
  BY DEF Merge, Ids, Once, Versions

-----------------------------------------------------------------------------
(* One step, whatever it is: the history follows, and what a request has    *)
(* collected stays good as long as it does not move.                        *)

LEMMA SameScript ==
  ASSUME script' = script
  PROVE  /\ Requests' = Requests /\ Reads' = Reads /\ Sourced' = Sourced /\ Asked' = Asked
         /\ \A r : Op(r)' = Op(r)
  BY DEF Requests, Reads, Sourced, Asked, Op

LEMMA ShownIs ==
  ASSUME TablesKept, NEW r
  PROVE  Shown(r) \in Versions /\ Waiting(r) \in SUBSET MemoryIds /\ Published(r) \in SUBSET MemoryIds
<1> DEFINE T == {n \in MemoryIds : IF Op(r) = "asof" THEN Historical(n) ELSE Current(n)}
<1>1. Shown(r) = {Row(m) : m \in T} /\ T \in SUBSET MemoryIds
  BY DEF Shown
<1> HIDE DEF T
<1>2. Shown(r) \in Versions
  BY <1>1, RowsAre
<1> QED
  BY <1>2 DEF Waiting, Published, TablesKept

LEMMA ShownIsNext ==
  ASSUME TablesKept', NEW r
  PROVE  Shown(r)' \in Versions /\ Waiting(r)' \in SUBSET MemoryIds /\ Published(r)' \in SUBSET MemoryIds
<1> DEFINE T == {n \in MemoryIds : IF Op(r)' = "asof" THEN Historical(n)' ELSE Current(n)'}
<1>1. Shown(r)' = {Row(m)' : m \in T} /\ T \in SUBSET MemoryIds
  BY DEF Shown
<1> HIDE DEF T
<1>2. \A m \in T : Row(m)' \in MemoryIds \X Nat
  <2> SUFFICES ASSUME NEW m \in T PROVE Row(m)' \in MemoryIds \X Nat
    OBVIOUS
  <2>1. table'[m] \in Memory /\ m \in MemoryIds
    BY <1>1 DEF TablesKept
  <2> QED
    BY <2>1 DEF Row, Memory
<1>3. Shown(r)' \in Versions
  BY <1>1, <1>2 DEF Versions
<1> QED
  BY <1>3 DEF Waiting, Published, TablesKept

LEMMA WatchDoes ==
  ASSUME RetrievalInv, Watch, script' = script, TablesKept', req' \in [Requests -> Progress]
  PROVE  /\ hist' \in [Requests -> Seen]
         /\ \A r \in Requests : Under(r)' /\ Op(r) \in Watched =>
              /\ Shown(r)' \subseteq hist'[r].seen
              /\ hist'[r].waiting \subseteq Waiting(r)'
              /\ hist'[r].published \subseteq Published(r)'
              /\ req[r].pc # "idle" => /\ hist[r].seen \subseteq hist'[r].seen
                                       /\ hist'[r].published \subseteq hist[r].published
         /\ \A r \in Requests : ~Under(r)' => hist'[r] = hist[r]
<1>1. Requests' = Requests /\ \A r : Op(r)' = Op(r)
  BY SameScript
<1>2. hist \in [Requests -> Seen]
  BY DEF RetrievalInv, RequestsKept
<1>3. hist' = [r \in Requests |->
    IF req'[r].pc \in {"idle"} \cup Over \/ Op(r) \notin Watched THEN hist[r]
    ELSE IF req[r].pc = "idle"
         THEN [seen |-> Shown(r)', waiting |-> Waiting(r)', published |-> Published(r)']
    ELSE [seen |-> hist[r].seen \cup Shown(r)', waiting |-> hist[r].waiting \cap Waiting(r)',
          published |-> hist[r].published \cap Published(r)']]
  BY DEF Watch, Watched
<1>4. \A r : Shown(r)' \in Versions /\ Waiting(r)' \in SUBSET MemoryIds /\ Published(r)' \in SUBSET MemoryIds
  BY ShownIsNext
<1>5. ASSUME NEW r \in Requests
      PROVE  /\ hist'[r] \in Seen
             /\ Under(r)' /\ Op(r) \in Watched =>
                  /\ Shown(r)' \subseteq hist'[r].seen
                  /\ hist'[r].waiting \subseteq Waiting(r)'
                  /\ hist'[r].published \subseteq Published(r)'
                  /\ req[r].pc # "idle" => /\ hist[r].seen \subseteq hist'[r].seen
                                           /\ hist'[r].published \subseteq hist[r].published
             /\ ~Under(r)' => hist'[r] = hist[r]
  <2>1. hist[r] \in Seen
    BY <1>2
  <2>2. CASE req'[r].pc \in {"idle"} \cup Over \/ Op(r) \notin Watched
    <3>1. hist'[r] = hist[r]
      BY <1>3, <2>2
    <3>2. Over' = Over
      BY DEF Over
    <3> QED
      BY <2>1, <2>2, <3>1, <3>2 DEF Under
  <2>3. CASE ~(req'[r].pc \in {"idle"} \cup Over \/ Op(r) \notin Watched) /\ req[r].pc = "idle"
    <3>1. hist'[r] = [seen |-> Shown(r)', waiting |-> Waiting(r)', published |-> Published(r)']
      BY <1>3, <2>3
    <3>2. Under(r)'
      BY <2>3 DEF Under, Over
    <3>3. hist'[r] \in Seen
      BY <3>1, <1>4 DEF Seen
    <3> QED
      BY <2>3, <3>1, <3>2, <3>3
  <2>4. CASE ~(req'[r].pc \in {"idle"} \cup Over \/ Op(r) \notin Watched) /\ req[r].pc # "idle"
    <3>1. hist'[r] = [seen |-> hist[r].seen \cup Shown(r)', waiting |-> hist[r].waiting \cap Waiting(r)',
                      published |-> hist[r].published \cap Published(r)']
      BY <1>3, <2>4
    <3>2. Under(r)'
      BY <2>4 DEF Under, Over
    <3>3. hist[r].seen \in Versions /\ hist[r].waiting \in SUBSET MemoryIds /\ hist[r].published \in SUBSET MemoryIds
      BY <2>1 DEF Seen
    <3>4. hist'[r] \in Seen
      <4>1. /\ hist[r].seen \cup Shown(r)' \in Versions
            /\ hist[r].waiting \cap Waiting(r)' \in SUBSET MemoryIds
            /\ hist[r].published \cap Published(r)' \in SUBSET MemoryIds
        BY <1>4, <3>3 DEF Versions
      <4> QED
        BY <3>1, <4>1 DEF Seen
    <3> QED
      BY <2>4, <3>1, <3>2, <3>4
  <2> QED
    BY <2>2, <2>3, <2>4
<1>6. hist' \in [Requests -> Seen]
  BY <1>3, <1>5
<1> QED
  BY <1>5, <1>6

\* No step changes both the model of a row and its vector.
ModelsKept == \A m \in MemoryIds :
  <<m, table[m].model>> \in index /\ <<m, table'[m].model>> \in index' => table'[m].model = table[m].model

LEMMA FitsStays ==
  ASSUME NEW r, NEW x \in Progress, NEW h \in Seen, NEW g \in Seen, NEW t, NEW u, NEW i \in Nat, NEW j \in Nat,
         Fits(r, x, h, t, i), i <= j, h.seen \subseteq g.seen, g.published \subseteq h.published,
         x.pc = "search" => \A m \in g.published : u[m].model = t[m].model
  PROVE  Fits(r, x, g, u, j)
<1>1. x.uid \in Nat
  BY DEF Progress
<1>2. Excused(r, x, i) => Excused(r, x, j)
  BY <1>1 DEF Excused, Fits
<1>3. x.uid <= j
  BY <1>1 DEF Fits
<1>4. x.pc = "search" => Excused(r, x, j) \/ \A m \in g.published : u[m].model \in x.models
  BY <1>2 DEF Fits
<1>5. x.pc = "fetch" => Excused(r, x, j) \/ g.published \subseteq x.ids
  BY <1>2 DEF Fits
<1>6. x.pc = "final" => Excused(r, x, j) \/ g.published \subseteq Ids(x.got)
  BY <1>2 DEF Fits
<1> QED
  BY <1>3, <1>4, <1>5, <1>6 DEF Fits

\* What must hold of the requests that move.
MovesWell(r) ==
  /\ req'[r] \in Progress /\ Once(req'[r].got) /\ Once(req'[r].hot) /\ Once(req'[r].save)
  /\ req'[r].pc # "idle" /\ (req'[r].pc = "listed" => Op(r) = "list")
  /\ r \in Reads => /\ Fits(r, req'[r], hist[r], table, user.id)
                    /\ IF req[r].pc = "idle" THEN req'[r].pc \in {"preflight", "refused"}
                       ELSE Under(r) \/ ~Under(r)'
  /\ Op(r) = "list" =>
       /\ table' = table
       /\ Passed(req'[r], IF req[r].pc = "idle" THEN [published |-> Published(r)] ELSE hist[r])

LEMMA ReadKept ==
  ASSUME RetrievalInv, Watch, script' = script, TablesKept', user'.id >= user.id, ModelsKept,
         req' \in [Requests -> Progress], NEW r \in Reads, req'[r] = req[r] \/ MovesWell(r)
  PROVE  Fits(r, req[r], hist[r], table, user.id)'
<1>0. r \in Requests /\ Op(r) \in Watched
  BY DEF Reads, Watched
<1>1. /\ hist'[r] \in Seen /\ hist[r] \in Seen /\ req'[r] \in Progress /\ user.id \in Nat /\ user'.id \in Nat
  BY <1>0, WatchDoes DEF RetrievalInv, RequestsKept, TablesKept, User
<1>2. Fits(r, req'[r], hist[r], table, user.id)
  BY DEF RetrievalInv, ReadsFit, MovesWell
<1>3. Asked' = Asked /\ Op(r)' = Op(r)
  BY SameScript
<1>4. CASE ~Under(r)'
  <2>1. hist'[r] = hist[r] /\ req'[r].pc # "search"
    BY <1>0, <1>4, WatchDoes DEF Under, Over
  <2>2. Fits(r, req'[r], hist'[r], table', user'.id)
    BY <1>1, <1>2, <2>1, FitsStays
  <2> QED
    BY <2>2, <1>3 DEF Fits, Excused, Ids
<1>5. CASE Under(r)' /\ req[r].pc = "idle"
  <2>1. req'[r].pc = "preflight"
    BY <1>5 DEF MovesWell, Under, Over
  <2>2. req'[r].uid <= user'.id
    BY <1>1, <1>2 DEF Fits, Progress
  <2> QED
    BY <1>2, <1>3, <2>1, <2>2 DEF Fits, ReadPcs, HotPcs
<1>6. CASE Under(r)' /\ req[r].pc # "idle"
  <2>1. Under(r)
    BY <1>6 DEF MovesWell, Under, Over
  <2>2. /\ hist[r].seen \subseteq hist'[r].seen /\ hist'[r].published \subseteq hist[r].published
        /\ hist'[r].published \subseteq Published(r)' /\ hist[r].published \subseteq Published(r)
    BY <1>0, <1>6, <2>1, WatchDoes DEF RetrievalInv, Recorded
  <2>3. \A m \in hist'[r].published : table'[m].model = table[m].model
    <3> SUFFICES ASSUME NEW m \in hist'[r].published PROVE table'[m].model = table[m].model
      OBVIOUS
    <3>1. m \in Published(r) /\ m \in Published(r)' /\ m \in MemoryIds
      BY <2>2, <1>1 DEF Seen
    <3>2. Op(r) # "list" /\ Op(r)' # "list"
      BY <1>3 DEF Reads
    <3>3. <<m, table[m].model>> \in index
      BY <3>1, <3>2 DEF Published
    <3>4. <<m, table'[m].model>> \in index'
      BY <3>1, <3>2 DEF Published
    <3> QED
      BY <3>1, <3>3, <3>4 DEF ModelsKept
  <2>4. Fits(r, req'[r], hist'[r], table', user'.id)
    BY <1>1, <1>2, <2>2, <2>3, FitsStays
  <2> QED
    BY <2>4, <1>3 DEF Fits, Excused, Ids
<1> QED
  BY <1>4, <1>5, <1>6

LEMMA ListKept ==
  ASSUME RetrievalInv, Watch, script' = script, TablesKept', req' \in [Requests -> Progress],
         NEW r \in Requests, Op(r) = "list", req'[r] = req[r] \/ MovesWell(r)
  PROVE  Passed(req[r], hist[r])'
<1>0. Op(r) \in Watched /\ Op(r)' = "list"
  BY SameScript DEF Watched
<1>1. hist'[r] \in Seen /\ hist[r] \in Seen /\ Passed(req[r], hist[r])
      /\ (req[r].pc = "idle" => hist[r].published = {})
  BY WatchDoes DEF RetrievalInv, RequestsKept, ListsPass, Recorded
<1>2. ~Under(r)' => hist'[r] = hist[r]
  BY WatchDoes
<1>3. Under(r)' /\ req[r].pc # "idle" => hist'[r].published \subseteq hist[r].published
  BY <1>0, WatchDoes
<1>4. Under(r)' => hist'[r].published \subseteq Published(r)'
  BY <1>0, WatchDoes
<1>5. CASE req'[r] = req[r]
  <2>1. hist'[r].published \subseteq hist[r].published
    BY <1>2, <1>3, <1>5 DEF Under, Over
  <2> QED
    BY <1>1, <1>5, <2>1 DEF Passed
<1>6. CASE MovesWell(r) /\ req[r].pc # "idle"
  <2>1. Passed(req'[r], hist[r])
    BY <1>6 DEF MovesWell
  <2>2. hist'[r].published \subseteq hist[r].published
    BY <1>2, <1>3, <1>6
  <2> QED
    BY <2>1, <2>2 DEF Passed
<1>7. CASE MovesWell(r) /\ req[r].pc = "idle"
  <2> DEFINE h == [published |-> Published(r)]
  <2>1. Passed(req'[r], h) /\ table' = table /\ req'[r].pc # "idle" /\ h.published = Published(r)
    BY <1>7 DEF MovesWell
  <2>2. Published(r)' = Published(r)
    BY <1>0, <2>1 DEF Published
  <2>3. hist'[r].published \subseteq h.published
    BY <1>1, <1>2, <1>4, <1>7, <2>1, <2>2
  <2> QED
    BY <2>1, <2>3 DEF Passed
<1> QED
  BY <1>5, <1>6, <1>7

\* A step that keeps the tables and the caches, and moves the requests in who well, keeps
\* the invariant.
LEMMA Moves ==
  ASSUME RetrievalInv, Watch, script' = script, TablesKept', CachesKept', user'.id >= user.id, ModelsKept,
         req' \in [Requests -> Progress], NEW who,
         \A r \in Requests : req'[r] = req[r] \/ (r = who /\ MovesWell(r))
  PROVE  RetrievalInv'
<1>1. Requests' = Requests /\ Reads' = Reads /\ \A r : Op(r)' = Op(r)
  BY SameScript
<1>2. RequestsKept'
  <2>1. hist' \in [Requests -> Seen]
    BY WatchDoes
  <2>2. \A r \in Requests : Once(req'[r].got) /\ Once(req'[r].hot) /\ Once(req'[r].save)
    BY DEF MovesWell, RetrievalInv, RequestsKept
  <2>3. \A r \in Requests : req'[r].pc = "listed" => Op(r) = "list"
    BY DEF MovesWell, RetrievalInv, RequestsKept
  <2>4. Progress' = Progress /\ Seen' = Seen
    BY DEF Progress, Seen, Versions, Models
  <2> QED
    BY <1>1, <2>1, <2>2, <2>3, <2>4 DEF RequestsKept, Once
<1>3. Recorded'
  <2> SUFFICES ASSUME NEW r \in Requests
               PROVE  /\ Under(r)' /\ Op(r) \in Watched =>
                           /\ Shown(r)' \subseteq hist'[r].seen
                           /\ hist'[r].waiting \subseteq Waiting(r)'
                           /\ hist'[r].published \subseteq Published(r)'
                      /\ req'[r].pc = "idle" => hist'[r].published = {}
    BY <1>1 DEF Recorded, Watched
  <2>1. Under(r)' /\ Op(r) \in Watched =>
          /\ Shown(r)' \subseteq hist'[r].seen
          /\ hist'[r].waiting \subseteq Waiting(r)'
          /\ hist'[r].published \subseteq Published(r)'
    BY WatchDoes
  <2>2. req'[r].pc = "idle" => hist'[r].published = {}
    <3> SUFFICES ASSUME req'[r].pc = "idle" PROVE hist'[r].published = {}
      OBVIOUS
    <3>1. hist'[r] = hist[r]
      BY WatchDoes DEF Under
    <3>2. req'[r] = req[r]
      BY DEF MovesWell
    <3> QED
      BY <3>1, <3>2 DEF RetrievalInv, Recorded
  <2> QED
    BY <2>1, <2>2
<1>4. ReadsFit'
  <2> SUFFICES ASSUME NEW r \in Reads PROVE Fits(r, req[r], hist[r], table, user.id)'
    BY <1>1 DEF ReadsFit
  <2>1. r \in Requests
    BY DEF Reads
  <2> QED
    BY <2>1, ReadKept
<1>5. ListsPass'
  <2> SUFFICES ASSUME NEW r \in Requests, Op(r) = "list" PROVE Passed(req[r], hist[r])'
    BY <1>1 DEF ListsPass
  <2> QED
    BY ListKept
<1> QED
  BY <1>2, <1>3, <1>4, <1>5 DEF RetrievalInv

-----------------------------------------------------------------------------
(* The steps of a read.                                                     *)

LEMMA TablesSame ==
  ASSUME RetrievalInv, script' = script, UNCHANGED dbVars, UNCHANGED <<index, happened>>
  PROVE  TablesKept' /\ ModelsKept /\ user'.id >= user.id
<1>1. UNCHANGED <<table, user, pend, hold, routed, correction, winner>>
  BY DEF dbVars
<1>2. TablesKept
  BY DEF RetrievalInv
<1>3. TablesKept'
  BY <1>1, <1>2 DEF TablesKept, HoldType, Versions, Memory, User, Models, Once, Sourced
<1>4. user'.id >= user.id
  BY <1>1, <1>2 DEF TablesKept, User
<1> QED
  BY <1>1, <1>3, <1>4 DEF ModelsKept

LEMMA CachesSame ==
  ASSUME RetrievalInv, UNCHANGED cacheVars
  PROVE  CachesKept'
<1>1. UNCHANGED <<page, hot, l1, hotL, modelL>> /\ CachesKept
  BY DEF cacheVars, RetrievalInv
<1> QED
  BY <1>1 DEF CachesKept, Versions, Models, Once

LEMMA ReqIs ==
  ASSUME RetrievalInv, NEW q \in Requests
  PROVE  /\ req[q] \in Progress /\ Once(req[q].got) /\ Once(req[q].hot) /\ Once(req[q].save)
         /\ req[q].uid \in Nat /\ req[q].got \in Versions /\ req[q].hot \in Versions
         /\ req[q].ids \in SUBSET MemoryIds /\ req[q].models \in SUBSET Models
         /\ req[q].hit \in BOOLEAN /\ req[q].stale \in BOOLEAN /\ req[q].save \in Versions
         /\ req[q].cursor \in MemoryIds \cup {0} /\ user.id \in Nat
         /\ hist[q] \in Seen /\ hist[q].seen \in Versions /\ hist[q].published \in SUBSET MemoryIds
<1>1. req[q] \in Progress /\ Once(req[q].got) /\ Once(req[q].hot) /\ Once(req[q].save) /\ hist[q] \in Seen
  BY DEF RetrievalInv, RequestsKept
<1>2. user.id \in Nat
  BY DEF RetrievalInv, TablesKept, User
<1> QED
  BY <1>1, <1>2 DEF Progress, Seen

\* A read moves and the tables stay.
LEMMA Goes ==
  ASSUME RetrievalInv, Watch, script' = script, UNCHANGED dbVars, UNCHANGED <<index, happened>>, CachesKept',
         NEW q \in Requests, req' \in [Requests -> Progress],
         \A r \in Requests : r # q => req'[r] = req[r],
         Once(req'[q].got), Once(req'[q].hot), Once(req'[q].save), req'[q].pc \notin {"idle", "listed"},
         req[q].pc \notin ListPcs \cup Over,
         q \in Reads => Fits(q, req'[q], hist[q], table, user.id)
  PROVE  RetrievalInv'
<1>1. Op(q) # "list" /\ Under(q) /\ req[q].pc # "idle"
  BY DEF RetrievalInv, ListsPass, Passed, Under, ListPcs
<1>2. MovesWell(q)
  BY <1>1 DEF MovesWell
<1>3. \A r \in Requests : req'[r] = req[r] \/ (r = q /\ MovesWell(r))
  BY <1>2
<1> QED
  BY <1>3, TablesSame, Moves

\* Places that promise nothing yet.
PlainPcs == {"refused", "cache", "verify", "hot", "hydrate", "failed"}
LEMMA Plain ==
  ASSUME NEW r, NEW x, NEW h, NEW t, NEW i, x.pc \in PlainPcs, x.uid <= i
  PROVE  Fits(r, x, h, t, i)
  BY DEF Fits, PlainPcs, ReadPcs, HotPcs

LEMMA FitsIs ==
  ASSUME RetrievalInv, NEW q \in Reads
  PROVE  Fits(q, req[q], hist[q], table, user.id) /\ req[q].uid <= user.id /\ q \in Requests
         /\ (Under(q) => /\ Shown(q) \subseteq hist[q].seen /\ hist[q].published \subseteq Published(q)
                         /\ hist[q].waiting \subseteq Waiting(q))
<1>1. Fits(q, req[q], hist[q], table, user.id)
  BY DEF RetrievalInv, ReadsFit
<1>2. q \in Requests /\ Op(q) \in Watched
  BY DEF Reads, Watched
<1> QED
  BY <1>1, <1>2 DEF Fits, RetrievalInv, Recorded

LEMMA ResolveStep ==
  ASSUME RetrievalInv, NEW q, Resolve(q)
  PROVE  RetrievalInv'
<1>1. /\ q \in Requests /\ q \in Reads /\ req[q].pc = "idle" /\ Watch /\ script' = script
      /\ UNCHANGED <<table, pend, hold, routed, correction, winner, cacheVars, worldVars>>
  BY DEF Resolve, At, Rest
<1>2. req[q] \in Progress /\ Once(req[q].got) /\ Once(req[q].hot) /\ Once(req[q].save) /\ req[q].got = {}
      /\ user.id \in Nat /\ user \in User /\ req[q].uid <= user.id
  BY <1>1, ReqIs, FitsIs DEF Fits, RetrievalInv, TablesKept
<1>3. /\ user' \in User /\ user'.id = user.id
      /\ \/ req' = [req EXCEPT ![q].pc = "refused"]
         \/ req' = [req EXCEPT ![q].pc = "preflight", ![q].uid = user.id]
  BY <1>2 DEF Resolve, User
<1>4. req \in [Requests -> Progress]
  BY DEF RetrievalInv, RequestsKept
<1>5. /\ req' \in [Requests -> Progress] /\ \A r \in Requests : r # q => req'[r] = req[r]
      /\ req'[q].got = {} /\ req'[q].hot = req[q].hot /\ req'[q].save = req[q].save
      /\ req'[q].pc \in {"preflight", "refused"} /\ req'[q].uid <= user.id
  <2>1. CASE req' = [req EXCEPT ![q].pc = "refused"]
    <3>1. [req[q] EXCEPT !.pc = "refused"] \in Progress
      BY <1>2 DEF Progress, ReadPcs
    <3> QED
      BY <1>1, <1>2, <1>4, <2>1, <3>1
  <2>2. CASE req' = [req EXCEPT ![q].pc = "preflight", ![q].uid = user.id]
    <3>1. [req[q] EXCEPT !.pc = "preflight", !.uid = user.id] \in Progress
      BY <1>2 DEF Progress, ReadPcs
    <3>2. req'[q] = [req[q] EXCEPT !.pc = "preflight", !.uid = user.id]
      BY <1>1, <1>4, <2>2
    <3>3. req' \in [Requests -> Progress] /\ \A r \in Requests : r # q => req'[r] = req[r]
      BY <1>1, <1>4, <2>2, <3>1
    <3>4. req'[q].uid = user.id /\ req'[q].pc = "preflight" /\ req'[q].got = {} /\ req'[q].hot = req[q].hot
          /\ req'[q].save = req[q].save
      BY <1>2, <3>2 DEF Progress
    <3> QED
      BY <1>2, <3>3, <3>4
  <2> QED
    BY <1>3, <2>1, <2>2
<1>6. TablesKept' /\ ModelsKept /\ user'.id >= user.id
  <2>1. TablesKept /\ UNCHANGED <<script, index, happened, table, pend, hold, routed, correction, winner>>
    BY <1>1 DEF RetrievalInv, worldVars
  <2>2. TablesKept'
    BY <1>3, <2>1 DEF TablesKept, HoldType, Versions, Memory, User, Models, Once, Sourced
  <2> QED
    BY <1>2, <1>3, <2>1, <2>2 DEF ModelsKept
<1>7. CachesKept'
  BY <1>1, CachesSame
<1>8. MovesWell(q)
  <2>1. Fits(q, req'[q], hist[q], table, user.id)
    BY <1>5 DEF Fits, ReadPcs, HotPcs
  <2>2. Op(q) # "list"
    BY <1>1 DEF Reads
  <2> QED
    BY <1>1, <1>2, <1>5, <2>1, <2>2 DEF MovesWell, Once
<1>9. \A r \in Requests : req'[r] = req[r] \/ (r = q /\ MovesWell(r))
  BY <1>5, <1>8
<1> QED
  BY <1>1, <1>5, <1>6, <1>7, <1>9, Moves

LEMMA Still ==
  ASSUME RetrievalInv, Rest(<<dbVars, cacheVars, worldVars>>)
  PROVE  Watch /\ script' = script /\ UNCHANGED dbVars /\ UNCHANGED <<index, happened>> /\ CachesKept'
<1>1. Watch /\ script' = script /\ UNCHANGED dbVars /\ UNCHANGED cacheVars /\ UNCHANGED worldVars
  BY DEF Rest
<1> QED
  BY <1>1, CachesSame DEF worldVars

LEMMA EmptyIs == {} \in Versions /\ Once({}) /\ Ids({}) = {}
  BY DEF Versions, Once, Ids

LEMMA DoneIs ==
  ASSUME RetrievalInv, NEW q \in Requests, NEW A \in Versions, Once(A)
  PROVE  LET x == Done(q, "answered", A) IN
         /\ x \in Progress /\ x.pc = "answered" /\ x.got = A /\ x.hot = {} /\ x.save = req[q].save
         /\ x.uid = req[q].uid /\ x.hit = req[q].hit /\ x.stale = req[q].stale
<1> DEFINE x == Done(q, "answered", A)
<1>1. Idle \in Progress /\ Idle.hot = {}
  BY EmptyIs DEF Idle, Progress, ReadPcs
<1>2. /\ req[q].uid \in Nat /\ req[q].hit \in BOOLEAN /\ req[q].stale \in BOOLEAN /\ req[q].save \in Versions
      /\ "answered" \in ReadPcs
  BY ReqIs DEF ReadPcs
<1>3. x = [Idle EXCEPT !.pc = "answered", !.got = A, !.uid = req[q].uid, !.hit = req[q].hit,
                       !.stale = req[q].stale, !.save = req[q].save]
  BY Zenon DEF Done
<1> HIDE DEF x
<1>4. /\ x.pc = "answered" /\ x.got = A /\ x.hot = {} /\ x.save = req[q].save
      /\ x.uid = req[q].uid /\ x.hit = req[q].hit /\ x.stale = req[q].stale
  BY <1>1, <1>3 DEF Progress
<1>5. x \in Progress
  BY <1>1, <1>2, <1>3 DEF Progress
<1> QED
  BY <1>4, <1>5 DEF x

\* The answer is ready: it must be what the read has seen.
LEMMA Answers ==
  ASSUME RetrievalInv, Watch, script' = script, UNCHANGED dbVars, UNCHANGED <<index, happened>>, CachesKept',
         NEW q \in Requests, NEW A \in Versions, Once(A),
         req' = [req EXCEPT ![q] = Done(q, "answered", A)],
         req[q].pc \notin ListPcs \cup Over,
         q \in Reads => A \subseteq hist[q].seen
  PROVE  RetrievalInv'
<1> DEFINE x == Done(q, "answered", A)
<1>1. /\ x \in Progress /\ x.pc = "answered" /\ x.got = A /\ x.hot = {} /\ x.save = req[q].save
      /\ x.uid = req[q].uid
  BY DoneIs
<1>2. req \in [Requests -> Progress] /\ Once(req[q].save)
  BY DEF RetrievalInv, RequestsKept
<1> HIDE DEF x
<1>3. req' = [req EXCEPT ![q] = x]
  BY DEF x
<1>4. req'[q] = x /\ req' \in [Requests -> Progress] /\ \A r \in Requests : r # q => req'[r] = req[r]
  BY <1>1, <1>2, <1>3
<1>5. q \in Reads => Fits(q, x, hist[q], table, user.id)
  BY <1>1, FitsIs DEF Fits, ReadPcs, HotPcs
<1> QED
  BY <1>1, <1>2, <1>4, <1>5, EmptyIs, Goes

LEMMA PreflightStep ==
  ASSUME RetrievalInv, NEW q, Preflight(q)
  PROVE  RetrievalInv'
<1>1. /\ q \in Requests /\ req[q].pc = "preflight" /\ Rest(<<dbVars, cacheVars, worldVars>>)
      /\ req' = [req EXCEPT ![q] =
           IF Op(q) = "read" /\ Known(q) /\ Broad THEN Done(q, "answered", {})
           ELSE IF Op(q) = "read" /\ ~Known(q) THEN [@ EXCEPT !.pc = "final"]
           ELSE IF Asked[q].quota = "blocked" THEN Done(q, "answered", {})
           ELSE [@ EXCEPT !.pc = IF Op(q) = "asof" THEN "history" ELSE "cache"]]
  BY DEF Preflight, At
<1>2. Watch /\ script' = script /\ UNCHANGED dbVars /\ UNCHANGED <<index, happened>> /\ CachesKept'
  BY <1>1, Still
<1>3. /\ req[q] \in Progress /\ Once(req[q].got) /\ Once(req[q].hot) /\ Once(req[q].save)
      /\ req \in [Requests -> Progress] /\ req[q].pc \notin ListPcs \cup Over
  BY <1>1, ReqIs DEF RetrievalInv, RequestsKept, ListPcs, Over
<1>4. CASE req' = [req EXCEPT ![q] = Done(q, "answered", {})]
  BY <1>1, <1>2, <1>3, <1>4, EmptyIs, Answers
<1>5. CASE Op(q) = "read" /\ ~Known(q) /\ req' = [req EXCEPT ![q] = [req[q] EXCEPT !.pc = "final"]]
  <2>1. [req[q] EXCEPT !.pc = "final"] \in Progress
    BY <1>3 DEF Progress, ReadPcs
  <2>2. req' \in [Requests -> Progress] /\ (\A r \in Requests : r # q => req'[r] = req[r])
        /\ req'[q] = [req[q] EXCEPT !.pc = "final"]
    BY <1>1, <1>3, <1>5, <2>1
  <2>3. req'[q].pc = "final" /\ req'[q].uid = req[q].uid /\ req'[q].got = req[q].got /\ req'[q].hot = req[q].hot
        /\ req'[q].save = req[q].save
    BY <1>3, <2>2 DEF Progress
  <2>4. ASSUME q \in Reads PROVE Fits(q, req'[q], hist[q], table, user.id)
    <3>1. req[q].got = {} /\ req[q].uid <= user.id /\ hist[q].published \subseteq Published(q)
      BY <1>1, <2>4, FitsIs DEF Fits, Under, Over
    <3>2. user.id # req[q].uid \/ hist[q].published = {}
      BY <1>5, <3>1 DEF Known, Published
    <3>3. Excused(q, req'[q], user.id) \/ hist[q].published \subseteq Ids(req'[q].got)
      BY <2>3, <3>2 DEF Excused
    <3> QED
      BY <2>3, <3>1, <3>3 DEF Fits, ReadPcs, HotPcs
  <2> QED
    BY <1>1, <1>2, <1>3, <2>2, <2>3, <2>4, Goes
<1>6. ASSUME NEW p \in {"history", "cache"}, p = "history" => Op(q) = "asof",
             req' = [req EXCEPT ![q] = [req[q] EXCEPT !.pc = p]]
      PROVE  RetrievalInv'
  <2>1. [req[q] EXCEPT !.pc = p] \in Progress
    BY <1>3 DEF Progress, ReadPcs
  <2>2. req' \in [Requests -> Progress] /\ (\A r \in Requests : r # q => req'[r] = req[r])
        /\ req'[q] = [req[q] EXCEPT !.pc = p]
    BY <1>1, <1>3, <1>6, <2>1
  <2>3. req'[q].pc = p /\ req'[q].uid = req[q].uid /\ req'[q].got = req[q].got /\ req'[q].hot = req[q].hot
        /\ req'[q].save = req[q].save
    BY <1>3, <2>2 DEF Progress
  <2>4. ASSUME q \in Reads PROVE Fits(q, req'[q], hist[q], table, user.id)
    BY <1>6, <2>3, <2>4, FitsIs DEF Fits, ReadPcs, HotPcs
  <2> QED
    BY <1>1, <1>2, <1>3, <1>6, <2>2, <2>3, <2>4, Goes
<1> QED
  BY <1>1, <1>4, <1>5, <1>6

LEMMA GoesTo ==
  ASSUME RetrievalInv, Watch, script' = script, UNCHANGED dbVars, UNCHANGED <<index, happened>>, CachesKept',
         NEW q \in Requests, NEW x \in Progress, req' = [req EXCEPT ![q] = x],
         Once(x.got), Once(x.hot), Once(x.save), x.pc \notin {"idle", "listed"},
         req[q].pc \notin ListPcs \cup Over,
         q \in Reads => Fits(q, x, hist[q], table, user.id)
  PROVE  RetrievalInv'
<1>1. req \in [Requests -> Progress]
  BY DEF RetrievalInv, RequestsKept
<1>2. req'[q] = x /\ req' \in [Requests -> Progress] /\ \A r \in Requests : r # q => req'[r] = req[r]
  BY <1>1
<1> QED
  BY <1>2, Goes

\* A read moves on to a place that promises nothing, with what it got.
LEMMA GoesPlain ==
  ASSUME RetrievalInv, Watch, script' = script, UNCHANGED dbVars, UNCHANGED <<index, happened>>, CachesKept',
         NEW q \in Requests, NEW p \in PlainPcs, NEW g \in Versions, Once(g), NEW i \in SUBSET MemoryIds,
         req' = [req EXCEPT ![q] = [req[q] EXCEPT !.pc = p, !.got = g, !.ids = i]],
         req[q].pc \notin ListPcs \cup Over
  PROVE  RetrievalInv'
<1>1. PICK x : x = [req[q] EXCEPT !.pc = p, !.got = g, !.ids = i]
  OBVIOUS
<1>2. req[q] \in Progress /\ Once(req[q].hot) /\ Once(req[q].save) /\ p \in ReadPcs /\ p \notin {"idle", "listed"}
  BY ReqIs DEF PlainPcs, ReadPcs
<1>3. x \in Progress /\ x.pc = p /\ x.got = g /\ x.hot = req[q].hot /\ x.save = req[q].save /\ x.uid = req[q].uid
  BY <1>1, <1>2 DEF Progress
<1>4. q \in Reads => Fits(q, x, hist[q], table, user.id)
  BY <1>3, FitsIs, Plain
<1>5. req' = [req EXCEPT ![q] = x]
  BY <1>1
<1> QED
  BY <1>2, <1>3, <1>4, <1>5, GoesTo

LEMMA CacheStep ==
  ASSUME RetrievalInv, NEW q, CacheLocal(q) \/ CacheRedis(q) \/ CacheMiss(q)
  PROVE  RetrievalInv'
<1>1. q \in Requests /\ req[q].pc = "cache" /\ req[q].pc \notin ListPcs \cup Over
  BY DEF CacheLocal, CacheRedis, CacheMiss, At, ListPcs, Over
<1>2. /\ req[q] \in Progress /\ req \in [Requests -> Progress] /\ CachesKept /\ Proc(q) \in Processes
      /\ "verify" \in PlainPcs /\ "hot" \in PlainPcs
  BY <1>1, ReqIs, AskedIs DEF RetrievalInv, RequestsKept, PlainPcs, TablesKept
<1>3. CASE CacheLocal(q)
  <2>1. Watch /\ script' = script /\ UNCHANGED dbVars /\ UNCHANGED <<index, happened>> /\ CachesKept'
    BY <1>3, Still DEF CacheLocal
  <2>2. PICK g : g = l1[Proc(q)]
    OBVIOUS
  <2>3. g \in Versions /\ Once(g)
    BY <1>2, <2>2 DEF CachesKept
  <2>4. PICK i : i = req[q].ids
    OBVIOUS
  <2>5. i \in SUBSET MemoryIds
    BY <1>2, <2>4 DEF Progress
  <2>6. req' = [req EXCEPT ![q] = [req[q] EXCEPT !.pc = "verify", !.got = g, !.ids = i]]
    <3>1. req' = [req EXCEPT ![q].pc = "verify", ![q].got = g]
      BY <1>3, <2>2 DEF CacheLocal
    <3> QED
      BY <1>1, <1>2, <2>4, <3>1 DEF Progress
  <2> QED
    BY <1>1, <1>2, <2>1, <2>3, <2>5, <2>6, GoesPlain
<1>4. CASE CacheRedis(q)
  <2>1. /\ Watch /\ script' = script /\ UNCHANGED dbVars /\ UNCHANGED <<index, happened>>
        /\ UNCHANGED <<page, hot, hotL, modelL>> /\ l1' = [l1 EXCEPT ![Proc(q)] = page]
    BY <1>4 DEF CacheRedis, Rest, worldVars
  <2>2. PICK g : g = page
    OBVIOUS
  <2>3. g \in Versions /\ Once(g)
    BY <1>2, <2>2 DEF CachesKept
  <2>4. PICK i : i = req[q].ids
    OBVIOUS
  <2>5. i \in SUBSET MemoryIds
    BY <1>2, <2>4 DEF Progress
  <2>6. req' = [req EXCEPT ![q] = [req[q] EXCEPT !.pc = "verify", !.got = g, !.ids = i]]
    <3>1. req' = [req EXCEPT ![q].pc = "verify", ![q].got = g]
      BY <1>4, <2>2 DEF CacheRedis
    <3> QED
      BY <1>1, <1>2, <2>4, <3>1 DEF Progress
  <2>7. CachesKept'
    BY <1>2, <2>1, <2>2, <2>3 DEF CachesKept, Versions, Models, Once
  <2> QED
    BY <1>1, <1>2, <2>1, <2>3, <2>5, <2>6, <2>7, GoesPlain
<1>5. CASE CacheMiss(q)
  <2>1. Watch /\ script' = script /\ UNCHANGED dbVars /\ UNCHANGED <<index, happened>> /\ CachesKept'
    BY <1>5, Still DEF CacheMiss
  <2>2. PICK g, i : g = req[q].got /\ i = req[q].ids
    OBVIOUS
  <2>3. g \in Versions /\ Once(g) /\ i \in SUBSET MemoryIds
    BY <1>1, <2>2, ReqIs
  <2>4. req' = [req EXCEPT ![q] = [req[q] EXCEPT !.pc = "hot", !.got = g, !.ids = i]]
    <3>1. req' = [req EXCEPT ![q].pc = "hot"]
      BY <1>5 DEF CacheMiss, Go
    <3> QED
      BY <1>1, <1>2, <2>2, <3>1 DEF Progress
  <2> QED
    BY <1>1, <1>2, <2>1, <2>3, <2>4, GoesPlain
<1> QED
  BY <1>3, <1>4, <1>5

\* A result that names a memory once has as many entries as memories.
LEMMA OnceCounts ==
  ASSUME NEW S \in Versions, Once(S)
  PROVE  Cardinality(Ids(S)) = Cardinality(S) /\ Cardinality(S) \in Nat
<1> DEFINE f == [x \in S |-> x[1]]
<1>1. Ids(S) \in SUBSET MemoryIds
  BY IdsAre
<1>2. IsFiniteSet(Ids(S))
  BY <1>1, SettingIs, FS_Subset
<1>3. f \in [S -> Ids(S)] /\ (\A x, y \in S : f[x] = f[y] => x = y) /\ (\A m \in Ids(S) : \E x \in S : f[x] = m)
  BY DEF Ids, Once
<1>4. f \in Injection(S, Ids(S)) /\ f \in Surjection(S, Ids(S))
  BY <1>3 DEF Injection, IsInjective, Surjection
<1> HIDE DEF f
<1>5. Cardinality(S) = Cardinality(Ids(S))
  BY <1>2, <1>4, FS_Injection
<1> QED
  BY <1>2, <1>5, FS_CardinalityType

LEMMA FullIs ==
  ASSUME NEW S \in Versions, Once(S), Cardinality(S) >= Limit
  PROVE  MemoryIds \subseteq Ids(S)
<1>1. Cardinality(Ids(S)) >= Limit /\ Cardinality(Ids(S)) \in Nat /\ Ids(S) \in SUBSET MemoryIds
  BY OnceCounts, IdsAre
<1>2. /\ Cardinality(Ids(S)) <= Cardinality(MemoryIds)
      /\ Cardinality(MemoryIds) = Cardinality(Ids(S)) => MemoryIds = Ids(S)
  BY <1>1, SettingIs, FS_Subset
<1> QED
  BY <1>1, <1>2, SettingIs

LEMMA VerifyStep ==
  ASSUME RetrievalInv, NEW q, Verify(q)
  PROVE  RetrievalInv'
<1>1. /\ q \in Requests /\ req[q].pc = "verify" /\ req[q].pc \notin ListPcs \cup Over
      /\ Rest(<<dbVars, cacheVars, worldVars>>)
      /\ req' = [req EXCEPT ![q] =
           IF Hydrate(q, req[q].got) = req[q].got THEN [req[q] EXCEPT !.pc = "final", !.hit = TRUE]
           ELSE [req[q] EXCEPT !.pc = "hot", !.got = {}]]
  BY DEF Verify, At, ListPcs, Over
<1>2. Watch /\ script' = script /\ UNCHANGED dbVars /\ UNCHANGED <<index, happened>> /\ CachesKept'
  BY <1>1, Still
<1>3. /\ req[q] \in Progress /\ Once(req[q].got) /\ Once(req[q].hot) /\ Once(req[q].save)
      /\ req[q].got \in Versions /\ TablesKept
  BY <1>1, ReqIs DEF RetrievalInv
<1>4. CASE Hydrate(q, req[q].got) = req[q].got
  <2>1. PICK x : x = [req[q] EXCEPT !.pc = "final", !.hit = TRUE]
    OBVIOUS
  <2>2. /\ x \in Progress /\ x.pc = "final" /\ x.hit = TRUE /\ x.got = req[q].got /\ x.hot = req[q].hot
        /\ x.save = req[q].save /\ x.uid = req[q].uid
    BY <1>3, <2>1 DEF Progress, ReadPcs
  <2>3. req[q].got \subseteq Shown(q)
    BY <1>3, <1>4, IdsAre, HydrateIs
  <2>4. ASSUME q \in Reads PROVE Fits(q, x, hist[q], table, user.id)
    <3>1. req[q].uid <= user.id /\ Shown(q) \subseteq hist[q].seen
      BY <1>1, <2>4, FitsIs DEF Under
    <3>2. Excused(q, x, user.id)
      BY <2>2 DEF Excused
    <3> QED
      BY <2>2, <2>3, <3>1, <3>2 DEF Fits, ReadPcs, HotPcs
  <2>5. req' = [req EXCEPT ![q] = x]
    BY <1>1, <1>4, <2>1
  <2> QED
    BY <1>1, <1>2, <1>3, <2>2, <2>4, <2>5, GoesTo
<1>5. CASE Hydrate(q, req[q].got) # req[q].got
  <2>1. PICK g, i : g = {} /\ i = req[q].ids
    OBVIOUS
  <2>2. i \in SUBSET MemoryIds /\ "hot" \in PlainPcs /\ g \in Versions /\ Once(g)
    BY <1>1, <2>1, ReqIs, EmptyIs DEF PlainPcs
  <2>3. [req[q] EXCEPT !.pc = "hot", !.got = g, !.ids = i] = [req[q] EXCEPT !.pc = "hot", !.got = {}]
    BY <1>3, <2>1 DEF Progress
  <2>4. req' = [req EXCEPT ![q] = [req[q] EXCEPT !.pc = "hot", !.got = g, !.ids = i]]
    BY <1>1, <1>5, <2>3
  <2>5. q \in Requests /\ req[q].pc \notin ListPcs \cup Over
    BY <1>1
  <2> QED
    BY <1>2, <2>2, <2>4, <2>5, GoesPlain
<1> QED
  BY <1>4, <1>5

LEMMA HotStep ==
  ASSUME RetrievalInv, NEW q, HotLocal(q) \/ HotRedis(q)
  PROVE  RetrievalInv'
<1>1. /\ q \in Requests /\ req[q].pc = "hot" /\ req[q].pc \notin ListPcs \cup Over
      /\ Watch /\ script' = script /\ UNCHANGED dbVars /\ UNCHANGED <<index, happened>>
      /\ UNCHANGED <<page, hot, l1, modelL>>
  BY DEF HotLocal, HotRedis, At, ListPcs, Over, Rest, worldVars, cacheVars
<1>2. /\ req[q] \in Progress /\ req \in [Requests -> Progress] /\ CachesKept /\ Proc(q) \in Processes
      /\ "hydrate" \in PlainPcs
  BY <1>1, ReqIs, AskedIs DEF RetrievalInv, RequestsKept, PlainPcs, TablesKept
<1>3. PICK g : g = req[q].got
  OBVIOUS
<1>4. g \in Versions /\ Once(g)
  BY <1>1, <1>3, ReqIs
<1>5. CachesKept' /\ \E i \in SUBSET MemoryIds : req' = [req EXCEPT ![q].pc = "hydrate", ![q].ids = i]
  <2>1. CASE HotLocal(q)
    <3>1. Ids(hotL[Proc(q)]) \in SUBSET MemoryIds
      BY <1>2, IdsAre DEF CachesKept
    <3> QED
      BY <2>1, <3>1, Still DEF HotLocal
  <2>2. CASE HotRedis(q)
    <3>1. hotL' = [hotL EXCEPT ![Proc(q)] = hot] /\ Ids(hot) \in SUBSET MemoryIds
      BY <1>2, <2>2, IdsAre DEF CachesKept, HotRedis
    <3>2. CachesKept'
      BY <1>1, <1>2, <3>1 DEF CachesKept, Versions, Models, Once
    <3> QED
      BY <2>2, <3>1, <3>2 DEF HotRedis
  <2> QED
    BY <2>1, <2>2
<1>6. PICK i \in SUBSET MemoryIds : req' = [req EXCEPT ![q].pc = "hydrate", ![q].ids = i]
  BY <1>5
<1>7. req' = [req EXCEPT ![q] = [req[q] EXCEPT !.pc = "hydrate", !.got = g, !.ids = i]]
  BY <1>1, <1>2, <1>3, <1>6 DEF Progress
<1> QED
  BY <1>1, <1>2, <1>4, <1>5, <1>7, GoesPlain

LEMMA HydrateHotStep ==
  ASSUME RetrievalInv, NEW q, HydrateHot(q)
  PROVE  RetrievalInv'
<1>1. /\ q \in Requests /\ req[q].pc = "hydrate" /\ req[q].pc \notin ListPcs \cup Over
      /\ Rest(<<dbVars, cacheVars, worldVars>>)
  BY DEF HydrateHot, At, ListPcs, Over
<1>2. Watch /\ script' = script /\ UNCHANGED dbVars /\ UNCHANGED <<index, happened>> /\ CachesKept'
  BY <1>1, Still
<1>3. /\ req[q] \in Progress /\ Once(req[q].got) /\ Once(req[q].hot) /\ Once(req[q].save)
      /\ req[q].ids \in SUBSET MemoryIds /\ TablesKept
  BY <1>1, ReqIs DEF RetrievalInv
<1>4. Ids({<<m, 0>> : m \in req[q].ids}) \in SUBSET MemoryIds
  BY <1>3 DEF Ids
<1>5. PICK f : f = Hydrate(q, {<<m, 0>> : m \in req[q].ids})
  OBVIOUS
<1>6. f \in Versions /\ Once(f) /\ f \subseteq Shown(q)
  BY <1>3, <1>4, <1>5, HydrateIs
<1>7. req' = [req EXCEPT ![q] =
       IF Asked[q].quota = "degraded_retrieve" THEN [req[q] EXCEPT !.pc = "final", !.got = f, !.ids = {}]
       ELSE [req[q] EXCEPT !.pc = "pending", !.hot = f, !.ids = {}]]
  BY <1>5 DEF HydrateHot
<1>8. q \in Reads => /\ req[q].uid <= user.id /\ f \subseteq hist[q].seen
  BY <1>1, <1>6, FitsIs DEF Under
<1>9. CASE Asked[q].quota = "degraded_retrieve"
  <2>1. PICK x : x = [req[q] EXCEPT !.pc = "final", !.got = f, !.ids = {}]
    OBVIOUS
  <2>2. /\ x \in Progress /\ x.pc = "final" /\ x.got = f /\ x.hot = req[q].hot /\ x.save = req[q].save
        /\ x.uid = req[q].uid
    BY <1>3, <1>6, <2>1 DEF Progress, ReadPcs
  <2>3. q \in Reads => Fits(q, x, hist[q], table, user.id)
    <3>1. Excused(q, x, user.id)
      BY <1>9 DEF Excused
    <3> QED
      BY <1>8, <2>2, <3>1 DEF Fits, ReadPcs, HotPcs
  <2>4. req' = [req EXCEPT ![q] = x]
    BY <1>7, <1>9, <2>1
  <2> QED
    BY <1>1, <1>2, <1>3, <1>6, <2>2, <2>3, <2>4, GoesTo
<1>10. CASE Asked[q].quota # "degraded_retrieve"
  <2>1. PICK x : x = [req[q] EXCEPT !.pc = "pending", !.hot = f, !.ids = {}]
    OBVIOUS
  <2>2. /\ x \in Progress /\ x.pc = "pending" /\ x.hot = f /\ x.got = req[q].got /\ x.save = req[q].save
        /\ x.uid = req[q].uid
    BY <1>3, <1>6, <2>1 DEF Progress, ReadPcs, HotPcs
  <2>3. q \in Reads => Fits(q, x, hist[q], table, user.id)
    BY <1>8, <2>2 DEF Fits, ReadPcs, HotPcs
  <2>4. req' = [req EXCEPT ![q] = x]
    BY <1>7, <1>10, <2>1
  <2> QED
    BY <1>1, <1>2, <1>3, <1>6, <2>2, <2>3, <2>4, GoesTo
<1> QED
  BY <1>9, <1>10

LEMMA BranchStep ==
  ASSUME RetrievalInv, NEW q, Branch(q)
  PROVE  RetrievalInv'
<1>1. /\ q \in Requests /\ req[q].pc = "pending" /\ req[q].pc \notin ListPcs \cup Over
      /\ Rest(<<dbVars, cacheVars, worldVars>>)
  BY DEF Branch, At, ListPcs, Over
<1>2. Watch /\ script' = script /\ UNCHANGED dbVars /\ UNCHANGED <<index, happened>> /\ CachesKept'
  BY <1>1, Still
<1>3. /\ req[q] \in Progress /\ Once(req[q].got) /\ Once(req[q].hot) /\ Once(req[q].save)
      /\ req[q].hot \in Versions /\ req \in [Requests -> Progress]
  BY <1>1, ReqIs DEF RetrievalInv, RequestsKept
<1>4. \E p \in {"cold", "coldstart", "full", "embed"} :
        req' = [req EXCEPT ![q].pc = p] /\ (p = "full" => Cardinality(req[q].hot) >= Limit)
  BY DEF Branch, Go
<1>5. PICK p \in {"cold", "coldstart", "full", "embed"} :
        req' = [req EXCEPT ![q].pc = p] /\ (p = "full" => Cardinality(req[q].hot) >= Limit)
  BY <1>4
<1>6. p = "full" => MemoryIds \subseteq Ids(req[q].hot)
  BY <1>3, <1>5, FullIs DEF RetrievalInv
<1>7. PICK x : x = [req[q] EXCEPT !.pc = p]
  OBVIOUS
<1>8. /\ x \in Progress /\ x.pc = p /\ x.got = req[q].got /\ x.hot = req[q].hot /\ x.save = req[q].save
      /\ x.uid = req[q].uid
  BY <1>3, <1>7 DEF Progress, ReadPcs, HotPcs
<1>9. q \in Reads => Fits(q, x, hist[q], table, user.id)
  <2>1. q \in Reads => req[q].uid <= user.id /\ req[q].hot \subseteq hist[q].seen
    BY <1>1, FitsIs DEF Fits, HotPcs
  <2> QED
    BY <1>6, <1>8, <2>1 DEF Fits, ReadPcs, HotPcs
<1>10. req' = [req EXCEPT ![q] = x]
  BY <1>1, <1>3, <1>5, <1>7
<1> QED
  BY <1>1, <1>2, <1>3, <1>8, <1>9, <1>10, GoesTo

LEMMA PublishedIs ==
  ASSUME RetrievalInv, NEW q \in Reads, Under(q), NEW m \in hist[q].published
  PROVE  /\ m \in MemoryIds /\ m \notin Sourced /\ user.st = "open" /\ Current(m)
         /\ <<m, table[m].model>> \in index
<1>1. m \in Published(q) /\ Op(q) # "list"
  BY FitsIs DEF Reads
<1> QED
  BY <1>1 DEF Published

\* What is read from the database and the hot tier together.
LEMMA ColdMerge ==
  ASSUME RetrievalInv, NEW q \in Requests, req[q].pc \in HotPcs
  PROVE  LET S == Merge(req[q].hot, Owned(q, ColdStart)) IN
         /\ S \in Versions /\ Once(S)
         /\ q \in Reads => /\ S \subseteq hist[q].seen
                           /\ Excused(q, req[q], user.id) \/ hist[q].published \subseteq Ids(S)
<1> DEFINE T == Owned(q, ColdStart)
           S == Merge(req[q].hot, T)
<1>1. req[q].hot \in Versions /\ Once(req[q].hot) /\ TablesKept
  BY ReqIs DEF RetrievalInv
<1>2. /\ ColdStart \in Versions /\ Once(ColdStart) /\ ColdStart \subseteq Shown(q)
      /\ Ids(ColdStart) = {m \in MemoryIds : Current(m)}
  BY <1>1, ColdIs
<1>3. T \in Versions /\ Once(T) /\ T \subseteq Shown(q) /\ (user.id = req[q].uid => T = ColdStart)
  BY <1>2, EmptyIs DEF Owned
<1> HIDE DEF T
<1>4. S \in Versions /\ Once(S) /\ S \subseteq req[q].hot \cup T /\ Ids(S) = Ids(req[q].hot) \cup Ids(T)
  BY <1>1, <1>3, MergeIs
<1> HIDE DEF S
<1>5. ASSUME q \in Reads
      PROVE  S \subseteq hist[q].seen /\ (Excused(q, req[q], user.id) \/ hist[q].published \subseteq Ids(S))
  <2>1. Under(q)
    BY DEF Under, HotPcs, Over
  <2>2. req[q].hot \subseteq hist[q].seen /\ Shown(q) \subseteq hist[q].seen
    BY <1>5, <2>1, FitsIs DEF Fits
  <2>3. S \subseteq hist[q].seen
    BY <1>3, <1>4, <2>2
  <2>4. user.id # req[q].uid => Excused(q, req[q], user.id)
    BY DEF Excused
  <2>5. user.id = req[q].uid => hist[q].published \subseteq Ids(S)
    BY <1>2, <1>3, <1>4, <1>5, <2>1, PublishedIs
  <2> QED
    BY <2>3, <2>4, <2>5
<1> QED
  BY <1>4, <1>5 DEF S, T

\* The read has its candidates.
LEMMA Collected ==
  ASSUME RetrievalInv, Watch, script' = script, UNCHANGED dbVars, UNCHANGED <<index, happened>>, CachesKept',
         NEW q \in Requests, req[q].pc \in HotPcs, NEW S \in Versions, Once(S), NEW x \in Progress,
         req' = [req EXCEPT ![q] = x], x.pc = "final", x.got = S, Once(x.hot), Once(x.save), x.uid = req[q].uid,
         x.hit = req[q].hit, x.stale = req[q].stale,
         q \in Reads => /\ S \subseteq hist[q].seen
                        /\ Excused(q, req[q], user.id) \/ hist[q].published \subseteq Ids(S)
  PROVE  RetrievalInv'
<1>1. req[q].pc \notin ListPcs \cup Over
  BY DEF HotPcs, ListPcs, Over
<1>2. Excused(q, req[q], user.id) => Excused(q, x, user.id)
  BY DEF Excused
<1>3. q \in Reads => Fits(q, x, hist[q], table, user.id)
  BY <1>2, FitsIs DEF Fits, ReadPcs, HotPcs
<1> QED
  BY <1>1, <1>3, GoesTo

LEMMA KeepStep ==
  ASSUME RetrievalInv, NEW q \in Requests, req[q].pc \in HotPcs, NEW S \in Versions, Once(S), Keep(q, S),
         q \in Reads => /\ S \subseteq hist[q].seen
                        /\ Excused(q, req[q], user.id) \/ hist[q].published \subseteq Ids(S)
  PROVE  RetrievalInv'
<1>1. /\ Watch /\ script' = script /\ UNCHANGED dbVars /\ UNCHANGED <<index, happened>>
      /\ UNCHANGED <<page, hot, hotL, modelL>>
      /\ l1' = [l1 EXCEPT ![Proc(q)] = IF user.id = req[q].uid THEN S ELSE l1[Proc(q)]]
      /\ req' = [req EXCEPT ![q].pc = "final", ![q].got = S, ![q].save = S, ![q].hot = {},
                            ![q].ids = {}, ![q].models = {}]
  BY DEF Keep, Rest, worldVars
<1>2. CachesKept /\ Proc(q) \in Processes /\ req[q] \in Progress /\ req \in [Requests -> Progress]
  BY ReqIs, AskedIs DEF RetrievalInv, RequestsKept, TablesKept
<1>3. CachesKept'
  BY <1>1, <1>2 DEF CachesKept, Versions, Models, Once
<1>4. PICK x : x = [req[q] EXCEPT !.pc = "final", !.got = S, !.save = S, !.hot = {}, !.ids = {}, !.models = {}]
  OBVIOUS
<1>5. /\ x.pc = "final" /\ x.got = S /\ x.hot = {} /\ x.save = S /\ x.uid = req[q].uid
      /\ x.hit = req[q].hit /\ x.stale = req[q].stale
  BY <1>2, <1>4 DEF Progress
<1>6. x \in Progress
  BY <1>2, <1>4, EmptyIs DEF Progress, ReadPcs
<1>7. req' = [req EXCEPT ![q] = x]
  BY <1>1, <1>2, <1>4
<1>8. Watch /\ script' = script /\ UNCHANGED dbVars /\ UNCHANGED <<index, happened>>
  BY <1>1
<1>9. Once(x.hot) /\ Once(x.save)
  BY <1>5, EmptyIs
<1> QED
  BY <1>3, <1>5, <1>6, <1>7, <1>8, <1>9, Collected

LEMMA ColdStep ==
  ASSUME RetrievalInv, NEW q, Cold(q)
  PROVE  RetrievalInv'
<1>1. q \in Requests /\ req[q].pc \in HotPcs /\ Rest(<<dbVars, cacheVars, worldVars>>)
  BY DEF Cold, At, HotPcs
<1>2. Watch /\ script' = script /\ UNCHANGED dbVars /\ UNCHANGED <<index, happened>> /\ CachesKept'
  BY <1>1, Still
<1>3. PICK S : S = Merge(req[q].hot, Owned(q, ColdStart))
  OBVIOUS
<1>4. /\ S \in Versions /\ Once(S)
      /\ q \in Reads => /\ S \subseteq hist[q].seen
                        /\ Excused(q, req[q], user.id) \/ hist[q].published \subseteq Ids(S)
  BY <1>1, <1>3, ColdMerge
<1>5. PICK x : x = [req[q] EXCEPT !.pc = "final", !.got = S, !.hot = {}]
  OBVIOUS
<1>6. req[q] \in Progress /\ req \in [Requests -> Progress] /\ Once(req[q].save)
  BY <1>1, ReqIs DEF RetrievalInv, RequestsKept
<1>7. /\ x.pc = "final" /\ x.got = S /\ x.hot = {} /\ x.save = req[q].save /\ x.uid = req[q].uid
      /\ x.hit = req[q].hit /\ x.stale = req[q].stale
  BY <1>5, <1>6 DEF Progress
<1>8. x \in Progress
  BY <1>4, <1>5, <1>6, EmptyIs DEF Progress, ReadPcs
<1>9. req' = [req EXCEPT ![q] = x]
  <2>1. req' = [req EXCEPT ![q].pc = "final", ![q].got = S, ![q].hot = {}]
    BY <1>3 DEF Cold
  <2> QED
    BY <1>1, <1>5, <1>6, <2>1
<1>10. Once(x.hot) /\ Once(x.save)
  BY <1>6, <1>7, EmptyIs
<1> QED
  BY <1>1, <1>2, <1>4, <1>7, <1>8, <1>9, <1>10, Collected

LEMMA ColdKeptStep ==
  ASSUME RetrievalInv, NEW q, ColdKept(q) \/ Fallback(q)
  PROVE  RetrievalInv'
<1>1. q \in Requests /\ req[q].pc \in HotPcs
  BY DEF ColdKept, Fallback, At, HotPcs
<1>2. PICK S : S = Merge(req[q].hot, Owned(q, ColdStart))
  OBVIOUS
<1>3. /\ S \in Versions /\ Once(S)
      /\ q \in Reads => /\ S \subseteq hist[q].seen
                        /\ Excused(q, req[q], user.id) \/ hist[q].published \subseteq Ids(S)
  BY <1>1, <1>2, ColdMerge
<1>4. Keep(q, S)
  BY <1>2 DEF ColdKept, Fallback
<1> QED
  BY <1>1, <1>3, <1>4, KeepStep

LEMMA FullStep ==
  ASSUME RetrievalInv, NEW q, Full(q)
  PROVE  RetrievalInv'
<1>1. q \in Requests /\ req[q].pc = "full" /\ req[q].pc \in HotPcs
  BY DEF Full, At, HotPcs
<1>2. PICK S : S = req[q].hot
  OBVIOUS
<1>3. S \in Versions /\ Once(S) /\ hist[q].published \in SUBSET MemoryIds
  BY <1>1, <1>2, ReqIs
<1>4. q \in Reads => /\ S \subseteq hist[q].seen
                     /\ Excused(q, req[q], user.id) \/ hist[q].published \subseteq Ids(S)
  BY <1>1, <1>2, <1>3, FitsIs DEF Fits
<1>5. Keep(q, S)
  BY <1>2 DEF Full
<1> QED
  BY <1>1, <1>3, <1>4, <1>5, KeepStep

LEMMA EmbedStep ==
  ASSUME RetrievalInv, NEW q, Embed(q)
  PROVE  RetrievalInv'
<1> DEFINE now == {table[m].model : m \in {n \in MemoryIds : table[n].row = "live"}}
<1>1. /\ q \in Requests /\ req[q].pc = "embed" /\ req[q].pc \notin ListPcs \cup Over
      /\ Watch /\ script' = script /\ UNCHANGED dbVars /\ UNCHANGED <<index, happened>>
      /\ UNCHANGED <<page, hot, l1, hotL>>
  BY DEF Embed, At, Rest, worldVars, ListPcs, Over
<1>2. CachesKept /\ Proc(q) \in Processes /\ req[q] \in Progress /\ req \in [Requests -> Progress] /\ TablesKept
      /\ Once(req[q].got) /\ Once(req[q].hot) /\ Once(req[q].save)
  BY <1>1, ReqIs, AskedIs DEF RetrievalInv, RequestsKept, TablesKept
<1>3. now \in SUBSET Models
  BY <1>2 DEF TablesKept, Memory
<1>4. PICK ms : /\ ms \in {modelL[Proc(q)], IF now = {} THEN {"new"} ELSE now} \ {{}}
                /\ modelL' = [modelL EXCEPT ![Proc(q)] = ms]
                /\ req' = [req EXCEPT ![q].pc = "search", ![q].models = ms, ![q].stale = ms # now]
  BY DEF Embed
<1> HIDE DEF now
<1>5. ms \in SUBSET Models
  BY <1>2, <1>3, <1>4 DEF CachesKept, Models
<1>6. CachesKept'
  <2>1. modelL' \in [Processes -> SUBSET Models]
    BY <1>2, <1>4, <1>5 DEF CachesKept
  <2> QED
    BY <1>1, <1>2, <2>1 DEF CachesKept, Versions, Models, Once
<1>7. PICK b : b = (ms # now)
  OBVIOUS
<1>8. b \in BOOLEAN
  BY <1>7
<1>9. PICK x : x = [req[q] EXCEPT !.pc = "search", !.models = ms, !.stale = b]
  OBVIOUS
<1>10. /\ x.pc = "search" /\ x.got = req[q].got /\ x.hot = req[q].hot /\ x.save = req[q].save /\ x.uid = req[q].uid
       /\ x.models = ms /\ x.stale = b
  BY <1>2, <1>9 DEF Progress
<1>11. x \in Progress
  BY <1>2, <1>5, <1>8, <1>9 DEF Progress, ReadPcs, HotPcs
<1>12. ASSUME q \in Reads PROVE Fits(q, x, hist[q], table, user.id)
  <2>1. Under(q)
    BY <1>1 DEF Under, ListPcs
  <2>2. req[q].uid <= user.id /\ req[q].hot \subseteq hist[q].seen
    BY <1>1, <1>12, FitsIs DEF Fits, HotPcs
  <2>3. ASSUME ms = now PROVE \A m \in hist[q].published : table[m].model \in x.models
    <3> SUFFICES ASSUME NEW m \in hist[q].published PROVE table[m].model \in x.models
      OBVIOUS
    <3>1. m \in MemoryIds /\ table[m].row = "live"
      BY <1>12, <2>1, PublishedIs DEF Current
    <3> QED
      BY <1>10, <2>3, <3>1 DEF now
  <2>4. ms # now => Excused(q, x, user.id)
    BY <1>7, <1>10 DEF Excused
  <2>5. Excused(q, x, user.id) \/ \A m \in hist[q].published : table[m].model \in x.models
    BY <2>3, <2>4
  <2> QED
    BY <1>10, <2>2, <2>5 DEF Fits, ReadPcs, HotPcs
<1>13. req' = [req EXCEPT ![q] = x]
  BY <1>1, <1>2, <1>4, <1>7, <1>9
<1> QED
  BY <1>1, <1>2, <1>6, <1>10, <1>11, <1>12, <1>13, GoesTo

LEMMA EmbedFailsStep ==
  ASSUME RetrievalInv, NEW q, EmbedFails(q)
  PROVE  RetrievalInv'
<1>1. /\ q \in Requests /\ req[q].pc = "search" /\ req[q].pc \notin ListPcs \cup Over
      /\ Rest(<<dbVars, cacheVars, worldVars>>)
      /\ req' = [req EXCEPT ![q] = [Idle EXCEPT !.pc = "failed", !.uid = req[q].uid]]
  BY DEF EmbedFails, At, ListPcs, Over
<1>2. Watch /\ script' = script /\ UNCHANGED dbVars /\ UNCHANGED <<index, happened>> /\ CachesKept'
  BY <1>1, Still
<1>3. Idle \in Progress /\ Idle.hot = {} /\ Idle.got = {} /\ Idle.save = {} /\ req[q].uid \in Nat
  BY <1>1, EmptyIs, ReqIs DEF Idle, Progress, ReadPcs
<1>4. PICK x : x = [Idle EXCEPT !.pc = "failed", !.uid = req[q].uid]
  OBVIOUS
<1>5. x.pc = "failed" /\ x.uid = req[q].uid /\ x.got = {} /\ x.hot = {} /\ x.save = {}
  BY <1>3, <1>4 DEF Progress
<1>6. x \in Progress
  BY <1>3, <1>4 DEF Progress, ReadPcs
<1>7. q \in Reads => Fits(q, x, hist[q], table, user.id)
  BY <1>5, FitsIs, Plain DEF PlainPcs
<1>8. req' = [req EXCEPT ![q] = x] /\ q \in Requests /\ req[q].pc \notin ListPcs \cup Over
  BY <1>1, <1>4
<1> QED
  BY <1>2, <1>5, <1>6, <1>7, <1>8, EmptyIs, GoesTo

LEMMA SearchStep ==
  ASSUME RetrievalInv, NEW q, Search(q)
  PROVE  RetrievalInv'
<1>1. /\ q \in Requests /\ req[q].pc = "search" /\ req[q].pc \notin ListPcs \cup Over
      /\ Rest(<<dbVars, cacheVars, worldVars>>)
  BY DEF Search, At, ListPcs, Over
<1>2. Watch /\ script' = script /\ UNCHANGED dbVars /\ UNCHANGED <<index, happened>> /\ CachesKept'
  BY <1>1, Still
<1>3. req[q] \in Progress /\ req \in [Requests -> Progress]
      /\ Once(req[q].got) /\ Once(req[q].hot) /\ Once(req[q].save)
  BY <1>1, ReqIs DEF RetrievalInv, RequestsKept
<1>4. PICK i, b : i = (IF open THEN {} ELSE Searched(q)) /\ b = (req[q].stale \/ open)
  OBVIOUS
<1>5. i \in SUBSET MemoryIds /\ b \in BOOLEAN
  BY <1>4 DEF Searched
<1>6. req' = [req EXCEPT ![q].pc = "fetch", ![q].ids = i, ![q].stale = b]
  BY <1>1, <1>3, <1>4 DEF Search
<1>7. PICK x : x = [req[q] EXCEPT !.pc = "fetch", !.ids = i, !.stale = b]
  OBVIOUS
<1>8. /\ x.pc = "fetch" /\ x.got = req[q].got /\ x.hot = req[q].hot /\ x.save = req[q].save /\ x.uid = req[q].uid
      /\ x.ids = i /\ x.stale = b /\ x.hit = req[q].hit
  BY <1>3, <1>7 DEF Progress
<1>9. x \in Progress
  BY <1>3, <1>5, <1>7 DEF Progress, ReadPcs, HotPcs
<1>10. ASSUME q \in Reads PROVE Fits(q, x, hist[q], table, user.id)
  <2>1. Under(q)
    BY <1>1 DEF Under, ListPcs
  <2>2. req[q].uid <= user.id /\ req[q].hot \subseteq hist[q].seen
        /\ (Excused(q, req[q], user.id) \/ \A m \in hist[q].published : table[m].model \in req[q].models)
    BY <1>1, <1>10, FitsIs DEF Fits, HotPcs
  <2>3. Excused(q, req[q], user.id) \/ open => Excused(q, x, user.id)
    BY <1>4, <1>8 DEF Excused
  <2>4. ~open /\ ~Excused(q, req[q], user.id) => hist[q].published \subseteq x.ids
    <3> SUFFICES ASSUME ~open, ~Excused(q, req[q], user.id), NEW m \in hist[q].published PROVE m \in x.ids
      OBVIOUS
    <3>1. m \in MemoryIds /\ <<m, table[m].model>> \in index
      BY <1>10, <2>1, PublishedIs
    <3> QED
      BY <1>4, <1>8, <2>2, <3>1 DEF Searched
  <2>5. Excused(q, x, user.id) \/ hist[q].published \subseteq x.ids
    BY <2>3, <2>4
  <2> QED
    BY <1>8, <2>2, <2>5 DEF Fits, ReadPcs, HotPcs
<1>11. req' = [req EXCEPT ![q] = x]
  BY <1>1, <1>3, <1>6, <1>7
<1> QED
  BY <1>1, <1>2, <1>3, <1>8, <1>9, <1>10, <1>11, GoesTo

LEMMA NumberedIds ==
  ASSUME NEW S \in SUBSET MemoryIds
  PROVE  Ids({<<m, 0>> : m \in S}) = S
<1> DEFINE T == {<<m, 0>> : m \in S}
<1>1. \A m \in S : <<m, 0>> \in T /\ <<m, 0>>[1] = m
  OBVIOUS
<1>2. \A x \in T : x[1] \in S
  OBVIOUS
<1> HIDE DEF T
<1>3. Ids(T) = S
  BY <1>1, <1>2 DEF Ids
<1> QED
  BY <1>3 DEF T

LEMMA FetchStep ==
  ASSUME RetrievalInv, NEW q, Fetch(q)
  PROVE  RetrievalInv'
<1>1. q \in Requests /\ req[q].pc = "fetch" /\ req[q].pc \in HotPcs
  BY DEF Fetch, At, HotPcs
<1>2. /\ req[q] \in Progress /\ req \in [Requests -> Progress] /\ Once(req[q].save) /\ Once(req[q].hot)
      /\ req[q].hot \in Versions /\ req[q].ids \in SUBSET MemoryIds /\ TablesKept
  BY <1>1, ReqIs DEF RetrievalInv, RequestsKept
<1>3. q \in Reads => /\ Under(q) /\ req[q].hot \subseteq hist[q].seen /\ Shown(q) \subseteq hist[q].seen
                     /\ Excused(q, req[q], user.id) \/ hist[q].published \subseteq req[q].ids
  BY <1>1, FitsIs DEF Fits, HotPcs, Under, Over
<1>4. CASE req[q].ids = {}
  <2>1. /\ Rest(<<dbVars, cacheVars, worldVars>>)
        /\ req' = [req EXCEPT ![q].pc = "final", ![q].got = req[q].hot, ![q].hot = {}, ![q].models = {}]
    BY <1>4 DEF Fetch
  <2>2. Watch /\ script' = script /\ UNCHANGED dbVars /\ UNCHANGED <<index, happened>> /\ CachesKept'
    BY <2>1, Still
  <2>3. PICK S : S = req[q].hot
    OBVIOUS
  <2>4. PICK x : x = [req[q] EXCEPT !.pc = "final", !.got = S, !.hot = {}, !.models = {}]
    OBVIOUS
  <2>5. /\ x.pc = "final" /\ x.got = S /\ x.hot = {} /\ x.save = req[q].save /\ x.uid = req[q].uid
        /\ x.hit = req[q].hit /\ x.stale = req[q].stale
    BY <1>2, <2>4 DEF Progress
  <2>6. x \in Progress
    BY <1>2, <2>3, <2>4, EmptyIs DEF Progress, ReadPcs
  <2>7. req' = [req EXCEPT ![q] = x]
    BY <1>1, <1>2, <2>1, <2>3, <2>4
  <2>8. S \in Versions /\ Once(S) /\ Once(x.hot) /\ Once(x.save)
    BY <1>2, <2>3, <2>5, EmptyIs
  <2>9. q \in Reads => /\ S \subseteq hist[q].seen
                       /\ Excused(q, req[q], user.id) \/ hist[q].published \subseteq Ids(S)
    BY <1>3, <1>4, <2>3
  <2> QED
    BY <1>1, <2>2, <2>5, <2>6, <2>7, <2>8, <2>9, Collected
<1>5. CASE req[q].ids # {}
  <2>1. PICK T : T = Hydrate(q, {<<m, 0>> : m \in req[q].ids})
    OBVIOUS
  <2>2. Ids({<<m, 0>> : m \in req[q].ids}) = req[q].ids
    BY <1>2, NumberedIds
  <2>3. T \in Versions /\ Once(T) /\ T \subseteq Shown(q)
        /\ Ids(T) = {m \in req[q].ids : Current(m) /\ Known(q)}
    BY <1>2, <2>1, <2>2, HydrateIs
  <2>4. PICK S : S = Merge(req[q].hot, T)
    OBVIOUS
  <2>5. S \in Versions /\ Once(S) /\ S \subseteq req[q].hot \cup T /\ Ids(S) = Ids(req[q].hot) \cup Ids(T)
    BY <1>2, <2>3, <2>4, MergeIs
  <2>6. Keep(q, S)
    BY <1>5, <2>1, <2>4 DEF Fetch
  <2>7. ASSUME q \in Reads
        PROVE  S \subseteq hist[q].seen /\ (Excused(q, req[q], user.id) \/ hist[q].published \subseteq Ids(S))
    <3>1. S \subseteq hist[q].seen
      BY <1>3, <2>3, <2>5, <2>7
    <3>2. ASSUME ~Excused(q, req[q], user.id), NEW m \in hist[q].published PROVE m \in Ids(S)
      <4>1. Current(m) /\ user.st = "open"
        BY <1>3, <2>7, <3>2, PublishedIs
      <4>2. Known(q) /\ m \in req[q].ids
        BY <1>3, <2>7, <3>2, <4>1 DEF Known, Excused
      <4> QED
        BY <2>3, <2>5, <4>1, <4>2
    <3> QED
      BY <3>1, <3>2
  <2> QED
    BY <1>1, <2>5, <2>6, <2>7, KeepStep
<1> QED
  BY <1>4, <1>5

LEMMA HistoryStep ==
  ASSUME RetrievalInv, NEW q, History(q)
  PROVE  RetrievalInv'
<1>1. /\ q \in Requests /\ req[q].pc = "history" /\ req[q].pc \notin ListPcs \cup Over
      /\ Rest(<<dbVars, cacheVars, worldVars>>)
  BY DEF History, At, ListPcs, Over
<1>2. Watch /\ script' = script /\ UNCHANGED dbVars /\ UNCHANGED <<index, happened>> /\ CachesKept'
  BY <1>1, Still
<1>3. PICK S \in SUBSET {m \in MemoryIds : Historical(m)} :
        req' = [req EXCEPT ![q] = Done(q, "answered", Owned(q, {Row(m) : m \in S}))]
  BY DEF History
<1>4. PICK A : A = Owned(q, {Row(m) : m \in S})
  OBVIOUS
<1>5. {Row(m) : m \in S} \in Versions /\ Once({Row(m) : m \in S})
  BY RowsAre DEF RetrievalInv
<1>6. A \in Versions /\ Once(A) /\ A \subseteq {Row(m) : m \in S}
  BY <1>4, <1>5, EmptyIs DEF Owned
<1>7. ASSUME q \in Reads PROVE A \subseteq hist[q].seen
  <2>1. Op(q) = "asof" /\ Shown(q) \subseteq hist[q].seen
    BY <1>1, <1>7, FitsIs DEF Fits, Under, ListPcs
  <2>2. {Row(m) : m \in S} \subseteq Shown(q)
    BY <2>1 DEF Shown
  <2> QED
    BY <1>6, <2>1, <2>2
<1> QED
  BY <1>1, <1>2, <1>3, <1>4, <1>6, <1>7, Answers

LEMMA WriteBackStep ==
  ASSUME RetrievalInv, NEW q, WriteBack(q)
  PROVE  RetrievalInv'
<1>1. /\ q \in Reads /\ q \in Requests /\ req[q].save # {} /\ Watch /\ script' = script
      /\ UNCHANGED dbVars /\ UNCHANGED <<index, happened>> /\ UNCHANGED <<hot, l1, hotL, modelL>>
      /\ page' \in {req[q].save, page} /\ req' = [req EXCEPT ![q].save = {}]
  BY DEF WriteBack, Reads, Rest, worldVars
<1>2. /\ req[q] \in Progress /\ req \in [Requests -> Progress] /\ CachesKept /\ req[q].save \in Versions
      /\ Once(req[q].save) /\ Once(req[q].got) /\ Once(req[q].hot) /\ Fits(q, req[q], hist[q], table, user.id)
  BY <1>1, ReqIs, FitsIs DEF RetrievalInv, RequestsKept
<1>3. CachesKept'
  BY <1>1, <1>2 DEF CachesKept, Versions, Models, Once
<1>4. PICK x : x = [req[q] EXCEPT !.save = {}]
  OBVIOUS
<1>5. /\ x.pc = req[q].pc /\ x.uid = req[q].uid /\ x.got = req[q].got /\ x.hot = req[q].hot /\ x.ids = req[q].ids
      /\ x.models = req[q].models /\ x.hit = req[q].hit /\ x.stale = req[q].stale /\ x.save = {}
  BY <1>2, <1>4 DEF Progress
<1>6. x \in Progress
  BY <1>2, <1>4, EmptyIs DEF Progress
<1>7. req' = [req EXCEPT ![q] = x]
  BY <1>1, <1>2, <1>4
<1>8. req'[q] = x /\ req' \in [Requests -> Progress] /\ \A r \in Requests : r # q => req'[r] = req[r]
  BY <1>1, <1>2, <1>6, <1>7
<1>9. Fits(q, x, hist[q], table, user.id)
  <2>1. Excused(q, req[q], user.id) <=> Excused(q, x, user.id)
    BY <1>5 DEF Excused
  <2> QED
    BY <1>2, <1>5, <2>1 DEF Fits
<1>10. req[q].pc # "idle" /\ req[q].pc # "listed" /\ Op(q) # "list"
  BY <1>1, <1>2 DEF Fits, Reads, ReadPcs, HotPcs
<1>11. MovesWell(q)
  <2>1. Under(q) \/ ~Under(q)'
    BY <1>5, <1>8 DEF Under, Over
  <2> QED
    BY <1>2, <1>5, <1>6, <1>8, <1>9, <1>10, <2>1, EmptyIs DEF MovesWell
<1>12. \A r \in Requests : req'[r] = req[r] \/ (r = q /\ MovesWell(r))
  BY <1>8, <1>11
<1>13. TablesKept' /\ ModelsKept /\ user'.id >= user.id
  BY <1>1, TablesSame
<1> QED
  BY <1>1, <1>3, <1>8, <1>12, <1>13, Moves

LEMMA SourcedIs ==
  ASSUME TablesKept
  PROVE  Sourced \in SUBSET MemoryIds /\ winner \in MemoryIds \cup {0}
  BY ScriptIs DEF TablesKept, Sourced, Script

\* What the last transaction shows is what it reads, or what the read had seen.
LEMMA FinalShows ==
  ASSUME RetrievalInv, NEW q \in Requests, req[q].pc = "final", NEW S \in Versions, Once(S),
         q \in Reads => S \subseteq hist[q].seen
  PROVE  LET A == Withhold(Projected(S)) IN
         A \in Versions /\ Once(A) /\ (q \in Reads => A \subseteq hist[q].seen)
<1>1. Sourced \in SUBSET MemoryIds /\ winner \in Sourced \cup {0} /\ TablesKept /\ 0 \notin MemoryIds
  BY SourcedIs, SettingIs DEF RetrievalInv, TablesKept
<1>2. PICK W : W = IF WinnerMatches /\ Ids(S) \cap Sourced # {} THEN {Row(winner)} ELSE {}
  OBVIOUS
<1>3. PICK U : U = {x \in S : x[1] \notin Sourced}
  OBVIOUS
<1>4. Projected(S) = U \cup W
  BY <1>2, <1>3 DEF Projected
<1>5. W = {} \/ (W = {Row(winner)} /\ winner \in Sourced /\ winner \in MemoryIds /\ Current(winner))
  BY <1>1, <1>2 DEF WinnerMatches
<1>6. W \in Versions /\ \A x \in W : x = Row(winner) /\ x[1] \in Sourced
  <2>1. CASE W = {}
    BY <2>1, EmptyIs
  <2>2. CASE W # {}
    <3>1. Row(winner) \in MemoryIds \X Nat /\ Row(winner)[1] = winner
      BY <1>1, <1>5, <2>2, RowIs
    <3> QED
      BY <1>5, <2>2, <3>1 DEF Versions
  <2> QED
    BY <2>1, <2>2
<1>7. U \cup W \in Versions /\ Once(U \cup W) /\ U \in Versions /\ Once(U)
  BY <1>3, <1>6 DEF Versions, Once
<1>8. ASSUME q \in Reads PROVE U \cup W \subseteq hist[q].seen
  <2>1. Shown(q) \subseteq hist[q].seen
    BY <1>8, FitsIs DEF Under, Over
  <2>2. ASSUME W # {} PROVE Row(winner) \in Shown(q)
    BY <1>5, <2>2 DEF Shown, Current, Historical
  <2> QED
    BY <1>3, <1>5, <1>8, <2>1, <2>2
<1>9. Withhold(U \cup W) = U \cup W \/ Withhold(U \cup W) = U
  <2>1. {x \in U \cup W : x[1] \notin Sourced} = U
    BY <1>3, <1>6
  <2> QED
    BY <2>1 DEF Withhold
<1> QED
  BY <1>4, <1>7, <1>8, <1>9

\* The candidates of the last transaction.
LEMMA FreshIs ==
  ASSUME RetrievalInv, NEW q \in Requests, req[q].pc = "final"
  PROVE  LET cand == IF IndexPending # {} THEN ColdStart ELSE req[q].got
             fresh == IF routed THEN {x \in Hydrate(q, cand) : x[1] \notin Ids(hold.facts)} ELSE cand IN
         /\ fresh \in Versions /\ Once(fresh) /\ (q \in Reads => fresh \subseteq hist[q].seen)
         /\ cand \in Versions
<1>1. PICK c : c = IF IndexPending # {} THEN ColdStart ELSE req[q].got
  OBVIOUS
<1>2. TablesKept /\ req[q].got \in Versions /\ Once(req[q].got)
  BY ReqIs DEF RetrievalInv
<1>3. q \in Reads => Shown(q) \subseteq hist[q].seen /\ req[q].got \subseteq hist[q].seen
  BY FitsIs DEF Under, Over, Fits
<1>4. ColdStart \in Versions /\ Once(ColdStart) /\ ColdStart \subseteq Shown(q)
  BY <1>2, ColdIs
<1>5. c \in Versions /\ Once(c) /\ (q \in Reads => c \subseteq hist[q].seen)
  BY <1>1, <1>2, <1>3, <1>4
<1>6. Hydrate(q, c) \in Versions /\ Once(Hydrate(q, c)) /\ Hydrate(q, c) \subseteq Shown(q)
  BY <1>2, <1>5, IdsAre, HydrateIs
<1>7. PICK f : f = IF routed THEN {x \in Hydrate(q, c) : x[1] \notin Ids(hold.facts)} ELSE c
  OBVIOUS
<1>8. f \subseteq Hydrate(q, c) \/ f = c
  BY <1>7
<1>9. f \in Versions /\ Once(f)
  BY <1>5, <1>6, <1>8 DEF Versions, Once
<1>10. q \in Reads => f \subseteq hist[q].seen
  BY <1>3, <1>5, <1>6, <1>8
<1> QED
  BY <1>1, <1>5, <1>7, <1>9, <1>10

LEMMA FinalStep ==
  ASSUME RetrievalInv, NEW q, Final(q)
  PROVE  RetrievalInv'
<1>1. /\ q \in Requests /\ req[q].pc = "final" /\ req[q].pc \notin ListPcs \cup Over
      /\ Rest(<<dbVars, cacheVars, worldVars>>)
  BY DEF Final, At, ListPcs, Over
<1>2. Watch /\ script' = script /\ UNCHANGED dbVars /\ UNCHANGED <<index, happened>> /\ CachesKept'
  BY <1>1, Still
<1>3. PICK c : c = IF IndexPending # {} THEN ColdStart ELSE req[q].got
  OBVIOUS
<1>4. PICK f : f = IF routed THEN {x \in Hydrate(q, c) : x[1] \notin Ids(hold.facts)} ELSE c
  OBVIOUS
<1>5. f \in Versions /\ Once(f) /\ (q \in Reads => f \subseteq hist[q].seen)
  BY <1>1, <1>3, <1>4, FreshIs
<1>6. PICK A : A = IF ~Known(q) \/ Broad THEN {} ELSE Withhold(Projected(f))
  OBVIOUS
<1>7. A \in Versions /\ Once(A) /\ (q \in Reads => A \subseteq hist[q].seen)
  BY <1>1, <1>5, <1>6, FinalShows, EmptyIs
<1>8. req' = [req EXCEPT ![q] = Done(q, "answered", A)]
  BY <1>3, <1>4, <1>6 DEF Final
<1> QED
  BY <1>1, <1>2, <1>7, <1>8, Answers

-----------------------------------------------------------------------------
(* Listing.                                                                 *)

\* A set of naturals has a least element, and a finite one a greatest.
LessThan == {ss \in Nat \X Nat : ss[1] < ss[2]}
LEMMA Least ==
  ASSUME NEW S \in SUBSET Nat, S # {}
  PROVE  \E x \in S : \A y \in S : x <= y
<1>1. OpToRel(<, Nat) = LessThan
  BY Zenon DEF OpToRel, LessThan
<1>2. IsWellFoundedOn(LessThan, Nat)
  BY <1>1, NatLessThanWellFounded, Zenon
<1>3. PICK x \in S : \A y \in S : ~(<<y, x>> \in LessThan)
  BY <1>2, WFMin
<1>4. ASSUME NEW a \in Nat, NEW b \in Nat, a < b PROVE <<a, b>> \in LessThan
  <2>1. <<a, b>> \in Nat \X Nat /\ <<a, b>>[1] = a /\ <<a, b>>[2] = b
    OBVIOUS
  <2> QED
    BY <1>4, <2>1 DEF LessThan
<1>5. \A y \in S : ~(y < x)
  BY <1>3, <1>4
<1> QED
  BY <1>5

\* Those from m on in S.
From(S, m) == {n \in S : n >= m}

LEMMA FromIs ==
  ASSUME NEW S \in SUBSET Nat, NEW m \in Nat, NEW n \in Nat
  PROVE  /\ n \in From(S, m) <=> n \in S /\ n >= m
         /\ m < n => From(S, n) \in SUBSET From(S, m)
<1>1. n \in From(S, m) <=> n \in S /\ n >= m
  BY DEF From
<1>2. ASSUME m < n, NEW k \in From(S, n) PROVE k \in From(S, m)
  <2>1. k \in S /\ k >= n /\ k \in Nat
    BY DEF From
  <2> QED
    BY <1>2, <2>1 DEF From
<1> QED
  BY <1>1, <1>2

\* Of T, the last of them in S: the one with the fewest from it on.
LEMMA LastOf ==
  ASSUME NEW S \in SUBSET Nat, IsFiniteSet(S), NEW T \in SUBSET S, T # {}
  PROVE  \E m \in T : \A n \in T : n <= m
<1> DEFINE C == {Cardinality(From(S, m)) : m \in T}
<1>1. \A m \in S : IsFiniteSet(From(S, m)) /\ Cardinality(From(S, m)) \in Nat
  <2> SUFFICES ASSUME NEW m \in S PROVE IsFiniteSet(From(S, m)) /\ Cardinality(From(S, m)) \in Nat
    OBVIOUS
  <2>1. From(S, m) \in SUBSET S
    BY DEF From
  <2> QED
    BY <2>1, FS_Subset, FS_CardinalityType
<1>2. C \in SUBSET Nat /\ C # {}
  BY <1>1
<1>3. PICK c \in C : \A d \in C : c <= d
  BY <1>2, Least
<1>4. PICK m \in T : c = Cardinality(From(S, m))
  OBVIOUS
<1>5. ASSUME NEW n \in T, n > m PROVE FALSE
  <2>0. m \in S /\ m \in Nat /\ n \in Nat /\ \A k \in S : k \in Nat
    OBVIOUS
  <2>1. From(S, n) \in SUBSET From(S, m) /\ m \in From(S, m) /\ m \notin From(S, n)
    BY <1>5, <2>0, FromIs
  <2>2. /\ Cardinality(From(S, n)) <= Cardinality(From(S, m))
        /\ Cardinality(From(S, m)) = Cardinality(From(S, n)) => From(S, m) = From(S, n)
    BY <1>1, <2>1, FS_Subset
  <2>3. Cardinality(From(S, n)) < Cardinality(From(S, m))
    BY <1>1, <2>1, <2>2
  <2>4. Cardinality(From(S, n)) \in C /\ c \in Nat
    BY <1>2
  <2> QED
    BY <1>1, <1>3, <1>4, <2>3, <2>4
<1> QED
  BY <1>5

LEMMA MinIs ==
  ASSUME NEW S \in SUBSET Nat, S # {}
  PROVE  Min(S) \in S /\ \A n \in S : Min(S) <= n
<1>1. \E x \in S : \A y \in S : x <= y
  BY Least
<1> QED
  BY <1>1, Zenon DEF Min

LEMMA MaxIs ==
  ASSUME NEW S \in SUBSET Nat, IsFiniteSet(S), S # {}
  PROVE  Max(S) \in S /\ \A n \in S : Max(S) >= n
<1>1. \E x \in S : \A y \in S : x >= y
  BY LastOf
<1> QED
  BY <1>1, Zenon DEF Max

\* A page is the newest of B, one more than is shown, and all of B when that one is missing.
NewestOf(B, k) == {m \in B : Cardinality(From(B, m)) <= k + 1}
LEMMA PageIs ==
  ASSUME NEW B \in SUBSET Nat, IsFiniteSet(B), NEW k \in Nat, NEW S, S = NewestOf(B, k)
  PROVE  /\ \A m \in B, n \in S : m > n => m \in S
         /\ Cardinality(S) <= k => S = B
         /\ Cardinality(S) \in Nat /\ (Cardinality(S) > k => S # {} /\ (k > 0 => S \ {Min(S)} # {}))
<1>1. \A m \in B : From(B, m) \in SUBSET B /\ IsFiniteSet(From(B, m)) /\ Cardinality(From(B, m)) \in Nat
  <2> SUFFICES ASSUME NEW m \in B
               PROVE  From(B, m) \in SUBSET B /\ IsFiniteSet(From(B, m)) /\ Cardinality(From(B, m)) \in Nat
    OBVIOUS
  <2>1. From(B, m) \in SUBSET B
    BY DEF From
  <2> QED
    BY <2>1, FS_Subset, FS_CardinalityType
<1>2. ASSUME NEW m \in B, NEW n \in S, m > n PROVE m \in S
  <2>1. n \in B /\ m \in Nat /\ n \in Nat /\ \A i \in B : i \in Nat
    BY DEF NewestOf
  <2>2. From(B, m) \in SUBSET From(B, n)
    BY <1>2, <2>1, FromIs
  <2>3. Cardinality(From(B, m)) <= Cardinality(From(B, n))
    BY <1>1, <2>1, <2>2, FS_Subset
  <2> QED
    BY <1>1, <2>1, <2>3 DEF NewestOf
<1>3. S \in SUBSET B /\ IsFiniteSet(S) /\ Cardinality(S) \in Nat
  BY FS_Subset, FS_CardinalityType DEF NewestOf
<1>4. ASSUME Cardinality(S) <= k PROVE S = B
  <2> SUFFICES ASSUME B \ S # {} PROVE FALSE
    BY <1>3
  <2>1. PICK m \in B \ S : \A n \in B \ S : n <= m
    BY LastOf
  <2>2. \A i \in B : i \in Nat
    OBVIOUS
  <2>3. From(B, m) \ {m} \in SUBSET S
    <3> SUFFICES ASSUME NEW n \in From(B, m), n # m PROVE n \in S
      OBVIOUS
    <3>1. n \in B /\ n > m
      BY <2>2 DEF From
    <3> QED
      BY <2>1, <2>2, <3>1
  <2>4. IsFiniteSet(From(B, m) \ {m}) /\ Cardinality(From(B, m) \ {m}) <= Cardinality(S)
    BY <1>3, <2>3, FS_Subset
  <2>5. m \in From(B, m)
    BY <2>2 DEF From
  <2>6. Cardinality(From(B, m) \ {m}) = Cardinality(From(B, m)) - 1
    BY <1>1, <2>5, FS_RemoveElement
  <2>7. Cardinality(From(B, m)) <= k + 1
    BY <1>1, <1>3, <1>4, <2>4, <2>6
  <2> QED
    BY <2>7 DEF NewestOf
<1>5. ASSUME Cardinality(S) > k PROVE S # {} /\ (k > 0 => S \ {Min(S)} # {})
  <2>1. S # {}
    BY <1>5, FS_EmptySet
  <2>2. ASSUME k > 0, S \ {Min(S)} = {} PROVE FALSE
    <3>1. Min(S) \in S
      BY <1>3, <2>1, MinIs
    <3>2. Cardinality(S \ {Min(S)}) = Cardinality(S) - 1
      BY <1>3, <3>1, FS_RemoveElement
    <3>3. Cardinality(S) - 1 = 0
      BY <2>2, <3>2, FS_EmptySet
    <3> QED
      BY <1>3, <1>5, <2>2, <3>3
  <2> QED
    BY <2>1, <2>2
<1> QED
  BY <1>2, <1>3, <1>4, <1>5

Listed(q) == {m \in Below(q) : Cardinality({n \in Below(q) : n >= m}) <= PageSize + 1}
Due(q) == IF req[q].pc = "idle" THEN Published(q) ELSE hist[q].published
\* A page shows what is below the cursor, or leaves it below the next one.
LEMMA PagePasses ==
  ASSUME RetrievalInv, NEW q \in Requests, Op(q) = "list", req[q].pc \in {"idle", "page"},
         NEW S, S = Listed(q), NEW P, P = Due(q)
  PROVE  /\ S \in SUBSET MemoryIds
         /\ ~(Cardinality(S) > PageSize) => P \subseteq req[q].ids \cup S
         /\ Cardinality(S) > PageSize =>
              /\ NextCursor(q, S) \in MemoryIds
              /\ \A m \in P : m \in req[q].ids \cup (S \ {Min(S)}) \/ m < NextCursor(q, S)
<1>0. PICK B : B = Below(q)
  OBVIOUS
<1>1. B \in SUBSET MemoryIds /\ MemoryIds \in SUBSET Nat /\ IsFiniteSet(MemoryIds) /\ PageSize \in Nat /\ PageSize > 0
  BY <1>0, SettingIs DEF RetrievalInv, Below
<1>2. B \in SUBSET Nat /\ IsFiniteSet(B)
  BY <1>1, FS_Subset
<1>3. S = NewestOf(B, PageSize)
  <2>1. \A m : Cardinality({n \in B : n >= m}) = Cardinality(From(B, m))
    BY DEF From
  <2> QED
    BY <1>0, <2>1 DEF NewestOf, Listed
<1>4. \A m \in P : m \in req[q].ids \/ m \in B
  <2> SUFFICES ASSUME NEW m \in P, m \notin req[q].ids PROVE m \in B
    OBVIOUS
  <2>1. Passed(req[q], hist[q]) /\ (req[q].pc = "page" => hist[q].published \subseteq Published(q))
    BY DEF RetrievalInv, ListsPass, Recorded, Under, Over, Watched
  <2>2. m \in Published(q) /\ (req[q].pc = "page" => m \in hist[q].published)
    BY <2>1 DEF Due
  <2>3. m \in MemoryIds /\ table[m].row # "none"
    BY <2>2 DEF Published
  <2>4. req[q].cursor = 0 \/ m < req[q].cursor
    BY <2>1, <2>2 DEF Passed
  <2> QED
    BY <1>0, <2>3, <2>4 DEF Below
<1>5. /\ \A m \in B, n \in S : m > n => m \in S
      /\ Cardinality(S) <= PageSize => S = B
      /\ Cardinality(S) \in Nat /\ (Cardinality(S) > PageSize => S # {} /\ S \ {Min(S)} # {})
  BY <1>1, <1>2, <1>3, PageIs
<1>6. Cardinality(S) = Cardinality(S) /\ S \in SUBSET B
  BY <1>3 DEF NewestOf
<1>7. ASSUME ~(Cardinality(S) > PageSize) PROVE P \subseteq req[q].ids \cup S
  <2>1. S = B
    BY <1>1, <1>5, <1>6, <1>7
  <2> QED
    BY <1>4, <2>1
<1>8. ASSUME Cardinality(S) > PageSize
      PROVE  /\ NextCursor(q, S) \in MemoryIds
             /\ \A m \in P : m \in req[q].ids \cup (S \ {Min(S)}) \/ m < NextCursor(q, S)
  <2>1. PICK a : a = Min(S)
    OBVIOUS
  <2>2. PICK c : c = Min(S \ {a})
    OBVIOUS
  <2>3. S # {} /\ S \ {a} # {}
    BY <1>5, <1>6, <1>8, <2>1
  <2>4. a \in S /\ \A n \in S : a <= n
    BY <1>2, <1>6, <2>1, <2>3, MinIs
  <2>5. c \in S \ {a} /\ \A n \in S \ {a} : c <= n
    BY <1>2, <1>6, <2>2, <2>3, MinIs
  <2>6. ASSUME NEW m \in B, m \notin S \ {a} PROVE m < c
    BY <1>2, <1>5, <1>6, <2>4, <2>5, <2>6
  <2>7. NextCursor(q, S) = c
    BY <2>1, <2>2 DEF NextCursor
  <2> QED
    BY <1>1, <1>4, <1>6, <2>1, <2>5, <2>6, <2>7
<1> QED
  BY <1>1, <1>6, <1>7, <1>8

LEMMA ListStep ==
  ASSUME RetrievalInv, NEW q, ListPage(q)
  PROVE  RetrievalInv'
<1>1. /\ q \in Requests /\ req[q].pc \in {"idle", "page"} /\ Op(q) = "list"
      /\ Rest(<<dbVars, cacheVars, worldVars>>)
  BY DEF ListPage, At
<1>2. Watch /\ script' = script /\ UNCHANGED dbVars /\ UNCHANGED <<index, happened>> /\ CachesKept'
  BY <1>1, Still
<1>3. /\ req[q] \in Progress /\ req \in [Requests -> Progress] /\ Once(req[q].got) /\ Once(req[q].hot)
      /\ Once(req[q].save) /\ req[q].ids \in SUBSET MemoryIds
  BY <1>1, ReqIs DEF RetrievalInv, RequestsKept
<1>4. PICK S : S = Listed(q)
  OBVIOUS
<1>5. PICK h : h = IF req[q].pc = "idle" THEN [published |-> Published(q)] ELSE hist[q]
  OBVIOUS
<1>6. h.published = Due(q)
  BY <1>5 DEF Due
<1>7. /\ S \in SUBSET MemoryIds
      /\ ~(Cardinality(S) > PageSize) => h.published \subseteq req[q].ids \cup S
      /\ Cardinality(S) > PageSize =>
           /\ NextCursor(q, S) \in MemoryIds
           /\ \A m \in h.published : m \in req[q].ids \cup (S \ {Min(S)}) \/ m < NextCursor(q, S)
  <2>1. PICK P : P = h.published
    OBVIOUS
  <2>2. P = Due(q)
    BY <1>6, <2>1
  <2> QED
    BY <1>1, <1>4, <2>1, <2>2, PagePasses
<1>8. req' = [req EXCEPT ![q] =
       IF user.st = "blocked" THEN [Idle EXCEPT !.pc = "refused"]
       ELSE IF Cardinality(S) > PageSize
       THEN [req[q] EXCEPT !.pc = "page", !.ids = req[q].ids \cup (S \ {Min(S)}), !.cursor = NextCursor(q, S)]
       ELSE [req[q] EXCEPT !.pc = "listed", !.ids = req[q].ids \cup S, !.cursor = 0]]
  <2> DEFINE T == {m \in Below(q) : Cardinality({n \in Below(q) : n >= m}) <= PageSize + 1}
  <2>1. req' = [req EXCEPT ![q] =
         IF user.st = "blocked" THEN [Idle EXCEPT !.pc = "refused"]
         ELSE IF Cardinality(T) > PageSize
         THEN [req[q] EXCEPT !.pc = "page", !.ids = req[q].ids \cup (T \ {Min(T)}), !.cursor = NextCursor(q, T)]
         ELSE [req[q] EXCEPT !.pc = "listed", !.ids = req[q].ids \cup T, !.cursor = 0]]
    BY DEF ListPage
  <2>2. T = S
    BY <1>4 DEF Listed
  <2> HIDE DEF T
  <2> QED
    BY <2>1, <2>2
<1>9. \E x \in Progress : /\ req' = [req EXCEPT ![q] = x] /\ x.pc # "idle" /\ Passed(x, h)
                         /\ Once(x.got) /\ Once(x.hot) /\ Once(x.save)
  <2>1. CASE user.st = "blocked"
    <3>1. Idle \in Progress /\ Idle.got = {} /\ Idle.hot = {} /\ Idle.save = {}
      BY EmptyIs DEF Idle, Progress, ReadPcs
    <3>2. PICK x : x = [Idle EXCEPT !.pc = "refused"]
      OBVIOUS
    <3>3. x \in Progress /\ x.pc = "refused" /\ x.got = {} /\ x.hot = {} /\ x.save = {}
      BY <3>1, <3>2 DEF Progress, ReadPcs
    <3>4. Passed(x, h)
      BY <3>3 DEF Passed, ListPcs
    <3> QED
      BY <1>8, <2>1, <3>2, <3>3, <3>4, EmptyIs
  <2>2. CASE user.st # "blocked" /\ Cardinality(S) > PageSize
    <3>1. PICK i, c : i = req[q].ids \cup (S \ {Min(S)}) /\ c = NextCursor(q, S)
      OBVIOUS
    <3>2. i \in SUBSET MemoryIds /\ c \in MemoryIds /\ \A m \in h.published : m \in i \/ m < c
      BY <1>3, <1>7, <2>2, <3>1
    <3>3. PICK x : x = [req[q] EXCEPT !.pc = "page", !.ids = i, !.cursor = c]
      OBVIOUS
    <3>4. x.pc = "page" /\ x.got = req[q].got /\ x.hot = req[q].hot /\ x.save = req[q].save /\ x.ids = i /\ x.cursor = c
      BY <1>3, <3>3 DEF Progress
    <3>5. x \in Progress
      BY <1>3, <3>2, <3>3 DEF Progress, ListPcs
    <3>6. Passed(x, h)
      BY <3>2, <3>4 DEF Passed, ListPcs
    <3>7. req' = [req EXCEPT ![q] = x]
      BY <1>8, <2>2, <3>1, <3>3
    <3> QED
      BY <1>3, <3>4, <3>5, <3>6, <3>7
  <2>3. CASE user.st # "blocked" /\ ~(Cardinality(S) > PageSize)
    <3>1. PICK i : i = req[q].ids \cup S
      OBVIOUS
    <3>2. i \in SUBSET MemoryIds /\ h.published \subseteq i
      BY <1>3, <1>7, <2>3, <3>1
    <3>3. PICK x : x = [req[q] EXCEPT !.pc = "listed", !.ids = i, !.cursor = 0]
      OBVIOUS
    <3>4. x.pc = "listed" /\ x.got = req[q].got /\ x.hot = req[q].hot /\ x.save = req[q].save /\ x.ids = i
      BY <1>3, <3>3 DEF Progress
    <3>5. x \in Progress
      BY <1>3, <3>2, <3>3 DEF Progress, ListPcs
    <3>6. Passed(x, h)
      BY <3>2, <3>4 DEF Passed, ListPcs
    <3>7. req' = [req EXCEPT ![q] = x]
      BY <1>8, <2>3, <3>1, <3>3
    <3> QED
      BY <1>3, <3>4, <3>5, <3>6, <3>7
  <2> QED
    BY <2>1, <2>2, <2>3
<1>10. PICK x \in Progress : /\ req' = [req EXCEPT ![q] = x] /\ x.pc # "idle" /\ Passed(x, h)
                            /\ Once(x.got) /\ Once(x.hot) /\ Once(x.save)
  BY <1>9
<1>11. req'[q] = x /\ req' \in [Requests -> Progress] /\ \A r \in Requests : r # q => req'[r] = req[r]
  BY <1>1, <1>3, <1>10
<1>12. MovesWell(q)
  <2>1. q \notin Reads /\ table' = table
    BY <1>1, <1>2 DEF Reads, dbVars
  <2>2. Passed(req'[q], IF req[q].pc = "idle" THEN [published |-> Published(q)] ELSE hist[q])
    BY <1>5, <1>10, <1>11
  <2> QED
    BY <1>1, <1>10, <1>11, <2>1, <2>2 DEF MovesWell
<1>13. \A r \in Requests : req'[r] = req[r] \/ (r = q /\ MovesWell(r))
  BY <1>11, <1>12
<1> QED
  BY <1>2, <1>11, <1>13, TablesSame, Moves

-----------------------------------------------------------------------------
(* Writers.                                                                 *)

LEMMA Tabled ==
  ASSUME script' = script, script \in DOMAIN Scripts, happened' \in Nat, table' \in [MemoryIds -> Memory],
         user' \in User, pend' \in SUBSET MemoryIds, winner' \in Sourced \cup {0},
         index' \in SUBSET (MemoryIds \X Models), Once(index'),
         hold' \in HoldType, routed' \in BOOLEAN, correction' \in BOOLEAN
  PROVE  TablesKept'
<1>1. Memory' = Memory /\ User' = User /\ Models' = Models /\ HoldType' = HoldType /\ Sourced' = Sourced
  BY SameScript DEF Memory, User, Models, HoldType, Versions
<1> QED
  BY <1>1 DEF TablesKept, Once

LEMMA IndexSame ==
  ASSUME RetrievalInv, index' = index
  PROVE  ModelsKept
<1>1. Once(index)
  BY DEF RetrievalInv, TablesKept
<1> SUFFICES ASSUME NEW m \in MemoryIds, <<m, table[m].model>> \in index, <<m, table'[m].model>> \in index
             PROVE  table'[m].model = table[m].model
  BY DEF ModelsKept
<1>2. <<m, table'[m].model>> = <<m, table[m].model>>
  BY <1>1 DEF Once
<1> QED
  BY <1>2

LEMMA WriterMoves ==
  ASSUME RetrievalInv, Watch, script' = script, TablesKept', CachesKept', user'.id >= user.id, ModelsKept,
         NEW q \in Requests, NEW x \in Progress, req' = [req EXCEPT ![q] = x],
         Once(x.got), Once(x.hot), Once(x.save), x.pc \notin {"idle", "listed"},
         req[q].pc \in WritePcs \/ Op(q) \notin Watched
  PROVE  RetrievalInv'
<1>1. req \in [Requests -> Progress]
  BY DEF RetrievalInv, RequestsKept
<1>2. req'[q] = x /\ req' \in [Requests -> Progress] /\ \A r \in Requests : r # q => req'[r] = req[r]
  BY <1>1
<1>3. q \notin Reads /\ Op(q) # "list"
  <2>1. CASE Op(q) \notin Watched
    BY <2>1 DEF Reads, Watched
  <2>2. CASE req[q].pc \in WritePcs
    <3>1. req[q].pc \notin ReadPcs /\ req[q].pc \notin ListPcs
      BY <2>2 DEF WritePcs, ReadPcs, HotPcs, ListPcs
    <3> QED
      BY <3>1 DEF RetrievalInv, ReadsFit, ListsPass, Fits, Passed
  <2> QED
    BY <2>1, <2>2
<1>4. MovesWell(q)
  BY <1>2, <1>3 DEF MovesWell
<1>5. \A r \in Requests : req'[r] = req[r] \/ (r = q /\ MovesWell(r))
  BY <1>2, <1>4
<1> QED
  BY <1>2, <1>5, Moves

\* A writer goes on.
LEMMA WriteGoes ==
  ASSUME RetrievalInv, Watch, script' = script, TablesKept', CachesKept', user'.id >= user.id, ModelsKept,
         NEW q \in Requests, NEW p \in WritePcs \cup {"failed", "refused"}, Go(q, p),
         req[q].pc \in WritePcs \/ Op(q) \notin Watched
  PROVE  RetrievalInv'
<1>1. req[q] \in Progress /\ Once(req[q].got) /\ Once(req[q].hot) /\ Once(req[q].save)
      /\ req \in [Requests -> Progress]
  BY ReqIs DEF RetrievalInv, RequestsKept
<1>2. PICK x : x = [req[q] EXCEPT !.pc = p]
  OBVIOUS
<1>3. x.pc = p /\ x.got = req[q].got /\ x.hot = req[q].hot /\ x.save = req[q].save
  BY <1>1, <1>2 DEF Progress
<1>4. x \in Progress /\ x.pc \notin {"idle", "listed"}
  BY <1>1, <1>2, <1>3 DEF Progress, ReadPcs, WritePcs
<1>5. req' = [req EXCEPT ![q] = x]
  BY <1>1, <1>2 DEF Go
<1> QED
  BY <1>1, <1>3, <1>4, <1>5, WriterMoves

LEMMA LoadStep ==
  ASSUME RetrievalInv, NEW q, Load(q)
  PROVE  RetrievalInv'
<1>1. /\ q \in Requests /\ Op(q) \in {"update", "archive", "delete"}
      /\ Rest(<<dbVars, cacheVars, worldVars>>)
  BY DEF Load, At
<1>2. /\ Watch /\ script' = script /\ TablesKept' /\ ModelsKept /\ user'.id >= user.id /\ CachesKept'
      /\ Op(q) \notin Watched
  BY <1>1, Still, TablesSame DEF Watched
<1>3. /\ req[q] \in Progress /\ Once(req[q].got) /\ Once(req[q].hot) /\ Once(req[q].save)
      /\ req \in [Requests -> Progress] /\ user.id \in Nat
  BY <1>1, ReqIs DEF RetrievalInv, RequestsKept
<1>4. CASE ~Authorized(q)
  <2>1. Go(q, "refused")
    BY <1>1, <1>3, <1>4 DEF Load, Go
  <2> QED
    BY <1>1, <1>2, <2>1, WriteGoes
<1>5. CASE Authorized(q)
  <2>1. PICK o, u, b : o = Op(q) /\ u = user.id /\ b = (table[Target(q)].row # "live")
    OBVIOUS
  <2>2. o \in {"update", "archive", "delete"} /\ u \in Nat /\ b \in BOOLEAN
    BY <1>1, <1>3, <2>1
  <2>3. PICK x : x = [req[q] EXCEPT !.pc = o, !.uid = u, !.hit = b]
    OBVIOUS
  <2>4. x.pc = o /\ x.got = req[q].got /\ x.hot = req[q].hot /\ x.save = req[q].save
    BY <1>3, <2>3 DEF Progress
  <2>5. x \in Progress /\ x.pc \notin {"idle", "listed"}
    BY <1>3, <2>2, <2>3, <2>4 DEF Progress, WritePcs
  <2>6. req' = [req EXCEPT ![q] = x]
    BY <1>5, <2>1, <2>3 DEF Load
  <2> QED
    BY <1>1, <1>2, <1>3, <2>4, <2>5, <2>6, WriterMoves
<1> QED
  BY <1>4, <1>5

LEMMA WriteFailsStep ==
  ASSUME RetrievalInv, NEW q, WriteFails(q)
  PROVE  RetrievalInv'
<1>1. /\ q \in Requests /\ req[q].pc \in WritePcs /\ Go(q, "failed")
      /\ Rest(<<dbVars, cacheVars, worldVars>>)
  BY DEF WriteFails, WritePcs
<1>2. Watch /\ script' = script /\ TablesKept' /\ ModelsKept /\ user'.id >= user.id /\ CachesKept'
  BY <1>1, Still, TablesSame
<1> QED
  BY <1>1, <1>2, WriteGoes

LEMMA CommittedStep ==
  ASSUME RetrievalInv, NEW q \in Requests, req[q].pc \in WritePcs, NEW row \in Memory, Committed(q, row),
         winner' \in {winner, 0}
  PROVE  RetrievalInv'
<1>1. /\ Watch /\ script' = script /\ UNCHANGED <<user, hold, routed, correction, index, happened>>
      /\ UNCHANGED cacheVars /\ Go(q, "pages") /\ "pages" \in WritePcs
      /\ table' = [table EXCEPT ![Target(q)] = row] /\ pend' = pend \cup {Target(q)}
  BY DEF Committed, Rest, worldVars, WritePcs
<1>2. TablesKept
  BY DEF RetrievalInv
<1>3. Target(q) \in MemoryIds
  BY <1>2, AskedIs DEF TablesKept
<1>4. table' \in [MemoryIds -> Memory] /\ pend' \in SUBSET MemoryIds /\ winner' \in Sourced \cup {0}
      /\ user'.id >= user.id
  BY <1>1, <1>2, <1>3 DEF TablesKept, User
<1>5. TablesKept'
  BY <1>1, <1>2, <1>4, Tabled DEF TablesKept
<1> QED
  BY <1>1, <1>4, <1>5, CachesSame, IndexSame, WriteGoes

LEMMA CommitStep ==
  ASSUME RetrievalInv, NEW q, Update(q) \/ Archive(q) \/ Delete(q)
  PROVE  RetrievalInv'
<1>1. q \in Requests /\ req[q].pc \in WritePcs
  BY DEF Update, Archive, Delete, At, WritePcs
<1>2. Target(q) \in MemoryIds /\ table \in [MemoryIds -> Memory]
  BY <1>1, AskedIs DEF RetrievalInv, TablesKept
<1>3. table[Target(q)] \in Memory
  BY <1>2
<1>4. PICK old : old = table[Target(q)]
  OBVIOUS
<1>5. CASE Update(q)
  <2>0. PICK v, k : v = old.rev + 1 /\ k = IF req[q].hit THEN old.model ELSE "new"
    OBVIOUS
  <2>1. PICK row : row = [old EXCEPT !.rev = v, !.model = k]
    OBVIOUS
  <2>2. row \in Memory
    <3>1. old \in Memory
      BY <1>3, <1>4
    <3>2. v \in Nat /\ k \in Models
      BY <2>0, <3>1 DEF Memory, Models
    <3> QED
      BY <2>1, <3>1, <3>2 DEF Memory
  <2>3. Committed(q, row) /\ winner' = winner
    BY <1>4, <1>5, <2>0, <2>1 DEF Update
  <2> QED
    BY <1>1, <2>2, <2>3, CommittedStep
<1>6. CASE Archive(q)
  <2>1. PICK row : row = [old EXCEPT !.row = "archived"]
    OBVIOUS
  <2>2. row \in Memory
    BY <1>3, <1>4, <2>1 DEF Memory, Models
  <2>3. Committed(q, row) /\ winner' = winner
    BY <1>4, <1>6, <2>1 DEF Archive
  <2> QED
    BY <1>1, <2>2, <2>3, CommittedStep
<1>7. CASE Delete(q)
  <2>1. PICK row : row = [old EXCEPT !.row = "none"]
    OBVIOUS
  <2>2. row \in Memory
    BY <1>3, <1>4, <2>1 DEF Memory, Models
  <2>3. Committed(q, row) /\ winner' \in {winner, 0}
    BY <1>4, <1>7, <2>1 DEF Delete
  <2> QED
    BY <1>1, <2>2, <2>3, CommittedStep
<1> QED
  BY <1>5, <1>6, <1>7

LEMMA DropStep ==
  ASSUME RetrievalInv, NEW q, DropPages(q) \/ DropHot(q) \/ DropLocal(q)
  PROVE  RetrievalInv'
<1>1. /\ q \in Requests /\ req[q].pc \in WritePcs /\ Watch /\ script' = script /\ UNCHANGED dbVars
      /\ UNCHANGED <<index, happened>> /\ UNCHANGED modelL
  BY DEF DropPages, DropHot, DropLocal, At, Rest, worldVars, WritePcs
<1>2. CachesKept /\ Proc(q) \in Processes /\ TablesKept' /\ ModelsKept /\ user'.id >= user.id
  BY <1>1, AskedIs, TablesSame DEF RetrievalInv, TablesKept
<1>3. \E p \in {"hottier", "local", "written"} : Go(q, p)
  BY DEF DropPages, DropHot, DropLocal
<1>4. CachesKept'
  <2>1. CASE DropPages(q)
    <3>1. page' \in {{}, page} /\ UNCHANGED <<hot, l1, hotL, modelL>>
      BY <2>1 DEF DropPages, Rest
    <3> QED
      BY <1>2, <3>1, EmptyIs DEF CachesKept, Versions, Models, Once
  <2>2. CASE DropHot(q)
    <3>1. hot' \in {{}, hot} /\ UNCHANGED <<page, l1, hotL, modelL>>
      BY <2>2 DEF DropHot, Rest
    <3> QED
      BY <1>2, <3>1, EmptyIs DEF CachesKept, Versions, Models, Once
  <2>3. CASE DropLocal(q)
    <3>1. /\ l1' = [l1 EXCEPT ![Proc(q)] = {}] /\ hotL' = [hotL EXCEPT ![Proc(q)] = {}]
          /\ UNCHANGED <<page, hot, modelL>>
      BY <2>3 DEF DropLocal, Rest
    <3> QED
      BY <1>2, <3>1, EmptyIs DEF CachesKept, Versions, Models, Once
  <2> QED
    BY <2>1, <2>2, <2>3
<1>5. PICK p \in WritePcs : Go(q, p)
  BY <1>3 DEF WritePcs
<1> QED
  BY <1>1, <1>2, <1>4, <1>5, WriteGoes

LEMMA SelectStep ==
  ASSUME RetrievalInv, NEW q, SelectHot(q)
  PROVE  RetrievalInv'
<1>1. /\ q \in Requests /\ Op(q) \notin Watched /\ Rest(<<dbVars, cacheVars, worldVars>>)
  BY DEF SelectHot, At, Watched
<1>2. /\ Watch /\ script' = script /\ TablesKept' /\ ModelsKept /\ user'.id >= user.id /\ CachesKept'
  BY <1>1, Still, TablesSame
<1>3. /\ req[q] \in Progress /\ Once(req[q].got) /\ Once(req[q].hot) /\ Once(req[q].save)
      /\ req \in [Requests -> Progress] /\ user.id \in Nat
  BY <1>1, ReqIs DEF RetrievalInv, RequestsKept
<1>4. PICK S : S = {n \in {Target(q)} : table[n].row = "live"}
  OBVIOUS
<1>5. S \in SUBSET MemoryIds /\ TablesKept
  BY <1>1, <1>4, AskedIs DEF RetrievalInv, TablesKept
<1>6. PICK g, u : g = {Row(m) : m \in S} /\ u = user.id
  OBVIOUS
<1>7. g \in Versions /\ Once(g) /\ u \in Nat
  BY <1>3, <1>5, <1>6, RowsAre
<1>8. PICK x : x = [req[q] EXCEPT !.pc = "promote", !.uid = u, !.got = g]
  OBVIOUS
<1>9. x.pc = "promote" /\ x.got = g /\ x.hot = req[q].hot /\ x.save = req[q].save
  BY <1>3, <1>8 DEF Progress
<1>10. x \in Progress
  BY <1>3, <1>7, <1>8 DEF Progress, WritePcs
<1>11. req' = [req EXCEPT ![q] = x]
  <2>1. req' = [req EXCEPT ![q].pc = "promote", ![q].uid = u, ![q].got = g]
    BY <1>4, <1>6 DEF SelectHot
  <2> QED
    BY <1>1, <1>3, <1>8, <2>1
<1> QED
  BY <1>1, <1>2, <1>3, <1>7, <1>9, <1>10, <1>11, WriterMoves

LEMMA PromoteStep ==
  ASSUME RetrievalInv, NEW q, Promote(q)
  PROVE  RetrievalInv'
<1>1. /\ q \in Requests /\ req[q].pc \in WritePcs /\ Watch /\ script' = script /\ UNCHANGED dbVars
      /\ UNCHANGED <<index, happened>> /\ UNCHANGED <<page, l1, hotL, modelL>>
      /\ hot' \in {{x \in hot : x[1] \notin Ids(req[q].got)} \cup req[q].got, hot}
      /\ req' = [req EXCEPT ![q].pc = "promoted", ![q].got = {}]
  BY DEF Promote, At, Rest, worldVars, WritePcs
<1>2. TablesKept' /\ ModelsKept /\ user'.id >= user.id /\ CachesKept
  BY <1>1, TablesSame DEF RetrievalInv
<1>3. /\ req[q] \in Progress /\ Once(req[q].hot) /\ Once(req[q].save) /\ req[q].got \in Versions
      /\ req \in [Requests -> Progress]
  BY <1>1, ReqIs DEF RetrievalInv, RequestsKept
<1>4. hot' \in Versions
  BY <1>1, <1>2, <1>3 DEF CachesKept, Versions
<1>5. CachesKept'
  BY <1>1, <1>2, <1>4 DEF CachesKept, Versions, Models, Once
<1>6. PICK x : x = [req[q] EXCEPT !.pc = "promoted", !.got = {}]
  OBVIOUS
<1>7. x.pc = "promoted" /\ x.got = {} /\ x.hot = req[q].hot /\ x.save = req[q].save
  BY <1>3, <1>6 DEF Progress
<1>8. x \in Progress
  BY <1>3, <1>6, EmptyIs DEF Progress, WritePcs
<1>9. req' = [req EXCEPT ![q] = x]
  BY <1>1, <1>3, <1>6
<1>10. q \in Requests /\ req[q].pc \in WritePcs /\ Watch /\ script' = script
  BY <1>1
<1> QED
  BY <1>2, <1>3, <1>5, <1>7, <1>8, <1>9, <1>10, EmptyIs, WriterMoves

-----------------------------------------------------------------------------
(* What happens meanwhile.                                                  *)

LEMMA Occurs ==
  ASSUME RetrievalInv, Watch, script' = script, TablesKept', CachesKept', user'.id >= user.id, ModelsKept,
         req' = req
  PROVE  RetrievalInv'
<1>1. req' \in [Requests -> Progress] /\ \A r \in Requests : req'[r] = req[r]
  BY DEF RetrievalInv, RequestsKept
<1>2. PICK who : \A r \in Requests : req'[r] = req[r] \/ (r = who /\ MovesWell(r))
  BY <1>1
<1> QED
  BY <1>1, <1>2, Moves

OfMemory == {"add", "deliver", "begin", "end", "expire", "activate", "decay", "move", "remodel", "withhold"}
LEMMA EventIs ==
  ASSUME RetrievalInv, NEW w, Happens(w)
  PROVE  /\ req' = req /\ happened' \in Nat /\ Event1.what = w
         /\ w \in OfMemory \cup {"supersede"} => Event1.m \in MemoryIds
         /\ w = "supersede" => Event1.by \in Sourced
<1>1. script \in DOMAIN Scripts /\ happened \in Nat
  BY DEF RetrievalInv, TablesKept
<1>2. Scripts[script].then \in Seq(Event)
  BY <1>1, ScriptIs DEF Script
<1>3. happened < Len(Scripts[script].then) /\ Event1.what = w /\ happened' = happened + 1 /\ req' = req
  BY DEF Happens
<1>4. Len(Scripts[script].then) \in Nat /\ DOMAIN Scripts[script].then = 1..Len(Scripts[script].then)
  BY <1>2
<1>5. happened + 1 \in DOMAIN Scripts[script].then
  BY <1>1, <1>3, <1>4
<1>6. Scripts[script].then[happened + 1] \in Event
  BY <1>2, <1>5
<1>7. Event1 \in Event /\ Event1 = Scripts[script].then[happened + 1]
  BY <1>6 DEF Event1
<1>8. w \in OfMemory \cup {"supersede"} => Event1.m \in MemoryIds
  BY <1>3, <1>7 DEF Event, OfMemory
<1>9. w = "supersede" => Event1.by \in Sourced
  BY <1>1, <1>3, <1>5, <1>7, RetrievalAssumption DEF Sourced
<1> QED
  BY <1>1, <1>3, <1>8, <1>9

LEMMA RewritesStep ==
  ASSUME RetrievalInv, NEW f \in [MemoryIds -> Memory], NEW S \in SUBSET MemoryIds, Rewrites(f, S),
         req' = req, happened' \in Nat, winner' \in Sourced \cup {0}
  PROVE  RetrievalInv'
<1>1. /\ Watch /\ script' = script /\ UNCHANGED <<user, hold, routed, correction, index>>
      /\ UNCHANGED cacheVars /\ pend' = pend \cup S
      /\ table' = [m \in MemoryIds |-> IF m \in S THEN f[m] ELSE table[m]]
  BY DEF Rewrites, Rest
<1>2. TablesKept /\ user'.id >= user.id
  BY <1>1 DEF RetrievalInv, TablesKept, User
<1>3. table' \in [MemoryIds -> Memory] /\ pend' \in SUBSET MemoryIds
  BY <1>1, <1>2 DEF TablesKept
<1>4. TablesKept'
  BY <1>1, <1>2, <1>3, Tabled DEF TablesKept
<1> QED
  BY <1>1, <1>2, <1>4, CachesSame, IndexSame, Occurs

\* A new row, and a row in another state.
LEMMA NewRow == [row |-> "live", rev |-> 1, when |-> "always", model |-> "new"] \in Memory
  BY DEF Memory, Models

LEMMA WithIs ==
  ASSUME RetrievalInv, NEW m \in MemoryIds, NEW s \in {"none", "live", "archived", "scheduled"}
  PROVE  With(m, s) \in [MemoryIds -> Memory]
<1>1. table \in [MemoryIds -> Memory]
  BY DEF RetrievalInv, TablesKept
<1>2. table[m] \in Memory
  BY <1>1
<1>3. [table[m] EXCEPT !.row = s] \in Memory
  BY <1>2 DEF Memory
<1> QED
  BY <1>1, <1>3 DEF With

LEMMA AddStep ==
  ASSUME RetrievalInv, Add \/ Supersede \/ Decay
  PROVE  RetrievalInv'
<1>1. table \in [MemoryIds -> Memory] /\ winner \in Sourced \cup {0} /\ Sourced \in SUBSET MemoryIds
  BY SourcedIs DEF RetrievalInv, TablesKept
<1>2. PICK new : new = [row |-> "live", rev |-> 1, when |-> "always", model |-> "new"]
  OBVIOUS
<1>3. new \in Memory
  BY <1>2, NewRow
<1>4. PICK m : m = Event1.m
  OBVIOUS
<1>5. CASE Add
  <2>1. req' = req /\ happened' \in Nat /\ m \in MemoryIds
    BY <1>4, <1>5, EventIs DEF Add, OfMemory
  <2>2. PICK f : f = [table EXCEPT ![m] = new]
    OBVIOUS
  <2>3. f \in [MemoryIds -> Memory] /\ {m} \in SUBSET MemoryIds
    BY <1>1, <1>3, <2>1, <2>2
  <2>4. PICK S : S = {m}
    OBVIOUS
  <2>5. Rewrites(f, S) /\ winner' = winner
    BY <1>2, <1>4, <1>5, <2>2, <2>4 DEF Add
  <2> QED
    BY <1>1, <2>1, <2>3, <2>4, <2>5, RewritesStep
<1>6. CASE Supersede
  <2>1. PICK b : b = Event1.by
    OBVIOUS
  <2>2. req' = req /\ happened' \in Nat /\ m \in MemoryIds /\ b \in Sourced
    BY <1>4, <1>6, <2>1, EventIs DEF Supersede
  <2>3. PICK f : f = [With(m, "archived") EXCEPT ![b] = new]
    OBVIOUS
  <2>4. f \in [MemoryIds -> Memory] /\ {m, b} \in SUBSET MemoryIds
    BY <1>1, <1>3, <2>2, <2>3, WithIs
  <2>5. PICK S : S = {m, b}
    OBVIOUS
  <2>6. Rewrites(f, S) /\ winner' = b
    BY <1>2, <1>4, <1>6, <2>1, <2>3, <2>5 DEF Supersede
  <2> QED
    BY <2>2, <2>4, <2>5, <2>6, RewritesStep
<1>7. CASE Decay
  <2>1. req' = req /\ happened' \in Nat /\ m \in MemoryIds
    BY <1>4, <1>7, EventIs DEF Decay, OfMemory
  <2>2. PICK f : f = With(m, "archived")
    OBVIOUS
  <2>3. f \in [MemoryIds -> Memory] /\ {m} \in SUBSET MemoryIds
    BY <2>1, <2>2, WithIs
  <2>4. PICK S : S = {m}
    OBVIOUS
  <2>5. Rewrites(f, S) /\ winner' = winner
    BY <1>4, <1>7, <2>2, <2>4 DEF Decay
  <2> QED
    BY <1>1, <2>1, <2>3, <2>4, <2>5, RewritesStep
<1> QED
  BY <1>5, <1>6, <1>7

\* The rows with another state each.
LEMMA StatesAre ==
  ASSUME RetrievalInv, NEW s, \A n \in MemoryIds : s[n] \in {"none", "live", "archived", "scheduled"}
  PROVE  [n \in MemoryIds |-> [table[n] EXCEPT !.row = s[n]]] \in [MemoryIds -> Memory]
<1>1. table \in [MemoryIds -> Memory]
  BY DEF RetrievalInv, TablesKept
<1>2. ASSUME NEW n \in MemoryIds PROVE [table[n] EXCEPT !.row = s[n]] \in Memory
  <2>1. table[n] \in Memory
    BY <1>1
  <2> QED
    BY <2>1 DEF Memory
<1> QED
  BY <1>2

LEMMA ExpireStep ==
  ASSUME RetrievalInv, Expire
  PROVE  RetrievalInv'
<1>1. /\ table \in [MemoryIds -> Memory] /\ winner \in Sourced \cup {0} /\ Sourced \in SUBSET MemoryIds
      /\ MemoryIds \in SUBSET Nat /\ IsFiniteSet(MemoryIds)
  BY SourcedIs, SettingIs DEF RetrievalInv, TablesKept
<1>2. PICK m : m = Event1.m
  OBVIOUS
<1>3. req' = req /\ happened' \in Nat /\ m \in MemoryIds
  BY <1>2, EventIs DEF Expire, OfMemory
<1>4. PICK prior : prior = {n \in Sourced : /\ n < m /\ m \in Sourced /\ winner = m
                                             /\ table[n].row # "none" /\ Valid(n)}
  OBVIOUS
<1>5. prior \in SUBSET Sourced /\ prior \in SUBSET Nat /\ IsFiniteSet(prior)
  BY <1>1, <1>4, FS_Subset
<1>6. PICK k : k = Max(prior)
  OBVIOUS
<1>7. prior # {} => k \in prior
  BY <1>5, <1>6, MaxIs
<1>8. PICK s : s = [n \in MemoryIds |-> IF n = m THEN "archived"
                                      ELSE IF prior # {} /\ n = k THEN "live" ELSE table[n].row]
  OBVIOUS
<1>9. \A n \in MemoryIds : s[n] \in {"none", "live", "archived", "scheduled"}
  BY <1>1, <1>8 DEF Memory
<1>10. PICK f : f = [n \in MemoryIds |-> [table[n] EXCEPT !.row = s[n]]]
  OBVIOUS
<1>11. f \in [MemoryIds -> Memory]
  BY <1>9, <1>10, StatesAre
<1>12. PICK S : S = {m} \cup (IF prior = {} THEN {} ELSE {k})
  OBVIOUS
<1>13. S \in SUBSET MemoryIds
  BY <1>1, <1>3, <1>5, <1>7, <1>12
<1>14. Rewrites(f, S) /\ winner' = IF winner # m THEN winner ELSE IF prior = {} THEN 0 ELSE k
  <2>1. f = [n \in MemoryIds |-> [table[n] EXCEPT !.row = IF n = m THEN "archived"
                                                        ELSE IF prior # {} /\ n = k THEN "live" ELSE table[n].row]]
    BY <1>8, <1>10
  <2> QED
    BY <1>2, <1>4, <1>6, <1>12, <2>1 DEF Expire
<1>15. winner' \in Sourced \cup {0}
  BY <1>1, <1>5, <1>7, <1>14
<1> QED
  BY <1>3, <1>11, <1>13, <1>14, <1>15, RewritesStep

LEMMA ActivateStep ==
  ASSUME RetrievalInv, Activate
  PROVE  RetrievalInv'
<1>1. table \in [MemoryIds -> Memory] /\ winner \in Sourced \cup {0} /\ Sourced \in SUBSET MemoryIds
  BY SourcedIs DEF RetrievalInv, TablesKept
<1>2. PICK m : m = Event1.m
  OBVIOUS
<1>3. req' = req /\ happened' \in Nat /\ m \in MemoryIds
  BY <1>2, EventIs DEF Activate, OfMemory
<1>4. PICK loser : loser = {n \in Sourced : m \in Sourced /\ n = winner /\ n # m /\ table[n].row = "live"}
  OBVIOUS
<1>5. PICK s : s = [n \in MemoryIds |-> IF n = m THEN "live" ELSE IF n \in loser THEN "archived" ELSE table[n].row]
  OBVIOUS
<1>6. \A n \in MemoryIds : s[n] \in {"none", "live", "archived", "scheduled"}
  BY <1>1, <1>5 DEF Memory
<1>7. PICK f : f = [n \in MemoryIds |-> [table[n] EXCEPT !.row = s[n]]]
  OBVIOUS
<1>8. f \in [MemoryIds -> Memory]
  BY <1>6, <1>7, StatesAre
<1>9. PICK S : S = {m} \cup loser
  OBVIOUS
<1>10. S \in SUBSET MemoryIds
  BY <1>1, <1>3, <1>4, <1>9
<1>11. Rewrites(f, S) /\ winner' = IF m \in Sourced THEN m ELSE winner
  <2>1. f = [n \in MemoryIds |-> [table[n] EXCEPT !.row = IF n = m THEN "live"
                                                        ELSE IF n \in loser THEN "archived" ELSE table[n].row]]
    BY <1>5, <1>7
  <2> QED
    BY <1>2, <1>4, <1>9, <2>1 DEF Activate
<1>12. winner' \in Sourced \cup {0}
  BY <1>1, <1>11
<1> QED
  BY <1>3, <1>8, <1>10, <1>11, <1>12, RewritesStep

\* The index alone changes, for one memory.
LEMMA IndexStep ==
  ASSUME RetrievalInv, Watch, script' = script, req' = req, happened' \in Nat, pend' \in SUBSET MemoryIds,
         UNCHANGED <<table, user, hold, routed, correction, winner>>, UNCHANGED cacheVars,
         NEW m \in MemoryIds, NEW V \in SUBSET ({m} \X Models), \A x, y \in V : x = y,
         index' = {x \in index : x[1] # m} \cup V
  PROVE  RetrievalInv'
<1>1. TablesKept /\ user'.id >= user.id
  BY DEF RetrievalInv, TablesKept, User
<1>2. index \in SUBSET (MemoryIds \X Models) /\ Once(index)
  BY <1>1 DEF TablesKept
<1>3. \A x \in V : x \in MemoryIds \X Models /\ x[1] = m
  OBVIOUS
<1>4. index' \in SUBSET (MemoryIds \X Models)
  BY <1>2, <1>3
<1>5. Once(index')
  BY <1>2, <1>3 DEF Once
<1>6. TablesKept'
  BY <1>1, <1>4, <1>5, Tabled DEF TablesKept
<1>7. ModelsKept
  BY DEF ModelsKept
<1> QED
  BY <1>1, <1>6, <1>7, CachesSame, Occurs

LEMMA DeliverStep ==
  ASSUME RetrievalInv, Deliver \/ Move
  PROVE  RetrievalInv'
<1>1. TablesKept
  BY DEF RetrievalInv
<1>2. PICK m : m = Event1.m
  OBVIOUS
<1>3. req' = req /\ happened' \in Nat /\ m \in MemoryIds
  BY <1>2, EventIs DEF Deliver, Move, OfMemory
<1>4. table[m].model \in Models /\ "new" \in Models
  BY <1>1, <1>3 DEF TablesKept, Memory, Models
<1>5. CASE Deliver
  <2>1. PICK V : V = {<<n, table[n].model>> : n \in {k \in {m} : table[k].row = "live"}}
    OBVIOUS
  <2>2. V \in SUBSET ({m} \X Models) /\ \A x, y \in V : x = y
    BY <1>4, <2>1
  <2>3. /\ Watch /\ script' = script /\ UNCHANGED <<table, user, hold, routed, correction, winner>>
        /\ UNCHANGED cacheVars /\ pend' = pend \ {m} /\ index' = {x \in index : x[1] # m} \cup V
    BY <1>2, <1>5, <2>1 DEF Deliver, Rest
  <2>4. pend' \in SUBSET MemoryIds
    BY <1>1, <2>3 DEF TablesKept
  <2> QED
    BY <1>3, <2>2, <2>3, <2>4, IndexStep
<1>6. CASE Move
  <2>1. PICK V : V = {<<m, "new">>}
    OBVIOUS
  <2>2. V \in SUBSET ({m} \X Models) /\ \A x, y \in V : x = y
    BY <1>4, <2>1
  <2>3. /\ Watch /\ script' = script /\ UNCHANGED <<table, user, hold, routed, correction, winner>>
        /\ UNCHANGED cacheVars /\ pend' = pend /\ index' = {x \in index : x[1] # m} \cup V
    BY <1>2, <1>6, <2>1 DEF Move, Rest, dbVars
  <2>4. pend' \in SUBSET MemoryIds
    BY <1>1, <2>3 DEF TablesKept
  <2> QED
    BY <1>3, <2>2, <2>3, <2>4, IndexStep
<1> QED
  BY <1>5, <1>6

\* One row changes, and nothing is ordered.
LEMMA RowStep ==
  ASSUME RetrievalInv, Watch, script' = script, req' = req, happened' \in Nat,
         UNCHANGED <<user, pend, hold, routed, correction, winner, index>>, UNCHANGED cacheVars,
         NEW m \in MemoryIds, NEW row \in Memory, table' = [table EXCEPT ![m] = row]
  PROVE  RetrievalInv'
<1>1. TablesKept /\ user'.id >= user.id
  BY DEF RetrievalInv, TablesKept, User
<1>2. table' \in [MemoryIds -> Memory]
  BY <1>1 DEF TablesKept
<1>3. TablesKept'
  BY <1>1, <1>2, Tabled DEF TablesKept
<1> QED
  BY <1>1, <1>3, CachesSame, IndexSame, Occurs

LEMMA LapseStep ==
  ASSUME RetrievalInv, Begin \/ End \/ Remodel
  PROVE  RetrievalInv'
<1>1. TablesKept
  BY DEF RetrievalInv
<1>2. PICK m : m = Event1.m
  OBVIOUS
<1>3. req' = req /\ happened' \in Nat /\ m \in MemoryIds
  BY <1>2, EventIs DEF Begin, End, Remodel, OfMemory
<1>4. table \in [MemoryIds -> Memory] /\ table[m] \in Memory
  BY <1>1, <1>3 DEF TablesKept
<1>5. /\ Watch /\ script' = script /\ UNCHANGED <<user, pend, hold, routed, correction, winner, index>>
      /\ UNCHANGED cacheVars
  BY DEF Begin, End, Lapse, Remodel, Rest
<1>6. CASE Begin \/ End
  <2>1. \E w \in {"now", "past"} : table' = [table EXCEPT ![m].when = w]
    BY <1>2, <1>6 DEF Begin, End, Lapse
  <2>2. PICK w \in {"now", "past"} : table' = [table EXCEPT ![m].when = w]
    BY <2>1
  <2>3. PICK row : row = [table[m] EXCEPT !.when = w]
    OBVIOUS
  <2>4. row \in Memory
    BY <1>4, <2>3 DEF Memory
  <2>5. table' = [table EXCEPT ![m] = row]
    BY <1>3, <1>4, <2>2, <2>3
  <2> QED
    BY <1>3, <1>5, <2>4, <2>5, RowStep
<1>7. CASE Remodel
  <2>1. PICK row : row = [table[m] EXCEPT !.model = "new"]
    OBVIOUS
  <2>2. row \in Memory
    BY <1>4, <2>1 DEF Memory, Models
  <2>3. table' = [table EXCEPT ![m] = row]
    <3>1. table' = [table EXCEPT ![m].model = "new"]
      BY <1>2, <1>7 DEF Remodel
    <3> QED
      BY <1>3, <1>4, <2>1, <3>1
  <2> QED
    BY <1>3, <1>5, <2>2, <2>3, RowStep
<1> QED
  BY <1>6, <1>7

LEMMA EraseStep ==
  ASSUME RetrievalInv, Erase
  PROVE  RetrievalInv'
<1>1. TablesKept /\ CachesKept
  BY DEF RetrievalInv
<1>2. req' = req /\ happened' \in Nat
  BY EventIs DEF Erase
<1>3. /\ Watch /\ script' = script /\ UNCHANGED index
      /\ table' = [m \in MemoryIds |-> [table[m] EXCEPT !.row = "none"]]
      /\ pend' = pend \cup {m \in MemoryIds : table[m].row # "none"}
      /\ user' = [st |-> "none", id |-> user.id + 1]
      /\ winner' = 0 /\ hold' = [broad |-> FALSE, facts |-> {}] /\ routed' = FALSE /\ correction' = FALSE
      /\ page' = {} /\ hot' = {}
      /\ l1' = [i \in Processes |-> {}] /\ hotL' = [i \in Processes |-> {}]
      /\ modelL' = [i \in Processes |-> {}]
  BY DEF Erase, Rest
<1>4. table' \in [MemoryIds -> Memory]
  <2>1. \A m \in MemoryIds : [table[m] EXCEPT !.row = "none"] \in Memory
    <3> SUFFICES ASSUME NEW m \in MemoryIds PROVE [table[m] EXCEPT !.row = "none"] \in Memory
      OBVIOUS
    <3>1. table[m] \in Memory
      BY <1>1 DEF TablesKept
    <3> QED
      BY <3>1 DEF Memory
  <2> QED
    BY <1>3, <2>1
<1>5. user' \in User /\ user'.id >= user.id
  BY <1>1, <1>3 DEF TablesKept, User
<1>6. pend' \in SUBSET MemoryIds /\ winner' \in Sourced \cup {0} /\ routed' \in BOOLEAN /\ correction' \in BOOLEAN
      /\ hold' \in HoldType
  BY <1>1, <1>3, EmptyIs DEF TablesKept, HoldType
<1>7. TablesKept'
  BY <1>1, <1>2, <1>3, <1>4, <1>5, <1>6, Tabled DEF TablesKept
<1>8. CachesKept'
  BY <1>3, EmptyIs DEF CachesKept, Versions, Models, Once
<1> QED
  BY <1>2, <1>3, <1>5, <1>7, <1>8, IndexSame, Occurs

LEMMA BlockStep ==
  ASSUME RetrievalInv, Block \/ Unblock
  PROVE  RetrievalInv'
<1>1. TablesKept
  BY DEF RetrievalInv
<1>2. req' = req /\ happened' \in Nat
  BY EventIs DEF Block, Unblock, SetBlocked
<1>3. /\ Watch /\ script' = script /\ UNCHANGED <<table, pend, hold, routed, correction, winner, index>>
      /\ UNCHANGED cacheVars
  BY DEF Block, Unblock, SetBlocked, Rest
<1>4. \E s \in {"open", "blocked", "none"} : user' = [user EXCEPT !.st = s]
  BY <1>1 DEF Block, Unblock, SetBlocked, TablesKept, User
<1>5. user' \in User /\ user'.id >= user.id
  BY <1>1, <1>4 DEF TablesKept, User
<1>6. TablesKept'
  BY <1>1, <1>2, <1>3, <1>5, Tabled DEF TablesKept
<1> QED
  BY <1>2, <1>3, <1>5, <1>6, CachesSame, IndexSame, Occurs

LEMMA HoldsStep ==
  ASSUME RetrievalInv, NEW w, NEW h \in HoldType, NEW c \in BOOLEAN, Holds(w, h, c)
  PROVE  RetrievalInv'
<1>1. TablesKept /\ user \in User
  BY DEF RetrievalInv, TablesKept
<1>2. req' = req /\ happened' \in Nat
  BY EventIs DEF Holds
<1>3. /\ Watch /\ script' = script /\ UNCHANGED <<table, user, pend, winner, index>>
      /\ UNCHANGED cacheVars /\ hold' = h /\ correction' = c
      /\ routed' = (routed \/ h # [broad |-> FALSE, facts |-> {}])
  BY DEF Holds, Rest
<1>4. routed' \in BOOLEAN
  BY <1>3
<1>5. user'.id >= user.id
  BY <1>1, <1>3 DEF User
<1>6. TablesKept'
  BY <1>1, <1>2, <1>3, <1>4, Tabled DEF TablesKept
<1> QED
  BY <1>2, <1>3, <1>5, <1>6, CachesSame, IndexSame, Occurs

LEMMA HoldStep ==
  ASSUME RetrievalInv, HoldAll \/ HoldFact \/ Release \/ Correction
  PROVE  RetrievalInv'
<1>1. TablesKept /\ hold \in HoldType /\ correction \in BOOLEAN
  BY DEF RetrievalInv, TablesKept
<1>2. CASE HoldAll
  <2>1. PICK h, c : h = [hold EXCEPT !.broad = TRUE] /\ c = correction
    OBVIOUS
  <2>2. h \in HoldType /\ c \in BOOLEAN
    BY <1>1, <2>1 DEF HoldType
  <2>3. Holds("hold", h, c)
    BY <1>2, <2>1 DEF HoldAll
  <2> QED
    BY <2>2, <2>3, HoldsStep
<1>3. CASE HoldFact
  <2>1. PICK m : m = Event1.m
    OBVIOUS
  <2>2. m \in MemoryIds
    BY <1>3, <2>1, EventIs DEF HoldFact, Holds, OfMemory
  <2>3. PICK h, c : h = [broad |-> FALSE, facts |-> {Row(m)}] /\ c = correction
    OBVIOUS
  <2>4. {Row(m)} \in Versions
    BY <1>1, <2>2, RowIs DEF Versions
  <2>5. h \in HoldType /\ c \in BOOLEAN
    BY <1>1, <2>3, <2>4 DEF HoldType
  <2>6. Holds("withhold", h, c)
    BY <1>3, <2>1, <2>3 DEF HoldFact
  <2> QED
    BY <2>5, <2>6, HoldsStep
<1>4. CASE Release
  <2>1. PICK h : h = [broad |-> FALSE, facts |-> {}]
    OBVIOUS
  <2>2. h \in HoldType
    BY <2>1, EmptyIs DEF HoldType
  <2>3. Holds("release", h, FALSE)
    BY <1>4, <2>1 DEF Release
  <2> QED
    BY <2>2, <2>3, HoldsStep
<1>5. CASE Correction
  <2>1. PICK h : h = hold
    OBVIOUS
  <2>2. Holds("correction", h, TRUE)
    BY <1>5, <2>1 DEF Correction
  <2> QED
    BY <1>1, <2>1, <2>2, HoldsStep
<1> QED
  BY <1>2, <1>3, <1>4, <1>5

LEMMA OutageStep ==
  ASSUME RetrievalInv, Outage
  PROVE  RetrievalInv'
<1>1. TablesKept /\ user \in User
  BY DEF RetrievalInv, TablesKept
<1>2. req' = req /\ happened' \in Nat
  BY EventIs DEF Outage
<1>3. /\ Watch /\ script' = script /\ UNCHANGED <<table, user, pend, hold, routed, correction, winner, index>>
      /\ UNCHANGED cacheVars
  BY DEF Outage, Rest, dbVars
<1>4. user'.id >= user.id
  BY <1>1, <1>3 DEF User
<1>5. TablesKept'
  BY <1>1, <1>2, <1>3, Tabled DEF TablesKept
<1> QED
  BY <1>2, <1>3, <1>4, <1>5, CachesSame, IndexSame, Occurs

-----------------------------------------------------------------------------
(* The invariant.                                                           *)

LEMMA RetrievalStarts ==
  ASSUME RetrievalInit
  PROVE  RetrievalInv
<1>1. script \in DOMAIN Scripts /\ Scripts[script] \in Script
  BY ScriptIs DEF RetrievalInit
<1>2. /\ table \in [MemoryIds -> Memory] /\ Sourced \in SUBSET MemoryIds
      /\ Scripts[script].cached \in SUBSET MemoryIds /\ Scripts[script].hot \in SUBSET MemoryIds
      /\ Scripts[script].routed \in BOOLEAN
  BY <1>1 DEF RetrievalInit, Script, Sourced
<1>3. TablesKept
  <2>1. winner \in Sourced \cup {0}
    <3>1. Sourced # {} => Min(Sourced) \in Sourced
      <4>1. PICK S : S = Sourced
        OBVIOUS
      <4>2. S \in SUBSET Nat
        BY <1>2, <4>1, SettingIs
      <4> QED
        BY <4>1, <4>2, MinIs
    <3> QED
      BY <3>1 DEF RetrievalInit
  <2>2. index \in SUBSET (MemoryIds \X Models) /\ Once(index)
    <3>1. PICK L : L = {n \in MemoryIds : table[n].row = "live"}
      OBVIOUS
    <3>2. index = {<<m, table[m].model>> : m \in L} /\ L \in SUBSET MemoryIds
      BY <3>1 DEF RetrievalInit
    <3>3. \A m \in L : table[m].model \in Models
      BY <1>2, <3>2 DEF Memory
    <3> QED
      BY <3>2, <3>3 DEF Once
  <2>3. hold \in HoldType /\ user \in User
    BY EmptyIs DEF RetrievalInit, HoldType, User
  <2>4. happened \in Nat /\ pend \in SUBSET MemoryIds /\ routed \in BOOLEAN /\ correction \in BOOLEAN
    BY <1>2 DEF RetrievalInit
  <2> QED
    BY <1>1, <1>2, <2>1, <2>2, <2>3, <2>4 DEF TablesKept
<1>4. CachesKept
  <2>1. page = {Row(m) : m \in Scripts[script].cached} /\ hot = {Row(m) : m \in Scripts[script].hot}
    BY DEF RetrievalInit
  <2>2. PICK C, H : C = Scripts[script].cached /\ H = Scripts[script].hot
    OBVIOUS
  <2>3. page \in Versions /\ Once(page) /\ hot \in Versions
    BY <1>2, <1>3, <2>1, <2>2, RowsAre
  <2>4. l1 = [i \in Processes |-> {}] /\ hotL = [i \in Processes |-> {}] /\ modelL = [i \in Processes |-> {}]
    BY DEF RetrievalInit
  <2> QED
    BY <2>3, <2>4, EmptyIs DEF CachesKept
<1>5. /\ Idle \in Progress /\ Idle.pc = "idle" /\ Idle.uid = 0 /\ Idle.got = {} /\ Idle.hot = {}
      /\ Idle.save = {} /\ Idle.ids = {} /\ Idle.cursor = 0
  BY EmptyIs DEF Idle, Progress, ReadPcs
<1>6. PICK h : h = [seen |-> {}, waiting |-> {}, published |-> {}]
  OBVIOUS
<1>7. h \in Seen /\ h.published = {}
  BY <1>6, EmptyIs DEF Seen
<1>8. \A r \in Requests : req[r] = Idle /\ hist[r] = h
  BY <1>6 DEF RetrievalInit
<1>9. RequestsKept
  <2>1. req \in [Requests -> Progress] /\ hist \in [Requests -> Seen]
    BY <1>5, <1>6, <1>7 DEF RetrievalInit
  <2> QED
    BY <1>5, <1>8, <2>1, EmptyIs DEF RequestsKept
<1>10. Recorded
  BY <1>5, <1>7, <1>8 DEF Recorded, Under
<1>11. ReadsFit
  <2> SUFFICES ASSUME NEW r \in Reads PROVE Fits(r, req[r], hist[r], table, user.id)
    BY DEF ReadsFit
  <2>1. req[r] = Idle /\ user.id = 1
    BY <1>8 DEF Reads, RetrievalInit
  <2> QED
    BY <1>5, <2>1 DEF Fits, ReadPcs, HotPcs
<1>12. ListsPass
  BY <1>5, <1>8 DEF ListsPass, Passed, ListPcs
<1> QED
  BY <1>3, <1>4, <1>9, <1>10, <1>11, <1>12 DEF RetrievalInv

LEMMA ReadingStep ==
  ASSUME RetrievalInv, Reading
  PROVE  RetrievalInv'
<1>1. PICK q :
        \/ Resolve(q) \/ Preflight(q) \/ CacheLocal(q) \/ CacheRedis(q) \/ CacheMiss(q) \/ Verify(q)
        \/ HotLocal(q) \/ HotRedis(q) \/ HydrateHot(q)
        \/ Branch(q) \/ Cold(q) \/ ColdKept(q) \/ Full(q) \/ Fallback(q) \/ Embed(q) \/ EmbedFails(q)
        \/ Search(q) \/ Fetch(q) \/ History(q) \/ WriteBack(q) \/ Final(q) \/ ListPage(q)
  BY DEF Reading
<1> QED
  BY <1>1, ResolveStep, PreflightStep, CacheStep, VerifyStep, HotStep, HydrateHotStep, BranchStep, ColdStep,
     ColdKeptStep, FullStep, EmbedStep, EmbedFailsStep, SearchStep, FetchStep, HistoryStep, WriteBackStep,
     FinalStep, ListStep

LEMMA WritingStep ==
  ASSUME RetrievalInv, Writing
  PROVE  RetrievalInv'
<1>1. PICK q :
        \/ Load(q) \/ WriteFails(q) \/ Update(q) \/ Archive(q) \/ Delete(q) \/ DropPages(q)
        \/ DropHot(q) \/ DropLocal(q) \/ SelectHot(q) \/ Promote(q)
  BY DEF Writing
<1> QED
  BY <1>1, LoadStep, WriteFailsStep, CommitStep, DropStep, SelectStep, PromoteStep

LEMMA HappeningStep ==
  ASSUME RetrievalInv, Happening
  PROVE  RetrievalInv'
  BY AddStep, ExpireStep, ActivateStep, DeliverStep, LapseStep, EraseStep, BlockStep, HoldStep, OutageStep
  DEF Happening

LEMMA RetrievalStutters ==
  ASSUME RetrievalInv, UNCHANGED retrievalVars
  PROVE  RetrievalInv'
<1>1. /\ UNCHANGED <<script, happened, table, user, pend, index, hold, routed, correction, winner, page, hot,
                     l1, hotL, modelL, req, hist>>
  BY DEF retrievalVars, dbVars, cacheVars, worldVars
<1>2. TablesKept' /\ CachesKept'
  <2>1. UNCHANGED dbVars /\ UNCHANGED cacheVars /\ UNCHANGED <<index, happened>>
    BY <1>1 DEF dbVars, cacheVars
  <2> QED
    BY <1>1, <2>1, TablesSame, CachesSame DEF RetrievalInv
<1>3. RequestsKept'
  BY <1>1, SameScript DEF RetrievalInv, RequestsKept, Progress, Seen, Versions, Models, Once
<1>4. Recorded'
  <2>1. \A r : Shown(r)' = Shown(r) /\ Waiting(r)' = Waiting(r) /\ Published(r)' = Published(r)
    BY <1>1, SameScript DEF Shown, Waiting, Published, Row, Current, Historical, Valid
  <2>2. \A r : Under(r)' <=> Under(r)
    BY <1>1 DEF Under, Over
  <2> QED
    BY <1>1, <2>1, <2>2, SameScript DEF RetrievalInv, Recorded, Watched
<1>5. ReadsFit'
  <2> SUFFICES ASSUME NEW r \in Reads PROVE Fits(r, req[r], hist[r], table, user.id)'
    BY <1>1, SameScript DEF ReadsFit
  <2>1. Fits(r, req[r], hist[r], table, user.id)
    BY DEF RetrievalInv, ReadsFit
  <2> QED
    BY <1>1, <2>1, SameScript DEF Fits, Excused, Ids
<1>6. ListsPass'
  BY <1>1, SameScript DEF RetrievalInv, ListsPass, Passed
<1> QED
  BY <1>2, <1>3, <1>4, <1>5, <1>6 DEF RetrievalInv

LEMMA RetrievalSteps ==
  ASSUME RetrievalInv, [RetrievalNext]_(retrievalVars)
  PROVE  RetrievalInv'
  BY ReadingStep, WritingStep, HappeningStep, RetrievalStutters DEF RetrievalNext

\* What reads have collected fits what they have seen, in every state the program reaches.
THEOREM RetrievalInvariant == RetrievalSpec => []RetrievalInv
<1>1. RetrievalInit => RetrievalInv
  BY RetrievalStarts
<1>2. RetrievalInv /\ [RetrievalNext]_(retrievalVars) => RetrievalInv'
  BY RetrievalSteps
<1> QED
  BY <1>1, <1>2, PTL DEF RetrievalSpec

-----------------------------------------------------------------------------
(* What the last transaction answers.                                       *)

\* Only the last transaction ends a read that has its candidates.
LEMMA OnlyFinal ==
  ASSUME RetrievalInv, RetrievalNext, NEW r \in Reads, Finals(r)
  PROVE  Final(r)
<1>1. /\ req \in [Requests -> Progress] /\ r \in Requests /\ req[r].pc = "final" /\ req'[r].pc = "answered"
      /\ Op(r) # "list"
  BY DEF RetrievalInv, RequestsKept, Reads, Finals, At
<1>2. CASE Happening
  <2>1. req' = req
    BY <1>2 DEF Happening, Add, Supersede, Deliver, Begin, End, Expire, Activate, Decay, Move,
                Remodel, Erase, Block, Unblock, SetBlocked, HoldAll, HoldFact, Release,
                Correction, Holds, Outage, Happens
  <2> QED
    BY <1>1, <2>1
<1>3. ASSUME NEW q, \E x : req' = [req EXCEPT ![q] = x], q # r PROVE FALSE
  BY <1>1, <1>3
<1>4. CASE Writing
  <2>1. PICK q :
        \/ Load(q) \/ WriteFails(q) \/ Update(q) \/ Archive(q) \/ Delete(q) \/ DropPages(q)
        \/ DropHot(q) \/ DropLocal(q) \/ SelectHot(q) \/ Promote(q)
    BY <1>4 DEF Writing
  <2>2. q # r
    BY <1>1, <2>1 DEF Load, WriteFails, Update, Archive, Delete, DropPages, DropHot, DropLocal,
                      SelectHot, Promote, At
  <2>3. q # r => req'[r] = req[r]
    BY <1>1, <2>1 DEF Load, WriteFails, Update, Archive, Delete, Committed, DropPages, DropHot,
                      DropLocal, SelectHot, Promote, Go
  <2> QED
    BY <1>1, <2>2, <2>3
<1>5. CASE Reading
  <2>1. PICK q :
        \/ Resolve(q) \/ Preflight(q) \/ CacheLocal(q) \/ CacheRedis(q) \/ CacheMiss(q) \/ Verify(q)
        \/ HotLocal(q) \/ HotRedis(q) \/ HydrateHot(q)
        \/ Branch(q) \/ Cold(q) \/ ColdKept(q) \/ Full(q) \/ Fallback(q) \/ Embed(q) \/ EmbedFails(q)
        \/ Search(q) \/ Fetch(q) \/ History(q) \/ WriteBack(q) \/ Final(q) \/ ListPage(q)
    BY <1>5 DEF Reading
  <2>2. CASE WriteBack(q)
    <3>1. req' = [req EXCEPT ![q].save = {}] /\ q \in Requests
      BY <2>2 DEF WriteBack, Reads
    <3>2. req[q] \in Progress
      BY <1>1, <3>1
    <3>3. req'[r].pc = req[r].pc
      BY <1>1, <3>1, <3>2 DEF Progress
    <3> QED
      BY <1>1, <3>3
  <2>3. CASE ~WriteBack(q) /\ q = r
    <3>1. \/ WriteBack(q) \/ Final(q)
      BY <1>1, <2>1, <2>3 DEF Resolve, Preflight, CacheLocal, CacheRedis, CacheMiss, Verify, HotLocal,
         HotRedis, HydrateHot, Branch, Cold, ColdKept, Full, Fallback, Embed, EmbedFails,
         Search, Fetch, History, ListPage, At
    <3> QED
      BY <2>3, <3>1
  <2>4. CASE ~WriteBack(q) /\ q # r
    <3>1. CASE Resolve(q)
      BY <1>1, <2>4, <3>1 DEF Resolve
    <3>2. CASE Preflight(q) \/ Verify(q) \/ HydrateHot(q) \/ EmbedFails(q) \/ History(q) \/ Final(q)
               \/ ListPage(q)
      <4>1. PICK x : req' = [req EXCEPT ![q] = x]
        BY <3>2 DEF Preflight, Verify, HydrateHot, EmbedFails, History, Final, ListPage
      <4> QED
        BY <1>3, <2>4, <4>1
    <3>3. CASE CacheLocal(q) \/ CacheRedis(q) \/ CacheMiss(q) \/ HotLocal(q) \/ HotRedis(q) \/ Branch(q)
               \/ Cold(q) \/ Search(q)
      BY <1>1, <2>4, <3>3 DEF CacheLocal, CacheRedis, CacheMiss, HotLocal, HotRedis, Branch, Cold,
         Search, Go
    <3>4. CASE ColdKept(q) \/ Full(q) \/ Fallback(q) \/ Embed(q) \/ Fetch(q)
      BY <1>1, <2>4, <3>4 DEF ColdKept, Full, Fallback, Embed, Fetch, Keep
    <3> QED
      BY <2>1, <2>4, <3>1, <3>2, <3>3, <3>4
  <2> QED
    BY <2>2, <2>3, <2>4
<1> QED
  BY <1>2, <1>4, <1>5 DEF RetrievalNext

Candidates(r) == IF IndexPending # {} THEN ColdStart ELSE req[r].got
Eligible(r) == IF routed THEN {x \in Hydrate(r, Candidates(r)) : x[1] \notin Ids(hold.facts)} ELSE Candidates(r)
LEMMA FinalDoes ==
  ASSUME RetrievalInv, NEW r \in Reads, Final(r)
  PROVE  /\ r \in Requests /\ req[r].pc = "final" /\ Under(r)
         /\ Candidates(r) \in Versions /\ Eligible(r) \in Versions
         /\ routed => Ids(Eligible(r)) = {m \in Ids(Candidates(r)) \ Ids(hold.facts) : Current(m) /\ Known(r)}
         /\ ~routed => Eligible(r) = Candidates(r)
         /\ req'[r].got = IF ~Known(r) \/ Broad THEN {} ELSE Withhold(Projected(Eligible(r)))
<1>1. r \in Requests /\ req[r].pc = "final" /\ Under(r) /\ req \in [Requests -> Progress] /\ TablesKept
  BY DEF Final, At, Under, Over, RetrievalInv, RequestsKept
<1>2. Candidates(r) \in Versions /\ Eligible(r) \in Versions
  BY <1>1, FreshIs DEF Candidates, Eligible
<1>3. PICK A : A = IF ~Known(r) \/ Broad THEN {} ELSE Withhold(Projected(Eligible(r)))
  OBVIOUS
<1>4. req' = [req EXCEPT ![r] = Done(r, "answered", A)]
  BY <1>3 DEF Final, Candidates, Eligible
<1>5. Done(r, "answered", A).got = A
  <2>1. Eligible(r) \in Versions /\ Once(Eligible(r)) /\ (r \in Reads => Eligible(r) \subseteq hist[r].seen)
    BY <1>1, FreshIs DEF Candidates, Eligible
  <2>2. PICK f : f = Eligible(r)
    OBVIOUS
  <2>3. A \in Versions /\ Once(A)
    BY <1>1, <1>3, <2>1, <2>2, FinalShows, EmptyIs
  <2> QED
    BY <1>1, <2>3, DoneIs
<1>6. req'[r].got = A
  BY <1>1, <1>4, <1>5
<1>7. routed => Ids(Eligible(r)) = {m \in Ids(Candidates(r)) \ Ids(hold.facts) : Current(m) /\ Known(r)}
  <2>1. PICK C : C = Candidates(r)
    OBVIOUS
  <2>2. PICK H : H = Hydrate(r, C)
    OBVIOUS
  <2>3. Ids(H) = {m \in Ids(C) : Current(m) /\ Known(r)} /\ H \in Versions
    BY <1>1, <1>2, <2>1, <2>2, HydrateIs, IdsAre
  <2>4. routed => Eligible(r) = {x \in H : x[1] \notin Ids(hold.facts)}
    BY <2>1, <2>2 DEF Eligible
  <2>5. Ids({x \in H : x[1] \notin Ids(hold.facts)}) = Ids(H) \ Ids(hold.facts)
    BY DEF Ids
  <2> QED
    BY <2>1, <2>3, <2>4, <2>5
<1> QED
  BY <1>1, <1>2, <1>3, <1>6, <1>7 DEF Eligible

\* A candidate that is current, not held and no service's is in the answer.
LEMMA FinalKeeps ==
  ASSUME RetrievalInv, NEW r \in Reads, Final(r), Free(r), NEW m \in Ids(Candidates(r)), Current(m),
         m \notin Sourced, m \notin Ids(hold.facts)
  PROVE  m \in Ids(req'[r].got)
<1>1. m \in Ids(Eligible(r))
  BY FinalDoes DEF Free
<1>2. PICK x \in Eligible(r) : x[1] = m
  BY <1>1 DEF Ids
<1>3. x \in Projected(Eligible(r))
  BY <1>2 DEF Projected
<1>4. req'[r].got = Projected(Eligible(r))
  BY FinalDoes DEF Free, Withhold
<1> QED
  BY <1>2, <1>3, <1>4 DEF Ids

LEMMA ReadsPending ==
  ASSUME RetrievalInv, NEW r \in Reads, Final(r), Free(r)
  PROVE  hist[r].waiting \ Ids(hold.facts) \subseteq Ids(req'[r].got)
<1> SUFFICES ASSUME NEW m \in hist[r].waiting, m \notin Ids(hold.facts) PROVE m \in Ids(req'[r].got)
  OBVIOUS
<1>1. m \in Waiting(r)
  BY FinalDoes, FitsIs
<1>2. m \in pend /\ m \notin Sourced /\ Current(m) /\ m \in MemoryIds /\ TablesKept
  BY <1>1 DEF Waiting, RetrievalInv, TablesKept
<1>3. m \in IndexPending
  BY <1>2 DEF IndexPending, Current
<1>4. Candidates(r) = ColdStart
  BY <1>3 DEF Candidates
<1>5. m \in Ids(Candidates(r))
  BY <1>2, <1>4, ColdIs
<1> QED
  BY <1>2, <1>5, FinalKeeps

LEMMA ReadsPublished ==
  ASSUME RetrievalInv, NEW r \in Reads, Final(r), Free(r), Asked[r].quota = "full", ~req[r].hit, ~req[r].stale
  PROVE  hist[r].published \ Ids(hold.facts) \subseteq Ids(req'[r].got)
<1> SUFFICES ASSUME NEW m \in hist[r].published, m \notin Ids(hold.facts) PROVE m \in Ids(req'[r].got)
  OBVIOUS
<1>1. /\ r \in Requests /\ req[r].pc = "final" /\ Under(r) /\ Fits(r, req[r], hist[r], table, user.id) /\ TablesKept
  BY FinalDoes, FitsIs DEF RetrievalInv
<1>2. m \in MemoryIds /\ m \notin Sourced /\ Current(m)
  BY <1>1, PublishedIs
<1>3. ~Excused(r, req[r], user.id)
  BY DEF Excused, Free, Known
<1>4. m \in Ids(req[r].got)
  BY <1>1, <1>3 DEF Fits
<1>5. m \in Ids(ColdStart)
  BY <1>1, <1>2, ColdIs
<1>6. m \in Ids(Candidates(r))
  BY <1>4, <1>5 DEF Candidates
<1> QED
  BY <1>2, <1>6, FinalKeeps

LEMMA ReadsWithheld ==
  ASSUME RetrievalInv, NEW r \in Reads, Final(r),
         \/ hold.broad \/ ~Known(r)
         \/ \E x \in hold.facts : table[x[1]].rev # x[2] \/ table[x[1]].row # "live"
  PROVE  req'[r].got = {}
<1>1. CASE ~Known(r)
  BY <1>1, FinalDoes
<1>2. CASE hold.broad
  BY <1>2, FinalDoes DEF Broad
<1>3. CASE \E x \in hold.facts : table[x[1]].rev # x[2] \/ table[x[1]].row # "live"
  <2>1. PICK x \in hold.facts : table[x[1]].rev # x[2] \/ table[x[1]].row # "live"
    BY <1>3
  <2>2. table[x[1]].rev # x[2] => x # Row(x[1])
    BY DEF Row
  <2>3. Broad
    BY <2>1, <2>2 DEF Broad
  <2> QED
    BY <2>3, FinalDoes
<1> QED
  BY <1>1, <1>2, <1>3

LEMMA ReadsGoverned ==
  ASSUME RetrievalInv, NEW r \in Reads, Final(r)
  PROVE  /\ routed => Ids(req'[r].got) \cap Ids(hold.facts)
                        \subseteq {m \in {winner} : \E n \in Sourced \ {m} : Current(n)}
         /\ Ids(req'[r].got) \cap Sourced \subseteq IF correction THEN {} ELSE {winner}
<1>1. CASE req'[r].got = {}
  BY <1>1, EmptyIs
<1>2. CASE req'[r].got = Withhold(Projected(Eligible(r)))
  <2>1. \A x \in req'[r].got : x \in Projected(Eligible(r)) /\ (correction => x[1] \notin Sourced)
    BY <1>2 DEF Withhold
  <2>2. \A x \in Projected(Eligible(r)) :
          \/ x \in Eligible(r) /\ x[1] \notin Sourced
          \/ x = Row(winner) /\ Ids(Eligible(r)) \cap Sourced # {}
    BY DEF Projected
  <2>3. Row(winner)[1] = winner
    BY DEF Row
  <2>4. ASSUME NEW m \in Ids(req'[r].got) \cap Sourced PROVE m \in IF correction THEN {} ELSE {winner}
    <3>1. PICK x \in req'[r].got : x[1] = m
      BY DEF Ids
    <3> QED
      BY <2>1, <2>2, <2>3, <2>4, <3>1
  <2>5. ASSUME routed, NEW m \in Ids(req'[r].got) \cap Ids(hold.facts)
        PROVE  m = winner /\ \E n \in Sourced \ {m} : Current(n)
    <3>1. PICK x \in req'[r].got : x[1] = m
      BY DEF Ids
    <3>2. Ids(Eligible(r)) = {n \in Ids(Candidates(r)) \ Ids(hold.facts) : Current(n) /\ Known(r)}
      BY <2>5, FinalDoes
    <3>3. x \notin Eligible(r)
      BY <2>5, <3>1, <3>2 DEF Ids
    <3>4. m = winner /\ Ids(Eligible(r)) \cap Sourced # {}
      BY <2>1, <2>2, <2>3, <3>1, <3>3
    <3> QED
      BY <2>5, <3>2, <3>4
  <2> QED
    BY <2>4, <2>5
<1> QED
  BY <1>1, <1>2, FinalDoes

-----------------------------------------------------------------------------
(* Theorems.                                                                *)

\* Types, and no answer and no page that is kept names a memory twice, however the tiers of
\* a read were read at different times (_merge_hot_tier_results).
THEOREM RetrievalTypes == RetrievalSpec => []RetrievalTypeOK
<1>1. RetrievalInv => RetrievalTypeOK
  <2> SUFFICES ASSUME RetrievalInv PROVE RetrievalTypeOK
    OBVIOUS
  <2>1. TablesKept /\ CachesKept /\ RequestsKept
    BY DEF RetrievalInv
  <2>2. \A S \in Versions : Once(S) => Cardinality(Ids(S)) = Cardinality(S)
    BY <2>1, OnceCounts
  <2>3. \A S \in {page} \cup {l1[i] : i \in Processes} \cup {req[r].got : r \in Requests} :
          S \in Versions /\ Once(S)
    BY <2>1, ReqIs DEF CachesKept
  <2>4. hold.broad \in BOOLEAN /\ hold.facts \in Versions
    BY <2>1 DEF TablesKept, HoldType
  <2> QED
    BY <2>1, <2>2, <2>3, <2>4, SourcedIs DEF RetrievalTypeOK, TablesKept, CachesKept
<1> QED
  BY <1>1, RetrievalInvariant, PTL

\* "SQL owns content and eligibility": whatever caches, hot tier and index nominate, an answer
\* shows a memory only in a version that was current at some moment of the read.
THEOREM AnswersCurrent == RetrievalSpec => []CurrentWhenRead
<1>1. RetrievalInv => CurrentWhenRead
  BY DEF RetrievalInv, ReadsFit, Fits, CurrentWhenRead, At
<1> QED
  BY <1>1, RetrievalInvariant, PTL

\* Completed writes are read while their publication lags, a read that met nothing stale
\* returns all that was published throughout, and a listing passes over nothing.
THEOREM AnswersComplete == RetrievalSpec => NothingMissed
<1>1. RetrievalInv /\ [RetrievalNext]_(retrievalVars) =>
        [\A r \in Reads : Finals(r) /\ Free(r)
           => hist[r].waiting \ Ids(hold.facts) \subseteq Ids(req'[r].got)]_(retrievalVars)
  BY OnlyFinal, ReadsPending
<1>2. RetrievalInv /\ [RetrievalNext]_(retrievalVars) =>
        [\A r \in Reads : Finals(r) /\ Free(r) /\ Asked[r].quota = "full" /\ ~req[r].hit /\ ~req[r].stale
           => hist[r].published \ Ids(hold.facts) \subseteq Ids(req'[r].got)]_(retrievalVars)
  BY OnlyFinal, ReadsPublished
<1>3. RetrievalInv => ListComplete
  BY DEF RetrievalInv, RequestsKept, ListsPass, Passed, ListComplete, At
<1> QED
  BY <1>1, <1>2, <1>3, RetrievalInvariant, PTL
  DEF RetrievalSpec, NothingMissed, PendingReadable, Complete

\* HoldType, blocks, deletions and claims govern every answer, whenever in the read they came.
THEOREM AnswersGoverned == RetrievalSpec => NothingLeaked
<1>1. RetrievalInv /\ [RetrievalNext]_(retrievalVars) =>
        [\A r \in Reads : Finals(r) /\ \/ hold.broad \/ ~Known(r)
                                       \/ \E x \in hold.facts : table[x[1]].rev # x[2] \/ table[x[1]].row # "live"
           => req'[r].got = {}]_(retrievalVars)
  BY OnlyFinal, ReadsWithheld
<1>2. RetrievalInv /\ [RetrievalNext]_(retrievalVars) =>
        [\A r \in Reads : Finals(r) =>
           /\ routed => Ids(req'[r].got) \cap Ids(hold.facts)
                          \subseteq {m \in {winner} : \E n \in Sourced \ {m} : Current(n)}
           /\ Ids(req'[r].got) \cap Sourced \subseteq IF correction THEN {} ELSE {winner}]_(retrievalVars)
  BY OnlyFinal, ReadsGoverned
<1> QED
  BY <1>1, <1>2, RetrievalInvariant, PTL
  DEF RetrievalSpec, NothingLeaked, Withheld, Governed
=============================================================================
