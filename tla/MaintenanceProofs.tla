-------------------------- MODULE MaintenanceProofs --------------------------
(***************************************************************************)
(* Proofs about the operator's long tasks: no legacy memory is written     *)
(* twice, a cursor never passes over a row, a task that reports that it is *)
(* complete has left nothing, a live winner of a claim is kept, and on a   *)
(* Passport that nobody wrote to the user's correction or else the newest  *)
(* memory wins.                                                            *)
(***************************************************************************)
EXTENDS Maintenance, FiniteSetTheorems, WellFoundedInduction, TLAPS

-----------------------------------------------------------------------------
(* Shapes and types.                                                       *)

Fields == {"pc", "cur", "from", "batch", "staged", "claim", "known", "job", "model", "end"}
Orders == [op : {"upsert", "delete"}, id : Ids, to : {"old", "new"}]

\* Every delivery is a record with the same fields; claim, job and model may
\* hold anything, nothing below depends on them.
Shape ==
  /\ script \in DOMAIN Scripts
  /\ DOMAIN run = Deliveries
  /\ \A r \in Deliveries : DOMAIN run[r] = Fields

Tables ==
  /\ mem \in [Ids -> Memory] /\ vec \in [Ids -> SUBSET Models] /\ orders \subseteq Orders
  /\ revs \in [Ids -> Nat] /\ DOMAIN count = LegacyUsers /\ happened \in Nat
  /\ cursor \in [Tasks \X BOOLEAN -> Ids \cup {0}] /\ lock \in [Locked -> Deliveries \cup {0}]

\* The places of the tasks, and where a batch is under way.
RowPcs == {"row", "pass", "upsert", "drop", "mark"}
BatchPcs == RowPcs \cup {"read", "commit", "note"}
TaskPcs == BatchPcs \cup {"open", "loop", "finish", "clear"}
LockedPcs == {"cursor", "open", "loop", "read", "commit", "note", "finish", "clear", "release", "unlock"}

Delivery(r) ==
  /\ run[r].cur \in Ids \cup {0} /\ run[r].from \in Ids \cup {0}
  /\ run[r].batch \subseteq Ids /\ run[r].staged \subseteq Ids /\ run[r].known \subseteq Ids
  /\ run[r].pc \in TaskPcs => Task(r) \in Tasks
  /\ run[r].pc \in RowPcs => Task(r) = "embed"
  /\ run[r].pc \in {"read", "note"} => Task(r) \in Backfills
  /\ run[r].pc \in {"cursor", "release", "unlock"} => Task(r) \in Locked
  /\ run[r].pc = "clear" => Task(r) # "users"
  /\ run[r].pc \in BatchPcs => run[r].batch # {} \/ (run[r].pc = "commit" /\ Task(r) = "embed")
  /\ run[r].staged # {} => Task(r) = "embed" /\ run[r].pc \in RowPcs \cup {"commit"}
  /\ run[r].end = "failed" => run[r].pc \in {"release", "unlock", "over", "dead"}
  /\ run[r].end = "complete" => run[r].pc \in {"clear", "release", "unlock", "over", "dead"}

TypeInv == Shape /\ Tables /\ \A r \in Deliveries : Delivery(r)

-----------------------------------------------------------------------------
(* No memory is written twice.                                             *)

\* Until a lock lapses under its holder, whoever is at work holds the lock of
\* its task, and knows every revision when it commits.
Holder(r) ==
  /\ Task(r) \in Locked /\ run[r].pc \in LockedPcs => lock[Task(r)] = r
  /\ Task(r) \in Locked /\ run[r].pc = "commit" => run[r].known = {i \in Ids : revs[i] # 0}
OnceInv == ~lapsed => (\A r \in Deliveries : Holder(r)) /\ \A i \in Ids : revs[i] <= 1
Counted == (\A i \in Ids : mem[i].st # "gone") =>
             \A u \in LegacyUsers : count[u] = Cardinality({i \in Ids : mem[i].owner = u})

-----------------------------------------------------------------------------
(* Nothing is passed over.                                                 *)

\* A row that the new model is recorded for has its vector there or will get
\* it, and none in the old collection unless it was edited.
VectorOf(i) ==
  mem[i].st = "live" /\ mem[i].model = "new" =>
    /\ "new" \in vec[i] \/ \E o \in orders : o.id = i /\ o.op = "upsert"
    /\ "old" \notin vec[i] \/ mem[i].edited
OrderOf(o) == IF o.op = "upsert" THEN o.to = "new" ELSE mem[o.id].st # "live"
\* What a re-embedding has done for the rows of its batch.
Carried(r) ==
  \A i \in Ids :
    /\ (i \in run[r].staged \/ (run[r].pc \in {"drop", "mark"} /\ i = Row(r))) /\ mem[i].st = "live" =>
         "new" \in vec[i]
    /\ i \in run[r].staged \/ (run[r].pc = "mark" /\ i = Row(r)) => "old" \notin vec[i]
VectorsInv ==
  /\ \A i \in Ids : VectorOf(i)
  /\ \A o \in orders : OrderOf(o)
  /\ \A r \in Deliveries : Carried(r)

\* A row is done for a task, or a re-embedding is at it or failed.
Lost == \E r \in Deliveries : run[r].end = "failed" \/ run[r].pc = "dead"
Excused(t, i) == t = "embed" /\ (Lost \/ \E r \in Deliveries : i \in run[r].staged)
Done(t, i) == ~Eligible(t, i) \/ Excused(t, i)

\* What a delivery knows has a revision.
KnownWritten(r) == \A i \in run[r].known : revs[i] # 0
\* A batch lies ahead of the cursor, and leaves out below its last row only
\* what is done.
Skipped(r) ==
  run[r].pc \in BatchPcs =>
    /\ \A k \in run[r].batch : k > run[r].cur
    /\ \A i \in Ids : i > run[r].cur /\ i \notin run[r].batch /\ (\E k \in run[r].batch : i < k)
         => ~Eligible(Task(r), i)
\* A row that is passed over is done; so is a batch that was committed, and
\* everything ahead of the cursor when no batch is left.
Settled(r) ==
  /\ run[r].pc = "pass" => ~Eligible(Task(r), Row(r))
  /\ run[r].pc = "note" /\ ~Asked[r].dry => \A i \in run[r].batch : ~Eligible(Task(r), i)
  /\ run[r].pc = "finish" => \A i \in Ids : i > run[r].cur => ~Eligible(Task(r), i)
Counts(r) == Task(r) \in Tasks /\ ~Asked[r].dry
\* What is behind its cursor is done, or excused ...
DoneBehind(r) == Counts(r) => \A i \in Ids : i <= run[r].cur => Done(Task(r), i)
\* ... and with no excuse if it began at the start of the table.
FromStart(r) ==
  Counts(r) /\ run[r].from = 0 =>
    /\ run[r].pc # "dead" /\ run[r].end # "failed" =>
         \A i \in Ids : i <= run[r].cur => ~Eligible(Task(r), i) \/ i \in run[r].staged
    /\ run[r].end = "complete" => \A i \in Ids : ~Eligible(Task(r), i)
Behind(r) == KnownWritten(r) /\ Skipped(r) /\ Settled(r) /\ DoneBehind(r) /\ FromStart(r)
BehindInv ==
  /\ \A r \in Deliveries : Behind(r)
  /\ \A t \in Tasks : \A i \in Ids : i <= cursor[<<t, FALSE>>] => Done(t, i)

-----------------------------------------------------------------------------
(* Lemmas about scripts, bounded sets and batches.                         *)

NextOf(r) ==
  \/ Acquire(r) \/ ReadCursor(r) \/ OpenJob(r) \/ Pause(r) \/ Select(r)
  \/ Look(r) \/ Carry(r) \/ Mark(r) \/ CommitBatch(r)
  \/ ReadLedger(r) \/ ApplyLedger(r) \/ ApplyUsers(r) \/ Note(r)
  \/ Finish(r) \/ Clear(r) \/ Release(r) \/ Die(r) \/ Activate(r) \/ Ask(r)

\* What a script says does not depend on the state.
LEMMA Static ==
  ASSUME script \in DOMAIN Scripts
  PROVE  /\ \A r \in Deliveries : r \in Nat /\ r # 0
         /\ \A r \in Deliveries : Task(r) \in Tasks => Asked[r].dry \in BOOLEAN
         /\ \A r \in Deliveries : Task(r) \in {"embed", "users"} => ~Asked[r].dry
         /\ \A r, s \in Deliveries : Task(r) \in Locked /\ Task(s) \in Locked => Task(r) = Task(s)
<1>1. Scripts[script] \in Script
  BY MaintenanceAssumption
<1>2. Asked \in Seq(Request)
  BY <1>1 DEF Script, Asked
<1>3. \A r \in Deliveries : Asked[r] \in Request /\ r \in Nat /\ r # 0
  BY <1>2 DEF Deliveries
<1>4. PICK t \in Locked : \A r \in DOMAIN Scripts[script].asked :
            Scripts[script].asked[r].task \in Locked => Scripts[script].asked[r].task = t
  BY MaintenanceAssumption
<1>5. \A r \in Deliveries : Task(r) \in Locked => Task(r) = t
  BY <1>4 DEF Deliveries, Asked, Task
<1>6. \A r \in Deliveries : Task(r) \in Tasks => Asked[r].dry \in BOOLEAN
  BY <1>3 DEF Request, Task, Tasks, Backfills, Locked
<1>7. \A r \in Deliveries : Task(r) \in {"embed", "users"} => ~Asked[r].dry
  BY <1>3 DEF Request, Task, Locked
<1> QED
  BY <1>3, <1>5, <1>6, <1>7

LEMMA Fixed ==
  ASSUME UNCHANGED script
  PROVE  /\ Asked' = Asked /\ Deliveries' = Deliveries
         /\ \A r : Task(r)' = Task(r) /\ Name(r)' = Name(r)
  BY DEF Asked, Deliveries, Task, Name

\* The ids are 1 .. n.
LEMMA IdsFinite ==
  /\ Cardinality(Ids) \in Nat /\ Ids = 1 .. Cardinality(Ids) /\ IsFiniteSet(Ids)
  /\ Ids \subseteq Nat \ {0}
  BY MaintenanceAssumption, FS_CardinalityType

\* A set of naturals has a least element.
LessThan == {ss \in Nat \X Nat : ss[1] < ss[2]}
LEMMA Least ==
  ASSUME NEW S \in SUBSET Nat, S # {}
  PROVE  \E x \in S : \A y \in S : x <= y
<1>1. OpToRel(<, Nat) = LessThan
  BY Zenon DEF OpToRel, LessThan
<1>2. IsWellFoundedOn(LessThan, Nat)
  BY <1>1, NatLessThanWellFounded, Zenon
<1>3. PICK x \in S : \A y \in S : ~(<<y, x>> \in LessThan)
  BY <1>2, WFMin
<1>4. ASSUME NEW a \in Nat, NEW b \in Nat, a < b PROVE <<a, b>> \in LessThan
  <2>1. <<a, b>> \in Nat \X Nat /\ <<a, b>>[1] = a /\ <<a, b>>[2] = b
    OBVIOUS
  <2> QED
    BY <1>4, <2>1 DEF LessThan
<1>5. \A y \in S : ~(y < x)
  BY <1>3, <1>4
<1> QED
  BY <1>5

\* A batch has a first row ...
LEMMA FirstRow ==
  ASSUME NEW S \in SUBSET Ids, S # {}
  PROVE  /\ Min(S) \in S
         /\ \A i \in S : Min(S) <= i
<1>1. S \in SUBSET Nat
  BY IdsFinite
<1>2. \E x \in S : \A y \in S : x <= y
  BY <1>1, Least
<1> QED
  BY <1>2 DEF Min

\* ... and a last one.
LEMMA LastRow ==
  ASSUME NEW S \in SUBSET Ids, S # {}
  PROVE  /\ Max(S) \in S
         /\ \A i \in S : i <= Max(S)
<1> DEFINE n == Cardinality(Ids)
           T == {m \in Nat : \A i \in S : i <= m}
<1>1. S \in SUBSET Nat /\ n \in Nat /\ n \in T
  BY IdsFinite
<1>2. PICK x \in T : \A y \in T : x <= y
  BY <1>1, Least
<1>3. x \in Nat /\ (\A i \in S : i <= x) /\ \A y \in T : x <= y
  BY <1>2
<1>4. x \in S
  <2> SUFFICES ASSUME x \notin S PROVE FALSE
    OBVIOUS
  <2>1. \A i \in S : i < x /\ i # 0
    BY <1>1, <1>3, IdsFinite
  <2>2. x > 0
    <3>1. PICK i \in S : i \in Nat
      BY <1>1
    <3> QED
      BY <1>3, <2>1, <3>1
  <2>3. x - 1 \in Nat /\ \A i \in S : i <= x - 1
    BY <1>1, <1>3, <2>1, <2>2
  <2>4. x - 1 \in T
    BY <2>3
  <2> QED
    BY <1>3, <2>3, <2>4
<1>5. \E m \in S : \A i \in S : m >= i
  BY <1>1, <1>3, <1>4
<1> QED
  BY <1>1, <1>5 DEF Max

\* A batch leaves out no row below one that it takes, and is empty only if no
\* row is left.
LEMMA Batches ==
  ASSUME NEW t, NEW c \in Nat
  PROVE  /\ Selected(t, c) \subseteq Ids
         /\ \A i \in Selected(t, c) : i > c
         /\ \A i \in Ids : /\ i > c /\ Eligible(t, i) /\ i \notin Selected(t, c)
                           => /\ \A k \in Selected(t, c) : k < i
                              /\ Selected(t, c) # {}
<1>1. Selected(t, c) \subseteq Remaining(t, c) /\ Remaining(t, c) \subseteq Ids
  BY DEF Selected, Remaining
<1>2. \A i \in Remaining(t, c) : i > c /\ i \in Nat
  BY IdsFinite DEF Remaining
<1>3. ASSUME NEW i \in Remaining(t, c), NEW k \in Selected(t, c), i < k
      PROVE  i \in Selected(t, c)
  <2> DEFINE Below(x) == {y \in Remaining(t, c) : y < x}
  <2>1. Below(i) \subseteq Below(k)
    BY <1>1, <1>2, <1>3
  <2>2. IsFiniteSet(Below(k))
    BY <1>1, IdsFinite, FS_Subset
  <2>3. Cardinality(Below(i)) <= Cardinality(Below(k)) /\ IsFiniteSet(Below(i))
    BY <2>1, <2>2, FS_Subset
  <2>4. Cardinality(Below(k)) < BatchSize
    BY DEF Selected
  <2>5. Cardinality(Below(i)) \in Nat /\ Cardinality(Below(k)) \in Nat /\ BatchSize \in Nat
    BY <2>2, <2>3, FS_CardinalityType, MaintenanceAssumption
  <2>6. Cardinality(Below(i)) < BatchSize
    BY <2>3, <2>4, <2>5
  <2> QED
    BY <2>6 DEF Selected
<1>4. ASSUME Remaining(t, c) # {} PROVE Selected(t, c) # {}
  <2> DEFINE i == Min(Remaining(t, c))
  <2>1. i \in Remaining(t, c) /\ \A k \in Remaining(t, c) : i <= k
    BY <1>1, <1>4, FirstRow
  <2>2. {k \in Remaining(t, c) : k < i} = {}
    BY <1>2, <2>1
  <2>3. Cardinality({k \in Remaining(t, c) : k < i}) < BatchSize
    BY <2>2, FS_EmptySet, MaintenanceAssumption
  <2> QED
    BY <2>1, <2>3 DEF Selected
<1>5. ASSUME NEW i \in Ids, i > c, Eligible(t, i), i \notin Selected(t, c)
      PROVE  (\A k \in Selected(t, c) : k < i) /\ Selected(t, c) # {}
  <2>1. i \in Remaining(t, c)
    BY <1>5 DEF Remaining
  <2>2. \A k \in Selected(t, c) : k \in Nat /\ i \in Nat /\ k # i /\ ~(i < k)
    BY <1>1, <1>2, <1>3, <1>5, <2>1
  <2> QED
    BY <1>4, <2>1, <2>2
<1> QED
  BY <1>1, <1>2, <1>5

-----------------------------------------------------------------------------
(* Types.                                                                  *)

\* A step of a delivery leaves the others alone.
Alone(r) == r \in Deliveries /\ UNCHANGED script /\ Shape' /\ \A s \in Deliveries : s # r => run'[s] = run[s]

LEMMA Moves ==
  ASSUME Shape, NEW r, NextOf(r)
  PROVE  Alone(r)
<1>0. r \in Deliveries /\ UNCHANGED script
  BY DEF NextOf, Acquire, ReadCursor, OpenJob, Pause, Select, Look, Carry, Mark, CommitBatch, ReadLedger,
         ApplyLedger, ApplyUsers, Note, Finish, Clear, Release, Die, Activate, Ask, At, Same
<1>1. ASSUME DOMAIN run' = DOMAIN run, DOMAIN run'[r] = DOMAIN run[r],
             \A s \in Deliveries : s # r => run'[s] = run[s]
      PROVE  Alone(r)
  <2>1. Deliveries' = Deliveries
    BY <1>0, Fixed
  <2> QED
    BY <1>0, <1>1, <2>1 DEF Alone, Shape
<1> USE <1>0 DEF Shape, Fields, Goes
<1>2. CASE Acquire(r) \/ ReadCursor(r) \/ OpenJob(r) \/ Pause(r) \/ Select(r)
  <2>1. CASE Acquire(r)
    BY <1>1, <2>1 DEF Acquire
  <2>2. CASE ReadCursor(r)
    BY <1>1, <2>2 DEF ReadCursor
  <2>3. CASE OpenJob(r)
    BY <1>1, <2>3 DEF OpenJob
  <2>4. CASE Pause(r)
    BY <1>1, <2>4 DEF Pause, Same
  <2>5. CASE Select(r)
    BY <1>1, <2>5 DEF Select
  <2> QED
    BY <1>2, <2>1, <2>2, <2>3, <2>4, <2>5
<1>3. ASSUME Failed(r) PROVE Alone(r)
  BY <1>1, <1>3 DEF Failed
<1>4. CASE Look(r) \/ Carry(r) \/ Mark(r) \/ CommitBatch(r)
  <2>1. CASE Look(r)
    BY <1>1, <2>1 DEF Look
  <2>2. CASE Carry(r)
    BY <1>1, <1>3, <2>2 DEF Carry
  <2>3. CASE Mark(r)
    BY <1>1, <1>3, <2>3 DEF Mark
  <2>4. CASE CommitBatch(r)
    BY <1>1, <1>3, <2>4 DEF CommitBatch
  <2> QED
    BY <1>4, <2>1, <2>2, <2>3, <2>4
<1>5. CASE ReadLedger(r) \/ ApplyLedger(r) \/ ApplyUsers(r) \/ Note(r)
  <2>1. CASE ReadLedger(r)
    BY <1>1, <2>1 DEF ReadLedger
  <2>2. CASE ApplyLedger(r)
    BY <1>1, <1>3, <2>2 DEF ApplyLedger
  <2>3. CASE ApplyUsers(r)
    BY <1>1, <2>3 DEF ApplyUsers
  <2>4. CASE Note(r)
    BY <1>1, <2>4 DEF Note
  <2> QED
    BY <1>5, <2>1, <2>2, <2>3, <2>4
<1>6. CASE Finish(r) \/ Clear(r) \/ Release(r) \/ Die(r)
  <2>1. CASE Finish(r)
    BY <1>1, <2>1 DEF Finish
  <2>2. CASE Clear(r)
    BY <1>1, <1>3, <2>2 DEF Clear
  <2>3. CASE Release(r)
    BY <1>1, <2>3 DEF Release
  <2>4. CASE Die(r)
    BY <1>1, <2>4 DEF Die
  <2> QED
    BY <1>6, <2>1, <2>2, <2>3, <2>4
<1>7. CASE Activate(r)
  BY <1>1, <1>7 DEF Activate
<1>8. CASE Ask(r)
  BY <1>1, <1>8 DEF Ask
<1> QED
  BY <1>2, <1>4, <1>5, <1>6, <1>7, <1>8 DEF NextOf

\* What each step does to the record of its delivery.
Stays(r) ==
  /\ run'[r].cur = run[r].cur /\ run'[r].from = run[r].from
  /\ run'[r].batch = run[r].batch /\ run'[r].staged = run[r].staged /\ run'[r].known = run[r].known
Fails(r) ==
  /\ run'[r].pc \in {"release", "over"} /\ (run'[r].pc = "release" => Task(r) \in Locked)
  /\ run'[r].end = "failed" /\ run'[r].cur = run[r].cur /\ run'[r].from = run[r].from
  /\ run'[r].batch = {} /\ run'[r].staged = {} /\ run'[r].known = {}

LEMMA FailedFails ==
  ASSUME Shape, NEW r \in Deliveries, Failed(r)
  PROVE  Fails(r)
  BY DEF Failed, Fails, Shape, Fields

\* From the delivery of a task to its loop.
LEMMA AcquireDoes ==
  ASSUME Shape, NEW r \in Deliveries, Acquire(r)
  PROVE  /\ run[r].pc = "new" /\ Task(r) \in Locked /\ Stays(r)
         /\ \/ run'[r].pc = "cursor" /\ run'[r].end = run[r].end
               /\ lock[Task(r)] = 0 /\ lock' = [lock EXCEPT ![Task(r)] = r]
            \/ run'[r].pc = "over" /\ run'[r].end = "skipped" /\ UNCHANGED lock
  BY DEF Acquire, Goes, Acquirable, Shape, Fields, Stays, At

LEMMA ReadCursorDoes ==
  ASSUME Shape, NEW r \in Deliveries, ReadCursor(r)
  PROVE  /\ run[r].pc = "cursor" \/ (run[r].pc = "new" /\ Task(r) \in {"embed", "users"})
         /\ run'[r].batch = run[r].batch /\ run'[r].staged = run[r].staged
         /\ run'[r].known = run[r].known
         /\ \/ /\ run'[r].pc = "open" /\ run'[r].end = run[r].end
               /\ run'[r].cur = cursor[Name(r)] /\ run'[r].from = cursor[Name(r)]
            \/ /\ run'[r].pc = "over" /\ Task(r) = "embed" /\ run'[r].end = "failed" /\ Stays(r)
            \/ /\ run'[r].pc = "open" /\ Task(r) # "embed" /\ run'[r].end = "none" /\ Stays(r)
  BY DEF ReadCursor, Shape, Fields, Stays, At

LEMMA OpenJobDoes ==
  ASSUME Shape, NEW r \in Deliveries, OpenJob(r)
  PROVE  run[r].pc = "open" /\ run'[r].pc = "loop" /\ run'[r].end = run[r].end /\ Stays(r)
  BY DEF OpenJob, Shape, Fields, Stays, At

LEMMA SelectDoes ==
  ASSUME Shape, NEW r \in Deliveries, Select(r)
  PROVE  /\ run[r].pc = "loop"
         /\ run'[r].batch = Selected(Task(r), run[r].cur)
         /\ run'[r].pc = (IF run'[r].batch = {} THEN "finish"
                          ELSE IF Task(r) = "embed" THEN "row" ELSE "read")
         /\ run'[r].cur = run[r].cur /\ run'[r].from = run[r].from /\ run'[r].staged = run[r].staged
         /\ run'[r].known = run[r].known /\ run'[r].end = run[r].end
  BY DEF Select, Shape, Fields, At

\* The re-embedding of a row and the commit of a batch.
LEMMA LookDoes ==
  ASSUME Shape, NEW r \in Deliveries, Look(r)
  PROVE  /\ run[r].pc = "row" /\ Stays(r) /\ run'[r].end = run[r].end
         /\ run'[r].pc = (IF mem[Row(r)].st = "gone" \/ mem[Row(r)].model # "old"
                          THEN "pass" ELSE "upsert")
  BY DEF Look, Goes, Shape, Fields, Stays, At

LEMMA CarryDoes ==
  ASSUME Shape, NEW r \in Deliveries, Carry(r)
  PROVE  \/ /\ run[r].pc = "upsert" /\ run'[r].pc = "drop" /\ Stays(r) /\ run'[r].end = run[r].end
            /\ vec' = [vec EXCEPT ![Row(r)] = @ \cup {"new"}]
         \/ /\ run[r].pc = "drop" /\ run'[r].pc = "mark" /\ Stays(r) /\ run'[r].end = run[r].end
            /\ vec' = [vec EXCEPT ![Row(r)] = @ \ {"old"}]
         \/ run[r].pc \in {"upsert", "drop"} /\ Fails(r) /\ UNCHANGED vec
  BY FailedFails DEF Carry, Goes, Shape, Fields, Stays, At

LEMMA MarkDoes ==
  ASSUME Shape, NEW r \in Deliveries, Mark(r)
  PROVE  /\ run[r].pc \in {"mark", "pass"}
         /\ \/ /\ cursor' = [cursor EXCEPT ![Name(r)] = Row(r)]
               /\ run'[r].cur = Row(r) /\ run'[r].batch = run[r].batch \ {Row(r)}
               /\ run'[r].staged = (IF run[r].pc = "mark" THEN run[r].staged \cup {Row(r)}
                                    ELSE run[r].staged)
               /\ run'[r].pc = (IF run[r].batch = {Row(r)} THEN "commit" ELSE "row")
               /\ run'[r].from = run[r].from /\ run'[r].known = run[r].known
               /\ run'[r].end = run[r].end
            \/ Fails(r) /\ UNCHANGED cursor
  BY FailedFails DEF Mark, Shape, Fields, At

LEMMA CommitBatchDoes ==
  ASSUME Shape, NEW r \in Deliveries, CommitBatch(r)
  PROVE  /\ run[r].pc = "commit" /\ Task(r) = "embed"
         /\ \/ Fails(r) /\ UNCHANGED mem
            \/ /\ mem' = [i \in Ids |-> IF i \in run[r].staged THEN [mem[i] EXCEPT !.model = "new"]
                                        ELSE mem[i]]
               /\ run'[r].pc = "loop" /\ run'[r].staged = {} /\ run'[r].cur = run[r].cur
               /\ run'[r].from = run[r].from /\ run'[r].batch = run[r].batch
               /\ run'[r].known = run[r].known /\ run'[r].end = run[r].end
  BY FailedFails DEF CommitBatch, Shape, Fields, At

\* A batch of a backfill.
LEMMA ReadLedgerDoes ==
  ASSUME Shape, NEW r \in Deliveries, ReadLedger(r)
  PROVE  /\ run[r].pc = "read" /\ run'[r].pc = "commit" /\ run'[r].known = {i \in Ids : revs[i] # 0}
         /\ run'[r].cur = run[r].cur /\ run'[r].from = run[r].from /\ run'[r].batch = run[r].batch
         /\ run'[r].staged = run[r].staged /\ run'[r].end = run[r].end
  BY DEF ReadLedger, Shape, Fields, At

\* What the commit of a batch does to the record of its delivery.
Noted(r) ==
  /\ run'[r].pc = "note" /\ run'[r].known = {} /\ run'[r].end = run[r].end
  /\ run'[r].cur = run[r].cur /\ run'[r].from = run[r].from
  /\ run'[r].batch = run[r].batch /\ run'[r].staged = run[r].staged

LEMMA ApplyLedgerDoes ==
  ASSUME Shape, NEW r \in Deliveries, ApplyLedger(r)
  PROVE  /\ run[r].pc = "commit" /\ Task(r) \in Locked
         /\ \/ Fails(r) /\ UNCHANGED revs
            \/ /\ revs' = [i \in Ids |-> IF i \in Unwritten(r) THEN revs[i] + 1 ELSE revs[i]]
               /\ Noted(r)
  BY FailedFails DEF ApplyLedger, Shape, Fields, Noted, At

LEMMA ApplyUsersDoes ==
  ASSUME Shape, NEW r \in Deliveries, ApplyUsers(r)
  PROVE  /\ run[r].pc = "commit" /\ Task(r) = "users" /\ Noted(r)
         /\ mem' = [i \in Ids |-> IF i \in run[r].batch /\ Eligible("users", i)
                                  THEN [mem[i] EXCEPT !.owner = mem[i].user] ELSE mem[i]]
<1>1. run[r].pc = "commit" /\ Task(r) = "users" /\ Noted(r)
  BY DEF ApplyUsers, Shape, Fields, Noted, At
<1> DEFINE rows == {i \in run[r].batch : Eligible("users", i)}
<1>2. mem' = [i \in Ids |-> IF i \in rows THEN [mem[i] EXCEPT !.owner = mem[i].user] ELSE mem[i]]
  BY DEF ApplyUsers
<1>3. \A i : i \in rows <=> i \in run[r].batch /\ Eligible("users", i)
  OBVIOUS
<1> QED
  BY <1>1, <1>2, <1>3

LEMMA NoteDoes ==
  ASSUME Shape, NEW r \in Deliveries, Note(r)
  PROVE  /\ run[r].pc = "note" /\ run'[r].pc = "loop" /\ run'[r].cur = Max(run[r].batch)
         /\ run'[r].batch = {} /\ run'[r].from = run[r].from /\ run'[r].staged = run[r].staged
         /\ run'[r].known = run[r].known /\ run'[r].end = run[r].end
         /\ UNCHANGED cursor \/ cursor' = [cursor EXCEPT ![Name(r)] = Max(run[r].batch)]
  BY DEF Note, LastId, Shape, Fields, At

\* How a task ends.
LEMMA FinishDoes ==
  ASSUME Shape, NEW r \in Deliveries, Finish(r)
  PROVE  /\ run[r].pc = "finish" /\ run'[r].end = "complete" /\ Stays(r)
         /\ run'[r].pc = (IF Task(r) = "users" THEN "over" ELSE "clear")
  BY DEF Finish, Shape, Fields, Stays, At

LEMMA ClearDoes ==
  ASSUME Shape, NEW r \in Deliveries, Clear(r)
  PROVE  /\ run[r].pc = "clear"
         /\ UNCHANGED cursor \/ cursor' = [cursor EXCEPT ![Name(r)] = 0]
         /\ \/ Fails(r)
            \/ /\ Stays(r) /\ run'[r].end = run[r].end
               /\ \/ run'[r].pc = "release" /\ (Task(r) \in Locked \/ Task(r) # "embed")
                  \/ run'[r].pc = "over" /\ Task(r) \notin Locked
  BY FailedFails DEF Clear, Goes, Shape, Fields, Stays, At

LEMMA ReleaseDoes ==
  ASSUME Shape, NEW r \in Deliveries, Release(r)
  PROVE  /\ run[r].pc \in {"release", "unlock"} /\ run'[r].pc \in {"unlock", "over"}
         /\ run'[r].end = run[r].end /\ Stays(r)
         /\ \/ UNCHANGED lock
            \/ lock' = [lock EXCEPT ![Task(r)] = 0] /\ run[r].pc = "unlock" /\ run'[r].pc = "over"
  BY DEF Release, Goes, Shape, Fields, Stays, At

LEMMA DieDoes ==
  ASSUME Shape, NEW r \in Deliveries, Die(r)
  PROVE  /\ Task(r) \in Tasks /\ run[r].pc \notin {"new", "over", "dead"} /\ run'[r].pc = "dead"
         /\ run'[r].staged = {} /\ run'[r].batch = {} /\ run'[r].end = run[r].end
         /\ run'[r].cur = run[r].cur /\ run'[r].from = run[r].from /\ run'[r].known = run[r].known
  BY DEF Die, Shape, Fields

\* The active model is nobody else's business.
ModelPcs == {"switch", "wait", "forget", "tell", "keep"}
LEMMA ModelDoes ==
  ASSUME Shape, NEW r \in Deliveries, Activate(r) \/ Ask(r)
  PROVE  /\ run[r].pc \in ModelPcs \/ (run[r].pc = "new" /\ Task(r) \in {"activate", "ask"})
         /\ run'[r].pc \in ModelPcs \cup {"over"}
         /\ Stays(r) /\ run'[r].end = run[r].end
<1>1. CASE Activate(r)
  BY <1>1 DEF Activate, Goes, Shape, Fields, Stays, At, ModelPcs
<1>2. CASE Ask(r)
  BY <1>2 DEF Ask, Goes, Shape, Fields, Stays, At, ModelPcs
<1> QED
  BY <1>1, <1>2

\* A step of a delivery leaves it well formed.
LEMMA DeliveryType ==
  ASSUME TypeInv, NEW r \in Deliveries, NextOf(r)
  PROVE  Delivery(r)'
<1>0. Shape /\ Delivery(r) /\ Task(r)' = Task(r)
  BY Moves, Fixed DEF TypeInv, Alone
<1>1. Task(r) \in Tasks => Asked[r].dry \in BOOLEAN /\ Name(r) \in Tasks \X BOOLEAN /\ cursor[Name(r)] \in Ids \cup {0}
  BY Static DEF TypeInv, Shape, Tables, Name
<1>2. ASSUME run[r].batch # {} PROVE Row(r) \in Ids /\ Row(r) \in run[r].batch
  BY <1>0, <1>2, FirstRow DEF Delivery, Row
<1> USE <1>0 DEF RowPcs, BatchPcs, TaskPcs, Locked, Backfills, Tasks, Stays, Fails, Noted
<1>3. CASE Acquire(r)
  BY <1>3, AcquireDoes DEF Delivery
<1>4. CASE ReadCursor(r)
  BY <1>1, <1>4, ReadCursorDoes DEF Delivery
<1>5. CASE OpenJob(r)
  BY <1>5, OpenJobDoes DEF Delivery
<1>6. CASE Pause(r)
  BY <1>6 DEF Delivery, Pause, Same
<1>7. CASE Select(r)
  <2>1. Selected(Task(r), run[r].cur) \subseteq Ids
    BY DEF Selected, Remaining
  <2> QED
    BY <1>7, <2>1, SelectDoes DEF Delivery
<1>8. CASE Look(r)
  BY <1>8, LookDoes DEF Delivery
<1>9. CASE Carry(r)
  BY <1>9, CarryDoes DEF Delivery
<1>10. CASE Mark(r)
  <2>1. run[r].pc \in {"mark", "pass"} /\ Task(r) = "embed" /\ Row(r) \in Ids
    BY <1>2, <1>10, MarkDoes DEF Delivery
  <2>2. run[r].batch # {Row(r)} => run[r].batch \ {Row(r)} # {}
    BY <1>2, <2>1 DEF Delivery
  <2>3. run'[r].batch \subseteq Ids /\ run'[r].staged \subseteq Ids /\ run'[r].known \subseteq Ids
        /\ run'[r].cur \in Ids \cup {0} /\ run'[r].from \in Ids \cup {0}
    <3>1. run[r].batch \subseteq Ids /\ run[r].staged \cup {Row(r)} \subseteq Ids /\ run[r].known \subseteq Ids
          /\ run[r].cur \in Ids \cup {0} /\ run[r].from \in Ids \cup {0}
      BY <2>1 DEF Delivery
    <3> QED
      BY <1>10, <2>1, <3>1, MarkDoes
  <2>4. run'[r].pc \in {"commit", "row", "over"} /\ (run'[r].pc = "over" => run'[r].staged = {})
        /\ (run'[r].end = "failed" => run'[r].pc = "over") /\ (run'[r].end # "complete")
        /\ (run'[r].pc = "row" => run'[r].batch # {})
    BY <1>10, <2>1, <2>2, MarkDoes DEF Delivery
  <2> QED
    BY <2>1, <2>3, <2>4 DEF Delivery
<1>11. CASE CommitBatch(r)
  BY <1>11, CommitBatchDoes DEF Delivery
<1>12. CASE ReadLedger(r)
  BY <1>12, ReadLedgerDoes DEF Delivery
<1>13. CASE ApplyLedger(r)
  BY <1>13, ApplyLedgerDoes DEF Delivery
<1>14. CASE ApplyUsers(r)
  BY <1>14, ApplyUsersDoes DEF Delivery
<1>15. CASE Note(r)
  <2>1. run[r].pc = "note" => Max(run[r].batch) \in Ids
    BY LastRow DEF Delivery
  <2> QED
    BY <1>15, <2>1, NoteDoes DEF Delivery
<1>16. CASE Finish(r)
  BY <1>16, FinishDoes DEF Delivery
<1>17. CASE Clear(r)
  BY <1>17, ClearDoes DEF Delivery
<1>18. CASE Release(r)
  BY <1>18, ReleaseDoes DEF Delivery
<1>19. CASE Die(r)
  BY <1>19, DieDoes DEF Delivery
<1>20. CASE Activate(r) \/ Ask(r)
  BY <1>20, ModelDoes DEF Delivery, ModelPcs
<1> QED
  BY <1>3, <1>4, <1>5, <1>6, <1>7, <1>8, <1>9, <1>10, <1>11, <1>12, <1>13, <1>14, <1>15, <1>16, <1>17,
     <1>18, <1>19, <1>20 DEF NextOf

\* What the live service may do next.
LEMMA Events ==
  ASSUME script \in DOMAIN Scripts, happened \in Nat, Next1
  PROVE  /\ Event.ev \in {"archive", "delete", "edit"} => Event.id \in Ids
         /\ happened' \in Nat /\ UNCHANGED script
<1>1. Scripts[script] \in Script
  BY MaintenanceAssumption
<1> DEFINE evs == [ev : {"archive", "delete", "edit"}, id : Ids] \cup [ev : {"record"}, val : {1, 2}]
<1>2. Scripts[script].then \in Seq(evs)
  BY <1>1 DEF Script
<1>3. happened + 1 \in 1 .. Len(Scripts[script].then) /\ Len(Scripts[script].then) \in Nat
  BY <1>2 DEF Next1
<1>4. Event \in evs
  BY <1>2, <1>3 DEF Event
<1> QED
  BY <1>4 DEF Next1

LEMMA WithdrawDoes ==
  ASSUME TypeInv, Withdraw
  PROVE  /\ UNCHANGED <<script, vec, revs, count, cursor, lock, run, lapsed>> /\ happened' \in Nat
         /\ \E i \in Ids, st \in {"archived", "gone"} :
              /\ mem[i].st # "gone" /\ mem' = [mem EXCEPT ![i].st = st]
              /\ orders' = orders \cup {[op |-> "delete", id |-> i, to |-> mem[i].model]}
<1>1. Event.id \in Ids /\ happened' \in Nat /\ UNCHANGED script
  BY Events DEF Withdraw, TypeInv, Shape, Tables
<1> QED
  BY <1>1 DEF Withdraw, redisVars

LEMMA EditDoes ==
  ASSUME TypeInv, Edit
  PROVE  /\ UNCHANGED <<script, vec, revs, count, cursor, lock, run, lapsed>> /\ happened' \in Nat
         /\ \E i \in Ids :
              /\ mem[i].st # "gone" /\ mem' = [mem EXCEPT ![i].model = "new", ![i].edited = TRUE]
              /\ orders' = orders \cup {[op |-> "upsert", id |-> i, to |-> "new"]}
<1>1. Event.id \in Ids /\ happened' \in Nat /\ UNCHANGED script
  BY Events DEF Edit, TypeInv, Shape, Tables
<1> QED
  BY <1>1 DEF Edit, redisVars

\* What the tasks and the live service make of a memory is one.
LEMMA MemoryType ==
  ASSUME NEW x \in Memory
  PROVE  /\ \A st \in {"archived", "gone"} : [x EXCEPT !.st = st] \in Memory
         /\ [x EXCEPT !.owner = x.user] \in Memory
         /\ [x EXCEPT !.model = "new"] \in Memory
         /\ [x EXCEPT !.model = "new", !.edited = TRUE] \in Memory
<1>1. \A st \in {"archived", "gone"} : [x EXCEPT !.st = st] \in Memory
  BY DEF Memory
<1>2. [x EXCEPT !.owner = x.user] \in Memory
  BY DEF Memory
<1>3. [x EXCEPT !.model = "new", !.edited = TRUE] \in Memory
  BY DEF Memory
<1>4. [x EXCEPT !.model = "new"] \in Memory
  BY DEF Memory
<1> QED
  BY <1>1, <1>2, <1>3, <1>4

\* The tables and Redis keep their types.
LEMMA TablesType ==
  ASSUME TypeInv, Next
  PROVE  Tables' /\ UNCHANGED script
<1>0. Shape /\ Tables
  BY DEF TypeInv
<1>1. ASSUME NEW r, NextOf(r) PROVE Tables' /\ UNCHANGED script
  <2>1. r \in Deliveries /\ Delivery(r) /\ UNCHANGED script /\ Deliveries' = Deliveries
    BY <1>0, <1>1, Moves, Fixed DEF TypeInv, Alone
  <2>2. Task(r) \in Tasks => Name(r) \in Tasks \X BOOLEAN
    BY <1>0, <2>1, Static DEF Shape, Name
  <2>3. CASE UNCHANGED <<happened, mem, vec, orders, revs, count, cursor, lock>>
    BY <1>0, <2>1, <2>3 DEF Tables
  <2>4. CASE Acquire(r)
    <3>1. UNCHANGED <<happened, mem, vec, orders, revs, count, cursor>>
      BY <2>4 DEF Acquire, Same, tables
    <3> QED
      BY <1>0, <2>1, <2>4, <3>1, AcquireDoes DEF Tables
  <2>5. CASE Carry(r)
    <3>1. UNCHANGED <<happened, mem, orders, revs, count, cursor, lock>>
      BY <2>5 DEF Carry, Same, redisVars
    <3>2. vec' \in [Ids -> SUBSET Models]
      BY <1>0, <2>1, <2>5, CarryDoes DEF Tables, Models
    <3> QED
      BY <1>0, <2>1, <3>1, <3>2 DEF Tables
  <2>6. CASE CommitBatch(r)
    <3>1. UNCHANGED <<happened, vec, orders, revs, count, cursor, lock>>
      BY <2>6 DEF CommitBatch, Same, redisVars
    <3>2. mem' \in [Ids -> Memory]
      <4>1. \A i \in Ids : mem[i] \in Memory /\ [mem[i] EXCEPT !.model = "new"] \in Memory
        BY <1>0, MemoryType DEF Tables
      <4>2. CASE UNCHANGED mem
        BY <1>0, <4>2 DEF Tables
      <4>3. CASE mem' = [i \in Ids |-> IF i \in run[r].staged THEN [mem[i] EXCEPT !.model = "new"] ELSE mem[i]]
        BY <4>1, <4>3
      <4> QED
        BY <1>0, <2>1, <2>6, <4>2, <4>3, CommitBatchDoes
    <3> QED
      BY <1>0, <2>1, <3>1, <3>2 DEF Tables
  <2>7. CASE ApplyLedger(r)
    <3>1. UNCHANGED <<happened, mem, vec, orders, count, cursor, lock>>
      BY <2>7 DEF ApplyLedger, Same, redisVars
    <3>2. revs' \in [Ids -> Nat]
      BY <1>0, <2>1, <2>7, ApplyLedgerDoes DEF Tables
    <3> QED
      BY <1>0, <2>1, <3>1, <3>2 DEF Tables
  <2>8. CASE ApplyUsers(r)
    <3>1. UNCHANGED <<happened, vec, orders, revs, cursor, lock>> /\ DOMAIN count' = LegacyUsers
      BY <2>8 DEF ApplyUsers, Same, redisVars
    <3>2. mem' \in [Ids -> Memory]
      BY <1>0, <2>1, <2>8, ApplyUsersDoes, MemoryType DEF Tables
    <3> QED
      BY <1>0, <2>1, <3>1, <3>2 DEF Tables
  <2>9. CASE Mark(r) \/ Note(r) \/ Clear(r)
    <3>1. UNCHANGED <<happened, mem, vec, orders, revs, count, lock>>
      BY <2>9 DEF Mark, Note, Clear, Same, tables
    <3>2. run[r].batch # {} => Row(r) \in Ids /\ Max(run[r].batch) \in Ids
      BY <2>1, FirstRow, LastRow DEF Delivery, Row
    <3>3. \/ UNCHANGED cursor
          \/ Name(r) \in Tasks \X BOOLEAN /\ \E c \in Ids \cup {0} : cursor' = [cursor EXCEPT ![Name(r)] = c]
      <4>1. CASE Mark(r)
        BY <1>0, <2>1, <2>2, <3>2, <4>1, MarkDoes DEF Delivery, TaskPcs, BatchPcs, RowPcs
      <4>2. CASE Note(r)
        BY <1>0, <2>1, <2>2, <3>2, <4>2, NoteDoes DEF Delivery, TaskPcs, BatchPcs
      <4>3. CASE Clear(r)
        BY <1>0, <2>1, <2>2, <4>3, ClearDoes DEF Delivery, TaskPcs
      <4> QED
        BY <2>9, <4>1, <4>2, <4>3
    <3>4. cursor' \in [Tasks \X BOOLEAN -> Ids \cup {0}]
      BY <1>0, <3>3 DEF Tables
    <3> QED
      BY <1>0, <2>1, <3>1, <3>4 DEF Tables
  <2>10. CASE Release(r)
    <3>1. UNCHANGED <<happened, mem, vec, orders, revs, count, cursor>>
      BY <2>10 DEF Release, Same, tables
    <3> QED
      BY <1>0, <2>1, <2>10, <3>1, ReleaseDoes DEF Tables, Delivery
  <2> QED
    BY <1>1, <2>1, <2>3, <2>4, <2>5, <2>6, <2>7, <2>8, <2>9, <2>10
       DEF NextOf, ReadCursor, OpenJob, Pause, Select, Look, ReadLedger, Finish, Die, Activate, Ask, Same,
           tables, redisVars
<1>2. CASE Withdraw
  <2>1. PICK i \in Ids, st \in {"archived", "gone"} :
          /\ mem' = [mem EXCEPT ![i].st = st]
          /\ orders' = orders \cup {[op |-> "delete", id |-> i, to |-> mem[i].model]}
    BY <1>2, WithdrawDoes
  <2>2. mem' \in [Ids -> Memory] /\ mem[i].model \in {"old", "new"}
    <3>1. mem[i] \in Memory /\ mem' = [mem EXCEPT ![i] = [mem[i] EXCEPT !.st = st]]
      BY <1>0, <2>1 DEF Tables
    <3>2. mem[i].model \in {"old", "new"}
      BY <3>1 DEF Memory
    <3> QED
      BY <1>0, <3>1, <3>2, MemoryType DEF Tables
  <2>3. orders' \subseteq Orders
    BY <1>0, <2>1, <2>2 DEF Tables, Orders
  <2> QED
    BY <1>0, <1>2, <2>2, <2>3, WithdrawDoes, Fixed DEF Tables
<1>3. CASE Edit
  <2>1. PICK i \in Ids :
          /\ mem' = [mem EXCEPT ![i].model = "new", ![i].edited = TRUE]
          /\ orders' = orders \cup {[op |-> "upsert", id |-> i, to |-> "new"]}
    BY <1>3, EditDoes
  <2>2. mem' \in [Ids -> Memory]
    <3>1. mem[i] \in Memory /\ mem' = [mem EXCEPT ![i] = [mem[i] EXCEPT !.model = "new", !.edited = TRUE]]
      BY <1>0, <2>1 DEF Tables
    <3> QED
      BY <1>0, <3>1, MemoryType DEF Tables
  <2>3. orders' \subseteq Orders
    BY <1>0, <2>1 DEF Tables, Orders
  <2> QED
    BY <1>0, <1>3, <2>2, <2>3, EditDoes, Fixed DEF Tables
<1>4. CASE Record
  <2>1. happened' \in Nat /\ UNCHANGED script
    BY <1>0, <1>4, Events DEF Record, Shape, Tables
  <2> QED
    BY <1>0, <1>4, <2>1, Fixed DEF Record, Tables, redisVars
<1>5. ASSUME NEW o \in orders, Deliver(o) PROVE Tables' /\ UNCHANGED script
  <2>1. o \in Orders /\ UNCHANGED <<script, happened, mem, revs, count, cursor, lock>>
    BY <1>0, <1>5 DEF Tables, Deliver, Same, redisVars
  <2>2. vec' \in [Ids -> SUBSET Models] /\ orders' \subseteq Orders
    BY <1>0, <1>5, <2>1 DEF Tables, Deliver, Orders, Models
  <2> QED
    BY <1>0, <2>1, <2>2, Fixed DEF Tables
<1>6. ASSUME NEW t \in Locked, Lapse(t) PROVE Tables' /\ UNCHANGED script
  <2>1. UNCHANGED <<script, happened, mem, vec, orders, revs, count, cursor>>
    BY <1>6 DEF Lapse, Same, tables
  <2> QED
    BY <1>0, <1>6, <2>1, Fixed DEF Tables, Lapse
<1> QED
  BY <1>1, <1>2, <1>3, <1>4, <1>5, <1>6 DEF Next, NextOf

\* Who is not at work leaves the deliveries alone.
WorldNext ==
  \/ \E t \in Locked : Lapse(t)
  \/ Withdraw \/ Edit \/ Record
  \/ \E o \in orders : Deliver(o)

LEMMA World ==
  ASSUME WorldNext
  PROVE  UNCHANGED run
  BY DEF WorldNext, Lapse, Withdraw, Edit, Record, Deliver, Same

\* Every step keeps the types.
LEMMA TypeStep ==
  ASSUME TypeInv, [Next]_vars
  PROVE  TypeInv' /\ UNCHANGED script /\ Deliveries' = Deliveries
<1>1. CASE Next
  <2>1. Tables' /\ UNCHANGED script /\ Deliveries' = Deliveries /\ \A r : Task(r)' = Task(r)
    BY <1>1, TablesType, Fixed
  <2>2. ASSUME NEW s \in Deliveries, run'[s] = run[s] PROVE Delivery(s)'
    BY <2>1, <2>2 DEF TypeInv, Delivery
  <2>3. ASSUME NEW r, NextOf(r) PROVE Shape' /\ \A s \in Deliveries : Delivery(s)'
    <3>1. Alone(r)
      BY <2>3, Moves DEF TypeInv
    <3> QED
      BY <2>2, <2>3, <3>1, DeliveryType DEF Alone
  <2>4. ASSUME WorldNext PROVE Shape' /\ \A s \in Deliveries : Delivery(s)'
    BY <2>1, <2>2, <2>4, World DEF TypeInv, Shape
  <2> QED
    BY <1>1, <2>1, <2>3, <2>4 DEF TypeInv, Next, NextOf, WorldNext
<1>2. CASE UNCHANGED vars
  <2>1. UNCHANGED <<script, happened, mem, vec, orders, revs, count, cursor, lock, run>>
    BY <1>2 DEF vars, tables, redisVars
  <2>2. Deliveries' = Deliveries /\ \A r : Task(r)' = Task(r)
    BY <2>1, Fixed
  <2> QED
    BY <2>1, <2>2 DEF TypeInv, Shape, Tables, Delivery
<1> QED
  BY <1>1, <1>2

\* The initial tables are those of the script, and nobody has begun.
LEMMA TypeInit ==
  ASSUME Init
  PROVE  TypeInv
<1>1. Scripts[script] \in Script /\ script \in DOMAIN Scripts
  BY MaintenanceAssumption DEF Init
<1>2. mem \in [Ids -> Memory]
  BY <1>1 DEF Init, Script
<1>3. \A i \in Ids : mem[i].model \in {"old", "new"}
  BY <1>2 DEF Memory
<1>4. vec \in [Ids -> SUBSET Models]
  BY <1>3 DEF Init, Models
<1>5. Tables
  BY <1>2, <1>4 DEF Init, Tables
<1>6. \A r \in Deliveries : run[r] = Fresh
  BY DEF Init
<1>7. Shape
  BY <1>1, <1>6 DEF Init, Shape, Fresh, Fields
<1>8. \A r \in Deliveries : Delivery(r)
  BY <1>6 DEF Delivery, Fresh, TaskPcs, BatchPcs, RowPcs
<1> QED
  BY <1>5, <1>7, <1>8 DEF TypeInv

\* The tables, the cursors and the locks have their types, and a delivery is
\* where its task can be: only a re-embedding goes row by row, only a
\* provenance backfill holds a lock, and a failed delivery does nothing more
\* than give its lock back.
THEOREM TypeInvariant == Spec => []TypeInv
  BY TypeInit, TypeStep, PTL DEF Spec

-----------------------------------------------------------------------------
(* No memory is written twice.                                             *)

\* A lock of a task is held or taken by one delivery.
LEMMA OnceStep ==
  ASSUME TypeInv, OnceInv, [Next]_vars
  PROVE  OnceInv'
<1>0. TypeInv' /\ UNCHANGED script /\ Deliveries' = Deliveries /\ (\A r : Task(r)' = Task(r)) /\ Shape
  BY TypeStep, Fixed DEF TypeInv
<1>1. \A r \in Deliveries : r # 0
  BY <1>0, Static DEF Shape
<1>2. \A r, s \in Deliveries : Task(r) \in Locked /\ Task(s) \in Locked => Task(r) = Task(s)
  BY <1>0, Static DEF Shape
<1> SUFFICES ASSUME ~lapsed'
             PROVE  (\A r \in Deliveries : Holder(r)') /\ \A i \in Ids : revs'[i] <= 1
  BY <1>0 DEF OnceInv
<1>3. ASSUME ~lapsed, UNCHANGED <<lock, revs>>, NEW s \in Deliveries,
             run'[s].pc \in LockedPcs => run[s].pc \in LockedPcs,
             run'[s].pc = "commit" => run[s].pc = "commit" /\ run'[s].known = run[s].known
      PROVE  Holder(s)'
  BY <1>0, <1>3 DEF Holder, OnceInv
<1>4. ASSUME ~lapsed, UNCHANGED <<lock, revs>>, UNCHANGED run
      PROVE  (\A r \in Deliveries : Holder(r)') /\ \A i \in Ids : revs'[i] <= 1
  BY <1>3, <1>4 DEF OnceInv
<1>5. CASE Withdraw \/ Edit \/ Record \/ (\E o \in orders : Deliver(o)) \/ UNCHANGED vars
  <2>1. UNCHANGED <<lock, revs, run, lapsed>>
    BY <1>5 DEF Withdraw, Edit, Record, Deliver, Same, vars, redisVars, tables
  <2> QED
    BY <1>4, <2>1
<1>6. ASSUME NEW t \in Locked, Lapse(t)
      PROVE  (\A r \in Deliveries : Holder(r)') /\ \A i \in Ids : revs'[i] <= 1
  <2>1. UNCHANGED <<run, revs>> /\ ~lapsed /\ lock' = [lock EXCEPT ![t] = 0] /\ lock[t] # 0
        /\ run[lock[t]].pc \in {"over", "dead"}
    BY <1>6 DEF Lapse, Same, tables
  <2>2. lock[t] \in Deliveries /\ \A u \in Locked : u # t => lock'[u] = lock[u]
    BY <2>1 DEF TypeInv, Tables
  <2>3. ASSUME NEW s \in Deliveries PROVE Holder(s)'
    BY <1>0, <2>1, <2>2 DEF Holder, OnceInv, LockedPcs
  <2> QED
    BY <2>1, <2>3 DEF OnceInv
<1>7. ASSUME NEW r, NextOf(r), ~lapsed
      PROVE  (\A s \in Deliveries : Holder(s)') /\ \A i \in Ids : revs'[i] <= 1
  <2>1. r \in Deliveries /\ (\A s \in Deliveries : s # r => run'[s] = run[s]) /\ Delivery(r)
    BY <1>0, <1>7, Moves DEF Alone, TypeInv
  <2>2. ASSUME UNCHANGED <<lock, revs>>, Holder(r)'
        PROVE  (\A s \in Deliveries : Holder(s)') /\ \A i \in Ids : revs'[i] <= 1
    BY <1>3, <1>7, <2>1, <2>2 DEF OnceInv
  <2>3. ASSUME UNCHANGED <<lock, revs>>,
               run'[r].pc \in LockedPcs => run[r].pc \in LockedPcs \/ Task(r) \notin Locked,
               run'[r].pc # "commit"
        PROVE  (\A s \in Deliveries : Holder(s)') /\ \A i \in Ids : revs'[i] <= 1
    BY <1>0, <1>7, <2>1, <2>2, <2>3 DEF Holder, OnceInv
  <2>4. ASSUME UNCHANGED <<lock, revs>>, Fails(r), run[r].pc \in LockedPcs \/ Task(r) \notin Locked
        PROVE  (\A s \in Deliveries : Holder(s)') /\ \A i \in Ids : revs'[i] <= 1
    BY <2>3, <2>4 DEF Fails, LockedPcs
  <2> USE DEF LockedPcs
  <2>5. CASE Acquire(r)
    <3>1. UNCHANGED revs
      BY <2>5 DEF Acquire, Same, tables
    <3>2. CASE run'[r].pc = "over"
      BY <1>0, <2>1, <2>3, <2>5, <3>1, <3>2, AcquireDoes
    <3>3. CASE run'[r].pc = "cursor"
      <4>1. /\ lock[Task(r)] = 0 /\ Task(r) \in Locked /\ lock' = [lock EXCEPT ![Task(r)] = r]
        BY <1>0, <2>1, <2>5, <3>3, AcquireDoes
      <4>2. lock'[Task(r)] = r
        BY <4>1 DEF TypeInv, Tables
      <4>3. ASSUME NEW s \in Deliveries, s # r PROVE Holder(s)'
        <5>1. run'[s] = run[s] /\ Holder(s)
          BY <1>7, <2>1, <4>3 DEF OnceInv
        <5>2. Task(s) \in Locked => Task(s) = Task(r)
          BY <1>2, <2>1, <4>1
        <5> QED
          BY <1>0, <1>1, <3>1, <4>1, <5>1, <5>2 DEF Holder
      <4>4. Holder(r)'
        BY <1>0, <3>3, <4>2 DEF Holder
      <4> QED
        BY <1>7, <3>1, <4>3, <4>4 DEF OnceInv
    <3> QED
      BY <1>0, <2>1, <2>5, <3>2, <3>3, AcquireDoes
  <2>6. CASE ReadCursor(r)
    <3>1. UNCHANGED <<lock, revs>>
      BY <2>6 DEF ReadCursor, Same, tables, redisVars
    <3> QED
      BY <1>0, <2>1, <2>3, <2>6, <3>1, ReadCursorDoes DEF Locked
  <2>7. CASE OpenJob(r) \/ Select(r) \/ Finish(r) \/ Note(r) \/ Look(r) \/ CommitBatch(r)
    <3>1. UNCHANGED <<lock, revs>>
      BY <2>7 DEF OpenJob, Select, Finish, Note, Look, CommitBatch, Same, tables, redisVars
    <3>2. CASE OpenJob(r)
      BY <1>0, <2>1, <2>3, <3>1, <3>2, OpenJobDoes
    <3>3. CASE Select(r)
      BY <1>0, <2>1, <2>3, <3>1, <3>3, SelectDoes
    <3>4. CASE Finish(r)
      BY <1>0, <2>1, <2>3, <3>1, <3>4, FinishDoes
    <3>5. CASE Note(r)
      BY <1>0, <2>1, <2>3, <3>1, <3>5, NoteDoes
    <3>6. CASE Look(r)
      BY <1>0, <2>1, <2>3, <3>1, <3>6, LookDoes
    <3>7. CASE CommitBatch(r)
      BY <1>0, <2>1, <2>3, <2>4, <3>1, <3>7, CommitBatchDoes
    <3> QED
      BY <2>7, <3>2, <3>3, <3>4, <3>5, <3>6, <3>7
  <2>8. CASE Pause(r)
    BY <1>4, <1>7, <2>8 DEF Pause, Same, tables, redisVars
  <2>9. CASE Carry(r) \/ Mark(r) \/ Clear(r) \/ Die(r) \/ Activate(r) \/ Ask(r)
    <3>1. UNCHANGED <<lock, revs>>
      BY <2>9 DEF Carry, Mark, Clear, Die, Activate, Ask, Same, tables, redisVars
    <3>2. CASE Carry(r)
      BY <1>0, <2>1, <2>3, <2>4, <3>1, <3>2, CarryDoes DEF Delivery, RowPcs, Locked
    <3>3. CASE Mark(r)
      <4>1. Task(r) \notin Locked
        BY <1>0, <2>1, <3>3, MarkDoes DEF Delivery, RowPcs, Locked
      <4>2. Holder(r)'
        BY <1>0, <4>1 DEF Holder
      <4> QED
        BY <2>2, <3>1, <4>2
    <3>4. CASE Clear(r)
      BY <1>0, <2>1, <2>3, <2>4, <3>1, <3>4, ClearDoes
    <3>5. CASE Die(r)
      BY <1>0, <2>1, <2>3, <3>1, <3>5, DieDoes
    <3>6. CASE Activate(r) \/ Ask(r)
      BY <1>0, <2>1, <2>3, <3>1, <3>6, ModelDoes DEF ModelPcs
    <3> QED
      BY <2>9, <3>2, <3>3, <3>4, <3>5, <3>6
  <2>10. CASE ReadLedger(r)
    <3>1. UNCHANGED <<lock, revs>>
      BY <2>10 DEF ReadLedger, Same, tables, redisVars
    <3>2. Holder(r)'
      BY <1>0, <1>7, <2>1, <2>10, <3>1, ReadLedgerDoes DEF Holder, OnceInv
    <3> QED
      BY <2>2, <3>1, <3>2
  <2>11. CASE ApplyUsers(r)
    <3>1. UNCHANGED <<lock, revs>>
      BY <2>11 DEF ApplyUsers, Same, tables, redisVars
    <3> QED
      BY <1>0, <2>1, <2>3, <2>11, <3>1, ApplyUsersDoes DEF Noted
  <2>12. CASE ApplyLedger(r)
    <3>1. UNCHANGED lock
      BY <2>12 DEF ApplyLedger, Same, redisVars
    <3>2. run[r].pc = "commit" /\ Task(r) \in Locked /\ lock[Task(r)] = r
          /\ run[r].known = {i \in Ids : revs[i] # 0}
      BY <1>0, <1>7, <2>1, <2>12, ApplyLedgerDoes DEF OnceInv, Holder
    <3>3. CASE Fails(r) /\ UNCHANGED revs
      BY <2>4, <3>1, <3>2, <3>3
    <3>4. CASE Noted(r) /\ revs' = [i \in Ids |-> IF i \in Unwritten(r) THEN revs[i] + 1 ELSE revs[i]]
      <4>1. \A i \in Unwritten(r) : i \notin run[r].known
        BY DEF Unwritten
      <4>2. \A i \in Ids : revs[i] \in Nat /\ revs[i] <= 1
        BY <1>7 DEF OnceInv, TypeInv, Tables
      <4>3. \A i \in Ids : revs'[i] <= 1
        BY <3>2, <3>4, <4>1, <4>2
      <4>4. ASSUME NEW s \in Deliveries, s # r PROVE Holder(s)'
        <5>1. run'[s] = run[s] /\ Holder(s)
          BY <1>7, <2>1, <4>4 DEF OnceInv
        <5>2. Task(s) \in Locked => Task(s) = Task(r)
          BY <1>2, <2>1, <3>2
        <5> QED
          BY <1>0, <3>1, <3>2, <4>4, <5>1, <5>2 DEF Holder
      <4>5. Holder(r)'
        BY <1>0, <3>1, <3>2, <3>4 DEF Holder, Noted
      <4> QED
        BY <4>3, <4>4, <4>5
    <3> QED
      BY <1>0, <2>1, <2>12, <3>3, <3>4, ApplyLedgerDoes
  <2>13. CASE Release(r)
    <3>1. UNCHANGED revs
      BY <2>13 DEF Release, Same, tables
    <3>2. CASE UNCHANGED lock
      BY <1>0, <2>1, <2>3, <2>13, <3>1, <3>2, ReleaseDoes
    <3>3. CASE lock' = [lock EXCEPT ![Task(r)] = 0] /\ run[r].pc = "unlock" /\ run'[r].pc = "over"
      <4>1. Task(r) \in Locked /\ lock[Task(r)] = r
        BY <1>7, <2>1, <3>3 DEF Delivery, OnceInv, Holder
      <4>2. ASSUME NEW s \in Deliveries, s # r PROVE Holder(s)'
        <5>1. run'[s] = run[s] /\ Holder(s)
          BY <1>7, <2>1, <4>2 DEF OnceInv
        <5>2. Task(s) \in Locked => Task(s) = Task(r)
          BY <1>2, <2>1, <4>1
        <5> QED
          BY <1>0, <3>1, <4>1, <4>2, <5>1, <5>2 DEF Holder
      <4>3. Holder(r)'
        BY <1>0, <3>3 DEF Holder
      <4> QED
        BY <1>7, <3>1, <4>2, <4>3 DEF OnceInv
    <3> QED
      BY <1>0, <2>1, <2>13, <3>2, <3>3, ReleaseDoes
  <2> QED
    BY <1>7, <2>5, <2>6, <2>7, <2>8, <2>9, <2>10, <2>11, <2>12, <2>13 DEF NextOf
<1>8. ASSUME NEW r, NextOf(r) PROVE ~lapsed
  BY <1>8 DEF NextOf, Acquire, ReadCursor, OpenJob, Pause, Select, Look, Carry, Mark, CommitBatch, ReadLedger,
         ApplyLedger, ApplyUsers, Note, Finish, Clear, Release, Die, Activate, Ask, Same
<1> QED
  BY <1>5, <1>6, <1>7, <1>8 DEF Next, NextOf

\* The users that a backfill made have the count of their memories.
LEMMA CountStep ==
  ASSUME TypeInv, Counted, [Next]_vars
  PROVE  Counted'
<1>0. Tables /\ Shape
  BY DEF TypeInv
<1>1. ASSUME UNCHANGED count, DOMAIN mem' = Ids,
             \A i \in Ids : mem'[i].owner = mem[i].owner /\ (mem[i].st = "gone" => mem'[i].st = "gone")
      PROVE  Counted'
  <2>1. \A u : {i \in Ids : mem'[i].owner = u} = {i \in Ids : mem[i].owner = u}
    BY <1>1
  <2> QED
    BY <1>1, <2>1 DEF Counted
<1>2. CASE UNCHANGED <<mem, count>>
  BY <1>2 DEF Counted
<1>3. CASE Withdraw
  <2>1. PICK i \in Ids, st \in {"archived", "gone"} : mem[i].st # "gone" /\ mem' = [mem EXCEPT ![i].st = st]
    BY <1>3, WithdrawDoes
  <2>2. \A k \in Ids : mem'[k].owner = mem[k].owner /\ (mem[k].st = "gone" => mem'[k].st = "gone")
    BY <1>0, <2>1 DEF Tables, Memory
  <2> QED
    BY <1>0, <1>1, <1>3, <2>1, <2>2, WithdrawDoes DEF Tables
<1>4. CASE Edit
  <2>1. PICK i \in Ids : mem' = [mem EXCEPT ![i].model = "new", ![i].edited = TRUE]
    BY <1>4, EditDoes
  <2>2. \A k \in Ids : mem'[k].owner = mem[k].owner /\ (mem[k].st = "gone" => mem'[k].st = "gone")
    BY <1>0, <2>1 DEF Tables, Memory
  <2> QED
    BY <1>0, <1>1, <1>4, <2>1, <2>2, EditDoes DEF Tables
<1>5. ASSUME NEW r, CommitBatch(r) PROVE Counted'
  <2>1. r \in Deliveries /\ UNCHANGED count
    BY <1>5 DEF CommitBatch, At, Same
  <2>2. CASE UNCHANGED mem
    BY <1>2, <2>1, <2>2
  <2>3. CASE mem' = [i \in Ids |-> IF i \in run[r].staged THEN [mem[i] EXCEPT !.model = "new"] ELSE mem[i]]
    <3>1. \A k \in Ids : mem'[k].owner = mem[k].owner /\ (mem[k].st = "gone" => mem'[k].st = "gone")
      BY <1>0, <2>3 DEF Tables, Memory
    <3> QED
      BY <1>1, <2>1, <2>3, <3>1
  <2> QED
    BY <1>0, <1>5, <2>1, <2>2, <2>3, CommitBatchDoes
<1>6. ASSUME NEW r, ApplyUsers(r) PROVE Counted'
  <2>1. r \in Deliveries /\ Delivery(r)
    BY <1>6 DEF ApplyUsers, At, TypeInv
  <2>2. mem' = [i \in Ids |-> IF i \in run[r].batch /\ Eligible("users", i)
                              THEN [mem[i] EXCEPT !.owner = mem[i].user] ELSE mem[i]]
    BY <1>0, <1>6, <2>1, ApplyUsersDoes
  <2>3. \A i \in Ids : /\ mem'[i].st = mem[i].st
                       /\ mem'[i].owner # mem[i].owner => i \in run[r].batch /\ mem[i].owner = 0
    BY <1>0, <2>2 DEF Tables, Memory, Eligible
  <2>4. count' = [u \in LegacyUsers |->
             IF \E i \in run[r].batch : mem[i].st # "gone" /\ mem'[i].owner = u
             THEN Cardinality({i \in Ids : mem'[i].owner = u /\ mem[i].st # "gone"}) ELSE count[u]]
    BY <1>6 DEF ApplyUsers
  <2> SUFFICES ASSUME \A i \in Ids : mem'[i].st # "gone", NEW u \in LegacyUsers
               PROVE  count'[u] = Cardinality({i \in Ids : mem'[i].owner = u})
    BY DEF Counted
  <2>5. \A i \in Ids : mem[i].st # "gone"
    BY <2>3
  <2>6. CASE \E i \in run[r].batch : mem[i].st # "gone" /\ mem'[i].owner = u
    <3>1. {i \in Ids : mem'[i].owner = u /\ mem[i].st # "gone"} = {i \in Ids : mem'[i].owner = u}
      BY <2>5
    <3> QED
      BY <2>4, <2>6, <3>1
  <2>7. CASE ~\E i \in run[r].batch : mem[i].st # "gone" /\ mem'[i].owner = u
    <3>1. \A i \in run[r].batch : mem'[i].owner # u /\ i \in Ids
      BY <2>1, <2>5, <2>7 DEF Delivery
    <3>2. u # 0
      BY DEF LegacyUsers
    <3>3. \A i \in Ids : mem'[i].owner = u <=> mem[i].owner = u
      BY <2>3, <3>1, <3>2
    <3>4. {i \in Ids : mem'[i].owner = u} = {i \in Ids : mem[i].owner = u}
      BY <3>3
    <3> QED
      BY <2>4, <2>5, <2>7, <3>4 DEF Counted
  <2> QED
    BY <2>6, <2>7
<1>7. ASSUME NEW r, NextOf(r), ~CommitBatch(r), ~ApplyUsers(r) PROVE UNCHANGED <<mem, count>>
  BY <1>7 DEF NextOf, Acquire, ReadCursor, OpenJob, Pause, Select, Look, Carry, Mark, ReadLedger, ApplyLedger,
         Note, Finish, Clear, Release, Die, Activate, Ask, Same, tables
<1>8. CASE Record \/ (\E o \in orders : Deliver(o)) \/ (\E t \in Locked : Lapse(t)) \/ UNCHANGED vars
  BY <1>2, <1>8 DEF Record, Deliver, Lapse, Same, tables, vars
<1> QED
  BY <1>2, <1>3, <1>4, <1>5, <1>6, <1>7, <1>8 DEF Next, NextOf

\* Whoever is at work holds the lock of its task and, when it commits, knows
\* every revision there is, until a lock lapses under a delivery that waits
\* for the load to fall (SET NX and its renewal in backfill_tasks.py).
THEOREM OnceInvariant == Spec => []OnceInv
<1>1. Init => OnceInv
  <2> SUFFICES ASSUME Init PROVE OnceInv
    OBVIOUS
  <2>1. \A r \in Deliveries : run[r].pc = "new"
    BY DEF Init, Fresh
  <2> QED
    BY <2>1 DEF Init, OnceInv, Holder, LockedPcs
<1> QED
  BY <1>1, OnceStep, TypeInvariant, PTL DEF Spec

\* No legacy memory gets two revisions while the locks hold, and the users a
\* backfill made have the count of their memories, whatever deliveries
\* overlap, fail or die (BackfillTenantProvenance, BackfillUniversalProvenance,
\* BackfillProxyUserIds).
THEOREM OnceWritten == Spec => []WrittenOnce
<1>1. Init => Counted
  BY DEF Init, Counted
<1>2. OnceInv /\ Counted => WrittenOnce
  BY DEF OnceInv, Counted, WrittenOnce
<1> QED
  BY <1>1, <1>2, CountStep, OnceInvariant, TypeInvariant, PTL DEF Spec

-----------------------------------------------------------------------------
(* Nothing is passed over: what a step never takes back.                   *)

\* A row never comes back, what was done for it stays done, and its vectors
\* only move from the old collection to the new one while it is live.
Forward(i) ==
  /\ mem[i].st = "gone" => mem'[i].st = "gone"
  /\ mem[i].st # "live" => mem'[i].st # "live"
  /\ mem[i].model # "old" => mem'[i].model # "old"
  /\ mem[i].edited => mem'[i].edited
  /\ mem[i].owner # 0 => mem'[i].owner # 0
  /\ revs[i] # 0 => revs'[i] # 0
  /\ "old" \notin vec[i] => "old" \notin vec'[i]
  /\ "new" \in vec[i] /\ mem'[i].st = "live" => "new" \in vec'[i]

LEMMA OnlyForward ==
  ASSUME TypeInv, \A o \in orders : OrderOf(o), [Next]_vars
  PROVE  \A i \in Ids : Forward(i)
<1>0. Tables /\ Shape
  BY DEF TypeInv
<1>1. CASE UNCHANGED <<mem, vec, revs>>
  BY <1>1 DEF Forward
<1>2. CASE Withdraw
  <2>1. PICK i \in Ids, st \in {"archived", "gone"} : mem[i].st # "gone" /\ mem' = [mem EXCEPT ![i].st = st]
    BY <1>2, WithdrawDoes
  <2>2. UNCHANGED <<vec, revs>>
    BY <1>2, WithdrawDoes
  <2> QED
    BY <1>0, <2>1, <2>2 DEF Forward, Tables, Memory
<1>3. CASE Edit
  <2>1. PICK i \in Ids : mem' = [mem EXCEPT ![i].model = "new", ![i].edited = TRUE]
    BY <1>3, EditDoes
  <2>2. UNCHANGED <<vec, revs>>
    BY <1>3, EditDoes
  <2> QED
    BY <1>0, <2>1, <2>2 DEF Forward, Tables, Memory
<1>4. ASSUME NEW o \in orders, Deliver(o) PROVE \A i \in Ids : Forward(i)
  <2>1. o \in Orders /\ OrderOf(o) /\ UNCHANGED <<mem, revs>>
    BY <1>0, <1>4 DEF Tables, Deliver, Same
  <2>2. o.id \in Ids /\ vec' = [vec EXCEPT ![o.id] = IF o.op = "upsert" THEN vec[o.id] \cup {o.to} ELSE vec[o.id] \ {o.to}]
    BY <1>4, <2>1 DEF Deliver, Orders
  <2> QED
    BY <1>0, <2>1, <2>2 DEF Forward, OrderOf, Tables
<1>5. ASSUME NEW r, Carry(r) PROVE \A i \in Ids : Forward(i)
  <2>1. r \in Deliveries /\ UNCHANGED <<mem, revs>>
    BY <1>5 DEF Carry, At, Same
  <2> QED
    BY <1>0, <1>5, <2>1, CarryDoes DEF Forward, Tables
<1>6. ASSUME NEW r, CommitBatch(r) PROVE \A i \in Ids : Forward(i)
  <2>1. r \in Deliveries /\ UNCHANGED <<vec, revs>>
    BY <1>6 DEF CommitBatch, At, Same
  <2> QED
    BY <1>0, <1>1, <1>6, <2>1, CommitBatchDoes DEF Forward, Tables, Memory
<1>7. ASSUME NEW r, ApplyLedger(r) PROVE \A i \in Ids : Forward(i)
  <2>1. r \in Deliveries /\ UNCHANGED <<mem, vec>>
    BY <1>7 DEF ApplyLedger, At, Same
  <2> QED
    BY <1>0, <1>1, <1>7, <2>1, ApplyLedgerDoes DEF Forward, Tables
<1>8. ASSUME NEW r, ApplyUsers(r) PROVE \A i \in Ids : Forward(i)
  <2>1. r \in Deliveries /\ UNCHANGED <<vec, revs>>
    BY <1>8 DEF ApplyUsers, At, Same
  <2>2. mem' = [i \in Ids |-> IF i \in run[r].batch /\ Eligible("users", i)
                              THEN [mem[i] EXCEPT !.owner = mem[i].user] ELSE mem[i]]
    BY <1>0, <1>8, <2>1, ApplyUsersDoes
  <2>3. \A i \in Ids : mem[i].user # 0
    BY <1>0 DEF Tables, Memory, LegacyUsers
  <2> QED
    BY <1>0, <2>1, <2>2, <2>3 DEF Forward, Tables, Memory
<1>9. ASSUME NEW r, NextOf(r), ~Carry(r), ~CommitBatch(r), ~ApplyUsers(r), ~ApplyLedger(r)
      PROVE  UNCHANGED <<mem, vec, revs>>
  BY <1>9 DEF NextOf, Acquire, ReadCursor, OpenJob, Pause, Select, Look, Mark, ReadLedger,
         Note, Finish, Clear, Release, Die, Activate, Ask, Same, tables
<1>10. CASE Record \/ (\E t \in Locked : Lapse(t)) \/ UNCHANGED vars
  BY <1>1, <1>10 DEF Record, Lapse, Same, tables, vars
<1> QED
  BY <1>1, <1>2, <1>3, <1>4, <1>5, <1>6, <1>7, <1>8, <1>9, <1>10 DEF Next, NextOf

\* The step of a delivery keeps what the re-embedding relies on.
LEMMA CarriedStep ==
  ASSUME TypeInv, VectorsInv, [Next]_vars
  PROVE  \A s \in Deliveries : Carried(s)'
<1>0. Shape /\ Tables /\ UNCHANGED script /\ \A r : Task(r)' = Task(r)
  BY TypeStep, Fixed DEF TypeInv
<1>1. \A i \in Ids : Forward(i)
  BY OnlyForward DEF VectorsInv
<1>2. ASSUME NEW s \in Deliveries, run'[s].staged \subseteq run[s].staged,
             run'[s].pc \in {"drop", "mark"} => run'[s].pc = run[s].pc /\ run'[s].batch = run[s].batch
      PROVE  Carried(s)'
  <2>1. run'[s].pc \in {"drop", "mark"} => Row(s)' = Row(s)
    BY <1>2 DEF Row
  <2> QED
    BY <1>1, <1>2, <2>1 DEF VectorsInv, Carried, Forward
<1>3. ASSUME NEW s \in Deliveries, run'[s] = run[s] PROVE Carried(s)'
  BY <1>2, <1>3
<1>4. ASSUME NEW r, NextOf(r) PROVE \A s \in Deliveries : Carried(s)'
  <2>1. r \in Deliveries /\ (\A s \in Deliveries : s # r => run'[s] = run[s]) /\ Delivery(r)
    BY <1>0, <1>4, Moves DEF Alone, TypeInv
  <2> SUFFICES Carried(r)'
    BY <1>3, <2>1
  <2> USE <1>0, <2>1 DEF Stays, Fails, Noted
  <2>2. CASE Acquire(r) \/ ReadCursor(r) \/ OpenJob(r) \/ Pause(r) \/ Select(r)
    <3>1. CASE Acquire(r)
      BY <1>2, <3>1, AcquireDoes
    <3>2. CASE ReadCursor(r)
      BY <1>2, <3>2, ReadCursorDoes
    <3>3. CASE OpenJob(r)
      BY <1>2, <3>3, OpenJobDoes
    <3>4. CASE Pause(r)
      BY <1>3, <3>4 DEF Pause, Same
    <3>5. CASE Select(r)
      BY <1>2, <3>5, SelectDoes
    <3> QED
      BY <2>2, <3>1, <3>2, <3>3, <3>4, <3>5
  <2>3. CASE Look(r)
    BY <1>2, <2>3, LookDoes
  <2>4. CASE Carry(r)
    <3>0. run[r].pc \in {"upsert", "drop"} /\ Row(r) \in Ids
      BY <2>4, CarryDoes, FirstRow DEF Delivery, RowPcs, BatchPcs, Row
    <3>1. CASE Fails(r)
      BY <1>2, <3>1
    <3>2. CASE run'[r].pc = "drop" /\ Stays(r) /\ vec' = [vec EXCEPT ![Row(r)] = @ \cup {"new"}]
      <4>1. "new" \in vec'[Row(r)] /\ Row(r)' = Row(r)
        BY <3>0, <3>2 DEF Tables, Row
      <4> QED
        BY <1>1, <3>2, <4>1 DEF VectorsInv, Carried, Forward
    <3>3. CASE run[r].pc = "drop" /\ run'[r].pc = "mark" /\ Stays(r) /\ vec' = [vec EXCEPT ![Row(r)] = @ \ {"old"}]
      <4>1. "old" \notin vec'[Row(r)] /\ Row(r)' = Row(r)
        BY <3>0, <3>3 DEF Tables, Row
      <4> QED
        BY <1>1, <3>3, <4>1 DEF VectorsInv, Carried, Forward
    <3> QED
      BY <2>4, <3>1, <3>2, <3>3, CarryDoes
  <2>5. CASE Mark(r)
    <3>1. CASE Fails(r)
      BY <1>2, <3>1
    <3>2. CASE ~Fails(r)
      <4>1. run'[r].pc \in {"commit", "row"}
            /\ \A i \in run'[r].staged : i \in run[r].staged \/ (run[r].pc = "mark" /\ i = Row(r))
        BY <2>5, <3>2, MarkDoes
      <4> QED
        BY <1>1, <4>1 DEF VectorsInv, Carried, Forward
    <3> QED
      BY <3>1, <3>2
  <2>6. CASE CommitBatch(r)
    BY <1>2, <2>6, CommitBatchDoes
  <2>7. CASE ReadLedger(r) \/ ApplyLedger(r) \/ ApplyUsers(r) \/ Note(r)
    <3>1. CASE ReadLedger(r)
      BY <1>2, <3>1, ReadLedgerDoes
    <3>2. CASE ApplyLedger(r)
      BY <1>2, <3>2, ApplyLedgerDoes
    <3>3. CASE ApplyUsers(r)
      BY <1>2, <3>3, ApplyUsersDoes
    <3>4. CASE Note(r)
      BY <1>2, <3>4, NoteDoes
    <3> QED
      BY <2>7, <3>1, <3>2, <3>3, <3>4
  <2>8. CASE Finish(r) \/ Clear(r) \/ Release(r) \/ Die(r)
    <3>1. CASE Finish(r)
      BY <1>2, <3>1, FinishDoes
    <3>2. CASE Clear(r)
      BY <1>2, <3>2, ClearDoes
    <3>3. CASE Release(r)
      BY <1>2, <3>3, ReleaseDoes
    <3>4. CASE Die(r)
      BY <1>2, <3>4, DieDoes
    <3> QED
      BY <2>8, <3>1, <3>2, <3>3, <3>4
  <2>9. CASE Activate(r) \/ Ask(r)
    BY <1>2, <2>9, ModelDoes DEF ModelPcs
  <2> QED
    BY <1>4, <2>2, <2>3, <2>4, <2>5, <2>6, <2>7, <2>8, <2>9 DEF NextOf
<1>5. CASE WorldNext \/ UNCHANGED vars
  BY <1>3, <1>5, World DEF vars
<1> QED
  BY <1>4, <1>5 DEF Next, NextOf, WorldNext

\* The orders say what the row says, and a row with the new model has its
\* vector there or an order for it.
LEMMA VectorsStep ==
  ASSUME TypeInv, VectorsInv, [Next]_vars
  PROVE  VectorsInv'
<1>0. Shape /\ Tables /\ Deliveries' = Deliveries
  BY TypeStep DEF TypeInv
<1>1. \A i \in Ids : Forward(i)
  BY OnlyForward DEF VectorsInv
<1>2. \A s \in Deliveries : Carried(s)'
  BY CarriedStep
<1>3. ASSUME orders \subseteq orders', \A i \in Ids : mem'[i].model = "new" /\ mem'[i].st = "live" => mem[i].model = "new"
      PROVE  \A i \in Ids : VectorOf(i)'
  BY <1>1, <1>3 DEF VectorsInv, VectorOf, Forward
<1>4. ASSUME orders' \subseteq orders PROVE \A o \in orders' : OrderOf(o)'
  <2>1. \A o \in orders : o.id \in Ids
    BY <1>0 DEF Tables, Orders
  <2> QED
    BY <1>1, <1>4, <2>1 DEF VectorsInv, OrderOf, Forward
<1>5. CASE UNCHANGED <<mem, orders>>
  BY <1>0, <1>2, <1>3, <1>4, <1>5 DEF VectorsInv
<1>6. CASE Withdraw
  <2>1. PICK i \in Ids, st \in {"archived", "gone"} :
          /\ mem' = [mem EXCEPT ![i].st = st]
          /\ orders' = orders \cup {[op |-> "delete", id |-> i, to |-> mem[i].model]}
    BY <1>6, WithdrawDoes
  <2>2. mem'[i].st # "live" /\ \A k \in Ids : mem'[k].model = mem[k].model
    BY <1>0, <2>1 DEF Tables, Memory
  <2>3. \A k \in Ids : VectorOf(k)'
    BY <1>3, <2>1, <2>2
  <2>4. \A o \in orders : o.id \in Ids
    BY <1>0 DEF Tables, Orders
  <2>5. \A o \in orders' : OrderOf(o)'
    BY <1>1, <2>1, <2>2, <2>4 DEF VectorsInv, OrderOf, Forward
  <2> QED
    BY <1>0, <1>2, <2>3, <2>5 DEF VectorsInv
<1>7. CASE Edit
  <2>1. PICK i \in Ids :
          /\ mem' = [mem EXCEPT ![i].model = "new", ![i].edited = TRUE]
          /\ orders' = orders \cup {[op |-> "upsert", id |-> i, to |-> "new"]}
    BY <1>7, EditDoes
  <2>2. mem'[i].edited /\ \A k \in Ids : k # i => mem'[k] = mem[k]
    BY <1>0, <2>1 DEF Tables, Memory
  <2> DEFINE new == [op |-> "upsert", id |-> i, to |-> "new"]
  <2>3. orders' = orders \cup {new} /\ new.id = i /\ new.op = "upsert" /\ new.to = "new"
    BY <2>1
  <2> HIDE DEF new
  <2>4. \A k \in Ids : VectorOf(k)'
    BY <1>1, <2>2, <2>3 DEF VectorsInv, VectorOf, Forward
  <2>5. \A o \in orders : o.id \in Ids
    BY <1>0 DEF Tables, Orders
  <2>6. \A o \in orders' : OrderOf(o)'
    BY <1>1, <2>3, <2>5 DEF VectorsInv, OrderOf, Forward
  <2> QED
    BY <1>0, <1>2, <2>4, <2>6 DEF VectorsInv
<1>8. ASSUME NEW o \in orders, Deliver(o) PROVE VectorsInv'
  <2>1. o \in Orders /\ OrderOf(o) /\ UNCHANGED mem /\ orders' = orders \ {o}
    BY <1>0, <1>8 DEF Tables, Deliver, Same, VectorsInv
  <2>2. o.id \in Ids /\ vec' = [vec EXCEPT ![o.id] = IF o.op = "upsert" THEN vec[o.id] \cup {o.to} ELSE vec[o.id] \ {o.to}]
    BY <1>8, <2>1 DEF Deliver, Orders
  <2>3. ASSUME NEW i \in Ids PROVE VectorOf(i)'
    <3>1. CASE i = o.id /\ o.op = "upsert"
      <4>1. "new" \in vec'[i]
        BY <1>0, <2>1, <2>2, <3>1 DEF OrderOf, Tables
      <4> QED
        BY <1>1, <2>1, <4>1 DEF VectorsInv, VectorOf, Forward
    <3>2. CASE ~(i = o.id /\ o.op = "upsert")
      BY <1>1, <2>1, <3>2 DEF VectorsInv, VectorOf, Forward
    <3> QED
      BY <3>1, <3>2
  <2> QED
    BY <1>0, <1>2, <1>4, <2>1, <2>3 DEF VectorsInv
<1>9. ASSUME NEW r, CommitBatch(r) PROVE VectorsInv'
  <2>1. r \in Deliveries /\ UNCHANGED <<vec, orders>>
    BY <1>9 DEF CommitBatch, At, Same
  <2>2. CASE UNCHANGED mem
    BY <1>5, <2>1, <2>2
  <2>3. CASE mem' = [i \in Ids |-> IF i \in run[r].staged THEN [mem[i] EXCEPT !.model = "new"] ELSE mem[i]]
    <3>1. ASSUME NEW i \in Ids PROVE VectorOf(i)'
      <4>1. CASE i \in run[r].staged
        <5>1. mem'[i].st = mem[i].st
          BY <1>0, <2>3, <4>1 DEF Tables, Memory
        <5> QED
          BY <2>1, <4>1, <5>1 DEF VectorsInv, VectorOf, Carried
      <4>2. CASE i \notin run[r].staged
        BY <2>1, <2>3, <4>2 DEF VectorsInv, VectorOf
      <4> QED
        BY <4>1, <4>2
    <3> QED
      BY <1>0, <1>2, <1>4, <2>1, <3>1 DEF VectorsInv
  <2> QED
    BY <1>0, <1>9, <2>1, <2>2, <2>3, CommitBatchDoes
<1>10. ASSUME NEW r, ApplyUsers(r) PROVE VectorsInv'
  <2>1. r \in Deliveries /\ UNCHANGED orders
    BY <1>10 DEF ApplyUsers, At, Same
  <2>2. mem' = [i \in Ids |-> IF i \in run[r].batch /\ Eligible("users", i)
                              THEN [mem[i] EXCEPT !.owner = mem[i].user] ELSE mem[i]]
    BY <1>0, <1>10, <2>1, ApplyUsersDoes
  <2>3. \A i \in Ids : mem'[i].model = mem[i].model
    BY <1>0, <2>2 DEF Tables, Memory
  <2> QED
    BY <1>0, <1>2, <1>3, <1>4, <2>1, <2>3 DEF VectorsInv
<1>11. ASSUME NEW r, NextOf(r), ~CommitBatch(r), ~ApplyUsers(r) PROVE UNCHANGED <<mem, orders>>
  BY <1>11 DEF NextOf, Acquire, ReadCursor, OpenJob, Pause, Select, Look, Carry, Mark, ReadLedger, ApplyLedger,
         Note, Finish, Clear, Release, Die, Activate, Ask, Same, tables
<1>12. CASE Record \/ (\E t \in Locked : Lapse(t)) \/ UNCHANGED vars
  BY <1>5, <1>12 DEF Record, Lapse, Same, tables, vars
<1> QED
  BY <1>5, <1>6, <1>7, <1>8, <1>9, <1>10, <1>11, <1>12 DEF Next, NextOf

\* A row that the re-embedding has recorded has its vector in the new
\* collection and none in the old one, whatever is edited, withdrawn or
\* delivered meanwhile; an edited row leaves its old vector behind.
THEOREM VectorsInvariant == Spec => []VectorsInv
<1>1. Init => VectorsInv
  <2> SUFFICES ASSUME Init PROVE VectorsInv
    OBVIOUS
  <2>1. \A r \in Deliveries : run[r] = Fresh
    BY DEF Init
  <2>2. \A r \in Deliveries : Carried(r)
    BY <2>1 DEF Carried, Fresh
  <2>3. \A i \in Ids : VectorOf(i)
    BY DEF Init, VectorOf
  <2> QED
    BY <2>2, <2>3 DEF Init, VectorsInv
<1> QED
  BY <1>1, VectorsStep, TypeInvariant, PTL DEF Spec

\* A row that is no longer eligible for a task was treated or is out of reach.
LEMMA NotEligible ==
  ASSUME TypeInv, VectorsInv, NEW t \in Tasks, NEW i \in Ids, ~Eligible(t, i)
  PROVE  OutOfReach(t, i) \/ Treated(t, i)
<1>1. mem[i].st \in {"live", "archived", "gone"} /\ mem[i].model \in {"old", "new"}
  BY DEF TypeInv, Tables, Memory
<1>2. CASE t = "embed"
  BY <1>1, <1>2 DEF Eligible, OutOfReach, Treated, VectorsInv, VectorOf
<1>3. CASE t = "users"
  BY <1>1, <1>3 DEF Eligible, OutOfReach, Treated
<1>4. CASE t \in Locked
  BY <1>1, <1>4 DEF Eligible, OutOfReach, Treated, Locked
<1> QED
  BY <1>2, <1>3, <1>4 DEF Tasks, Backfills, Locked

\* A row that was done for a task stays done.
LEMMA StaysDone ==
  ASSUME NEW t, NEW i, Forward(i), ~Eligible(t, i)
  PROVE  ~Eligible(t, i)'
<1>1. CASE t = "embed"
  BY <1>1 DEF Forward, Eligible
<1>2. CASE t = "users"
  BY <1>2 DEF Forward, Eligible
<1>3. CASE t \notin {"embed", "users"}
  BY <1>3 DEF Forward, Eligible
<1> QED
  BY <1>1, <1>2, <1>3

-----------------------------------------------------------------------------
(* Nothing is passed over: cursors.                                        *)

\* A delivery that failed or died stays so.
LEMMA StaysLost ==
  ASSUME TypeInv, [Next]_vars, Lost
  PROVE  Lost'
<1>0. Shape /\ Deliveries' = Deliveries
  BY TypeStep DEF TypeInv
<1>1. PICK q \in Deliveries : run[q].end = "failed" \/ run[q].pc = "dead"
  BY DEF Lost
<1>2. Delivery(q)
  BY DEF TypeInv
<1>3. CASE UNCHANGED run
  BY <1>0, <1>1, <1>3 DEF Lost
<1>4. ASSUME NEW r, NextOf(r) PROVE Lost'
  <2>1. r \in Deliveries /\ \A s \in Deliveries : s # r => run'[s] = run[s]
    BY <1>0, <1>4, Moves DEF Alone
  <2>2. CASE r # q
    BY <1>0, <1>1, <2>1, <2>2 DEF Lost
  <2>3. CASE r = q
    <3>1. run[q].end = "failed" => run[q].pc \in {"release", "unlock", "over", "dead"}
      BY <1>2 DEF Delivery
    <3>2. Release(q) \/ (Die(q) /\ run[q].end = "failed")
      <4>1. run[q].pc \in {"release", "unlock", "over", "dead"}
        BY <1>1, <3>1
      <4> QED
        BY <1>1, <1>4, <2>3, <4>1 DEF NextOf, Acquire, ReadCursor, OpenJob, Pause, Select, Look, Carry, Mark,
               CommitBatch, ReadLedger, ApplyLedger, ApplyUsers, Note, Finish, Clear, Die, Activate, Ask, At
    <3>3. run'[q].end = run[q].end /\ run[q].pc # "dead"
      BY <1>0, <3>2, ReleaseDoes, DieDoes
    <3> QED
      BY <1>0, <1>1, <3>3 DEF Lost
  <2> QED
    BY <2>2, <2>3
<1> QED
  BY <1>3, <1>4, World DEF Next, NextOf, WorldNext, vars

\* What is staged is committed, or kept, or its delivery failed or died.
LEMMA StaysStaged ==
  ASSUME TypeInv, [Next]_vars, NEW q \in Deliveries, NEW i \in run[q].staged
  PROVE  i \in run'[q].staged \/ ~Eligible("embed", i)' \/ (run'[q].end = "failed" \/ run'[q].pc = "dead")
<1>0. Shape /\ Tables /\ Delivery(q) /\ i \in Ids
  BY DEF TypeInv, Delivery
<1>1. CASE run'[q] = run[q]
  BY <1>1
<1>2. CASE NextOf(q)
  <2> USE <1>0 DEF Stays, Fails, Noted
  <2>1. CASE Acquire(q) \/ ReadCursor(q) \/ OpenJob(q) \/ Pause(q) \/ Select(q)
    BY <2>1, AcquireDoes, ReadCursorDoes, OpenJobDoes, SelectDoes DEF Pause, Same
  <2>2. CASE Look(q) \/ Carry(q) \/ Mark(q)
    <3>1. CASE Look(q)
      BY <3>1, LookDoes
    <3>2. CASE Carry(q)
      BY <3>2, CarryDoes
    <3>3. CASE Mark(q)
      BY <3>3, MarkDoes
    <3> QED
      BY <2>2, <3>1, <3>2, <3>3
  <2>3. CASE CommitBatch(q)
    <3>1. CASE Fails(q)
      BY <3>1
    <3>2. CASE mem' = [k \in Ids |-> IF k \in run[q].staged THEN [mem[k] EXCEPT !.model = "new"] ELSE mem[k]]
      <4>1. mem'[i].model = "new"
        BY <3>2 DEF Tables, Memory
      <4> QED
        BY <4>1 DEF Eligible
    <3> QED
      BY <2>3, <3>1, <3>2, CommitBatchDoes
  <2>4. CASE ReadLedger(q) \/ ApplyLedger(q) \/ ApplyUsers(q) \/ Note(q)
    <3>1. CASE ReadLedger(q)
      BY <3>1, ReadLedgerDoes
    <3>2. CASE ApplyLedger(q)
      BY <3>2, ApplyLedgerDoes
    <3>3. CASE ApplyUsers(q)
      BY <3>3, ApplyUsersDoes
    <3>4. CASE Note(q)
      BY <3>4, NoteDoes
    <3> QED
      BY <2>4, <3>1, <3>2, <3>3, <3>4
  <2>5. CASE Finish(q) \/ Clear(q) \/ Release(q) \/ Die(q) \/ Activate(q) \/ Ask(q)
    <3>1. CASE Finish(q)
      BY <3>1, FinishDoes
    <3>2. CASE Clear(q)
      BY <3>2, ClearDoes
    <3>3. CASE Release(q) \/ Die(q)
      BY <3>3, ReleaseDoes, DieDoes
    <3>4. CASE Activate(q) \/ Ask(q)
      BY <3>4, ModelDoes
    <3> QED
      BY <2>5, <3>1, <3>2, <3>3, <3>4
  <2> QED
    BY <1>2, <2>1, <2>2, <2>3, <2>4, <2>5 DEF NextOf
<1>3. ASSUME NEW r, NextOf(r), r # q PROVE run'[q] = run[q]
  BY <1>0, <1>3, Moves DEF Alone
<1> QED
  BY <1>1, <1>2, <1>3, World DEF Next, NextOf, WorldNext, vars

\* What is done or excused stays so.
LEMMA DoneStays ==
  ASSUME TypeInv, VectorsInv, [Next]_vars, NEW t, NEW i \in Ids, Done(t, i)
  PROVE  Done(t, i)'
<1>0. Deliveries' = Deliveries /\ Forward(i)
  BY TypeStep, OnlyForward DEF VectorsInv
<1>1. CASE ~Eligible(t, i)
  BY <1>0, <1>1, StaysDone DEF Done
<1>2. CASE t = "embed" /\ Lost
  BY <1>2, StaysLost DEF Done, Excused
<1>3. CASE t = "embed" /\ \E q \in Deliveries : i \in run[q].staged
  <2>1. PICK q \in Deliveries : i \in run[q].staged
    BY <1>3
  <2>2. i \in run'[q].staged \/ ~Eligible("embed", i)' \/ (run'[q].end = "failed" \/ run'[q].pc = "dead")
    BY <2>1, StaysStaged
  <2>3. CASE i \in run'[q].staged
    BY <1>0, <1>3, <2>1, <2>3 DEF Done, Excused
  <2>4. CASE ~Eligible("embed", i)'
    BY <1>3, <2>4 DEF Done
  <2>5. CASE run'[q].end = "failed" \/ run'[q].pc = "dead"
    BY <1>0, <1>3, <2>1, <2>5 DEF Done, Excused, Lost
  <2> QED
    BY <2>2, <2>3, <2>4, <2>5
<1> QED
  BY <1>1, <1>2, <1>3 DEF Done, Excused

\* What a step that moves neither its cursor nor its batch keeps of what is
\* behind a delivery.
LEMMA BehindKept ==
  ASSUME TypeInv, VectorsInv, BehindInv, [Next]_vars, NEW s \in Deliveries
  PROVE  /\ \A i \in Ids : ~Eligible(Task(s), i) => ~Eligible(Task(s), i)'
         /\ (\A i \in run'[s].known : i \in run[s].known \/ (i \in Ids /\ revs[i] # 0)) => KnownWritten(s)'
         /\ (run'[s].pc \notin BatchPcs
              \/ (run[s].pc \in BatchPcs /\ run'[s].batch = run[s].batch /\ run'[s].cur = run[s].cur))
            => Skipped(s)'
         /\ (run'[s].pc \notin {"pass", "note", "finish"}
              \/ (run'[s].pc = run[s].pc /\ run'[s].batch = run[s].batch /\ run'[s].cur = run[s].cur))
            => Settled(s)'
         /\ run'[s].cur = run[s].cur => DoneBehind(s)'
         /\ (/\ run'[s].cur = run[s].cur /\ run'[s].from = run[s].from
             /\ run'[s].pc = "dead" \/ (run'[s].staged = run[s].staged /\ run[s].pc # "dead" /\ run[s].end # "failed")
                \/ run'[s] = run[s]
             /\ run'[s].end = "complete" => run[s].end = "complete")
            => FromStart(s)'
         /\ run'[s].end = "failed" => FromStart(s)'
<1>0. Shape /\ Delivery(s) /\ Behind(s) /\ Asked' = Asked /\ Task(s)' = Task(s)
  BY TypeStep, Fixed DEF TypeInv, BehindInv
<1>1. \A i \in Ids : Forward(i)
  BY OnlyForward DEF VectorsInv
<1>2. ASSUME NEW i \in Ids, ~Eligible(Task(s), i) PROVE ~Eligible(Task(s), i)'
  <2>1. PICK t : t = Task(s) /\ Task(s)' = t
    BY <1>0
  <2>2. ~Eligible(t, i)'
    BY <1>1, <1>2, <2>1, StaysDone
  <2> QED
    BY <2>1, <2>2 DEF Eligible
<1>3. ASSUME \A i \in run'[s].known : i \in run[s].known \/ (i \in Ids /\ revs[i] # 0) PROVE KnownWritten(s)'
  <2>1. run[s].known \subseteq Ids
    BY <1>0 DEF Delivery
  <2> QED
    BY <1>0, <1>1, <1>3, <2>1 DEF Behind, KnownWritten, Forward
<1>4. ASSUME run'[s].pc \notin BatchPcs
              \/ (run[s].pc \in BatchPcs /\ run'[s].batch = run[s].batch /\ run'[s].cur = run[s].cur)
      PROVE  Skipped(s)'
  BY <1>0, <1>2, <1>4 DEF Behind, Skipped
<1>5. ASSUME run'[s].pc \notin {"pass", "note", "finish"}
              \/ (run'[s].pc = run[s].pc /\ run'[s].batch = run[s].batch /\ run'[s].cur = run[s].cur)
      PROVE  Settled(s)'
  <2>1. CASE run'[s].pc \notin {"pass", "note", "finish"}
    BY <2>1 DEF Settled
  <2>2. CASE run'[s].pc = run[s].pc /\ run'[s].batch = run[s].batch /\ run'[s].cur = run[s].cur
    <3>1. run'[s].pc = "pass" => ~Eligible(Task(s), Row(s))'
      <4> SUFFICES ASSUME run'[s].pc = "pass" PROVE ~Eligible(Task(s), Row(s))'
        OBVIOUS
      <4>1. run[s].batch # {} /\ run[s].batch \subseteq Ids
        BY <1>0, <2>2 DEF Delivery, BatchPcs, RowPcs
      <4>2. PICK k \in Ids : k = Row(s) /\ k = Row(s)'
        BY <2>2, <4>1, FirstRow DEF Row
      <4>3. ~Eligible(Task(s), k)'
        BY <1>0, <1>2, <2>2, <4>2 DEF Behind, Settled
      <4> QED
        BY <4>2, <4>3 DEF Eligible
    <3>2. run[s].batch \subseteq Ids
      BY <1>0 DEF Delivery
    <3> QED
      BY <1>0, <1>2, <2>2, <3>1, <3>2 DEF Behind, Settled
  <2> QED
    BY <1>5, <2>1, <2>2
<1>6. ASSUME run'[s].cur = run[s].cur PROVE DoneBehind(s)'
  <2> SUFFICES ASSUME Counts(s), NEW i \in Ids, i <= run[s].cur PROVE Done(Task(s), i)'
    BY <1>0, <1>6 DEF DoneBehind, Counts
  <2>1. PICK t : t = Task(s) /\ Task(s)' = t
    BY <1>0
  <2>2. Done(t, i)'
    BY <1>0, <2>1, DoneStays DEF Behind, DoneBehind
  <2> QED
    BY <2>1, <2>2 DEF Done, Eligible, Excused
<1>7. ASSUME run'[s].cur = run[s].cur, run'[s].from = run[s].from,
             run'[s].pc = "dead" \/ (run'[s].staged = run[s].staged /\ run[s].pc # "dead" /\ run[s].end # "failed")
                \/ run'[s] = run[s],
             run'[s].end = "complete" => run[s].end = "complete"
      PROVE  FromStart(s)'
  BY <1>0, <1>2, <1>7 DEF Behind, FromStart, Counts
<1>8. ASSUME run'[s].end = "failed" PROVE FromStart(s)'
  BY <1>8 DEF FromStart
<1> QED
  BY <1>2, <1>3, <1>4, <1>5, <1>6, <1>7, <1>8

\* A step of a delivery keeps what is behind it.
LEMMA BehindOwn ==
  ASSUME TypeInv, VectorsInv, BehindInv, [Next]_vars, NEW r, NextOf(r)
  PROVE  Behind(r)'
<1>0. /\ Shape /\ Tables /\ Asked' = Asked /\ Task(r)' = Task(r)
      /\ r \in Deliveries /\ Delivery(r) /\ Behind(r)
  BY Moves, Fixed DEF TypeInv, BehindInv, Alone
<1>1. \A i \in Ids : ~Eligible(Task(r), i) => ~Eligible(Task(r), i)'
  BY <1>0, BehindKept
<1>2. ASSUME \A i \in run'[r].known : i \in run[r].known \/ (i \in Ids /\ revs[i] # 0),
             run'[r].cur = run[r].cur,
             run'[r].pc \notin BatchPcs \/ (run[r].pc \in BatchPcs /\ run'[r].batch = run[r].batch)
      PROVE  KnownWritten(r)' /\ Skipped(r)' /\ DoneBehind(r)'
  BY <1>0, <1>2, BehindKept
<1>3. ASSUME run'[r].pc \notin {"pass", "note", "finish"} PROVE Settled(r)'
  BY <1>0, <1>3, BehindKept
<1>4. ASSUME run'[r].cur = run[r].cur, run'[r].from = run[r].from, run'[r].staged = run[r].staged,
             run[r].pc \in {"new", "cursor"} \cup TaskPcs, run'[r].end = "complete" => run[r].end = "complete"
      PROVE  FromStart(r)'
  <2>1. run[r].pc # "dead" /\ run[r].end # "failed"
    BY <1>0, <1>4 DEF Delivery, TaskPcs, BatchPcs, RowPcs
  <2> QED
    BY <1>0, <1>4, <2>1, BehindKept
<1>5. ASSUME Fails(r) PROVE Behind(r)'
  <2>1. KnownWritten(r)' /\ Skipped(r)' /\ DoneBehind(r)'
    BY <1>2, <1>5 DEF Fails, BatchPcs, RowPcs
  <2>2. Settled(r)' /\ FromStart(r)'
    BY <1>0, <1>3, <1>5, BehindKept DEF Fails
  <2> QED
    BY <2>1, <2>2 DEF Behind
<1>6. run[r].batch # {} => /\ Row(r) \in run[r].batch /\ Row(r) \in Ids
                           /\ \A i \in run[r].batch : Row(r) <= i
  BY <1>0, FirstRow DEF Delivery, Row
<1>7. run[r].cur \in Nat /\ run[r].batch \subseteq Ids /\ Ids \subseteq Nat \ {0}
  BY <1>0, IdsFinite DEF Delivery
<1> USE DEF BatchPcs, RowPcs, TaskPcs, Stays, Noted
<1>8. CASE Acquire(r)
  <2>1. KnownWritten(r)' /\ Skipped(r)' /\ DoneBehind(r)' /\ Settled(r)' /\ FromStart(r)'
    BY <1>0, <1>2, <1>3, <1>4, <1>8, AcquireDoes
  <2> QED
    BY <2>1 DEF Behind
<1>9. CASE ReadCursor(r)
  <2>0. KnownWritten(r)' /\ Skipped(r)' /\ Settled(r)'
    BY <1>0, <1>3, <1>9, ReadCursorDoes, BehindKept
  <2>1. CASE Stays(r)
    <3>1. DoneBehind(r)' /\ FromStart(r)'
      BY <1>0, <1>2, <1>4, <1>9, <2>1, ReadCursorDoes
    <3> QED
      BY <2>0, <3>1 DEF Behind
  <2>2. CASE run'[r].cur = cursor[Name(r)] /\ run'[r].from = cursor[Name(r)] /\ run'[r].end = run[r].end
    <3>1. ASSUME Counts(r), NEW i \in Ids, i <= cursor[Name(r)] PROVE Done(Task(r), i)'
      <4>1. PICK t \in Tasks : t = Task(r) /\ Task(r)' = t /\ Name(r) = <<t, FALSE>>
        <5>1. Asked[r].dry = FALSE
          BY <1>0, <3>1, Static DEF Counts, Shape
        <5> QED
          BY <1>0, <3>1, <5>1 DEF Counts, Name
      <4>2. Done(t, i)
        BY <3>1, <4>1 DEF BehindInv
      <4>3. Done(t, i)'
        BY <1>0, <4>2, DoneStays
      <4> QED
        BY <4>1, <4>3 DEF Done, Eligible, Excused
    <3>2. DoneBehind(r)'
      BY <1>0, <2>2, <3>1 DEF DoneBehind, Counts
    <3>3. FromStart(r)'
      <4>1. run'[r].from = 0 => \A i \in Ids : ~(i <= run'[r].cur)
        BY <1>7, <2>2
      <4>2. run'[r].end # "complete"
        BY <1>0, <1>9, <2>2, ReadCursorDoes DEF Delivery
      <4> QED
        BY <4>1, <4>2 DEF FromStart
    <3> QED
      BY <2>0, <3>2, <3>3 DEF Behind
  <2> QED
    BY <1>0, <1>9, <2>1, <2>2, ReadCursorDoes
<1>10. CASE OpenJob(r)
  <2>1. KnownWritten(r)' /\ Skipped(r)' /\ DoneBehind(r)' /\ Settled(r)' /\ FromStart(r)'
    BY <1>0, <1>2, <1>3, <1>4, <1>10, OpenJobDoes
  <2> QED
    BY <2>1 DEF Behind
<1>11. CASE Pause(r)
  <2>1. run'[r] = run[r]
    BY <1>11 DEF Pause, Same
  <2>2. KnownWritten(r)' /\ Skipped(r)' /\ DoneBehind(r)' /\ Settled(r)' /\ FromStart(r)'
    BY <1>0, <2>1, BehindKept
  <2> QED
    BY <2>2 DEF Behind
<1>12. CASE Select(r)
  <2> DEFINE B == Selected(Task(r), run[r].cur)
  <2>1. /\ B \subseteq Ids /\ \A i \in B : i > run[r].cur
        /\ \A i \in Ids : i > run[r].cur /\ Eligible(Task(r), i) /\ i \notin B => (\A k \in B : k < i) /\ B # {}
    BY <1>7, Batches
  <2>2. run'[r].batch = B /\ run'[r].cur = run[r].cur
        /\ run'[r].pc = (IF B = {} THEN "finish" ELSE IF Task(r) = "embed" THEN "row" ELSE "read")
    BY <1>0, <1>12, SelectDoes
  <2> HIDE DEF B
  <2>3. ASSUME NEW i \in Ids, i > run[r].cur, i \notin B, B = {} \/ \E k \in B : i < k
        PROVE  ~Eligible(Task(r), i)'
    <3>1. \A k \in B : ~(k < i /\ i < k)
      BY <1>7, <2>1
    <3>2. ~Eligible(Task(r), i)
      BY <2>1, <2>3, <3>1
    <3> QED
      BY <1>1, <3>2
  <2>4. Skipped(r)'
    BY <2>1, <2>2, <2>3 DEF Skipped
  <2>5. Settled(r)'
    BY <2>2, <2>3 DEF Settled
  <2>6. KnownWritten(r)' /\ DoneBehind(r)' /\ FromStart(r)'
    BY <1>0, <1>4, <1>12, SelectDoes, BehindKept
  <2> QED
    BY <2>4, <2>5, <2>6 DEF Behind
<1>13. CASE Look(r)
  <2>1. KnownWritten(r)' /\ Skipped(r)' /\ DoneBehind(r)' /\ FromStart(r)'
    BY <1>0, <1>2, <1>4, <1>13, LookDoes
  <2>2. Settled(r)'
    <3>1. run[r].pc = "row" /\ Task(r) = "embed" /\ run[r].batch # {} /\ run'[r].pc \in {"pass", "upsert"}
      BY <1>0, <1>13, LookDoes DEF Delivery
    <3>2. PICK k \in Ids : k = Row(r) /\ Row(r)' = k
      BY <1>0, <1>6, <1>13, <3>1, LookDoes DEF Row
    <3>3. run'[r].pc = "pass" => ~Eligible(Task(r), k)
      BY <1>0, <1>13, <3>1, <3>2, LookDoes DEF Eligible
    <3>4. run'[r].pc = "pass" => ~Eligible(Task(r), k)'
      BY <1>1, <3>3
    <3>5. run'[r].pc = "pass" => ~Eligible(Task(r), Row(r))'
      BY <3>2, <3>4 DEF Eligible
    <3> QED
      BY <3>1, <3>5 DEF Settled
  <2> QED
    BY <2>1, <2>2 DEF Behind
<1>14. CASE Carry(r)
  <2>1. CASE ~Fails(r)
    <3>1. KnownWritten(r)' /\ Skipped(r)' /\ DoneBehind(r)' /\ Settled(r)' /\ FromStart(r)'
      BY <1>0, <1>2, <1>3, <1>4, <1>14, <2>1, CarryDoes
    <3> QED
      BY <3>1 DEF Behind
  <2> QED
    BY <1>5, <2>1
<1>15. CASE Mark(r)
  <2>1. CASE ~Fails(r)
    <3>0. run[r].pc \in {"mark", "pass"} /\ Task(r) = "embed" /\ run[r].batch # {} /\ run[r].end # "failed"
      BY <1>0, <1>15, MarkDoes DEF Delivery
    <3>1. PICK k \in Ids : k = Row(r)
      BY <1>6, <3>0
    <3>2. k \in run[r].batch /\ (\A i \in run[r].batch : k <= i) /\ k > run[r].cur
      BY <1>0, <1>6, <3>0, <3>1 DEF Behind, Skipped
    <3>3. /\ run'[r].cur = k /\ run'[r].batch = run[r].batch \ {k}
          /\ run'[r].staged = (IF run[r].pc = "mark" THEN run[r].staged \cup {k} ELSE run[r].staged)
          /\ run'[r].pc \in {"commit", "row"} /\ run'[r].from = run[r].from
          /\ run'[r].known = run[r].known /\ run'[r].end = run[r].end
      BY <1>0, <1>15, <2>1, <3>1, MarkDoes
    <3>4. ASSUME NEW i \in Ids, i > run[r].cur, i <= k
          PROVE  ~Eligible(Task(r), i)' \/ i \in run'[r].staged
      <4>1. CASE i = k /\ run[r].pc = "mark"
        BY <3>3, <4>1
      <4>2. CASE i = k /\ run[r].pc = "pass"
        <5>1. ~Eligible(Task(r), k)
          BY <1>0, <3>1, <4>2 DEF Behind, Settled
        <5> QED
          BY <1>1, <4>2, <5>1
      <4>3. CASE i # k
        <5>1. i < k /\ i \notin run[r].batch
          BY <1>7, <3>2, <3>4, <4>3
        <5>2. ~Eligible(Task(r), i)
          BY <1>0, <3>0, <3>2, <3>4, <5>1 DEF Behind, Skipped
        <5> QED
          BY <1>1, <5>2
      <4> QED
        BY <3>0, <4>1, <4>2, <4>3
    <3>5. Skipped(r)'
      <4>1. \A i \in run'[r].batch : i > k
        BY <1>7, <3>2, <3>3
      <4>2. ASSUME NEW i \in Ids, i > k, i \notin run'[r].batch, NEW j \in run'[r].batch, i < j
            PROVE  ~Eligible(Task(r), i)'
        <5>1. i > run[r].cur /\ i \notin run[r].batch /\ j \in run[r].batch
          BY <1>7, <3>2, <3>3, <4>2
        <5>2. ~Eligible(Task(r), i)
          BY <1>0, <3>0, <4>2, <5>1 DEF Behind, Skipped
        <5> QED
          BY <1>1, <5>2
      <4> QED
        BY <3>3, <4>1, <4>2 DEF Skipped
    <3>6. DoneBehind(r)'
      <4> SUFFICES ASSUME Counts(r), NEW i \in Ids, i <= k PROVE Done(Task(r), i)'
        BY <1>0, <3>3 DEF DoneBehind, Counts
      <4>1. PICK t : t = Task(r) /\ Task(r)' = t
        BY <1>0
      <4>2. CASE i <= run[r].cur
        <5>1. Done(t, i)'
          BY <1>0, <4>1, <4>2, DoneStays DEF Behind, DoneBehind
        <5> QED
          BY <4>1, <5>1 DEF Done, Eligible, Excused
      <4>3. CASE i > run[r].cur
        <5>1. Deliveries' = Deliveries
          BY TypeStep
        <5> QED
          BY <1>0, <3>0, <3>4, <4>3, <5>1 DEF Done, Excused
      <4> QED
        BY <1>7, <4>2, <4>3
    <3>7. FromStart(r)'
      <4> SUFFICES ASSUME Counts(r), run[r].from = 0
                   PROVE  /\ \A i \in Ids : i <= k => ~Eligible(Task(r), i)' \/ i \in run'[r].staged
                          /\ run[r].end # "complete"
        BY <1>0, <3>3 DEF FromStart, Counts
      <4>1. run[r].end # "complete" /\ run[r].pc # "dead"
        BY <1>0, <3>0 DEF Delivery
      <4>2. ASSUME NEW i \in Ids, i <= run[r].cur PROVE ~Eligible(Task(r), i)' \/ i \in run'[r].staged
        BY <1>0, <1>1, <3>0, <3>3, <4>1, <4>2 DEF Behind, FromStart
      <4> QED
        BY <1>7, <3>4, <4>1, <4>2
    <3>8. KnownWritten(r)' /\ Settled(r)'
      BY <1>0, <1>3, <3>3, BehindKept
    <3> QED
      BY <3>5, <3>6, <3>7, <3>8 DEF Behind
  <2> QED
    BY <1>5, <2>1
<1>16. CASE CommitBatch(r)
  <2>1. CASE ~Fails(r)
    <3>0. run[r].pc = "commit" /\ Task(r) = "embed" /\ run[r].end \notin {"failed", "complete"}
      BY <1>0, <1>16, CommitBatchDoes DEF Delivery
    <3>1. /\ mem' = [i \in Ids |-> IF i \in run[r].staged THEN [mem[i] EXCEPT !.model = "new"] ELSE mem[i]]
          /\ run'[r].pc = "loop" /\ run'[r].cur = run[r].cur /\ run'[r].from = run[r].from
          /\ run'[r].known = run[r].known /\ run'[r].end = run[r].end
      BY <1>0, <1>16, <2>1, CommitBatchDoes
    <3>2. ASSUME NEW i \in Ids, i \in run[r].staged PROVE ~Eligible(Task(r), i)'
      <4>1. mem'[i].model = "new"
        BY <1>0, <3>1, <3>2 DEF Tables, Memory
      <4> QED
        BY <1>0, <3>0, <4>1 DEF Eligible
    <3>3. FromStart(r)'
      BY <1>0, <1>1, <3>0, <3>1, <3>2 DEF Behind, FromStart, Counts
    <3>4. KnownWritten(r)' /\ Skipped(r)' /\ DoneBehind(r)' /\ Settled(r)'
      BY <1>2, <1>3, <3>1
    <3> QED
      BY <3>3, <3>4 DEF Behind
  <2> QED
    BY <1>5, <2>1
<1>17. CASE ReadLedger(r)
  <2>1. KnownWritten(r)' /\ Skipped(r)' /\ DoneBehind(r)' /\ Settled(r)' /\ FromStart(r)'
    BY <1>0, <1>2, <1>3, <1>4, <1>17, ReadLedgerDoes
  <2> QED
    BY <2>1 DEF Behind
<1>18. ASSUME Noted(r), run[r].pc = "commit",
              ~Asked[r].dry => \A i \in run[r].batch : ~Eligible(Task(r), i)'
       PROVE  Behind(r)'
  <2>1. KnownWritten(r)' /\ Skipped(r)' /\ DoneBehind(r)' /\ FromStart(r)'
    BY <1>2, <1>4, <1>18
  <2>2. Settled(r)'
    BY <1>0, <1>18 DEF Settled
  <2> QED
    BY <2>1, <2>2 DEF Behind
<1>19. CASE ApplyLedger(r)
  <2>1. CASE ~Fails(r)
    <3>1. /\ run[r].pc = "commit" /\ Task(r) \in Locked /\ Noted(r)
          /\ revs' = [i \in Ids |-> IF i \in Unwritten(r) THEN revs[i] + 1 ELSE revs[i]]
      BY <1>0, <1>19, <2>1, ApplyLedgerDoes
    <3>2. UNCHANGED mem
      BY <1>19 DEF ApplyLedger, Same
    <3>3. ASSUME ~Asked[r].dry, NEW i \in run[r].batch PROVE ~Eligible(Task(r), i)'
      <4>0. i \in Ids /\ revs[i] \in Nat /\ Task(r)' \notin {"embed", "users"}
        BY <1>0, <1>7, <3>1 DEF Tables, Locked
      <4>1. CASE i \in Unwritten(r)
        <5>1. revs'[i] # 0
          BY <3>1, <4>0, <4>1
        <5> QED
          BY <4>0, <5>1 DEF Eligible
      <4>2. CASE i \notin Unwritten(r)
        <5>1. i \in run[r].known \/ mem[i].st = "gone"
          BY <3>3, <4>2 DEF Unwritten
        <5>2. revs[i] # 0 \/ mem'[i].st = "gone"
          BY <1>0, <3>2, <5>1 DEF Behind, KnownWritten
        <5>3. revs'[i] # 0 \/ mem'[i].st = "gone"
          BY <3>1, <4>0, <4>2, <5>2
        <5> QED
          BY <4>0, <5>3 DEF Eligible
      <4> QED
        BY <4>1, <4>2
    <3> QED
      BY <1>18, <3>1, <3>3
  <2> QED
    BY <1>5, <2>1
<1>20. CASE ApplyUsers(r)
  <2>1. run[r].pc = "commit" /\ Task(r) = "users" /\ Noted(r)
    BY <1>0, <1>20, ApplyUsersDoes
  <2>2. mem' = [i \in Ids |-> IF i \in run[r].batch /\ Eligible("users", i)
                              THEN [mem[i] EXCEPT !.owner = mem[i].user] ELSE mem[i]]
    BY <1>0, <1>20, ApplyUsersDoes
  <2>3. ASSUME NEW i \in run[r].batch PROVE ~Eligible(Task(r), i)'
    <3>0. i \in Ids
      BY <1>7
    <3>1. i \in Ids /\ mem[i].user # 0
      BY <1>0, <3>0 DEF Tables, Memory, LegacyUsers
    <3>2. CASE Eligible("users", i)
      <4>1. mem'[i].owner # 0
        BY <1>0, <2>2, <3>1, <3>2 DEF Tables, Memory
      <4> QED
        BY <1>0, <2>1, <4>1 DEF Eligible
    <3>3. CASE ~Eligible("users", i)
      BY <1>1, <2>1, <3>1, <3>3
    <3> QED
      BY <3>2, <3>3
  <2> QED
    BY <1>18, <2>1, <2>3
<1>21. CASE Note(r)
  <2>0. run[r].pc = "note" /\ run[r].batch # {} /\ run[r].end \notin {"failed", "complete"} /\ Task(r) \in Backfills
    BY <1>0, <1>21, NoteDoes DEF Delivery
  <2>1. PICK k \in Ids : k = Max(run[r].batch)
    BY <1>7, <2>0, LastRow
  <2>2. k \in run[r].batch /\ (\A i \in run[r].batch : i <= k) /\ k > run[r].cur
    BY <1>0, <1>7, <2>0, <2>1, LastRow DEF Behind, Skipped
  <2>3. /\ run'[r].cur = k /\ run'[r].staged = run[r].staged /\ run'[r].pc = "loop"
        /\ run'[r].from = run[r].from /\ run'[r].known = run[r].known /\ run'[r].end = run[r].end
    BY <1>0, <1>21, <2>1, NoteDoes
  <2>4. ASSUME ~Asked[r].dry, NEW i \in Ids, i > run[r].cur, i <= k PROVE ~Eligible(Task(r), i)'
    <3>1. i \notin run[r].batch => i < k
      BY <1>7, <2>2, <2>4
    <3>2. ~Eligible(Task(r), i)
      BY <1>0, <2>0, <2>2, <2>4, <3>1 DEF Behind, Skipped, Settled
    <3> QED
      BY <1>1, <3>2
  <2>5. DoneBehind(r)'
    <3> SUFFICES ASSUME Counts(r), NEW i \in Ids, i <= k PROVE Done(Task(r), i)'
      BY <1>0, <2>3 DEF DoneBehind, Counts
    <3>1. PICK t : t = Task(r) /\ Task(r)' = t
      BY <1>0
    <3>2. CASE i <= run[r].cur
      <4>1. Done(t, i)'
        BY <1>0, <3>1, <3>2, DoneStays DEF Behind, DoneBehind
      <4> QED
        BY <3>1, <4>1 DEF Done, Eligible, Excused
    <3>3. CASE i > run[r].cur
      BY <2>4, <3>3 DEF Done, Counts
    <3> QED
      BY <1>7, <3>2, <3>3
  <2>6. FromStart(r)'
    <3> SUFFICES ASSUME Counts(r), run[r].from = 0, NEW i \in Ids, i <= k
                 PROVE  ~Eligible(Task(r), i)' \/ i \in run'[r].staged
      BY <1>0, <2>0, <2>3 DEF FromStart, Counts
    <3>1. CASE i <= run[r].cur
      BY <1>0, <1>1, <2>0, <2>3, <3>1 DEF Behind, FromStart
    <3>2. CASE i > run[r].cur
      BY <2>4, <3>2 DEF Counts
    <3> QED
      BY <1>7, <3>1, <3>2
  <2>7. KnownWritten(r)' /\ Settled(r)' /\ Skipped(r)'
    BY <1>0, <1>3, <2>3, BehindKept
  <2> QED
    BY <2>5, <2>6, <2>7 DEF Behind
<1>22. CASE Finish(r)
  <2>1. run[r].pc = "finish" /\ run[r].end # "failed" /\ run[r].staged = {} /\ Stays(r)
        /\ run'[r].pc \in {"over", "clear"}
    BY <1>0, <1>22, FinishDoes DEF Delivery
  <2>2. FromStart(r)'
    <3> SUFFICES ASSUME Counts(r), run[r].from = 0, NEW i \in Ids PROVE ~Eligible(Task(r), i)'
      BY <1>0, <2>1 DEF FromStart, Counts
    <3>1. CASE i <= run[r].cur
      BY <1>0, <1>1, <2>1, <3>1 DEF Behind, FromStart
    <3>2. CASE i > run[r].cur
      BY <1>0, <1>1, <2>1, <3>2 DEF Behind, Settled
    <3> QED
      BY <1>7, <3>1, <3>2
  <2>3. KnownWritten(r)' /\ Skipped(r)' /\ DoneBehind(r)' /\ Settled(r)'
    BY <1>2, <1>3, <2>1
  <2> QED
    BY <2>2, <2>3 DEF Behind
<1>23. CASE Clear(r)
  <2>1. CASE ~Fails(r)
    <3>1. KnownWritten(r)' /\ Skipped(r)' /\ DoneBehind(r)' /\ Settled(r)' /\ FromStart(r)'
      BY <1>0, <1>2, <1>3, <1>4, <1>23, <2>1, ClearDoes
    <3> QED
      BY <3>1 DEF Behind
  <2> QED
    BY <1>5, <2>1
<1>24. CASE Release(r) \/ Die(r) \/ Activate(r) \/ Ask(r)
  <2>1. CASE Release(r)
    <3>1. KnownWritten(r)' /\ Skipped(r)' /\ DoneBehind(r)' /\ Settled(r)' /\ FromStart(r)'
      BY <1>0, <1>2, <1>3, <2>1, ReleaseDoes, BehindKept
    <3> QED
      BY <3>1 DEF Behind
  <2>2. CASE Die(r)
    <3>1. KnownWritten(r)' /\ Skipped(r)' /\ DoneBehind(r)' /\ Settled(r)' /\ FromStart(r)'
      BY <1>0, <1>2, <1>3, <2>2, DieDoes, BehindKept
    <3> QED
      BY <3>1 DEF Behind
  <2>3. CASE Activate(r) \/ Ask(r)
    <3>1. run[r].pc \in ModelPcs \cup {"new"} /\ run[r].pc # "dead" /\ run[r].end # "failed"
      BY <1>0, <2>3, ModelDoes DEF ModelPcs, Delivery
    <3>2. KnownWritten(r)' /\ Skipped(r)' /\ DoneBehind(r)' /\ Settled(r)' /\ FromStart(r)'
      BY <1>0, <1>2, <1>3, <2>3, <3>1, ModelDoes, BehindKept DEF ModelPcs
    <3> QED
      BY <3>2 DEF Behind
  <2> QED
    BY <1>24, <2>1, <2>2, <2>3
<1> QED
  BY <1>0, <1>8, <1>9, <1>10, <1>11, <1>12, <1>13, <1>14, <1>15, <1>16, <1>17, <1>19, <1>20, <1>21, <1>22,
     <1>23, <1>24 DEF NextOf

\* No step moves a cursor over a row that is not done.
LEMMA BehindStep ==
  ASSUME TypeInv, VectorsInv, BehindInv, [Next]_vars
  PROVE  BehindInv'
<1>0. Shape /\ Tables /\ Deliveries' = Deliveries /\ UNCHANGED script /\ Asked' = Asked
      /\ \A r : Task(r)' = Task(r) /\ Name(r)' = Name(r)
  BY TypeStep, Fixed DEF TypeInv
<1>1. ASSUME NEW s \in Deliveries, run'[s] = run[s] PROVE Behind(s)'
  <2>1. KnownWritten(s)' /\ Skipped(s)' /\ DoneBehind(s)' /\ Settled(s)' /\ FromStart(s)'
    <3>1. KnownWritten(s)' /\ DoneBehind(s)' /\ FromStart(s)' /\ Settled(s)'
      BY <1>1, BehindKept
    <3>2. Skipped(s)'
      <4>1. run'[s].pc \in BatchPcs \/ run'[s].pc \notin BatchPcs
        OBVIOUS
      <4> QED
        BY <1>1, <4>1, BehindKept
    <3> QED
      BY <3>1, <3>2
  <2> QED
    BY <2>1 DEF Behind
<1>2. ASSUME NEW r, NextOf(r) PROVE \A s \in Deliveries : Behind(s)'
  <2>1. \A s \in Deliveries : s # r => run'[s] = run[s]
    BY <1>0, <1>2, Moves DEF Alone
  <2>2. Behind(r)'
    BY <1>2, BehindOwn
  <2> QED
    BY <1>1, <2>1, <2>2
<1>3. ASSUME WorldNext \/ UNCHANGED vars PROVE \A s \in Deliveries : Behind(s)'
  <2>1. UNCHANGED run
    BY <1>3, World DEF vars
  <2> QED
    BY <1>1, <2>1
<1>4. \A r \in Deliveries : Behind(r)'
  BY <1>2, <1>3 DEF Next, NextOf, WorldNext
<1>5. ASSUME NEW t \in Tasks, NEW i \in Ids, i <= cursor'[<<t, FALSE>>] PROVE Done(t, i)'
  <2>1. CASE cursor'[<<t, FALSE>>] = cursor[<<t, FALSE>>]
    BY <1>5, <2>1, DoneStays DEF BehindInv
  <2>2. CASE cursor'[<<t, FALSE>>] # cursor[<<t, FALSE>>]
    <3>1. PICK r : Mark(r) \/ Note(r) \/ Clear(r)
      <4>1. ASSUME NEW r, NextOf(r), ~Mark(r), ~Note(r), ~Clear(r) PROVE UNCHANGED cursor
        BY <4>1 DEF NextOf, Acquire, ReadCursor, OpenJob, Pause, Select, Look, Carry, CommitBatch, ReadLedger,
             ApplyLedger, ApplyUsers, Finish, Release, Die, Activate, Ask, Same, redisVars
      <4>2. ASSUME WorldNext \/ UNCHANGED vars PROVE UNCHANGED cursor
        BY <4>2 DEF WorldNext, Lapse, Withdraw, Edit, Record, Deliver, Same, redisVars, vars
      <4> QED
        BY <2>2, <4>1, <4>2 DEF Next, NextOf, WorldNext
    <3>2. r \in Deliveries /\ Delivery(r) /\ Behind(r)'
      BY <1>4, <3>1 DEF Mark, Note, Clear, At, TypeInv
    <3>3. \E c : cursor' = [cursor EXCEPT ![Name(r)] = c] /\ (c = 0 \/ c = run'[r].cur)
      <4>1. CASE Mark(r)
        <5>1. cursor' # cursor
          BY <2>2
        <5>2. cursor' = [cursor EXCEPT ![Name(r)] = Row(r)] /\ run'[r].cur = Row(r)
          BY <1>0, <3>2, <4>1, <5>1, MarkDoes
        <5> QED
          BY <5>2
      <4>2. CASE Note(r)
        BY <1>0, <2>2, <3>2, <4>2, NoteDoes
      <4>3. CASE Clear(r)
        BY <1>0, <2>2, <3>2, <4>3, ClearDoes
      <4> QED
        BY <3>1, <4>1, <4>2, <4>3
    <3>4. PICK c : cursor' = [cursor EXCEPT ![Name(r)] = c] /\ (c = 0 \/ c = run'[r].cur)
      BY <3>3
    <3>5. Name(r) = <<t, FALSE>> /\ cursor'[<<t, FALSE>>] = c
      <4>1. <<t, FALSE>> \in Tasks \X BOOLEAN
        OBVIOUS
      <4> QED
        BY <1>0, <2>2, <3>4, <4>1 DEF Tables
    <3>6. Task(r) = t /\ ~Asked[r].dry
      BY <3>5 DEF Name
    <3>7. c # 0
      BY <1>5, <3>5, IdsFinite
    <3>8. i <= run'[r].cur
      BY <1>5, <3>4, <3>5, <3>7
    <3>9. Done(Task(r), i)'
      BY <1>0, <3>2, <3>6, <3>8 DEF Behind, DoneBehind, Counts
    <3> QED
      BY <1>0, <3>6, <3>9 DEF Done, Eligible, Excused
  <2> QED
    BY <2>1, <2>2
<1> QED
  BY <1>0, <1>4, <1>5 DEF BehindInv

\* Whatever a delivery or a stored cursor has behind it is done, in every
\* interleaving of the deliveries of a task with each other, with failures
\* and with the live service.
THEOREM BehindInvariant == Spec => []BehindInv
<1>1. Init => BehindInv
  <2> SUFFICES ASSUME Init PROVE BehindInv
    OBVIOUS
  <2>1. \A r \in Deliveries : run[r] = Fresh
    BY DEF Init
  <2>2. \A i \in Ids : ~(i <= 0)
    BY IdsFinite
  <2>3. ASSUME NEW r \in Deliveries PROVE Behind(r)
    <3>1. KnownWritten(r) /\ Skipped(r) /\ Settled(r)
      BY <2>1 DEF Fresh, KnownWritten, Skipped, Settled, BatchPcs, RowPcs
    <3>2. DoneBehind(r) /\ FromStart(r)
      BY <2>1, <2>2 DEF Fresh, DoneBehind, FromStart
    <3> QED
      BY <3>1, <3>2 DEF Behind
  <2>4. \A t \in Tasks : cursor[<<t, FALSE>>] = 0
    BY DEF Init
  <2> QED
    BY <2>2, <2>3, <2>4 DEF BehindInv
<1> QED
  BY <1>1, BehindStep, VectorsInvariant, TypeInvariant, PTL DEF Spec

\* A cursor in Redis never passes over a row that is still to be done, unless
\* it is the re-embedding's and a delivery failed or has it staged:
\* BackfillTask.run commits before _set_cursor, run_reembedding_cycle after.
THEOREM CursorsBehind == Spec => []BehindDone
<1>1. TypeInv /\ VectorsInv /\ BehindInv => BehindDone
  <2> SUFFICES ASSUME TypeInv, VectorsInv, BehindInv, NEW t \in Tasks, NEW i \in Ids, i <= cursor[<<t, FALSE>>]
               PROVE  \/ OutOfReach(t, i) \/ Treated(t, i)
                      \/ t = "embed" /\ \/ \E r \in Deliveries : run[r].end = "failed" \/ run[r].pc = "dead"
                                        \/ \E r \in Deliveries : i \in run[r].staged
    BY DEF BehindDone
  <2>1. Done(t, i)
    BY DEF BehindInv
  <2>2. CASE ~Eligible(t, i)
    BY <2>2, NotEligible
  <2>3. CASE Excused(t, i)
    BY <2>3 DEF Excused, Lost
  <2> QED
    BY <2>1, <2>2, <2>3 DEF Done
<1> QED
  BY <1>1, BehindInvariant, VectorsInvariant, TypeInvariant, PTL

\* A task that began at the start of the table and reports that it is complete
\* has treated every row there is, for any number of memories, any batch size
\* and any deliveries of it beside, before or after it.
THEOREM NothingLeft == Spec => []LeftNothing
<1>1. TypeInv /\ VectorsInv /\ BehindInv => LeftNothing
  <2> SUFFICES ASSUME TypeInv, VectorsInv, BehindInv, NEW r \in Deliveries, Task(r) \in Tasks,
                      run[r].end = "complete", run[r].from = 0, ~Asked[r].dry, NEW i \in Ids
               PROVE  OutOfReach(Task(r), i) \/ Treated(Task(r), i)
    BY DEF LeftNothing
  <2>1. ~Eligible(Task(r), i)
    BY DEF BehindInv, Behind, FromStart, Counts
  <2> QED
    BY <2>1, NotEligible
<1> QED
  BY <1>1, BehindInvariant, VectorsInvariant, TypeInvariant, PTL

-----------------------------------------------------------------------------
(* Who wins the claim.                                                     *)

ClaimFields == {"st", "val", "win", "live"}
\* A winner that was recorded live makes a claim that was.
ClaimShape(c) == c = [f \in ClaimFields |-> c[f]] /\ c.live \in BOOLEAN /\ (c.win = Live => c.live)
LedgerInv ==
  /\ ClaimShape(claim) /\ (claim.win = Live => claim.st # "none")
  /\ \A r \in Deliveries : ClaimShape(run[r].claim)

\* The winner among a set of rows: a correction by the user if there is one, or else the newest.
Written == {i \in Ids : revs[i] # 0}
Best(c, V) ==
  /\ c.st # "none" /\ c.win \in V
  /\ IF \E i \in V : mem[i].src = "user_correction" THEN mem[c.win].src = "user_correction"
     ELSE \A i \in V : mem[i].at <= mem[c.win].at
\* Nobody wrote to the Passport beside the backfill, and its lock held.
Undisturbed ==
  /\ ~claim.live /\ ~lapsed /\ \A i \in Ids : mem[i].st = "live"
  /\ \E r \in Deliveries : Task(r) = "passport"
WinnerInv ==
  Undisturbed =>
    /\ IF Written = {} THEN claim = NoClaim ELSE Best(claim, Written)
    /\ \A r \in Deliveries : Task(r) = "passport" /\ run[r].pc = "commit" => run[r].claim = claim

\* A row of the walk, from the claim and the rows left before it.
Taken(b) == [at |-> PassportRow(b.at, Oldest(b.left)), left |-> b.left \ {Oldest(b.left)}]

\* The walk over a batch is the one its recursion says: there is a walk over its first m rows for
\* every m, because the least m without one would be the end of a walk over m - 1.
LEMMA WalkIs ==
  ASSUME NEW a, NEW S, Cardinality(S) \in Nat
  PROVE  /\ Walk(a, S)[0] = [at |-> a, left |-> S]
         /\ \A n \in 1 .. Cardinality(S) : Walk(a, S)[n] = Taken(Walk(a, S)[n - 1])
<1> DEFINE base == [at |-> a, left |-> S]
           Upto(g, m) == g = [n \in 0 .. m |-> IF n = 0 THEN base ELSE Taken(g[n - 1])]
           bad == {m \in Nat : ~\E g : Upto(g, m)}
<1>1. Walk(a, S) = CHOOSE g : Upto(g, Cardinality(S))
  BY DEF Walk, Taken
<1>2. bad = {}
  <2> SUFFICES ASSUME bad # {} PROVE FALSE
    OBVIOUS
  <2>1. PICK m \in bad : \A y \in bad : m <= y
    <3>1. bad \in SUBSET Nat
      OBVIOUS
    <3> HIDE DEF bad
    <3> QED
      BY <3>1, Least
  <2>2. m \in Nat /\ ~\E g : Upto(g, m)
    OBVIOUS
  <2>3. m # 0
    <3>1. Upto([n \in 0 .. 0 |-> base], 0)
      OBVIOUS
    <3> QED
      BY <2>2, <3>1
  <2>4. m - 1 \in Nat /\ m - 1 \notin bad
    <3> HIDE DEF bad
    <3> QED
      BY <2>1, <2>2, <2>3
  <2>5. PICK g : Upto(g, m - 1)
    BY <2>4
  <2> HIDE DEF base
  <2> DEFINE h == [n \in 0 .. m |-> IF n = m THEN Taken(g[m - 1]) ELSE g[n]]
  <2>6. \A n \in 0 .. m - 1 : h[n] = g[n]
    BY <2>2
  <2>7. \A n \in 0 .. m : h[n] = IF n = 0 THEN base ELSE Taken(h[n - 1])
    <3> SUFFICES ASSUME NEW n \in 0 .. m PROVE h[n] = IF n = 0 THEN base ELSE Taken(h[n - 1])
      OBVIOUS
    <3>1. CASE n = m
      <4>1. h[n] = Taken(g[m - 1]) /\ h[n - 1] = g[m - 1]
        BY <2>2, <2>3, <2>6, <3>1
      <4> HIDE DEF h
      <4> QED
        BY <2>3, <3>1, <4>1
    <3>2. CASE n # m
      <4>1. n \in 0 .. m - 1 /\ (n # 0 => n - 1 \in 0 .. m - 1)
        BY <2>2, <3>2
      <4>2. g[n] = IF n = 0 THEN base ELSE Taken(g[n - 1])
        BY <2>5, <4>1
      <4>3. h[n] = g[n] /\ (n # 0 => h[n - 1] = g[n - 1])
        BY <2>6, <4>1
      <4> HIDE DEF h
      <4> QED
        BY <4>2, <4>3
    <3> QED
      BY <3>1, <3>2
  <2>8. Upto(h, m)
    <3>1. h = [n \in 0 .. m |-> h[n]]
      OBVIOUS
    <3> HIDE DEF h
    <3> QED
      BY <2>7, <3>1
  <2> QED
    BY <2>2, <2>8
<1>3. Cardinality(S) \notin bad
  BY <1>2
<1>4. \E g : Upto(g, Cardinality(S))
  BY <1>3
<1>5. Upto(Walk(a, S), Cardinality(S))
  <2> HIDE DEF Upto
  <2> QED
    BY <1>1, <1>4
<1> HIDE DEF base
<1> QED
  BY <1>5 DEF base

\* There is an oldest row.
LEMMA OldestIn ==
  ASSUME Tables, NEW S \in SUBSET Ids, S # {}
  PROVE  Oldest(S) \in S
<1> DEFINE dates == {mem[i].at : i \in S}
<1>1. \A i \in S : mem[i].at \in Nat /\ i \in Nat
  BY IdsFinite DEF Tables, Memory
<1>2. PICK d \in dates : \A e \in dates : d <= e
  <2>1. dates \in SUBSET Nat /\ dates # {}
    BY <1>1
  <2> HIDE DEF dates
  <2> QED
    BY <2>1, Least
<1> DEFINE firsts == {i \in S : mem[i].at = d}
<1>3. PICK i \in firsts : \A k \in firsts : i <= k
  <2>1. firsts \in SUBSET Nat /\ firsts # {}
    BY <1>1, <1>2
  <2> HIDE DEF firsts
  <2> QED
    BY <2>1, Least
<1>4. i \in S /\ \A k \in S : mem[i].at < mem[k].at \/ (mem[i].at = mem[k].at /\ i <= k)
  <2> SUFFICES ASSUME NEW k \in S PROVE mem[i].at < mem[k].at \/ (mem[i].at = mem[k].at /\ i <= k)
    BY <1>3
  <2>1. mem[i].at = d /\ d <= mem[k].at /\ (mem[k].at = d => i <= k)
    BY <1>2, <1>3
  <2> QED
    BY <1>1, <1>3, <2>1
<1> QED
  BY <1>4 DEF Oldest

\* Each row of a batch leaves a claim of the backfill one.
LEMMA RowKeeps ==
  ASSUME NEW a, NEW i \in Ids, ClaimShape(a.claim), ~a.claim.live
  PROVE  /\ ClaimShape(PassportRow(a, i).claim) /\ ~PassportRow(a, i).claim.live
         /\ PassportRow(a, i).claim.st # "none"
<1>1. i # Live /\ Live # 0
  BY IdsFinite DEF Live
<1> DEFINE c == PassportRow(a, i).claim
           same == a.claim.val = mem[i].val
           st == IF mem[i].src = "user_correction" \/ same THEN "active" ELSE "disputed"
<1>2. \/ c = Created(i)
      \/ c = [a.claim EXCEPT !.val = mem[i].val, !.win = i, !.st = st]
      \/ c = [a.claim EXCEPT !.st = "disputed"]
      \/ c = a.claim /\ a.claim.st # "none"
  BY DEF PassportRow
<1>3. st \in {"active", "disputed"}
  OBVIOUS
<1> HIDE DEF c, st
<1>4. CASE c = Created(i)
  <2>1. c = [f \in ClaimFields |-> c[f]] /\ c.live = FALSE /\ c.win \in {i, 0} /\ c.st # "none"
    BY <1>4 DEF Created, ClaimFields
  <2> QED
    BY <1>1, <2>1 DEF ClaimShape, c
<1>5. CASE c # Created(i)
  <2>1. c = [f \in ClaimFields |-> c[f]] /\ c.live = a.claim.live /\ c.win \in {i, a.claim.win} /\ c.st # "none"
    BY <1>2, <1>3, <1>5 DEF ClaimShape, ClaimFields
  <2> QED
    BY <1>1, <2>1 DEF ClaimShape, c
<1> QED
  BY <1>4, <1>5

\* The walk takes the rows one by one and leaves a claim of the backfill.
LEMMA WalkKeeps ==
  ASSUME Tables, NEW a, ClaimShape(a.claim), ~a.claim.live, NEW S \in SUBSET Ids,
         NEW n \in 0 .. Cardinality(S)
  PROVE  /\ Walk(a, S)[n].left \subseteq S /\ Cardinality(Walk(a, S)[n].left) = Cardinality(S) - n
         /\ ClaimShape(Walk(a, S)[n].at.claim) /\ ~Walk(a, S)[n].at.claim.live
         /\ n # 0 => Walk(a, S)[n].at.claim.st # "none"
<1>1. IsFiniteSet(S) /\ Cardinality(S) \in Nat
  BY IdsFinite, FS_Subset, FS_CardinalityType
<1> DEFINE w == Walk(a, S)
           Fine(m) == /\ w[m].left \subseteq S /\ Cardinality(w[m].left) = Cardinality(S) - m
                      /\ ClaimShape(w[m].at.claim) /\ ~w[m].at.claim.live
                      /\ m # 0 => w[m].at.claim.st # "none"
           bad == {m \in 0 .. Cardinality(S) : ~Fine(m)}
<1>2. w[0] = [at |-> a, left |-> S] /\ \A m \in 1 .. Cardinality(S) : w[m] = Taken(w[m - 1])
  BY <1>1, WalkIs
<1> HIDE DEF w
<1>3. bad = {}
  <2> SUFFICES ASSUME bad # {} PROVE FALSE
    OBVIOUS
  <2>1. PICK m \in bad : \A y \in bad : m <= y
    <3>1. bad \in SUBSET Nat
      BY <1>1
    <3> HIDE DEF bad
    <3> QED
      BY <3>1, Least
  <2>2. m \in 0 .. Cardinality(S) /\ ~Fine(m)
    OBVIOUS
  <2>3. m # 0
    <3>1. w[0].left = S /\ w[0].at = a
      BY <1>2
    <3> QED
      BY <1>1, <2>2, <3>1
  <2>4. m - 1 \in 0 .. Cardinality(S) /\ m \in 1 .. Cardinality(S) /\ m - 1 \notin bad
    <3> HIDE DEF bad
    <3> QED
      BY <1>1, <2>1, <2>2, <2>3
  <2>5. Fine(m - 1)
    BY <2>4
  <2> DEFINE b == w[m - 1]
             i == Oldest(b.left)
  <2>6. b.left \subseteq S /\ Cardinality(b.left) = Cardinality(S) - (m - 1) /\ ClaimShape(b.at.claim) /\ ~b.at.claim.live
    BY <2>5
  <2>7. w[m].at = PassportRow(b.at, i) /\ w[m].left = b.left \ {i}
    <3>1. w[m] = Taken(b)
      BY <1>2, <2>4
    <3> HIDE DEF b
    <3> QED
      BY <3>1 DEF Taken
  <2> HIDE DEF b
  <2>8. IsFiniteSet(b.left) /\ b.left # {}
    <3>1. IsFiniteSet(b.left)
      BY <1>1, <2>6, FS_Subset
    <3>2. Cardinality({}) = 0
      BY FS_EmptySet
    <3>3. Cardinality(S) - (m - 1) # 0
      BY <1>1, <2>4
    <3>4. b.left # {}
      BY <2>6, <3>2, <3>3
    <3> QED
      BY <3>1, <3>4
  <2>9. i \in b.left
    BY <2>6, <2>8, OldestIn
  <2> HIDE DEF i
  <2>10. Cardinality(b.left \ {i}) = Cardinality(b.left) - 1
    BY <2>8, <2>9, FS_RemoveElement
  <2>11. Fine(m)
    BY <1>1, <2>4, <2>6, <2>7, <2>9, <2>10, RowKeeps
  <2> QED
    BY <2>2, <2>11
<1> HIDE DEF bad
<1>4. n \notin bad
  BY <1>3
<1>5. Fine(n)
  BY <1>4 DEF bad
<1> QED
  BY <1>5 DEF w

\* What a batch makes of the claim it read: nothing, or a claim of the backfill; of tenant
\* memories only where there was none.
LEMMA FoldedIs ==
  ASSUME TypeInv, LedgerInv, NEW r \in Deliveries
  PROVE  \/ Folded(r) = run[r].claim
         \/ /\ ClaimShape(Folded(r)) /\ ~Folded(r).live /\ ~run[r].claim.live /\ Folded(r).st # "none"
            /\ Task(r) # "passport" => run[r].claim.st = "none"
<1>1. ClaimShape(run[r].claim) /\ Tables /\ Delivery(r)
  BY DEF LedgerInv, TypeInv
<1>2. Unwritten(r) \in SUBSET Ids
  BY <1>1 DEF Unwritten, Delivery
<1> DEFINE n == Cardinality(Unwritten(r))
<1>3. CASE Unwritten(r) = {} \/ ~Managed(run[r].claim)
  BY <1>3 DEF Folded
<1>4. CASE Unwritten(r) # {} /\ Managed(run[r].claim) /\ Task(r) = "passport"
  <2>1. Folded(r) = Walk(Begun(r), Unwritten(r))[n].at.claim
    BY <1>4 DEF Folded
  <2>2. Begun(r).claim = run[r].claim /\ ~run[r].claim.live
    BY <1>4 DEF Begun, Managed
  <2>3. n \in 0 .. n /\ n # 0
    <3>1. IsFiniteSet(Unwritten(r))
      BY <1>2, IdsFinite, FS_Subset
    <3>2. n \in Nat /\ (n = 0 <=> Unwritten(r) = {})
      BY <3>1, FS_CardinalityType, FS_EmptySet
    <3> QED
      BY <1>4, <3>2
  <2> HIDE DEF n
  <2>4. /\ ClaimShape(Walk(Begun(r), Unwritten(r))[n].at.claim)
        /\ ~Walk(Begun(r), Unwritten(r))[n].at.claim.live
        /\ Walk(Begun(r), Unwritten(r))[n].at.claim.st # "none"
    BY <1>1, <1>2, <2>2, <2>3, WalkKeeps DEF n
  <2> QED
    BY <1>4, <2>1, <2>2, <2>4
<1>5. CASE Unwritten(r) # {} /\ Managed(run[r].claim) /\ Task(r) # "passport"
  <2> DEFINE i == Oldest(Unwritten(r))
  <2>1. i \in Ids
    BY <1>1, <1>2, <1>5, OldestIn
  <2>2. Folded(r) = IF run[r].claim.st = "none" THEN Created(i) ELSE run[r].claim
    BY <1>5 DEF Folded
  <2> HIDE DEF i
  <2>3. /\ Created(i) = [f \in ClaimFields |-> Created(i)[f]]
        /\ Created(i).live = FALSE /\ Created(i).win \in {i, 0} /\ Created(i).st # "none"
    BY DEF Created, ClaimFields
  <2>4. i # Live /\ 0 # Live
    BY <2>1, IdsFinite DEF Live
  <2>5. ClaimShape(Created(i)) /\ ~Created(i).live
    BY <2>3, <2>4 DEF ClaimShape
  <2>6. ~run[r].claim.live
    BY <1>5 DEF Managed
  <2> QED
    BY <2>2, <2>3, <2>5, <2>6
<1> QED
  BY <1>3, <1>4, <1>5

\* What the commit of a batch makes of the claim: only the columns that the batch changed.
LEMMA MergedIs ==
  ASSUME TypeInv, LedgerInv, NEW r \in Deliveries
  PROVE  /\ DOMAIN Merged(r) = ClaimFields
         /\ \A f \in ClaimFields :
              Merged(r)[f] = IF Folded(r)[f] # run[r].claim[f] THEN Folded(r)[f] ELSE claim[f]
         /\ Merged(r).live = claim.live
         /\ Folded(r) = run[r].claim => Merged(r) = claim
<1>1. DOMAIN claim = ClaimFields /\ DOMAIN run[r].claim = ClaimFields
  BY DEF LedgerInv, ClaimShape
<1>2. DOMAIN Merged(r) = ClaimFields
      /\ \A f \in ClaimFields :
           Merged(r)[f] = IF Folded(r)[f] # run[r].claim[f] THEN Folded(r)[f] ELSE claim[f]
  BY <1>1 DEF Merged
<1>3. Folded(r).live = run[r].claim.live
  <2>1. run[r].claim.live \in BOOLEAN /\ (ClaimShape(Folded(r)) => Folded(r).live \in BOOLEAN)
    BY DEF LedgerInv, ClaimShape
  <2> QED
    BY <2>1, FoldedIs
<1>4. Merged(r).live = claim.live
  <2>1. Merged(r)["live"] = IF Folded(r)["live"] # run[r].claim["live"] THEN Folded(r)["live"] ELSE claim["live"]
    BY <1>2 DEF ClaimFields
  <2> QED
    BY <1>3, <2>1
<1>5. ASSUME Folded(r) = run[r].claim PROVE Merged(r) = claim
  <2>1. claim = [f \in ClaimFields |-> claim[f]]
    BY <1>1 DEF LedgerInv, ClaimShape
  <2>2. Merged(r) = [f \in ClaimFields |-> claim[f]]
    BY <1>1, <1>5 DEF Merged
  <2> QED
    BY <2>1, <2>2
<1> QED
  BY <1>2, <1>4, <1>5

\* A delivery holds the claim as it read it, or none, and only the commit of a batch writes it.
LEMMA ClaimMoves ==
  ASSUME Shape, NEW r \in Deliveries, NextOf(r)
  PROVE  /\ \/ run'[r].claim \in {run[r].claim, NoClaim}
            \/ ReadLedger(r) /\ run'[r].claim = claim
         /\ \/ UNCHANGED claim
            \/ ApplyLedger(r) /\ ~Clash(r) /\ claim' = Merged(r)
<1>1. \/ UNCHANGED claim
      \/ ApplyLedger(r) /\ ~Clash(r) /\ claim' = Merged(r)
  <2>1. CASE ApplyLedger(r)
    BY <2>1 DEF ApplyLedger
  <2>2. CASE ~ApplyLedger(r)
    BY <2>2 DEF NextOf, Acquire, ReadCursor, OpenJob, Pause, Select, Look, Carry, Mark, CommitBatch, ReadLedger,
         ApplyUsers, Note, Finish, Clear, Release, Die, Activate, Ask, Same, tables
  <2> QED
    BY <2>1, <2>2
<1> USE DEF Shape, Fields, Goes
<1>2. ASSUME Failed(r) PROVE run'[r].claim = NoClaim
  BY <1>2 DEF Failed
<1>3. CASE Acquire(r) \/ ReadCursor(r) \/ OpenJob(r) \/ Pause(r) \/ Select(r)
  <2>1. CASE Acquire(r)
    BY <1>1, <2>1 DEF Acquire
  <2>2. CASE ReadCursor(r)
    BY <1>1, <2>2 DEF ReadCursor
  <2>3. CASE OpenJob(r)
    BY <1>1, <2>3 DEF OpenJob
  <2>4. CASE Pause(r)
    BY <1>1, <2>4 DEF Pause, Same
  <2>5. CASE Select(r)
    BY <1>1, <2>5 DEF Select
  <2> QED
    BY <1>3, <2>1, <2>2, <2>3, <2>4, <2>5
<1>4. CASE Look(r) \/ Carry(r) \/ Mark(r) \/ CommitBatch(r)
  <2>1. CASE Look(r)
    BY <1>1, <2>1 DEF Look
  <2>2. CASE Carry(r)
    BY <1>1, <1>2, <2>2 DEF Carry
  <2>3. CASE Mark(r)
    BY <1>1, <1>2, <2>3 DEF Mark
  <2>4. CASE CommitBatch(r)
    BY <1>1, <1>2, <2>4 DEF CommitBatch
  <2> QED
    BY <1>4, <2>1, <2>2, <2>3, <2>4
<1>5. CASE ReadLedger(r) \/ ApplyLedger(r) \/ ApplyUsers(r) \/ Note(r)
  <2>1. CASE ReadLedger(r)
    <3>1. run'[r].claim = claim
      BY <2>1 DEF ReadLedger
    <3> QED
      BY <1>1, <2>1, <3>1
  <2>2. CASE ApplyLedger(r)
    <3>1. run'[r].claim = NoClaim
      BY <1>2, <2>2 DEF ApplyLedger
    <3> QED
      BY <1>1, <3>1
  <2>3. CASE ApplyUsers(r)
    BY <1>1, <2>3 DEF ApplyUsers
  <2>4. CASE Note(r)
    BY <1>1, <2>4 DEF Note
  <2> QED
    BY <1>5, <2>1, <2>2, <2>3, <2>4
<1>6. CASE Finish(r) \/ Clear(r) \/ Release(r) \/ Die(r)
  <2>1. CASE Finish(r)
    BY <1>1, <2>1 DEF Finish
  <2>2. CASE Clear(r)
    BY <1>1, <1>2, <2>2 DEF Clear
  <2>3. CASE Release(r)
    BY <1>1, <2>3 DEF Release
  <2>4. CASE Die(r)
    BY <1>1, <2>4 DEF Die
  <2> QED
    BY <1>6, <2>1, <2>2, <2>3, <2>4
<1>7. CASE Activate(r)
  BY <1>1, <1>7 DEF Activate
<1>8. CASE Ask(r)
  BY <1>1, <1>8 DEF Ask
<1> QED
  BY <1>3, <1>4, <1>5, <1>6, <1>7, <1>8 DEF NextOf

\* What the commit of a batch leaves is a claim, and its winner is a live one only if it was before.
LEMMA MergedShape ==
  ASSUME TypeInv, LedgerInv, NEW r \in Deliveries
  PROVE  /\ ClaimShape(Merged(r))
         /\ Merged(r).win = Live => claim.win = Live /\ Merged(r).st # "none"
<1>1. ClaimShape(claim) /\ ClaimShape(run[r].claim) /\ (claim.win = Live => claim.st # "none")
  BY DEF LedgerInv
<1>2. CASE Folded(r) = run[r].claim
  BY <1>1, <1>2, MergedIs
<1>3. CASE Folded(r) # run[r].claim
  <2>1. ClaimShape(Folded(r)) /\ ~Folded(r).live /\ Folded(r).st # "none"
    BY <1>3, FoldedIs
  <2>2. Folded(r).win # Live
    BY <2>1 DEF ClaimShape
  <2>3. /\ Merged(r).win = IF Folded(r).win # run[r].claim.win THEN Folded(r).win ELSE claim.win
        /\ Merged(r).st = IF Folded(r).st # run[r].claim.st THEN Folded(r).st ELSE claim.st
        /\ Merged(r).live = claim.live
    BY MergedIs DEF ClaimFields
  <2>4. Merged(r).win = Live => claim.win = Live /\ Merged(r).st # "none"
    BY <1>1, <2>1, <2>2, <2>3
  <2>5. Merged(r) = [f \in ClaimFields |-> Merged(r)[f]]
    <3>1. DOMAIN claim = ClaimFields
      BY <1>1 DEF ClaimShape
    <3> QED
      BY <3>1 DEF Merged
  <2> QED
    BY <1>1, <2>3, <2>4, <2>5 DEF ClaimShape
<1> QED
  BY <1>2, <1>3

LEMMA LedgerStep ==
  ASSUME TypeInv, LedgerInv, [Next]_vars
  PROVE  LedgerInv'
<1>0. Deliveries' = Deliveries /\ Shape
  BY TypeStep DEF TypeInv
<1>1. ClaimShape(NoClaim)
  <2>1. Live # 0
    BY IdsFinite DEF Live
  <2>2. NoClaim = [f \in ClaimFields |-> NoClaim[f]] /\ NoClaim.live = FALSE /\ NoClaim.win = 0
    BY DEF NoClaim, ClaimFields
  <2> QED
    BY <2>1, <2>2 DEF ClaimShape
<1>2. ASSUME NEW c, ClaimShape(c), c.win = Live => c.st # "none", claim' = c,
             \A r \in Deliveries : run'[r].claim = run[r].claim \/ ClaimShape(run'[r].claim)
      PROVE  LedgerInv'
  BY <1>0, <1>2 DEF LedgerInv, ClaimShape
<1>3. ASSUME NEW r, NextOf(r) PROVE LedgerInv'
  <2>1. r \in Deliveries /\ \A s \in Deliveries : s # r => run'[s] = run[s]
    BY <1>0, <1>3, Moves DEF Alone
  <2>2. ClaimShape(claim) /\ (claim.win = Live => claim.st # "none")
    BY DEF LedgerInv
  <2>3. \A s \in Deliveries : run'[s].claim = run[s].claim \/ ClaimShape(run'[s].claim)
    <3>1. run'[r].claim \in {run[r].claim, NoClaim, claim}
      BY <1>0, <1>3, <2>1, ClaimMoves
    <3> QED
      BY <1>1, <2>1, <2>2, <3>1
  <2>4. CASE UNCHANGED claim
    BY <1>2, <2>2, <2>3, <2>4
  <2>5. CASE claim' = Merged(r)
    BY <1>2, <2>1, <2>3, <2>5, MergedShape
  <2> QED
    BY <1>0, <1>3, <2>1, <2>4, <2>5, ClaimMoves
<1>4. CASE WorldNext \/ UNCHANGED vars
  <2>1. UNCHANGED run
    BY <1>4, World DEF vars
  <2>2. CASE UNCHANGED claim
    BY <1>2, <2>1, <2>2 DEF LedgerInv
  <2>3. CASE Record
    <3> DEFINE c == [st |-> "active", val |-> Event.val, win |-> Live, live |-> TRUE]
    <3>1. claim' = c /\ c = [f \in ClaimFields |-> c[f]] /\ c.live = TRUE /\ c.win = Live /\ c.st = "active"
      BY <2>3 DEF Record, ClaimFields
    <3> HIDE DEF c
    <3>2. ClaimShape(c)
      BY <3>1 DEF ClaimShape
    <3> QED
      BY <1>2, <2>1, <3>1, <3>2
  <2> QED
    BY <1>4, <2>2, <2>3 DEF WorldNext, Lapse, Withdraw, Edit, Deliver, Same, tables, vars
<1> QED
  BY <1>3, <1>4 DEF Next, NextOf, WorldNext

\* The claim and what the deliveries read of it are claims, and a winner that was recorded live
\* makes the claim one that the backfills do not manage (claim_is_backfill_managed).
THEOREM LedgerInvariant == Spec => []LedgerInv
<1>1. Init => LedgerInv
  <2> SUFFICES ASSUME Init PROVE LedgerInv
    OBVIOUS
  <2>1. Live # 0
    BY IdsFinite DEF Live
  <2>2. NoClaim = [f \in ClaimFields |-> NoClaim[f]] /\ NoClaim.live = FALSE /\ NoClaim.win = 0
    BY DEF NoClaim, ClaimFields
  <2>3. ClaimShape(NoClaim) /\ NoClaim.win # Live
    BY <2>1, <2>2 DEF ClaimShape
  <2>4. Scripts[script] \in Script /\ (claim = NoClaim \/ (claim.live /\ claim.st # "none"))
    BY MaintenanceAssumption DEF Init
  <2>5. claim = [f \in ClaimFields |-> claim[f]] /\ claim.live \in BOOLEAN
    BY <2>4 DEF Init, Script, Claim, ClaimFields
  <2>6. ClaimShape(claim) /\ (claim.win = Live => claim.st # "none")
    BY <2>3, <2>4, <2>5 DEF ClaimShape
  <2>7. \A r \in Deliveries : run[r].claim = NoClaim
    BY DEF Init, Fresh
  <2> QED
    BY <2>3, <2>6, <2>7 DEF LedgerInv
<1> QED
  BY <1>1, LedgerStep, TypeInvariant, PTL DEF Spec

\* Existing live-ledger winners are immutable from the backfill: no backfill of tenant memories
\* replaces a winner that was recorded live, and one of a Passport only when it had read the claim
\* before that winner was recorded (backfill_revision_sync over an unlocked claim).
THEOREM WinnersKept == Spec => WinnerKept
<1>1. ASSUME TypeInv, LedgerInv, [Next]_vars, claim.win = Live, claim'.win # Live
      PROVE  \E r \in Deliveries : At(r, "commit") /\ Task(r) = "passport" /\ run[r].claim.win # Live
  <2>1. ASSUME WorldNext \/ UNCHANGED vars PROVE FALSE
    <3>1. CASE Record
      BY <1>1, <3>1 DEF Record
    <3>2. CASE ~Record
      BY <1>1, <2>1, <3>2 DEF WorldNext, Lapse, Withdraw, Edit, Deliver, Same, tables, vars
    <3> QED
      BY <3>1, <3>2
  <2>2. PICK r : NextOf(r)
    BY <1>1, <2>1 DEF Next, NextOf, WorldNext
  <2>3. r \in Deliveries /\ Shape
    BY <1>1, <2>2, Moves DEF Alone, TypeInv
  <2>4. ApplyLedger(r) /\ ~Clash(r) /\ claim' = Merged(r)
    BY <1>1, <2>2, <2>3, ClaimMoves
  <2>5. Folded(r) # run[r].claim
    BY <1>1, <2>3, <2>4, MergedIs
  <2>6. /\ ~run[r].claim.live /\ Folded(r).st # "none"
        /\ Task(r) # "passport" => run[r].claim.st = "none"
    BY <1>1, <2>3, <2>5, FoldedIs
  <2>7. ClaimShape(run[r].claim) /\ claim.st # "none"
    BY <1>1, <2>3 DEF LedgerInv
  <2>8. run[r].claim.win # Live
    BY <2>6, <2>7 DEF ClaimShape
  <2>9. Task(r) = "passport"
    BY <2>4, <2>6, <2>7 DEF Clash
  <2> QED
    BY <2>3, <2>4, <2>8, <2>9 DEF ApplyLedger
<1>2. TypeInv /\ LedgerInv /\ [Next]_vars
        => [(claim.win = Live /\ claim'.win # Live)
              => \E r \in Deliveries : At(r, "commit") /\ Task(r) = "passport" /\ run[r].claim.win # Live]_vars
  BY <1>1
<1> QED
  BY <1>2, TypeInvariant, LedgerInvariant, PTL DEF Spec, WinnerKept

\* Where the walk stands after the rows V: no claim yet, or the best of them has it.
Stage(a, V) == IF V = {} THEN a.claim = NoClaim ELSE Best(a.claim, V) /\ a.by = a.claim.win

\* A row that is live takes the claim or leaves it to the better one, whatever came before it:
\* the order of the rows of a batch does not matter.
LEMMA RowBest ==
  ASSUME Tables, NEW a, NEW V \in SUBSET Ids, NEW i \in Ids, \A k \in Ids : mem[k].st = "live",
         Stage(a, V), ClaimShape(a.claim)
  PROVE  Stage(PassportRow(a, i), V \cup {i})
<1> DEFINE p == PassportRow(a, i)
           same == a.claim.val = mem[i].val
           st == IF mem[i].src = "user_correction" \/ same THEN "active" ELSE "disputed"
<1>1. /\ \A k \in Ids : mem[k].at \in Nat /\ k # 0 /\ k # Live
      /\ mem[i].st = "live"
  BY IdsFinite DEF Tables, Memory, Live
<1>2. p.by = IF p.claim.win # 0 THEN p.claim.win ELSE i
  BY DEF PassportRow
<1>3. CASE V = {}
  <2>1. a.claim.st = "none"
    BY <1>3 DEF Stage, NoClaim
  <2>2. p.claim = Created(i)
    BY <2>1 DEF PassportRow
  <2> HIDE DEF p
  <2>3. p.claim.st = "active" /\ p.claim.win = i
    BY <1>1, <2>2 DEF Created
  <2>4. Best(p.claim, {i})
    BY <1>1, <2>3 DEF Best
  <2> QED
    BY <1>1, <1>2, <1>3, <2>3, <2>4 DEF Stage, p
<1>4. CASE V # {}
  <2>1. Best(a.claim, V) /\ a.by = a.claim.win
    BY <1>4 DEF Stage
  <2>2. a.claim.st # "none" /\ a.claim.win \in V /\ a.by \in Ids
    BY <2>1 DEF Best
  <2>3. Date(a.by) = mem[a.claim.win].at /\ Source(a.by) = mem[a.claim.win].src
    BY <1>1, <2>1, <2>2 DEF Date, Source
  <2>4. CASE Advances(a, i)
    <3>1. p.claim = [a.claim EXCEPT !.val = mem[i].val, !.win = i, !.st = st]
      BY <2>2, <2>4 DEF PassportRow
    <3>2. st # "none"
      OBVIOUS
    <3> HIDE DEF p, st
    <3>3. p.claim.st # "none" /\ p.claim.win = i
      BY <3>1, <3>2 DEF ClaimShape, ClaimFields
    <3>4. CASE mem[i].src = "user_correction"
      <4>1. Best(p.claim, V \cup {i})
        BY <3>3, <3>4 DEF Best
      <4> QED
        BY <1>1, <1>2, <3>3, <4>1 DEF Stage, p
    <3>5. CASE mem[i].src # "user_correction"
      <4>1. mem[i].at > mem[a.claim.win].at /\ mem[a.claim.win].src # "user_correction"
        BY <2>3, <2>4, <3>5 DEF Advances
      <4>2. /\ \A k \in V : mem[k].src # "user_correction"
            /\ \A k \in V : mem[k].at <= mem[a.claim.win].at
        BY <2>1, <4>1 DEF Best
      <4>3. \A k \in V \cup {i} : mem[k].at <= mem[i].at
        BY <1>1, <2>2, <4>1, <4>2
      <4>4. Best(p.claim, V \cup {i})
        BY <3>3, <3>5, <4>2, <4>3 DEF Best
      <4> QED
        BY <1>1, <1>2, <3>3, <4>4 DEF Stage, p
    <3> QED
      BY <3>4, <3>5
  <2>5. CASE ~Advances(a, i)
    <3>1. p.claim = [a.claim EXCEPT !.st = "disputed"] \/ p.claim = a.claim
      BY <2>2, <2>5 DEF PassportRow
    <3> HIDE DEF p
    <3>2. p.claim.st # "none" /\ p.claim.win = a.claim.win
      BY <2>2, <3>1 DEF ClaimShape, ClaimFields
    <3>3. mem[i].src # "user_correction" /\ (mem[a.claim.win].src = "user_correction" \/ mem[i].at <= mem[a.claim.win].at)
      BY <1>1, <2>2, <2>3, <2>5 DEF Advances
    <3>4. Best(p.claim, V \cup {i})
      BY <2>1, <2>2, <3>2, <3>3 DEF Best
    <3>5. p.by = p.claim.win
      BY <1>1, <1>2, <2>2, <3>2 DEF p
    <3> QED
      BY <3>4, <3>5 DEF Stage, p
  <2> QED
    BY <2>4, <2>5
<1> QED
  BY <1>3, <1>4

\* After all the rows of a batch the best of them and of those before has the claim.
LEMMA WalkBest ==
  ASSUME Tables, NEW a, ClaimShape(a.claim), ~a.claim.live, NEW S \in SUBSET Ids, NEW V \in SUBSET Ids,
         \A k \in Ids : mem[k].st = "live", Stage(a, V)
  PROVE  Stage(Walk(a, S)[Cardinality(S)].at, V \cup S)
<1>1. IsFiniteSet(S) /\ Cardinality(S) \in Nat
  BY IdsFinite, FS_Subset, FS_CardinalityType
<1> DEFINE w == Walk(a, S)
           Seen(m) == V \cup (S \ w[m].left)
           Fine(m) == Stage(w[m].at, Seen(m))
           bad == {m \in 0 .. Cardinality(S) : ~Fine(m)}
<1>2. w[0] = [at |-> a, left |-> S] /\ \A m \in 1 .. Cardinality(S) : w[m] = Taken(w[m - 1])
  BY <1>1, WalkIs
<1>3. \A m \in 0 .. Cardinality(S) :
        /\ w[m].left \subseteq S /\ Cardinality(w[m].left) = Cardinality(S) - m
        /\ ClaimShape(w[m].at.claim) /\ ~w[m].at.claim.live
  BY WalkKeeps
<1> HIDE DEF w
<1>4. bad = {}
  <2> SUFFICES ASSUME bad # {} PROVE FALSE
    OBVIOUS
  <2>1. PICK m \in bad : \A y \in bad : m <= y
    <3>1. bad \in SUBSET Nat
      BY <1>1
    <3> HIDE DEF bad
    <3> QED
      BY <3>1, Least
  <2>2. m \in 0 .. Cardinality(S) /\ ~Fine(m)
    OBVIOUS
  <2>3. m # 0
    <3>1. w[0].left = S /\ w[0].at = a
      BY <1>2
    <3>2. Seen(0) = V
      BY <3>1
    <3> QED
      BY <2>2, <3>1, <3>2
  <2>4. m - 1 \in 0 .. Cardinality(S) /\ m \in 1 .. Cardinality(S) /\ m - 1 \notin bad
    <3> HIDE DEF bad
    <3> QED
      BY <1>1, <2>1, <2>2, <2>3
  <2>5. Fine(m - 1)
    BY <2>4
  <2> DEFINE b == w[m - 1]
             i == Oldest(b.left)
  <2>6. b.left \subseteq S /\ Cardinality(b.left) = Cardinality(S) - (m - 1) /\ ClaimShape(b.at.claim)
    BY <1>3, <2>4
  <2>7. w[m].at = PassportRow(b.at, i) /\ w[m].left = b.left \ {i}
    <3>1. w[m] = Taken(b)
      BY <1>2, <2>4
    <3> HIDE DEF b
    <3> QED
      BY <3>1 DEF Taken
  <2>8. Stage(b.at, V \cup (S \ b.left))
    BY <2>5
  <2> HIDE DEF b
  <2>9. b.left # {}
    <3>1. Cardinality({}) = 0
      BY FS_EmptySet
    <3>2. Cardinality(S) - (m - 1) # 0
      BY <1>1, <2>4
    <3> QED
      BY <2>6, <3>1, <3>2
  <2>10. i \in b.left
    BY <2>6, <2>9, OldestIn
  <2> HIDE DEF i
  <2>11. Stage(w[m].at, (V \cup (S \ b.left)) \cup {i})
    BY <2>6, <2>7, <2>8, <2>10, RowBest
  <2>12. (V \cup (S \ b.left)) \cup {i} = Seen(m)
    BY <2>6, <2>7, <2>10
  <2> QED
    BY <2>2, <2>11, <2>12
<1>5. Fine(Cardinality(S))
  <2>1. Cardinality(S) \notin bad
    BY <1>4
  <2> QED
    BY <1>1, <2>1
<1>6. w[Cardinality(S)].left = {}
  <2>1. /\ w[Cardinality(S)].left \subseteq S
        /\ Cardinality(w[Cardinality(S)].left) = 0
    BY <1>1, <1>3
  <2>2. IsFiniteSet(w[Cardinality(S)].left)
    BY <1>1, <2>1, FS_Subset
  <2> QED
    BY <2>1, <2>2, FS_EmptySet
<1>7. Seen(Cardinality(S)) = V \cup S
  BY <1>6
<1> QED
  BY <1>5, <1>7 DEF w

\* The date and the source of a memory never change.
LEMMA DatesStay ==
  ASSUME TypeInv, [Next]_vars
  PROVE  \A i \in Ids : mem'[i].at = mem[i].at /\ mem'[i].src = mem[i].src
<1>0. Tables /\ Shape
  BY DEF TypeInv
<1>1. CASE UNCHANGED mem
  BY <1>1
<1>2. CASE Withdraw
  <2>1. PICK i \in Ids, st \in {"archived", "gone"} : mem' = [mem EXCEPT ![i].st = st]
    BY <1>2, WithdrawDoes
  <2> QED
    BY <1>0, <2>1 DEF Tables, Memory
<1>3. CASE Edit
  <2>1. PICK i \in Ids : mem' = [mem EXCEPT ![i].model = "new", ![i].edited = TRUE]
    BY <1>3, EditDoes
  <2> QED
    BY <1>0, <2>1 DEF Tables, Memory
<1>4. ASSUME NEW r, CommitBatch(r) PROVE \A i \in Ids : mem'[i].at = mem[i].at /\ mem'[i].src = mem[i].src
  <2>1. r \in Deliveries
    BY <1>4 DEF CommitBatch, At
  <2> QED
    BY <1>0, <1>1, <1>4, <2>1, CommitBatchDoes DEF Tables, Memory
<1>5. ASSUME NEW r, ApplyUsers(r) PROVE \A i \in Ids : mem'[i].at = mem[i].at /\ mem'[i].src = mem[i].src
  <2>1. r \in Deliveries
    BY <1>5 DEF ApplyUsers, At
  <2>2. mem' = [i \in Ids |-> IF i \in run[r].batch /\ Eligible("users", i)
                              THEN [mem[i] EXCEPT !.owner = mem[i].user] ELSE mem[i]]
    BY <1>0, <1>5, <2>1, ApplyUsersDoes
  <2> QED
    BY <1>0, <2>2 DEF Tables, Memory
<1>6. ASSUME NEW r, NextOf(r), ~CommitBatch(r), ~ApplyUsers(r) PROVE UNCHANGED mem
  BY <1>6 DEF NextOf, Acquire, ReadCursor, OpenJob, Pause, Select, Look, Carry, Mark, ReadLedger, ApplyLedger,
         Note, Finish, Clear, Release, Die, Activate, Ask, Same, tables
<1>7. CASE Record \/ (\E t \in Locked : Lapse(t)) \/ (\E o \in orders : Deliver(o)) \/ UNCHANGED vars
  BY <1>1, <1>7 DEF Record, Lapse, Deliver, Same, tables, vars
<1> QED
  BY <1>1, <1>2, <1>3, <1>4, <1>5, <1>6, <1>7 DEF Next, NextOf

\* A backfill of a Passport comes to its commit by reading the ledger.
LEMMA CommitAfterRead ==
  ASSUME TypeInv, NEW r \in Deliveries, NextOf(r), Task(r) = "passport", run'[r].pc = "commit"
  PROVE  ReadLedger(r)
<1>0. Shape /\ Delivery(r)
  BY DEF TypeInv
<1>1. CASE Acquire(r) \/ ReadCursor(r) \/ OpenJob(r) \/ Select(r) \/ Note(r) \/ Finish(r) \/ Die(r)
  BY <1>0, <1>1, AcquireDoes, ReadCursorDoes, OpenJobDoes, SelectDoes, NoteDoes, FinishDoes, DieDoes
<1>2. CASE Pause(r)
  BY <1>0, <1>2 DEF Pause, At, Same
<1>3. CASE Look(r) \/ Carry(r) \/ Mark(r) \/ CommitBatch(r)
  <2>1. run[r].pc \in RowPcs \/ Task(r) = "embed"
    BY <1>0, <1>3, LookDoes, CarryDoes, MarkDoes, CommitBatchDoes DEF RowPcs
  <2> QED
    BY <1>0, <2>1 DEF Delivery
<1>4. CASE ApplyLedger(r) \/ ApplyUsers(r)
  BY <1>0, <1>4, ApplyLedgerDoes, ApplyUsersDoes DEF Noted, Fails
<1>5. CASE Clear(r) \/ Release(r)
  BY <1>0, <1>5, ClearDoes, ReleaseDoes DEF Fails
<1>6. CASE Activate(r) \/ Ask(r)
  BY <1>0, <1>6, ModelDoes DEF ModelPcs
<1> QED
  BY <1>1, <1>2, <1>3, <1>4, <1>5, <1>6 DEF NextOf

\* Once somebody wrote to the Passport, or the lock lapsed, that stays so.
LEMMA StaysDisturbed ==
  ASSUME TypeInv, LedgerInv, \A o \in orders : OrderOf(o), [Next]_vars, Undisturbed'
  PROVE  Undisturbed /\ (\A i \in Ids : mem'[i].st = "live") /\ ~Record
<1>0. UNCHANGED script /\ Deliveries' = Deliveries /\ (\A r : Task(r)' = Task(r)) /\ Shape
  BY TypeStep, Fixed DEF TypeInv
<1>1. ~claim'.live /\ ~lapsed' /\ (\A i \in Ids : mem'[i].st = "live") /\ \E r \in Deliveries : Task(r) = "passport"
  BY <1>0 DEF Undisturbed
<1>2. \A i \in Ids : mem[i].st = "live"
  BY <1>1, OnlyForward DEF Forward
<1>3. ~Record
  BY <1>1 DEF Record
<1>4. ~claim.live
  <2>1. ASSUME NEW r, NextOf(r) PROVE claim'.live = claim.live
    <3>1. r \in Deliveries
      BY <1>0, <2>1, Moves DEF Alone
    <3> QED
      BY <1>0, <2>1, <3>1, ClaimMoves, MergedIs
  <2>2. CASE WorldNext \/ UNCHANGED vars
    <3>1. UNCHANGED claim
      BY <1>3, <2>2 DEF WorldNext, Lapse, Withdraw, Edit, Deliver, Same, tables, vars
    <3> QED
      BY <1>1, <3>1
  <2> QED
    BY <1>1, <2>1, <2>2 DEF Next, NextOf, WorldNext
<1>5. ~lapsed
  <2>1. ASSUME NEW r, NextOf(r) PROVE UNCHANGED lapsed
    BY <2>1 DEF NextOf, Acquire, ReadCursor, OpenJob, Pause, Select, Look, Carry, Mark, CommitBatch, ReadLedger,
         ApplyLedger, ApplyUsers, Note, Finish, Clear, Release, Die, Activate, Ask, Same
  <2>2. CASE WorldNext \/ UNCHANGED vars
    BY <1>1, <2>2 DEF WorldNext, Lapse, Withdraw, Edit, Record, Deliver, Same, vars
  <2> QED
    BY <1>1, <2>1, <2>2 DEF Next, NextOf, WorldNext
<1> QED
  BY <1>1, <1>2, <1>3, <1>4, <1>5 DEF Undisturbed

\* The commit of a batch that read the claim as it still is gives it to the best row written.
LEMMA CommitBest ==
  ASSUME TypeInv, LedgerInv, OnceInv, WinnerInv, Undisturbed, NEW r \in Deliveries, Task(r) = "passport",
         run[r].pc = "commit"
  PROVE  LET V == Written \cup Unwritten(r) IN IF V = {} THEN Merged(r) = NoClaim ELSE Best(Merged(r), V)
<1>0. Tables /\ Delivery(r) /\ ClaimShape(claim) /\ ~claim.live /\ ~lapsed /\ \A i \in Ids : mem[i].st = "live"
  BY DEF TypeInv, LedgerInv, Undisturbed
<1>1. run[r].claim = claim /\ IF Written = {} THEN claim = NoClaim ELSE Best(claim, Written)
  BY DEF WinnerInv
<1>2. run[r].known = Written
  BY <1>0 DEF OnceInv, Holder, Locked, Written
<1>3. Written \in SUBSET Ids /\ Unwritten(r) \in SUBSET Ids
  BY <1>0 DEF Written, Unwritten, Delivery
<1>4. CASE Unwritten(r) = {}
  <2>1. Folded(r) = run[r].claim
    BY <1>4 DEF Folded
  <2>2. Merged(r) = claim /\ Written \cup Unwritten(r) = Written
    BY <1>4, <2>1, MergedIs
  <2> QED
    BY <1>1, <2>2
<1>5. CASE Unwritten(r) # {}
  <2> DEFINE a == Begun(r)
             V == Written \cup Unwritten(r)
             z == Walk(a, Unwritten(r))[Cardinality(Unwritten(r))].at
  <2>1. Folded(r) = z.claim
    BY <1>0, <1>1, <1>5 DEF Folded, Managed
  <2>2. a.claim = claim /\ (claim.win # 0 => a.by = claim.win)
    BY <1>1 DEF Begun
  <2> HIDE DEF a
  <2>3. Stage(a, Written)
    <3>1. CASE Written = {}
      BY <1>1, <2>2, <3>1 DEF Stage
    <3>2. CASE Written # {}
      <4>1. Best(claim, Written) /\ claim.win \in Ids
        BY <1>1, <1>3, <3>2 DEF Best
      <4>2. claim.win # 0
        BY <4>1, IdsFinite
      <4> QED
        BY <2>2, <3>2, <4>1, <4>2 DEF Stage
    <3> QED
      BY <3>1, <3>2
  <2>4. Stage(z, V)
    BY <1>0, <1>3, <2>2, <2>3, WalkBest
  <2> HIDE DEF z
  <2>5. Best(z.claim, V) /\ V # {}
    BY <1>5, <2>4 DEF Stage
  <2>6. \A f \in ClaimFields : Merged(r)[f] = z.claim[f]
    BY <1>1, <2>1, MergedIs
  <2>7. Merged(r).st = z.claim.st /\ Merged(r).win = z.claim.win
    BY <2>6 DEF ClaimFields
  <2>8. Best(Merged(r), V)
    BY <2>5, <2>7 DEF Best
  <2> QED
    BY <2>5, <2>8
<1> QED
  BY <1>4, <1>5

LEMMA WinnerStep ==
  ASSUME TypeInv, LedgerInv, OnceInv, VectorsInv, WinnerInv, [Next]_vars
  PROVE  WinnerInv'
<1>0. UNCHANGED script /\ Deliveries' = Deliveries /\ (\A r : Task(r)' = Task(r)) /\ Shape /\ Tables
  BY TypeStep, Fixed DEF TypeInv
<1> SUFFICES ASSUME Undisturbed' PROVE /\ IF Written' = {} THEN claim' = NoClaim ELSE Best(claim, Written)'
                                       /\ \A r \in Deliveries : Task(r) = "passport" /\ run'[r].pc = "commit"
                                            => run'[r].claim = claim'
  BY <1>0 DEF WinnerInv
<1>1. Undisturbed /\ (\A i \in Ids : mem'[i].st = "live") /\ ~Record
  BY StaysDisturbed DEF VectorsInv
<1>2. /\ IF Written = {} THEN claim = NoClaim ELSE Best(claim, Written)
      /\ \A r \in Deliveries : Task(r) = "passport" /\ run[r].pc = "commit" => run[r].claim = claim
  BY <1>1 DEF WinnerInv
<1>3. \A i \in Ids : mem'[i].at = mem[i].at /\ mem'[i].src = mem[i].src
  BY DatesStay
<1>4. Written \in SUBSET Ids
  BY DEF Written
<1>5. ASSUME UNCHANGED <<claim, revs>>
      PROVE  IF Written' = {} THEN claim' = NoClaim ELSE Best(claim, Written)'
  <2>1. Written' = Written
    BY <1>5 DEF Written
  <2> QED
    BY <1>2, <1>3, <1>4, <1>5, <2>1 DEF Best
<1>6. ASSUME NEW r, NextOf(r)
      PROVE  /\ IF Written' = {} THEN claim' = NoClaim ELSE Best(claim, Written)'
             /\ \A s \in Deliveries : Task(s) = "passport" /\ run'[s].pc = "commit" => run'[s].claim = claim'
  <2>1. r \in Deliveries /\ (\A s \in Deliveries : s # r => run'[s] = run[s])
    BY <1>0, <1>6, Moves DEF Alone
  <2>2. ASSUME UNCHANGED claim, NEW s \in Deliveries, Task(s) = "passport", run'[s].pc = "commit"
        PROVE  run'[s].claim = claim'
    <3>1. CASE s # r
      BY <1>2, <2>1, <2>2, <3>1
    <3>2. CASE s = r
      <4>1. ReadLedger(r)
        BY <1>6, <2>1, <2>2, <3>2, CommitAfterRead
      <4>2. run'[r].claim = claim
        BY <1>0, <2>1, <4>1 DEF ReadLedger, Shape, Fields
      <4> QED
        BY <2>2, <3>2, <4>2
    <3> QED
      BY <3>1, <3>2
  <2>3. CASE ApplyLedger(r) /\ ~Clash(r)
    <3>1. /\ claim' = Merged(r) /\ UNCHANGED mem /\ run[r].pc = "commit" /\ Task(r) \in Locked
          /\ revs' = [i \in Ids |-> IF i \in Unwritten(r) THEN revs[i] + 1 ELSE revs[i]]
      BY <2>3 DEF ApplyLedger, At, Same
    <3>2. run'[r].pc = "note"
      BY <1>0, <2>1, <2>3 DEF ApplyLedger, Shape, Fields
    <3>3. PICK p \in Deliveries : Task(p) = "passport"
      BY <1>1 DEF Undisturbed
    <3>4. Task(r) = "passport"
      BY <1>0, <2>1, <3>1, <3>3, Static DEF Shape, Locked
    <3>5. Written' = Written \cup Unwritten(r)
      <4>1. Unwritten(r) \subseteq Ids /\ \A i \in Ids : revs[i] \in Nat
        BY <1>0, <2>1 DEF Unwritten, TypeInv, Delivery, Tables
      <4>2. \A i \in Ids : revs'[i] # 0 <=> revs[i] # 0 \/ i \in Unwritten(r)
        BY <3>1, <4>1
      <4> QED
        BY <4>1, <4>2 DEF Written
    <3>6. IF Written' = {} THEN claim' = NoClaim ELSE Best(Merged(r), Written \cup Unwritten(r))
      BY <1>1, <2>1, <3>1, <3>4, <3>5, CommitBest
    <3>7. Best(Merged(r), Written \cup Unwritten(r)) => Best(claim, Written)'
      BY <3>1, <3>5 DEF Best
    <3>8. ASSUME NEW s \in Deliveries, Task(s) = "passport", run'[s].pc = "commit" PROVE FALSE
      <4>1. s # r /\ run[s].pc = "commit"
        BY <2>1, <3>2, <3>8
      <4>2. ~lapsed
        BY <1>1 DEF Undisturbed
      <4>3. lock[Task(s)] = s /\ lock[Task(r)] = r
        BY <2>1, <3>1, <3>4, <3>8, <4>1, <4>2 DEF OnceInv, Holder, LockedPcs, Locked
      <4> QED
        BY <3>4, <3>8, <4>1, <4>3
    <3> QED
      BY <3>6, <3>7, <3>8
  <2>4. CASE ~(ApplyLedger(r) /\ ~Clash(r))
    <3>1. UNCHANGED claim
      BY <1>0, <1>6, <2>1, <2>4, ClaimMoves
    <3>2. UNCHANGED revs
      <4>1. CASE ApplyLedger(r)
        BY <2>4, <4>1 DEF ApplyLedger
      <4>2. CASE ~ApplyLedger(r)
        BY <1>6, <4>2 DEF NextOf, Acquire, ReadCursor, OpenJob, Pause, Select, Look, Carry, Mark, CommitBatch,
         ReadLedger, ApplyUsers, Note, Finish, Clear, Release, Die, Activate, Ask, Same, tables
      <4> QED
        BY <4>1, <4>2
    <3> QED
      BY <1>5, <2>2, <3>1, <3>2
  <2> QED
    BY <2>3, <2>4
<1>7. CASE WorldNext \/ UNCHANGED vars
  <2>1. UNCHANGED <<run, claim, revs>>
    BY <1>1, <1>7 DEF WorldNext, Lapse, Withdraw, Edit, Deliver, Same, tables, vars
  <2> QED
    BY <1>2, <1>5, <2>1
<1> QED
  BY <1>6, <1>7 DEF Next, NextOf, WorldNext

\* As long as nobody writes to a Passport beside its backfill and the lock holds, the claim is that
\* of the best row written so far, and the batch that is to be committed has read it as it is.
THEOREM WinnerInvariant == Spec => []WinnerInv
<1>1. Init => WinnerInv
  <2> SUFFICES ASSUME Init, Undisturbed PROVE Written = {} /\ claim = NoClaim /\ \A r \in Deliveries : run[r].pc = "new"
    BY DEF WinnerInv
  <2>1. script \in DOMAIN Scripts /\ claim = Scripts[script].claim
    BY DEF Init
  <2>2. claim = NoClaim
    BY <2>1, MaintenanceAssumption DEF Undisturbed
  <2>3. \A i \in Ids : revs[i] = 0
    BY DEF Init
  <2>4. \A r \in Deliveries : run[r].pc = "new"
    BY DEF Init, Fresh
  <2> QED
    BY <2>2, <2>3, <2>4 DEF Written
<1> QED
  BY <1>1, WinnerStep, TypeInvariant, LedgerInvariant, OnceInvariant, VectorsInvariant, PTL DEF Spec

\* UUID scan order cannot choose the winner: the backfill of a Passport that is complete has given
\* the claim to the user's correction, or else to the newest memory, for any number of memories, any
\* dates, any batch size and any deliveries that failed or died before it.
THEOREM NewestWon == Spec => []NewestWins
<1>1. TypeInv /\ VectorsInv /\ BehindInv /\ WinnerInv => NewestWins
  <2> DEFINE best == {i \in Ids : mem[i].src = "user_correction"}
             from == IF best = {} THEN Ids ELSE best
  <2> SUFFICES ASSUME TypeInv, VectorsInv, BehindInv, WinnerInv, NEW r \in Deliveries,
                      Task(r) = "passport", run[r].end = "complete", run[r].from = 0, ~Asked[r].dry,
                      ~claim.live, ~lapsed, \A i \in Ids : mem[i].st = "live", Cardinality(best) <= 1,
                      NEW i \in from
               PROVE  mem[i].at <= mem[claim.win].at /\ claim.win \in from
    BY DEF NewestWins
  <2>1. \A k \in Ids : ~Eligible("passport", k)
    BY DEF BehindInv, Behind, FromStart, Counts, Tasks, Backfills
  <2>2. Written = Ids
    BY <2>1 DEF Written, Eligible
  <2>3. i \in Ids /\ \A k \in Ids : mem[k].at \in Nat
    BY DEF TypeInv, Tables, Memory
  <2>4. Best(claim, Ids)
    BY <2>2, <2>3 DEF WinnerInv, Undisturbed
  <2>5. CASE best = {}
    BY <2>3, <2>4, <2>5 DEF Best
  <2>6. CASE best # {}
    <3>1. i \in best /\ claim.win \in best
      BY <2>3, <2>4, <2>6 DEF Best
    <3>2. IsFiniteSet(best)
      BY IdsFinite, FS_Subset
    <3>3. i = claim.win
      <4>1. Cardinality(best) \in Nat
        BY <3>2, FS_CardinalityType
      <4> HIDE DEF best
      <4>2. Cardinality(best \ {i}) = Cardinality(best) - 1 /\ IsFiniteSet(best \ {i})
        BY <3>1, <3>2, FS_RemoveElement
      <4>3. Cardinality(best \ {i}) \in Nat
        BY <4>2, FS_CardinalityType
      <4>4. Cardinality(best \ {i}) = 0
        BY <4>1, <4>2, <4>3
      <4>5. best \ {i} = {}
        BY <4>2, <4>4, FS_EmptySet
      <4> QED
        BY <3>1, <4>5
    <3> QED
      BY <2>3, <2>6, <3>1, <3>3
  <2> QED
    BY <2>5, <2>6
<1> QED
  BY <1>1, WinnerInvariant, BehindInvariant, VectorsInvariant, TypeInvariant, PTL
=============================================================================
