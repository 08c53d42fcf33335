----------------------- MODULE MemoryExtractionProofs -----------------------
(***************************************************************************)
(* What holds of the proposals of a conversation for any number of         *)
(* requests, workers, proposals and turns, whatever the model answers.     *)
(***************************************************************************)
EXTENDS MemoryExtraction, FiniteSetTheorems, WellFoundedInduction, TLAPS

-----------------------------------------------------------------------------
(* The inductive invariant of the registry and its row locks.              *)

WorkFields == {"pc", "job", "ctx", "vis", "kept", "pending", "decision", "clar", "blank", "won", "known"}
Locking == {"claim", "cancel", "commit"}

Shape ==
  /\ DOMAIN work = Workers /\ \A w \in Workers : DOMAIN work[w] = WorkFields
  /\ DOMAIN req = Jobs /\ \A j \in Jobs : DOMAIN req[j] = {"pc", "seen", "old"}
  /\ DOMAIN prop = Proposals /\ \A p \in Proposals : DOMAIN prop[p] = {"st", "job", "ord", "late"}
  /\ DOMAIN taken = Proposals

\* A row has its job from the request that registered it, and a request registers once.
Registered ==
  \A p \in Proposals :
    /\ prop[p].st = None \/ prop[p].job \in Jobs
    /\ prop[p].st = None => prop[p].job = 0
    /\ \A j \in Jobs : prop[p].job = j => req[j].pc = "done"

\* Who has locked the user's row is alone with it, and what it replaces is what is open.
UserHeld ==
  /\ \A i, j \in Jobs : req[i].pc \in {"flushed", "locked", "replacing"} /\ req[j].pc \in {"locked", "replacing"}
                        => i = j
  /\ \A j \in Jobs : req[j].pc = "replacing" =>
       req[j].old = {p \in Proposals : prop[p].st = "active" /\ prop[p].job # j}

\* A worker claims one open proposal, and no row is held by two transactions.
RowsHeld ==
  /\ \A w \in Workers :
       /\ work[w].pc \notin Locking => work[w].won = {}
       /\ \A p \in work[w].won : p \in Proposals /\ prop[p].st = "active"
       /\ \A p, q \in work[w].won : p = q
  /\ \A v, w \in Workers : v # w => HeldByWorker(v) \cap HeldByWorker(w) = {}
  /\ \A w \in Workers : \A j \in Jobs : HeldByWorker(w) \cap HeldByRequest(j) = {}

\* A group that has an accepted proposal has no open one.
Closed == \A p, q \in Proposals : prop[p].st = "accepted" /\ prop[q].st = "active" => prop[p].job # prop[q].job

\* A group is open as a whole, and its hour is over for all of it.
Whole == \A p, q \in Proposals :
  prop[p].st = "active" /\ prop[q].job = prop[p].job => prop[q].st = "active" /\ prop[q].late = prop[p].late

RegistryInv == Shape /\ Registered /\ UserHeld /\ RowsHeld /\ Closed /\ Whole /\ ProposalsOnce

-----------------------------------------------------------------------------
(* The inductive invariant of what a worker carries.                       *)

\* What is said does not change.
Conversation == \E c \in Conversations : sent = c.sent /\ said = c.said /\ domain = c.domain

\* A row that the user answered.
Backed(j, p) == p \in Proposals /\ prop[p].st # None /\ Answered(j, p)

Items(f) == f.kept \cup f.pending
ItemShape(i) == DOMAIN i = {"turn", "prop", "doubt", "pass"} /\ i.prop \in Proposals \cup {None}
\* The user's own words, in a turn that was shown to the model.
Quoted(j, vis, i) == i.turn # None /\ ~said[i.turn].question /\ \E h \in vis : sent[j][h] = i.turn

\* The context of a run is a whole group of registered rows.
Group(ctx) ==
  /\ \A p \in ctx : p \in Proposals /\ prop[p].st # None
  /\ \A p \in ctx : \A q \in Proposals : prop[q].job = prop[p].job => q \in ctx
Context(f) == (f.pc # "idle" => f.job \in Jobs) /\ Group(f.ctx)
\* Whatever will be stored of a proposal, the user answered.
Carries(f) ==
  /\ \A i \in Items(f) : ItemShape(i)
  /\ \A i \in f.kept : i.prop # None => Backed(f.job, i.prop)
  /\ \A i \in f.pending : i.prop # None /\ i.doubt => Backed(f.job, i.prop)
  /\ \A p \in f.won : Backed(f.job, p)
\* What the calls found.
Calls(f) ==
  /\ f.pc \in {"primary", "repair"} => f.kept = {} /\ f.pending = {}
  /\ f.pc \in {"primary", "repair", "recover"} => f.vis \subseteq Positions(f.job)
  /\ f.pc \in {"recover", "persist"} => \A i \in Items(f) :
       i.prop = None /\ ~Source[f.job] => Quoted(f.job, f.vis, i)
  /\ f.pc \in {"recover", "persist"} /\ ~domain => ~f.blank
  /\ f.pc = "primary" => ~f.blank /\ f.decision = None
Final(f) ==
  f.decision \in {"rejected", "ambiguous", "unrelated"} =>
    /\ f.pc # "recover"
    /\ \A i \in Items(f) : i.prop = None /\ i.pass # "recovery"

RunInv(f) == Context(f) /\ Carries(f) /\ Calls(f) /\ Final(f)
WordsInv ==
  /\ Conversation
  /\ \A w \in Workers : RunInv(work[w])
  /\ DOMAIN saved = Jobs /\ \A j \in Jobs : \A p \in saved[j] : Backed(j, p)

-----------------------------------------------------------------------------
(* Steps of a worker that claim nothing.                                   *)

\* A step of w that leaves it without a claim.
Quiet(w) ==
  /\ \E f : work' = [work EXCEPT ![w] = f] /\ DOMAIN f = WorkFields /\ f.won = {}
  /\ UNCHANGED <<prop, req, taken>>

LEMMA QuietInv ==
  ASSUME RegistryInv, NEW w \in Workers, Quiet(w)
  PROVE  RegistryInv'
<1>1. PICK f : work' = [work EXCEPT ![w] = f] /\ DOMAIN f = WorkFields /\ f.won = {}
  BY DEF Quiet
<1>2. UNCHANGED <<prop, req, taken>>
  BY DEF Quiet
<1>3. work'[w] = f /\ (\A v \in Workers : v # w => work'[v] = work[v]) /\ DOMAIN work' = Workers
  BY <1>1 DEF RegistryInv, Shape
<1>4. HeldByWorker(w)' = {} /\ \A v \in Workers : v # w => HeldByWorker(v)' = HeldByWorker(v)
  BY <1>1, <1>2, <1>3 DEF HeldByWorker, Sibling
<1>5. \A j \in Jobs : HeldByRequest(j)' = HeldByRequest(j)
  BY <1>2 DEF HeldByRequest
<1>6. RowsHeld'
  BY <1>1, <1>2, <1>3, <1>4, <1>5 DEF RegistryInv, RowsHeld
<1>7. Shape'
  BY <1>1, <1>2, <1>3 DEF RegistryInv, Shape
<1>8. (Registered /\ UserHeld /\ Closed /\ Whole /\ ProposalsOnce)'
  BY <1>2 DEF RegistryInv, Registered, UserHeld, Closed, Whole, ProposalsOnce, OneWindow, StoredOnce
<1> QED
  BY <1>6, <1>7, <1>8 DEF RegistryInv

LEMMA IdleFields == DOMAIN Idle = WorkFields /\ Idle.won = {} /\ Idle.pc = "idle"
  BY DEF Idle, WorkFields

LEMMA FailQuiet ==
  ASSUME NEW w, Keep(w, Idle), UNCHANGED <<prop, req, taken>>
  PROVE  Quiet(w)
  BY IdleFields DEF Keep, Quiet

\* After a call has been answered nothing is claimed.
LEMMA AfterFields ==
  ASSUME NEW f, DOMAIN f = WorkFields, f.won = {}
  PROVE  DOMAIN After(f) = WorkFields /\ After(f).won = {}
  BY DEF After, WorkFields

LEMMA ErrorQuiet ==
  ASSUME RegistryInv, NEW w \in Workers, work[w].pc \notin Locking, ExtractionError(w), UNCHANGED <<prop, req, taken>>
  PROVE  Quiet(w)
<1> DEFINE g == [work[w] EXCEPT !.pc = "persist", !.kept = {}, !.pending = {}]
<1>1. DOMAIN g = WorkFields /\ g.won = {}
  BY DEF RegistryInv, Shape, RowsHeld, WorkFields
<1>2. Keep(w, g) \/ Keep(w, Idle)
  BY DEF ExtractionError, Fail
<1> QED
  BY <1>1, <1>2, IdleFields DEF Keep, Quiet

LEMMA CallsQuiet ==
  ASSUME RegistryInv, NEW w \in Workers, Primary(w) \/ Repair(w) \/ Recover(w) \/ Outage(w)
  PROVE  Quiet(w)
<1>0. UNCHANGED <<prop, req, taken>>
  BY DEF Primary, Repair, Recover, Outage, Local
<1>1. work[w].pc \in {"primary", "repair", "recover"} /\ work[w].won = {} /\ DOMAIN work[w] = WorkFields
  <2>1. work[w].pc \in {"primary", "repair", "recover"}
    BY DEF Primary, Repair, Recover, Outage
  <2> QED
    BY <2>1 DEF RegistryInv, Shape, RowsHeld, Locking
<1>2. CASE Primary(w)
  <2> DEFINE j == work[w].job
             Res(a, vis) == Resolution(j, vis, work[w].ctx, a)
             Par(a, vis) == Parsed(j, vis, work[w].ctx, Considered(a, Res(a, vis)), "primary")
             Tak(a, vis) == IF Res(a, vis).memory = None THEN {}
                            ELSE {[turn |-> None, prop |-> Res(a, vis).memory, doubt |-> FALSE,
                                   pass |-> "primary"]}
             Found(a, vis) == [work[w] EXCEPT !.vis = vis, !.kept = Par(a, vis).kept \cup Tak(a, vis),
                       !.pending = Par(a, vis).pending, !.decision = Res(a, vis).decision,
                       !.clar = Clarified(j, vis, a), !.blank = Inconsistent(a)]
             Bare(g) == g.kept = {} /\ g.pending = {} /\ ~g.clar
             Asks(a, g) == Bare(g) /\ (Inconsistent(a) \/ (a.clar # 0 /\ ~Source[j]))
  <2>1. PICK a \in Answers[j], vis \in Cuts[j] :
          \E g \in {Found(a, vis)} :
            IF Bare(g) /\ Inconsistent(a) /\ Source[j] THEN ExtractionError(w)
            ELSE /\ Keep(w, IF Asks(a, g) THEN [g EXCEPT !.pc = "repair"] ELSE After(g))
                 /\ UNCHANGED job
    BY <1>2, Zenon DEF Primary
  <2> DEFINE kept == Par(a, vis).kept \cup Tak(a, vis)
             pending == Par(a, vis).pending
             decision == Res(a, vis).decision
             clar == Clarified(j, vis, a)
             blank == Inconsistent(a)
             c == Asks(a, Found(a, vis))
  <2>2. LET found == [work[w] EXCEPT !.vis = vis, !.kept = kept, !.pending = pending,
                            !.decision = decision, !.clar = clar, !.blank = blank]
            IN \/ ExtractionError(w)
               \/ Keep(w, IF c THEN [found EXCEPT !.pc = "repair"] ELSE After(found))
    BY <2>1, Zenon
  <2> HIDE DEF kept, pending, decision, clar, blank, c
  <2> DEFINE found == [work[w] EXCEPT !.vis = vis, !.kept = kept, !.pending = pending,
                            !.decision = decision, !.clar = clar, !.blank = blank]
             g == IF c THEN [found EXCEPT !.pc = "repair"] ELSE After(found)
  <2>3. DOMAIN found = WorkFields /\ found.won = {}
    BY <1>1 DEF WorkFields
  <2> HIDE DEF found
  <2>4. DOMAIN g = WorkFields /\ g.won = {}
    BY <2>3, AfterFields DEF WorkFields
  <2>5. ExtractionError(w) \/ Keep(w, g)
    BY <2>2 DEF found
  <2> QED
    BY <1>0, <1>1, <2>4, <2>5, ErrorQuiet DEF Keep, Quiet, Locking
<1>3. CASE Repair(w)
  <2>1. PICK kept, pending :
            LET found == [work[w] EXCEPT !.kept = kept, !.pending = pending, !.blank = FALSE]
            IN ExtractionError(w) \/ Keep(w, After(found))
    BY <1>3 DEF Repair
  <2> DEFINE found == [work[w] EXCEPT !.kept = kept, !.pending = pending, !.blank = FALSE]
  <2>3. DOMAIN found = WorkFields /\ found.won = {}
    BY <1>1 DEF WorkFields
  <2>5. ExtractionError(w) \/ Keep(w, After(found))
    BY <2>1
  <2> HIDE DEF found
  <2>4. DOMAIN After(found) = WorkFields /\ After(found).won = {}
    BY <2>3, AfterFields
  <2> QED
    BY <1>0, <1>1, <2>4, <2>5, ErrorQuiet DEF Keep, Quiet, Locking
<1>4. CASE Recover(w)
  <2>1. PICK kept, pending : Keep(w, [work[w] EXCEPT !.pc = "persist", !.kept = kept, !.pending = pending])
    BY <1>4 DEF Recover
  <2> DEFINE g == [work[w] EXCEPT !.pc = "persist", !.kept = kept, !.pending = pending]
  <2>2. DOMAIN g = WorkFields /\ g.won = {}
    BY <1>1 DEF WorkFields
  <2> QED
    BY <1>0, <2>1, <2>2 DEF Keep, Quiet
<1>5. CASE Outage(w)
  <2> DEFINE g == [work[w] EXCEPT !.pc = "persist"]
  <2>1. ExtractionError(w) \/ Keep(w, g)
    BY <1>5 DEF Outage
  <2>2. DOMAIN g = WorkFields /\ g.won = {}
    BY <1>1 DEF WorkFields
  <2> QED
    BY <1>0, <1>1, <2>1, <2>2, ErrorQuiet DEF Keep, Quiet, Locking
<1> QED
  BY <1>2, <1>3, <1>4, <1>5

LEMMA EndsQuiet ==
  ASSUME RegistryInv, NEW w \in Workers,
         \/ \E j \in Jobs : Begin(w, j)
         \/ Persist(w) \/ Finish(w) \/ Crash(w) \/ Victim(w)
  PROVE  Quiet(w)
<1>0. UNCHANGED <<prop, req, taken>>
  BY DEF Begin, Persist, Finish, Crash, Victim, Local
<1>1. ASSUME NEW j \in Jobs, Begin(w, j) PROVE Quiet(w)
  <2>1. PICK c, p : Keep(w, [Idle EXCEPT !.job = j, !.ctx = c, !.pc = p])
    BY <1>1 DEF Begin
  <2> DEFINE g == [Idle EXCEPT !.job = j, !.ctx = c, !.pc = p]
  <2>2. DOMAIN g = WorkFields /\ g.won = {}
    BY IdleFields DEF WorkFields
  <2> QED
    BY <1>0, <2>1, <2>2 DEF Keep, Quiet
<1>2. CASE Persist(w)
  <2>1. PICK i, k, n, o : Keep(w, [Idle EXCEPT !.job = i, !.pc = "claim", !.kept = k, !.pending = n, !.known = o])
    BY <1>2 DEF Persist
  <2> DEFINE g == [Idle EXCEPT !.job = i, !.pc = "claim", !.kept = k, !.pending = n, !.known = o]
  <2>2. DOMAIN g = WorkFields /\ g.won = {}
    BY IdleFields DEF WorkFields
  <2> QED
    BY <1>0, <2>1, <2>2 DEF Keep, Quiet
<1>3. CASE Finish(w) \/ Crash(w) \/ Victim(w)
  <2>1. Keep(w, Idle)
    BY <1>3 DEF Finish, Crash, Victim, Fail
  <2> QED
    BY <1>0, <2>1, FailQuiet
<1> QED
  BY <1>1, <1>2, <1>3
-----------------------------------------------------------------------------
(* Claims.                                                                 *)

\* A step of w that changes no row and takes only rows that are free.
LEMMA ClaimingInv ==
  ASSUME RegistryInv, NEW w \in Workers, UNCHANGED <<prop, req, taken>>,
         NEW f, work' = [work EXCEPT ![w] = f], DOMAIN f = WorkFields,
         f.pc \notin Locking => f.won = {},
         \A p \in f.won : p \in Proposals /\ prop[p].st = "active",
         \A p, q \in f.won : p = q,
         \A p \in HeldByWorker(w)' : p \in HeldByWorker(w) \/ Free(w, p)
  PROVE  RegistryInv'
<1>1. work'[w] = f /\ (\A v \in Workers : v # w => work'[v] = work[v]) /\ DOMAIN work' = Workers
  BY DEF RegistryInv, Shape
<1>2. \A v \in Workers : v # w => HeldByWorker(v)' = HeldByWorker(v)
  BY <1>1 DEF HeldByWorker, Sibling
<1>3. \A j \in Jobs : HeldByRequest(j)' = HeldByRequest(j)
  BY DEF HeldByRequest
<1>4. \A v \in Workers : v # w => HeldByWorker(v)' \cap HeldByWorker(w)' = {}
  BY <1>2 DEF RegistryInv, RowsHeld, Free
<1>5. \A j \in Jobs : HeldByWorker(w)' \cap HeldByRequest(j)' = {}
  BY <1>3 DEF RegistryInv, RowsHeld, Free
<1>6. /\ \A u, v \in Workers : u # v => HeldByWorker(u)' \cap HeldByWorker(v)' = {}
      /\ \A v \in Workers : \A j \in Jobs : HeldByWorker(v)' \cap HeldByRequest(j)' = {}
  BY <1>2, <1>3, <1>4, <1>5 DEF RegistryInv, RowsHeld
<1>7. RowsHeld'
  <2>1. \A v \in Workers :
          /\ work'[v].pc \notin Locking => work'[v].won = {}
          /\ \A p \in work'[v].won : p \in Proposals /\ prop'[p].st = "active"
          /\ \A p, q \in work'[v].won : p = q
    BY <1>1 DEF RegistryInv, RowsHeld
  <2> QED
    BY <1>6, <2>1 DEF RowsHeld
<1>8. Shape'
  BY <1>1 DEF RegistryInv, Shape
<1>9. (Registered /\ UserHeld /\ Closed /\ Whole /\ ProposalsOnce)'
  BY DEF RegistryInv, Registered, UserHeld, Closed, Whole, ProposalsOnce, OneWindow, StoredOnce
<1> QED
  BY <1>7, <1>8, <1>9 DEF RegistryInv

\* A claim takes an open proposal of which no sibling is claimed; a stale one is dropped.
LEMMA ClaimInv ==
  ASSUME RegistryInv, WordsInv, NEW w \in Workers, Claim(w)
  PROVE  RegistryInv'
<1>0. UNCHANGED <<prop, req, taken>> /\ work[w].pc = "claim" /\ DOMAIN work[w] = WorkFields
  BY DEF Claim, Local, RegistryInv, Shape
<1>1. PICK p \in Unclaimed(w) :
       /\ Free(w, p)
       /\ Keep(w, IF Active(p) /\ \A q \in work[w].won : ~Sibling(p, q)
                  THEN [work[w] EXCEPT !.won = @ \cup {p}, !.pc = "cancel"]
                  ELSE [work[w] EXCEPT !.kept = {i \in @ : i.prop # p}])
  BY DEF Claim
<1>4. p \in Proposals /\ p \notin work[w].won
  <2>1. PICK i \in work[w].kept : p = i.prop /\ p # None /\ p \notin work[w].won
    BY DEF Unclaimed, Confirmed
  <2> QED
    BY <2>1 DEF WordsInv, RunInv, Carries, Items, ItemShape
<1>2. CASE Active(p) /\ (\A q \in work[w].won : ~Sibling(p, q))
  <2> DEFINE g == [work[w] EXCEPT !.won = work[w].won \cup {p}, !.pc = "cancel"]
  <2>1. work' = [work EXCEPT ![w] = g]
    BY <1>1, <1>2 DEF Keep
  <2>2. DOMAIN g = WorkFields /\ g.won = work[w].won \cup {p} /\ g.pc = "cancel"
    BY <1>0 DEF WorkFields
  <2> HIDE DEF g
  <2>3. \A q \in work[w].won : q \in Proposals /\ prop[q].st = "active"
    BY DEF RegistryInv, RowsHeld
  <2>4. prop[p].st = "active"
    BY <1>2 DEF Active
  <2>5. \A q \in work[w].won : p = q
    BY <1>2, <1>4, <2>3, <2>4 DEF Sibling, RegistryInv, ProposalsOnce, OneWindow
  <2>6. \A q \in g.won : q \in Proposals /\ prop[q].st = "active"
    BY <2>2, <2>3, <2>4, <1>4
  <2>7. \A q, r \in g.won : q = r
    BY <2>2, <2>5
  <2>8. work'[w] = g
    BY <2>1 DEF RegistryInv, Shape
  <2>9. HeldByWorker(w)' \subseteq work[w].won \cup {p} /\ work[w].won \subseteq HeldByWorker(w)
    BY <1>0, <2>2, <2>8 DEF HeldByWorker
  <2>10. \A q \in HeldByWorker(w)' : q \in HeldByWorker(w) \/ Free(w, q)
    BY <1>1, <2>9
  <2>11. g.pc \in Locking
    BY <2>2 DEF Locking
  <2> QED
    BY <1>0, <2>1, <2>2, <2>6, <2>7, <2>10, <2>11, ClaimingInv
<1>3. CASE ~(Active(p) /\ \A q \in work[w].won : ~Sibling(p, q))
  <2> DEFINE k == {i \in work[w].kept : i.prop # p}
             g == [work[w] EXCEPT !.kept = k]
  <2>1. work' = [work EXCEPT ![w] = g]
    BY <1>1, <1>3 DEF Keep
  <2> HIDE DEF k
  <2>2. DOMAIN g = WorkFields /\ g.won = work[w].won /\ g.pc = work[w].pc
    BY <1>0 DEF WorkFields
  <2> HIDE DEF g
  <2>8. work'[w] = g
    BY <2>1 DEF RegistryInv, Shape
  <2>9. HeldByWorker(w)' = HeldByWorker(w)
    BY <1>0, <2>2, <2>8 DEF HeldByWorker, Sibling
  <2>10. /\ g.pc \notin Locking => g.won = {}
         /\ \A q \in g.won : q \in Proposals /\ prop[q].st = "active"
         /\ \A q, r \in g.won : q = r
    BY <2>2 DEF RegistryInv, RowsHeld
  <2> QED
    BY <1>0, <2>1, <2>2, <2>9, <2>10, ClaimingInv
<1> QED
  BY <1>2, <1>3, <1>4

LEMMA CancelInv ==
  ASSUME RegistryInv, NEW w \in Workers, Cancel(w)
  PROVE  RegistryInv'
<1> DEFINE g == [work[w] EXCEPT !.pc = "claim"]
<1>0. UNCHANGED <<prop, req, taken>> /\ work[w].pc = "cancel" /\ work' = [work EXCEPT ![w] = g]
      /\ \A p \in Proposals : (\E q \in work[w].won : Sibling(p, q)) => Free(w, p)
  BY DEF Cancel, Local, Keep
<1>1. DOMAIN g = WorkFields /\ g.won = work[w].won /\ g.pc = "claim"
  BY DEF RegistryInv, Shape, WorkFields
<1> HIDE DEF g
<1>2. work'[w] = g
  BY <1>0 DEF RegistryInv, Shape
<1>3. \A p \in HeldByWorker(w)' : p \in HeldByWorker(w) \/ Free(w, p)
  BY <1>0, <1>1, <1>2 DEF HeldByWorker, Sibling
<1>4. /\ g.pc \notin Locking => g.won = {}
      /\ \A q \in g.won : q \in Proposals /\ prop[q].st = "active"
      /\ \A q, r \in g.won : q = r
  BY <1>1 DEF RegistryInv, RowsHeld, Locking
<1> QED
  BY <1>0, <1>1, <1>3, <1>4, ClaimingInv

LEMMA StoreInv ==
  ASSUME RegistryInv, NEW w \in Workers, Store(w)
  PROVE  RegistryInv'
<1> DEFINE g == [work[w] EXCEPT !.pc = "commit"]
<1>0. UNCHANGED <<prop, req, taken>> /\ work[w].pc = "claim" /\ (Keep(w, Idle) \/ work' = [work EXCEPT ![w] = g])
  BY DEF Store, Local, Keep, Fail
<1>1. DOMAIN g = WorkFields /\ g.won = work[w].won /\ g.pc = "commit"
  BY DEF RegistryInv, Shape, WorkFields
<1> HIDE DEF g
<1>2. CASE work' = [work EXCEPT ![w] = g]
  <2>2. work'[w] = g
    BY <1>2 DEF RegistryInv, Shape
  <2>3. \A p \in HeldByWorker(w)' : p \in HeldByWorker(w) \/ Free(w, p)
    BY <1>0, <1>1, <2>2 DEF HeldByWorker, Sibling
  <2>4. /\ g.pc \notin Locking => g.won = {}
        /\ \A q \in g.won : q \in Proposals /\ prop[q].st = "active"
        /\ \A q, r \in g.won : q = r
    BY <1>1 DEF RegistryInv, RowsHeld, Locking
  <2> QED
    BY <1>0, <1>1, <1>2, <2>3, <2>4, ClaimingInv
<1>3. CASE Keep(w, Idle)
  BY <1>0, <1>3, FailQuiet, QuietInv
<1> QED
  BY <1>0, <1>2, <1>3

\* What the commit of a worker does to the rows: its own become accepted, their siblings
\* cancelled, and all of those it holds.
LEMMA CommitRows ==
  ASSUME RegistryInv, NEW w \in Workers, Commit(w)
  PROVE  /\ DOMAIN prop' = Proposals
         /\ \A p \in Proposals :
              /\ DOMAIN prop'[p] = {"st", "job", "ord", "late"}
              /\ prop'[p].job = prop[p].job /\ prop'[p].ord = prop[p].ord /\ prop'[p].late = prop[p].late
              /\ p \in work[w].won => prop[p].st = "active" /\ prop'[p].st = "accepted"
              /\ p \notin work[w].won /\ (\E q \in work[w].won : Sibling(p, q)) =>
                   prop[p].st = "active" /\ prop'[p].st = "cancelled"
              /\ p \notin work[w].won /\ ~(\E q \in work[w].won : Sibling(p, q)) => prop'[p] = prop[p]
              /\ p \notin HeldByWorker(w) => prop'[p] = prop[p]
              /\ p \in HeldByWorker(w) => prop[p].st = "active" /\ prop'[p].st \in {"accepted", "cancelled"}
  BY DEF Commit, RegistryInv, Shape, RowsHeld, HeldByWorker, Sibling

LEMMA CommitInv ==
  ASSUME RegistryInv, NEW w \in Workers, Commit(w)
  PROVE  RegistryInv'
<1> DEFINE g == [Idle EXCEPT !.job = work[w].job, !.pc = "finish"]
<1>0. /\ UNCHANGED req /\ work[w].pc = "commit" /\ work' = [work EXCEPT ![w] = g]
      /\ taken' = [p \in Proposals |-> taken[p] + (IF p \in work[w].won THEN 1 ELSE 0)]
  BY DEF Commit, Keep
<1>1. DOMAIN g = WorkFields /\ g.won = {} /\ g.pc = "finish"
  BY IdleFields DEF WorkFields
<1> HIDE DEF g
<1>2. work'[w] = g /\ (\A v \in Workers : v # w => work'[v] = work[v]) /\ DOMAIN work' = Workers
  BY <1>0 DEF RegistryInv, Shape
<1>3. /\ DOMAIN prop' = Proposals
      /\ \A p \in Proposals :
           /\ DOMAIN prop'[p] = {"st", "job", "ord", "late"}
           /\ prop'[p].job = prop[p].job /\ prop'[p].ord = prop[p].ord /\ prop'[p].late = prop[p].late
           /\ p \in work[w].won => prop[p].st = "active" /\ prop'[p].st = "accepted"
           /\ p \notin work[w].won /\ (\E q \in work[w].won : Sibling(p, q)) =>
                prop[p].st = "active" /\ prop'[p].st = "cancelled"
           /\ p \notin work[w].won /\ ~(\E q \in work[w].won : Sibling(p, q)) => prop'[p] = prop[p]
  BY CommitRows
<1>4. \A p \in Proposals :
        /\ p \notin HeldByWorker(w) => prop'[p] = prop[p]
        /\ p \in HeldByWorker(w) => prop[p].st = "active" /\ prop'[p].st \in {"accepted", "cancelled"}
  BY CommitRows
<1>5. \A p \in Proposals : prop'[p].st = "active" => prop[p].st = "active" /\ p \notin HeldByWorker(w)
  BY <1>4
<1>6. Shape'
  BY <1>0, <1>1, <1>2, <1>3 DEF RegistryInv, Shape
<1>7. Registered'
  <2>1. \A p \in Proposals : (prop'[p].st = None <=> prop[p].st = None) /\ prop'[p].job = prop[p].job
    BY <1>3, <1>4 DEF None
  <2> QED
    BY <1>0, <2>1 DEF RegistryInv, Registered
<1>8. UserHeld'
  <2>1. ASSUME NEW j \in Jobs, req[j].pc = "replacing", NEW p \in Proposals
        PROVE  (prop'[p].st = "active" /\ prop'[p].job # j) <=> (prop[p].st = "active" /\ prop[p].job # j)
    <3>1. req[j].old = {q \in Proposals : prop[q].st = "active" /\ prop[q].job # j} /\ HeldByRequest(j) = req[j].old
      BY <2>1 DEF RegistryInv, UserHeld, HeldByRequest
    <3>2. p \in HeldByWorker(w) => p \notin req[j].old
      BY <3>1 DEF RegistryInv, RowsHeld
    <3> QED
      BY <1>3, <1>4, <1>5, <3>1, <3>2
  <2>2. \A j \in Jobs : req[j].pc = "replacing" =>
          {p \in Proposals : prop'[p].st = "active" /\ prop'[p].job # j}
            = {p \in Proposals : prop[p].st = "active" /\ prop[p].job # j}
    BY <2>1
  <2>3. \A j \in Jobs : req'[j].pc = "replacing" =>
          req'[j].old = {p \in Proposals : prop'[p].st = "active" /\ prop'[p].job # j}
    BY <1>0, <2>2 DEF RegistryInv, UserHeld
  <2>4. \A i, j \in Jobs : req'[i].pc \in {"flushed", "locked", "replacing"} /\ req'[j].pc \in {"locked", "replacing"}
                        => i = j
    BY <1>0 DEF RegistryInv, UserHeld
  <2> QED
    BY <2>3, <2>4 DEF UserHeld
<1>9. RowsHeld'
  <2>1. HeldByWorker(w)' = {}
    BY <1>1, <1>2 DEF HeldByWorker
  <2>2. \A v \in Workers : v # w => work[v].won \subseteq Proposals /\ work[v].won \cap HeldByWorker(w) = {}
    <3>1. \A v \in Workers : work[v].won \subseteq HeldByWorker(v)
      BY DEF RegistryInv, RowsHeld, HeldByWorker, Locking
    <3> QED
      BY <3>1 DEF RegistryInv, RowsHeld
  <2>3. \A v \in Workers : v # w => HeldByWorker(v)' \subseteq HeldByWorker(v)
    <3> SUFFICES ASSUME NEW v \in Workers, v # w, NEW p \in HeldByWorker(v)' PROVE p \in HeldByWorker(v)
      OBVIOUS
    <3>1. work'[v] = work[v]
      BY <1>2
    <3>2. \A q \in work[v].won : Sibling(p, q)' /\ p \in Proposals => Sibling(p, q)
      BY <1>3, <1>5, <2>2 DEF Sibling
    <3> QED
      BY <3>1, <3>2 DEF HeldByWorker
  <2>4. \A j \in Jobs : HeldByRequest(j)' = HeldByRequest(j)
    BY <1>0 DEF HeldByRequest
  <2>5. \A v \in Workers :
          /\ work'[v].pc \notin Locking => work'[v].won = {}
          /\ \A p \in work'[v].won : p \in Proposals /\ prop'[p].st = "active"
          /\ \A p, q \in work'[v].won : p = q
    BY <1>1, <1>2, <1>4, <2>2 DEF RegistryInv, RowsHeld
  <2>6. /\ \A u, v \in Workers : u # v => HeldByWorker(u)' \cap HeldByWorker(v)' = {}
        /\ \A v \in Workers : \A j \in Jobs : HeldByWorker(v)' \cap HeldByRequest(j)' = {}
    BY <2>1, <2>3, <2>4 DEF RegistryInv, RowsHeld
  <2> QED
    BY <2>5, <2>6 DEF RowsHeld
<1>10. \A p, q \in Proposals : p \in work[w].won /\ q # p /\ prop[q].job = prop[p].job => prop'[q].st # "active"
  BY <1>3 DEF Sibling
<1>11. \A p, q \in work[w].won : p = q
  BY DEF RegistryInv, RowsHeld
<1>12. Closed'
  BY <1>3, <1>5, <1>10 DEF RegistryInv, Closed
<1>13. Whole'
  <2> SUFFICES ASSUME NEW p \in Proposals, NEW q \in Proposals, prop'[p].st = "active", prop'[q].job = prop'[p].job
               PROVE  prop'[q].st = "active" /\ prop'[q].late = prop'[p].late
    BY DEF Whole
  <2>1. prop[p].st = "active" /\ prop[q].job = prop[p].job /\ prop'[p] = prop[p]
    BY <1>3, <1>4, <1>5
  <2>2. prop[q].st = "active" /\ prop[q].late = prop[p].late
    BY <2>1 DEF RegistryInv, Whole
  <2>3. prop'[q] = prop[q]
    <3> SUFFICES ASSUME prop'[q] # prop[q] PROVE FALSE
      OBVIOUS
    <3>1. q \in work[w].won \/ \E r \in work[w].won : Sibling(q, r)
      BY <1>3
    <3>2. PICK r \in work[w].won : prop[r].job = prop[q].job /\ r \in Proposals
      BY <3>1 DEF Sibling, RegistryInv, RowsHeld
    <3> QED
      BY <1>3, <1>10, <2>1, <3>2
  <2> QED
    BY <2>1, <2>2, <2>3
<1>14. ProposalsOnce'
  <2>1. OneWindow'
    BY <1>3, <1>5 DEF RegistryInv, ProposalsOnce, OneWindow
  <2>2. \A p \in Proposals : taken'[p] = IF prop'[p].st = "accepted" THEN 1 ELSE 0
    BY <1>0, <1>3 DEF RegistryInv, ProposalsOnce, StoredOnce
  <2>3. \A p, q \in Proposals :
          prop'[p].st = "accepted" /\ prop'[q].st = "accepted" /\ prop'[p].job = prop'[q].job => p = q
    BY <1>3, <1>11 DEF RegistryInv, Closed, ProposalsOnce, StoredOnce
  <2> QED
    BY <2>1, <2>2, <2>3 DEF ProposalsOnce, StoredOnce
<1> QED
  BY <1>6, <1>7, <1>8, <1>9, <1>12, <1>13, <1>14 DEF RegistryInv

-----------------------------------------------------------------------------
(* The requests.                                                           *)

\* A request that changes no row.
LEMMA AskingInv ==
  ASSUME RegistryInv, NEW j \in Jobs, Submit(j) \/ Record(j) \/ LockUser(j) \/ Supersede(j) \/ VictimRequest(j)
  PROVE  RegistryInv'
<1>0. UNCHANGED <<prop, work, taken>>
  BY DEF Submit, Record, LockUser, Supersede, VictimRequest
<1> DEFINE f == req'[j]
<1>1. /\ DOMAIN f = {"pc", "seen", "old"} /\ (\A i \in Jobs : i # j => req'[i] = req[i]) /\ DOMAIN req' = Jobs
      /\ \/ f.pc = "flushed" /\ req[j].pc = "new" /\ ~UserLocked
         \/ f.pc \in {"done", "refused"} /\ req[j].pc # "done"
         \/ f.pc = "locked" /\ req[j].pc = "flushed" /\ ~UserShared(j)
         \/ /\ f.pc = "replacing" /\ req[j].pc = "locked"
            /\ f.old = {p \in Proposals : prop[p].st = "active" /\ prop[p].job # j}
            /\ \A p \in f.old : \A w \in Workers : p \notin HeldByWorker(w)
  <2>1. DOMAIN req = Jobs /\ DOMAIN req[j] = {"pc", "seen", "old"}
    BY DEF RegistryInv, Shape
  <2>2. CASE Submit(j)
    BY <2>1, <2>2 DEF Submit
  <2>3. CASE Record(j)
    BY <2>1, <2>3 DEF Record
  <2>4. CASE LockUser(j)
    BY <2>1, <2>4 DEF LockUser
  <2>5. CASE Supersede(j)
    BY <2>1, <2>5 DEF Supersede
  <2>6. CASE VictimRequest(j)
    BY <2>1, <2>6 DEF VictimRequest, RequestsWait, RequestWaitsForWorker
  <2> QED
    BY <2>2, <2>3, <2>4, <2>5, <2>6
<1>2. req'[j] = f /\ (\A i \in Jobs : i # j => req'[i] = req[i]) /\ DOMAIN req' = Jobs
  BY <1>1
<1> HIDE DEF f
<1>3. Shape'
  BY <1>0, <1>1, <1>2 DEF RegistryInv, Shape
<1>4. Registered'
  BY <1>0, <1>1, <1>2 DEF RegistryInv, Registered
<1>5. UserHeld'
  BY <1>0, <1>1, <1>2 DEF RegistryInv, UserHeld, UserLocked, UserShared
<1>6. RowsHeld'
  <2>1. \A w \in Workers : HeldByWorker(w)' = HeldByWorker(w)
    BY <1>0 DEF HeldByWorker, Sibling
  <2>2. \A i \in Jobs : i # j => HeldByRequest(i)' = HeldByRequest(i)
    BY <1>2 DEF HeldByRequest
  <2>3. \A w \in Workers : HeldByWorker(w)' \cap HeldByRequest(j)' = {}
    BY <1>1, <1>2, <2>1 DEF HeldByRequest
  <2> QED
    BY <1>0, <2>1, <2>2, <2>3 DEF RegistryInv, RowsHeld
<1>7. (Closed /\ Whole /\ ProposalsOnce)'
  BY <1>0 DEF RegistryInv, Closed, Whole, ProposalsOnce, OneWindow, StoredOnce
<1> QED
  BY <1>3, <1>4, <1>5, <1>6, <1>7 DEF RegistryInv

\* What a registration does to the rows: the new ones are open and are the only ones of their
\* job, what was open before is superseded, and the rest stays.
LEMMA RegisterRows ==
  ASSUME RegistryInv, NEW j \in Jobs, Register(j), req'[j].pc = "done"
  PROVE  /\ DOMAIN prop' = Proposals
         /\ \A p \in Proposals :
              /\ DOMAIN prop'[p] = {"st", "job", "ord", "late"}
              /\ prop[p].job # j
              /\ \/ prop[p].st = None /\ prop'[p].st = "active" /\ prop'[p].job = j /\ prop'[p].late = FALSE
                 \/ /\ prop[p].st = "active" /\ prop'[p].st = "superseded" /\ p \in req[j].old
                    /\ prop'[p].job = prop[p].job /\ prop'[p].ord = prop[p].ord
                 \/ prop[p].st # "active" /\ prop'[p] = prop[p]
<1>1. DOMAIN req[j] = {"pc", "seen", "old"} /\ DOMAIN req = Jobs /\ req[j].pc = "replacing"
  BY DEF Register, RegistryInv, Shape
<1>2. /\ \A p \in Fresh(j) : prop[p].st = None
      /\ prop' = [p \in Proposals |->
             IF p \in Fresh(j)
             THEN [st |-> "active", job |-> j, ord |-> Ordinal(j, p), late |-> FALSE]
             ELSE IF p \in req[j].old THEN [prop[p] EXCEPT !.st = "superseded"] ELSE prop[p]]
  BY <1>1 DEF Register
<1>3. req[j].old = {p \in Proposals : prop[p].st = "active" /\ prop[p].job # j}
  BY <1>1 DEF RegistryInv, UserHeld
<1>4. \A p \in Proposals : prop[p].job # j
  BY <1>1 DEF RegistryInv, Registered
<1>5. \A p \in Proposals : DOMAIN prop[p] = {"st", "job", "ord", "late"}
  BY DEF RegistryInv, Shape
<1> QED
  BY <1>2, <1>3, <1>4, <1>5

LEMMA RegisterInv ==
  ASSUME RegistryInv, NEW j \in Jobs, Register(j)
  PROVE  RegistryInv'
<1>0. UNCHANGED <<work, taken>> /\ req[j].pc = "replacing"
  BY DEF Register
<1>1. /\ DOMAIN req' = Jobs /\ (\A i \in Jobs : i # j => req'[i] = req[i])
      /\ DOMAIN req'[j] = {"pc", "seen", "old"} /\ req'[j].pc \in {"done", "refused"}
  BY DEF Register, RegistryInv, Shape
<1>2. CASE req'[j].pc = "refused"
  <2>1. UNCHANGED prop
    <3>1. DOMAIN req = Jobs /\ DOMAIN req[j] = {"pc", "seen", "old"}
      BY DEF RegistryInv, Shape
    <3> QED
      BY <1>2, <3>1 DEF Register
  <2>2. Shape' /\ Registered' /\ UserHeld'
    BY <1>0, <1>1, <1>2, <2>1 DEF RegistryInv, Shape, Registered, UserHeld
  <2>3. \A w \in Workers : HeldByWorker(w)' = HeldByWorker(w)
    BY <1>0, <2>1 DEF HeldByWorker, Sibling
  <2>4. HeldByRequest(j)' = {} /\ \A i \in Jobs : i # j => HeldByRequest(i)' = HeldByRequest(i)
    BY <1>1, <1>2 DEF HeldByRequest
  <2>5. RowsHeld'
    BY <1>0, <2>1, <2>3, <2>4 DEF RegistryInv, RowsHeld
  <2>6. (Closed /\ Whole /\ ProposalsOnce)'
    BY <1>0, <2>1 DEF RegistryInv, Closed, Whole, ProposalsOnce, OneWindow, StoredOnce
  <2> QED
    BY <2>2, <2>5, <2>6 DEF RegistryInv
<1>3. CASE req'[j].pc = "done"
  <2>1. DOMAIN prop' = Proposals /\ \A p \in Proposals : DOMAIN prop'[p] = {"st", "job", "ord", "late"} /\ prop[p].job # j
    BY <1>3, RegisterRows
  <2>2. \A p \in Proposals :
           \/ prop[p].st = None /\ prop'[p].st = "active" /\ prop'[p].job = j /\ prop'[p].late = FALSE
           \/ prop[p].st = "active" /\ prop'[p].st = "superseded" /\ prop'[p].job = prop[p].job
           \/ prop[p].st # "active" /\ prop'[p] = prop[p]
    BY <1>3, RegisterRows
  <2>3. \A p \in Proposals : prop[p].st = "active" => p \in req[j].old
    BY <1>3, RegisterRows DEF None
  <2>4. \A p \in Proposals : prop'[p].st = "active" => prop[p].st = None /\ prop'[p].job = j /\ prop'[p].late = FALSE
    BY <2>2
  <2>5. \A p \in Proposals : prop'[p].job = j => prop'[p].st = "active" /\ prop'[p].late = FALSE
    BY <2>1, <2>2
  <2>6. \A p \in Proposals : prop'[p].st = "accepted" <=> prop[p].st = "accepted"
    BY <2>2 DEF None
  <2>7. Shape'
    BY <1>0, <1>1, <2>1 DEF RegistryInv, Shape
  <2>8. Registered'
    BY <1>1, <1>3, <2>1, <2>2 DEF RegistryInv, Registered, None
  <2>9. UserHeld'
    BY <1>0, <1>1, <1>3 DEF RegistryInv, UserHeld
  <2>10. RowsHeld'
    <3>1. \A w \in Workers : work[w].won = {}
      <4>1. \A w \in Workers : work[w].won \subseteq HeldByWorker(w)
        BY DEF RegistryInv, RowsHeld, HeldByWorker, Locking
      <4>2. HeldByRequest(j) = req[j].old
        BY <1>0 DEF HeldByRequest
      <4> QED
        BY <2>3, <4>1, <4>2 DEF RegistryInv, RowsHeld
    <3>2. \A w \in Workers : HeldByWorker(w)' = {}
      BY <1>0, <3>1 DEF HeldByWorker
    <3> QED
      BY <1>0, <3>1, <3>2 DEF RowsHeld
  <2>11. Closed' /\ Whole' /\ OneWindow'
    <3>1. Closed'
      BY <2>1, <2>2, <2>4, <2>6 DEF Closed, None
    <3>2. Whole'
      BY <2>4, <2>5 DEF Whole
    <3> QED
      BY <2>4, <3>1, <3>2 DEF OneWindow
  <2>12. StoredOnce'
    <3>1. \A p, q \in Proposals : prop'[p].st = "accepted" => prop'[p] = prop[p]
      BY <2>2
    <3> QED
      BY <1>0, <2>6, <3>1 DEF RegistryInv, ProposalsOnce, StoredOnce
  <2> QED
    BY <2>7, <2>8, <2>9, <2>10, <2>11, <2>12 DEF RegistryInv, ProposalsOnce
<1> QED
  BY <1>1, <1>2, <1>3

LEMMA LapseInv ==
  ASSUME RegistryInv, NEW j \in Jobs, Lapse(j)
  PROVE  RegistryInv'
<1>0. UNCHANGED <<work, req, taken>>
  BY DEF Lapse
<1>1. /\ DOMAIN prop' = Proposals
      /\ \A p \in Proposals :
           /\ DOMAIN prop'[p] = {"st", "job", "ord", "late"}
           /\ prop'[p].st = prop[p].st /\ prop'[p].job = prop[p].job /\ prop'[p].ord = prop[p].ord
           /\ prop'[p].late = IF prop[p].job = j THEN TRUE ELSE prop[p].late
  BY DEF Lapse, RegistryInv, Shape
<1>6. DOMAIN prop' = Proposals /\ \A p \in Proposals : DOMAIN prop'[p] = {"st", "job", "ord", "late"}
  BY <1>1
<1>7. \A p \in Proposals : prop'[p].st = prop[p].st /\ prop'[p].job = prop[p].job
  BY <1>1
<1>8. \A p \in Proposals : /\ prop[p].job = j => prop'[p].late = TRUE
                           /\ prop[p].job # j => prop'[p].late = prop[p].late
  BY <1>1
<1>2. Shape' /\ Registered'
  <2>1. Shape'
    BY <1>0, <1>6 DEF RegistryInv, Shape
  <2> QED
    BY <1>0, <1>7, <2>1 DEF RegistryInv, Registered
<1>3. UserHeld'
  <2>1. \A i \in Jobs : {p \in Proposals : prop'[p].st = "active" /\ prop'[p].job # i}
                          = {p \in Proposals : prop[p].st = "active" /\ prop[p].job # i}
    BY <1>1
  <2> QED
    BY <1>0, <2>1 DEF RegistryInv, UserHeld
<1>4. RowsHeld'
  <2>1. \A w \in Workers : \A p \in Proposals : \A q \in work[w].won : Sibling(p, q)' <=> Sibling(p, q)
    BY <1>1 DEF Sibling, RegistryInv, RowsHeld
  <2>2. \A w \in Workers : HeldByWorker(w)' = HeldByWorker(w)
    BY <1>0, <2>1 DEF HeldByWorker
  <2>3. \A i \in Jobs : HeldByRequest(i)' = HeldByRequest(i)
    BY <1>0 DEF HeldByRequest
  <2> QED
    BY <1>0, <1>1, <2>2, <2>3 DEF RegistryInv, RowsHeld
<1>5. (Closed /\ Whole /\ ProposalsOnce)'
  <2>1. Closed'
    BY <1>7 DEF RegistryInv, Closed
  <2>2. Whole'
    <3> SUFFICES ASSUME NEW p \in Proposals, NEW q \in Proposals, prop'[p].st = "active", prop'[q].job = prop'[p].job
                 PROVE  prop'[q].st = "active" /\ prop'[q].late = prop'[p].late
      BY DEF Whole
    <3>1. prop[p].st = "active" /\ prop[q].job = prop[p].job /\ prop'[q].st = prop[q].st
      BY <1>7
    <3>2. prop[q].st = "active" /\ prop[q].late = prop[p].late
      BY <3>1 DEF RegistryInv, Whole
    <3>3. CASE prop[p].job = j
      BY <1>8, <3>1, <3>2, <3>3, Zenon
    <3>4. CASE prop[p].job # j
      BY <1>8, <3>1, <3>2, <3>4, Zenon
    <3> QED
      BY <3>3, <3>4
  <2>3. OneWindow'
    BY <1>7 DEF RegistryInv, ProposalsOnce, OneWindow
  <2>4. StoredOnce'
    BY <1>0, <1>7 DEF RegistryInv, ProposalsOnce, StoredOnce
  <2> QED
    BY <2>1, <2>2, <2>3, <2>4 DEF ProposalsOnce
<1> QED
  BY <1>2, <1>3, <1>4, <1>5 DEF RegistryInv

LEMMA JobsPositive == \A j \in Jobs : j \in Nat /\ j # 0
<1>1. Cardinality(Jobs) \in Nat
  BY ExtractionAssumption, FS_CardinalityType
<1> QED
  BY <1>1, ExtractionAssumption

LEMMA RegistryInit == Init => RegistryInv
<1> SUFFICES ASSUME Init PROVE RegistryInv
  OBVIOUS
<1>1. \A w \in Workers : work[w] = Idle
  BY DEF Init
<1>2. \A p \in Proposals : prop[p].st = None /\ prop[p].job = 0 /\ prop[p].late = FALSE
  BY DEF Init
<1>3. \A j \in Jobs : req[j].pc = "new" /\ j # 0
  <2>1. \A j \in Jobs : req[j].pc = "new"
    BY DEF Init
  <2> QED
    BY <2>1, JobsPositive
<1>4. Shape
  BY <1>1, IdleFields DEF Init, Shape
<1>5. \A w \in Workers : HeldByWorker(w) = {}
  BY <1>1, IdleFields DEF HeldByWorker
<1>6. RowsHeld
  BY <1>1, <1>5, IdleFields DEF RowsHeld
<1>7. Registered /\ UserHeld /\ Closed /\ Whole
  BY <1>2, <1>3 DEF Registered, UserHeld, Closed, Whole, None
<1>8. ProposalsOnce
  BY <1>2 DEF Init, ProposalsOnce, OneWindow, StoredOnce, None
<1> QED
  BY <1>4, <1>6, <1>7, <1>8 DEF RegistryInv

LEMMA RegistryStep ==
  ASSUME RegistryInv, WordsInv, [Next]_vars
  PROVE  RegistryInv'
<1>1. CASE UNCHANGED vars \/ Done
  BY <1>1 DEF vars, Done, RegistryInv, Shape, Registered, UserHeld, RowsHeld, Closed, Whole, ProposalsOnce, OneWindow,
              StoredOnce, HeldByWorker, HeldByRequest, Sibling
<1>2. ASSUME NEW j \in Jobs, RequestStep(j) \/ Lapse(j) \/ VictimRequest(j) PROVE RegistryInv'
  BY <1>2, AskingInv, RegisterInv, LapseInv DEF RequestStep
<1>3. ASSUME NEW w \in Workers, WorkerStep(w) \/ Outage(w) \/ Crash(w) \/ Victim(w) PROVE RegistryInv'
  <2>1. CASE Claim(w) \/ Cancel(w) \/ Store(w) \/ Commit(w)
    BY <2>1, ClaimInv, CancelInv, StoreInv, CommitInv
  <2>2. CASE Primary(w) \/ Repair(w) \/ Recover(w) \/ Outage(w)
    BY <2>2, CallsQuiet, QuietInv
  <2>3. CASE (\E j \in Jobs : Begin(w, j)) \/ Persist(w) \/ Finish(w) \/ Crash(w) \/ Victim(w)
    BY <2>3, EndsQuiet, QuietInv
  <2> QED
    BY <1>3, <2>1, <2>2, <2>3 DEF WorkerStep
<1> QED
  BY <1>1, <1>2, <1>3 DEF Next

-----------------------------------------------------------------------------
(* Positions of a transcript.                                              *)

\* A set of naturals has a least element.
Below == {ab \in Nat \X Nat : ab[1] < ab[2]}
LEMMA Smallest ==
  ASSUME NEW S \in SUBSET Nat, S # {}
  PROVE  \E x \in S : \A y \in S : x <= y
<1>1. OpToRel(<, Nat) = Below
  BY Zenon DEF OpToRel, Below
<1>2. IsWellFoundedOn(Below, Nat)
  BY <1>1, NatLessThanWellFounded, Zenon
<1>3. PICK x \in S : \A y \in S : <<y, x>> \notin Below
  BY <1>2, WFMin
<1>4. ASSUME NEW y \in S, y < x PROVE <<y, x>> \in Below
  <2>1. <<y, x>> \in Nat \X Nat /\ <<y, x>>[1] = y /\ <<y, x>>[2] = x
    OBVIOUS
  <2> QED
    BY <1>4, <2>1 DEF Below
<1>5. \A y \in S : ~(y < x)
  BY <1>3, <1>4
<1> QED
  BY <1>5

\* A set of positions has a first and a last one.
LEMMA FirstAndLast ==
  ASSUME NEW j \in Jobs, NEW S \in SUBSET Positions(j), S # {}
  PROVE  /\ Max(S) \in S /\ \A i \in S : i <= Max(S)
         /\ Min(S) \in S /\ \A i \in S : Min(S) <= i
<1> DEFINE n == Length[j]
           T == {m \in Nat : \A i \in S : i <= m}
<1>1. n \in Nat /\ (\A i \in S : i \in Nat /\ i # 0 /\ i <= n)
  BY ExtractionAssumption DEF Positions
<1>2. S \in SUBSET Nat /\ n \in T
  BY <1>1
<1>3. PICK x \in T : \A y \in T : x <= y
  BY <1>2, Smallest
<1>4. x \in Nat /\ \A i \in S : i <= x
  BY <1>3
<1>5. x \in S
  <2> SUFFICES ASSUME x \notin S PROVE FALSE
    OBVIOUS
  <2>1. \A i \in S : i \in Nat /\ i < x /\ i # 0
    BY <1>1, <1>4
  <2>2. x - 1 \in Nat /\ \A i \in S : i <= x - 1
    BY <1>4, <2>1
  <2>3. x - 1 \in T
    BY <2>2
  <2> QED
    BY <1>3, <1>4, <2>2, <2>3
<1>6. \E m \in S : \A i \in S : m >= i
  BY <1>1, <1>4, <1>5
<1>7. Max(S) \in S /\ \A i \in S : Max(S) >= i
  BY <1>6 DEF Max
<1>8. \E m \in S : \A i \in S : m =< i
  BY <1>2, Smallest
<1>9. Min(S) \in S /\ \A i \in S : Min(S) =< i
  BY <1>8 DEF Min
<1> QED
  BY <1>1, <1>7, <1>9

LEMMA PositionsFinite ==
  ASSUME NEW j \in Jobs, NEW S \in SUBSET Positions(j)
  PROVE  IsFiniteSet(S) /\ (\A i \in S : i \in Nat /\ i # 0)
<1>1. Length[j] \in Nat
  BY ExtractionAssumption
<1>2. IsFiniteSet(Positions(j))
  BY <1>1, FS_Interval DEF Positions
<1>3. IsFiniteSet(S)
  BY <1>2, FS_Subset
<1> QED
  BY <1>1, <1>3 DEF Positions

\* A turn with a place is there.
LEMMA PlaceIs ==
  ASSUME NEW j \in Jobs, NEW p, Place(j, p) # 0
  PROVE  Place(j, p) \in Positions(j) /\ sent[j][Place(j, p)] = p
<1>1. Cardinality(At(j, p)) = 1 /\ Place(j, p) = Max(At(j, p))
  BY DEF Place
<1>2. At(j, p) \in SUBSET Positions(j)
  BY DEF At
<1>3. At(j, p) # {}
  BY <1>1, FS_EmptySet
<1>4. Max(At(j, p)) \in At(j, p)
  BY <1>2, <1>3, FirstAndLast
<1> QED
  BY <1>1, <1>4 DEF At

\* Who replies to a turn is a user that speaks after it.
LEMMA RepliesLater ==
  ASSUME NEW j \in Jobs, NEW vis, NEW cites, NEW pt \in Nat, NEW i \in Replying(j, vis, cites, pt)
  PROVE  i \in UserPositions(j) /\ i > pt
<1> DEFINE users == {h \in UserPositions(j) : h > pt}
           later == users \cap vis
<1>1. CASE users \cap cites # {}
  BY <1>1 DEF Replying
<1>2. CASE users \cap cites = {} /\ later # {}
  <2>1. later \in SUBSET Positions(j)
    BY DEF UserPositions
  <2>2. Max(later) \in later
    BY <1>2, <2>1, FirstAndLast
  <2>3. i = Max(later)
    BY <1>2 DEF Replying
  <2> QED
    BY <2>2, <2>3
<1>3. CASE users \cap cites = {} /\ later = {}
  BY <1>3 DEF Replying
<1> QED
  BY <1>1, <1>2, <1>3

-----------------------------------------------------------------------------
(* What the evidence policy lets pass is what the user answered.           *)

LEMMA Alone ==
  ASSUME NEW ctx, Group(ctx), NEW p \in ctx, Cardinality(ctx) = 1
  PROVE  \A q \in Proposals : prop[q].job = prop[p].job => q = p
<1>1. ctx \in SUBSET Proposals /\ IsFiniteSet(Proposals)
  BY ExtractionAssumption DEF Group
<1>2. IsFiniteSet(ctx)
  BY <1>1, FS_Subset
<1>3. PICK x : ctx = {x}
  BY <1>2, FS_Singleton
<1> QED
  BY <1>3 DEF Group

\* Which turn answers, and which proposal it is about.
AnswerTo(j, vis, cites, pt) == Max(Replying(j, vis, cites, pt))
Structured(j, vis, cites, pt, ctx) == ProposalReason(j, vis, cites, pt, ctx, TRUE) = "verified"
Unstructured(j, vis, cites, pt, ctx) == ProposalReason(j, vis, cites, pt, ctx, FALSE) = "verified"
LEMMA Answering ==
  ASSUME NEW j \in Jobs, NEW vis \in SUBSET Positions(j), NEW ctx, Group(ctx), NEW cites, NEW pt,
         Structured(j, vis, cites, pt, ctx) \/ Unstructured(j, vis, cites, pt, ctx)
  PROVE  /\ sent[j][pt] \in ctx /\ sent[j][pt] \in Proposals /\ Place(j, sent[j][pt]) = pt /\ pt \in vis
         /\ AnswerTo(j, vis, cites, pt) \in Replying(j, vis, cites, pt)
         /\ AnswerTo(j, vis, cites, pt) \in UserPositions(j)
         /\ AnswerTo(j, vis, cites, pt) > pt /\ AnswerTo(j, vis, cites, pt) - pt <= Window
<1> DEFINE replies == Replying(j, vis, cites, pt)
           target == {q \in ctx : Place(j, q) = pt}
<1>1. pt # 0 /\ pt \in vis /\ replies # {} /\ ~(Max(replies) - pt > Window) /\ target # {}
  BY DEF ProposalReason, Structured, Unstructured
<1>2. \A q \in target : q = sent[j][pt]
  BY <1>1, PlaceIs
<1>4. sent[j][pt] \in ctx /\ sent[j][pt] \in Proposals /\ Place(j, sent[j][pt]) = pt
  BY <1>1, <1>2 DEF Group
<1>5. pt \in Nat
  BY <1>1, PositionsFinite
<1>6. replies \in SUBSET Positions(j)
  BY <1>5, RepliesLater DEF UserPositions
<1>7. Max(replies) \in replies
  BY <1>1, <1>6, FirstAndLast
<1>8. Max(replies) \in UserPositions(j) /\ Max(replies) > pt
  BY <1>5, <1>7, RepliesLater
<1>9. Max(replies) \in Nat /\ Window \in Nat
  BY <1>6, <1>7, PositionsFinite, ExtractionAssumption
<1>10. Max(replies) - pt <= Window
  BY <1>1, <1>5, <1>9
<1> QED
  BY <1>1, <1>4, <1>7, <1>8, <1>10 DEF AnswerTo

\* What that turn says of it, to the patterns that read a plain memory.
LEMMA AnswerPicks ==
  ASSUME NEW j \in Jobs, NEW vis \in SUBSET Positions(j), NEW ctx, Group(ctx), NEW cites, NEW pt,
         Unstructured(j, vis, cites, pt, ctx),
         NEW text, text = TextAt(j, AnswerTo(j, vis, cites, pt)), NEW ord, ord = prop[sent[j][pt]].ord
  PROVE  /\ ~(text.denial /\ (text.denied = {} \/ text.picks = 0 \/ ord \in text.denied))
         /\ ~(text.picks # 0 /\ text.picks # ord)
         /\ ~(text.picks = 0 /\ Cardinality(ctx) # 1)
<1> DEFINE replies == Replying(j, vis, cites, pt)
           target == {q \in ctx : Place(j, q) = pt}
           chosen == CHOOSE q \in target : TRUE
           say == TextAt(j, Max(replies))
<1>1. pt # 0 /\ target # {}
  BY DEF ProposalReason, Structured, Unstructured
<1>2. \A q \in target : q = sent[j][pt]
  BY <1>1, PlaceIs
<1>3. chosen \in target
  BY <1>1
<1>4. chosen = sent[j][pt]
  BY <1>2, <1>3
<1>12. /\ ~(say.denial /\ (say.denied = {} \/ say.picks = 0 \/ prop[chosen].ord \in say.denied))
       /\ ~(say.picks # 0 /\ say.picks # prop[chosen].ord)
       /\ ~(say.picks = 0 /\ Cardinality(ctx) # 1)
  BY DEF ProposalReason, Structured, Unstructured
<1> HIDE DEF chosen, say
<1>13. text = say /\ ord = prop[chosen].ord
  BY <1>4 DEF say, AnswerTo
<1> QED
  BY <1>12, <1>13

Verdict(j, vis, cites, pt, ctx) == PolicyReason(j, vis, cites, "proposal", pt, ctx, FALSE)

\* A memory that points at a proposal, as validate_conversational_evidence checks it.
LEMMA Agreed ==
  ASSUME NEW j \in Jobs, NEW vis \in SUBSET Positions(j), NEW ctx, Group(ctx), NEW cites, NEW pt,
         Verdict(j, vis, cites, pt, ctx) = "verified"
  PROVE  Backed(j, sent[j][pt])
<1> DEFINE p == sent[j][pt]
           h == AnswerTo(j, vis, cites, pt)
           text == TextAt(j, h)
           ord == prop[p].ord
<1>1. Unstructured(j, vis, cites, pt, ctx)
  BY DEF Verdict, PolicyReason, Unstructured
<1>2. /\ p \in ctx /\ p \in Proposals /\ Place(j, p) = pt
      /\ h \in UserPositions(j) /\ h > pt /\ h - pt <= Window
  BY <1>1, Answering
<1>2b. /\ ~(text.denial /\ (text.denied = {} \/ text.picks = 0 \/ ord \in text.denied))
       /\ ~(text.picks # 0 /\ text.picks # ord)
       /\ ~(text.picks = 0 /\ Cardinality(ctx) # 1)
  BY <1>1, AnswerPicks
<1>3. (\E q \in Proposals : q # p /\ prop[q].job = prop[p].job) => text.picks = ord
  BY <1>2, <1>2b, Alone
<1>4. Denied(text, ord) /\ text.denial => text.picks = ord /\ ord \notin text.denied
  BY <1>2b
<1> HIDE DEF h, p
<1>5. Answered(j, p)
  BY <1>2, <1>3, <1>4 DEF Answered
<1>6. prop[p].st # None
  BY <1>2 DEF Group
<1> QED
  BY <1>2, <1>5, <1>6 DEF Backed, p

\* A proposal that the model says was confirmed, as _resolve_structured_proposal_confirmation
\* checks it: the user's latest turn is the one that answers.
LEMMA Chosen ==
  ASSUME NEW j \in Jobs, NEW vis \in SUBSET Positions(j), NEW ctx, Group(ctx), NEW a,
         Resolution(j, vis, ctx, a).memory # None
  PROVE  /\ Backed(j, Resolution(j, vis, ctx, a).memory)
         /\ Resolution(j, vis, ctx, a).decision = "confirmed"
<1> DEFINE shown == {Place(j, q) : q \in ctx} \cap vis
           users == IF shown = {} THEN {} ELSE {i \in UserPositions(j) \cap vis : i > Min(shown)}
           target == IF Cardinality(ctx) = 1 THEN ctx ELSE {q \in ctx : prop[q].ord = a.ordinal}
           p == CHOOSE q \in target : TRUE
           h == Max(users)
           text == TextAt(j, h)
           ord == prop[p].ord
           cites == {Place(j, p), h}
<1>1. /\ users # {} /\ a.decision = "confirmed" /\ Cardinality(target) = 1
      /\ ~Denied(text, ord) /\ Place(j, p) # 0
      /\ Cardinality(ctx) > 1 => Selects(text, ord, a.evidence)
      /\ PolicyReason(j, vis, cites, "proposal", Place(j, p), ctx, TRUE) = "verified"
      /\ Resolution(j, vis, ctx, a) = [[decision |-> a.decision, memory |-> None] EXCEPT !.memory = p]
  BY DEF Resolution
<1>2. Resolution(j, vis, ctx, a).memory = p /\ Resolution(j, vis, ctx, a).decision = "confirmed"
  BY <1>1
<1>3. Structured(j, vis, cites, Place(j, p), ctx)
  BY <1>1 DEF PolicyReason, Structured
<1>4. sent[j][Place(j, p)] = p
  BY <1>1, PlaceIs
<1> DEFINE r == AnswerTo(j, vis, cites, Place(j, p))
<1>5. /\ p \in ctx /\ p \in Proposals /\ Place(j, p) \in vis
      /\ r \in Replying(j, vis, cites, Place(j, p))
      /\ r \in UserPositions(j) /\ r > Place(j, p) /\ r - Place(j, p) <= Window
  <2> HIDE DEF p, cites
  <2> QED
    BY <1>3, <1>4, Answering
<1>6. r = h
  <2> DEFINE pt == Place(j, p)
             after == {i \in UserPositions(j) : i > pt}
  <2>1. pt \in shown /\ shown \in SUBSET Positions(j)
    BY <1>5
  <2>2. Min(shown) <= pt /\ Min(shown) \in Nat /\ pt \in Nat
    BY <2>1, FirstAndLast, PositionsFinite
  <2>3. users = {i \in UserPositions(j) \cap vis : i > Min(shown)}
    BY <1>1
  <2>4. UserPositions(j) \in SUBSET Positions(j) /\ (\A i \in UserPositions(j) : i \in Nat)
    BY PositionsFinite DEF UserPositions
  <2>5. h \in users /\ \A i \in users : i <= h
    BY <1>1, <2>3, <2>4, FirstAndLast
  <2>6. after \cap vis \subseteq users
    <3> SUFFICES ASSUME NEW i \in after \cap vis PROVE i \in users
      OBVIOUS
    <3> DEFINE least == Min(shown)
    <3>1. i \in UserPositions(j) /\ i \in vis /\ i > pt /\ i \in Nat /\ least <= pt /\ least \in Nat /\ pt \in Nat
      BY <2>2, <2>4
    <3> HIDE DEF least, pt
    <3>2. i > least
      BY <3>1
    <3> QED
      BY <2>3, <3>1, <3>2 DEF least
  <2>7. h \in Nat /\ r \in Nat /\ h \in vis /\ h \in UserPositions(j)
    BY <1>5, <2>3, <2>4, <2>5
  <2>8. h > pt
    <3>1. CASE after \cap cites # {}
      <4> HIDE DEF h, p, pt
      <4>1. PICK i \in after \cap cites : TRUE
        BY <3>1
      <4>2. i > pt /\ (i = pt \/ i = h)
        BY DEF pt
      <4> QED
        BY <2>2, <4>2
    <3>2. CASE after \cap cites = {}
      <4>1. r \in after \cap vis
        <5>1. Replying(j, vis, cites, pt) = IF after \cap vis = {} THEN {} ELSE {Max(after \cap vis)}
          BY <3>2 DEF Replying
        <5>2. after \cap vis # {} /\ r = Max(after \cap vis)
          BY <1>5, <5>1
        <5>3. after \cap vis \in SUBSET Positions(j)
          OBVIOUS
        <5> QED
          BY <5>2, <5>3, FirstAndLast
      <4>2. r <= h
        BY <2>5, <2>6, <4>1
      <4> QED
        BY <1>5, <2>2, <2>7, <4>2
    <3> QED
      BY <3>1, <3>2
  <2>9. after \cap cites = {h}
    <3> HIDE DEF h, p, pt
    <3>1. ~(pt > pt) /\ cites = {pt, h}
      BY <2>2 DEF pt
    <3> HIDE DEF cites
    <3> QED
      BY <2>7, <2>8, <3>1
  <2>10. Replying(j, vis, cites, pt) = {h}
    BY <2>9 DEF Replying
  <2> QED
    BY <1>5, <2>10
<1>7. (\E q \in Proposals : q # p /\ prop[q].job = prop[p].job)
        => text.picks = ord \/ (text.picks = 0 /\ ord \in text.names)
  <2> SUFFICES ASSUME NEW q \in Proposals, q # p, prop[q].job = prop[p].job
               PROVE  text.picks = ord \/ (text.picks = 0 /\ ord \in text.names)
    OBVIOUS
  <2>1. Cardinality(ctx) # 1
    BY <1>5, Alone
  <2>2. IsFiniteSet(ctx) /\ ctx # {}
    <3>1. ctx \in SUBSET Proposals
      BY DEF Group
    <3> QED
      BY <1>5, <3>1, ExtractionAssumption, FS_Subset
  <2>3. Cardinality(ctx) > 1
    BY <2>1, <2>2, FS_CardinalityType, FS_EmptySet
  <2> QED
    BY <1>1, <2>3 DEF Selects
<1>8. Denied(text, ord) /\ text.denial => text.picks = ord /\ ord \notin text.denied
  BY <1>1
<1>9. h \in UserPositions(j) /\ h > Place(j, p) /\ h - Place(j, p) <= Window
  BY <1>5, <1>6
<1>10. prop[p].st # None /\ p \in Proposals
  BY <1>5 DEF Group
<1> HIDE DEF h, p, target, users
<1>11. Answered(j, p)
  BY <1>7, <1>8, <1>9 DEF Answered
<1> QED
  BY <1>2, <1>10, <1>11 DEF Backed

-----------------------------------------------------------------------------
(* What the checks make of an answer.                                      *)

\* What is kept and held back of an answer, found by the call pass.
Sound(j, vis, pass, v) ==
  /\ \A i \in v.kept \cup v.pending :
       ItemShape(i) /\ i.pass = pass /\ (i.prop = None /\ ~Source[j] => Quoted(j, vis, i))
  /\ \A i \in v.kept : i.prop # None => Backed(j, i.prop)
  /\ \A i \in v.pending : i.prop # None /\ i.doubt => Backed(j, i.prop)
NoProposal(v) == \A i \in v.kept \cup v.pending : i.prop = None

LEMMA QuotingIs ==
  ASSUME NEW j \in Jobs, NEW vis, NEW c, NEW pass, Source[j] \/ Grounded(j, vis, c), NEW i, i = Quoting(j, c, pass)
  PROVE  ItemShape(i) /\ i.pass = pass /\ i.prop = None /\ (~Source[j] => Quoted(j, vis, i))
<1>1. DOMAIN i = {"turn", "prop", "doubt", "pass"} /\ i.pass = pass /\ i.prop = None
      /\ i.turn = IF c.quote \in UserPositions(j) THEN sent[j][c.quote] ELSE None
  BY DEF Quoting
<1>2. ASSUME ~Source[j] PROVE Quoted(j, vis, i)
  <2>1. /\ PolicyReason(j, vis, c.cites, "direct", 0, {}, FALSE) = "direct_user_statement"
        /\ c.quote \in c.cites /\ c.quote \in UserPositions(j) /\ ~TextAt(j, c.quote).question
    BY <1>2 DEF Grounded
  <2>2. c.cites \subseteq vis
    BY <2>1 DEF PolicyReason
  <2>3. sent[j][c.quote] \in Users /\ None \notin Users
    BY <2>1, ExtractionAssumption DEF UserPositions
  <2>4. i.turn = sent[j][c.quote] /\ ~said[sent[j][c.quote]].question
    BY <1>1, <2>1 DEF TextAt
  <2> QED
    BY <2>1, <2>2, <2>3, <2>4 DEF Quoted
<1> QED
  BY <1>1, <1>2 DEF ItemShape

LEMMA TakingIs ==
  ASSUME NEW j, NEW c, NEW pass, NEW i, i = Taking(j, c, pass) \/ i = [Taking(j, c, pass) EXCEPT !.doubt = FALSE],
         sent[j][c.pt] \in Proposals
  PROVE  ItemShape(i) /\ i.pass = pass /\ i.prop = sent[j][c.pt] /\ i.prop # None
<1>1. DOMAIN i = {"turn", "prop", "doubt", "pass"} /\ i.pass = pass /\ i.prop = sent[j][c.pt]
  BY DEF Taking
<1> QED
  BY <1>1, ExtractionAssumption DEF ItemShape

LEMMA SortedIs ==
  ASSUME NEW c, NEW item, NEW i, i \in Sorted(c, item).kept \cup Sorted(c, item).pending
  PROVE  i = item
  BY DEF Sorted

\* A claim about a proposal that got as far as the user's words names a row of the context.
LEMMA ReasonNames ==
  ASSUME NEW j \in Jobs, NEW vis, NEW cites, NEW pt, NEW ctx,
         Verdict(j, vis, cites, pt, ctx)
           \in {"verified", "explicit_confirmation_denied", "proposal_reference_mismatch", "ambiguous_proposal_reference"}
  PROVE  sent[j][pt] \in Proposals /\ ctx # {}
  BY DEF Verdict, PolicyReason, ProposalReason

LEMMA JudgeSound ==
  ASSUME NEW j \in Jobs, NEW vis \in SUBSET Positions(j), NEW ctx, Group(ctx), NEW c, NEW pass
  PROVE  /\ Sound(j, vis, pass, Judge(j, vis, ctx, c, pass))
         /\ ctx = {} \/ Relation(c, ctx) # "proposal" => NoProposal(Judge(j, vis, ctx, c, pass))
<1> DEFINE v == Judge(j, vis, ctx, c, pass)
           reason == PolicyReason(j, vis, c.cites, Relation(c, ctx), c.pt, ctx, FALSE)
           quoted == Quoting(j, c, pass)
           taking == Taking(j, c, pass)
           held == [taking EXCEPT !.doubt = FALSE]
<1>1. CASE v = Nobody
  BY <1>1 DEF Nobody, Sound, NoProposal
<1>2. CASE v = Sorted(c, quoted) /\ (Source[j] \/ Grounded(j, vis, c))
  <2>1. \A i \in v.kept \cup v.pending : i = quoted
    BY <1>2, SortedIs
  <2> HIDE DEF v
  <2>2. \A i \in v.kept \cup v.pending :
          ItemShape(i) /\ i.pass = pass /\ i.prop = None /\ (~Source[j] => Quoted(j, vis, i))
    BY <1>2, <2>1, QuotingIs
  <2>3. Sound(j, vis, pass, v) /\ NoProposal(v)
    BY <2>2 DEF Sound, NoProposal
  <2> QED
    BY <2>3 DEF v
<1>3. CASE v = Sorted(c, taking) /\ Relation(c, ctx) = "proposal" /\ reason = "verified"
  <2>0. Verdict(j, vis, c.cites, c.pt, ctx) = "verified"
    BY <1>3 DEF Verdict
  <2>1. \A i \in v.kept \cup v.pending : i = taking
    BY <1>3, SortedIs
  <2>2. sent[j][c.pt] \in Proposals /\ ctx # {} /\ Backed(j, sent[j][c.pt])
    BY <2>0, ReasonNames, Agreed
  <2> HIDE DEF v
  <2>3. \A i \in v.kept \cup v.pending : ItemShape(i) /\ i.pass = pass /\ i.prop = sent[j][c.pt] /\ i.prop # None
    BY <2>1, <2>2, TakingIs
  <2>4. Sound(j, vis, pass, v)
    BY <2>2, <2>3 DEF Sound
  <2> QED
    BY <1>3, <2>2, <2>4 DEF v
<1>4. CASE v = [kept |-> {}, pending |-> {held}] /\ Relation(c, ctx) = "proposal" /\ Reviewed(reason)
  <2>0. Verdict(j, vis, c.cites, c.pt, ctx) \in {"proposal_reference_mismatch", "ambiguous_proposal_reference"}
    BY <1>4 DEF Reviewed, Verdict
  <2>1. v.kept = {} /\ v.pending = {held}
    BY <1>4
  <2>2. sent[j][c.pt] \in Proposals /\ ctx # {}
    BY <2>0, ReasonNames
  <2>3. ItemShape(held) /\ held.pass = pass /\ held.prop = sent[j][c.pt] /\ held.prop # None
    BY <2>2, TakingIs
  <2>4. held.doubt = FALSE
    BY DEF Taking
  <2> HIDE DEF v, held
  <2>5. Sound(j, vis, pass, v)
    BY <2>1, <2>3, <2>4 DEF Sound
  <2> QED
    BY <1>4, <2>2, <2>5 DEF v
<1>5. \/ v = Nobody
      \/ v = Sorted(c, quoted) /\ (Source[j] \/ Grounded(j, vis, c))
      \/ v = Sorted(c, taking) /\ Relation(c, ctx) = "proposal" /\ reason = "verified"
      \/ v = [kept |-> {}, pending |-> {held}] /\ Relation(c, ctx) = "proposal" /\ Reviewed(reason)
  BY Zenon DEF Judge
<1> QED
  BY <1>1, <1>2, <1>3, <1>4, <1>5

LEMMA ParsedSound ==
  ASSUME NEW j \in Jobs, NEW vis \in SUBSET Positions(j), NEW ctx, Group(ctx), NEW memories, NEW pass
  PROVE  /\ Sound(j, vis, pass, Parsed(j, vis, ctx, memories, pass))
         /\ ctx = {} \/ (\A c \in memories : Relation(c, ctx) # "proposal")
              => NoProposal(Parsed(j, vis, ctx, memories, pass))
<1> DEFINE V(c) == Judge(j, vis, ctx, c, pass)
           v == Parsed(j, vis, ctx, memories, pass)
<1>1. v.kept = UNION {V(c).kept : c \in memories} /\ v.pending = UNION {V(c).pending : c \in memories}
  <2> DEFINE judged == {V(c) : c \in memories}
  <2>1. v.kept = UNION {x.kept : x \in judged} /\ v.pending = UNION {x.pending : x \in judged}
    BY DEF Parsed
  <2>2. /\ {x.kept : x \in judged} = {V(c).kept : c \in memories}
        /\ {x.pending : x \in judged} = {V(c).pending : c \in memories}
    BY Zenon
  <2> QED
    BY <2>1, <2>2
<1> HIDE DEF v
<1>2. \A c \in memories : Sound(j, vis, pass, V(c)) /\ (ctx = {} \/ Relation(c, ctx) # "proposal" => NoProposal(V(c)))
  BY JudgeSound
<1> HIDE DEF V
<1>3. (\A i \in v.kept : \E c \in memories : i \in V(c).kept)
      /\ (\A i \in v.pending : \E c \in memories : i \in V(c).pending)
  BY <1>1
<1>4. Sound(j, vis, pass, v)
  BY <1>2, <1>3 DEF Sound
<1>5. ctx = {} \/ (\A c \in memories : Relation(c, ctx) # "proposal") => NoProposal(v)
  BY <1>2, <1>3 DEF NoProposal
<1> QED
  BY <1>4, <1>5 DEF v

-----------------------------------------------------------------------------
(* What no step takes back.                                                *)

\* A registered row keeps its ordinal, and no row joins its group.
RowsStay ==
  \A p \in Proposals : prop[p].st # None =>
    /\ prop'[p].st # None /\ prop'[p].ord = prop[p].ord
    /\ \A q \in Proposals : prop'[q].job = prop'[p].job => prop[q].job = prop[p].job
Stable == UNCHANGED <<sent, said, domain>> /\ RowsStay

LEMMA SameRows == UNCHANGED <<sent, said, domain, prop>> => Stable
  BY DEF Stable, RowsStay

\* The steps that move rows.
LEMMA RowsMoved ==
  ASSUME [Next]_vars
  PROVE  \/ UNCHANGED <<sent, said, domain, prop>>
         \/ \E j \in Jobs : Register(j) \/ Lapse(j)
         \/ \E w \in Workers : Commit(w)
<1>1. ASSUME NEW j \in Jobs, RequestStep(j) \/ VictimRequest(j), ~Register(j)
      PROVE  UNCHANGED <<sent, said, domain, prop>>
  BY <1>1 DEF RequestStep, Submit, Record, LockUser, Supersede, VictimRequest
<1>2. ASSUME NEW w \in Workers, WorkerStep(w) \/ Outage(w) \/ Crash(w) \/ Victim(w), ~Commit(w)
      PROVE  UNCHANGED <<sent, said, domain, prop>>
  <2>1. Local
    <3>1. CASE (\E j \in Jobs : Begin(w, j)) \/ Persist(w) \/ Claim(w) \/ Cancel(w)
      BY <3>1 DEF Begin, Persist, Claim, Cancel
    <3>2. CASE Primary(w) \/ Repair(w) \/ Recover(w)
      BY <3>2 DEF Primary, Repair, Recover
    <3>3. CASE Store(w) \/ Finish(w) \/ Outage(w) \/ Crash(w) \/ Victim(w)
      BY <3>3 DEF Store, Finish, Outage, Crash, Victim
    <3> QED
      BY <1>2, <3>1, <3>2, <3>3 DEF WorkerStep
  <2> QED
    BY <2>1 DEF Local
<1>3. CASE UNCHANGED vars \/ Done
  BY <1>3 DEF vars, Done
<1> QED
  BY <1>1, <1>2, <1>3 DEF Next, RequestStep, WorkerStep

LEMMA NextStable ==
  ASSUME RegistryInv, [Next]_vars
  PROVE  Stable
<1>1. ASSUME NEW j \in Jobs, Register(j) PROVE Stable
  <2>1. CASE prop' = prop
    BY <1>1, <2>1, SameRows DEF Register
  <2>2. CASE prop' # prop
    <3>1. req'[j].pc = "done"
      BY <1>1, <2>2 DEF Register, RegistryInv, Shape
    <3>2. \A p \in Proposals :
              /\ prop[p].job # j
              /\ \/ prop[p].st = None /\ prop'[p].job = j
                 \/ prop'[p].st # None /\ prop'[p].job = prop[p].job /\ prop'[p].ord = prop[p].ord
                 \/ prop'[p] = prop[p]
      BY <1>1, <3>1, RegisterRows DEF None
    <3>3. RowsStay
      BY <3>2 DEF RowsStay
    <3> QED
      BY <1>1, <3>3 DEF Register, Stable
  <2> QED
    BY <2>1, <2>2
<1>2. ASSUME NEW j \in Jobs, Lapse(j) PROVE Stable
  <2>1. \A p \in Proposals : prop'[p] = IF prop[p].job = j THEN [prop[p] EXCEPT !.late = TRUE] ELSE prop[p]
    BY <1>2 DEF Lapse
  <2>2. \A p \in Proposals : prop'[p].st = prop[p].st /\ prop'[p].ord = prop[p].ord /\ prop'[p].job = prop[p].job
    BY <2>1 DEF RegistryInv, Shape
  <2> QED
    BY <1>2, <2>2 DEF Lapse, Stable, RowsStay
<1>3. ASSUME NEW w \in Workers, Commit(w) PROVE Stable
  <2>1. \A p \in Proposals : /\ prop'[p].ord = prop[p].ord /\ prop'[p].job = prop[p].job
                             /\ prop[p].st # None => prop'[p].st # None
    BY <1>3, CommitRows DEF None
  <2> QED
    BY <1>3, <2>1 DEF Commit, Stable, RowsStay
<1> QED
  BY <1>1, <1>2, <1>3, RowsMoved, SameRows

LEMMA StaysBacked ==
  ASSUME Stable
  PROVE  \A j, p : Backed(j, p) => Backed(j, p)'
<1> SUFFICES ASSUME NEW j, NEW p, Backed(j, p) PROVE Backed(j, p)'
  OBVIOUS
<1>1. p \in Proposals /\ prop[p].st # None /\ Answered(j, p)
  BY DEF Backed
<1>2. prop'[p].st # None /\ prop'[p].ord = prop[p].ord
      /\ \A q \in Proposals : prop'[q].job = prop'[p].job => prop[q].job = prop[p].job
  BY <1>1 DEF Stable, RowsStay
<1>3. UserPositions(j)' = UserPositions(j) /\ Place(j, p)' = Place(j, p) /\ (\A h : TextAt(j, h)' = TextAt(j, h))
  BY DEF Stable, UserPositions, Place, At, TextAt
<1>4. PICK h \in UserPositions(j) :
    /\ h > Place(j, p) /\ h - Place(j, p) <= Window
    /\ Denied(TextAt(j, h), prop[p].ord) /\ TextAt(j, h).denial
         => TextAt(j, h).picks = prop[p].ord /\ prop[p].ord \notin TextAt(j, h).denied
    /\ (\E q \in Proposals : q # p /\ prop[q].job = prop[p].job)
         => TextAt(j, h).picks = prop[p].ord \/ (TextAt(j, h).picks = 0 /\ prop[p].ord \in TextAt(j, h).names)
  BY <1>1, Zenon DEF Answered
<1>5. Answered(j, p)'
  BY <1>2, <1>3, <1>4 DEF Answered
<1> QED
  BY <1>1, <1>2, <1>5 DEF Backed

LEMMA StaysGroup ==
  ASSUME Stable
  PROVE  \A ctx : Group(ctx) => Group(ctx)'
  BY DEF Stable, RowsStay, Group

LEMMA StaysQuoted ==
  ASSUME Stable
  PROVE  \A j, vis, i : Quoted(j, vis, i) => Quoted(j, vis, i)'
  BY DEF Stable, Quoted

LEMMA RunStays ==
  ASSUME Stable
  PROVE  \A f : RunInv(f) => RunInv(f)'
<1> SUFFICES ASSUME NEW f, RunInv(f) PROVE RunInv(f)'
  OBVIOUS
<1>1. domain' = domain
  BY DEF Stable
<1>2. Context(f)'
  BY StaysGroup DEF RunInv, Context
<1>3. Carries(f)'
  BY StaysBacked DEF RunInv, Carries, Items, ItemShape
<1>4. Calls(f)'
  BY <1>1, StaysQuoted DEF RunInv, Calls, Items, Positions
<1>5. Final(f)'
  BY DEF RunInv, Final, Items
<1> QED
  BY <1>2, <1>3, <1>4, <1>5 DEF RunInv

LEMMA TalkStays ==
  ASSUME WordsInv, Stable
  PROVE  Conversation'
  BY DEF WordsInv, Conversation, Stable

\* A step of one worker disturbs only its own run.
LEMMA OneRun ==
  ASSUME WordsInv, Stable, NEW w \in Workers, NEW f, RunInv(f), work' = [work EXCEPT ![w] = f], DOMAIN work = Workers,
         saved' = saved
  PROVE  WordsInv'
<1>1. \A v \in Workers : RunInv(work'[v])
  BY DEF WordsInv
<1>2. \A v \in Workers : RunInv(work[v])'
  BY <1>1, RunStays
<1>3. DOMAIN saved' = Jobs /\ \A j \in Jobs : \A p \in saved'[j] : Backed(j, p)'
  BY StaysBacked DEF WordsInv
<1> QED
  BY <1>2, <1>3, TalkStays DEF WordsInv

LEMMA IdleRun == RunInv(Idle)
<1>1. Idle.pc = "idle" /\ Idle.ctx = {} /\ Idle.kept = {} /\ Idle.pending = {} /\ Idle.decision = None /\ Idle.won = {}
  BY DEF Idle
<1> QED
  BY <1>1 DEF RunInv, Context, Group, Carries, Calls, Final, Items, None

-----------------------------------------------------------------------------
(* The steps of a run.                                                     *)

LEMMA BeginWords ==
  ASSUME RegistryInv, WordsInv, NEW w \in Workers, NEW j \in Jobs, Begin(w, j)
  PROVE  WordsInv'
<1> DEFINE pc == IF Source[j] \/ UserPositions(j) # {} THEN "primary" ELSE "persist"
           f == [Idle EXCEPT !.job = j, !.ctx = ActiveGroup, !.pc = pc]
<1>1. /\ f.job = j /\ f.ctx = ActiveGroup /\ f.pc \in {"primary", "persist"} /\ f.kept = {} /\ f.pending = {}
      /\ f.won = {} /\ f.decision = None /\ f.vis = {} /\ f.blank = FALSE
  BY DEF Idle
<1>2. work' = [work EXCEPT ![w] = f] /\ UNCHANGED <<sent, said, domain, prop, saved>>
  BY DEF Begin, Keep, Local
<1> HIDE DEF f
<1>3. Group(ActiveGroup)
  <2>1. \A p \in ActiveGroup : p \in Proposals /\ prop[p].st = "active" /\ ~prop[p].late
    BY DEF ActiveGroup, Active
  <2>2. ASSUME NEW p \in ActiveGroup, NEW q \in Proposals, prop[q].job = prop[p].job PROVE q \in ActiveGroup
    <3>1. prop[q].st = "active" /\ prop[q].late = prop[p].late
      BY <2>1, <2>2 DEF RegistryInv, Whole
    <3>2. Active(q)
      BY <2>1, <3>1 DEF Active
    <3> QED
      BY <2>2, <3>2 DEF ActiveGroup
  <2> QED
    BY <2>1, <2>2 DEF Group, None
<1>4. RunInv(f)
  BY <1>1, <1>3 DEF RunInv, Context, Carries, Calls, Final, Items, None
<1> QED
  BY <1>2, <1>4, SameRows, OneRun DEF RegistryInv, Shape

\* Where a run that failed goes.
LEMMA ErrorRun ==
  ASSUME RegistryInv, WordsInv, NEW w \in Workers, work[w].pc \in {"primary", "repair"}, ExtractionError(w), Local
  PROVE  WordsInv'
<1> DEFINE f == [work[w] EXCEPT !.pc = "persist", !.kept = {}, !.pending = {}]
<1>1. DOMAIN work = Workers /\ DOMAIN work[w] = WorkFields /\ RunInv(work[w]) /\ work[w].won = {}
  BY DEF RegistryInv, Shape, RowsHeld, Locking, WordsInv
<1>2. /\ f.job = work[w].job /\ f.ctx = work[w].ctx /\ f.pc = "persist" /\ f.kept = {} /\ f.pending = {}
      /\ f.won = {}
  BY <1>1 DEF WorkFields
<1>3. UNCHANGED <<sent, said, domain, prop, saved>>
  BY DEF Local
<1>4. \/ domain /\ work' = [work EXCEPT ![w] = f]
      \/ work' = [work EXCEPT ![w] = Idle]
  BY DEF ExtractionError, Fail, Keep
<1> HIDE DEF f
<1>5. domain => RunInv(f)
  BY <1>1, <1>2 DEF RunInv, Context, Carries, Calls, Final, Items
<1> QED
  BY <1>1, <1>3, <1>4, <1>5, IdleRun, SameRows, OneRun

LEMMA FailWords ==
  ASSUME RegistryInv, WordsInv, NEW w \in Workers, Keep(w, Idle), Local
  PROVE  WordsInv'
<1>1. UNCHANGED <<sent, said, domain, prop, saved>> /\ work' = [work EXCEPT ![w] = Idle] /\ DOMAIN work = Workers
  BY DEF Local, Keep, RegistryInv, Shape
<1> QED
  BY <1>1, IdleRun, SameRows, OneRun

\* What a call found, before extract decides where to go.
CallAnswered(f) ==
  /\ DOMAIN f = WorkFields /\ f.job \in Jobs /\ Group(f.ctx) /\ f.won = {}
  /\ Carries(f) /\ f.vis \subseteq Positions(f.job)
  /\ \A i \in Items(f) : i.prop = None /\ ~Source[f.job] => Quoted(f.job, f.vis, i)
  /\ f.decision \in {"rejected", "ambiguous", "unrelated"} =>
       \A i \in Items(f) : i.prop = None /\ i.pass # "recovery"

LEMMA AfterRun ==
  ASSUME NEW f, CallAnswered(f), ~domain => ~f.blank
  PROVE  RunInv(After(f))
<1> DEFINE g == After(f)
<1>1. g = [f EXCEPT !.pc = "persist"] \/ (g = [f EXCEPT !.pc = "recover"]
        /\ Recovers(f.job, f.ctx, f.decision, f.kept, f.pending))
  BY DEF After
<1>2. g.pc = "persist" \/ (g.pc = "recover" /\ Recovers(f.job, f.ctx, f.decision, f.kept, f.pending))
  BY <1>1 DEF CallAnswered, WorkFields
<1>3. /\ g.job = f.job /\ g.ctx = f.ctx /\ g.vis = f.vis /\ g.kept = f.kept /\ g.pending = f.pending
      /\ g.decision = f.decision /\ g.won = f.won /\ g.blank = f.blank
  BY <1>1 DEF CallAnswered, WorkFields
<1>4. g.pc = "recover" => f.decision \notin {"rejected", "ambiguous", "unrelated"}
  BY <1>2 DEF Recovers
<1> HIDE DEF g
<1>5. Items(g) = Items(f)
  BY <1>3 DEF Items
<1>6. Context(g)
  BY <1>3 DEF CallAnswered, Context
<1>7. Carries(g)
  BY <1>3, <1>5 DEF CallAnswered, Carries
<1>8. Calls(g)
  <2>1. ~domain => ~g.blank
    BY <1>3
  <2> QED
    BY <1>2, <1>3, <1>5, <2>1 DEF CallAnswered, Calls
<1>9. Final(g)
  BY <1>3, <1>4, <1>5 DEF CallAnswered, Final
<1>10. RunInv(g)
  BY <1>6, <1>7, <1>8, <1>9 DEF RunInv
<1> QED
  BY <1>10 DEF g

LEMMA RepairWords ==
  ASSUME RegistryInv, WordsInv, NEW w \in Workers, Repair(w)
  PROVE  WordsInv'
<1> DEFINE j == work[w].job
           old == work[w]
           Par(a) == Parsed(j, work[w].vis, {}, IF a.nothing THEN {} ELSE a.memories, "repair")
           Found(a) == [work[w] EXCEPT !.kept = Par(a).kept, !.pending = Par(a).pending, !.blank = FALSE]
<1>1. work[w].pc = "repair" /\ Local
  BY DEF Repair
<1>2. PICK a \in Repairs[j] : ExtractionError(w) \/ Keep(w, After(Found(a)))
  BY Zenon DEF Repair
<1>3. DOMAIN work = Workers /\ DOMAIN work[w] = WorkFields /\ RunInv(work[w]) /\ work[w].won = {}
  BY <1>1 DEF RegistryInv, Shape, RowsHeld, Locking, WordsInv
<1>4. j \in Jobs /\ work[w].vis \in SUBSET Positions(j)
  BY <1>1, <1>3 DEF RunInv, Context, Calls
<1>5. Sound(j, work[w].vis, "repair", Par(a)) /\ NoProposal(Par(a))
  <2>1. Group({})
    BY DEF Group
  <2> QED
    BY <1>4, <2>1, ParsedSound
<1> DEFINE v == Par(a)
           f == Found(a)
<1>6. /\ DOMAIN f = WorkFields /\ f.job = j /\ f.ctx = work[w].ctx /\ f.vis = work[w].vis /\ f.won = {}
      /\ f.kept = v.kept /\ f.pending = v.pending /\ f.decision = work[w].decision /\ f.blank = FALSE
  BY <1>3 DEF WorkFields
<1> HIDE DEF f, v
<1>7. Sound(j, work[w].vis, "repair", v) /\ NoProposal(v)
  BY <1>5 DEF v
<1>8. CallAnswered(f)
  BY <1>3, <1>4, <1>6, <1>7 DEF CallAnswered, Carries, Items, Sound, NoProposal, RunInv, Context
<1>9. RunInv(After(f))
  BY <1>6, <1>8, AfterRun
<1>10. ExtractionError(w) \/ work' = [work EXCEPT ![w] = After(f)]
  BY <1>2 DEF Keep, f
<1>11. UNCHANGED <<sent, said, domain, prop, saved>>
  BY <1>1 DEF Local
<1> QED
  BY <1>1, <1>3, <1>9, <1>10, <1>11, ErrorRun, SameRows, OneRun

LEMMA RecoverWords ==
  ASSUME RegistryInv, WordsInv, NEW w \in Workers, Recover(w)
  PROVE  WordsInv'
<1> DEFINE j == work[w].job
           Bound(a) == {[c EXCEPT !.cites = {LatestUser(j)}, !.rel = "direct", !.pt = 0] :
                          c \in IF a.nothing THEN {} ELSE a.memories}
           Par(a) == Parsed(j, work[w].vis, {}, Bound(a), "recovery")
           Found(a) == [work[w] EXCEPT !.pc = "persist", !.kept = @ \cup Par(a).kept, !.pending = @ \cup Par(a).pending]
<1>1. work[w].pc = "recover" /\ Local
  BY DEF Recover
<1>2. PICK a \in Repairs[j] : Keep(w, Found(a))
  BY Zenon DEF Recover
<1>3. DOMAIN work = Workers /\ DOMAIN work[w] = WorkFields /\ RunInv(work[w]) /\ work[w].won = {}
  BY <1>1 DEF RegistryInv, Shape, RowsHeld, Locking, WordsInv
<1>4. j \in Jobs /\ work[w].vis \in SUBSET Positions(j)
  BY <1>1, <1>3 DEF RunInv, Context, Calls
<1>5. Sound(j, work[w].vis, "recovery", Par(a)) /\ NoProposal(Par(a))
  <2>1. Group({})
    BY DEF Group
  <2> HIDE DEF Bound
  <2> QED
    BY <1>4, <2>1, ParsedSound
<1> DEFINE v == Par(a)
           f == Found(a)
<1>6. /\ f.pc = "persist" /\ f.job = j /\ f.ctx = work[w].ctx /\ f.vis = work[w].vis /\ f.won = {}
      /\ f.kept = work[w].kept \cup v.kept /\ f.pending = work[w].pending \cup v.pending
      /\ f.decision = work[w].decision /\ f.blank = work[w].blank
  BY <1>3 DEF WorkFields
<1> HIDE DEF f, v
<1>7. Sound(j, work[w].vis, "recovery", v) /\ NoProposal(v)
  BY <1>5 DEF v
<1>8. Context(f)
  BY <1>3, <1>4, <1>6 DEF RunInv, Context
<1>9. Carries(f)
  BY <1>3, <1>6, <1>7 DEF RunInv, Carries, Items, Sound
<1>10. Calls(f)
  <2>1. (~domain => ~f.blank) /\ f.pc = "persist"
    BY <1>1, <1>3, <1>6 DEF RunInv, Calls
  <2>2. \A i \in Items(f) : i.prop = None /\ ~Source[j] => Quoted(j, work[w].vis, i)
    BY <1>1, <1>3, <1>6, <1>7 DEF RunInv, Calls, Items, Sound
  <2> QED
    BY <1>6, <2>1, <2>2 DEF Calls
<1>11. Final(f)
  BY <1>1, <1>3, <1>6 DEF RunInv, Final
<1>12. RunInv(f) /\ work' = [work EXCEPT ![w] = f]
  BY <1>2, <1>8, <1>9, <1>10, <1>11 DEF RunInv, Keep, f
<1>13. UNCHANGED <<sent, said, domain, prop, saved>>
  BY <1>1 DEF Local
<1> QED
  BY <1>3, <1>12, <1>13, SameRows, OneRun

LEMMA OutageWords ==
  ASSUME RegistryInv, WordsInv, NEW w \in Workers, Outage(w)
  PROVE  WordsInv'
<1>1. Local
  BY DEF Outage
<1>2. CASE work[w].pc \in {"primary", "repair"} /\ ExtractionError(w)
  BY <1>1, <1>2, ErrorRun
<1>3. CASE work[w].pc = "recover" /\ Keep(w, [work[w] EXCEPT !.pc = "persist"])
  <2> DEFINE f == [work[w] EXCEPT !.pc = "persist"]
  <2>1. DOMAIN work = Workers /\ DOMAIN work[w] = WorkFields /\ RunInv(work[w])
    BY DEF RegistryInv, Shape, WordsInv
  <2>2. /\ f.job = work[w].job /\ f.ctx = work[w].ctx /\ f.vis = work[w].vis /\ f.won = work[w].won
        /\ f.kept = work[w].kept /\ f.pending = work[w].pending
        /\ f.decision = work[w].decision /\ f.blank = work[w].blank /\ f.pc = "persist"
    BY <2>1 DEF WorkFields
  <2>3. work' = [work EXCEPT ![w] = f] /\ UNCHANGED <<sent, said, domain, prop, saved>>
    BY <1>1, <1>3 DEF Keep, Local
  <2> HIDE DEF f
  <2>4. Context(f) /\ Carries(f) /\ Final(f)
    BY <1>3, <2>1, <2>2 DEF RunInv, Context, Carries, Final, Items
  <2>5. Calls(f)
    <3>1. ~domain => ~f.blank
      BY <1>3, <2>1, <2>2 DEF RunInv, Calls
    <3> QED
      BY <1>3, <2>1, <2>2, <3>1 DEF RunInv, Calls, Items
  <2>6. RunInv(f)
    BY <2>4, <2>5 DEF RunInv
  <2> QED
    BY <2>1, <2>3, <2>6, SameRows, OneRun
<1> QED
  BY <1>2, <1>3 DEF Outage

\* The first call: what it confirmed the user answered, and an answer without content and without
\* a word of that is asked for again.
LEMMA PrimaryWords ==
  ASSUME RegistryInv, WordsInv, NEW w \in Workers, Primary(w)
  PROVE  WordsInv'
<1> DEFINE j == work[w].job
           ctx == work[w].ctx
           Res(a, vis) == Resolution(j, vis, work[w].ctx, a)
           Par(a, vis) == Parsed(j, vis, work[w].ctx, Considered(a, Res(a, vis)), "primary")
           Tak(a, vis) == IF Res(a, vis).memory = None THEN {}
                          ELSE {[turn |-> None, prop |-> Res(a, vis).memory, doubt |-> FALSE, pass |-> "primary"]}
           Found(a, vis) == [work[w] EXCEPT !.vis = vis, !.kept = Par(a, vis).kept \cup Tak(a, vis),
                     !.pending = Par(a, vis).pending, !.decision = Res(a, vis).decision,
                     !.clar = Clarified(j, vis, a), !.blank = Inconsistent(a)]
           Bare(g) == g.kept = {} /\ g.pending = {} /\ ~g.clar
           Asks(a, g) == Bare(g) /\ (Inconsistent(a) \/ (a.clar # 0 /\ ~Source[j]))
<1>1. work[w].pc = "primary" /\ Local
  BY DEF Primary
<1>2. PICK a \in Answers[j], vis \in Cuts[j] :
        \E g \in {Found(a, vis)} :
          IF Bare(g) /\ Inconsistent(a) /\ Source[j] THEN ExtractionError(w)
          ELSE /\ Keep(w, IF Asks(a, g) THEN [g EXCEPT !.pc = "repair"] ELSE After(g))
               /\ UNCHANGED job
  BY Zenon DEF Primary
<1>3. DOMAIN work = Workers /\ DOMAIN work[w] = WorkFields /\ RunInv(work[w]) /\ work[w].won = {}
  BY <1>1 DEF RegistryInv, Shape, RowsHeld, Locking, WordsInv
<1>4. j \in Jobs /\ Group(ctx)
  BY <1>1, <1>3 DEF RunInv, Context
<1>5. vis \in SUBSET Positions(j)
  BY <1>2, <1>4, ExtractionAssumption
<1> DEFINE res == Res(a, vis)
           par == Par(a, vis)
           tak == Tak(a, vis)
           f == Found(a, vis)
<1>6. /\ DOMAIN f = WorkFields /\ f.job = j /\ f.ctx = ctx /\ f.vis = vis /\ f.won = {}
      /\ f.kept = par.kept \cup tak /\ f.pending = par.pending /\ f.decision = res.decision
      /\ f.clar = Clarified(j, vis, a) /\ f.blank = Inconsistent(a)
  <2> HIDE DEF Par, Tak, Res
  <2> QED
    BY <1>3 DEF WorkFields
<1>7. ExtractionError(w) \/ (Asks(a, f) /\ Keep(w, [f EXCEPT !.pc = "repair"])) \/ (~Asks(a, f) /\ Keep(w, After(f)))
  BY <1>2, Zenon
<1>8. Sound(j, vis, "primary", par)
  <2> HIDE DEF Res
  <2> QED
    BY <1>4, <1>5, ParsedSound
<1>9. res.decision # None => NoProposal(par)
  <2> SUFFICES ASSUME res.decision # None PROVE NoProposal(par)
    OBVIOUS
  <2>1. \A c \in Considered(a, res) : Relation(c, ctx) # "proposal"
    BY DEF Considered, Relation
  <2> HIDE DEF res
  <2>2. NoProposal(Parsed(j, vis, ctx, Considered(a, res), "primary"))
    BY <1>4, <1>5, <2>1, ParsedSound
  <2> QED
    BY <2>2 DEF res
<1>10. \A i \in tak : /\ DOMAIN i = {"turn", "prop", "doubt", "pass"} /\ i.prop = res.memory /\ i.pass = "primary"
                      /\ res.memory # None
  <2> HIDE DEF Res
  <2> QED
    OBVIOUS
<1>11. res.memory # None => Backed(j, res.memory) /\ res.decision = "confirmed"
  BY <1>4, <1>5, Chosen
<1> HIDE DEF res, par, tak, f
<1>12. \A i \in tak : ItemShape(i) /\ i.prop # None /\ i.pass = "primary" /\ Backed(j, i.prop)
  BY <1>10, <1>11 DEF ItemShape, Backed
<1>13. Items(f) = par.kept \cup par.pending \cup tak
  BY <1>6 DEF Items
<1>14. Carries(f)
  <2>1. \A i \in Items(f) : ItemShape(i)
    BY <1>8, <1>12, <1>13 DEF Sound
  <2>2. (\A i \in f.kept : i.prop # None => Backed(j, i.prop))
        /\ (\A i \in f.pending : i.prop # None /\ i.doubt => Backed(j, i.prop))
    BY <1>6, <1>8, <1>12 DEF Sound
  <2> QED
    BY <1>6, <2>1, <2>2 DEF Carries
<1>15. \A i \in Items(f) : i.prop = None /\ ~Source[j] => Quoted(j, vis, i)
  BY <1>8, <1>12, <1>13 DEF Sound
<1>16. f.decision \in {"rejected", "ambiguous", "unrelated"} => \A i \in Items(f) : i.prop = None /\ i.pass # "recovery"
  <2> SUFFICES ASSUME f.decision \in {"rejected", "ambiguous", "unrelated"}, NEW i \in Items(f)
               PROVE  i.prop = None /\ i.pass # "recovery"
    OBVIOUS
  <2>1. res.decision # None /\ res.decision # "confirmed"
    BY <1>6 DEF None
  <2>2. i \in par.kept \cup par.pending
    BY <1>10, <1>11, <1>13, <2>1
  <2> QED
    BY <1>8, <1>9, <2>1, <2>2 DEF Sound, NoProposal
<1>17. CallAnswered(f)
  BY <1>3, <1>4, <1>5, <1>6, <1>14, <1>15, <1>16 DEF CallAnswered
<1>18. Inconsistent(a) => Asks(a, f)
  <2> SUFFICES ASSUME Inconsistent(a) PROVE Bare(f)
    OBVIOUS
  <2>1. a.decision = None /\ a.memories = {} /\ a.clar = 0
    BY DEF Inconsistent
  <2>2. res.memory = None /\ Considered(a, res) = {}
    BY <2>1 DEF Resolution, Considered, res
  <2>3. tak = {}
    BY <2>2 DEF tak, res
  <2>4. par = Parsed(j, vis, ctx, {}, "primary")
    BY <2>2 DEF par, res
  <2>5. par.kept = {} /\ par.pending = {}
    BY <2>4 DEF Parsed
  <2>6. ~Clarified(j, vis, a)
    <3>1. 0 \notin UserPositions(j)
      BY <1>4, PositionsFinite DEF UserPositions
    <3> QED
      BY <2>1, <3>1 DEF Clarified
  <2>7. ~f.clar
    BY <1>6, <2>6
  <2> QED
    BY <1>6, <2>3, <2>5, <2>7
<1>19. UNCHANGED <<sent, said, domain, prop, saved>>
  BY <1>1 DEF Local
<1>20. CASE ExtractionError(w)
  BY <1>1, <1>20, ErrorRun
<1>21. CASE Asks(a, f) /\ Keep(w, [f EXCEPT !.pc = "repair"])
  <2> DEFINE g == [f EXCEPT !.pc = "repair"]
  <2>1. /\ g.job = j /\ g.ctx = ctx /\ g.vis = vis /\ g.won = {} /\ g.pc = "repair"
        /\ g.kept = {} /\ g.pending = {}
    BY <1>6, <1>21 DEF WorkFields
  <2> HIDE DEF g
  <2>2. RunInv(g)
    BY <1>4, <1>5, <2>1 DEF RunInv, Context, Carries, Calls, Final, Items
  <2>3. work' = [work EXCEPT ![w] = g]
    BY <1>21 DEF Keep, g
  <2> QED
    BY <1>3, <1>19, <2>2, <2>3, SameRows, OneRun
<1>22. CASE ~Asks(a, f) /\ Keep(w, After(f))
  <2>1. ~f.blank
    BY <1>6, <1>18, <1>22
  <2>2. RunInv(After(f)) /\ work' = [work EXCEPT ![w] = After(f)]
    BY <1>17, <1>22, <2>1, AfterRun DEF Keep
  <2> QED
    BY <1>3, <1>19, <2>2, SameRows, OneRun
<1> QED
  BY <1>7, <1>20, <1>21, <1>22

\* How a memory was found plays no part from here on, and what is held for review is not stored.
LEMMA PersistWords ==
  ASSUME RegistryInv, WordsInv, NEW w \in Workers, Persist(w)
  PROVE  WordsInv'
<1> DEFINE doubtful == {i \in work[w].pending : i.doubt}
           regular == work[w].pending \ doubtful
           known == IF regular = {} THEN {} ELSE waiting
           f == [Idle EXCEPT !.job = work[w].job, !.pc = "claim", !.kept = Plain(work[w].kept \cup doubtful),
                             !.pending = Plain(regular), !.known = known]
<1>1. work[w].pc = "persist" /\ work' = [work EXCEPT ![w] = f] /\ UNCHANGED <<sent, said, domain, prop, saved>>
  BY Zenon DEF Persist, Keep, Local
<1>2. DOMAIN work = Workers /\ RunInv(work[w])
  BY DEF RegistryInv, Shape, WordsInv
<1>3. /\ f.job = work[w].job /\ f.pc = "claim" /\ f.ctx = {} /\ f.won = {} /\ f.decision = None
      /\ f.kept = Plain(work[w].kept \cup doubtful) /\ f.pending = Plain(regular)
  <2> HIDE DEF regular, doubtful, known
  <2> QED
    BY DEF Idle
<1>4. ASSUME NEW i, ItemShape(i)
      PROVE  LET k == [i EXCEPT !.doubt = FALSE, !.pass = None] IN ItemShape(k) /\ k.prop = i.prop /\ k.doubt = FALSE
  BY <1>4 DEF ItemShape
<1>5. \A i \in work[w].kept \cup work[w].pending : ItemShape(i)
  BY <1>2 DEF RunInv, Carries, Items
<1>6. \A k \in f.kept : ItemShape(k) /\ (k.prop # None => Backed(work[w].job, k.prop))
  <2> SUFFICES ASSUME NEW k \in f.kept PROVE ItemShape(k) /\ (k.prop # None => Backed(work[w].job, k.prop))
    OBVIOUS
  <2>1. PICK i \in work[w].kept \cup doubtful : k = [i EXCEPT !.doubt = FALSE, !.pass = None]
    BY <1>3 DEF Plain
  <2>2. ItemShape(k) /\ k.prop = i.prop
    BY <1>4, <1>5, <2>1
  <2>3. i.prop # None => Backed(work[w].job, i.prop)
    BY <1>2, <2>1, Zenon DEF RunInv, Carries
  <2> QED
    BY <2>2, <2>3
<1>7. \A k \in f.pending : ItemShape(k) /\ k.doubt = FALSE
  <2> SUFFICES ASSUME NEW k \in f.pending PROVE ItemShape(k) /\ k.doubt = FALSE
    OBVIOUS
  <2>1. PICK i \in regular : k = [i EXCEPT !.doubt = FALSE, !.pass = None]
    BY <1>3 DEF Plain
  <2> QED
    BY <1>4, <1>5, <2>1
<1> HIDE DEF f
<1>8. RunInv(f)
  <2>1. Context(f)
    BY <1>1, <1>2, <1>3 DEF RunInv, Context, Group
  <2>2. Carries(f)
    BY <1>3, <1>6, <1>7 DEF Carries, Items
  <2>3. Calls(f) /\ Final(f)
    BY <1>3 DEF Calls, Final, None
  <2> QED
    BY <2>1, <2>2, <2>3 DEF RunInv
<1> QED
  BY <1>1, <1>2, <1>8, SameRows, OneRun

LEMMA LockingWords ==
  ASSUME RegistryInv, WordsInv, NEW w \in Workers, Claim(w) \/ Cancel(w) \/ Store(w)
  PROVE  WordsInv'
<1>1. UNCHANGED <<sent, said, domain, prop, saved>> /\ work[w].pc \in {"claim", "cancel"} /\ Local
  BY DEF Claim, Cancel, Store, Local
<1>2. DOMAIN work = Workers /\ DOMAIN work[w] = WorkFields /\ RunInv(work[w])
  BY DEF RegistryInv, Shape, WordsInv
<1>3. ASSUME NEW f, f.job = work[w].job, f.ctx = work[w].ctx, f.decision = work[w].decision,
             f.kept \subseteq work[w].kept, f.pending = work[w].pending, f.pc \in Locking,
             \A p \in f.won : p \in work[w].won \/ p \in Confirmed(w)
      PROVE  RunInv(f)
  <2>1. \A p \in Confirmed(w) : Backed(work[w].job, p)
    BY <1>2 DEF Confirmed, RunInv, Carries
  <2>2. Context(f)
    BY <1>1, <1>2, <1>3 DEF RunInv, Context, Locking
  <2>3. Carries(f)
    BY <1>2, <1>3, <2>1 DEF RunInv, Carries, Items
  <2>4. Calls(f)
    BY <1>3 DEF Calls, Locking
  <2>5. Final(f)
    BY <1>2, <1>3 DEF RunInv, Final, Items, Locking
  <2> QED
    BY <2>2, <2>3, <2>4, <2>5 DEF RunInv
<1>4. CASE Claim(w)
  <2>1. PICK p \in Unclaimed(w) :
          \/ Keep(w, [work[w] EXCEPT !.won = @ \cup {p}, !.pc = "cancel"])
          \/ Keep(w, [work[w] EXCEPT !.kept = {i \in @ : i.prop # p}])
    BY <1>4 DEF Claim
  <2> DEFINE f == [work[w] EXCEPT !.won = @ \cup {p}, !.pc = "cancel"]
             g == [work[w] EXCEPT !.kept = {i \in @ : i.prop # p}]
  <2>2. RunInv(f)
    <3>1. /\ f.job = work[w].job /\ f.ctx = work[w].ctx /\ f.decision = work[w].decision
          /\ f.kept = work[w].kept /\ f.pending = work[w].pending /\ f.pc = "cancel" /\ f.won = work[w].won \cup {p}
      BY <1>2 DEF WorkFields
    <3> HIDE DEF f
    <3>2. p \in Confirmed(w)
      BY <2>1 DEF Unclaimed
    <3> QED
      BY <1>3, <3>1, <3>2 DEF Locking
  <2>3. RunInv(g)
    <3>1. /\ g.job = work[w].job /\ g.ctx = work[w].ctx /\ g.decision = work[w].decision
          /\ g.kept = {i \in work[w].kept : i.prop # p} /\ g.pending = work[w].pending /\ g.pc = work[w].pc
          /\ g.won = work[w].won
      BY <1>2 DEF WorkFields
    <3> HIDE DEF g
    <3> QED
      BY <1>1, <1>3, <3>1 DEF Locking
  <2>4. work' = [work EXCEPT ![w] = f] \/ work' = [work EXCEPT ![w] = g]
    BY <2>1 DEF Keep
  <2> HIDE DEF f, g
  <2> QED
    BY <1>1, <1>2, <2>2, <2>3, <2>4, SameRows, OneRun
<1>5. ASSUME NEW pc \in {"claim", "commit"}, Keep(w, [work[w] EXCEPT !.pc = pc]) PROVE WordsInv'
  <2> DEFINE f == [work[w] EXCEPT !.pc = pc]
  <2>1. /\ f.job = work[w].job /\ f.ctx = work[w].ctx /\ f.decision = work[w].decision
        /\ f.kept = work[w].kept /\ f.pending = work[w].pending /\ f.pc \in Locking /\ f.won = work[w].won
    BY <1>2 DEF WorkFields, Locking
  <2>2. work' = [work EXCEPT ![w] = f]
    BY <1>5 DEF Keep
  <2> HIDE DEF f
  <2>3. RunInv(f)
    BY <1>3, <2>1
  <2> QED
    BY <1>1, <1>2, <2>2, <2>3, SameRows, OneRun
<1>6. CASE Cancel(w)
  BY <1>5, <1>6 DEF Cancel
<1>7. CASE Store(w)
  BY <1>1, <1>5, <1>7, FailWords DEF Store, Fail
<1> QED
  BY <1>4, <1>6, <1>7

LEMMA CommitWords ==
  ASSUME RegistryInv, WordsInv, NEW w \in Workers, Commit(w)
  PROVE  WordsInv'
<1> DEFINE j == work[w].job
           f == [Idle EXCEPT !.job = j, !.pc = "finish"]
<1>1. work[w].pc = "commit" /\ work' = [work EXCEPT ![w] = f] /\ saved' = [saved EXCEPT ![j] = @ \cup work[w].won]
  BY DEF Commit, Keep
<1>2. DOMAIN work = Workers /\ RunInv(work[w]) /\ DOMAIN saved = Jobs
  BY DEF RegistryInv, Shape, WordsInv
<1>3. Stable
  BY NextStable DEF Next, WorkerStep
<1>4. /\ f.job = j /\ f.pc = "finish" /\ f.ctx = {} /\ f.kept = {} /\ f.pending = {} /\ f.decision = None /\ f.won = {}
  BY DEF Idle
<1> HIDE DEF f
<1>5. j \in Jobs /\ \A p \in work[w].won : Backed(j, p)
  BY <1>1, <1>2 DEF RunInv, Context, Carries
<1>6. RunInv(f)
  BY <1>4, <1>5 DEF RunInv, Context, Group, Carries, Calls, Final, Items, None
<1>7. \A v \in Workers : RunInv(work[v])'
  <2>1. \A v \in Workers : RunInv(work'[v])
    BY <1>1, <1>2, <1>6 DEF WordsInv
  <2> QED
    BY <1>3, <2>1, RunStays
<1>8. DOMAIN saved' = Jobs /\ \A i \in Jobs : \A p \in saved'[i] : Backed(i, p)
  <2> HIDE DEF j
  <2> QED
    BY <1>1, <1>2, <1>5 DEF WordsInv
<1>9. \A i \in Jobs : \A p \in saved'[i] : Backed(i, p)'
  BY <1>3, <1>8, StaysBacked
<1> QED
  BY <1>3, <1>7, <1>8, <1>9, TalkStays DEF WordsInv

\* Steps of a request, or of time.
LEMMA OtherWords ==
  ASSUME WordsInv, Stable, UNCHANGED <<work, saved>>
  PROVE  WordsInv'
<1>1. \A v \in Workers : RunInv(work[v])'
  BY RunStays DEF WordsInv
<1>2. DOMAIN saved' = Jobs /\ \A j \in Jobs : \A p \in saved'[j] : Backed(j, p)'
  BY StaysBacked DEF WordsInv
<1> QED
  BY <1>1, <1>2, TalkStays DEF WordsInv

LEMMA WordsInit == Init => WordsInv
<1> SUFFICES ASSUME Init PROVE WordsInv
  OBVIOUS
<1>1. Conversation
  BY DEF Init, Conversation
<1>2. \A w \in Workers : RunInv(work[w])
  BY IdleRun DEF Init
<1>3. DOMAIN saved = Jobs /\ \A j \in Jobs : saved[j] = {}
  BY DEF Init
<1> QED
  BY <1>1, <1>2, <1>3 DEF WordsInv

LEMMA WordsStep ==
  ASSUME RegistryInv, WordsInv, [Next]_vars
  PROVE  WordsInv'
<1>1. CASE UNCHANGED vars \/ Done
  BY <1>1, NextStable, OtherWords DEF vars, Done
<1>2. ASSUME NEW j \in Jobs, RequestStep(j) \/ Lapse(j) \/ VictimRequest(j) PROVE WordsInv'
  <2>1. UNCHANGED <<work, saved>>
    BY <1>2 DEF RequestStep, Submit, Record, LockUser, Supersede, Register, Lapse, VictimRequest
  <2> QED
    BY <2>1, NextStable, OtherWords
<1>3. ASSUME NEW w \in Workers, WorkerStep(w) \/ Outage(w) \/ Crash(w) \/ Victim(w) PROVE WordsInv'
  <2>1. CASE (\E j \in Jobs : Begin(w, j)) \/ Primary(w) \/ Repair(w) \/ Recover(w) \/ Outage(w)
    BY <2>1, BeginWords, PrimaryWords, RepairWords, RecoverWords, OutageWords
  <2>2. CASE Persist(w) \/ Claim(w) \/ Cancel(w) \/ Store(w) \/ Commit(w)
    BY <2>2, PersistWords, LockingWords, CommitWords
  <2>3. CASE Finish(w) \/ Crash(w) \/ Victim(w)
    <3>1. Keep(w, Idle) /\ Local
      BY <2>3 DEF Finish, Crash, Victim, Fail
    <3> QED
      BY <3>1, FailWords
  <2> QED
    BY <1>3, <2>1, <2>2, <2>3 DEF WorkerStep
<1> QED
  BY <1>1, <1>2, <1>3 DEF Next

-----------------------------------------------------------------------------
(* The theorems.                                                           *)

\* The registry of proposals with its row locks, and what every run carries, stay as the
\* two invariants say (_persist_evidence_ledger, _claim_confirmed_proposals, extract).
THEOREM RegistryHeld == Spec => [](RegistryInv /\ WordsInv)
<1>1. Init => RegistryInv /\ WordsInv
  BY RegistryInit, WordsInit
<1>2. (RegistryInv /\ WordsInv) /\ [Next]_vars => (RegistryInv /\ WordsInv)'
  BY RegistryStep, WordsStep
<1> QED
  BY <1>1, <1>2, PTL DEF Spec

\* However many requests register proposals and runs claim them at once, fail after their
\* commit or are tried again: one window is open, at most one proposal of a group is accepted,
\* and its memory is stored exactly once (_persist_evidence_ledger, _claim_confirmed_proposals).
THEOREM OneMemory == Spec => []ProposalsOnce
<1>1. RegistryInv /\ WordsInv => ProposalsOnce
  BY DEF RegistryInv
<1> QED
  BY <1>1, RegistryHeld, PTL

\* A proposal that was accepted, cancelled or superseded is never opened or decided again,
\* neither by a late run nor by a new request nor by its hour (memory_proposals).
THEOREM Resolved == Spec => ResolvedForGood
<1>1. ASSUME RegistryInv, WordsInv, [Next]_vars, NEW p \in Proposals, prop[p].st \notin {None, "active"}
      PROVE  prop'[p] = prop[p]
  <2>1. ASSUME NEW j \in Jobs, Register(j) PROVE prop'[p] = prop[p]
    <3>1. CASE req'[j].pc = "done"
      BY <1>1, <2>1, <3>1, RegisterRows
    <3>2. CASE req'[j].pc # "done"
      BY <1>1, <2>1, <3>2 DEF Register, RegistryInv, Shape
    <3> QED
      BY <3>1, <3>2
  <2>2. ASSUME NEW j \in Jobs, Lapse(j) PROVE prop'[p] = prop[p]
    <3>1. PICK q \in Proposals : prop[q].job = j /\ prop[q].st = "active"
      BY <2>2 DEF Lapse, Active
    <3>2. prop[p].job # j
      BY <1>1, <3>1 DEF RegistryInv, Whole
    <3> QED
      BY <2>2, <3>2 DEF Lapse
  <2>3. ASSUME NEW w \in Workers, Commit(w) PROVE prop'[p] = prop[p]
    BY <1>1, <2>3, CommitRows
  <2>4. \/ prop' = prop
        \/ \E j \in Jobs : Register(j) \/ Lapse(j)
        \/ \E w \in Workers : Commit(w)
    BY <1>1, RowsMoved
  <2> QED
    BY <2>1, <2>2, <2>3, <2>4
<1>2. RegistryInv /\ WordsInv /\ [Next]_vars
        => [\A p \in Proposals : prop[p].st \notin {None, "active"} => prop'[p] = prop[p]]_vars
  BY <1>1
<1> QED
  BY <1>2, RegistryHeld, PTL DEF Spec, ResolvedForGood

\* Whatever the model answers, in whatever order the calls fail and the rows move: a stored
\* proposal was answered by the user within the window and told from its siblings, what is
\* kept besides are the user's own words, a decision is final, and no empty answer passes for
\* a finished run (evidence_policy.py, _resolve_structured_proposal_confirmation, extract).
THEOREM Spoken == Spec => []UserSaidIt
<1>1. ASSUME RegistryInv, WordsInv PROVE UserSaidIt
  <2>1. AnsweredByUser
    BY <1>1 DEF AnsweredByUser, WordsInv, Backed
  <2>2. OwnWords
    BY <1>1 DEF OwnWords, WordsInv, RunInv, Calls, Items, Quoted
  <2>3. DecisionFinal
    BY <1>1 DEF DecisionFinal, WordsInv, RunInv, Final, Items
  <2>4. NeverSilent
    BY <1>1 DEF NeverSilent, WordsInv, RunInv, Calls
  <2> QED
    BY <2>1, <2>2, <2>3, <2>4 DEF UserSaidIt
<1> QED
  BY <1>1, RegistryHeld, PTL
=============================================================================
