--------------------------- MODULE MemoryExtraction ---------------------------
(***************************************************************************)
(* What becomes of the turns of one conversation: a request records the    *)
(* turns and opens a window of memory proposals (memory_service.py), a     *)
(* worker extracts with up to three calls of a language model              *)
(* (extraction_service.py), every answer passes the evidence policy        *)
(* (evidence_policy.py), and one transaction claims the confirmed proposal *)
(* and stores what is left (extraction_tasks.py).                          *)
(*                                                                         *)
(* Live confirmation is on, and every proposal carries the memory it       *)
(* proposes.  A user turn is the signals the patterns find in its text; an *)
(* answer of the model is any member of Answers: what it cites, quotes and *)
(* decides need not be true.  The pre-pass that looks for compositions and *)
(* the shadow observers change nothing here and are left out.              *)
(***************************************************************************)
EXTENDS Naturals, Sequences, FiniteSets, FiniteSetsExt

CONSTANTS Jobs,        \* 1 .. n
          Workers,
          Users,       \* turns in which the user speaks
          Proposals,   \* assistant turns that propose a memory
          Length,      \* Length[j]: how many turns the transcript of job j has
          Conversations, \* the transcripts, the texts of the user, and whether the tenant has a
                         \* domain schema
          Answers,     \* Answers[j]: the answers of the first call
          Repairs,     \* Repairs[j]: the answers of a repair or a recovery call
          Source,      \* Source[j]: job j carries an authenticated source event
          Cuts,        \* Cuts[j]: the intervals of the transcript that fit the prompt
          Copies,      \* Copies[j]: bound: workers that hold job j at once
          Window,      \* the turns after which a proposal is out of reach
          MaxAttempts, \* DEFAULT_MAX_EXTRACTION_ATTEMPTS
          MaxEvents    \* bound: crashes, outages, failed cache writes and lapsed windows

None == "none"
Positions(j) == 1 .. Length[j]
\* The signals of a text: denied ordinals, a denial of everything, any denial,
\* the ordinal it picks, the ordinals its words single out, a replacement.
Text == [denied : SUBSET (1 .. 2), denyAll : BOOLEAN, denial : BOOLEAN, picks : 0 .. 2,
         names : SUBSET (1 .. 2), replaces : BOOLEAN, question : BOOLEAN]
\* A memory as the model returns it: what it cites, the relation it claims, the
\* proposal it points at, the turn whose words it quotes, whether those words are
\* also the proposal's.
Candidate(j) == [cites : SUBSET Positions(j), rel : {"direct", "proposal", "other"},
                 pt : Positions(j) \cup {0}, quote : Positions(j) \cup {0}, echo : BOOLEAN,
                 state : {"asserted", "uncertain_change", "invalid"}, conf : {"high", "low", "drop"}]
Decisions == {"confirmed", "rejected", "ambiguous", "unrelated"}
Answer(j) == [memories : SUBSET Candidate(j), nothing : BOOLEAN, decision : Decisions \cup {None},
              ordinal : 0 .. 2, evidence : BOOLEAN, clar : Positions(j) \cup {0}, pair : BOOLEAN]

ASSUME ExtractionAssumption ==
  /\ IsFiniteSet(Jobs) /\ Jobs = 1 .. Cardinality(Jobs)
  /\ IsFiniteSet(Proposals) /\ None \notin Users \cup Proposals
  /\ Length \in [Jobs -> Nat]
  /\ \A j \in Jobs : /\ Source[j] \in BOOLEAN
                     /\ \A c \in Cuts[j] : c \subseteq Positions(j)
                     /\ \A a \in Answers[j] : \A m \in a.memories : m.cites \subseteq Positions(j)
  /\ \A c \in Conversations :
       /\ \A j \in Jobs : c.sent[j] \in [Positions(j) -> Users \cup Proposals \cup {None}]
       /\ c.said \in [Users -> Text] /\ c.domain \in BOOLEAN
  /\ Copies \in [Jobs -> Nat] /\ {Window, MaxAttempts, MaxEvents} \subseteq Nat

VARIABLES
  sent,    \* sent[j]: the transcript of job j, a sequence of turns
  said,    \* said[u]: the text of user turn u
  domain,  \* the tenant has a domain schema
  prop,    \* prop[p]: the memory_proposals row of a turn
  req,     \* req[j]: the request that submits job j
  job,     \* job[j]: its status and attempts
  work,    \* work[w]: a worker inside the pipeline
  saved,   \* saved[j]: the proposals whose memory a run of job j stored
  taken,   \* taken[p]: how many committed runs stored the memory of proposal p
  waiting, \* the pending candidates, by content
  events   \* how much of MaxEvents is used

vars == <<sent, said, domain, prop, req, job, work, saved, taken, waiting, events>>

\* A memory on its way: the user's words it quotes or the proposal it takes, the
\* call that brought it, and whether the user was unsure of the change.
Item == [turn : Users \cup {None}, prop : Proposals \cup {None}, doubt : BOOLEAN,
         pass : {"primary", "repair", "recovery", None}]
Row == [st : {None, "active", "accepted", "cancelled", "superseded"}, job : Jobs \cup {0},
        ord : 0 .. 2, late : BOOLEAN]
Request == [pc : {"new", "flushed", "locked", "replacing", "done", "refused"},
            seen : SUBSET Proposals, old : SUBSET Proposals]
Work == [pc : {"idle", "primary", "repair", "recover", "persist", "claim", "cancel", "commit",
               "finish"},
         job : Jobs \cup {0}, ctx : SUBSET Proposals, vis : SUBSET Nat,
         kept : SUBSET Item, pending : SUBSET Item, decision : Decisions \cup {None},
         clar : BOOLEAN, blank : BOOLEAN, won : SUBSET Proposals,
         known : SUBSET (Users \cup Proposals \cup {None})]

Idle == [pc |-> "idle", job |-> 0, ctx |-> {}, vis |-> {}, kept |-> {}, pending |-> {},
         decision |-> None, clar |-> FALSE, blank |-> FALSE, won |-> {}, known |-> {}]

Init ==
  /\ \E c \in Conversations : sent = c.sent /\ said = c.said /\ domain = c.domain
  /\ prop = [p \in Proposals |-> [st |-> None, job |-> 0, ord |-> 0, late |-> FALSE]]
  /\ req = [j \in Jobs |-> [pc |-> "new", seen |-> {}, old |-> {}]]
  /\ job = [j \in Jobs |-> [st |-> None, tries |-> 0]]
  /\ work = [w \in Workers |-> Idle]
  /\ saved = [j \in Jobs |-> {}]
  /\ taken = [p \in Proposals |-> 0]
  /\ waiting = {}
  /\ events = 0

Event == events < MaxEvents /\ events' = events + 1
Active(p) == prop[p].st = "active" /\ ~prop[p].late

-----------------------------------------------------------------------------
(* Row locks of the two kinds of transaction.                               *)

Sibling(p, q) == p # q /\ prop[p].job = prop[q].job /\ prop[p].st = "active"

\* The rows a worker updated, and those a request is superseding.
HeldByWorker(w) ==
  IF work[w].pc \in {"claim", "cancel", "commit"}
  THEN work[w].won \cup (IF work[w].pc = "cancel" THEN {} ELSE
         {p \in Proposals : \E q \in work[w].won : Sibling(p, q)})
  ELSE {}
HeldByRequest(j) == IF req[j].pc = "replacing" THEN req[j].old ELSE {}
Free(w, p) == /\ \A v \in Workers \ {w} : p \notin HeldByWorker(v)
              /\ \A j \in Jobs : p \notin HeldByRequest(j)

\* SELECT ... FOR UPDATE of the proxy user's row, against the key-share locks of
\* rows that refer to it.
UserLocked == \E j \in Jobs : req[j].pc \in {"locked", "replacing"}
UserShared(j) == \/ \E i \in Jobs \ {j} : req[i].pc \in {"flushed", "locked", "replacing"}
                 \/ \E w \in Workers : work[w].pc = "commit"

-----------------------------------------------------------------------------
(* The request: _create_extraction_job and _persist_evidence_ledger.        *)

Proposed(j) == {p \in Proposals : \E i \in Positions(j) : sent[j][i] = p}
Fresh(j) == Proposed(j) \ req[j].seen
\* The ordinal of a new proposal counts the new ones of its own job.
Ordinal(j, p) == Cardinality({q \in Fresh(j) : \E h, i \in Positions(j) :
                                h <= i /\ sent[j][h] = q /\ sent[j][i] = p})

\* The rows of this scope's turns are read before the user is locked.
Submit(j) ==
  /\ req[j].pc = "new"
  /\ ~UserLocked
  /\ req' = [req EXCEPT ![j].pc = "flushed",
                        ![j].seen = {p \in Proposed(j) : prop[p].st # None}]
  /\ UNCHANGED <<sent, said, domain, prop, job, work, saved, taken, waiting, events>>

\* A transcript without new proposals leaves the window as it is.
Record(j) ==
  /\ req[j].pc = "flushed" /\ Fresh(j) = {}
  /\ req' = [req EXCEPT ![j].pc = "done"]
  /\ job' = [job EXCEPT ![j].st = "queued"]
  /\ UNCHANGED <<sent, said, domain, prop, work, saved, taken, waiting, events>>

LockUser(j) ==
  /\ req[j].pc = "flushed" /\ Fresh(j) # {} /\ ~UserShared(j)
  /\ req' = [req EXCEPT ![j].pc = "locked"]
  /\ UNCHANGED <<sent, said, domain, prop, job, work, saved, taken, waiting, events>>

\* The update waits for rows that a worker has claimed and not committed.
Supersede(j) ==
  LET old == {p \in Proposals : prop[p].st = "active" /\ prop[p].job # j} IN
  /\ req[j].pc = "locked"
  /\ \A p \in old : \A w \in Workers : p \notin HeldByWorker(w)
  /\ req' = [req EXCEPT ![j].pc = "replacing", ![j].old = old]
  /\ UNCHANGED <<sent, said, domain, prop, job, work, saved, taken, waiting, events>>

\* A turn that another job registered meanwhile belongs to that job's window:
\* the request is refused and nothing of it remains.
Register(j) ==
  /\ req[j].pc = "replacing"
  /\ \/ /\ \E p \in Fresh(j) : prop[p].st # None
        /\ req' = [req EXCEPT ![j].pc = "refused", ![j].old = {}]
        /\ UNCHANGED <<prop, job>>
     \/ /\ \A p \in Fresh(j) : prop[p].st = None
        /\ prop' = [p \in Proposals |->
             IF p \in Fresh(j)
             THEN [st |-> "active", job |-> j, ord |-> Ordinal(j, p), late |-> FALSE]
             ELSE IF p \in req[j].old THEN [prop[p] EXCEPT !.st = "superseded"] ELSE prop[p]]
        /\ req' = [req EXCEPT ![j].pc = "done", ![j].old = {}]
        /\ job' = [job EXCEPT ![j].st = "queued"]
  /\ UNCHANGED <<sent, said, domain, work, saved, taken, waiting, events>>

\* An hour passes: the active proposals of one job expire.
Lapse(j) ==
  /\ Event
  /\ \E p \in Proposals : prop[p].job = j /\ Active(p)
  /\ prop' = [p \in Proposals |-> IF prop[p].job = j THEN [prop[p] EXCEPT !.late = TRUE] ELSE prop[p]]
  /\ UNCHANGED <<sent, said, domain, req, job, work, saved, taken, waiting>>

-----------------------------------------------------------------------------
(* The evidence policy (evidence_policy.py).                                *)

UserPositions(j) == {i \in Positions(j) : sent[j][i] \in Users}
At(j, p) == {i \in Positions(j) : sent[j][i] = p}
\* _active_proposal_context: a turn that occurs twice has no place.
Place(j, p) == IF Cardinality(At(j, p)) = 1 THEN Max(At(j, p)) ELSE 0
TextAt(j, i) == said[sent[j][i]]

\* structured_proposal_denied
Denied(text, ord) == ord \in text.denied \/ text.denyAll

\* The turns that may answer a proposal at pt: those cited after it, or else the
\* latest one that the model could see.
Replying(j, vis, cites, pt) ==
  LET users == {i \in UserPositions(j) : i > pt}
      later == users \cap vis
  IN IF users \cap cites # {} THEN users \cap cites
     ELSE IF later = {} THEN {} ELSE {Max(later)}

\* validate_conversational_evidence on a claimed relation to the proposal at pt.
ProposalReason(j, vis, cites, pt, ctx, structured) ==
  LET replies == Replying(j, vis, cites, pt)
      target == {p \in ctx : Place(j, p) = pt}
  IN IF pt = 0 THEN "missing_proposal_turn"
     ELSE IF pt \notin vis THEN "proposal_not_visible_to_model"
     ELSE IF sent[j][pt] \notin Proposals THEN "proposal_not_registered"
     ELSE IF replies = {} THEN "no_user_evidence"
     ELSE IF Max(replies) - pt > Window THEN "proposal_outside_turn_window"
     ELSE IF target = {} THEN "proposal_not_active"
     ELSE LET text == TextAt(j, Max(replies))
              ord == prop[CHOOSE p \in target : TRUE].ord
          IN IF structured
             THEN IF Denied(text, ord) THEN "explicit_confirmation_denied" ELSE "verified"
             ELSE IF text.denial /\ (text.denied = {} \/ text.picks = 0 \/ ord \in text.denied)
             THEN "explicit_confirmation_denied"
             ELSE IF text.picks # 0 /\ text.picks # ord THEN "proposal_reference_mismatch"
             ELSE IF text.picks = 0 /\ Cardinality(ctx) # 1 THEN "ambiguous_proposal_reference"
             ELSE "verified"

PolicyReason(j, vis, cites, rel, pt, ctx, structured) ==
  IF cites = {} THEN "missing_evidence"
  ELSE IF ~(cites \subseteq vis) THEN "evidence_not_visible_to_model"
  ELSE CASE rel = "direct"   -> IF cites \cap UserPositions(j) = {} THEN "no_user_evidence"
                                ELSE "direct_user_statement"
         [] rel = "proposal" -> ProposalReason(j, vis, cites, pt, ctx, structured)
         [] OTHER            -> "unsupported_relation"

\* _validate_user_evidence for a statement of the user: the memory is a clause
\* quoted from a cited turn of the user, and more than a question.
Grounded(j, vis, c) ==
  /\ PolicyReason(j, vis, c.cites, "direct", 0, {}, FALSE) = "direct_user_statement"
  /\ c.quote \in c.cites \cap UserPositions(j)
  /\ ~TextAt(j, c.quote).question

-----------------------------------------------------------------------------
(* From an answer to candidates (extraction_service.py).                    *)

Quoting(j, c, pass) ==
  [turn |-> IF c.quote \in UserPositions(j) THEN sent[j][c.quote] ELSE None,
   prop |-> None, doubt |-> c.state = "uncertain_change", pass |-> pass]
Taking(j, c, pass) ==
  [turn |-> None, prop |-> sent[j][c.pt], doubt |-> c.state = "uncertain_change", pass |-> pass]

\* What the checks make of one candidate: who is kept, who is held back.
Relation(c, ctx) == IF ctx # {} /\ c.pt # 0 THEN "proposal" ELSE c.rel
Reviewed(reason) == reason \in {"proposal_reference_mismatch", "ambiguous_proposal_reference"}
Sorted(c, item) ==
  IF c.state = "invalid" THEN [kept |-> {}, pending |-> {}]
  ELSE IF c.state = "uncertain_change" \/ c.conf = "low"
  THEN [kept |-> {}, pending |-> {item}]
  ELSE [kept |-> {item}, pending |-> {}]
Nobody == [kept |-> {}, pending |-> {}]

Judge(j, vis, ctx, c, pass) ==
  LET reason == PolicyReason(j, vis, c.cites, Relation(c, ctx), c.pt, ctx, FALSE) IN
  IF c.conf = "drop" THEN Nobody
  ELSE IF Source[j] THEN Sorted(c, Quoting(j, c, pass))
  ELSE IF Relation(c, ctx) # "proposal"
  THEN IF Relation(c, ctx) = "direct" /\ Grounded(j, vis, c)
       THEN Sorted(c, Quoting(j, c, pass)) ELSE Nobody
  ELSE IF reason = "verified" THEN Sorted(c, Taking(j, c, pass))
  ELSE IF reason = "explicit_confirmation_denied" /\ c.echo /\ Grounded(j, vis, c)
  THEN Sorted(c, Quoting(j, c, pass))
  ELSE IF Reviewed(reason)
  THEN [kept |-> {}, pending |-> {[Taking(j, c, pass) EXCEPT !.doubt = FALSE]}]
  ELSE Nobody

\* _parse_and_validate_response
Parsed(j, vis, ctx, memories, pass) ==
  LET judged == {Judge(j, vis, ctx, c, pass) : c \in memories} IN
  [kept |-> UNION {v.kept : v \in judged}, pending |-> UNION {v.pending : v \in judged}]

\* _verify_multi_proposal_selection: the user's own words single out the target.
Selects(text, ord, evidence) ==
  IF text.picks # 0 THEN text.picks = ord ELSE evidence /\ ord \in text.names

\* Mutant: the decision of the model alone names the proposal.
ResolutionUnverified(j, vis, ctx, a) ==
  IF ctx = {} \/ a.decision = None THEN [decision |-> None, memory |-> None]
  ELSE LET target == IF Cardinality(ctx) = 1 THEN ctx ELSE {p \in ctx : prop[p].ord = a.ordinal} IN
       IF a.decision # "confirmed" \/ target = {} THEN [decision |-> a.decision, memory |-> None]
       ELSE [decision |-> "confirmed", memory |-> CHOOSE p \in target : TRUE]

\* _resolve_structured_proposal_confirmation: the model classifies, the registry
\* and the user's latest visible turn decide.
Resolution(j, vis, ctx, a) ==
  LET shown == {Place(j, p) : p \in ctx} \cap vis
      users == IF shown = {} THEN {} ELSE {i \in UserPositions(j) \cap vis : i > Min(shown)}
      target == IF Cardinality(ctx) = 1 THEN ctx ELSE {p \in ctx : prop[p].ord = a.ordinal}
      none == [decision |-> a.decision, memory |-> None]
  IN IF ctx = {} \/ a.decision = None THEN [decision |-> None, memory |-> None]
     ELSE IF users = {} \/ a.decision # "confirmed" \/ Cardinality(target) # 1 THEN none
     ELSE LET p == CHOOSE q \in target : TRUE
              text == TextAt(j, Max(users))
              reason == PolicyReason(j, vis, {Place(j, p), Max(users)}, "proposal", Place(j, p),
                                     ctx, TRUE)
          IN IF Denied(text, prop[p].ord) THEN [none EXCEPT !.decision = "rejected"]
             ELSE IF Place(j, p) = 0 THEN none
             ELSE IF Cardinality(ctx) > 1 /\ ~Selects(text, prop[p].ord, a.evidence)
             THEN [none EXCEPT !.decision = "ambiguous"]
             ELSE IF reason # "verified" THEN none
             ELSE [none EXCEPT !.memory = p]

\* _resolve_memory_clarification_request: the user asked, in a turn the model saw.
Clarified(j, vis, a) == a.clar \in vis \cap UserPositions(j) /\ a.pair

\* With a decision, memories that point at a proposal are discarded.
Considered(a, resolved) ==
  IF resolved.decision = None THEN IF a.nothing THEN {} ELSE a.memories
  ELSE {c \in a.memories : c.rel # "proposal" /\ c.pt = 0}

\* _is_empty_extraction_contract_violation: nothing listed, yet not "nothing".
Inconsistent(a) == a.decision = None /\ a.memories = {} /\ ~a.nothing /\ a.clar = 0

\* _should_attempt_correction_recovery
LatestUser(j) == IF UserPositions(j) = {} THEN 0 ELSE Max(UserPositions(j))

Recovers(j, ctx, decision, kept, pending) ==
  /\ ~Source[j] /\ ctx # {}
  /\ decision \notin {"rejected", "ambiguous", "unrelated"}
  /\ \A i \in kept \cup pending : i.turn = None
  /\ LatestUser(j) # 0
  /\ LET text == TextAt(j, LatestUser(j)) IN text.denial /\ text.replaces /\ ~text.question

-----------------------------------------------------------------------------
(* The pipeline of one worker: run_extraction_pipeline and extract.         *)

Keep(w, f) == work' = [work EXCEPT ![w] = f]
Local == UNCHANGED <<sent, said, domain, prop, req, saved, taken, waiting>>

\* The window that the transcript is read against: the latest active group.
ActiveGroup ==
  LET live == {p \in Proposals : Active(p)}
  IN {p \in live : prop[p].job = Max({prop[q].job : q \in live})}

\* Without a turn of the user there is nothing to extract and no call is made.
Begin(w, j) ==
  /\ work[w].pc = "idle" /\ job[j].st = "queued"
  /\ Cardinality({v \in Workers : work[v].job = j}) < Copies[j]
  /\ Keep(w, [Idle EXCEPT !.job = j, !.ctx = ActiveGroup,
                !.pc = IF Source[j] \/ UserPositions(j) # {} THEN "primary" ELSE "persist"])
  /\ Local /\ UNCHANGED <<job, events>>

\* Where extract goes when a call has been answered.
After(f) ==
  IF Recovers(f.job, f.ctx, f.decision, f.kept, f.pending) THEN [f EXCEPT !.pc = "recover"]
  ELSE [f EXCEPT !.pc = "persist"]

\* A failed run is tried again until its attempts are used up.
Failed(j) ==
  job' = IF job[j].st # "queued" THEN job
         ELSE [job EXCEPT ![j] = [tries |-> @.tries + 1,
                 st |-> IF @.tries + 1 >= MaxAttempts THEN "failed" ELSE "queued"]]
Fail(w) == Keep(w, Idle) /\ Failed(work[w].job)

\* An extraction that went wrong fails the run, unless a domain overlay follows.
ExtractionError(w) ==
  IF domain
  THEN Keep(w, [work[w] EXCEPT !.pc = "persist", !.kept = {}, !.pending = {}]) /\ UNCHANGED job
  ELSE Fail(w)

\* The first call: any answer about any part of the transcript that fits.
Primary(w) ==
  LET j == work[w].job IN
  /\ work[w].pc = "primary"
  /\ \E a \in Answers[j], vis \in Cuts[j] :
       LET resolved == Resolution(j, vis, work[w].ctx, a)
           parsed == Parsed(j, vis, work[w].ctx, Considered(a, resolved), "primary")
           taking == IF resolved.memory = None THEN {}
                     ELSE {[turn |-> None, prop |-> resolved.memory, doubt |-> FALSE,
                            pass |-> "primary"]}
       IN \E found \in {[work[w] EXCEPT !.vis = vis, !.kept = parsed.kept \cup taking,
                       !.pending = parsed.pending, !.decision = resolved.decision,
                       !.clar = Clarified(j, vis, a), !.blank = Inconsistent(a)]} :
          LET empty == found.kept = {} /\ found.pending = {} /\ ~found.clar IN
          IF empty /\ Inconsistent(a) /\ Source[j] THEN ExtractionError(w)
          ELSE /\ Keep(w, IF empty /\ (Inconsistent(a) \/ (a.clar # 0 /\ ~Source[j]))
                          THEN [found EXCEPT !.pc = "repair"] ELSE After(found))
               /\ UNCHANGED job
  /\ Local /\ UNCHANGED events

\* The second call, when the first was empty and did not say so: it cannot
\* confirm a proposal, and it must decide.
Repair(w) ==
  LET j == work[w].job IN
  /\ work[w].pc = "repair"
  /\ \E a \in Repairs[j] :
       LET parsed == Parsed(j, work[w].vis, {}, IF a.nothing THEN {} ELSE a.memories, "repair")
           found == [work[w] EXCEPT !.kept = parsed.kept, !.pending = parsed.pending, !.blank = FALSE]
       IN IF ~a.nothing /\ found.kept = {} /\ found.pending = {}
          THEN ExtractionError(w)
          ELSE Keep(w, After(found)) /\ UNCHANGED job
  /\ Local /\ UNCHANGED events

\* The call that looks for what the user said instead of a proposal they denied;
\* the code sets its citations to the user's latest turn.
Recover(w) ==
  LET j == work[w].job IN
  /\ work[w].pc = "recover"
  /\ \E a \in Repairs[j] :
       LET bound == {[c EXCEPT !.cites = {LatestUser(j)}, !.rel = "direct", !.pt = 0] :
                       c \in IF a.nothing THEN {} ELSE a.memories}
           parsed == Parsed(j, work[w].vis, {}, bound, "recovery")
       IN Keep(w, [work[w] EXCEPT !.pc = "persist", !.kept = @ \cup parsed.kept,
                                  !.pending = @ \cup parsed.pending])
  /\ Local /\ UNCHANGED <<job, events>>

\* Every provider is down, or the answer cannot be parsed.
Outage(w) ==
  /\ Event
  /\ \/ work[w].pc \in {"primary", "repair"} /\ ExtractionError(w)
     \/ work[w].pc = "recover" /\ Keep(w, [work[w] EXCEPT !.pc = "persist"]) /\ UNCHANGED job
  /\ Local

\* _persist_pending_extraction_candidates, _route_uncertain_changes: what was
\* doubtful goes to the conflict resolver, the rest waits for review.  How a memory
\* was found plays no part from here on.
Content(i) == IF i.prop # None THEN i.prop ELSE i.turn
Plain(items) == {[i EXCEPT !.doubt = FALSE, !.pass = None] : i \in items}
Persist(w) ==
  LET doubtful == {i \in work[w].pending : i.doubt}
      regular == work[w].pending \ doubtful
  IN
  /\ work[w].pc = "persist"
  /\ Keep(w, [Idle EXCEPT !.job = work[w].job, !.pc = "claim",
                !.kept = Plain(work[w].kept \cup doubtful), !.pending = Plain(regular),
                !.known = IF regular = {} THEN {} ELSE waiting])
  /\ Local /\ UNCHANGED <<job, events>>

Confirmed(w) == {i.prop : i \in work[w].kept} \ {None}
Unclaimed(w) == Confirmed(w) \ work[w].won

\* Mutant: a proposal is claimed as it was when the context was read.
ClaimStale(w) ==
  /\ work[w].pc = "claim"
  /\ \E p \in Unclaimed(w) : Free(w, p) /\ Keep(w, [work[w] EXCEPT !.won = @ \cup {p}, !.pc = "cancel"])
  /\ Local /\ UNCHANGED <<job, events>>

\* _claim_confirmed_proposals: the update waits for the row and finds it active,
\* or the confirmation is stale and its memory is dropped.
Claim(w) ==
  /\ work[w].pc = "claim"
  /\ \E p \in Unclaimed(w) :
       /\ Free(w, p)
       /\ Keep(w, IF Active(p) /\ \A q \in work[w].won : ~Sibling(p, q)
                  THEN [work[w] EXCEPT !.won = @ \cup {p}, !.pc = "cancel"]
                  ELSE [work[w] EXCEPT !.kept = {i \in @ : i.prop # p}])
  /\ Local /\ UNCHANGED <<job, events>>

Cancel(w) ==
  /\ work[w].pc = "cancel"
  /\ \A p \in Proposals : (\E q \in work[w].won : Sibling(p, q)) => Free(w, p)
  /\ Keep(w, [work[w] EXCEPT !.pc = "claim"])
  /\ Local /\ UNCHANGED <<job, events>>

\* check_and_store and the counters: the rows refer to the proxy user's row.  A
\* pending candidate that another run inserted meanwhile fails this one.
Store(w) ==
  /\ work[w].pc = "claim" /\ Unclaimed(w) = {} /\ ~UserLocked
  /\ IF \E i \in work[w].pending : Content(i) \in waiting \ work[w].known
     THEN Fail(w)
     ELSE Keep(w, [work[w] EXCEPT !.pc = "commit"]) /\ UNCHANGED job
  /\ Local /\ UNCHANGED events

\* Mutant: the siblings are cancelled whatever became of them.
CommitCancelsAll(w) ==
  LET j == work[w].job IN
  /\ work[w].pc = "commit"
  /\ prop' = [p \in Proposals |->
       IF p \in work[w].won THEN [prop[p] EXCEPT !.st = "accepted"]
       ELSE IF \E i \in Jobs : i < j /\ prop[p].job = i THEN [prop[p] EXCEPT !.st = "cancelled"]
       ELSE prop[p]]
  /\ saved' = [saved EXCEPT ![j] = @ \cup work[w].won]
  /\ taken' = [p \in Proposals |-> taken[p] + (IF p \in work[w].won THEN 1 ELSE 0)]
  /\ waiting' = waiting \cup {Content(i) : i \in work[w].pending}
  /\ Keep(w, [Idle EXCEPT !.job = j, !.pc = "finish"])
  /\ UNCHANGED <<sent, said, domain, req, job, events>>

Commit(w) ==
  LET j == work[w].job IN
  /\ work[w].pc = "commit"
  /\ prop' = [p \in Proposals |->
       IF p \in work[w].won THEN [prop[p] EXCEPT !.st = "accepted"]
       ELSE IF \E q \in work[w].won : Sibling(p, q) THEN [prop[p] EXCEPT !.st = "cancelled"]
       ELSE prop[p]]
  /\ saved' = [saved EXCEPT ![j] = @ \cup work[w].won]
  /\ taken' = [p \in Proposals |-> taken[p] + (IF p \in work[w].won THEN 1 ELSE 0)]
  /\ waiting' = waiting \cup {Content(i) : i \in work[w].pending}
  /\ Keep(w, [Idle EXCEPT !.job = j, !.pc = "finish"])
  /\ UNCHANGED <<sent, said, domain, req, job, events>>

\* After the commit: the domain overlay, whose failure is only noted, and the
\* caches, whose failure fails the run although everything is stored.
Finish(w) ==
  LET j == work[w].job IN
  /\ work[w].pc = "finish"
  /\ \/ /\ job' = IF job[j].st = "queued" THEN [job EXCEPT ![j].st = "processed"] ELSE job
        /\ Keep(w, Idle) /\ UNCHANGED events
     \/ Event /\ Fail(w)
  /\ Local

\* The worker dies; its transaction is rolled back and the job is still queued.
Crash(w) ==
  /\ Event /\ work[w].pc # "idle"
  /\ Keep(w, Idle)
  /\ Local /\ UNCHANGED job

\* Transactions that wait for each other: the database ends one of them.
WaitsForWorker(v, w) ==
  \/ work[v].pc = "cancel" /\ \E p \in HeldByWorker(w), q \in work[v].won : Sibling(p, q)
  \/ work[v].pc = "claim" /\ Unclaimed(v) # {} /\ Unclaimed(v) \subseteq HeldByWorker(w)
WaitsForRequest(w, j) ==
  \/ work[w].pc = "claim" /\ Unclaimed(w) = {} /\ req[j].pc \in {"locked", "replacing"}
  \/ work[w].pc = "claim" /\ Unclaimed(w) # {} /\ Unclaimed(w) \subseteq HeldByRequest(j)
  \/ work[w].pc = "cancel" /\ \E p \in HeldByRequest(j), q \in work[w].won : Sibling(p, q)
RequestWaitsForWorker(j, w) ==
  req[j].pc = "locked" /\ \E p \in HeldByWorker(w) : prop[p].st = "active" /\ prop[p].job # j
RequestsWait(i, j) ==
  i # j /\ {req[i].pc, req[j].pc} = {"flushed"} /\ Fresh(i) # {} /\ Fresh(j) # {}

Victim(w) ==
  /\ \/ \E v \in Workers \ {w} : WaitsForWorker(v, w) /\ WaitsForWorker(w, v)
     \/ \E j \in Jobs : WaitsForRequest(w, j) /\ RequestWaitsForWorker(j, w)
  /\ Fail(w)
  /\ Local /\ UNCHANGED events

VictimRequest(j) ==
  /\ \/ \E i \in Jobs : RequestsWait(i, j)
     \/ \E w \in Workers : WaitsForRequest(w, j) /\ RequestWaitsForWorker(j, w)
  /\ req' = [req EXCEPT ![j].pc = "refused", ![j].old = {}]
  /\ UNCHANGED <<sent, said, domain, prop, job, work, saved, taken, waiting, events>>

Done == UNCHANGED vars /\ \A j \in Jobs : req[j].pc = "refused" \/ job[j].st \in {"processed", "failed"}

RequestStep(j) == Submit(j) \/ Record(j) \/ LockUser(j) \/ Supersede(j) \/ Register(j)
WorkerStep(w) == \/ \E j \in Jobs : Begin(w, j)
                 \/ Primary(w) \/ Repair(w) \/ Recover(w) \/ Persist(w) \/ Claim(w) \/ Cancel(w)
                 \/ Store(w) \/ Commit(w) \/ Finish(w)
Next == \/ \E j \in Jobs : RequestStep(j) \/ Lapse(j) \/ VictimRequest(j)
        \/ \E w \in Workers : WorkerStep(w) \/ Outage(w) \/ Crash(w) \/ Victim(w)
        \/ Done

Spec == Init /\ [][Next]_vars

-----------------------------------------------------------------------------
(* Properties.                                                              *)

\* Every variable stays in its type.
TypeOK ==
  /\ \E c \in Conversations : sent = c.sent /\ said = c.said
  /\ domain \in BOOLEAN /\ events \in 0 .. MaxEvents
  /\ prop \in [Proposals -> Row]
  /\ req \in [Jobs -> Request]
  /\ job \in [Jobs -> [st : {None, "queued", "processed", "failed"}, tries : 0 .. MaxAttempts]]
  /\ work \in [Workers -> Work]
  /\ saved \in [Jobs -> SUBSET Proposals] /\ taken \in [Proposals -> Nat]
  /\ waiting \subseteq Users \cup Proposals \cup {None}

\* A conversation has one window of open proposals: two requests that read the
\* registry at once do not leave two groups active (_persist_evidence_ledger).
OneWindow == \A p, q \in Proposals :
  prop[p].st = "active" /\ prop[q].st = "active" => prop[p].job = prop[q].job

\* Of one group at most one proposal is accepted, and the memory of a proposal is
\* stored exactly when it is accepted and only once, whatever runs overlap, fail
\* after their commit or are tried again (_claim_confirmed_proposals).
StoredOnce ==
  /\ \A p \in Proposals : taken[p] = IF prop[p].st = "accepted" THEN 1 ELSE 0
  /\ \A p, q \in Proposals :
       prop[p].st = "accepted" /\ prop[q].st = "accepted" /\ prop[p].job = prop[q].job => p = q

\* A stored proposal was answered: a turn of the user after it, within the
\* window, tells it from its siblings; and where both matchers of denials find
\* one that covers it, the turn picks it all the same and does not deny it by name.
Answered(j, p) ==
  \E h \in UserPositions(j) :
    /\ h > Place(j, p) /\ h - Place(j, p) <= Window
    /\ LET text == TextAt(j, h)
           ord == prop[p].ord
       IN /\ Denied(text, ord) /\ text.denial => text.picks = ord /\ ord \notin text.denied
          /\ (\E q \in Proposals : q # p /\ prop[q].job = prop[p].job)
               => text.picks = ord \/ (text.picks = 0 /\ ord \in text.names)
AnsweredByUser == \A j \in Jobs : \A p \in saved[j] : Answered(j, p)

\* Whatever call brought it, what is stored of a conversation are the user's own
\* words in a turn that was shown to the model, and not a mere question
\* (_validate_user_evidence).
OwnWords ==
  \A w \in Workers : work[w].pc = "persist" => \A i \in work[w].kept \cup work[w].pending :
    LET j == work[w].job IN
    i.prop = None /\ ~Source[j] =>
      /\ i.turn # None /\ ~said[i.turn].question
      /\ \E h \in work[w].vis : sent[j][h] = i.turn

\* A decision on a proposal is the last word on the turn: after a refusal, an
\* ambiguity or an unrelated reply no recovery finds a memory in it and no
\* proposal is taken (_should_attempt_correction_recovery).
DecisionFinal ==
  \A w \in Workers : work[w].decision \in {"rejected", "ambiguous", "unrelated"} =>
    /\ work[w].pc # "recover"
    /\ \A i \in work[w].kept \cup work[w].pending : i.prop = None /\ i.pass # "recovery"

\* An answer that lists nothing without saying so never becomes a finished run,
\* unless a domain overlay stands in for it.
NeverSilent == \A w \in Workers : work[w].pc = "persist" /\ ~domain => ~work[w].blank

\* What became of a proposal is final: an accepted, cancelled or superseded one
\* is never opened or decided again.
ResolvedForGood ==
  [][\A p \in Proposals : prop[p].st \notin {None, "active"} => prop'[p] = prop[p]]_vars

\* However requests and runs overlap there is one open window and one memory of an
\* accepted proposal (_persist_evidence_ledger, _claim_confirmed_proposals).
ProposalsOnce == OneWindow /\ StoredOnce

\* Whatever the model answers, what a run keeps is what the user said or agreed to,
\* and nothing is kept or dropped in silence (evidence_policy.py).
UserSaidIt == AnsweredByUser /\ OwnWords /\ DecisionFinal /\ NeverSilent

=============================================================================
