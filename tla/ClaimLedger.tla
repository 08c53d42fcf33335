------------------------------ MODULE ClaimLedger ------------------------------
(***************************************************************************)
(* What a profile believes: the memories extracted from source events, the *)
(* claim ledger that names the winner among them, and the conflicts that   *)
(* people settle (conflict_resolver.py, conflict_detection.py,             *)
(* claim_ledger_service.py, conflict_resolution_service.py,                *)
(* service_correction_service.py and the routes that call them).           *)
(*                                                                         *)
(* An event yields one claim and, when it is stored, one memory: both have *)
(* the event's number.  The language model that relates a claim to a       *)
(* memory is any answer its schema admits.  A worker reads its candidates, *)
(* calls providers without holding a lock, and writes in one transaction;  *)
(* so do the routes that answer a conflict without locking it.             *)
(***************************************************************************)
EXTENDS Naturals, FiniteSets

CONSTANTS Events,     \* a set of positive numbers, in the order of creation
          Ev,         \* Ev[e]: the claim an event makes, see EventType
          Contents,   \* what a claim can say
          Profiles, Writers,
          Legacy,     \* memories that may stem from the time before the ledger
          MaxEvents,  \* bound: events that arrive
          MaxManual   \* bound: edits, deletions, questions and dismissals by hand

None    == 0
NoText  == "nothing"
Several == "several"   \* the joined values of a claim left with two answers
NoRule  == 101        \* no rule: priorities end at 100
Unsigned == "unsigned" \* not a registered writer
FieldKey == "field"   \* the predicate of a domain field

EventType ==
  [owner : Profiles, says : Contents, writer : Writers \cup {Unsigned},
   rule : (0 .. 100) \cup {NoRule},          \* authority_rules for the category
   obs : Nat,                                \* observed_at, 0 when absent
   conf : {0, 1},                            \* confidences more than 0.20 apart
   verified : BOOLEAN,                       \* grounding_mode verified_source_spans
   asserted : BOOLEAN,                       \* attestation client_asserted
   state : {"assertion", "correction", "uncertain"},
   shared : BOOLEAN,                         \* names a shared entity
   kind : {"memory", "field"}]

ASSUME LedgerAssumption ==
  /\ Events \subseteq Nat \ {0} /\ IsFiniteSet(Events)
  /\ Ev \in [Events -> EventType]
  /\ {NoText, Several, FieldKey} \cap Contents = {}
  /\ Legacy \subseteq {e \in Events : Ev[e].kind = "memory" /\ Ev[e].writer = Unsigned}
  /\ MaxEvents \in Nat /\ MaxManual \in Nat

VARIABLES
  mem,     \* mem[e]: the memories row of event e; "pending" is archived and
           \* waits for an answer, it was never indexed
  text,    \* text[e]: its content
  cand,    \* cand[e]: the pending_extraction_candidates row
  rev,     \* rev[e]: the revision that event e added to a claim
  claim,   \* claim[k]: the memory_claims row of an identity
  sig,     \* sig[e]: the shared_context_signals row
  conf,    \* conf[c]: the latest cross_user_conflicts row of a pair, and its
           \* clarification
  work,    \* work[e]: the worker, then the operator, busy with event e
  req,     \* the conflict answer that a route has loaded and not written
  manual   \* manual steps so far

vars == <<mem, text, cand, rev, claim, sig, conf, work, req, manual>>

Memories == {e \in Events : Ev[e].kind = "memory"}
Pairs == {c \in Memories \X Memories : c[1] # c[2]}
Keys  == Profiles \X (Contents \cup {FieldKey})
NoKey == <<>>

MemoryStates == {"none", "live", "pending", "archived", "deleted"}
CandidateStates == {"none", "pending", "promoted", "dismissed"}
Revision == [claim : Keys \cup {NoKey}, value : Contents \cup {NoText},
             st : {"none", "asserted", "activated", "superseded", "rejected", "disputed"}]
\* src: the event whose priority and confidence the row carries.
Claim == [st : {"none", "active", "disputed", "archived"}, mem : Events \cup {None},
          win : Events \cup {None}, src : Events \cup {None}, obs : Nat,
          value : Contents \cup {NoText, Several}]
Signal == [value : Contents \cup {NoText}, current : BOOLEAN]
Answers == {"A", "B", "both", "neither"}
Conflict == [st : {"none", "pending", "clarification_queued", "resolved", "ignored"},
             path : {"none", "user_session", "tenant_review"},
             clar : {"none", "pending", "triggered", "lapsed", "expired", "resolved"}]
Work == [pc : {"idle", "read", "done", "review"}, target : Events \cup {None},
         stale : BOOLEAN, seen : Claim]
Routes == {"uui", "mcp", "tenant"}
Request == [route : Routes, c : Pairs, sel : Answers, archived : SUBSET Events]

NoRev      == [claim |-> NoKey, value |-> NoText, st |-> "none"]
NoClaim    == [st |-> "none", mem |-> None, win |-> None, src |-> None, obs |-> 0,
               value |-> NoText]
NoConflict == [st |-> "none", path |-> "none", clar |-> "none"]
NoWork     == [pc |-> "idle", target |-> None, stale |-> FALSE, seen |-> NoClaim]
NoReq      == <<>>

Init ==
  /\ \E L \in SUBSET Legacy : mem = [e \in Events |-> IF e \in L THEN "live" ELSE "none"]
  /\ text = [e \in Events |-> Ev[e].says]
  /\ cand = [e \in Events |-> "none"]
  /\ rev = [e \in Events |-> NoRev]
  /\ claim = [k \in Keys |-> NoClaim]
  /\ sig = [e \in Events |-> [value |-> NoText, current |-> FALSE]]
  /\ conf = [c \in Pairs |-> NoConflict]
  /\ work = [e \in Events |-> NoWork]
  /\ req = NoReq
  /\ manual = 0

\* A step that a person takes unasked.
ByHand == manual < MaxManual /\ manual' = manual + 1

\* Event e is the next to be processed, or is tried again.
Arrives(e) ==
  /\ e \notin Legacy /\ work[e].pc = "idle" /\ mem[e] = "none"
  /\ Cardinality({f \in Events \ {e} : work[f].pc # "idle" \/ mem[f] # "none"}) < MaxEvents

-----------------------------------------------------------------------------
(* The claim ledger.                                                        *)

IsArchived(e) == mem[e] \in {"pending", "archived"}
Registered(e) == Ev[e].writer # Unsigned

\* authority_priority: a rule for the category, or 50.
Authority(e) == IF Ev[e].rule = NoRule THEN 50 ELSE Ev[e].rule

\* Priority first, then the time of observation, then confidence.
IncomingWins(k, e) ==
  LET c == claim[k] IN
  IF Authority(e) # Authority(c.src) THEN Authority(e) > Authority(c.src)
  ELSE IF Ev[e].obs # 0 /\ c.obs # 0 THEN Ev[e].obs > c.obs
  ELSE Ev[e].conf > Ev[c.src].conf

\* The claim once event e is its winner; field claims have no memory.
Won(k, e, said) ==
  [st |-> "active", win |-> e, src |-> e, value |-> said,
   mem |-> IF Ev[e].kind = "memory" THEN e ELSE None,
   obs |-> IF Ev[e].obs # 0 THEN Ev[e].obs ELSE claim[k].obs]

\* Revision e enters claim k with status st; a winner gives way to it.
Entered(k, e, said, st) ==
  [f \in Events |->
     IF f = e THEN [claim |-> k, value |-> said, st |-> st]
     ELSE IF st = "activated" /\ f = claim[k].win THEN [rev[f] EXCEPT !.st = "superseded"]
     ELSE rev[f]]

\* A successor joins the claim of the memory it replaces; anything else has
\* the identity of its own words.
ClaimOf(e, said, pred) == IF pred = None THEN <<Ev[e].owner, said>> ELSE rev[pred].claim

\* record_memory: the ledger after event e is stored.
RecordMemory(e, said, live, pred) ==
  LET k == ClaimOf(e, said, pred)
      c == claim[k]
      wins == live /\ (pred # None \/ c.st = "none" \/ IncomingWins(k, e))
  IN
  IF wins
  THEN [claim |-> [claim EXCEPT ![k] = Won(k, e, said)], rev |-> Entered(k, e, said, "activated")]
  ELSE IF c.st = "none"
  THEN [claim |-> [claim EXCEPT ![k] =
                     [NoClaim EXCEPT !.st = "disputed", !.src = e, !.obs = Ev[e].obs]],
        rev |-> Entered(k, e, said, "disputed")]
  ELSE IF live /\ c.value \notin {NoText, said}
  THEN [claim |-> [claim EXCEPT ![k].st = "disputed"], rev |-> Entered(k, e, said, "disputed")]
  ELSE [claim |-> claim, rev |-> Entered(k, e, said, IF live THEN "asserted" ELSE "disputed")]

\* A memory that a successor would join must be in the ledger.
LedgerRefuses(pred) == pred # None /\ rev[pred].claim = NoKey

\* _record_domain_field: the field of a domain record, in the ledger alone.
RecordDomainField(e) ==
  LET k == <<Ev[e].owner, FieldKey>>
      c == claim[k]
      st == IF c.st = "none" THEN "activated"
            ELSE IF c.value = Ev[e].says THEN "asserted"
            ELSE IF c.win = None \/ Ev[c.win].writer = Ev[e].writer \/ IncomingWins(k, e)
            THEN "activated" ELSE "disputed"
  IN
  /\ Arrives(e) /\ Ev[e].kind = "field"
  /\ rev' = Entered(k, e, Ev[e].says, st)
  /\ claim' = CASE st = "activated" -> [claim EXCEPT ![k] = Won(k, e, Ev[e].says)]
                [] st = "disputed"  -> [claim EXCEPT ![k].st = "disputed"]
                [] OTHER            -> claim
  /\ work' = [work EXCEPT ![e].pc = "done"]
  /\ UNCHANGED <<mem, text, cand, sig, conf, req, manual>>

-----------------------------------------------------------------------------
(* The resolver's decision about one claim.                                 *)

Governed(e) == Ev[e].verified \/ Registered(e)
Explicit(e) == Ev[e].rule # NoRule

\* What the search and the SQL context offer.  A governed claim sees only live
\* rows; another may be offered an archived row that the index still holds.
Nominated(e) ==
  {t \in Events \ {e} : /\ Ev[t].owner = Ev[e].owner /\ Ev[t].kind = "memory"
                        /\ mem[t] = "live" \/ (~Governed(e) /\ mem[t] = "archived")}

\* Priorities decide only between two explicit rules; an older observation of
\* the same or of an unnamed source is refused.
AuthorityDecision(e, t) ==
  IF Explicit(e) /\ Explicit(t) /\ Ev[e].rule > Ev[t].rule THEN "UPDATE"
  ELSE IF Explicit(e) /\ Explicit(t) /\ Ev[e].rule < Ev[t].rule
  THEN IF Ev[e].asserted THEN "CLARIFY" ELSE "REJECT"
  ELSE IF /\ Ev[e].writer = Ev[t].writer \/ ~Registered(e) \/ ~Registered(t)
          /\ Ev[e].obs # 0 /\ Ev[t].obs # 0 /\ Ev[e].obs < Ev[t].obs
  THEN "REJECT" ELSE "NONE"

EqualAuthority(e, t) ==
  /\ Registered(e) /\ Registered(t) /\ Ev[e].writer # Ev[t].writer
  /\ Ev[e].says # text[t]
  /\ Explicit(e) /\ Explicit(t) /\ Ev[e].rule = Ev[t].rule

\* The relation the model may report for a verified claim.  Its word is never
\* enough for a duplicate, a merge or the adoption of an uncertain change.
SourceDecision(e, t) ==
  IF t = None
  THEN IF Ev[e].state = "uncertain" THEN {"BUFFER"} ELSE {"NEW", "BUFFER"}
  ELSE {"BUFFER"} \cup (IF Ev[e].says = text[t] THEN {"REJECT"} ELSE {"CLARIFY"})
       \cup (IF Ev[e].state = "uncertain" THEN {} ELSE {"UPDATE", "KEEP_BOTH"})

\* The relation the model may report for any other claim; "CLARIFY" is also
\* what a provider failure and an invalid answer come to.
ClassifiedConflict(e, t) ==
  IF Ev[e].state = "uncertain" THEN {"REJECT"} \cup
       (IF Ev[e].says # text[t] THEN {"CLARIFY"} ELSE {})
  ELSE {"UPDATE", "MERGE", "KEEP_BOTH", "REJECT", "CLARIFY"}

\* A clarification goes to the tenant when two services of equal authority
\* disagree, to the user otherwise.
Clarification(e, t) == IF EqualAuthority(e, t) THEN "CLARIFY_TENANT" ELSE "CLARIFY_USER"

VerifiedOutcome(e, t, d) ==
  LET a == AuthorityDecision(e, t) IN
  CASE d \in {"KEEP_BOTH", "REJECT", "BUFFER", "NEW"} -> d
    [] d = "CLARIFY" -> IF a = "REJECT" THEN "REJECT" ELSE Clarification(e, t)
    [] d = "UPDATE"  -> IF a = "CLARIFY" \/ (a = "NONE" /\ EqualAuthority(e, t)) THEN "BUFFER"
                        ELSE IF a = "NONE" THEN "UPDATE" ELSE a

OtherOutcomes(e, t) ==
  IF t = None THEN {"NEW"}
  ELSE LET a == AuthorityDecision(e, t)
           ds == IF a # "NONE" THEN {a}
                 ELSE IF EqualAuthority(e, t) THEN {"CLARIFY"} ELSE ClassifiedConflict(e, t)
       IN {IF d = "CLARIFY" THEN Clarification(e, t) ELSE d : d \in ds}

\* A claim that would be stored beside others is not when it is an uncertain
\* change, or a correction whose target was not found.
StoredOnlyIfPlain(e, d) ==
  IF d \notin {"NEW", "KEEP_BOTH"} THEN d
  ELSE IF Ev[e].state = "uncertain" THEN (IF Ev[e].verified THEN "BUFFER" ELSE "DROP")
  ELSE IF Ev[e].state = "correction" /\ Governed(e) THEN "BUFFER" ELSE d

\* Mutant: a verified claim keeps a decision made about a row that changed.
OutcomesStale(e, t) ==
  {StoredOnlyIfPlain(e, d) : d \in
     IF ~Ev[e].verified THEN OtherOutcomes(e, t)
     ELSE {VerifiedOutcome(e, t, s) : s \in SourceDecision(e, t)}}

\* check_and_store's decision.  A verified claim locks its target after the
\* provider answered and gives up when the row is not the one it read.
Outcomes(e, t) ==
  {StoredOnlyIfPlain(e, d) : d \in
     IF ~Ev[e].verified THEN OtherOutcomes(e, t)
     ELSE IF t # None /\ (work[e].stale \/ mem[t] # "live") THEN {"BUFFER"}
     ELSE {VerifiedOutcome(e, t, s) : s \in SourceDecision(e, t)}}

-----------------------------------------------------------------------------
(* What the worker writes.                                                  *)

\* A row that someone writes is stale for whoever read it before.
Touched(M) == [f \in Events |-> [work[f] EXCEPT !.stale = @ \/ work[f].target \in M]]
Finished(e, M) == [Touched(M) EXCEPT ![e] = [NoWork EXCEPT !.pc = "done"]]

\* The worker reads its candidates and leaves for the providers.
ReadCandidates(e) ==
  /\ Arrives(e) /\ Ev[e].kind = "memory"
  /\ \E t \in Nominated(e) \cup {None} :
       work' = [work EXCEPT ![e] = [NoWork EXCEPT !.pc = "read", !.target = t]]
  /\ UNCHANGED <<mem, text, cand, rev, claim, sig, conf, req, manual>>

\* detect_shared_context_conflict: what other profiles said of the same entity.
SharedConflicts(e, said) ==
  IF ~Ev[e].shared THEN {}
  ELSE {s \in Events : /\ sig[s].current /\ sig[s].value \notin {NoText, said}
                       /\ Ev[s].owner # Ev[e].owner}

\* resolve_cross_user_conflict_automatically: personal truth is ignored, the
\* rest is routed to a person.  A conflict it means to weight by recency or by
\* confidence raises instead (_weight_down_memory takes no decision_evidence)
\* and the row stays as it was inserted, with those after it.
AutoResolved == [ignored |-> [st |-> "ignored", path |-> "user_session", clar |-> "none"],
                 user    |-> [st |-> "clarification_queued", path |-> "user_session",
                              clar |-> "pending"],
                 tenant  |-> [st |-> "pending", path |-> "tenant_review", clar |-> "none"],
                 left    |-> [st |-> "pending", path |-> "none", clar |-> "none"]]

AutoOutcomes(S) ==
  {f \in [S -> DOMAIN AutoResolved] :
     \A r, s \in S : r < s /\ f[r] = "left" => f[s] = "left"}

\* _record_shared_context_for_stored_memory: the signal, and one conflict for
\* each other profile's differing signal.
RecordSharedContext(e, said) ==
  /\ sig' = IF Ev[e].shared THEN [sig EXCEPT ![e] = [value |-> said, current |-> TRUE]] ELSE sig
  /\ \E f \in AutoOutcomes(SharedConflicts(e, said)) :
       conf' = [c \in Pairs |-> IF c[2] = e /\ c[1] \in DOMAIN f
                                THEN AutoResolved[f[c[1]]] ELSE conf[c]]

\* The transaction fails and the job is tried again.
RolledBack(e) ==
  /\ work' = [work EXCEPT ![e] = NoWork]
  /\ UNCHANGED <<mem, text, cand, rev, claim, sig, conf, req, manual>>

\* Mutant: a registered memory is kept when the ledger refuses it.
StoreMemoryUngated(e, said, pred, M) ==
  LET L == IF LedgerRefuses(pred) THEN [claim |-> claim, rev |-> rev]
           ELSE RecordMemory(e, said, TRUE, pred) IN
  /\ mem' = [f \in Events |-> IF f = e THEN "live" ELSE IF f \in M THEN "archived" ELSE mem[f]]
  /\ text' = [text EXCEPT ![e] = said]
  /\ claim' = L.claim /\ rev' = L.rev
  /\ RecordSharedContext(e, said)
  /\ work' = Finished(e, M)
  /\ UNCHANGED <<cand, req, manual>>

\* The memory is stored and its claim recorded; the memories M it replaces are
\* archived.  The ledger's refusal undoes a registered source's transaction and
\* is ignored for any other; so does a target that no longer exists.
StoreMemory(e, said, pred, M) ==
  IF (Registered(e) /\ LedgerRefuses(pred)) \/ \E t \in M : mem[t] = "deleted"
  THEN RolledBack(e)
  ELSE LET L == IF LedgerRefuses(pred) THEN [claim |-> claim, rev |-> rev]
                ELSE RecordMemory(e, said, TRUE, pred) IN
       /\ mem' = [f \in Events |-> IF f = e THEN "live" ELSE IF f \in M THEN "archived" ELSE mem[f]]
       /\ text' = [text EXCEPT ![e] = said]
       /\ claim' = L.claim /\ rev' = L.rev
       /\ RecordSharedContext(e, said)
       /\ work' = Finished(e, M)
       /\ UNCHANGED <<cand, req, manual>>

\* The alternative is stored archived, and the choice is queued for the user
\* or reported to the tenant.
StoreClarification(e, t, row) ==
  LET L == RecordMemory(e, Ev[e].says, FALSE, None) IN
  IF mem[t] = "deleted" THEN RolledBack(e)
  ELSE /\ mem' = [mem EXCEPT ![e] = "pending"]
       /\ claim' = L.claim /\ rev' = L.rev
       /\ conf' = [conf EXCEPT ![<<t, e>>] = row]
       /\ work' = Finished(e, {})
       /\ UNCHANGED <<text, cand, sig, req, manual>>

\* _persist_pending_extraction_candidates: what was not stored is kept for a
\* person or for a later, matching event.
Buffered(e) == [cand EXCEPT ![e] = "pending"]

\* check_and_store and what the job keeps of it, committed together.
CheckAndStore(e) ==
  /\ work[e].pc = "read"
  /\ LET t == work[e].target IN
     \E o \in Outcomes(e, t) :
       \/ o \in {"NEW", "KEEP_BOTH"} /\ StoreMemory(e, Ev[e].says, None, {})
       \/ o = "UPDATE" /\ StoreMemory(e, Ev[e].says, t, {t})
       \/ o = "MERGE" /\ \E said \in Contents : StoreMemory(e, said, t, {t})
       \/ o = "CLARIFY_USER" /\ StoreClarification(e, t, AutoResolved.user)
       \/ o = "CLARIFY_TENANT" /\ StoreClarification(e, t, AutoResolved.tenant)
       \/ /\ o \in {"REJECT", "DROP", "BUFFER"}
          /\ o = "REJECT" => mem[t] # "deleted"
          /\ cand' = IF o = "BUFFER" THEN Buffered(e) ELSE cand
          /\ work' = Finished(e, {})
          /\ UNCHANGED <<mem, text, rev, claim, sig, conf, req, manual>>
       \/ o = "REJECT" /\ mem[t] = "deleted" /\ RolledBack(e)

Open(c) == conf[c].st \in {"pending", "clarification_queued"}

\* queue_existing_memory_clarification: the user asks to choose between two
\* memories.  Both rows are locked; an open question on the pair is kept.
QueueExistingClarification(c) ==
  /\ ByHand
  /\ c[1] < c[2] /\ mem[c[1]] = "live" /\ mem[c[2]] = "live"
  /\ Ev[c[1]].owner = Ev[c[2]].owner
  /\ ~Open(c) /\ ~Open(<<c[2], c[1]>>)
  /\ conf' = [conf EXCEPT ![c] = AutoResolved.user]
  /\ UNCHANGED <<mem, text, cand, rev, claim, sig, work, req>>

-----------------------------------------------------------------------------
(* The answer to a question.                                                *)

Kept(c, sel) == CASE sel = "A" -> {c[1]} [] sel = "B" -> {c[2]}
                  [] sel = "both" -> {c[1], c[2]} [] OTHER -> {}

\* The rows as loaded decide what is written: only a state that differs from
\* the loaded one is.
Selected(c, sel, loadedArchived) ==
  [f \in Events |->
     IF f \notin {c[1], c[2]} \/ (f \notin Kept(c, sel)) = (f \in loadedArchived) THEN mem[f]
     ELSE IF f \in Kept(c, sel) THEN "live" ELSE "archived"]

\* ClaimLedgerService.apply_conflict_selection: every revision of the claims
\* that the two memories belong to is chosen or rejected.  A claim both of
\* whose memories are kept has no winner.
SelectedLedger(c, sel) ==
  LET ks == {rev[m].claim : m \in {c[1], c[2]}} \ {NoKey}
      chosen(k) == {f \in Kept(c, sel) : rev[f].claim = k}
  IN
  [rev |-> [f \in Events |->
      IF rev[f].claim \notin ks THEN rev[f]
      ELSE [rev[f] EXCEPT !.st = IF f \notin Kept(c, sel) THEN "rejected"
                                 ELSE IF Cardinality(chosen(rev[f].claim)) > 1 THEN "disputed"
                                 ELSE "activated"]],
   claim |-> [k \in Keys |->
      IF k \notin ks THEN claim[k]
      ELSE IF Cardinality(chosen(k)) > 1
      THEN [claim[k] EXCEPT !.st = "disputed", !.value = Several, !.mem = None, !.win = None]
      ELSE IF chosen(k) = {}
      THEN [claim[k] EXCEPT !.st = "archived", !.value = NoText, !.mem = None, !.win = None]
      ELSE LET w == CHOOSE f \in chosen(k) : TRUE IN Won(k, w, rev[w].value)]]

MissingMemory(c) == mem[c[1]] = "deleted" \/ mem[c[2]] = "deleted"

\* apply_conflict_selection with what every route writes after it; the
\* tenant's answer has no "neither", and settles the shared signals.
Settled(c, sel, loadedArchived, route) ==
  LET L == SelectedLedger(c, sel) IN
  /\ mem' = Selected(c, sel, loadedArchived)
  /\ rev' = L.rev /\ claim' = L.claim
  /\ conf' = [conf EXCEPT ![c] =
                [st |-> IF sel = "neither" THEN "ignored" ELSE "resolved",
                 path |-> IF route = "tenant" THEN "tenant_review" ELSE @.path,
                 clar |-> IF route = "tenant" /\ @.clar \notin {"pending", "triggered", "lapsed"}
                          THEN @.clar ELSE "resolved"]]
  /\ sig' = IF route # "tenant" \/ sel = "both" THEN sig
            ELSE [f \in Events |-> IF f \in {c[1], c[2]} /\ sig[f].value # NoText
                                   THEN [sig[f] EXCEPT !.current = f \in Kept(c, sel)]
                                   ELSE sig[f]]
  /\ work' = Touched({c[1], c[2]})
  /\ UNCHANGED <<text, cand, manual>>

\* answer_memory_clarification: the chat route locks the question and the
\* conflict before it reads them, so the whole request is one step.
AnswerClarification(c, sel) ==
  /\ Open(c) /\ conf[c].path = "user_session"
  /\ conf[c].clar \in {"pending", "triggered"}
  /\ ~MissingMemory(c)
  /\ Settled(c, sel, {m \in {c[1], c[2]} : IsArchived(m)}, "chat")
  /\ UNCHANGED req

\* A question found to be out of date is closed by the attempt to answer it.
AnswerTooLate(c) ==
  /\ conf[c].clar = "lapsed"
  /\ conf' = [conf EXCEPT ![c].clar = "expired"]
  /\ UNCHANGED <<mem, text, cand, rev, claim, sig, work, req, manual>>

\* _is_self_scoped_public_clarification.
SelfScoped(c) == Ev[c[1]].owner = Ev[c[2]].owner

\* What each route that takes no lock asks of the rows it loads.
MayAnswer(route, c, sel) ==
  /\ Open(c) /\ ~MissingMemory(c)
  /\ CASE route = "uui" -> conf[c].path = "user_session" /\ conf[c].clar # "none"
       [] route = "mcp" -> /\ conf[c].path = "user_session" /\ SelfScoped(c)
                           /\ conf[c].clar \in {"pending", "triggered"}
       [] route = "tenant" -> conf[c].path # "user_session" /\ sel # "neither"

\* answer_my_clarification, answer_clarification_for_public_tenant_mcp and
\* resolve_tenant_conflict read the conflict and its memories ...
LoadAnswer(route, c, sel) ==
  /\ req = NoReq /\ MayAnswer(route, c, sel)
  /\ req' = [route |-> route, c |-> c, sel |-> sel, archived |-> {m \in {c[1], c[2]} : IsArchived(m)}]
  /\ UNCHANGED <<mem, text, cand, rev, claim, sig, conf, work, manual>>

\* ... embed what they are to restore, and write; a row deleted meanwhile
\* fails the transaction.
WriteAnswer ==
  /\ req # NoReq
  /\ req' = NoReq
  /\ IF MissingMemory(req.c)
     THEN UNCHANGED <<mem, text, cand, rev, claim, sig, conf, work, manual>>
     ELSE Settled(req.c, req.sel, req.archived, req.route)

\* update_tenant_shared_context_conflict: whatever the conflict's state.
MarkNotConflict(c) ==
  /\ ByHand
  /\ conf[c].st # "none"
  /\ conf' = [conf EXCEPT ![c].st = "ignored"]
  /\ UNCHANGED <<mem, text, cand, rev, claim, sig, work, req>>

\* _pop_next_clarification: the question is put to the user.
PopClarification(c) ==
  /\ conf[c].clar = "pending" /\ conf[c].path = "user_session"
  /\ conf' = [conf EXCEPT ![c].clar = "triggered"]
  /\ UNCHANGED <<mem, text, cand, rev, claim, sig, work, req, manual>>

\* expires_at passes.
Lapse(c) ==
  /\ conf[c].clar \in {"pending", "triggered"}
  /\ conf' = [conf EXCEPT ![c].clar = "lapsed"]
  /\ UNCHANGED <<mem, text, cand, rev, claim, sig, work, req, manual>>

-----------------------------------------------------------------------------
(* Edits and deletions by hand (memory_service.py).                         *)

\* update_memory with new content: the ledger keeps the asserted value.
EditMemory(m, x) ==
  /\ ByHand /\ mem[m] \in {"live", "archived", "pending"} /\ x # text[m]
  /\ text' = [text EXCEPT ![m] = x]
  /\ work' = Touched({m})
  /\ UNCHANGED <<mem, cand, rev, claim, sig, conf, req>>

\* update_memory and delete_memory: archived or restored, the ledger untouched.
SetArchived(m) ==
  /\ ByHand
  /\ mem' = [mem EXCEPT ![m] = IF mem[m] = "live" THEN "archived" ELSE "live"]
  /\ mem[m] \in {"live", "archived", "pending"}
  /\ work' = Touched({m})
  /\ UNCHANGED <<text, cand, rev, claim, sig, conf, req>>

\* Mutant: the row goes and the claim still names it.
ReconciledNot(m) == claim

\* _hard_delete_memory_and_reconcile_claims: no new winner is chosen.  A claim
\* that loses its winner is cleared, and deleted with its last revision.
Reconciled(m) ==
  LET k == rev[m].claim
      left == {f \in Events \ {m} : rev[f].claim = k}
      on == {f \in left : rev[f].st = "activated"}
  IN
  IF k = NoKey THEN claim
  ELSE [claim EXCEPT ![k] =
          IF left = {} THEN NoClaim
          ELSE IF Cardinality(on) = 1
          THEN LET w == CHOOSE f \in on : TRUE IN Won(k, w, rev[w].value)
          ELSE [@ EXCEPT !.st = "archived", !.value = NoText, !.mem = None, !.win = None]]

HardDelete(m) ==
  /\ ByHand /\ mem[m] \in {"live", "archived", "pending"}
  /\ mem' = [mem EXCEPT ![m] = "deleted"]
  /\ rev' = [rev EXCEPT ![m] = NoRev]
  /\ claim' = Reconciled(m)
  /\ sig' = [sig EXCEPT ![m] = [value |-> NoText, current |-> FALSE]]
  /\ work' = Touched({m})
  /\ UNCHANGED <<text, cand, conf, req>>

-----------------------------------------------------------------------------
(* Service corrections: a correction whose target was not found waits for   *)
(* an operator, who names the target.                                       *)

\* load_preview: the target is the coherent winner of its claim.
CurrentTarget(e, t) ==
  LET c == claim[rev[t].claim] IN
  /\ mem[t] = "live" /\ Registered(t) /\ Ev[t].owner = Ev[e].owner
  /\ rev[t].claim # NoKey
  /\ c.st = "active" /\ c.win = t /\ c.mem = t /\ c.value = text[t] /\ rev[t].value = text[t]
  /\ rev[t].st = "activated" /\ Authority(t) = Authority(c.src)

\* apply_blockers.
NoBlockers(e, t) ==
  LET c == claim[rev[t].claim] IN
  Authority(e) >= Authority(c.src) /\ c.obs # 0 /\ Ev[e].obs >= c.obs

PendingCorrection(e) ==
  cand[e] = "pending" /\ Ev[e].state = "correction" /\ Registered(e) /\ ~Ev[e].verified

CorrectionPreview(e, t) ==
  /\ PendingCorrection(e) /\ work[e].pc \in {"done", "review"}
  /\ t # e /\ CurrentTarget(e, t)
  /\ work' = [work EXCEPT ![e] = [pc |-> "review", target |-> t, stale |-> FALSE,
                                  seen |-> claim[rev[t].claim]]]
  /\ UNCHANGED <<mem, text, cand, rev, claim, sig, conf, req, manual>>

\* review_version and target_version, recomputed under the locks.
StillAsShown(e, t) ==
  ~work[e].stale /\ CurrentTarget(e, t) /\ claim[rev[t].claim] = work[e].seen

\* decide, action "apply": the successor joins the target's claim.
CorrectionApply(e) ==
  LET t == work[e].target
      L == RecordMemory(e, Ev[e].says, TRUE, t)
  IN
  /\ PendingCorrection(e) /\ work[e].pc = "review"
  /\ StillAsShown(e, t) /\ NoBlockers(e, t)
  /\ mem' = [mem EXCEPT ![e] = "live", ![t] = "archived"]
  /\ rev' = L.rev /\ claim' = L.claim
  /\ cand' = [cand EXCEPT ![e] = "promoted"]
  /\ work' = [Touched({t}) EXCEPT ![e] = [NoWork EXCEPT !.pc = "done"]]
  /\ UNCHANGED <<text, sig, conf, req, manual>>

\* decide, action "decline".
CorrectionDecline(e) ==
  /\ PendingCorrection(e) /\ work[e].pc = "review" /\ StillAsShown(e, work[e].target)
  /\ cand' = [cand EXCEPT ![e] = "dismissed"]
  /\ work' = [work EXCEPT ![e] = [NoWork EXCEPT !.pc = "done"]]
  /\ UNCHANGED <<mem, text, rev, claim, sig, conf, req, manual>>

-----------------------------------------------------------------------------
Next ==
  \/ \E e \in Events : ReadCandidates(e) \/ CheckAndStore(e) \/ RecordDomainField(e)
  \/ \E c \in Pairs : \/ QueueExistingClarification(c) \/ AnswerTooLate(c) \/ Lapse(c)
                      \/ MarkNotConflict(c) \/ PopClarification(c)
                      \/ \E sel \in Answers : AnswerClarification(c, sel)
                      \/ \E route \in Routes, sel \in Answers : LoadAnswer(route, c, sel)
  \/ WriteAnswer
  \/ \E m \in Events : SetArchived(m) \/ HardDelete(m) \/ \E x \in Contents : EditMemory(m, x)
  \/ \E e, t \in Events : CorrectionPreview(e, t)
  \/ \E e \in Events : CorrectionApply(e) \/ CorrectionDecline(e)

Spec == Init /\ [][Next]_vars

-----------------------------------------------------------------------------
(* Properties.                                                              *)

\* The variables have the types of their rows.
TypeOK ==
  /\ mem \in [Events -> MemoryStates] /\ text \in [Events -> Contents]
  /\ cand \in [Events -> CandidateStates]
  /\ rev \in [Events -> Revision] /\ claim \in [Keys -> Claim] /\ sig \in [Events -> Signal]
  /\ conf \in [Pairs -> Conflict] /\ work \in [Events -> Work]
  /\ req = NoReq \/ req \in Request
  /\ manual \in 0 .. MaxManual

\* The ledger names one answer: a claim has at most one activated revision,
\* that revision is its winner, and a claim that is archived or was left with
\* two answers names none.  record_memory, the field writer, a person's
\* selection, a correction and the reconciliation of a deletion all write both
\* tables, in separate statements (uq_memory_claim_revisions_one_activated).
LedgerCoherent ==
  \A k \in Keys :
    LET on == {e \in Events : rev[e].claim = k /\ rev[e].st = "activated"} IN
    /\ \A e \in on : claim[k].win = e
    /\ claim[k].win # None => on = {claim[k].win} /\ claim[k].value = rev[claim[k].win].value
    /\ claim[k].mem \in {None, claim[k].win}
    /\ claim[k].st \in {"none", "archived"} => on = {}
    /\ claim[k].st = "active" => on # {}

\* No memory of a registered source is served outside the ledger: while its
\* row exists it has a revision in a claim of its own profile (check_and_store
\* undoes the transaction when the ledger refuses it).
RegisteredInLedger ==
  \A e \in Events : Registered(e) /\ mem[e] \in {"live", "pending", "archived"} =>
    rev[e].claim # NoKey /\ rev[e].claim[1] = Ev[e].owner

\* A verified claim is stored only against what it compared itself with: the
\* memory it read before the provider answered, when there was one, is live and
\* unchanged (check_and_store locks the target and compares it again).
VerifiedReplacesOnlyCurrent ==
  [][\A e \in Events : mem[e] = "none" /\ mem'[e] = "live" /\ Ev[e].verified =>
       LET t == work[e].target IN
       t = None \/ (mem[t] = "live" /\ ~work[e].stale)]_vars

\* Whatever is put to a user can be put: an open conflict that only the user
\* may settle has a question (the resolver and the automatic resolution insert
\* the two rows in one transaction).
UserConflictHasQuestion ==
  \A c \in Pairs : Open(c) /\ conf[c].path = "user_session" => conf[c].clar # "none"

\* An answer that arrives through the public MCP never changes a memory of
\* another profile.
McpAnswersSelfOnly ==
  [][req # NoReq /\ req.route = "mcp" /\ req' = NoReq =>
       \A m \in Events : Ev[m].owner # Ev[req.c[1]].owner =>
         mem'[m] = mem[m] /\ rev'[m] = rev[m]]_vars

\* An applied correction replaces exactly what the operator was shown: the
\* target still is live, says what it said and wins its claim, and the
\* successor takes its place there.
CorrectionReplacesWhatWasShown ==
  [][\A e \in Events : cand[e] = "pending" /\ cand'[e] = "promoted" =>
       LET t == work[e].target  k == rev[t].claim IN
       /\ mem[t] = "live" /\ text[t] = work[e].seen.value /\ claim[k].win = t
       /\ claim'[k].win = e /\ mem'[t] = "archived"]_vars

\* What is stored is accounted for: a registered memory by its revision, an open
\* conflict of the user's by its question (check_and_store, resolve_conflict).
Accounted == RegisteredInLedger /\ UserConflictHasQuestion

\* Whatever waited for a provider, a person or an operator changes only what it
\* was decided about (check_and_store, the MCP answer, apply of a correction).
ChangesAsDecided ==
  VerifiedReplacesOnlyCurrent /\ McpAnswersSelfOnly /\ CorrectionReplacesWhatWasShown

=============================================================================
