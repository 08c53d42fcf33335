-------------------------- MODULE RuntimePreferences --------------------------
(***************************************************************************)
(* The runtime preference lane of one profile: a job captures the ledger   *)
(* and the memories it may touch, a language model says what the user      *)
(* meant, the first checked decision is fixed on the job, and one          *)
(* serializable transaction applies it against what was captured           *)
(* (runtime_preference_worker.py and the preference_*.py and runtime_*.py  *)
(* services).  Reads withhold what an unfinished job may change.           *)
(*                                                                         *)
(* A property has two identities, the global one and the one of the        *)
(* caller's project.  Beside them the profile holds one fact that jobs may *)
(* correct, and a number of others.  Versions are fresh numbers: the code  *)
(* hashes the row, whose marker carries a new nonce after every choice.    *)
(***************************************************************************)
EXTENDS Naturals, FiniteSets

CONSTANTS Jobs,       \* 1 .. n, in the order of acceptance
          Workers,
          Values,
          Replies,    \* Replies[j]: what the classifier may answer about job j
          PlansFor,   \* PlansFor[j]: what it may plan for the rest of job j's text
          Policy,     \* Policy[j] = 2: a value waits for a confirmation
          Started,    \* the values that are current at the start, by identity
          Copies,     \* Copies[j]: bound: how many workers may hold job j at once
          MaxContext, \* MAX_FACT_CONTEXT
          MaxPage,    \* MAX_PENDING_FOOTPRINTS and MAX_RELEASE_JOBS
          MaxVersion, \* bound: changes to one row
          MaxEvents   \* bound: declarations, other writers, flips and losses

Global == "global"
Project == "project"
Ids == {Global, Project}
NoId == "none"
NoValue == "no value"

Actions == {"assert", "set_current", "withhold", "reaffirm", "tentative", "abstain"}
Reply == [act : Actions \cup {NoId}, id : Ids \cup {NoId}, val : Values \cup {NoValue},
          fact : BOOLEAN]
\* What the classifier may say of the finding that is not a preference.
Plans == [act : {"UPDATE", "KEEP_BOTH", "REJECT", "pending"}, target : BOOLEAN]
           \ {[act |-> "UPDATE", target |-> FALSE]}
NoPlan == [act |-> "pending", target |-> FALSE]
NoReply == [act |-> NoId, id |-> NoId, val |-> NoValue, fact |-> FALSE]

ASSUME PreferenceAssumption ==
  /\ IsFiniteSet(Jobs) /\ Jobs = 1 .. Cardinality(Jobs)
  /\ Replies \in [Jobs -> SUBSET Reply]
  /\ \A j \in Jobs : \A r \in Replies[j] :
       /\ r.val \in Values <=> r.act \in {"assert", "set_current", "tentative"}
       /\ r.id = NoId <=> r.act \in {NoId, "abstain"}
  /\ PlansFor \in [Jobs -> SUBSET Plans]
  /\ Copies \in [Jobs -> Nat]
  /\ Policy \in [Jobs -> {1, 2}]
  /\ DOMAIN Started \subseteq Ids /\ \A p \in DOMAIN Started : Started[p] \in Values
  /\ MaxContext \in Nat /\ MaxPage \in Nat /\ MaxVersion \in Nat \ {0} /\ MaxEvents \in Nat

VARIABLES
  claim,   \* claim[p]: the memory_claims row of an identity and its winner
  fact,    \* the memory that jobs may correct, and how many others there are
  job,     \* job[j]: the extraction_jobs row
  rec,     \* rec[j]: its preference_intent_admission record
  hold,    \* hold[j]: its runtime_job_reconciliations row
  review,  \* review[j]: the source review of a choice that job j withheld
  ask,     \* ask[j]: the confirmation that job j left for the user
  work,    \* work[w]: a worker between two transactions
  flag,    \* the rollout flags, for this tenant
  events   \* how much of MaxEvents is used

vars == <<claim, fact, job, rec, hold, review, ask, work, flag, events>>

Versions == 0 .. MaxVersion
Facts == [ver : Versions, live : BOOLEAN, strong : BOOLEAN, others : Versions]
\* how and src are in the memory's provenance; old: the claim has had a winner before.
Claim == [st : {"none", "active", "disputed", "archived", "cleared"},
          val : Values \cup {NoValue}, ver : Versions,
          how : {"asserted", "replacement"}, src : Jobs \cup {0}, old : BOOLEAN]
\* What a hold names: a preference, the fact at a version, or all of the profile.
Pref(p) == <<p, 0>>
Fact(v) == <<"fact", v>>
Broad == {<<"user_learned_context", 0>>}
Keys == {Pref(p) : p \in Ids} \cup {Fact(v) : v \in Versions}
Scope == SUBSET Keys \cup {Broad}
Record == [st : {"none", "captured", "validated", "applied"}, snap : [Ids -> Versions],
           ctx : [Ids \cup {"fact", "others"} -> Versions], full : BOOLEAN,
           reply : Reply, plan : Plans, settled : SUBSET Keys, residual : Scope]
Job == [st : {"none", "open", "dead", "completed"}, route : BOOLEAN,
        source : {"kept", "lost", "changed"}, legacy : BOOLEAN]
\* at: the jobs accepted when the row was written.
Hold == [why : {"none", "narrow", "broad", "residual"}, at : 0 .. Cardinality(Jobs),
         released : SUBSET Keys]
Question == [st : {"none", "pending", "lapsed", "closed", "confirmed"}, ver : Versions]
Work == [job : Jobs \cup {0}, reply : Reply, plan : Plans,
         pc : {"idle", "capture", "load", "admit", "fix", "apply", "finish", "legacy"}]

NoRecord == [st |-> "none", snap |-> [p \in Ids |-> 0],
             ctx |-> [k \in Ids \cup {"fact", "others"} |-> 0], full |-> TRUE,
             reply |-> NoReply, plan |-> NoPlan, settled |-> {}, residual |-> {}]
NoQuestion == [st |-> "none", ver |-> 0]
Idle == [job |-> 0, reply |-> NoReply, plan |-> NoPlan, pc |-> "idle"]

Init ==
  /\ claim = [p \in Ids |->
       IF p \in DOMAIN Started
       THEN [st |-> "active", val |-> Started[p], ver |-> 1, how |-> "asserted", src |-> 0,
             old |-> FALSE]
       ELSE [st |-> "none", val |-> NoValue, ver |-> 0, how |-> "asserted", src |-> 0,
             old |-> FALSE]]
  /\ fact = [ver |-> 1, live |-> TRUE, strong |-> FALSE, others |-> 0]
  /\ job = [j \in Jobs |-> [st |-> "none", route |-> FALSE, source |-> "kept", legacy |-> FALSE]]
  /\ rec = [j \in Jobs |-> NoRecord]
  /\ hold = [j \in Jobs |-> [why |-> "none", at |-> 0, released |-> {}]]
  /\ review = [j \in Jobs |-> NoQuestion]
  /\ ask = [j \in Jobs |-> NoQuestion]
  /\ work = [w \in Workers |-> Idle]
  /\ flag = TRUE
  /\ events = 0

Accepted == {j \in Jobs : job[j].st # "none"}
Event == events < MaxEvents /\ events' = events + 1

-----------------------------------------------------------------------------
(* The ledger of declared preferences.                                      *)

Held(p)    == claim[p].st = "disputed"
Current(p) == claim[p].st \in {"active", "disputed"}

\* load_usable_winner: an archived winner still stands for its identity.
Usable(p) == claim[p].st \in {"active", "disputed", "archived"}

\* A row without a usable winner makes the whole snapshot unavailable.
SnapshotAvailable == \A p \in Ids : claim[p].st # "cleared"
Binding(p) == IF Usable(p) THEN claim[p].ver ELSE 0

\* _targets, _bindings: every current memory of the profile, preferences too.
Bindings == [k \in Ids \cup {"fact", "others"} |->
               CASE k = "fact"   -> IF fact.live THEN fact.ver ELSE 0
                 [] k = "others" -> fact.others
                 [] OTHER        -> IF Current(k) THEN claim[k].ver ELSE 0]

\* One row more than the limit shows that the context is cut off.
Complete ==
  fact.others + (IF fact.live THEN 1 ELSE 0) + Cardinality({p \in Ids : Current(p)}) <= MaxContext

\* transition_reason for a declaration that cites version ver of the winner.
Reason(p, commitment, val, ver) ==
  IF ~Usable(p) THEN IF commitment = "asserted" THEN "NEW" ELSE "stale"
  ELSE IF commitment = "uncertain"
  THEN IF ver = claim[p].ver /\ Current(p) THEN "WITHHOLD" ELSE "stale"
  ELSE IF commitment = "replacement"
  THEN IF ver # claim[p].ver THEN "stale"
       ELSE IF Held(p) /\ claim[p].val = val THEN "REAFFIRM"
       ELSE IF claim[p].st # "active" \/ claim[p].val # val THEN "UPDATE" ELSE "DEDUP"
  ELSE IF Held(p) THEN "requires_review"
  ELSE IF claim[p].st = "archived" THEN "stale"
  ELSE IF claim[p].val = val THEN "DEDUP" ELSE "conflict"

\* _store_new_memory, set_choice_state: the row after a transition.
Moved(p, reason, val, commitment, src) ==
  LET next == [claim[p] EXCEPT !.ver = claim[p].ver + 1] IN
  CASE reason \in {"NEW", "UPDATE"} ->
         [next EXCEPT !.st = "active", !.val = val, !.how = commitment, !.src = src,
                      !.old = (claim[p].old \/ reason = "UPDATE" \/ claim[p].st = "cleared")]
    [] reason = "REAFFIRM" -> [next EXCEPT !.st = "active"]
    [] reason = "WITHHOLD" -> [next EXCEPT !.st = "disputed"]
    [] OTHER -> claim[p]

\* lock_choice_target: a choice holds against the row it was made about.
ChoiceReason(p, act, ver) ==
  IF claim[p].st = "cleared" THEN "inconsistent"
  ELSE IF ~Current(p) \/ claim[p].ver # ver THEN "stale"
  ELSE IF act = "withhold" THEN "WITHHOLD"
  ELSE IF Held(p) THEN "REAFFIRM" ELSE "not_held"

\* A declaration in an add request: the caller cites the version it was shown.
Declare(p, commitment, val, ver) ==
  LET reason == Reason(p, commitment, val, ver) IN
  /\ Event /\ flag /\ claim[p].ver < MaxVersion
  /\ reason \in {"NEW", "UPDATE", "REAFFIRM", "WITHHOLD"}
  /\ claim' = [claim EXCEPT ![p] = Moved(p, reason, val, commitment, 0)]
  /\ UNCHANGED <<fact, job, rec, hold, review, ask, work, flag>>

\* lock_preference_lifecycle: archiving the winner leaves a tombstone; deleting
\* it clears the claim, or removes a claim that has no other revision.
ArchivePreference(p) ==
  /\ Event /\ Current(p) /\ claim[p].ver < MaxVersion
  /\ claim' = [claim EXCEPT ![p].st = "archived", ![p].ver = @ + 1]
  /\ UNCHANGED <<fact, job, rec, hold, review, ask, work, flag>>

DeletePreference(p) ==
  /\ Event /\ Usable(p) /\ claim[p].ver < MaxVersion
  /\ claim' = [claim EXCEPT ![p].st = IF claim[p].old THEN "cleared" ELSE "none",
                            ![p].val = NoValue, ![p].ver = @ + 1]
  /\ UNCHANGED <<fact, job, rec, hold, review, ask, work, flag>>

\* Other writers: a correction of the fact, its archival, another memory, or a
\* claim that gives the fact more authority without touching its row.
OtherWriter ==
  /\ Event
  /\ \/ fact.ver < MaxVersion /\ \E live \in BOOLEAN :
          fact' = [fact EXCEPT !.ver = @ + 1, !.live = live]
     \/ fact.others < MaxVersion /\ fact' = [fact EXCEPT !.others = @ + 1]
     \/ ~fact.strong /\ fact' = [fact EXCEPT !.strong = TRUE]
  /\ UNCHANGED <<claim, job, rec, hold, review, ask, work, flag>>

-----------------------------------------------------------------------------
(* What a fixed decision may touch.                                         *)

Deciding(j) == rec[j].st \in {"validated", "applied"}
FactKey(j) == Fact(rec[j].ctx["fact"])

\* decision_footprint: the identities and the fact a decision names; anything
\* it cannot name keeps the whole profile withheld.
Footprint(j) ==
  LET r == rec[j].reply
      prefs == IF r.id = NoId THEN {} ELSE {Pref(r.id)}
      facts == IF r.fact /\ rec[j].plan.target THEN {FactKey(j)} ELSE {}
  IN IF \/ r.act = "abstain"
        \/ r.fact /\ (~rec[j].full \/ ~rec[j].plan.target)
        \/ prefs \cup facts = {}
     THEN Broad ELSE prefs \cup facts

Guarded(j) == job[j].route \/ rec[j].st # "none"

\* Mutant: a job that has decided nothing withholds nothing.
ExtentIfDecided(j) == IF rec[j].st = "applied" THEN rec[j].residual
                      ELSE IF rec[j].st = "validated" THEN Footprint(j) ELSE {}

\* What read_runtime_hold and the releases take as the extent of job j's hold.
Extent(j) == IF rec[j].st = "applied" THEN rec[j].residual
             ELSE IF rec[j].st = "validated" THEN Footprint(j) ELSE Broad
FullyReleased(j) == Extent(j) # Broad /\ Extent(j) # {} /\ Extent(j) \subseteq hold[j].released

Unresolved(j) ==
  /\ job[j].st # "none" /\ Guarded(j)
  /\ rec[j].st = "applied" => rec[j].residual # {}
  /\ ~FullyReleased(j)

\* One pending row of read_runtime_hold.
HoldOf(j) ==
  IF Extent(j) = Broad \/ hold[j].why = "broad" THEN Broad
  ELSE Extent(j) \ hold[j].released

\* read_runtime_hold: a page that is too long, a row it cannot interpret, or a
\* fact that is no longer the one that was bound withholds everything.
RuntimeHold ==
  LET pending == {j \in Jobs : Unresolved(j)}
      keys == UNION {HoldOf(j) : j \in {i \in pending : HoldOf(i) # Broad}}
  IN IF \/ Cardinality(pending) > MaxPage
        \/ \E j \in pending : HoldOf(j) = Broad
        \/ \E v \in Versions : Fact(v) \in keys /\ (v # fact.ver \/ ~fact.live)
     THEN Broad ELSE keys

\* pending_fingerprints: a question about an unchanged row withholds it.
Asked(j) ==
  LET p == rec[j].reply.id IN
  IF rec[j].snap[p] = 0 THEN ~Usable(p)
  ELSE Current(p) /\ claim[p].ver = rec[j].snap[p]
ConfirmationHold ==
  {Pref(rec[j].reply.id) : j \in {i \in Jobs : ask[i].st \in {"pending", "lapsed"} /\ Asked(i)}}

\* _retrieve_declared_preferences within _final_current_read: what a read in the
\* given scope finds, most specific scope first.
Served(scope) ==
  LET held == RuntimeHold \cup ConfirmationHold
      scopes == {Pref(scope), Pref(Global)}
  IN IF RuntimeHold = Broad \/ scopes \cap held # {} \/ Held(scope) THEN NoId
     ELSE IF claim[scope].st = "active" THEN scope
     ELSE IF claim[Global].st = "active" THEN Global ELSE NoId
FactServed == fact.live /\ RuntimeHold # Broad /\ Fact(fact.ver) \notin RuntimeHold

-----------------------------------------------------------------------------
(* The worker's transactions; it classifies and embeds between them.        *)

\* Acceptance reserves the route while the flags are on (memory_service).
Accept(j) ==
  /\ job[j].st = "none" /\ \A i \in Jobs : i < j => i \in Accepted
  /\ job' = [job EXCEPT ![j].st = "open", ![j].route = flag]
  /\ UNCHANGED <<claim, fact, rec, hold, review, ask, work, flag, events>>

\* The reply and the plan are the worker's own until the record holds them.
Goto(w, pc) == work' = [work EXCEPT ![w] = [Idle EXCEPT !.job = work[w].job, !.pc = pc]]
Abort(w) == work' = [work EXCEPT ![w] = Idle]

\* The broker may deliver a job again while a worker still holds it.
Deliverable(j) == Cardinality({w \in Workers : work[w].job = j}) < Copies[j]

\* Mutant: a job that lost its rollout falls back to the extraction pipeline.
SelectFallsBack(w, j) ==
  /\ work[w].pc = "idle" /\ job[j].st = "open" /\ Deliverable(j)
  /\ work' = [work EXCEPT ![w] = [Idle EXCEPT
                !.job = j,
                !.pc = IF rec[j].st # "none" THEN "load" ELSE IF flag THEN "capture" ELSE "legacy"]]
  /\ UNCHANGED <<claim, fact, job, rec, hold, review, ask, flag, events>>

\* _selection: a captured job stays in this lane, a reserved one fails closed,
\* any other job goes where the flags send it today.
Select(w, j) ==
  /\ work[w].pc = "idle" /\ job[j].st = "open" /\ Deliverable(j)
  /\ rec[j].st = "none" => flag \/ ~job[j].route
  /\ work' = [work EXCEPT ![w] = [Idle EXCEPT
                !.job = j,
                !.pc = IF rec[j].st # "none" THEN "load" ELSE IF flag THEN "capture" ELSE "legacy"]]
  /\ UNCHANGED <<claim, fact, job, rec, hold, review, ask, flag, events>>

\* _owned_job, _check: the gates of every transaction.
Quarantined(j) == job[j].st = "dead" /\ hold[j].why \in {"narrow", "broad"}
Owned(j) == flag /\ job[j].source = "kept" /\ ~Quarantined(j)
OwnedOrApplied(j) ==
  (flag \/ rec[j].st = "applied") /\ job[j].source = "kept" /\ ~Quarantined(j)
StillOpen(j) == job[j].st \notin {"completed", "dead"}

\* capture, once per job.
Capture(w) ==
  LET j == work[w].job IN
  /\ work[w].pc = "capture" /\ Owned(j)
  /\ \/ rec[j].st # "none" /\ UNCHANGED <<job, rec>>
     \/ /\ rec[j].st = "none" /\ StillOpen(j) /\ SnapshotAvailable
        /\ rec' = [rec EXCEPT ![j] = [NoRecord EXCEPT !.st = "captured", !.full = Complete,
                       !.snap = [p \in Ids |-> Binding(p)], !.ctx = Bindings]]
        /\ job' = [job EXCEPT ![j].route = TRUE]
  /\ Goto(w, "load")
  /\ UNCHANGED <<claim, fact, hold, review, ask, flag, events>>

NextStep(j) == CASE rec[j].st = "captured"  -> "admit"
                 [] rec[j].st = "validated" -> "apply"
                 [] rec[j].st = "applied"   -> "finish"

\* load, then classify_intents without a transaction.
Load(w) ==
  LET j == work[w].job IN
  /\ work[w].pc = "load" /\ OwnedOrApplied(j)
  /\ IF rec[j].st = "captured"
     THEN \E r \in Replies[j] : work' = [work EXCEPT ![w].pc = "admit", ![w].reply = r]
     ELSE Goto(w, NextStep(j))
  /\ UNCHANGED <<claim, fact, job, rec, hold, review, ask, flag, events>>

\* A decision that is already fixed is taken over if it is the same one.
TakeOver(w, j) == rec[j].st # "captured" /\ rec[j].reply = work[w].reply /\ Goto(w, NextStep(j))
ContextUnchanged(j) == Complete /\ rec[j].full /\ Bindings = rec[j].ctx

\* admit, first transaction and _plan_facts: plans need an unchanged context.
Admit(w) ==
  LET j == work[w].job IN
  /\ work[w].pc = "admit" /\ Owned(j)
  /\ \/ TakeOver(w, j)
     \/ /\ rec[j].st = "captured" /\ StillOpen(j)
        /\ \E p \in IF work[w].reply.fact /\ ContextUnchanged(j)
                    THEN {q \in PlansFor[j] : q.target => fact.live} ELSE {NoPlan} :
             work' = [work EXCEPT ![w].pc = "fix", ![w].plan = p]
  /\ UNCHANGED <<claim, fact, job, rec, hold, review, ask, flag, events>>

Fixed(w) == [rec EXCEPT ![work[w].job].st = "validated",
                        ![work[w].job].reply = work[w].reply, ![work[w].job].plan = work[w].plan]

\* Mutant: the second transaction trusts what the first one read.
FixLastWins(w) ==
  LET j == work[w].job IN
  /\ work[w].pc = "fix" /\ Owned(j) /\ StillOpen(j)
  /\ rec' = Fixed(w) /\ Goto(w, "apply")
  /\ UNCHANGED <<claim, fact, job, hold, review, ask, flag, events>>

\* admit, second transaction: the first decision to arrive is fixed.
Fix(w) ==
  LET j == work[w].job IN
  /\ work[w].pc = "fix" /\ Owned(j)
  /\ \/ TakeOver(w, j) /\ UNCHANGED rec
     \/ rec[j].st = "captured" /\ StillOpen(j) /\ rec' = Fixed(w) /\ Goto(w, "apply")
  /\ UNCHANGED <<claim, fact, job, hold, review, ask, flag, events>>

\* prepare_target_releases: quarantined jobs and residual holds that were
\* diagnosed before this job was accepted.
Releasable(j) ==
  {i \in Jobs : /\ hold[i].why \in {"narrow", "residual"} /\ hold[i].at < j
                /\ Extent(i) # Broad /\ ~FullyReleased(i)}
Remaining(i) == Extent(i) \ hold[i].released

Commitment(j) == IF rec[j].reply.act = "set_current" /\ rec[j].snap[rec[j].reply.id] # 0
                 THEN "replacement" ELSE "asserted"

Declares(j) == rec[j].reply.act \in {"assert", "set_current"} /\ Policy[j] = 1
Asks(j)     == rec[j].reply.act \in {"assert", "set_current"} /\ Policy[j] = 2
Chooses(j)  == /\ rec[j].reply.act \in {"withhold", "reaffirm"}
               /\ rec[j].snap[rec[j].reply.id] # 0

\* apply, the preferences: a declaration counts against the row, or the absence,
\* that was captured; a choice against the version it was made about.  Keeping a
\* value that is not held is an answer when an old job's hold names it.
PreferenceOutcome(j) ==
  LET r == rec[j].reply
      p == r.id
      snap == rec[j].snap[p]
  IN
  IF Declares(j)
  THEN IF IF snap = 0 THEN claim[p].st = "none" ELSE Usable(p) /\ claim[p].ver = snap
       THEN Reason(p, Commitment(j), r.val, snap) ELSE "stale"
  ELSE IF ~Chooses(j) THEN "none"
  ELSE IF /\ ChoiceReason(p, r.act, snap) = "not_held"
          /\ \E i \in Releasable(j) : Pref(p) \in Remaining(i)
  THEN "REAFFIRM"
  ELSE ChoiceReason(p, r.act, snap)

\* _store_nonpreferences: "held" and "unknown" are pending facts with and
\* without a target; a stronger fact is kept and not withheld.
FactOutcome(j) ==
  IF ~rec[j].reply.fact THEN "none"
  ELSE IF ~ContextUnchanged(j) THEN "unknown"
  ELSE IF rec[j].plan.target /\ fact.strong THEN "protected"
  ELSE IF rec[j].plan.act = "pending" THEN IF rec[j].plan.target THEN "held" ELSE "unknown"
  ELSE rec[j].plan.act

\* commit_target_releases: what this job demonstrably settled.
Settled(j) ==
  (IF \/ PreferenceOutcome(j) \in {"NEW", "UPDATE"}
      \/ PreferenceOutcome(j) = "REAFFIRM" /\ Chooses(j)
   THEN {Pref(rec[j].reply.id)} ELSE {})
  \cup (IF FactOutcome(j) = "UPDATE" THEN {FactKey(j)} ELSE {})

Residual(j) == CASE FactOutcome(j) = "unknown" -> Broad
                 [] FactOutcome(j) = "held"    -> {FactKey(j)}
                 [] OTHER                      -> {}

\* The releases and the job's own residual hold.
Released(j) ==
  [i \in Jobs |->
     IF i \in Releasable(j)
     THEN [hold[i] EXCEPT !.released = @ \cup (Settled(j) \cap Remaining(i))]
     ELSE IF i = j /\ Residual(j) # {}
     THEN [why |-> "residual", at |-> Cardinality(Accepted), released |-> {}]
     ELSE hold[i]]

\* apply and _write: memories, reviews, releases, residual hold and receipt, at once.
ApplyOnce(j) ==
  LET r == rec[j].reply
      out == PreferenceOutcome(j)
      moves == out \in {"NEW", "UPDATE", "REAFFIRM", "WITHHOLD"}
  IN
  /\ moves => claim[r.id].ver < MaxVersion
  /\ FactOutcome(j) = "UPDATE" => fact.ver < MaxVersion
  /\ FactOutcome(j) = "KEEP_BOTH" => fact.others < MaxVersion
  /\ hold[j].why = "none"
  /\ claim' = IF moves THEN [claim EXCEPT ![r.id] = Moved(r.id, out, r.val, Commitment(j), j)]
              ELSE claim
  /\ fact' = CASE FactOutcome(j) = "UPDATE" -> [fact EXCEPT !.ver = @ + 1, !.strong = FALSE]
               [] FactOutcome(j) = "KEEP_BOTH" -> [fact EXCEPT !.others = @ + 1]
               [] OTHER -> fact
  /\ review' = IF out = "WITHHOLD"
               THEN [review EXCEPT ![j] = [st |-> "pending", ver |-> claim[r.id].ver + 1]]
               ELSE review
  /\ ask' = IF Asks(j)
            THEN [ask EXCEPT ![j] = [st |-> "pending", ver |-> rec[j].snap[r.id]]] ELSE ask
  /\ hold' = Released(j)
  /\ rec' = [rec EXCEPT ![j].st = "applied", ![j].settled = Settled(j),
                        ![j].residual = Residual(j)]

Apply(w) ==
  LET j == work[w].job IN
  /\ work[w].pc = "apply" /\ Owned(j) /\ Goto(w, "finish")
  /\ \/ rec[j].st = "applied" /\ UNCHANGED <<claim, fact, rec, hold, review, ask>>
     \/ rec[j].st = "validated" /\ StillOpen(j) /\ ApplyOnce(j)
  /\ UNCHANGED <<job, flag, events>>

\* The receipt is delivered and the job completed.
Finish(w) ==
  LET j == work[w].job IN
  /\ work[w].pc = "finish" /\ Abort(w)
  /\ job' = [job EXCEPT ![j].st = IF @ = "open" THEN "completed" ELSE @]
  /\ UNCHANGED <<claim, fact, rec, hold, review, ask, flag, events>>

\* run_extraction_pipeline: the lane of every other job adds a memory.
Legacy(w) ==
  LET j == work[w].job IN
  /\ work[w].pc = "legacy" /\ Abort(w) /\ fact.others < MaxVersion
  /\ fact' = [fact EXCEPT !.others = @ + 1]
  /\ job' = [job EXCEPT ![j].legacy = TRUE, ![j].st = IF @ = "open" THEN "completed" ELSE @]
  /\ UNCHANGED <<claim, rec, hold, review, ask, flag, events>>

\* A worker dies, or one of its transactions raises and rolls back.
Crash(w) ==
  /\ work[w].pc # "idle" /\ Abort(w)
  /\ UNCHANGED <<claim, fact, job, rec, hold, review, ask, flag, events>>

\* Or it was the job's last attempt.
Die(w) ==
  /\ work[w].pc # "idle" /\ job[work[w].job].st = "open" /\ Abort(w)
  /\ job' = [job EXCEPT ![work[w].job].st = "dead"]
  /\ UNCHANGED <<claim, fact, rec, hold, review, ask, flag, events>>

-----------------------------------------------------------------------------
(* Operators, users and time.                                               *)

Flip ==
  /\ Event /\ flag' = ~flag
  /\ UNCHANGED <<claim, fact, job, rec, hold, review, ask, work>>

\* The payload is redacted or expires; the event changes.
LoseSource(j) ==
  /\ Event /\ j \in Accepted /\ job[j].source = "kept"
  /\ \E s \in {"lost", "changed"} : job' = [job EXCEPT ![j].source = s]
  /\ UNCHANGED <<claim, fact, rec, hold, review, ask, work, flag>>

\* quarantine_runtime_job: only evidence that is gone or changed is quarantined,
\* and only a bound projection of lost evidence narrows the hold.
Quarantine(j) ==
  /\ job[j].st = "dead" /\ Guarded(j) /\ rec[j].st # "applied" /\ job[j].source # "kept"
  /\ hold[j].why = "none"
  /\ hold' = [hold EXCEPT ![j] =
       [why |-> IF job[j].source = "lost" /\ Deciding(j) /\ Footprint(j) # Broad
                THEN "narrow" ELSE "broad",
        at |-> Cardinality(Accepted), released |-> {}]]
  /\ UNCHANGED <<claim, fact, job, rec, review, ask, work, flag, events>>

\* retry_dead_letter_job with validate_recovery.
Retry(j) ==
  /\ job[j].st = "dead" /\ hold[j].why \in {"none", "residual"}
  /\ Guarded(j) => OwnedOrApplied(j)
  /\ job' = [job EXCEPT ![j].st = "open"]
  /\ UNCHANGED <<claim, fact, rec, hold, review, ask, work, flag, events>>

\* answer_source_review for a withheld choice: keep_current lifts the hold that
\* the review was written for; dismissing it leaves the hold.
AnswerReview(j, action) ==
  LET p == rec[j].reply.id IN
  /\ flag /\ review[j].st = "pending" /\ Current(p) /\ claim[p].ver = review[j].ver
  /\ claim[p].ver < MaxVersion
  /\ claim' = IF action = "keep_current"
              THEN [claim EXCEPT ![p].st = "active", ![p].ver = @ + 1] ELSE claim
  /\ action = "keep_current" => Held(p)
  /\ review' = [review EXCEPT ![j].st = "closed"]
  /\ UNCHANGED <<fact, job, rec, hold, ask, work, flag, events>>

\* answer with confirm: the proposal becomes current if its target is unchanged.
Confirm(j) ==
  LET r == rec[j].reply
      snap == rec[j].snap[r.id]
      commitment == IF snap = 0 THEN "asserted" ELSE "replacement"
      reason == Reason(r.id, commitment, r.val, snap)
  IN
  /\ flag /\ ask[j].st = "pending" /\ OwnedOrApplied(j) /\ Asked(j)
  /\ claim[r.id].ver < MaxVersion
  /\ claim' = [claim EXCEPT ![r.id] = Moved(r.id, reason, r.val, commitment, j)]
  /\ ask' = [ask EXCEPT ![j].st = "confirmed"]
  /\ UNCHANGED <<fact, job, rec, hold, review, work, flag, events>>

\* answer with keep_current, which needs the question's source and target, or
\* with dismiss, which does not and is allowed after the deadline too.
Decline(j, action) ==
  /\ ask[j].st \in (IF action = "dismiss" THEN {"pending", "lapsed"} ELSE {"pending"})
  /\ action = "keep_current" => OwnedOrApplied(j) /\ Asked(j)
  /\ ask' = [ask EXCEPT ![j].st = "closed"]
  /\ UNCHANGED <<claim, fact, job, rec, hold, review, work, flag, events>>

\* The seven days of a review or a question are over.
Lapse(j) ==
  /\ \/ review[j].st = "pending" /\ review' = [review EXCEPT ![j].st = "lapsed"] /\ UNCHANGED ask
     \/ ask[j].st = "pending" /\ ask' = [ask EXCEPT ![j].st = "lapsed"] /\ UNCHANGED review
  /\ UNCHANGED <<claim, fact, job, rec, hold, work, flag, events>>

Next ==
  \/ \E w \in Workers : \/ \E j \in Jobs : Select(w, j)
                        \/ Capture(w) \/ Load(w) \/ Admit(w) \/ Fix(w) \/ Apply(w)
                        \/ Finish(w) \/ Legacy(w) \/ Crash(w) \/ Die(w)
  \/ \E j \in Jobs : \/ Accept(j) \/ LoseSource(j) \/ Quarantine(j) \/ Retry(j)
                     \/ Confirm(j) \/ Lapse(j)
                     \/ \E a \in {"keep_current", "dismiss"} : AnswerReview(j, a) \/ Decline(j, a)
  \/ \E p \in Ids : \/ ArchivePreference(p) \/ DeletePreference(p)
                    \/ \E c \in {"asserted", "replacement", "uncertain"}, v \in Values :
                         Declare(p, c, v, claim[p].ver)
  \/ OtherWriter \/ Flip

Spec == Init /\ [][Next]_vars

-----------------------------------------------------------------------------
(* Properties.                                                              *)

TypeOK ==
  /\ claim \in [Ids -> Claim] /\ fact \in Facts /\ job \in [Jobs -> Job]
  /\ rec \in [Jobs -> Record] /\ hold \in [Jobs -> Hold]
  /\ review \in [Jobs -> Question] /\ ask \in [Jobs -> Question]
  /\ work \in [Workers -> Work] /\ flag \in BOOLEAN
  /\ events \in 0 .. MaxEvents

\* The first decision about a job is the one that is applied: workers that were
\* given the same job classify it independently, and admit, apply and load never
\* replace a fixed decision or a receipt (admission_decision_already_fixed).
DecisionFixed ==
  [][\A j \in Jobs :
       /\ Deciding(j) => rec'[j].reply = rec[j].reply /\ rec'[j].plan = rec[j].plan
       /\ rec[j].st = "applied" => rec'[j] = rec[j]]_<<rec>>

\* Whoever changes a preference decided on the version it changes: a job on the
\* one it captured, an answer on the one its question was about, however many
\* jobs, answers and declarations came in between (preference_target_stale).
DecidedOnWhatItChanges ==
  [][\A j \in Jobs, p \in Ids :
       /\ rec'[j].st = "applied" /\ rec[j].st # "applied" /\ claim'[p] # claim[p]
            => rec[j].snap[p] = Binding(p)
       /\ ask'[j].st = "confirmed" /\ ask[j].st # "confirmed" /\ claim'[p] # claim[p]
            => rec[j].snap[p] = Binding(p)]_<<claim, rec, ask>>

\* A job corrects a fact only if nothing about the profile changed since its
\* capture and the fact has not become stronger than an application's word.
FactCorrectedAsSeen ==
  [][\A j \in Jobs :
       rec'[j].st = "applied" /\ rec[j].st # "applied" /\ fact'.ver # fact.ver
         => rec[j].ctx = Bindings /\ ~fact.strong]_<<fact, rec>>

\* An archived preference comes back only through a replacement that names it
\* (the tombstone of lock_preference_lifecycle); a mere assertion never does.
TombstoneKept ==
  [][\A p \in Ids :
       claim[p].st = "archived" /\ claim'[p].st = "active"
         => claim'[p].how = "replacement" /\ claim'[p].ver = claim[p].ver + 1]_<<claim>>

\* No read returns a preference, nor the global value behind a scoped one, while
\* a job that may change it is undecided, or has decided and not applied, unless
\* a later job settled it (read_runtime_hold, prepare_target_releases).
UnsettledNotServed ==
  \A j \in Accepted, p \in Ids :
    (Guarded(j) /\ rec[j].st # "applied" /\ Served(p) # NoId) =>
      /\ rec[j].st = "validated"
      /\ rec[j].reply.id \in {p, Global} =>
           \E i \in Jobs : i > j /\ Pref(rec[j].reply.id) \in rec[i].settled

\* A fact that a job left pending stays hidden until a later job supersedes it.
PendingFactNotServed ==
  \A j \in Jobs :
    (rec[j].st = "applied" /\ rec[j].residual # {} /\ FactServed) =>
      \E i \in Jobs : i > j /\ rec[j].residual \subseteq rec[i].settled

\* A job whose route was reserved at acceptance is never processed by the
\* extraction pipeline, whatever the rollout flags do meanwhile (_selection).
LaneKept == \A j \in Jobs : job[j].legacy /\ job[j].route => rec[j].st # "none"

\* A value that waits for the user's confirmation is not current without it.
ConfirmedBeforeCurrent ==
  \A p \in Ids : LET j == claim[p].src IN
    j # 0 /\ Policy[j] = 2 => ask[j].st = "confirmed"

\* Nothing unsettled is served: neither a preference, nor a fact, nor a value the
\* user has still to confirm (read_runtime_hold, the residual holds, the policy).
NothingUnsettled == UnsettledNotServed /\ PendingFactNotServed /\ ConfirmedBeforeCurrent

\* Whatever is applied was decided once, on the state it changes: workers, answers,
\* declarations and corrections overlap (admit, apply, lock_preference_lifecycle).
AppliedAsDecided ==
  DecisionFixed /\ DecidedOnWhatItChanges /\ FactCorrectedAsSeen /\ TombstoneKept

=============================================================================
