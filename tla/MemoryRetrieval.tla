--------------------------- MODULE MemoryRetrieval ---------------------------
(***************************************************************************)
(* Reading one user's memories (retriever.py, cache.py, memory_service.py, *)
(* proxy_user_service.py) while they change.  A read collects candidates   *)
(* over several transactions and calls: the caches of its process and of   *)
(* Redis, the hot tier, the index, an embedding provider; a last           *)
(* transaction then decides what is shown.  Writers commit first and clear *)
(* the caches afterwards, one after the other and as far as Redis answers. *)
(*                                                                         *)
(* Only one query is asked, so a cache has one page.  A page expires at    *)
(* any time: a lookup may find it gone.  What the index holds is the       *)
(* promise of VectorOutbox, here one step per delivery.                    *)
(***************************************************************************)
EXTENDS Naturals, Sequences, FiniteSets, FiniteSetsExt, Functions

CONSTANTS Processes,
          MemoryIds,   \* numbered as they are created
          Limit,      \* limit of a read
          PageSize,   \* limit of a listing
          Scripts     \* what is asked, and what happens meanwhile: see Script

Models == {"old", "new"}
\* effective_from and effective_until against the clock, and the row itself.
Memory == [row : {"none", "live", "archived", "scheduled"}, rev : Nat,
           when : {"always", "later", "now", "past"}, model : Models]
User == [st : {"open", "blocked", "none"}, id : Nat]
Request == [op : {"read", "asof", "list", "update", "archive", "delete", "promote"},
            proc : Processes, m : MemoryIds, quota : {"full", "degraded_retrieve", "blocked"}]
Event == [what : {"add", "deliver", "begin", "end", "expire", "activate", "decay", "move", "remodel",
                  "withhold"}, m : MemoryIds]
         \cup [what : {"supersede"}, m : MemoryIds, by : MemoryIds]
         \cup [what : {"erase", "block", "unblock", "redis", "index", "hold", "release", "correction"}]
Script == [mem : [MemoryIds -> Memory], hot : SUBSET MemoryIds, cached : SUBSET MemoryIds,
           sourced : SUBSET MemoryIds, routed : BOOLEAN, asked : Seq(Request), then : Seq(Event)]

ASSUME RetrievalAssumption ==
  /\ MemoryIds \subseteq Nat \ {0} /\ IsFiniteSet(MemoryIds)
  /\ Limit \in Nat /\ Limit >= Cardinality(MemoryIds) /\ PageSize \in Nat \ {0}
  /\ \A k \in DOMAIN Scripts :
       /\ Scripts[k] \in Script
       /\ \A i \in DOMAIN Scripts[k].then :   \* what replaces a claim's memory belongs to the claim
            Scripts[k].then[i].what = "supersede" => Scripts[k].then[i].by \in Scripts[k].sourced

VARIABLES
  script, happened,
  table,
  user,     \* the ProxyUser row: its state and its id
  pend,     \* memories with an order waiting in vector_sync_outbox
  index,    \* memories with a live vector, and the model of it
  hold,     \* what unresolved runtime jobs withhold: everything, or versions of memories
  routed,   \* the user has had one
  correction, \* a service's correction waits for a decision
  winner,   \* the memory of the active source claim, 0 when disputed
  page, hot,          \* Redis: the page of results, the hot tier
  l1, hotL, modelL,   \* each process: _l1_cache, _hot_tier_cache, _model_id_cache
  redis, open,        \* Redis answers; the index's circuit is open
  req,      \* the requests
  hist      \* history of each read: what it could have seen

dbVars == <<table, user, pend, hold, routed, correction, winner>>
cacheVars == <<page, hot, l1, hotL, modelL>>
worldVars == <<index, redis, open, happened>>
retrievalVars == <<script, dbVars, cacheVars, worldVars, req, hist>>

Asked == Scripts[script].asked
Sourced == Scripts[script].sourced
Requests == DOMAIN Asked
AnyRequest == UNION {DOMAIN Scripts[k].asked : k \in DOMAIN Scripts}
Op(r) == Asked[r].op
Proc(r) == Asked[r].proc
Target(r) == Asked[r].m
Reads == {r \in Requests : Op(r) \in {"read", "asof"}}

Row(m) == <<m, table[m].rev>>
Ids(S) == {x[1] : x \in S}
Valid(m) == table[m].when \in {"always", "now"}
\* _memory_is_current of a row that is not archived.
Current(m) == table[m].row = "live" /\ Valid(m)
\* The rows _retrieve_as_of_memories may show.
Historical(m) == table[m].row = "live" \/ (table[m].row = "archived" /\ table[m].when # "always")
\* _runtime_visibility_row finds the user.
Known(r) == user.st = "open" /\ user.id = req[r].uid

Idle == [pc |-> "idle", uid |-> 0, got |-> {}, hot |-> {}, ids |-> {}, models |-> {},
         hit |-> FALSE, stale |-> FALSE, save |-> {}, cursor |-> 0]

RetrievalInit ==
  /\ script \in DOMAIN Scripts
  /\ happened = 0
  /\ table = Scripts[script].mem
  /\ user = [st |-> "open", id |-> 1]
  /\ pend = {}
  /\ index = {<<m, table[m].model>> : m \in {n \in MemoryIds : table[n].row = "live"}}
  /\ hold = [broad |-> FALSE, facts |-> {}] /\ routed = Scripts[script].routed /\ correction = FALSE
  /\ winner = IF Sourced = {} THEN 0 ELSE Min(Sourced)
  /\ page = {Row(m) : m \in Scripts[script].cached}
  /\ hot = {Row(m) : m \in Scripts[script].hot}
  /\ l1 = [i \in Processes |-> {}] /\ hotL = [i \in Processes |-> {}]
  /\ modelL = [i \in Processes |-> {}]
  /\ redis = TRUE /\ open = FALSE
  /\ req = [r \in Requests |-> Idle]
  /\ hist = [r \in Requests |-> [seen |-> {}, waiting |-> {}, published |-> {}]]

At(r, pc) == r \in Requests /\ req[r].pc = pc
Go(r, pc) == req' = [req EXCEPT ![r].pc = pc]
\* A read ends; what it only needed on the way is forgotten.
Done(r, pc, answer) == [Idle EXCEPT !.pc = pc, !.got = answer, !.uid = req[r].uid, !.hit = req[r].hit,
                                    !.stale = req[r].stale, !.save = req[r].save]

-----------------------------------------------------------------------------
(* History: what a read that is under way could have seen.                  *)

Over == {"answered", "failed", "refused", "listed", "written", "promoted"}
Shown(r) == {Row(m) : m \in {n \in MemoryIds : IF Op(r) = "asof" THEN Historical(n) ELSE Current(n)}}
Waiting(r) == {m \in pend \ Sourced : Current(m)}
Published(r) == IF Op(r) = "list" THEN {m \in MemoryIds : table[m].row # "none"}
                ELSE {m \in MemoryIds \ Sourced : user.st = "open" /\ Current(m) /\ <<m, table[m].model>> \in index}
Watch ==
  hist' = [r \in Requests |->
    IF req'[r].pc \in {"idle"} \cup Over \/ Op(r) \notin {"read", "asof", "list"} THEN hist[r]
    ELSE IF req[r].pc = "idle" THEN [seen |-> Shown(r)', waiting |-> Waiting(r)', published |-> Published(r)']
    ELSE [seen |-> hist[r].seen \cup Shown(r)', waiting |-> hist[r].waiting \cap Waiting(r)',
          published |-> hist[r].published \cap Published(r)']]
\* Nothing else changes.
Rest(same) == UNCHANGED script /\ UNCHANGED same /\ Watch

-----------------------------------------------------------------------------
(* The candidates of a read.                                                *)

\* ProxyUserService.resolve, upsert included.
Resolve(r) ==
  /\ At(r, "idle") /\ r \in Reads
  /\ IF user.st = "blocked" THEN UNCHANGED user /\ req' = [req EXCEPT ![r].pc = "refused"]
     ELSE /\ user' = [user EXCEPT !.st = "open"]
          /\ req' = [req EXCEPT ![r].pc = "preflight", ![r].uid = user.id]
  /\ Rest(<<table, pend, hold, routed, correction, winner, cacheVars, worldVars>>)

\* Mutant: a hold withholds its own memories only.
BroadNever == FALSE
\* read_runtime_hold: "Never follow a changed/missing target into a guessed successor."
Broad == hold.broad \/ \E x \in hold.facts : table[x[1]].row # "live" \/ x # Row(x[1])

\* A broad hold ends the read at once; a user who is not there gets no candidates.
Preflight(r) ==
  /\ At(r, "preflight")
  /\ req' = [req EXCEPT ![r] =
       IF Op(r) = "read" /\ Known(r) /\ Broad THEN Done(r, "answered", {})
       ELSE IF Op(r) = "read" /\ ~Known(r) THEN [@ EXCEPT !.pc = "final"]
       ELSE IF Asked[r].quota = "blocked" THEN Done(r, "answered", {})
       ELSE [@ EXCEPT !.pc = IF Op(r) = "asof" THEN "history" ELSE "cache"]]
  /\ Rest(<<dbVars, cacheVars, worldVars>>)

\* Mutant: rows that are still there are shown as they were cached.
HydrateTrusting(r, S) == {x \in S : Current(x[1]) /\ Known(r)}
\* _hydrate_current_results: "Caches nominate at most one page; SQL owns content and
\* eligibility."
Hydrate(r, S) == {Row(m) : m \in {n \in Ids(S) : Current(n) /\ Known(r)}}

\* _get_cached_results: an empty page is no page; Redis may be too slow.
CacheLocal(r) ==
  /\ At(r, "cache") /\ l1[Proc(r)] # {}
  /\ req' = [req EXCEPT ![r].pc = "verify", ![r].got = l1[Proc(r)]]
  /\ Rest(<<dbVars, cacheVars, worldVars>>)
CacheRedis(r) ==
  /\ At(r, "cache") /\ redis /\ page # {} /\ user.id = req[r].uid
  /\ l1' = [l1 EXCEPT ![Proc(r)] = page]
  /\ req' = [req EXCEPT ![r].pc = "verify", ![r].got = page]
  /\ Rest(<<dbVars, page, hot, hotL, modelL, worldVars>>)
CacheMiss(r) ==
  /\ At(r, "cache")
  /\ Go(r, "hot")
  /\ Rest(<<dbVars, cacheVars, worldVars>>)

\* "Missing/changed candidates invalidate the whole cached ranking."
Verify(r) ==
  /\ At(r, "verify")
  /\ req' = [req EXCEPT ![r] = IF Hydrate(r, @.got) = @.got THEN [@ EXCEPT !.pc = "final", !.hit = TRUE]
                               ELSE [@ EXCEPT !.pc = "hot", !.got = {}]]
  /\ Rest(<<dbVars, cacheVars, worldVars>>)

\* _get_hot_tier_results: of this process, or of Redis; or none.
HotLocal(r) ==
  /\ At(r, "hot")
  /\ req' = [req EXCEPT ![r].pc = "hydrate", ![r].ids = Ids(hotL[Proc(r)])]
  /\ Rest(<<dbVars, cacheVars, worldVars>>)
HotRedis(r) ==
  /\ At(r, "hot") /\ redis /\ hot # {} /\ user.id = req[r].uid
  /\ hotL' = [hotL EXCEPT ![Proc(r)] = hot]
  /\ req' = [req EXCEPT ![r].pc = "hydrate", ![r].ids = Ids(hot)]
  /\ Rest(<<dbVars, page, hot, l1, modelL, worldVars>>)

HydrateHot(r) ==
  LET found == Hydrate(r, {<<m, 0>> : m \in req[r].ids}) IN
  /\ At(r, "hydrate")
  /\ req' = [req EXCEPT ![r] =
       IF Asked[r].quota = "degraded_retrieve" THEN [@ EXCEPT !.pc = "final", !.got = found, !.ids = {}]
       ELSE [@ EXCEPT !.pc = "pending", !.hot = found, !.ids = {}]]
  /\ Rest(<<dbVars, cacheVars, worldVars>>)

\* Mutant: only orders of memories still shown count as pending.
IndexPendingNone == {}
\* _source_index_pending.
IndexPending == {m \in pend : table[m].row # "none"}

\* _count_proxy_user_memories may be old: below COLD_START_THRESHOLD or not.
Few == BOOLEAN
\* "Completed SQL writes remain readable while async publication lags"; otherwise few
\* memories are read from the database as well.
Branch(r) ==
  /\ At(r, "pending")
  /\ \E few \in Few :
       Go(r, IF IndexPending # {} THEN "cold" ELSE IF few THEN "coldstart"
             ELSE IF Cardinality(req[r].hot) >= Limit THEN "full" ELSE "embed")
  /\ Rest(<<dbVars, cacheVars, worldVars>>)

\* _merge_hot_tier_results.
Merge(h, other) == h \cup {x \in other : x[1] \notin Ids(h)}

\* _cache_results, and _schedule_cache_write for later.
Keep(r, found) ==
  /\ l1' = [l1 EXCEPT ![Proc(r)] = IF user.id = req[r].uid THEN found ELSE @]
  /\ req' = [req EXCEPT ![r].pc = "final", ![r].got = found, ![r].save = found, ![r].hot = {},
                        ![r].ids = {}, ![r].models = {}]
  /\ Rest(<<dbVars, page, hot, hotL, modelL, worldVars>>)

\* _retrieve_cold_start_memories.
ColdStart == {Row(m) : m \in {n \in MemoryIds : Current(n)}}
Owned(r, S) == IF user.id = req[r].uid THEN S ELSE {}
Cold(r) ==
  /\ At(r, "cold")
  /\ req' = [req EXCEPT ![r].pc = "final", ![r].got = Merge(req[r].hot, Owned(r, ColdStart)), ![r].hot = {}]
  /\ Rest(<<dbVars, cacheVars, worldVars>>)
ColdKept(r) == At(r, "coldstart") /\ Keep(r, Merge(req[r].hot, Owned(r, ColdStart)))
Full(r) == At(r, "full") /\ Keep(r, req[r].hot)
\* _retrieve_postgres_fallback while the circuit of the index is open.
Fallback(r) ==
  /\ open /\ (At(r, "embed") \/ (At(r, "fetch") /\ req[r].ids = {}))
  /\ Keep(r, Merge(req[r].hot, Owned(r, ColdStart)))

\* _candidate_embedding_model_ids, then the provider.
Embed(r) ==
  LET now == {table[m].model : m \in {n \in MemoryIds : table[n].row = "live"}} IN
  /\ At(r, "embed") /\ ~open
  /\ \E ms \in {modelL[Proc(r)], IF now = {} THEN {"new"} ELSE now} \ {{}} :
       /\ modelL' = [modelL EXCEPT ![Proc(r)] = ms]
       /\ req' = [req EXCEPT ![r].pc = "search", ![r].models = ms, ![r].stale = ms # now]
  /\ Rest(<<dbVars, page, hot, l1, hotL, worldVars>>)

\* EMB_503, or an index that fails without an open circuit.
EmbedFails(r) ==
  /\ At(r, "search")
  /\ req' = [req EXCEPT ![r] = [Idle EXCEPT !.pc = "failed", !.uid = req[r].uid]]
  /\ Rest(<<dbVars, cacheVars, worldVars>>)

\* _search_qdrant in the collection of every model.
Searched(r) == {m \in MemoryIds : \E k \in req[r].models : <<m, k>> \in index}
Search(r) ==
  /\ At(r, "search")
  /\ req' = [req EXCEPT ![r].pc = "fetch", ![r].ids = IF open THEN {} ELSE Searched(r),
                        ![r].stale = @ \/ open]
  /\ Rest(<<dbVars, cacheVars, worldVars>>)

\* _fetch_memories_by_ids; without a hit the hot tier is the answer, and is not kept.
Fetch(r) ==
  /\ At(r, "fetch")
  /\ IF req[r].ids = {}
     THEN /\ ~open
          /\ req' = [req EXCEPT ![r].pc = "final", ![r].got = req[r].hot, ![r].hot = {},
                                ![r].models = {}]
          /\ Rest(<<dbVars, cacheVars, worldVars>>)
     ELSE Keep(r, Merge(req[r].hot, Hydrate(r, {<<m, 0>> : m \in req[r].ids})))

\* _retrieve_as_of_semantic, with its fall back to the database; it is the whole answer.
History(r) ==
  /\ At(r, "history")
  /\ \E S \in SUBSET {m \in MemoryIds : Historical(m)} :
       req' = [req EXCEPT ![r] = Done(r, "answered", Owned(r, {Row(m) : m \in S}))]
  /\ Rest(<<dbVars, cacheVars, worldVars>>)

\* The task that writes the page, which nobody waits for.
WriteBack(r) ==
  /\ r \in Reads /\ req[r].save # {}
  /\ page' = IF redis /\ user.id = req[r].uid THEN req[r].save ELSE page
  /\ req' = [req EXCEPT ![r].save = {}]
  /\ Rest(<<dbVars, hot, l1, hotL, modelL, worldVars>>)

-----------------------------------------------------------------------------
(* The last transaction.                                                    *)

\* source_winner_matches.
WinnerMatches == winner # 0 /\ Current(winner)
\* _project_source_claims: what services wrote is shown as the claim's winner, or not.
Projected(S) == {x \in S : x[1] \notin Sourced}
                \cup (IF WinnerMatches /\ Ids(S) \cap Sourced # {} THEN {Row(winner)} ELSE {})
\* _withhold_pending_source_corrections.
Withhold(S) == IF correction THEN {x \in S : x[1] \notin Sourced} ELSE S
\* _final_current_read in one snapshot.  The candidates are read again only for a user who
\* has runtime jobs.
Final(r) ==
  LET cand == IF IndexPending # {} THEN ColdStart ELSE req[r].got
      fresh == IF routed THEN {x \in Hydrate(r, cand) : x[1] \notin Ids(hold.facts)} ELSE cand IN
  /\ At(r, "final")
  /\ req' = [req EXCEPT ![r] = Done(r, "answered",
       IF ~Known(r) \/ Broad THEN {} ELSE Withhold(Projected(fresh)))]
  /\ Rest(<<dbVars, cacheVars, worldVars>>)
-----------------------------------------------------------------------------
(* Listing, one request a page.                                             *)

\* The cursor is the last row of the page.
NextCursor(r, rows) == Min(rows \ {Min(rows)})
\* Rows of any state, newest first; a cursor whose row is gone is ignored.
Below(r) == {m \in MemoryIds : table[m].row # "none" /\ (req[r].cursor = 0 \/ m < req[r].cursor
                                                         \/ table[req[r].cursor].row = "none")}
ListPage(r) ==
  LET rows == {m \in Below(r) : Cardinality({n \in Below(r) : n >= m}) <= PageSize + 1}
      more == Cardinality(rows) > PageSize IN
  /\ At(r, "idle") \/ At(r, "page")
  /\ Op(r) = "list"
  /\ req' = [req EXCEPT ![r] =
       IF user.st = "blocked" THEN [Idle EXCEPT !.pc = "refused"]
       ELSE IF more
       THEN [@ EXCEPT !.pc = "page", !.ids = req[r].ids \cup (rows \ {Min(rows)}),
                      !.cursor = NextCursor(r, rows)]
       ELSE [@ EXCEPT !.pc = "listed", !.ids = req[r].ids \cup rows, !.cursor = 0]]
  /\ Rest(<<dbVars, cacheVars, worldVars>>)

-----------------------------------------------------------------------------
(* Writers: MemoryService.                                                  *)

\* _get_authorized_memory.
Authorized(r) == table[Target(r)].row # "none" /\ user.st = "open"
Load(r) ==
  /\ At(r, "idle") /\ Op(r) \in {"update", "archive", "delete"}
  /\ req' = [req EXCEPT ![r] = IF ~Authorized(r) THEN [@ EXCEPT !.pc = "refused"]
                               ELSE [@ EXCEPT !.pc = Op(r), !.uid = user.id,
                                              !.hit = table[Target(r)].row # "live"]]
  /\ Rest(<<dbVars, cacheVars, worldVars>>)

\* The provider gives no embedding, or the row is gone when the change is flushed.
WriteFails(r) ==
  /\ r \in Requests /\ req[r].pc \in {"update", "archive", "delete"}
  /\ (At(r, "update") /\ ~req[r].hit) \/ table[Target(r)].row = "none"
  /\ Go(r, "failed")
  /\ Rest(<<dbVars, cacheVars, worldVars>>)

Committed(r, row) ==
  /\ table[Target(r)].row # "none"
  /\ table' = [table EXCEPT ![Target(r)] = row]
  /\ pend' = pend \cup {Target(r)}
  /\ Go(r, "pages")
  /\ Rest(<<user, hold, routed, correction, cacheVars, worldVars>>)
\* update_memory after the provider: a row found archived keeps its model.
Update(r) ==
  /\ At(r, "update")
  /\ Committed(r, [table[Target(r)] EXCEPT !.rev = @ + 1, !.model = IF req[r].hit THEN @ ELSE "new"])
  /\ UNCHANGED winner
\* delete_memory, soft.
Archive(r) ==
  /\ At(r, "archive")
  /\ Committed(r, [table[Target(r)] EXCEPT !.row = "archived"])
  /\ UNCHANGED winner
\* delete_memory, hard, with the claims it wins.
Delete(r) ==
  /\ At(r, "delete")
  /\ Committed(r, [table[Target(r)] EXCEPT !.row = "none"])
  /\ winner' = IF winner = Target(r) THEN 0 ELSE winner

Reaches(r) == redis /\ user.id = req[r].uid
\* invalidate_user_cache, one pattern after the other, then the caches of this process.
DropPages(r) ==
  /\ At(r, "pages")
  /\ page' = IF Reaches(r) THEN {} ELSE page
  /\ Go(r, "hottier")
  /\ Rest(<<dbVars, hot, l1, hotL, modelL, worldVars>>)
DropHot(r) ==
  /\ At(r, "hottier")
  /\ hot' = IF Reaches(r) THEN {} ELSE hot
  /\ Go(r, "local")
  /\ Rest(<<dbVars, page, l1, hotL, modelL, worldVars>>)
\* invalidate_local_user_cache: not the models, and not in the other processes.
DropLocal(r) ==
  /\ At(r, "local")
  /\ l1' = [l1 EXCEPT ![Proc(r)] = {}] /\ hotL' = [hotL EXCEPT ![Proc(r)] = {}]
  /\ Go(r, "written")
  /\ Rest(<<dbVars, page, hot, modelL, worldVars>>)

\* _promote_hot_memories: the rows are selected, then copied one by one to the hot tier.
SelectHot(r) ==
  /\ At(r, "idle") /\ Op(r) = "promote"
  /\ req' = [req EXCEPT ![r].pc = "promote", ![r].uid = user.id,
                        ![r].got = {Row(m) : m \in {n \in {Target(r)} : table[n].row = "live"}}]
  /\ Rest(<<dbVars, cacheVars, worldVars>>)
Promote(r) ==
  /\ At(r, "promote")
  /\ hot' = IF Reaches(r) THEN {x \in hot : x[1] \notin Ids(req[r].got)} \cup req[r].got ELSE hot
  /\ req' = [req EXCEPT ![r].pc = "promoted", ![r].got = {}]
  /\ Rest(<<dbVars, page, l1, hotL, modelL, worldVars>>)

-----------------------------------------------------------------------------
(* What happens meanwhile, in the order of the script.                      *)

Event1 == Scripts[script].then[happened + 1]
Happens(what) ==
  /\ happened < Len(Scripts[script].then) /\ Event1.what = what
  /\ happened' = happened + 1
  /\ UNCHANGED req
\* The rows in S become as f says, with an order for the index each.
Rewrites(f, S) ==
  /\ table' = [m \in MemoryIds |-> IF m \in S THEN f[m] ELSE table[m]]
  /\ pend' = pend \cup S
  /\ Rest(<<user, hold, routed, correction, cacheVars, index, redis, open>>)
With(m, row) == [table EXCEPT ![m].row = row]

\* An extraction commits a memory; nothing is invalidated.
Add == /\ Happens("add")
       /\ Rewrites([table EXCEPT ![Event1.m] = [row |-> "live", rev |-> 1, when |-> "always", model |-> "new"]],
                   {Event1.m})
       /\ UNCHANGED winner
\* An extraction replaces what a claim said.
Supersede == /\ Happens("supersede")
             /\ Rewrites([With(Event1.m, "archived") EXCEPT ![Event1.by] =
                           [row |-> "live", rev |-> 1, when |-> "always", model |-> "new"]],
                         {Event1.m, Event1.by})
             /\ winner' = Event1.by
\* The vector worker; the order of a row that is not live removes its vector.
Deliver == /\ Happens("deliver")
           /\ pend' = pend \ {Event1.m}
           /\ index' = {x \in index : x[1] # Event1.m}
                       \cup {<<m, table[m].model>> : m \in {n \in {Event1.m} : table[n].row = "live"}}
           /\ Rest(<<table, user, hold, routed, correction, winner, cacheVars, redis, open>>)
\* The clock reaches effective_from, or effective_until.
Lapse(was, is) ==
  /\ table[Event1.m].when = was
  /\ table' = [table EXCEPT ![Event1.m].when = is]
  /\ Rest(<<user, pend, hold, routed, correction, winner, cacheVars, index, redis, open>>)
Begin == Happens("begin") /\ Lapse("later", "now")
End == Happens("end") /\ Lapse("now", "past")
\* _expire_temporal_memory of what is not archived; a source claim's winner is followed by
\* its direct predecessor, archived or not.
Expire ==
  LET m == Event1.m
      prior == {n \in Sourced : n < m /\ m \in Sourced /\ winner = m /\ table[n].row # "none" /\ Valid(n)} IN
  /\ Happens("expire")
  /\ table[m].row = "live" /\ table[m].when = "past"
  /\ Rewrites([n \in MemoryIds |-> [table[n] EXCEPT !.row = IF n = m THEN "archived"
                                                          ELSE IF prior # {} /\ n = Max(prior) THEN "live" ELSE @]],
              {m} \cup (IF prior = {} THEN {} ELSE {Max(prior)}))
  /\ winner' = IF winner # m THEN winner ELSE IF prior = {} THEN 0 ELSE Max(prior)
\* _activate_temporal_memory: the claim's winner so far is archived.
Activate ==
  LET m == Event1.m
      loser == {n \in Sourced : m \in Sourced /\ n = winner /\ n # m /\ table[n].row = "live"} IN
  /\ Happens("activate")
  /\ table[m].row = "scheduled" /\ table[m].when = "now"
  /\ Rewrites([n \in MemoryIds |-> [table[n] EXCEPT !.row = IF n = m THEN "live"
                                                          ELSE IF n \in loser THEN "archived" ELSE @]],
              {m} \cup loser)
  /\ winner' = IF m \in Sourced THEN m ELSE winner
\* _auto_archive_memories.
Decay == /\ Happens("decay")
         /\ table[Event1.m].row = "live"
         /\ Rewrites(With(Event1.m, "archived"), {Event1.m})
         /\ UNCHANGED winner
\* run_reembedding_cycle: the vector changes its collection, the row follows with the batch.
Move == /\ Happens("move")
        /\ index' = {x \in index : x[1] # Event1.m} \cup {<<Event1.m, "new">>}
        /\ Rest(<<dbVars, cacheVars, redis, open>>)
Remodel == /\ Happens("remodel")
           /\ table' = [table EXCEPT ![Event1.m].model = "new"]
           /\ Rest(<<user, pend, hold, routed, correction, winner, cacheVars, index, redis, open>>)
\* delete_all_memories: the user goes too; its next id has no cache entries.
Erase ==
  /\ Happens("erase")
  /\ user.st # "none"
  /\ table' = [m \in MemoryIds |-> [table[m] EXCEPT !.row = "none"]]
  /\ pend' = pend \cup {m \in MemoryIds : table[m].row # "none"}
  /\ user' = [st |-> "none", id |-> user.id + 1]
  /\ winner' = 0 /\ hold' = [broad |-> FALSE, facts |-> {}] /\ routed' = FALSE /\ correction' = FALSE
  /\ page' = {} /\ hot' = {}
  /\ l1' = [i \in Processes |-> {}] /\ hotL' = [i \in Processes |-> {}]
  /\ modelL' = [i \in Processes |-> {}]
  /\ Rest(<<index, redis, open>>)
\* _set_blocked; the caches of results stay.
SetBlocked(what, was, is) ==
  /\ Happens(what)
  /\ user' = [user EXCEPT !.st = IF @ = was THEN is ELSE @]
  /\ Rest(<<table, pend, hold, routed, correction, winner, cacheVars, index, redis, open>>)
Block == SetBlocked("block", "open", "blocked")
Unblock == SetBlocked("unblock", "blocked", "open")
\* Jobs that wait to be applied, and the last of them applied; a correction nobody resolved.
Holds(what, h, c) ==
  /\ Happens(what)
  /\ hold' = h /\ correction' = c
  /\ routed' = (routed \/ h # [broad |-> FALSE, facts |-> {}])
  /\ Rest(<<table, user, pend, winner, cacheVars, index, redis, open>>)
HoldAll == Holds("hold", [hold EXCEPT !.broad = TRUE], correction)
HoldFact == Holds("withhold", [broad |-> FALSE, facts |-> {Row(Event1.m)}], correction)
Release == Holds("release", [broad |-> FALSE, facts |-> {}], FALSE)
Correction == Holds("correction", hold, TRUE)
\* Redis, and the circuit of the index.
Outage == /\ Happens("redis") \/ Happens("index")
          /\ redis' = (redis # (Event1.what = "redis"))
          /\ open' = (open # (Event1.what = "index"))
          /\ Rest(<<dbVars, cacheVars, index>>)

-----------------------------------------------------------------------------
(* The next step.                                                           *)

Reading == \E r \in AnyRequest :
  \/ Resolve(r) \/ Preflight(r) \/ CacheLocal(r) \/ CacheRedis(r) \/ CacheMiss(r) \/ Verify(r) 
  \/ HotLocal(r) \/ HotRedis(r) \/ HydrateHot(r)
  \/ Branch(r) \/ Cold(r) \/ ColdKept(r) \/ Full(r) \/ Fallback(r) \/ Embed(r) \/ EmbedFails(r)
  \/ Search(r) \/ Fetch(r) \/ History(r) \/ WriteBack(r) \/ Final(r) \/ ListPage(r)
Writing == \E r \in AnyRequest :
  \/ Load(r) \/ WriteFails(r) \/ Update(r) \/ Archive(r) \/ Delete(r) \/ DropPages(r) \/ DropHot(r)
  \/ DropLocal(r) \/ SelectHot(r) \/ Promote(r)
Happening ==
  \/ Add \/ Supersede \/ Deliver \/ Begin \/ End \/ Expire \/ Activate \/ Decay \/ Move \/ Remodel
  \/ Erase \/ Block \/ Unblock \/ HoldAll \/ HoldFact \/ Release \/ Correction \/ Outage
RetrievalNext == Reading \/ Writing \/ Happening

RetrievalSpec == RetrievalInit /\ [][RetrievalNext]_retrievalVars

-----------------------------------------------------------------------------
(* Properties.                                                              *)

Versions == SUBSET (MemoryIds \X Nat)
\* Types; and however the tiers of an answer were read, at different times, the answer and
\* every page that is kept name a memory once (_merge_hot_tier_results).
RetrievalTypeOK ==
  /\ table \in [MemoryIds -> Memory]
  /\ user \in User /\ hold.broad \in BOOLEAN /\ hold.facts \in Versions
  /\ pend \subseteq MemoryIds /\ index \subseteq MemoryIds \X Models
  /\ winner \in MemoryIds \cup {0}
  /\ hot \in Versions
  /\ \A i \in Processes : hotL[i] \in Versions /\ modelL[i] \subseteq Models
  /\ \A S \in {page} \cup {l1[i] : i \in Processes} \cup {req[r].got : r \in Requests} :
       S \in Versions /\ Cardinality(Ids(S)) = Cardinality(S)

\* "SQL owns content and eligibility": whatever the caches, the hot tier and the index
\* nominate, and however old, an answer shows a memory only in a version that was current
\* at some moment of the read (for as_of: in the history).
CurrentWhenRead == \A r \in Reads : At(r, "answered") => req[r].got \subseteq hist[r].seen

Finals(r) == At(r, "final") /\ req'[r].pc = "answered"
Free(r) == Known(r) /\ ~Broad /\ ~correction

\* "Completed SQL writes remain readable while async publication lags": a memory whose
\* order waits for the index from the first to the last step of a read is in the answer,
\* cached pages and stale models notwithstanding.
PendingReadable ==
  [][\A r \in Reads : Finals(r) /\ Free(r) => hist[r].waiting \ Ids(hold.facts) \subseteq Ids(req'[r].got)]_retrievalVars

\* A read that met no cached page, no stale model and no open circuit returns every memory
\* that was current, and indexed under its model, from its first to its last step.
Complete ==
  [][\A r \in Reads : Finals(r) /\ Free(r) /\ Asked[r].quota = "full" /\ ~req[r].hit /\ ~req[r].stale
       => hist[r].published \ Ids(hold.facts) \subseteq Ids(req'[r].got)]_retrievalVars

\* read_runtime_hold, is_blocked and deletion end a read without content whenever in the
\* read they came, also after every candidate was collected; so does a held memory that
\* was changed or archived while its job waits.
Withheld ==
  [][\A r \in Reads : Finals(r) /\ \/ hold.broad \/ ~Known(r)
                                   \/ \E x \in hold.facts : table[x[1]].rev # x[2] \/ table[x[1]].row # "live"
       => req'[r].got = {}]_retrievalVars

\* A fact that a job is about to change, and what services wrote while a correction waits,
\* are in no answer given meanwhile; a claim shows at most its winner.  The one exception is
\* a held fact that wins a claim: _project_source_claims puts it back in place of another
\* current memory of the claim, after fact_ids were taken out.
Governed ==
  [][\A r \in Reads : Finals(r) =>
       /\ routed => Ids(req'[r].got) \cap Ids(hold.facts)
                      \subseteq {m \in {winner} : \E n \in Sourced \ {m} : Current(n)}
       /\ Ids(req'[r].got) \cap Sourced \subseteq IF correction THEN {} ELSE {winner}]_retrievalVars

\* list_memories followed to its last page shows every memory that existed throughout,
\* whatever is added, changed or deleted between two pages.
ListComplete == \A r \in Requests : At(r, "listed") => hist[r].published \subseteq req[r].ids

\* Nothing is missed: neither what waits for the index, nor what was published throughout
\* the read, nor what a listing passes page by page.
NothingMissed == PendingReadable /\ Complete /\ []ListComplete

\* Nothing is shown that is to be withheld: by a hold, a block, a deletion or a claim.
NothingLeaked == Withheld /\ Governed

=============================================================================
