------------------------------- MODULE Passport -------------------------------
(***************************************************************************)
(* One Memory Passport: its owner logs in, grants and revokes agents,      *)
(* links organisations, corrects, deletes and erases (uui_service.py,      *)
(* routers/uui.py, passport_link_service.py and                            *)
(* organisation_connection_service.py), while agents add and read memories *)
(* with those grants (routers/universal.py) and workers extract what was   *)
(* added into the Passport's claims (universal_extraction_tasks.py,        *)
(* universal_claim_ledger_service.py).                                     *)
(*                                                                         *)
(* A scenario says which requests arrive, one to a slot; they start in any *)
(* order and overlap.  A step is what a request does up to the next        *)
(* statement whose answer another request can change; what a transaction   *)
(* staged becomes visible when it commits.  Grants, agents, memories and   *)
(* claims are those of user 1; user 2 appears where two users compete for  *)
(* one account of an organisation.                                         *)
(***************************************************************************)
EXTENDS Naturals, Sequences, FiniteSets

CONSTANTS Slots,      \* 1 .. n: the requests and deliveries of a scenario
          Agents, Claims, Values, Categories,
          Scenarios,  \* the scenarios
          OtpLimit,   \* OTP_FAILED_LIMIT
          SendLimit,  \* OTP_REQUEST_LIMIT
          MaxRetries, \* max_retries: the attempts the task makes
          MaxOpen,    \* bound: requests under way at once
          MaxEvents   \* bound: failed steps, Redis outages, lapsed windows, expiries

None == "none"
Users == {1, 2}
Event == {"job", "key"} \X Nat
\* An extracted memory as the ledger sees it: whose claim, which value, its category.
Item == [claim : Claims, val : Values, cat : Categories]
MemIds == {<<s, i>> : s \in Slots \cup {0}, i \in {1, 2}}
Seed == <<0, 1>>
NoMem == <<0, 0>>
Ops == {"idle", "register", "sendotp", "verify", "regenerate", "erase", "grant", "revoke",
        "narrow", "retire", "issue", "oauth", "callback", "disconnect", "add", "deliver",
        "retrieve", "flag", "unflag", "correct", "delete"}
\* What a request carries: the token or code its client holds, the grant it asks
\* for, the key and the conversation of an add, the memory it is about.
PassportRequest == [op : Ops, who : Users, agent : Agents, tok : Slots \cup {0},
                    code : Slots \cup {0}, cap : BOOLEAN, link : BOOLEAN, rw : BOOLEAN,
                    cats : SUBSET Categories,
                    key : Nat, of : Slots \cup {0}, items : Seq(Item), mem : MemIds]

\* User 2 deals with the organisation only; a correction says one thing, a conversation
\* at most two; what is delivered again is the job of an add.
Scenario == {x \in [seed : BOOLEAN, ask : [Slots -> PassportRequest]] : \A s \in Slots :
  LET a == x.ask[s] IN
  /\ a.who = 2 => a.op \in {"grant", "oauth", "disconnect"}
  /\ a.op = "correct" => Len(a.items) = 1
  /\ a.op = "add" => Len(a.items) <= 2
  /\ a.op = "deliver" => a.of \in Slots /\ x.ask[a.of].op = "add"}

ASSUME PassportAssumption ==
  /\ IsFiniteSet(Slots) /\ Slots = 1 .. Cardinality(Slots)
  /\ Claims # {} /\ Values # {} /\ Agents # {}
  /\ \A k \in DOMAIN Scenarios : Scenarios[k] \in Scenario
  /\ {OtpLimit, SendLimit, MaxRetries} \subseteq Nat \ {0}
  /\ {MaxOpen, MaxEvents} \subseteq Nat

VARIABLES
  scenario, \* the scenario that runs
  req,     \* req[s]: where slot s is and what it has read and staged
  user,    \* the universal_users row: state, token; rate: the regeneration key
  cached,  \* the tokens cached with the user's id
  otp,     \* the code in force; the counters and the lock in Redis
  agent,   \* agent[a]: the agent and its key are active
  grant,   \* grant[a]: the permission_grants row
  link,    \* the link token, the OAuth state, and whom the proxy account is linked to
  conn,    \* conn[u]: the verified connection of user u with the organisation
  mem,     \* mem[m]: the universal_memories rows, with claim revision and flags
  claim,   \* claim[c]: the universal_memory_claims row
  vec,     \* vec[m]: the last order for its vector in the outbox
  idem,    \* the idempotency keys in Redis
  mixed,   \* history: a regeneration overlapped another use of the token
  events   \* how much of MaxEvents is used

passportVars == <<scenario, req, user, cached, otp, agent, grant, link, conn, mem, claim, vec, idem,
                  mixed, events>>

ask(s) == Scenarios[scenario].ask[s]
\* The job of a slot: an add's own, or the one that is delivered again.
job(s) == IF ask(s).op = "deliver" THEN ask(s).of ELSE s
payload(s) == ask(job(s))

\* Where a request can be: what it does next.
Pcs == Ops \cup {"new", "insert", "recache", "send", "mail", "compare", "accept", "clear",
  "count", "bar",
  "drop", "swap", "publish", "ids", "wipe", "uncache", "connect", "check", "upsert", "revoking",
  "narrowing", "retiring", "provider", "parting", "lookup", "remember", "capability", "allowed",
  "search", "replay", "reserve", "dispatch", "queued", "lock", "extract", "store", "claim", "commit",
  "flagging", "unflagging", "embed", "archive", "recording", "corrected", "number", "removing",
  "deleted", "done"}
Local == [pc : Pcs, tries : Nat, tok : Slots \cup {0}, seen : BOOLEAN, n : Nat,
          cats : SUBSET Categories, staged : Seq({"skip", "activated", "asserted", "disputed"}),
          ids : SUBSET MemIds, published : BOOLEAN, cut : BOOLEAN]
Fresh == [pc |-> "new", tries |-> 0, tok |-> 0, seen |-> FALSE, n |-> 0, cats |-> {},
          staged |-> <<>>, ids |-> {}, published |-> FALSE, cut |-> FALSE]
User == [st : {None, "active", "gone"}, token : Slots \cup {0}, rate : BOOLEAN]
Otp == [code : Slots \cup {0}, fails : Nat, lock : BOOLEAN, sent : Nat, guesses : Nat]
Link == [token : Agents \cup {None, "used"}, oauth : {0} \cup Users, proxy : {0} \cup Users]
Connection == [st : {None, "active", "inactive"}, proxy : BOOLEAN]
Grant == [st : {None, "active", "revoked"}, rw : BOOLEAN, cats : SUBSET Categories,
          late : BOOLEAN, marked : BOOLEAN]
Memory == [st : {"live", "archived"}, src : {"passport_agent", "user_correction"},
           agent : Agents, event : Event, claim : Claims, val : Values,
           rev : {"activated", "asserted", "disputed", "archived"},
           spoke : BOOLEAN, run : Slots \cup {0}, ver : Nat, pending : Nat, flagged : BOOLEAN,
           cut : BOOLEAN]
Claim == [st : {None, "active", "disputed", "archived"}, mem : MemIds \cup {NoMem},
          val : Values \cup {0}]
NoClaim == [st |-> None, mem |-> NoMem, val |-> 0]

\* A scenario may start with an agent's memory in place.
SeedClaim == CHOOSE c \in Claims : TRUE
SeedValue == CHOOSE v \in Values : TRUE
SeedMemory == [st |-> "live", src |-> "passport_agent", agent |-> CHOOSE a \in Agents : TRUE,
               event |-> <<"job", 0>>, claim |-> SeedClaim, val |-> SeedValue,
               rev |-> "activated", spoke |-> TRUE, run |-> 0, ver |-> 1, pending |-> 0,
               flagged |-> FALSE, cut |-> FALSE]

PassportInit ==
  /\ scenario \in DOMAIN Scenarios
  /\ req = [s \in Slots |-> Fresh]
  /\ user = [st |-> IF \E s \in Slots : Scenarios[scenario].ask[s].op = "register" THEN None
                    ELSE "active", token |-> 0, rate |-> FALSE]
  /\ cached \in {{}, IF user.st = "active" THEN {0} ELSE {}}
  /\ otp = [code |-> 0, fails |-> 0, lock |-> FALSE, sent |-> 0, guesses |-> 0]
  /\ agent = [a \in Agents |-> TRUE]
  /\ grant = [a \in Agents |-> [st |-> IF Scenarios[scenario].seed THEN "active" ELSE None,
                                rw |-> TRUE, cats |-> Categories, late |-> FALSE,
                                marked |-> FALSE]]
  /\ link = [token |-> None, oauth |-> 0, proxy |-> 0]
  /\ conn = [u \in Users |-> [st |-> None, proxy |-> FALSE]]
  /\ mem = [m \in IF Scenarios[scenario].seed THEN {Seed} ELSE {} |-> SeedMemory]
  /\ claim = [c \in Claims |-> IF c = SeedClaim /\ Scenarios[scenario].seed
                THEN [st |-> "active", mem |-> Seed, val |-> SeedValue] ELSE NoClaim]
  /\ vec = [m \in DOMAIN mem |-> "upsert"]
  /\ idem = [e \in Agents \X {1, 2} |-> None]
  /\ mixed = FALSE
  /\ events = 0

idVars == <<user, cached, otp>>
consentVars == <<agent, grant>>
orgVars == <<link, conn>>
memVars == <<mem, claim, vec>>

Does(s, pc) == req[s].pc = pc
UnderWay == {s \in Slots : req[s].pc \notin {"new", "done"}}
\* A request goes on, with what it has just read or staged.
Go(s, pc) == req' = [req EXCEPT ![s] = [@ EXCEPT !.pc = pc]]
GoTok(s, pc, tok) == req' = [req EXCEPT ![s] = [@ EXCEPT !.pc = pc, !.tok = tok]]
GoSeen(s, pc, seen) == req' = [req EXCEPT ![s] = [@ EXCEPT !.pc = pc, !.seen = seen]]
GoNumber(s, pc, n) == req' = [req EXCEPT ![s] = [@ EXCEPT !.pc = pc, !.n = n]]
GoCats(s, pc, cats) == req' = [req EXCEPT ![s] = [@ EXCEPT !.pc = pc, !.cats = cats]]
GoIds(s, pc, ids) == req' = [req EXCEPT ![s] = [@ EXCEPT !.pc = pc, !.ids = ids]]
GoStaged(s, pc, staged) == req' = [req EXCEPT ![s] = [@ EXCEPT !.pc = pc, !.staged = staged]]
Done(s) == Go(s, "done")
Begin(s, op) == Does(s, "new") /\ ask(s).op = op /\ Cardinality(UnderWay) < MaxOpen
Fault == events < MaxEvents /\ events' = events + 1
Calm == events' = events
Alive == user.st = "active"
Stored == DOMAIN mem

\* Redis: an operation that fails is swallowed (_redis_set, _redis_delete).
Cache(set) == \/ cached' = set /\ Calm
              \/ Fault /\ cached' = cached

\* Row locks on a memory, key-share locks on the user's row, advisory locks on a
\* claim and on an event: held to the end of the transaction.
HoldsRow(s, m) == /\ ask(s).mem = m
                  /\ req[s].pc \in {"archive", "recording", "corrected", "deleted"}
RowFree(s, m) == \A t \in Slots \ {s} : ~HoldsRow(t, m)
Inserted(s) == \/ req[s].pc \in {"archive", "recording", "corrected", "claim"}
               \/ \E i \in DOMAIN req[s].staged : req[s].staged[i] # "skip"
HoldsClaim(s, c) ==
  \/ Does(s, "corrected") /\ Head(ask(s).items).claim = c
  \/ \E i \in DOMAIN req[s].staged : req[s].staged[i] # "skip" /\ payload(s).items[i].claim = c
ClaimFree(s, c) == \A t \in Slots \ {s} : ~HoldsClaim(t, c)
EventOf(s) == IF payload(s).key = 0 THEN <<"job", job(s)>> ELSE <<"key", payload(s).key>>
HoldsEvent(s) == req[s].pc \in {"extract", "store", "claim", "commit"}

-----------------------------------------------------------------------------
(* The account: registration, one-time codes, tokens, erasure.              *)

\* Requests that have read the user's token and may still cache it.
TokenPcs == {"lookup", "remember", "accept", "clear", "recache", "drop", "swap", "publish"}
Mixed(s) == \E t \in Slots \ {s} : req[t].pc \in TokenPcs
\* Regenerations between the removal of the old token and the end.
Swapping == \E t \in Slots : Does(t, "swap") \/ Does(t, "publish")

\* The owner's requests carry a session; the user is loaded before the handler runs.
Owners == {"regenerate", "erase", "grant", "revoke", "narrow", "oauth", "disconnect", "flag",
           "unflag", "correct", "delete"}
Enter(s) ==
  /\ ask(s).op \in Owners /\ Begin(s, ask(s).op)
  /\ GoTok(s, IF Alive \/ ask(s).who = 2 THEN ask(s).op ELSE "done", user.token)
  /\ UNCHANGED <<scenario, idVars, consentVars, orgVars, memVars, idem, mixed, events>>

\* register: the unique email refuses a second one, the token is cached, a code sent.
Register(s) ==
  /\ \/ Begin(s, "register") /\ Go(s, IF user.st = None THEN "insert" ELSE "done")
        /\ UNCHANGED user
     \/ Does(s, "insert") /\ IF user.st = None
                             THEN /\ user' = [user EXCEPT !.st = "active", !.token = s]
                                  /\ GoTok(s, "recache", s)
                             ELSE Done(s) /\ UNCHANGED user
  /\ UNCHANGED <<scenario, cached, otp, consentVars, orgVars, memVars, idem, mixed, events>>

\* The token as it was loaded with the user is cached after the commit.
Recache(s) ==
  /\ Does(s, "recache")
  /\ Cache(cached \cup {req[s].tok})
  /\ Go(s, IF ask(s).op = "register" THEN "send" ELSE "done")
  /\ mixed' = (mixed \/ Swapping)
  /\ UNCHANGED <<scenario, user, otp, consentVars, orgVars, memVars, idem>>

SendOtp(s) ==
  /\ \/ /\ Begin(s, "sendotp")
        /\ Go(s, IF otp.sent < SendLimit /\ Alive THEN "send" ELSE "done")
        /\ Calm /\ UNCHANGED otp
     \/ /\ Does(s, "send")
        /\ IF Alive THEN otp' = [otp EXCEPT !.code = s] /\ Go(s, "mail")
           ELSE Done(s) /\ UNCHANGED otp
        /\ Calm
     \/ /\ Does(s, "mail")
        /\ \/ otp' = [otp EXCEPT !.sent = @ + 1] /\ Calm
           \/ Fault /\ UNCHANGED otp
        /\ Done(s)
  /\ UNCHANGED <<scenario, user, cached, consentVars, orgVars, memVars, idem, mixed>>

\* verify_otp: the lock, then the code; a failure is counted after the comparison.
Unlocked == ~otp.lock
VerifyOtp(s) ==
  /\ \/ /\ Begin(s, "verify")
        /\ \/ Go(s, IF Unlocked THEN "compare" ELSE "done") /\ Calm
           \/ Fault /\ Go(s, "compare")
        /\ UNCHANGED otp
     \/ /\ Does(s, "compare")
        /\ IF Alive /\ otp.code # 0 /\ otp.code = ask(s).code
           THEN GoTok(s, "accept", user.token) /\ UNCHANGED otp
           ELSE Go(s, "count") /\ otp' = [otp EXCEPT !.guesses = @ + 1]
        /\ Calm
  /\ UNCHANGED <<scenario, user, cached, consentVars, orgVars, memVars, idem, mixed>>

\* _record_failed_otp_attempt: the counter, then the lock.
\* The comparison that locks.
LimitReached(n) == n >= OtpLimit

CountFailure(s) ==
  /\ \/ /\ Does(s, "count")
        /\ \/ /\ otp' = [otp EXCEPT !.fails = @ + 1] /\ Calm
              /\ Go(s, IF LimitReached(otp.fails + 1) THEN "bar" ELSE "done")
           \/ Fault /\ UNCHANGED otp /\ Done(s)
     \/ /\ Does(s, "bar")
        /\ \/ otp' = [otp EXCEPT !.lock = TRUE] /\ Calm
           \/ Fault /\ UNCHANGED otp
        /\ Done(s)
  /\ UNCHANGED <<scenario, user, cached, consentVars, orgVars, memVars, idem, mixed>>

\* The commit of an accepted code, then the counter and the lock are cleared.
AcceptOtp(s) ==
  /\ \/ /\ Does(s, "accept")
        /\ IF Alive THEN otp' = [otp EXCEPT !.code = 0] /\ Go(s, "clear")
           ELSE Done(s) /\ UNCHANGED otp
     \/ /\ Does(s, "clear")
        /\ otp' = [otp EXCEPT !.fails = 0, !.lock = FALSE, !.guesses = 0]
        /\ Go(s, "recache")
  /\ UNCHANGED <<scenario, user, cached, consentVars, orgVars, memVars, idem, mixed, events>>

\* The windows of the counter and, later, of the lock end.
LapseOtp ==
  /\ Fault
  /\ otp' = IF otp.fails > 0 THEN [otp EXCEPT !.fails = 0, !.guesses = 0]
            ELSE [otp EXCEPT !.lock = FALSE]
  /\ otp' # otp
  /\ UNCHANGED <<scenario, req, user, cached, consentVars, orgVars, memVars, idem, mixed>>

\* regenerate_my_uui_token deletes the old token's entry before the new one is committed.
Dropped(s) == cached \ {req[s].tok}

Regenerate(s) ==
  /\ \/ /\ Does(s, "regenerate")
        /\ Go(s, IF user.rate THEN "done" ELSE "drop")
        /\ Calm /\ UNCHANGED <<user, cached>>
     \/ Does(s, "drop") /\ Cache(Dropped(s)) /\ Go(s, "swap") /\ UNCHANGED user
     \/ /\ Does(s, "swap")
        /\ IF Alive THEN user' = [user EXCEPT !.token = s] /\ Go(s, "publish")
           ELSE Done(s) /\ UNCHANGED user
        /\ Calm /\ UNCHANGED cached
     \/ /\ Does(s, "publish")
        /\ \/ cached' = cached \cup {s} /\ user' = [user EXCEPT !.rate = TRUE] /\ Calm
           \/ Fault /\ cached' \in {cached, cached \cup {s}}
              /\ user' \in {user, [user EXCEPT !.rate = TRUE]}
        /\ Done(s)
  /\ mixed' = (mixed \/ Mixed(s))
  /\ UNCHANGED <<scenario, otp, consentVars, orgVars, memVars, idem>>

\* The ids are read first; the delete waits for the transactions that refer to the user.
Erase(s) ==
  /\ \/ /\ Does(s, "erase")
        /\ Go(s, IF Alive /\ req[s].tok \in cached \cup {user.token} THEN "ids" ELSE "done")
        /\ UNCHANGED <<user, cached, orgVars, consentVars, memVars>>
     \/ /\ Does(s, "ids")
        /\ GoIds(s, "wipe", Stored)
        /\ UNCHANGED <<user, cached, orgVars, consentVars, memVars>>
     \/ /\ Does(s, "wipe")
        /\ IF Alive
           THEN /\ \A t \in Slots : ~Inserted(t)
                /\ user' = [user EXCEPT !.st = "gone"]
                /\ grant' = [a \in Agents |-> [grant[a] EXCEPT !.st = None]]
                /\ conn' = [conn EXCEPT ![1] = [st |-> None, proxy |-> FALSE]]
                /\ link' = [link EXCEPT !.proxy = IF @ = 1 THEN 0 ELSE @]
                /\ mem' = [m \in {} |-> SeedMemory]
                /\ claim' = [c \in Claims |-> NoClaim]
                /\ vec' = [m \in DOMAIN vec |-> IF m \in req[s].ids THEN "delete" ELSE vec[m]]
                /\ Go(s, "uncache")
           ELSE Done(s) /\ UNCHANGED <<user, grant, orgVars, memVars>>
        /\ UNCHANGED <<agent, cached>>
     \/ /\ Does(s, "uncache")
        /\ cached' = cached \ {user.token}
        /\ Done(s)
        /\ UNCHANGED <<user, orgVars, consentVars, memVars>>
  /\ UNCHANGED <<scenario, otp, idem, mixed, events>>

-----------------------------------------------------------------------------
(* Consent: grants, retirement, organisations.                              *)

Current(a) == grant[a].st = "active" /\ ~grant[a].late
\* The jobs a revocation finds before their last look at the grant.
Extracting == {"lock", "extract", "store", "claim"}
CutOff(a, yes) == [s \in Slots |->
  IF req[s].pc \in Extracting /\ payload(s).agent = a THEN [req[s] EXCEPT !.cut = yes] ELSE req[s]]
CutAndDone(s, yes) == req' = [CutOff(ask(s).agent, yes) EXCEPT ![s] = [@ EXCEPT !.pc = "done"]]

\* create_my_grant: the link token is consumed, then the agent checked, then one
\* commit stores grant, link and connection.
GrantConsume(s) ==
  /\ Does(s, "grant")
  /\ IF ~ask(s).link THEN Go(s, "check") /\ UNCHANGED link
     ELSE /\ link' = [link EXCEPT !.token = IF @ = None THEN None ELSE "used"]
          /\ Go(s, IF link.token = ask(s).agent THEN "connect" ELSE "done")
  /\ UNCHANGED <<scenario, idVars, consentVars, conn, memVars, idem, mixed, events>>

\* Mutant: an account linked to somebody else is not refused.
ConnectsAnyone(u) == TRUE
\* connect_proxy_user: the account must not be linked to another user.
Connects(u) == link.proxy \in {0, u}

GrantConnect(s) ==
  /\ Does(s, "connect")
  /\ GoSeen(s, IF Connects(ask(s).who) THEN "check" ELSE "done", link.proxy # 0)
  /\ UNCHANGED <<scenario, idVars, consentVars, orgVars, memVars, idem, mixed, events>>

GrantCheck(s) ==
  /\ Does(s, "check")
  /\ Go(s, IF agent[ask(s).agent] THEN "upsert" ELSE "done")
  /\ UNCHANGED <<scenario, idVars, consentVars, orgVars, memVars, idem, mixed, events>>

\* A link row that was missing is inserted, and the unique account refuses a second one.
Refused(s) == ~req[s].seen /\ link.proxy # 0
\* upsert_connection and the link row.
Connect(u) ==
  /\ link' = [link EXCEPT !.proxy = IF @ = 0 THEN u ELSE @]
  /\ conn' = [conn EXCEPT ![u] = [st |-> "active", proxy |-> TRUE]]

Retiring(a) == \E t \in Slots : Does(t, "retiring") /\ ask(t).agent = a
\* The upsert of a new row waits for the retirement's lock on the agent.
GrantUpsert(s) ==
  LET a == ask(s).agent  u == ask(s).who IN
  /\ Does(s, "upsert")
  /\ grant[a].st = None => ~Retiring(a)
  /\ IF (u = 1 /\ ~Alive) \/ (ask(s).link /\ Refused(s))
     THEN Done(s) /\ UNCHANGED <<grant, orgVars>>
     ELSE /\ IF ask(s).link THEN Connect(u) ELSE UNCHANGED orgVars
          /\ IF u = 1
             THEN /\ grant' = [grant EXCEPT ![a] = [st |-> "active", rw |-> ask(s).rw,
                                  cats |-> ask(s).cats, late |-> FALSE, marked |-> FALSE]]
                  /\ CutAndDone(s, ~ask(s).rw)
             ELSE Done(s) /\ UNCHANGED grant
  /\ UNCHANGED <<scenario, idVars, agent, memVars, idem, mixed, events>>

\* revoke_grant writes only what it changes: a grant it read as revoked stays as it is.
RevokeGrant(s) ==
  LET a == ask(s).agent IN
  /\ \/ /\ Does(s, "revoke")
        /\ GoSeen(s, IF grant[a].st = None THEN "done" ELSE "revoking", grant[a].st = "active")
        /\ UNCHANGED grant
     \/ /\ Does(s, "revoking")
        /\ IF grant[a].st = None THEN Done(s) /\ UNCHANGED grant
           ELSE /\ grant' = [grant EXCEPT ![a].st = IF req[s].seen THEN "revoked" ELSE @,
                                          ![a].marked = TRUE]
                /\ IF req[s].seen THEN CutAndDone(s, TRUE) ELSE Done(s)
  /\ UNCHANGED <<scenario, idVars, agent, orgVars, memVars, idem, mixed, events>>

\* update_my_grant.
Narrow(s) ==
  LET a == ask(s).agent IN
  /\ \/ /\ Does(s, "narrow")
        /\ Go(s, IF grant[a].st = "active" THEN "narrowing" ELSE "done")
        /\ UNCHANGED grant
     \/ /\ Does(s, "narrowing")
        /\ grant' = IF grant[a].st = None THEN grant
                    ELSE [grant EXCEPT ![a].cats = ask(s).cats]
        /\ Done(s)
  /\ UNCHANGED <<scenario, idVars, agent, orgVars, memVars, idem, mixed, events>>

\* The agent's row is locked, its active grants are read, and all are ended in one commit.
Retire(s) ==
  LET a == ask(s).agent IN
  /\ \/ /\ Begin(s, "retire") /\ ~Retiring(a)
        /\ GoSeen(s, "retiring", grant[a].st = "active")
        /\ UNCHANGED consentVars
     \/ /\ Does(s, "retiring")
        /\ agent' = [agent EXCEPT ![a] = FALSE]
        /\ grant' = IF req[s].seen /\ grant[a].st # None
                    THEN [grant EXCEPT ![a].st = "revoked", ![a].marked = TRUE] ELSE grant
        /\ IF req[s].seen THEN CutAndDone(s, TRUE) ELSE Done(s)
  /\ UNCHANGED <<scenario, idVars, orgVars, memVars, idem, mixed, events>>

ExpireGrant(a) ==
  /\ Fault /\ Current(a)
  /\ grant' = [grant EXCEPT ![a].late = TRUE]
  /\ req' = CutOff(a, TRUE)
  /\ UNCHANGED <<scenario, idVars, agent, orgVars, memVars, idem, mixed>>

IssueLink(s) ==
  /\ Begin(s, "issue")
  /\ link' = IF agent[ask(s).agent] THEN [link EXCEPT !.token = ask(s).agent] ELSE link
  /\ Done(s)
  /\ UNCHANGED <<scenario, idVars, consentVars, conn, memVars, idem, mixed, events>>

\* initiate_oauth stores a state with the user's id.
OAuthInitiate(s) ==
  /\ Does(s, "oauth")
  /\ link' = [link EXCEPT !.oauth = ask(s).who]
  /\ Done(s)
  /\ UNCHANGED <<scenario, idVars, consentVars, conn, memVars, idem, mixed, events>>

\* The callback carries no session: the state is taken, the provider asked who it is.
OAuthCallback(s) ==
  /\ \/ /\ Begin(s, "callback")
        /\ link' = [link EXCEPT !.oauth = 0]
        /\ GoNumber(s, IF link.oauth = 0 THEN "done" ELSE "provider", link.oauth)
     \/ /\ Does(s, "provider")
        /\ GoSeen(s, IF Connects(req[s].n) THEN "callback" ELSE "done", link.proxy # 0)
        /\ UNCHANGED link
  /\ UNCHANGED <<scenario, idVars, consentVars, conn, memVars, idem, mixed, events>>

OAuthCommit(s) ==
  /\ Does(s, "callback")
  /\ IF (req[s].n = 1 /\ ~Alive) \/ Refused(s) THEN UNCHANGED orgVars ELSE Connect(req[s].n)
  /\ Done(s)
  /\ UNCHANGED <<scenario, idVars, consentVars, memVars, idem, mixed, events>>

\* disconnect_my_organisation ends the connection and leaves the account's link.
Disconnect(s) ==
  /\ \/ /\ Does(s, "disconnect")
        /\ Go(s, IF conn[ask(s).who].st = "active" THEN "parting" ELSE "done")
        /\ UNCHANGED conn
     \/ /\ Does(s, "parting")
        /\ conn' = [conn EXCEPT ![ask(s).who].st = IF @ = None THEN None ELSE "inactive"]
        /\ Done(s)
  /\ UNCHANGED <<scenario, idVars, consentVars, link, memVars, idem, mixed, events>>

-----------------------------------------------------------------------------
(* Agents: authentication, adding and reading.                              *)

\* resolve_from_api_key: an active key of an active agent.
KeyValid(a) == agent[a]
\* The middleware: the agent's key, then the user's token, from the cache if it is there.
Authenticate(s) ==
  /\ \E op \in {"add", "retrieve"} : Begin(s, op)
  /\ ~ask(s).cap
  /\ \/ /\ Calm
        /\ Go(s, IF ~KeyValid(ask(s).agent) THEN "done"
                 ELSE IF ask(s).tok \in cached /\ Alive THEN "allowed" ELSE "lookup")
     \/ Fault /\ Go(s, IF KeyValid(ask(s).agent) THEN "lookup" ELSE "done")
  /\ UNCHANGED <<scenario, idVars, consentVars, orgVars, memVars, idem, mixed>>

\* get_grants: current, and of an active agent.
HasGrant(a) == Current(a) /\ agent[a]
\* issue_universal_capability, for a client that logged in elsewhere.
IssueCapability(s) ==
  /\ \E op \in {"add", "retrieve"} : Begin(s, op)
  /\ ask(s).cap
  /\ Go(s, IF KeyValid(ask(s).agent) /\ Alive /\ HasGrant(ask(s).agent) THEN "capability"
           ELSE "done")
  /\ UNCHANGED <<scenario, idVars, consentVars, orgVars, memVars, idem, mixed, events>>

\* The capability is a signed token: the grant it names is looked up when it is used.
UseCapability(s) ==
  /\ Does(s, "capability")
  /\ Go(s, IF agent[ask(s).agent] /\ Alive /\ Current(ask(s).agent) THEN "allowed" ELSE "done")
  /\ UNCHANGED <<scenario, idVars, consentVars, orgVars, memVars, idem, mixed, events>>

\* resolve_by_token: a miss, or a failed read of the cache, is looked up and cached.
ResolveByToken(s) ==
  /\ \/ /\ Does(s, "lookup")
        /\ Go(s, IF Alive /\ user.token = ask(s).tok THEN "remember" ELSE "done")
        /\ Calm /\ UNCHANGED <<cached, mixed>>
     \/ /\ Does(s, "remember")
        /\ Cache(cached \cup {ask(s).tok})
        /\ Go(s, IF Alive THEN "allowed" ELSE "done")
        /\ mixed' = (mixed \/ Swapping)
  /\ UNCHANGED <<scenario, user, otp, consentVars, orgVars, memVars, idem>>

\* retrieve_universal_memories looks up the grant once and searches its categories.
Retrieve(s) ==
  /\ Does(s, "allowed") /\ ask(s).op = "retrieve"
  /\ GoCats(s, IF HasGrant(ask(s).agent) THEN "search" ELSE "done", grant[ask(s).agent].cats)
  /\ UNCHANGED <<scenario, idVars, consentVars, orgVars, memVars, idem, mixed, events>>

\* _search_universal_memories: what the index finds and the table still has unarchived.
Search(s) ==
  /\ Does(s, "search")
  /\ GoIds(s, "done", {m \in Stored : mem[m].st = "live" /\ m \in DOMAIN vec})
  /\ UNCHANGED <<scenario, idVars, consentVars, orgVars, memVars, idem, mixed, events>>

Key(s) == <<ask(s).agent, ask(s).key>>
\* add_universal_memories: the grant, the key's earlier answer, the quality gate, and
\* the key stored before the job is dispatched; a failed dispatch is answered again.
AddAdmit(s) ==
  /\ Does(s, "allowed") /\ ask(s).op = "add"
  /\ Go(s, IF HasGrant(ask(s).agent) /\ grant[ask(s).agent].rw THEN "replay" ELSE "done")
  /\ UNCHANGED <<scenario, idVars, consentVars, orgVars, memVars, idem, mixed, events>>

AddReplay(s) ==
  /\ Does(s, "replay")
  /\ Go(s, IF ask(s).key # 0 /\ idem[Key(s)] # None THEN "done" ELSE "reserve")
  /\ UNCHANGED <<scenario, idVars, consentVars, orgVars, memVars, idem, mixed, events>>

AddDispatch(s) ==
  /\ \/ /\ Does(s, "reserve")
        /\ idem' = IF ask(s).key = 0 THEN idem ELSE [idem EXCEPT ![Key(s)] = "queued"]
        /\ Go(s, "dispatch") /\ Calm
     \/ /\ Does(s, "dispatch")
        /\ \/ /\ req' = [req EXCEPT ![s] = [@ EXCEPT !.pc = "queued", !.published = TRUE]]
              /\ Calm /\ UNCHANGED idem
           \/ /\ Fault
              /\ idem' = IF ask(s).key = 0 THEN idem ELSE [idem EXCEPT ![Key(s)] = "error"]
              /\ Done(s)
  /\ UNCHANGED <<scenario, idVars, consentVars, orgVars, memVars, mixed>>

-----------------------------------------------------------------------------
(* The task extract_universal_memory.                                       *)

Deliver(s) ==
  /\ Begin(s, "deliver") /\ req[ask(s).of].published
  /\ Go(s, "queued")
  /\ UNCHANGED <<scenario, idVars, consentVars, orgVars, memVars, idem, mixed, events>>

\* _active_write_grant asks the grant, not the agent.
WriteGrant(s) == Current(payload(s).agent) /\ grant[payload(s).agent].rw
\* A failed attempt rolls back and is retried until none is left.
Retry(s) == req' = [req EXCEPT ![s] = [Fresh EXCEPT
              !.pc = IF req[s].tries + 1 < MaxRetries THEN "queued" ELSE "done",
              !.tries = req[s].tries + 1, !.published = req[s].published]]

JobBegin(s) ==
  /\ Does(s, "queued")
  /\ IF Alive THEN GoCats(s, IF WriteGrant(s) THEN "lock" ELSE "done", grant[payload(s).agent].cats)
     ELSE Retry(s)
  /\ UNCHANGED <<scenario, idVars, consentVars, orgVars, memVars, idem, mixed, events>>

SameEvent(s, t) == /\ payload(s).agent = payload(t).agent
                   /\ EventOf(s) = EventOf(t)
\* Mutant: deliveries of one event do not wait for each other.
EventFreeAlways(s) == TRUE
\* _lock_event_delivery.
EventFree(s) == \A t \in Slots \ {s} : ~(HoldsEvent(t) /\ SameEvent(s, t))

EventStored(s) == \E m \in Stored : mem[m].agent = payload(s).agent /\ mem[m].event = EventOf(s)
JobLock(s) ==
  /\ Does(s, "lock") /\ EventFree(s)
  /\ Go(s, IF EventStored(s) THEN "done" ELSE "extract")
  /\ UNCHANGED <<scenario, idVars, consentVars, orgVars, memVars, idem, mixed, events>>

\* The model's answer takes its time; what it finds is in the scenario.
JobExtract(s) ==
  /\ Does(s, "extract")
  /\ Go(s, "store")
  /\ UNCHANGED <<scenario, idVars, consentVars, orgVars, memVars, idem, mixed, events>>

Next1(s) == Len(req[s].staged) + 1
Cur(s) == payload(s).items[Next1(s)]
\* An allowed item is inserted; one outside the categories first granted is left out.
JobInsert(s) ==
  /\ Does(s, "store") /\ Next1(s) <= Len(payload(s).items)
  /\ IF Cur(s).cat \notin req[s].cats THEN GoStaged(s, "store", Append(req[s].staged, "skip"))
     ELSE IF Alive THEN Go(s, "claim") ELSE Retry(s)
  /\ UNCHANGED <<scenario, idVars, consentVars, orgVars, memVars, idem, mixed, events>>

\* The claim as the transaction sees it, its own staged items first.
Own(s, c) == {i \in DOMAIN req[s].staged : req[s].staged[i] = "activated"
                                            /\ payload(s).items[i].claim = c}
\* _record, for an agent: only the first word on a claim is active.
Decision(s, c, v) ==
  IF Own(s, c) = {} /\ claim[c].st = None THEN "activated"
  ELSE IF v \in {claim[c].val} \cup {payload(s).items[i].val : i \in Own(s, c)} THEN "asserted"
  ELSE "disputed"

JobRecord(s) ==
  /\ Does(s, "claim") /\ ClaimFree(s, Cur(s).claim)
  /\ GoStaged(s, "store", Append(req[s].staged, Decision(s, Cur(s).claim, Cur(s).val)))
  /\ UNCHANGED <<scenario, idVars, consentVars, orgVars, memVars, idem, mixed, events>>

\* Mutant: the grant is not looked at again.
StillGrantedAlways(s) == TRUE
\* The last look at the grant before the commit.
StillGranted(s) == WriteGrant(s)

JobFinal(s) ==
  /\ Does(s, "store") /\ Next1(s) > Len(payload(s).items)
  /\ IF StillGranted(s) THEN Go(s, "commit")
     ELSE GoStaged(s, "done", <<>>)
  /\ UNCHANGED <<scenario, idVars, consentVars, orgVars, memVars, idem, mixed, events>>

New(s, i) == LET it == payload(s).items[i]  d == req[s].staged[i] IN
  [SeedMemory EXCEPT !.st = IF d = "activated" THEN "live" ELSE "archived",
     !.agent = payload(s).agent, !.event = EventOf(s), !.claim = it.claim, !.val = it.val,
     !.rev = d, !.spoke = d = "activated", !.run = s, !.cut = req[s].cut]
Writes(s) == {i \in DOMAIN req[s].staged : req[s].staged[i] # "skip"}
Activated(s) == {i \in Writes(s) : req[s].staged[i] = "activated"}
\* One commit; its acknowledgement may be lost, and the task is then tried again.
JobCommit(s) ==
  /\ Does(s, "commit")
  /\ mem' = [m \in Stored \cup {<<s, i>> : i \in Writes(s)} |->
               IF m[1] = s THEN New(s, m[2]) ELSE mem[m]]
  /\ vec' = [m \in DOMAIN vec \cup {<<s, i>> : i \in Activated(s)} |->
               IF m[1] = s THEN "upsert" ELSE vec[m]]
  /\ claim' = [c \in Claims |->
       LET mine == {i \in Writes(s) : payload(s).items[i].claim = c} IN
       IF \E i \in mine : req[s].staged[i] = "activated"
       THEN LET i == CHOOSE i \in mine : req[s].staged[i] = "activated" IN
            [st |-> IF \E j \in mine : req[s].staged[j] = "disputed" THEN "disputed" ELSE "active",
             mem |-> <<s, i>>, val |-> payload(s).items[i].val]
       ELSE IF \E i \in mine : req[s].staged[i] = "disputed"
       THEN [claim[c] EXCEPT !.st = "disputed"] ELSE claim[c]]
  /\ \/ Calm /\ GoStaged(s, "done", <<>>)
     \/ Fault /\ Retry(s)
  /\ UNCHANGED <<scenario, idVars, consentVars, orgVars, idem, mixed>>

\* The database ends one of two transactions that wait for each other's claims.
Victim(s) ==
  /\ Does(s, "claim")
  /\ \E t \in Slots \ {s} : /\ Does(t, "claim")
                            /\ HoldsClaim(t, Cur(s).claim) /\ HoldsClaim(s, Cur(t).claim)
  /\ Retry(s)
  /\ UNCHANGED <<scenario, idVars, consentVars, orgVars, memVars, idem, mixed, events>>

\* A failed statement rolls the transaction back; a request then fails, a task is retried.
Fail(s) ==
  /\ Fault
  /\ \/ req[s].pc \in {"extract", "store", "claim", "commit"} /\ Retry(s)
     \/ req[s].pc \in {"insert", "connect", "upsert", "callback", "swap", "wipe", "archive",
                       "recording", "corrected", "deleted"} /\ Done(s)
  /\ UNCHANGED <<scenario, idVars, consentVars, orgVars, memVars, idem, mixed>>

-----------------------------------------------------------------------------
(* The owner's memories.                                                    *)

Live(m) == m \in Stored /\ mem[m].st = "live"
\* flag_my_memory: a second pending flag makes the lookup of the pending one fail, and
\* only what changes of the memory is written.
Flag(s) ==
  LET m == ask(s).mem IN
  /\ \/ /\ Does(s, "flag")
        /\ IF Live(m) /\ mem[m].pending < 2
           THEN req' = [req EXCEPT ![s] = [@ EXCEPT !.pc = "flagging", !.seen = mem[m].flagged,
                                                    !.n = mem[m].pending]]
           ELSE Done(s)
        /\ UNCHANGED mem
     \/ /\ Does(s, "flagging") /\ RowFree(s, m)
        /\ mem' = IF m \notin Stored THEN mem
                  ELSE [mem EXCEPT ![m].pending = IF req[s].n = 0 THEN @ + 1 ELSE @,
                                   ![m].flagged = IF req[s].seen THEN @ ELSE TRUE]
        /\ Done(s)
  /\ UNCHANGED <<scenario, idVars, consentVars, orgVars, claim, vec, idem, mixed, events>>

Unflag(s) ==
  LET m == ask(s).mem IN
  /\ \/ /\ Does(s, "unflag")
        /\ IF Live(m) THEN GoSeen(s, "unflagging", mem[m].flagged)
           ELSE Done(s)
        /\ UNCHANGED mem
     \/ /\ Does(s, "unflagging") /\ RowFree(s, m)
        /\ mem' = IF m \notin Stored THEN mem
                  ELSE [mem EXCEPT ![m].pending = 0,
                                   ![m].flagged = IF req[s].seen THEN FALSE ELSE @]
        /\ Done(s)
  /\ UNCHANGED <<scenario, idVars, consentVars, orgVars, claim, vec, idem, mixed, events>>

\* archive_memory_async: the claim loses the memory if that was its active one.
Unclaimed(m, had) == IF had THEN [claim EXCEPT ![mem[m].claim] = [st |-> "archived", mem |-> NoMem,
                                                                   val |-> 0]] ELSE claim
IsActive(m) == m \in Stored /\ claim[mem[m].claim].mem = m
Archived(m) == [mem EXCEPT ![m].st = "archived", ![m].rev = "archived", ![m].ver = @ + 1,
                           ![m].pending = 0, ![m].flagged = FALSE]

\* correct_my_memory up to the claim: read, embed, flush the archived row, and look
\* whether the claim is the memory's.
CorrectStage(s) ==
  LET m == ask(s).mem IN
  /\ \/ Does(s, "correct") /\ Go(s, IF Live(m) THEN "embed" ELSE "done")
     \/ Does(s, "embed") /\ RowFree(s, m) /\ Go(s, IF m \in Stored THEN "archive" ELSE "done")
     \/ /\ Does(s, "archive")
        /\ GoSeen(s, "recording", IsActive(m))
     \/ Does(s, "recording") /\ ClaimFree(s, Head(ask(s).items).claim) /\ Go(s, "corrected")
  /\ UNCHANGED <<scenario, idVars, consentVars, orgVars, memVars, idem, mixed, events>>

\* record_async for the owner: the correction takes its claim over.
CorrectCommit(s) ==
  LET m == ask(s).mem  n == <<s, 1>>  it == Head(ask(s).items) IN
  /\ Does(s, "corrected")
  /\ mem' = [x \in Stored \cup {n} |-> IF x # n THEN Archived(m)[x] ELSE
       [SeedMemory EXCEPT !.src = "user_correction", !.agent = mem[m].agent, !.claim = it.claim,
          !.val = it.val, !.spoke = FALSE, !.run = s]]
  /\ claim' = [Unclaimed(m, req[s].seen) EXCEPT ![it.claim] =
                 [st |-> "active", mem |-> n, val |-> it.val]]
  /\ vec' = [x \in DOMAIN vec \cup {n} |-> IF x = n THEN "upsert"
                                           ELSE IF x = m THEN "delete" ELSE vec[x]]
  /\ Done(s)
  /\ UNCHANGED <<scenario, idVars, consentVars, orgVars, idem, mixed, events>>

\* delete_my_memory: the version number is read before the row is locked, and the
\* unique number refuses a second removal.
DeleteStage(s) ==
  LET m == ask(s).mem IN
  /\ \/ Does(s, "delete") /\ Go(s, IF Live(m) THEN "number" ELSE "done")
     \/ /\ Does(s, "number")
        /\ GoNumber(s, "removing", IF m \in Stored THEN mem[m].ver ELSE 0)
     \/ /\ Does(s, "removing") /\ RowFree(s, m)
        /\ GoSeen(s, IF m \in Stored /\ mem[m].ver = req[s].n THEN "deleted" ELSE "done", IsActive(m))
  /\ UNCHANGED <<scenario, idVars, consentVars, orgVars, memVars, idem, mixed, events>>

DeleteCommit(s) ==
  LET m == ask(s).mem IN
  /\ Does(s, "deleted")
  /\ IF m \notin Stored THEN UNCHANGED memVars
     ELSE /\ mem' = Archived(m)
          /\ claim' = Unclaimed(m, req[s].seen)
          /\ vec' = [vec EXCEPT ![m] = "delete"]
  /\ Done(s)
  /\ UNCHANGED <<scenario, idVars, consentVars, orgVars, idem, mixed, events>>

-----------------------------------------------------------------------------
Step(s) ==
  \/ Enter(s) \/ Register(s) \/ Recache(s) \/ SendOtp(s) \/ VerifyOtp(s) \/ CountFailure(s)
  \/ AcceptOtp(s) \/ Regenerate(s) \/ Erase(s)
  \/ GrantConsume(s) \/ GrantConnect(s) \/ GrantCheck(s) \/ GrantUpsert(s) \/ RevokeGrant(s)
  \/ Narrow(s) \/ Retire(s) \/ IssueLink(s) \/ OAuthInitiate(s)
  \/ OAuthCallback(s) \/ OAuthCommit(s) \/ Disconnect(s)
  \/ Authenticate(s) \/ IssueCapability(s) \/ UseCapability(s) \/ ResolveByToken(s)
  \/ Retrieve(s) \/ Search(s)
  \/ AddAdmit(s) \/ AddReplay(s) \/ AddDispatch(s)
  \/ Deliver(s) \/ JobBegin(s) \/ JobLock(s) \/ JobExtract(s) \/ JobInsert(s) \/ JobRecord(s)
  \/ JobFinal(s) \/ JobCommit(s) \/ Victim(s) \/ Fail(s)
  \/ Flag(s) \/ Unflag(s) \/ CorrectStage(s) \/ CorrectCommit(s) \/ DeleteStage(s) \/ DeleteCommit(s)

\* The scenario is over when every request is; a job that was never published is not delivered.
Over == /\ \A s \in Slots : \/ Does(s, "done") \/ ask(s).op = "idle"
                            \/ ask(s).op = "deliver" /\ Does(s, "new")
        /\ UNCHANGED passportVars

PassportNext == \/ \E s \in Slots : Step(s)
                \/ LapseOtp
                \/ \E a \in Agents : ExpireGrant(a)
                \/ Over

PassportSpec == PassportInit /\ [][PassportNext]_passportVars

-----------------------------------------------------------------------------
PassportTypeOK ==
  /\ \A s \in Slots : /\ req[s] \in Local /\ req[s].tries <= MaxRetries
                      /\ Len(req[s].staged) <= 2
  /\ user \in User /\ otp \in Otp /\ link \in Link /\ conn \in [Users -> Connection]
  /\ cached \subseteq Slots \cup {0}
  /\ grant \in [Agents -> Grant]
  /\ Stored \subseteq MemIds /\ \A m \in Stored : mem[m] \in Memory
  /\ claim \in [Claims -> Claim]

\* A grant that was revoked, retired or had expired before a job's last look at it, and
\* was not given again, leaves no memory of that job (universal_extraction_tasks.py:
\* "revocation or expiry during extraction can roll them back atomically").
RevokedNotWritten == \A m \in Stored : ~mem[m].cut

\* However often an add is repeated or its job delivered, one run stores the memories of
\* one event: _lock_event_delivery and _existing_event_memory_count.
StoredOnce == \A m, n \in Stored :
  /\ {mem[m].src, mem[n].src} = {"passport_agent"} /\ m # Seed /\ n # Seed
  /\ mem[m].agent = mem[n].agent /\ mem[m].event = mem[n].event
  => mem[m].run = mem[n].run

\* The memory a claim calls active is live and says the claim's value, whatever
\* extractions, corrections and removals overlapped (universal_claim_ledger_service.py).
ClaimBacked == \A c \in Claims : claim[c].mem # NoMem =>
  LET m == claim[c].mem IN /\ mem[m].st = "live" /\ mem[m].claim = c
                           /\ mem[m].val = claim[c].val

\* Does most one agent's memory of a claim was ever live: what the owner corrected or
\* removed does not come back from an agent (_record).
FirstWordOnly == \A m, n \in Stored :
  mem[m].spoke /\ mem[n].spoke /\ mem[m].claim = mem[n].claim => m = n

\* An organisation's account belongs to the connections of one user, however link tokens
\* and OAuth answers of two users interleave (organisation_connection_service.py).
OneOwner == \A u \in Users : conn[u].st = "active" /\ conn[u].proxy => link.proxy = u

\* Wrong codes that were compared since the last success or window, and codes mailed, are
\* bounded by the limits and by what was under way when they were reached (uui_service.py).
LimitsHold == /\ otp.guesses <= OtpLimit - 1 + MaxOpen + events
              /\ otp.sent <= SendLimit - 1 + MaxOpen

\* Unless a request that had read the token overlapped a regeneration, or Redis failed, no
\* token is cached but the user's own, at no moment (regenerate_my_uui_token).
ReplacedForgotten ==
  ~mixed /\ events = 0 /\ user.st = "active" => cached \subseteq {user.token}

\* However extractions, corrections and repetitions overlap, an event is stored once and
\* a claim shows the first word of an agent or what the owner made of it.
ClaimsKept == StoredOnce /\ ClaimBacked /\ FirstWordOnly

\* However requests of the owner and of others overlap, who signs in is bounded, known
\* and no longer with what was replaced (uui_service.py, organisation_connection_service.py).
IdentityKept == OneOwner /\ LimitsHold /\ ReplacedForgotten

=============================================================================
