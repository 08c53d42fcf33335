----------------------------- MODULE ProviderCalls -----------------------------
(***************************************************************************)
(* Calls to language models and to the vector index behind circuit         *)
(* breakers (circuit_breaker.py, llm_service.py, vector_store.py).  Every  *)
(* process has a breaker object of its own for each service; the objects   *)
(* share their state through one Redis key, which they read and write      *)
(* without a lock, and go on alone while Redis is away.  A language-model  *)
(* call also leases one of the provider's slots in Redis.                  *)
(*                                                                         *)
(* Time is counted in ticks and kept as ages, so that behaviours need no   *)
(* bound.  The refresh interval of a breaker is shorter than a tick: what  *)
(* was read or written since the last tick may be used again or reread.    *)
(***************************************************************************)
EXTENDS Naturals, Sequences, FiniteSets, FiniteSetsExt, Functions

CONSTANTS Processes, Calls, Services,
          Plans,       \* which calls there are: see Plan
          Threshold, Window, Recovery,  \* of a breaker
          StoreOff,    \* how long a breaker leaves Redis alone after an error (30 s)
          Limit,       \* llm_provider_concurrency_limits
          Timeout,     \* timeout_seconds of a provider
          SlotTtl, Slack,   \* llm_provider_slot_ttl_seconds, and the 15 s on top of Timeout
          MaxRetries   \* MAX_RETRIES of the index

\* Where each call runs, the services it goes through, which calls are to the index (those
\* are retried, and have no slot), how the services work at first (a slow one answers or
\* lets the call time out, a hung one never answers), and what then happens:
\* a service changes, Redis goes or comes back, a process dies.
Behaviours == {"up", "slow", "hung", "down", "limited", "refusing"}
Happening == [what : {"works"}, on : Services, to : Behaviours]
             \cup [what : {"redis"}] \cup [what : {"crash"}, on : Processes]
Plan == [proc : [Calls -> Processes], order : [Calls -> Seq(Services)], guarded : SUBSET Calls,
         works : [Services -> Behaviours], redis : BOOLEAN, then : Seq(Happening)]

ASSUME ProviderAssumption ==
  /\ \A k \in Plans : k \in Plan
  /\ {Threshold, Window, Recovery, StoreOff, Limit, Timeout, SlotTtl, MaxRetries} \subseteq Nat
  /\ Slack \in Nat \ {0}

VARIABLES
  plan,
  store,  \* store[p]: the shared state of the breaker of p
  local,  \* local[i][p]: the copy of process i
  fresh,  \* fresh[i][p]: read or written since the last tick
  off,    \* off[i][p]: for how long process i still leaves Redis alone
  avail,  \* avail[i]: _available_providers
  lease,  \* lease[p]: the slots' leases, with the ticks they still have
  call,   \* call[c]: where a call is
  works,  \* works[p]: how the service behaves at the moment
  redis,  \* Redis answers
  begun,  \* the calls begun since the last tick: a bound, one of each per tick
  events  \* how much of the plan has happened

vars == <<plan, store, local, fresh, off, avail, lease, call, begun, works, redis, events>>
breakerVars == <<store, local, fresh, off>>
worldVars == <<plan, begun, works, redis>>
ProcessOf(c) == plan.proc[c]
Guarded == plan.guarded

\* CircuitState, with ages for its times.  A window or a recovery that is over stays over;
\* opened_at is only looked at in OPEN, and the window of HALF_OPEN not at all.
Circuit == [st : {"CLOSED", "OPEN", "HALF_OPEN"}, n : 0 .. Threshold, win : 0 .. Window + 1,
            open : 0 .. Recovery]
Closed == [st |-> "CLOSED", n |-> 0, win |-> Window + 1, open |-> Recovery]
HalfOpen == [st |-> "HALF_OPEN", n |-> Threshold, win |-> Window + 1, open |-> Recovery]
Opened == [st |-> "OPEN", n |-> Threshold, win |-> 0, open |-> 0]

\* The lease must outlive the call: max(ttl setting, timeout + 15).
\* Mutant: the lease lasts as long as the setting says.
LeaseTtlShort == SlotTtl
LeaseTtl == Max({SlotTtl, Timeout + Slack})

Tokens == Calls \X (0 .. Len(plan.then))
NoLease == [t \in {} |-> 0]
Idle == [pc |-> "idle", todo |-> <<>>, age |-> 0, buf |-> Closed, token |-> 0, tries |-> 0,
         next |-> "idle"]

Init ==
  /\ plan \in Plans
  /\ store = [p \in Services |-> Closed]
  /\ local = [i \in Processes |-> [p \in Services |-> Closed]]
  /\ fresh = [i \in Processes |-> [p \in Services |-> FALSE]]
  /\ off = [i \in Processes |-> [p \in Services |-> 0]]
  /\ avail = [i \in Processes |-> Services]
  /\ lease = [p \in Services |-> NoLease]
  /\ call = [c \in Calls |-> Idle]
  /\ begun = {}
  /\ works = plan.works /\ redis = plan.redis
  /\ events = 0

At(c, pc) == call[c].pc = pc
Service(c) == Head(call[c].todo)
Go(c, pc) == call' = [call EXCEPT ![c].pc = pc]
\* A breaker's load and its save are not interrupted by another call of the process.
Free(c) == \A d \in Calls \ {c} : ProcessOf(d) = ProcessOf(c) => call[d].pc \notin {"coerce", "save"}

\* _save_state: the copy, and the key unless Redis is left alone; an error starts that.
Save(i, p, s) ==
  /\ local' = [local EXCEPT ![i][p] = s]
  /\ fresh' = [fresh EXCEPT ![i][p] = TRUE]
  /\ store' = IF off[i][p] = 0 /\ redis THEN [store EXCEPT ![p] = s] ELSE store
  /\ off' = IF off[i][p] = 0 /\ ~redis THEN [off EXCEPT ![i][p] = StoreOff] ELSE off

\* _load_state.
Load(i, p) ==
  /\ \/ (off[i][p] > 0 \/ fresh[i][p]) /\ UNCHANGED <<local, fresh, off>>
     \/ /\ off[i][p] = 0 /\ redis
        /\ local' = [local EXCEPT ![i][p] = store[p]]
        /\ fresh' = [fresh EXCEPT ![i][p] = TRUE]
        /\ UNCHANGED off
     \/ /\ off[i][p] = 0 /\ ~redis
        /\ off' = [off EXCEPT ![i][p] = StoreOff]
        /\ UNCHANGED <<local, fresh>>
  /\ UNCHANGED store

-----------------------------------------------------------------------------
(* The breaker.                                                             *)

\* Mutant: an open circuit is never tried again.
RecoveredNever(s) == FALSE
\* _coerce_recovery_state.
Recovered(s) == s.st = "OPEN" /\ s.open >= Recovery

\* _record_failure: a window that is over starts again, whatever the state was.
Counted(s) ==
  LET n == IF s.win > Window THEN 1 ELSE Min({s.n + 1, Threshold}) IN
  IF s.st = "HALF_OPEN" THEN Opened
  ELSE [st |-> IF n >= Threshold THEN "OPEN" ELSE "CLOSED", n |-> n,
        win |-> IF s.win > Window THEN 0 ELSE s.win, open |-> IF n >= Threshold THEN 0 ELSE Recovery]

\* current_state and _before_call: an open circuit is skipped until its recovery.
Select(c) ==
  LET i == ProcessOf(c)  p == Service(c)  s == local'[i][p] IN
  /\ At(c, "select") /\ call[c].todo # <<>>
  /\ Load(i, p)
  /\ call' = [call EXCEPT ![c] =
       IF Recovered(s) THEN [@ EXCEPT !.pc = "coerce"]
       ELSE IF s.st # "OPEN" THEN [@ EXCEPT !.pc = "acquire"]
       ELSE IF c \in Guarded THEN Idle ELSE [@ EXCEPT !.todo = Tail(call[c].todo)]]
  /\ UNCHANGED <<worldVars, store, avail, lease, events>>

Coerce(c) ==
  /\ At(c, "coerce")
  /\ Save(ProcessOf(c), Service(c), HalfOpen)
  /\ Go(c, "acquire")
  /\ UNCHANGED <<worldVars, avail, lease, events>>

\* _record_success looks at the copy only.
RecordSuccess(c) ==
  LET i == ProcessOf(c)  p == Service(c) IN
  IF local[i][p].st = "CLOSED" /\ local[i][p].n = 0 THEN UNCHANGED <<store, local, fresh, off>>
  ELSE Save(i, p, Closed)

\* _record_failure up to its save.
RecordFailure(c, next) ==
  LET i == ProcessOf(c)  p == Service(c) IN
  /\ Load(i, p)
  /\ call' = [call EXCEPT ![c].pc = "save", ![c].buf = Counted(local'[i][p]), ![c].next = next,
                          ![c].age = 0]

SaveFailure(c) ==
  /\ At(c, "save")
  /\ Save(ProcessOf(c), Service(c), call[c].buf)
  /\ call' = [call EXCEPT ![c] = IF @.next = "idle" THEN Idle
                                 ELSE [@ EXCEPT !.pc = call[c].next, !.buf = Closed, !.next = "idle"]]
  /\ UNCHANGED <<worldVars, avail, lease, events>>

-----------------------------------------------------------------------------
(* LLMService.complete and VectorStore._with_retries.                       *)

\* The providers are those available when the call begins.
Begin(c) ==
  /\ At(c, "idle") /\ c \notin begun
  /\ begun' = begun \cup {c}
  /\ call' = [call EXCEPT ![c] = [Idle EXCEPT !.pc = "select",
       !.todo = SelectSeq(plan.order[c], LAMBDA p : p \in avail[ProcessOf(c)])]]
  /\ UNCHANGED <<plan, works, redis, breakerVars, avail, lease, events>>

\* Mutant: the providers are asked in turn until one answers.
ExhaustedAgain(c) ==
  /\ At(c, "select") /\ call[c].todo = <<>>
  /\ call' = [call EXCEPT ![c].todo = plan.order[c]]
  /\ UNCHANGED <<worldVars, breakerVars, avail, lease, events>>

\* All providers failed or unavailable.
Exhausted(c) ==
  /\ At(c, "select") /\ call[c].todo = <<>>
  /\ call' = [call EXCEPT ![c] = Idle]
  /\ UNCHANGED <<worldVars, breakerVars, avail, lease, events>>

\* _provider_concurrency_limit.
SlotFree(p) == Cardinality(DOMAIN lease[p]) < Limit
\* _acquire_provider_slot: without Redis there is no slot.
Acquire(c) ==
  LET p == Service(c)
      n == Min({k \in 0 .. Len(plan.then) + 1 : <<c, k>> \notin DOMAIN lease[p]}) IN
  /\ At(c, "acquire")
  /\ IF c \in Guarded THEN Go(c, "calling") /\ UNCHANGED lease
     ELSE IF redis /\ SlotFree(p)
     THEN /\ lease' = [lease EXCEPT ![p] =
                         [u \in DOMAIN @ \cup {<<c, n>>} |-> IF u = <<c, n>> THEN LeaseTtl ELSE @[u]]]
          /\ call' = [call EXCEPT ![c].pc = "held", ![c].token = n]
     ELSE /\ call' = [call EXCEPT ![c].pc = "select", ![c].todo = Tail(@)]
          /\ UNCHANGED lease
  /\ UNCHANGED <<worldVars, breakerVars, avail, events>>

Start(c) ==
  /\ At(c, "held")
  /\ call' = [call EXCEPT ![c].pc = "calling", ![c].age = 0]
  /\ UNCHANGED <<worldVars, breakerVars, avail, lease, events>>

\* asyncio.timeout, and the timeout of the index's client.
TimedOut(c) == call[c].age = Timeout /\ works[Service(c)] \in {"slow", "hung"}

Succeed(c) ==
  /\ At(c, "calling") /\ works[Service(c)] \in {"up", "slow"}
  /\ RecordSuccess(c)
  /\ call' = [call EXCEPT ![c] = IF c \in Guarded THEN Idle
                                 ELSE [@ EXCEPT !.pc = "release", !.age = 0, !.todo = <<Service(c)>>]]
  /\ UNCHANGED <<worldVars, avail, lease, events>>

\* range(MAX_RETRIES).
RetriesLeft(c) == call[c].tries + 1 < MaxRetries

\* A provider that is down or silent is counted; the index is asked MaxRetries times.
Failing(c) ==
  /\ At(c, "calling")
  /\ works[Service(c)] = "down" \/ (TimedOut(c) /\ c \notin Guarded)
  /\ RecordFailure(c, IF c \notin Guarded THEN "release"
                      ELSE IF RetriesLeft(c) THEN "again" ELSE "idle")
  /\ UNCHANGED <<worldVars, avail, lease, events>>

Again(c) ==
  /\ At(c, "again")
  /\ call' = [call EXCEPT ![c].pc = "select", ![c].tries = @ + 1]
  /\ UNCHANGED <<worldVars, breakerVars, avail, lease, events>>

\* A rate limit is not counted.
Limited(c) ==
  /\ At(c, "calling") /\ works[Service(c)] = "limited" /\ c \notin Guarded
  /\ call' = [call EXCEPT ![c].pc = "release", ![c].age = 0]
  /\ UNCHANGED <<worldVars, breakerVars, avail, lease, events>>

\* A provider that refuses the key is forced open and not asked again by this process.
Refused(c) ==
  /\ At(c, "calling") /\ works[Service(c)] = "refusing" /\ c \notin Guarded
  /\ Save(ProcessOf(c), Service(c), Opened)
  /\ avail' = [avail EXCEPT ![ProcessOf(c)] = @ \ {Service(c)}]
  /\ call' = [call EXCEPT ![c].pc = "release", ![c].age = 0]
  /\ UNCHANGED <<worldVars, lease, events>>

\* An answer of the index that makes no sense, or none in time, is counted; it is not asked
\* again, and a caller with another way to go on (fallback_on_error) forces the circuit open.
Garbled(c) ==
  /\ \/ /\ At(c, "calling") /\ c \in Guarded
        /\ works[Service(c)] = "refusing" \/ TimedOut(c)
        /\ \E next \in {"idle", "force"} : RecordFailure(c, next)
     \/ /\ At(c, "force")
        /\ Save(ProcessOf(c), Service(c), Opened)
        /\ call' = [call EXCEPT ![c] = Idle]
  /\ UNCHANGED <<worldVars, avail, lease, events>>

\* _release_provider_slot takes the call's own lease; an error leaves it to expire.
Release(c) ==
  /\ At(c, "release")
  /\ lease' = IF redis THEN [lease EXCEPT ![Service(c)] =
                               [u \in DOMAIN @ \ {<<c, call[c].token>>} |-> @[u]]] ELSE lease
  /\ call' = [call EXCEPT ![c] = IF Len(@.todo) = 1 THEN Idle
                                 ELSE [@ EXCEPT !.pc = "select", !.todo = Tail(call[c].todo), !.token = 0]]
  /\ UNCHANGED <<worldVars, breakerVars, avail, events>>

-----------------------------------------------------------------------------
(* The world.                                                               *)

Older(s) == [s EXCEPT !.win = Min({@ + 1, Window + 1}), !.open = Min({@ + 1, Recovery})]
\* A call is started within Slack of its lease, and ends when its time is up; other steps
\* are short.
Urgent(c) == \/ call[c].pc \notin {"idle", "held", "calling"}
             \/ At(c, "calling") /\ call[c].age = Timeout
             \/ At(c, "held") /\ call[c].age + 1 = Slack
Tick ==
  /\ \A c \in Calls : ~Urgent(c)
  /\ store' = [p \in Services |-> Older(store[p])]
  /\ local' = [i \in Processes |-> [p \in Services |-> Older(local[i][p])]]
  /\ fresh' = [i \in Processes |-> [p \in Services |-> FALSE]]
  /\ off' = [i \in Processes |-> [p \in Services |-> IF off[i][p] = 0 THEN 0 ELSE off[i][p] - 1]]
  /\ lease' = [p \in Services |->
                 [t \in {u \in DOMAIN lease[p] : lease[p][u] > 1} |-> lease[p][t] - 1]]
  /\ call' = [c \in Calls |-> IF call[c].pc \in {"held", "calling"} THEN [call[c] EXCEPT !.age = @ + 1]
                            ELSE call[c]]
  /\ begun' = {}
  /\ UNCHANGED <<plan, works, redis, avail, events>>

Happens(what) == /\ events < Len(plan.then) /\ plan.then[events + 1].what = what
                 /\ events' = events + 1
Happened == plan.then[events']

Change ==
  /\ Happens("works")
  /\ works' = [works EXCEPT ![Happened.on] = Happened.to]
  /\ UNCHANGED <<plan, begun, breakerVars, avail, lease, call, redis>>

Outage ==
  /\ Happens("redis")
  /\ redis' = ~redis
  /\ UNCHANGED <<plan, begun, breakerVars, avail, lease, call, works>>

\* A process dies with its calls; its leases stay.
Crash ==
  /\ Happens("crash")
  /\ local' = [local EXCEPT ![Happened.on] = [p \in Services |-> Closed]]
  /\ fresh' = [fresh EXCEPT ![Happened.on] = [p \in Services |-> FALSE]]
  /\ off' = [off EXCEPT ![Happened.on] = [p \in Services |-> 0]]
  /\ avail' = [avail EXCEPT ![Happened.on] = Services]
  /\ call' = [c \in Calls |-> IF ProcessOf(c) = Happened.on THEN Idle ELSE call[c]]
  /\ UNCHANGED <<worldVars, store, lease>>

Step(c) ==
  /\ Free(c)
  /\ \/ Select(c) \/ Coerce(c) \/ SaveFailure(c) \/ Exhausted(c) \/ Acquire(c) \/ Start(c)
     \/ Succeed(c) \/ Failing(c) \/ Again(c) \/ Limited(c) \/ Refused(c) \/ Garbled(c) \/ Release(c)

Next == \/ \E c \in Calls : Step(c) \/ Begin(c)
        \/ Tick \/ Change \/ Outage \/ Crash

\* The event loop runs what is ready, and time passes.
Spec == Init /\ [][Next]_vars /\ WF_vars(Tick) /\ \A c \in Calls : WF_vars(Step(c))

-----------------------------------------------------------------------------
TypeOK ==
  /\ store \in [Services -> Circuit]
  /\ local \in [Processes -> [Services -> Circuit]]
  /\ off \in [Processes -> [Services -> 0 .. StoreOff]]
  /\ \A p \in Services : DOMAIN lease[p] \subseteq Tokens
  /\ \A c \in Calls : call[c].age \in 0 .. Timeout + Slack /\ call[c].buf \in Circuit
                      /\ call[c].tries < MaxRetries

\* No more calls are under way at a limited provider than the limit says, although a
\* process may die with a lease and Redis may be away when one is given back
\* ("The lease must outlive the bounded provider call, including cleanup.", llm_service.py).
Running(p) == {c \in Calls : c \notin Guarded /\ At(c, "calling") /\ Service(c) = p}
Permits == INSTANCE ProviderPermits WITH running <- [p \in Services |-> Running(p)]
SlotsHold == Permits!Spec

\* Every call ends, with a provider that never answers, without Redis and after lost
\* leases (the timeouts and the loop of LLMService.complete, _with_retries).
CallsEnd == \A c \in Calls : call[c].pc # "idle" ~> call[c].pc = "idle"

\* A circuit does not stay open: if the service that is asked first works from some time on,
\* and calls keep coming, its shared state leaves OPEN for good (_coerce_recovery_state).
First == Head(plan.order[CHOOSE c \in Calls : TRUE])
Recovers ==
  (/\ <>[](works[First] = "up" /\ redis)
   /\ []<>(\E c \in Calls : At(c, "select") /\ call[c].todo # <<>> /\ Service(c) = First))
  => <>[](store[First].st # "OPEN")
=============================================================================
