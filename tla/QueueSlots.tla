------------------------------ MODULE QueueSlots ------------------------------
(***************************************************************************)
(* Admission control of the extraction queues (api/tasks/queue_router.py). *)
(*                                                                         *)
(* A write is admitted by reserving a slot of the tenant in the queue of   *)
(* its plan.  Redis keeps three structures per queue: a counter per tenant *)
(* (depth), the sorted set of reservations (jobs) and a hash with a count  *)
(* per tenant (breakdown).  One Lua script reserves, one releases; both    *)
(* are atomic.  The keys carry a TTL which every reservation renews: the   *)
(* counter belongs to one tenant, the other two keys are shared by all the *)
(* tenants of the queue, so a counter can expire while the set lives on.   *)
(*                                                                         *)
(* The plan of a tenant is read through a Redis cache: a handler that      *)
(* misses reads the database and fills the cache in two steps, and a plan  *)
(* change commits and then invalidates the cache in two steps.             *)
(***************************************************************************)
EXTENDS Naturals, FiniteSets

CONSTANTS Tenants,            \* tenant ids
          JobIds,             \* extraction job ids
          Owner,              \* [JobIds -> Tenants]
          Handlers,           \* API requests and watchdog cycles under way
          Plans,              \* PlanTier
          Queues,             \* extraction queues
          PLAN_QUEUE_MAP,     \* [Plans -> Queues]
          PLAN_QUEUE_LIMITS,  \* [Plans -> positive numbers]
          Changers,           \* bound: the tenants whose plan changes
          NoTenant, NoPlan, NoQueue

ASSUME QueueAssumption ==
  /\ Owner \in [JobIds -> Tenants]
  /\ PLAN_QUEUE_MAP \in [Plans -> Queues]
  /\ PLAN_QUEUE_LIMITS \in [Plans -> Nat \ {0}]
  /\ \A p, r \in Plans : PLAN_QUEUE_MAP[p] = PLAN_QUEUE_MAP[r] => p = r
  /\ NoTenant \notin Tenants
  /\ NoPlan \notin Plans
  /\ NoQueue \notin Queues

ASSUME FiniteAssumption == IsFiniteSet(Tenants) /\ IsFiniteSet(JobIds)

VARIABLES
  plan,          \* TenantBudget.plan_tier of a tenant (PostgreSQL)
  planCache,     \* tenant:<id>:plan in Redis, or NoPlan
  changing,      \* tenants whose plan change is committed, not yet invalidated
  depth,         \* depth[q][t]: tenant_queue_depth:<t>:<q>, 0 when absent
  jobs,          \* jobs[q]: the members <<t, j>> of queue_depth:<q>:jobs
  breakdown,     \* breakdown[q][t]: queue_depth:<q>:tenant_breakdown
  lastReserver,  \* lastReserver[q]: the tenant that last renewed q's shared keys
  queueName,     \* queueName[<<t, j>>]: queue_name in the job's messages
  call           \* call[h]: the handler's operation, job and plan read so far

planVars == <<plan, planCache, changing>>
slotVars == <<depth, jobs, breakdown, lastReserver>>
queueVars == <<plan, planCache, changing, depth, jobs, breakdown, lastReserver,
               queueName, call>>

Members == {m \in Tenants \X JobIds : Owner[m[2]] = m[1]}

\* What a handler is doing: resolving the plan ("fill": the cache missed and
\* the database was read) or holding it, to reserve a slot or to requeue a job.
Calls == [op : {"reserve", "requeue"}, pc : {"fill", "planned"},
          member : Members, plan : Plans]
NoCall == [op |-> "none"]

\* The reservations of tenant t in queue q.
Held(q, t) == {m \in jobs[q] : m[1] = t}

QueueTypeOK ==
  /\ plan \in [Tenants -> Plans]
  /\ planCache \in [Tenants -> Plans \union {NoPlan}]
  /\ changing \in SUBSET Tenants
  /\ depth \in [Queues -> [Tenants -> Nat]]
  /\ jobs \in [Queues -> SUBSET Members]
  /\ breakdown \in [Queues -> [Tenants -> Nat]]
  /\ lastReserver \in [Queues -> Tenants \union {NoTenant}]
  /\ queueName \in [Members -> Queues \union {NoQueue}]
  /\ call \in [Handlers -> Calls \union {NoCall}]

QueueInit ==
  /\ plan \in [Tenants -> Plans]
  /\ planCache = [t \in Tenants |-> NoPlan]
  /\ changing = {}
  /\ depth = [q \in Queues |-> [t \in Tenants |-> 0]]
  /\ jobs = [q \in Queues |-> {}]
  /\ breakdown = [q \in Queues |-> [t \in Tenants |-> 0]]
  /\ lastReserver = [q \in Queues |-> NoTenant]
  /\ queueName = [m \in Members |-> NoQueue]
  /\ call = [h \in Handlers |-> NoCall]

-----------------------------------------------------------------------------
(* Plans.                                                                  *)

\* apply_plan_limits: the change is committed to the database ...
ApplyPlanLimits(t, p) ==
  /\ plan[t] # p
  /\ plan' = [plan EXCEPT ![t] = p]
  /\ changing' = changing \union {t}
  /\ UNCHANGED <<planCache, slotVars, queueName, call>>

\* ... then invalidate_plan_cache deletes the cached plan, on a best effort:
\* a Redis error is swallowed.
InvalidatePlanCache(t) ==
  /\ t \in changing
  /\ changing' = changing \ {t}
  /\ \/ planCache' = [planCache EXCEPT ![t] = NoPlan]
     \/ UNCHANGED planCache
  /\ UNCHANGED <<plan, slotVars, queueName, call>>

\* Mutant: the cached plan is written without a TTL.
ExpirePlanCacheNever(t) == FALSE /\ UNCHANGED <<queueVars, t>>

\* PLAN_CACHE_TTL_SECONDS pass.
ExpirePlanCache(t) ==
  /\ planCache[t] # NoPlan
  /\ planCache' = [planCache EXCEPT ![t] = NoPlan]
  /\ UNCHANGED <<plan, changing, slotVars, queueName, call>>

\* _get_plan_tier and get_extraction_queue_sync begin: a cached plan is used
\* as it is; on a miss or a Redis error the database is read.
GetPlanTier(h, op, m) ==
  /\ call[h] = NoCall
  /\ \/ /\ planCache[m[1]] # NoPlan
        /\ call' = [call EXCEPT ![h] = [op |-> op, pc |-> "planned",
                                        member |-> m, plan |-> planCache[m[1]]]]
     \/ call' = [call EXCEPT ![h] = [op |-> op, pc |-> "fill",
                                     member |-> m, plan |-> plan[m[1]]]]
  /\ UNCHANGED <<planVars, slotVars, queueName>>

\* ... and end: the plan read is written to the cache, or the write fails.
FillPlanCache(h) ==
  /\ call[h] # NoCall
  /\ call[h].pc = "fill"
  /\ call' = [call EXCEPT ![h].pc = "planned"]
  /\ \/ planCache' = [planCache EXCEPT ![call[h].member[1]] = call[h].plan]
     \/ UNCHANGED planCache
  /\ UNCHANGED <<plan, changing, slotVars, queueName>>

Planned(h, op) == call[h] # NoCall /\ call[h].op = op /\ call[h].pc = "planned"

-----------------------------------------------------------------------------
(* The two Lua scripts.                                                    *)

\* Mutant: the limit test is off by one (> instead of >=).
ReserveScriptOffByOne(p, m) ==
  LET q == PLAN_QUEUE_MAP[p]
      t == m[1]
  IN
  /\ m \notin jobs[q]
  /\ depth[q][t] <= PLAN_QUEUE_LIMITS[p]
  /\ depth' = [depth EXCEPT ![q][t] = @ + 1]
  /\ jobs' = [jobs EXCEPT ![q] = @ \union {m}]
  /\ breakdown' = [breakdown EXCEPT ![q][t] = @ + 1]
  /\ lastReserver' = [lastReserver EXCEPT ![q] = t]

\* RESERVE_EXTRACTION_SLOT_SCRIPT, the branch that adds the member.
ReserveScript(p, m) ==
  LET q == PLAN_QUEUE_MAP[p]
      t == m[1]
  IN
  /\ m \notin jobs[q]
  /\ depth[q][t] < PLAN_QUEUE_LIMITS[p]
  /\ depth' = [depth EXCEPT ![q][t] = @ + 1]
  /\ jobs' = [jobs EXCEPT ![q] = @ \union {m}]
  /\ breakdown' = [breakdown EXCEPT ![q][t] = @ + 1]
  /\ lastReserver' = [lastReserver EXCEPT ![q] = t]

\* DECR or HINCRBY -1, then DEL or HDEL when the result is not positive.
Decrement(n) == IF n <= 1 THEN 0 ELSE n - 1

\* Mutant: the result of ZREM is ignored, a second release counts again.
ReleaseScriptNoCheck(q, m) ==
  /\ jobs' = [jobs EXCEPT ![q] = @ \ {m}]
  /\ depth' = [depth EXCEPT ![q][m[1]] = Decrement(@)]
  /\ breakdown' = [breakdown EXCEPT ![q][m[1]] = Decrement(@)]
  /\ UNCHANGED lastReserver

\* Mutant: the tenant's counter is not decremented.
ReleaseScriptKeepsDepth(q, m) ==
  IF m \in jobs[q]
  THEN /\ jobs' = [jobs EXCEPT ![q] = @ \ {m}]
       /\ breakdown' = [breakdown EXCEPT ![q][m[1]] = Decrement(@)]
       /\ UNCHANGED <<depth, lastReserver>>
  ELSE UNCHANGED slotVars

\* RELEASE_EXTRACTION_SLOT_SCRIPT: nothing unless ZREM removed the member.
ReleaseScript(q, m) ==
  LET t == m[1] IN
  IF m \in jobs[q]
  THEN /\ jobs' = [jobs EXCEPT ![q] = @ \ {m}]
       /\ depth' = [depth EXCEPT ![q][t] = Decrement(@)]
       /\ breakdown' = [breakdown EXCEPT ![q][t] = Decrement(@)]
       /\ UNCHANGED lastReserver
  ELSE UNCHANGED slotVars

-----------------------------------------------------------------------------
(* QueueRouter and the callers that carry a queue name.                    *)

\* reserve_extraction_slot starts for a job that was never admitted.
BeginReserve(h, m) ==
  /\ queueName[m] = NoQueue
  /\ GetPlanTier(h, "reserve", m)

\* It returns a reservation: the script added the member, or it was there
\* already (result 2).
ReserveExtractionSlot(h) ==
  LET p == call[h].plan
      m == call[h].member
  IN
  /\ Planned(h, "reserve")
  /\ \/ ReserveScript(p, m)
     \/ m \in jobs[PLAN_QUEUE_MAP[p]] /\ UNCHANGED slotVars
  /\ queueName' = [queueName EXCEPT ![m] = PLAN_QUEUE_MAP[p]]
  /\ call' = [call EXCEPT ![h] = NoCall]
  /\ UNCHANGED planVars

\* It returns None because the tenant's queue is full ...
QueueFull(h) ==
  LET p == call[h].plan
      m == call[h].member
      q == PLAN_QUEUE_MAP[p]
  IN
  /\ Planned(h, "reserve")
  /\ m \notin jobs[q]
  /\ depth[q][m[1]] >= PLAN_QUEUE_LIMITS[p]
  /\ call' = [call EXCEPT ![h] = NoCall]
  /\ UNCHANGED <<planVars, slotVars, queueName>>

\* ... or because Redis failed: before the script ran, or after it ran and
\* its answer was lost, in which case nobody will release the slot.
ReserveError(h) ==
  /\ Planned(h, "reserve")
  /\ \/ ReserveScript(call[h].plan, call[h].member)
     \/ UNCHANGED slotVars
  /\ call' = [call EXCEPT ![h] = NoCall]
  /\ UNCHANGED <<planVars, queueName>>

\* The watchdog requeues a stale job: its new message carries the queue of
\* the plan the tenant has by now (get_extraction_queue_sync).
BeginRequeue(h, m) ==
  /\ queueName[m] # NoQueue
  /\ GetPlanTier(h, "requeue", m)

RequeueJob(h) ==
  /\ Planned(h, "requeue")
  /\ queueName' = [queueName EXCEPT ![call[h].member] =
                      PLAN_QUEUE_MAP[call[h].plan]]
  /\ call' = [call EXCEPT ![h] = NoCall]
  /\ UNCHANGED <<planVars, slotVars>>

\* release_extraction_slot(_sync): with the queue name of the message; a
\* delivery may release more than once, and a Redis error is swallowed.
ReleaseExtractionSlot(m) ==
  /\ queueName[m] # NoQueue
  /\ ReleaseScript(queueName[m], m)
  /\ UNCHANGED <<planVars, queueName, call>>

-----------------------------------------------------------------------------
(* Key expiry (QUEUE_RESERVATION_TTL_SECONDS).                             *)

\* The counter of a tenant whose last reservation is older than another's.
ExpireDepth(q, t) ==
  /\ depth[q][t] > 0
  /\ lastReserver[q] # t
  /\ depth' = [depth EXCEPT ![q][t] = 0]
  /\ UNCHANGED <<planVars, jobs, breakdown, lastReserver, queueName, call>>

\* The shared keys, and by then every counter of the queue.
ExpireQueue(q) ==
  /\ jobs[q] # {}
  /\ depth' = [depth EXCEPT ![q] = [t \in Tenants |-> 0]]
  /\ jobs' = [jobs EXCEPT ![q] = {}]
  /\ breakdown' = [breakdown EXCEPT ![q] = [t \in Tenants |-> 0]]
  /\ lastReserver' = [lastReserver EXCEPT ![q] = NoTenant]
  /\ UNCHANGED <<planVars, queueName, call>>

QueueNext ==
  \/ \E h \in Handlers, m \in Members : BeginReserve(h, m) \/ BeginRequeue(h, m)
  \/ \E h \in Handlers :
       \/ FillPlanCache(h)
       \/ ReserveExtractionSlot(h)
       \/ QueueFull(h)
       \/ ReserveError(h)
       \/ RequeueJob(h)
  \/ \E m \in Members : ReleaseExtractionSlot(m)
  \/ \E t \in Tenants \cap Changers, p \in Plans : ApplyPlanLimits(t, p)
  \/ \E t \in Tenants : InvalidatePlanCache(t) \/ ExpirePlanCache(t)
  \/ \E q \in Queues, t \in Tenants : ExpireDepth(q, t)
  \/ \E q \in Queues : ExpireQueue(q)

QueueSpec == QueueInit /\ [][QueueNext]_queueVars

\* Handlers run to completion and Redis expires a cached plan: nothing else
\* is assumed to happen.
QueueFairness ==
  /\ \A h \in Handlers :
       /\ WF_queueVars(FillPlanCache(h))
       /\ WF_queueVars(ReserveExtractionSlot(h) \/ QueueFull(h) \/ ReserveError(h))
       /\ WF_queueVars(RequeueJob(h))
  /\ \A t \in Tenants : WF_queueVars(ExpirePlanCache(t))

QueueFairSpec == QueueSpec /\ QueueFairness

-----------------------------------------------------------------------------
(* Properties.                                                             *)

\* The counter that decides admission never exceeds the reservations the
\* tenant really holds: whatever expires, is released twice or is released
\* under another plan's queue name, a tenant that holds fewer reservations
\* than its limit is never answered queue_full by the script.
CounterNeverOvercounts ==
  \A q \in Queues, t \in Tenants : depth[q][t] <= Cardinality(Held(q, t))

\* The per-tenant hash shown by inspect_all_queues agrees exactly with the
\* sorted set, although the two are separate keys, decremented with a floor,
\* expired and released more than once.
BreakdownMatchesJobs ==
  \A q \in Queues, t \in Tenants : breakdown[q][t] = Cardinality(Held(q, t))

\* The admission counter of a tenant stays within the limit of the plan whose
\* queue it counts, although the plan used for the decision may be stale.
DepthWithinLimit ==
  \A p \in Plans, t \in Tenants :
    depth[PLAN_QUEUE_MAP[p]][t] <= PLAN_QUEUE_LIMITS[p]

\* A handler that read the old plan may fill the cache after the change was
\* committed and the cache invalidated.  Once the plan of a tenant changes no
\* more, such stale fills run out and the cached plan is the stored one.
PlanCacheConverges ==
  \A t \in Tenants :
    <>[][UNCHANGED plan[t]]_plan => <>[](planCache[t] \in {NoPlan, plan[t]})
=============================================================================
