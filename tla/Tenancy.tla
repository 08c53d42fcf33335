------------------------------ MODULE Tenancy ------------------------------
(***************************************************************************)
(* One tenant: how a request gets in (auth.py, rate_limiter.py), what its  *)
(* budget admits (quality_gate.py, budget_governor.py, quota_manager.py),  *)
(* how calls are counted and the month begins (quality_gate_tasks.py,      *)
(* quota_tasks.py), and how the plan is bought and changed (billing.py,    *)
(* razorpay_webhooks.py, webhooks.py, plan_limits.py).                     *)
(*                                                                         *)
(* A request is a process; a step ends where other requests may come       *)
(* between: at a commit, a call of Redis, of the provider or of a model.   *)
(* Row locks are read off the requests that hold them.  The budget is      *)
(* counted in calls; the token limit works alike.                          *)
(***************************************************************************)
EXTENDS Naturals, Sequences, FiniteSets

CONSTANTS Keys, Queries,
          CallLimit,   \* monthly_call_limit of each plan
          UserRate,    \* rate_limit_per_user_per_minute of each plan, and of a row without one
          KeyRate,     \* rate_limit_per_minute of a key
          TenantRate,  \* TENANT_RATE_LIMIT_PER_MINUTE
          Scripts      \* where it starts, what is asked, what happens meanwhile: see Script

Plans == {"free", "starter"}
Modes == {"full", "passthrough", "blocked"}
\* tenants: the organisation's row and its plan_tier.
Tenant == [row : {"none", "active", "inactive"}, plan : Plans]
\* tenant_budgets: the limits are written together, "none" before the first time.
TenantBudget ==
  [row : BOOLEAN, plan : Plans, limits : Plans \cup {"none"}, calls : Nat, mode : Modes,
   pct : {"none", "warning", "critical"}, due : BOOLEAN]
ApiKey == [st : {"none", "active", "revoked"}, may : BOOLEAN]
\* billing_subscriptions, numbered as the provider made them; row: the insert is committed;
\* fresh: created in the last half hour.
BillingSubscription ==
  [plan : Plans \ {"free"}, status : {"created", "authenticated", "active", "cancelled"},
   row : BOOLEAN, fresh : BOOLEAN]
\* subscription.activated and .charged; .cancelled, .completed, .expired and .halted; others.
Status == [activated |-> "active", cancelled |-> "cancelled", authenticated |-> "authenticated"]
CURRENT_SUBSCRIPTION_STATUSES == {"authenticated", "active"}

Request ==
  [op : {"call"}, key : Keys, query : Queries, good : BOOLEAN, dedup : BOOLEAN]
  \cup [op : {"revoke", "create"}, key : Keys]
  \cup [op : {"org", "orgCreated", "orgDeleted", "usage", "alert", "reset"}]
  \cup [op : {"plan"}, plan : Plans] \cup [op : {"checkout"}, plan : Plans \ {"free"}]
  \cup [op : {"verify"}, sub : Nat]
  \cup [op : {"event"}, id : Nat, type : DOMAIN Status, sub : Nat, plan : Plans]
Script ==
  [tenant : Tenant, budget : TenantBudget, keys : [Keys -> ApiKey], subs : Seq(BillingSubscription),
   asked : Seq(Request),
   then : Seq({"minute", "month", "halfhour", "redis", "authEnds", "orgEnds", "quotaEnds", "queriesEnd"})]

\* A script starts where the service can be: one checkout of a plan waits to be paid, the rows of a
\* tenant have one plan, and one without a budget never bought or counted anything.  Tenants older
\* than the budgets are not asked for by an organisation's token.
StartsWell(s) ==
  /\ \A a, b \in DOMAIN s.subs :
       /\ s.subs[a].row /\ s.subs[a].fresh /\ s.subs[a].status = "created"
       /\ s.subs[b].row /\ s.subs[b].fresh /\ s.subs[b].status = "created"
       /\ s.subs[a].plan = s.subs[b].plan
       => a = b
  /\ IF s.budget.row THEN s.tenant.row # "none" /\ s.tenant.plan = s.budget.plan
     ELSE /\ s.tenant.plan = "free" /\ s.subs = <<>> /\ s.budget.calls = 0
          /\ s.tenant.row # "none" => \A r \in DOMAIN s.asked : s.asked[r].op # "org"

ASSUME TenancyAssumption ==
  /\ CallLimit \in [Plans -> Nat \ {0}] /\ UserRate \in [Plans \cup {"none"} -> Nat \ {0}]
  /\ KeyRate \in Nat \ {0} /\ TenantRate \in Nat
  /\ \A k \in DOMAIN Scripts : Scripts[k] \in Script /\ StartsWell(Scripts[k])

VARIABLES
  script, happened,
  tenant, budget, keys, subs,
  receipts,  \* billing_webhook_events
  tasks,     \* usage increments and budget alerts on the broker
  redis,     \* whether it answers, its caches and its counters of this minute
  pc, seen,  \* each request: where it is, what it read
  hist       \* history, for the properties

dbVars == <<tenant, budget, keys, subs, receipts>>
vars == <<script, happened, dbVars, tasks, redis, pc, seen, hist>>

Asked == Scripts[script].asked
Requests == DOMAIN Asked
AnyRequest == UNION {DOMAIN Scripts[k].asked : k \in DOMAIN Scripts}
At(r, p) == r \in Requests /\ pc[r] = p
Starts(r, op) == At(r, "new") /\ Asked[r].op = op
Goes(r, p) == pc' = [pc EXCEPT ![r] = p]
Nothing == [none |-> TRUE]
Keeps(r, v) == seen' = [seen EXCEPT ![r] = v]
Rest(same) == UNCHANGED <<script, same>>

Init ==
  /\ script \in DOMAIN Scripts /\ happened = 0
  /\ tenant = Scripts[script].tenant /\ budget = Scripts[script].budget
  /\ keys = Scripts[script].keys /\ subs = Scripts[script].subs
  /\ receipts = {} /\ tasks = [usage |-> 0, alert |-> 0]
  /\ redis = [up |-> TRUE, auth |-> {}, org |-> FALSE, quota |-> "none", recent |-> {},
              key |-> [k \in Keys |-> 0], tenant |-> 0, user |-> 0]
  /\ pc = [r \in Requests |-> "new"] /\ seen = [r \in Requests |-> Nothing]
  /\ hist = [counted |-> Scripts[script].budget.calls, overlap |-> FALSE, through |-> [k \in Keys |-> 0],
             blind |-> FALSE, applied |-> <<>>, adjusted |-> FALSE]

\* A write of Redis: best effort, under a deadline.
Redis(new) == redis' = redis \/ (redis.up /\ redis' = new)

\* The ORM writes the columns whose value differs from what was read, and no other.
Written(old, new) == [f \in DOMAIN new |-> IF new[f] # old[f] THEN new[f] ELSE budget[f]]

\* Mutant: the row is read without FOR UPDATE.
BudgetHeldNever == FALSE
\* create_billing_checkout holds the row of the budget (FOR UPDATE) until it ends.
BudgetHeld == \E r \in Requests : pc[r] \in {"locked", "buying", "bought"}
\* A webhook holds its subscription's row from the flush to the commit, and its receipt.
SubHeld(s) == \E r \in Requests : pc[r] = "apply" /\ Asked[r].sub = s
ReceiptHeld(id) == \E r \in Requests : pc[r] \in {"load", "apply"} /\ Asked[r].id = id

-----------------------------------------------------------------------------
(* The budget: what it admits, and the mode it puts the tenant in.          *)

Exhausted(b) == b.row /\ b.limits # "none" /\ b.calls >= CallLimit[b.limits]
Blocks(b) == b.limits = "free"
Mode(b) == IF ~Exhausted(b) THEN "full" ELSE IF Blocks(b) THEN "blocked" ELSE "passthrough"
\* remaining_pct at most 0.05, or at most the threshold of 0.8.
Level(b) ==
  IF b.limits = "none" THEN "none"
  ELSE IF 20 * b.calls >= 19 * CallLimit[b.limits] THEN "critical"
  ELSE IF 5 * b.calls >= CallLimit[b.limits] THEN "warning" ELSE "none"
\* usage_pct at least 0.8.
ShouldAlert(b) == b.row /\ b.limits # "none" /\ 5 * b.calls >= 4 * CallLimit[b.limits]

\* apply_plan_limits, and the two updates of the billing webhook.
Limited(b, p) == IF b.row THEN [b EXCEPT !.plan = p, !.limits = p] ELSE b

-----------------------------------------------------------------------------
(* An API key: the cache, else the table; then the rate limits.             *)

AuthHit(r) ==
  /\ Starts(r, "call") /\ redis.up /\ Asked[r].key \in redis.auth
  /\ Goes(r, "entered")
  /\ Rest(<<happened, dbVars, tasks, redis, seen, hist>>)

\* Mutant: revoked keys are compared too.
AcceptableAny(k) == keys[k].st # "none"
\* The keys that are compared: ApiKey.is_active.
Acceptable(k) == keys[k].st = "active"

\* The cache has no entry, or does not answer in time.
AuthLookup(r) ==
  /\ Starts(r, "call")
  /\ Goes(r, IF Acceptable(Asked[r].key) THEN "matched" ELSE "refused")
  /\ Rest(<<happened, dbVars, tasks, redis, seen, hist>>)

AuthStore(r) ==
  /\ At(r, "matched")
  /\ Redis([redis EXCEPT !.auth = @ \cup {Asked[r].key}])
  /\ Goes(r, "entered")
  /\ Rest(<<happened, dbVars, tasks, seen, hist>>)

KeyOver(n) == n > KeyRate

\* The permission, then the key's and the tenant's call of this minute; without Redis
\* there is no limit.
Limit(r) ==
  /\ At(r, "entered")
  /\ LET k == Asked[r].key
         n == redis.key[k] + 1
         limited == redis.up /\ (KeyOver(n) \/ redis.tenant + 1 > TenantRate)
     IN IF ~keys[k].may THEN Goes(r, "refused") /\ UNCHANGED <<redis, hist>>
        ELSE /\ Goes(r, IF limited THEN "refused" ELSE "gate")
             /\ redis' = IF redis.up
                         THEN [redis EXCEPT !.key[k] = n, !.tenant = IF KeyOver(n) THEN @ ELSE @ + 1]
                         ELSE redis
             /\ hist' = [hist EXCEPT !.through[k] = IF limited THEN @ ELSE @ + 1, !.blind = @ \/ ~redis.up]
  /\ Rest(<<happened, dbVars, tasks, seen>>)

Revoke(r) ==
  /\ Starts(r, "revoke")
  /\ keys' = [keys EXCEPT ![Asked[r].key].st = "revoked"]
  /\ Goes(r, "done")
  /\ Rest(<<happened, tenant, budget, subs, receipts, tasks, redis, seen, hist>>)

Create(r) ==
  /\ Starts(r, "create") /\ keys[Asked[r].key].st = "none"
  /\ keys' = [keys EXCEPT ![Asked[r].key] = [st |-> "active", may |-> TRUE]]
  /\ Goes(r, "done")
  /\ Rest(<<happened, tenant, budget, subs, receipts, tasks, redis, seen, hist>>)

-----------------------------------------------------------------------------
(* QualityGateService.check.                                                *)

\* The budget and the count of the user's minute are read once; the rate and the quality
\* are judged.
GateRead(r) ==
  /\ At(r, "gate")
  /\ LET rate == UserRate[IF budget.row THEN budget.limits ELSE "none"]
         count == IF redis.up THEN redis.user ELSE 0
     IN Goes(r, IF count >= rate \/ ~Asked[r].good THEN "answered"
                ELSE IF Asked[r].dedup THEN "compare" ELSE "govern")
  /\ Keeps(r, [budget |-> budget])
  /\ Rest(<<happened, dbVars, tasks, redis, hist>>)

\* _semantic_deduplication: the recent queries are read, the query is embedded, ...
Compare(r) ==
  /\ At(r, "compare")
  /\ IF ~redis.up THEN Goes(r, "govern") /\ UNCHANGED seen
     ELSE /\ Goes(r, "remember")
          /\ \E embedded \in BOOLEAN :
               Keeps(r, [budget |-> seen[r].budget, duplicate |-> embedded /\ Asked[r].query \in redis.recent])
  /\ Rest(<<happened, dbVars, tasks, redis, hist>>)

\* ... and it is remembered, duplicate or not.
Remember(r) ==
  /\ At(r, "remember")
  /\ Redis([redis EXCEPT !.recent = @ \cup {Asked[r].query}])
  /\ Goes(r, IF seen[r].duplicate THEN "answered" ELSE "govern")
  /\ Keeps(r, [budget |-> seen[r].budget])
  /\ Rest(<<happened, dbVars, tasks, hist>>)

\* BudgetGovernor.evaluate, on the budget that was read at the start; then the call counts.
Govern(r) ==
  /\ At(r, "govern")
  /\ LET b == seen[r].budget
         stopped == Exhausted(b) /\ Blocks(b)
     IN /\ Goes(r, IF stopped THEN "answered" ELSE "admit")
        /\ tasks' = [tasks EXCEPT !.usage = IF stopped THEN @ ELSE @ + 1,
                                  !.alert = IF ShouldAlert(b) THEN @ + 1 ELSE @]
        /\ IF stopped THEN redis' = redis ELSE Redis([redis EXCEPT !.user = @ + 1])
  /\ Keeps(r, Nothing)
  /\ Rest(<<happened, dbVars, hist>>)

-----------------------------------------------------------------------------
(* QuotaManager.get_quota_envelope: before a job is queued, and again for   *)
(* the headers of every answer (QuotaEnvelopeMiddleware).                   *)

Asking == {"admit", "queued", "answered"}
Decided(r, from, m) ==
  Goes(r, IF from # "admit" THEN "done" ELSE IF m = "full" THEN "queued" ELSE "answered")

EnvelopeHit(r) ==
  /\ r \in Requests /\ pc[r] \in Asking /\ redis.up /\ redis.quota # "none"
  /\ Decided(r, pc[r], redis.quota)
  /\ Rest(<<happened, dbVars, tasks, redis, seen, hist>>)

EnvelopeRead(r) ==
  /\ r \in Requests /\ pc[r] \in Asking /\ (redis.up => redis.quota = "none")
  /\ Keeps(r, [budget |-> budget, from |-> pc[r]]) /\ Goes(r, "computed")
  /\ Rest(<<happened, dbVars, tasks, redis, hist>>)

\* _handle_mode_transition: the row says what the tenant is told, then the tenant is told.
Notify(r) ==
  /\ At(r, "computed") /\ ~BudgetHeld
  /\ LET b == seen[r].budget
         pct == IF Level(b) = "critical" THEN "critical"
                ELSE IF Level(b) = "warning" /\ b.pct = "none" THEN "warning" ELSE b.pct
     IN budget' = IF b.row THEN Written(b, [b EXCEPT !.mode = Mode(b), !.pct = pct]) ELSE budget
  /\ Goes(r, "store")
  /\ Rest(<<happened, tenant, keys, subs, receipts, tasks, redis, seen, hist>>)

EnvelopeStore(r) ==
  /\ At(r, "store")
  /\ LET m == Mode(seen[r].budget)
     IN Redis([redis EXCEPT !.quota = m]) /\ Decided(r, seen[r].from, m)
  /\ Keeps(r, Nothing)
  /\ Rest(<<happened, dbVars, tasks, hist>>)

-----------------------------------------------------------------------------
(* Workers: a call is counted, the tenant is warned, the month begins.      *)

Counting(r) == pc[r] \in {"count", "zero"}
Overlaps(r) == hist.overlap \/ \E i \in Requests \ {r} : Counting(i)

UsageRead(r) ==
  /\ Starts(r, "usage") /\ tasks.usage > 0
  /\ tasks' = [tasks EXCEPT !.usage = @ - 1]
  /\ IF budget.row THEN Goes(r, "count") /\ Keeps(r, [budget |-> budget])
     ELSE Goes(r, "done") /\ UNCHANGED seen
  /\ hist' = [hist EXCEPT !.overlap = Overlaps(r)]
  /\ Rest(<<happened, dbVars, redis>>)

UsageWrite(r) ==
  /\ At(r, "count") /\ ~BudgetHeld
  /\ LET b == seen[r].budget IN budget' = Written(b, [b EXCEPT !.calls = @ + 1])
  /\ hist' = [hist EXCEPT !.counted = @ + 1]
  /\ Goes(r, "done") /\ Keeps(r, Nothing)
  /\ Rest(<<happened, tenant, keys, subs, receipts, tasks, redis>>)

AlertRead(r) ==
  /\ Starts(r, "alert") /\ tasks.alert > 0
  /\ tasks' = [tasks EXCEPT !.alert = @ - 1]
  /\ IF budget.row /\ budget.pct = "none" THEN Goes(r, "warn") /\ Keeps(r, [budget |-> budget])
     ELSE Goes(r, "done") /\ UNCHANGED seen
  /\ Rest(<<happened, dbVars, redis, hist>>)

AlertWrite(r) ==
  /\ At(r, "warn") /\ ~BudgetHeld
  /\ LET b == seen[r].budget IN budget' = Written(b, [b EXCEPT !.pct = "warning"])
  /\ Goes(r, "done") /\ Keeps(r, Nothing)
  /\ Rest(<<happened, tenant, keys, subs, receipts, tasks, redis, hist>>)

\* monthly_quota_reset_task.
ResetRead(r) ==
  /\ Starts(r, "reset") /\ budget.row /\ budget.due
  /\ Goes(r, "zero") /\ Keeps(r, [budget |-> budget])
  /\ hist' = [hist EXCEPT !.overlap = Overlaps(r)]
  /\ Rest(<<happened, dbVars, tasks, redis>>)

MonthBegun(b) == [b EXCEPT !.calls = 0, !.mode = "full", !.pct = "none", !.due = FALSE]

ResetWrite(r) ==
  /\ At(r, "zero") /\ ~BudgetHeld
  /\ LET b == seen[r].budget IN budget' = Written(b, MonthBegun(b))
  /\ hist' = [hist EXCEPT !.counted = 0]
  /\ Goes(r, "done") /\ Keeps(r, Nothing)
  /\ Rest(<<happened, tenant, keys, subs, receipts, tasks, redis>>)

-----------------------------------------------------------------------------
(* The organisation: by token (_resolve_tenant_id_from_clerk_org) and by    *)
(* Clerk's webhooks; the operator's change of plan.                         *)

\* The insert of one request keeps the others' waiting on the unique clerk_org_id.
OrgHeld == \E r \in Requests : pc[r] = "creating"

OrgHit(r) ==
  /\ Starts(r, "org") /\ redis.up /\ redis.org
  /\ Goes(r, "answered")
  /\ Rest(<<happened, dbVars, tasks, redis, seen, hist>>)

Known == tenant.row = "active"

OrgLookup(r) ==
  /\ Starts(r, "org") /\ (redis.up => ~redis.org)
  /\ Goes(r, IF Known THEN "found" ELSE "insert")
  /\ Rest(<<happened, dbVars, tasks, redis, seen, hist>>)

\* ON CONFLICT DO NOTHING: who comes second, or meets a deactivated tenant, is refused.
OrgInsert(r) ==
  /\ At(r, "insert") /\ ~OrgHeld
  /\ Goes(r, IF tenant.row = "none" THEN "creating" ELSE "refused")
  /\ Rest(<<happened, dbVars, tasks, redis, seen, hist>>)

NewBudget == [row |-> TRUE, plan |-> "free", limits |-> "none", calls |-> 0, mode |-> "full",
              pct |-> "none", due |-> FALSE]
OrgCreate(r) ==
  /\ At(r, "creating")
  /\ tenant' = [row |-> "active", plan |-> "free"] /\ budget' = Limited(NewBudget, "free")
  /\ Goes(r, "found")
  /\ Rest(<<happened, keys, subs, receipts, tasks, redis, seen, hist>>)

OrgStore(r) ==
  /\ At(r, "found")
  /\ Redis([redis EXCEPT !.org = TRUE])
  /\ Goes(r, "answered")
  /\ Rest(<<happened, dbVars, tasks, seen, hist>>)

\* Mutant: the budget is left to the first who needs it.
EnsuredNone == budget
\* _ensure_budget_row.
Ensured == IF budget.row THEN budget ELSE NewBudget

\* _handle_organization_created: the tenant and its budget, ...
OrgCreated(r) ==
  /\ Starts(r, "orgCreated") /\ ~OrgHeld
  /\ tenant' = IF tenant.row = "none" THEN [row |-> "active", plan |-> "free"] ELSE tenant
  /\ budget' = Ensured
  /\ Goes(r, "limits")
  /\ Rest(<<happened, keys, subs, receipts, tasks, redis, seen, hist>>)

\* ... and the limits of the free plan, whatever the plan is by now.
OrgLimits(r) ==
  /\ At(r, "limits") /\ ~BudgetHeld
  /\ budget' = [Limited(budget, "free") EXCEPT !.due = FALSE]
  /\ hist' = [hist EXCEPT !.adjusted = @ \/ tenant.plan # "free"]
  /\ Goes(r, "invalidate")
  /\ Rest(<<happened, tenant, keys, subs, receipts, tasks, redis, seen>>)

OrgDeleted(r) ==
  /\ Starts(r, "orgDeleted")
  /\ tenant' = IF tenant.row = "none" THEN tenant ELSE [tenant EXCEPT !.row = "inactive"]
  /\ Goes(r, "done")
  /\ Rest(<<happened, budget, keys, subs, receipts, tasks, redis, seen, hist>>)

\* update_tenant_plan: the budget's plan, not the tenant's.
ChangePlan(r) ==
  /\ Starts(r, "plan") /\ (budget.row => ~BudgetHeld)
  /\ budget' = IF budget.row THEN [Limited(budget, Asked[r].plan) EXCEPT !.due = FALSE] ELSE budget
  /\ hist' = [hist EXCEPT !.adjusted = TRUE]
  /\ Goes(r, IF budget.row THEN "invalidate" ELSE "refused")
  /\ Rest(<<happened, tenant, keys, subs, receipts, tasks, redis, seen>>)

\* invalidate_plan_cache.
Invalidate(r) ==
  /\ At(r, "invalidate")
  /\ Redis([redis EXCEPT !.quota = "none"])
  /\ Goes(r, "done")
  /\ Rest(<<happened, dbVars, tasks, seen, hist>>)

-----------------------------------------------------------------------------
(* Billing: a checkout, its verification, and the provider's webhooks.      *)

Rows == {s \in DOMAIN subs : subs[s].row}
Open(s) == subs[s].status \in CURRENT_SUBSCRIPTION_STATUSES
Reusable(p) == {s \in Rows : subs[s].plan = p /\ subs[s].status = "created" /\ subs[s].fresh}

CheckoutLock(r) ==
  /\ Starts(r, "checkout") /\ ~BudgetHeld
  /\ Goes(r, IF budget.row THEN "locked" ELSE "refused")
  /\ Rest(<<happened, dbVars, tasks, redis, seen, hist>>)

CheckoutDecide(r) ==
  /\ At(r, "locked")
  /\ Goes(r, IF \E s \in Rows : Open(s) THEN "refused"
             ELSE IF Reusable(Asked[r].plan) # {} THEN "done" ELSE "buying")
  /\ Rest(<<happened, dbVars, tasks, redis, seen, hist>>)

\* create_subscription at the provider, or its failure.
Buy(r) ==
  /\ At(r, "buying")
  /\ \/ /\ subs' = Append(subs, [plan |-> Asked[r].plan, status |-> "created", row |-> FALSE, fresh |-> TRUE])
        /\ Keeps(r, [sub |-> Len(subs) + 1]) /\ Goes(r, "bought")
     \/ Goes(r, "refused") /\ UNCHANGED <<subs, seen>>
  /\ Rest(<<happened, tenant, budget, keys, receipts, tasks, redis, hist>>)

\* The row is committed; or the process ends and the provider's subscription has none.
CheckoutCommit(r) ==
  /\ At(r, "bought")
  /\ \/ subs' = [subs EXCEPT ![seen[r].sub].row = TRUE]
     \/ subs' = subs
  /\ Goes(r, "done") /\ Keeps(r, Nothing)
  /\ Rest(<<happened, tenant, budget, keys, receipts, tasks, redis, hist>>)

VerifyRead(r) ==
  /\ Starts(r, "verify") /\ Asked[r].sub \in DOMAIN subs
  /\ Goes(r, IF Asked[r].sub \notin Rows THEN "refused"
             ELSE IF subs[Asked[r].sub].status = "created" THEN "sign" ELSE "done")
  /\ Rest(<<happened, dbVars, tasks, redis, seen, hist>>)

VerifyWrite(r) ==
  /\ At(r, "sign") /\ ~SubHeld(Asked[r].sub)
  /\ subs' = [subs EXCEPT ![Asked[r].sub].status = "authenticated"]
  /\ Goes(r, "done")
  /\ Rest(<<happened, tenant, budget, keys, receipts, tasks, redis, seen, hist>>)

\* receive_razorpay_webhook: the receipt is looked for, ...
Receive(r) ==
  /\ Starts(r, "event") /\ Asked[r].sub \in DOMAIN subs
  /\ Goes(r, IF Asked[r].id \in receipts THEN "done" ELSE "receipt")
  /\ Rest(<<happened, dbVars, tasks, redis, seen, hist>>)

Received(id) == id \in receipts
\* ... and inserted: its primary key keeps a second delivery waiting, then ends it.
Receipt(r) ==
  /\ At(r, "receipt") /\ ~ReceiptHeld(Asked[r].id)
  /\ Goes(r, IF Received(Asked[r].id) THEN "done" ELSE "load")
  /\ Rest(<<happened, dbVars, tasks, redis, seen, hist>>)

\* "A delayed event for an older subscription must not overwrite limits from a newer active
\* one": looked up before the commit.
Newer(s) == \E t \in Rows : t > s /\ Open(t)
\* No row yet, or another plan: rolled back with the receipt, for the provider to try again.
Load(r) ==
  /\ At(r, "load")
  /\ LET s == Asked[r].sub
     IN IF s \notin Rows \/ subs[s].plan # Asked[r].plan
        THEN Goes(r, "new") /\ UNCHANGED seen
        ELSE ~SubHeld(s) /\ Goes(r, "apply") /\ Keeps(r, [newer |-> Newer(s)])
  /\ Rest(<<happened, dbVars, tasks, redis, hist>>)

\* The plan the tenant row gets.
Granted(type, p) == IF type = "cancelled" THEN "free" ELSE p

Times(id) == IF id \in DOMAIN hist.applied THEN hist.applied[id] ELSE 0
\* The status, the limits, the plan and the receipt are one transaction.
Apply(r) ==
  /\ At(r, "apply")
  /\ LET a == Asked[r]
         plan == IF a.type = "cancelled" THEN "free" ELSE a.plan
         grants == a.type # "authenticated" /\ ~seen[r].newer
     IN /\ grants => ~BudgetHeld
        /\ subs' = [subs EXCEPT ![a.sub].status = Status[a.type]]
        /\ budget' = IF grants THEN Limited(budget, plan) ELSE budget
        /\ tenant' = IF grants THEN [tenant EXCEPT !.plan = Granted(a.type, plan)] ELSE tenant
        /\ receipts' = receipts \cup {a.id}
        /\ hist' = [hist EXCEPT !.applied = [i \in DOMAIN @ \cup {a.id} |-> IF i = a.id THEN Times(i) + 1 ELSE @[i]]]
        /\ Goes(r, IF a.type = "authenticated" THEN "done" ELSE "invalidate")
  /\ Keeps(r, Nothing)
  /\ Rest(<<happened, keys, tasks, redis>>)

-----------------------------------------------------------------------------
(* What happens meanwhile.                                                  *)

Now == Scripts[script].then[happened + 1]
Happens(what) == happened < Len(Scripts[script].then) /\ Now = what /\ happened' = happened + 1

Minute ==
  /\ Happens("minute")
  /\ redis' = [redis EXCEPT !.key = [k \in Keys |-> 0], !.tenant = 0, !.user = 0]
  /\ hist' = [hist EXCEPT !.through = [k \in Keys |-> 0], !.blind = FALSE]
  /\ Rest(<<dbVars, tasks, pc, seen>>)
Month ==
  /\ Happens("month")
  /\ budget' = [budget EXCEPT !.due = budget.limits # "none"]
  /\ Rest(<<tenant, keys, subs, receipts, tasks, redis, pc, seen, hist>>)
HalfHour ==
  /\ Happens("halfhour")
  /\ subs' = [s \in DOMAIN subs |-> [subs[s] EXCEPT !.fresh = FALSE]]
  /\ Rest(<<tenant, budget, keys, receipts, tasks, redis, pc, seen, hist>>)
\* Redis goes or comes back; an entry reaches the end of its life.
Changes ==
  \/ Happens("redis") /\ redis' = [redis EXCEPT !.up = ~@]
  \/ Happens("authEnds") /\ redis' = [redis EXCEPT !.auth = {}]
  \/ Happens("orgEnds") /\ redis' = [redis EXCEPT !.org = FALSE]
  \/ Happens("quotaEnds") /\ redis' = [redis EXCEPT !.quota = "none"]
  \/ Happens("queriesEnd") /\ redis' = [redis EXCEPT !.recent = {}]
Expire == Changes /\ Rest(<<dbVars, tasks, pc, seen, hist>>)

Entering == \E r \in AnyRequest :
  \/ AuthHit(r) \/ AuthLookup(r) \/ AuthStore(r) \/ Limit(r) \/ Revoke(r) \/ Create(r)
  \/ OrgHit(r) \/ OrgLookup(r) \/ OrgInsert(r) \/ OrgCreate(r) \/ OrgStore(r)
  \/ OrgCreated(r) \/ OrgLimits(r) \/ OrgDeleted(r)
Spending == \E r \in AnyRequest :
  \/ GateRead(r) \/ Compare(r) \/ Remember(r) \/ Govern(r)
  \/ EnvelopeHit(r) \/ EnvelopeRead(r) \/ Notify(r) \/ EnvelopeStore(r)
  \/ UsageRead(r) \/ UsageWrite(r) \/ AlertRead(r) \/ AlertWrite(r) \/ ResetRead(r) \/ ResetWrite(r)
Buying == \E r \in AnyRequest :
  \/ ChangePlan(r) \/ Invalidate(r) \/ CheckoutLock(r) \/ CheckoutDecide(r) \/ Buy(r) \/ CheckoutCommit(r)
  \/ VerifyRead(r) \/ VerifyWrite(r) \/ Receive(r) \/ Receipt(r) \/ Load(r) \/ Apply(r)
Next == Entering \/ Spending \/ Buying \/ Minute \/ Month \/ HalfHour \/ Expire

Spec == Init /\ [][Next]_vars

-----------------------------------------------------------------------------
(* Properties.                                                              *)

TypeOK ==
  /\ tenant \in Tenant /\ budget \in TenantBudget /\ keys \in [Keys -> ApiKey]
  /\ subs \in Seq(BillingSubscription) /\ receipts \subseteq Nat
  /\ redis.auth \subseteq Keys /\ redis.quota \in Modes \cup {"none"}

\* revoke_api_key and the deletion of an organisation do not touch the caches of auth.py.
\* Once their entry is gone and no lookup of before is under way, nothing brings the entry
\* back and nobody enters: the delay is the life of one entry, not of a chain of them.
DeadKey(k) ==
  /\ keys[k].st = "revoked" /\ k \notin redis.auth
  /\ \A r \in Requests : Asked[r].op = "call" /\ Asked[r].key = k => pc[r] # "matched"
DeadOrg == tenant.row = "inactive" /\ ~redis.org /\ \A r \in Requests : Asked[r].op = "org" => pc[r] # "found"
StaysOut ==
  [][/\ \A k \in Keys : DeadKey(k) =>
          DeadKey(k)' /\ \A r \in Requests : Starts(r, "call") /\ Asked[r].key = k => pc'[r] # "entered"
     /\ DeadOrg => DeadOrg' /\ \A r \in Requests : Starts(r, "org") => pc'[r] # "answered"]_vars

\* Whoever is let in for an organisation finds its tenant and a budget that can be charged,
\* whichever of the token and the webhook provisioned it.
Provisioned ==
  \A r \in Requests : Asked[r].op = "org" /\ pc[r] \in {"found", "answered"} => tenant.row # "none" /\ budget.row

\* However calls of a key overlap, no more than its limit get through in a minute in
\* which Redis answered (RATE_LIMIT_INCREMENT_SCRIPT).
KeyRateHolds == hist.blind \/ \A k \in Keys : hist.through[k] <= KeyRate

\* The month's count is exact whatever is written to the budget beside it (modes, alerts,
\* limits, checkouts), as long as no two tasks that change the count overlap.
CountExact == hist.overlap \/ ~budget.row \/ budget.calls = hist.counted

\* "simultaneous browser tabs can each create a Razorpay subscription": with the lock, one
\* of a plan waits to be paid.
OneCheckout == \A p \in Plans : Cardinality(Reusable(p)) <= 1

\* A webhook is applied once however often it is delivered, and one that is answered with
\* success and not applied was applied before: a refused one leaves no receipt.
EventOnce ==
  /\ \A id \in DOMAIN hist.applied : hist.applied[id] = 1
  /\ receipts = DOMAIN hist.applied

\* The tenant's and the budget's plan are changed together by billing; they differ only
\* after the operator or a late organization.created has set the budget's alone.
PlanAgrees == hist.adjusted \/ ~budget.row \/ tenant.plan = budget.plan

\* Who is let in is provisioned, within the key's limit and counted (auth.py,
\* rate_limiter.py, quality_gate_tasks.py).
Admission == Provisioned /\ KeyRateHolds /\ CountExact

\* However tabs, deliveries and changes overlap there is one checkout of a plan, a webhook
\* counts once and both rows have one plan (billing.py, razorpay_webhooks.py).
BillingOnce == OneCheckout /\ EventOnce /\ PlanAgrees

=============================================================================
