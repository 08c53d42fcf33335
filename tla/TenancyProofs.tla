--------------------------- MODULE TenancyProofs ---------------------------
(***************************************************************************)
(* What holds of a tenant for every script: every set of requests, workers *)
(* and webhooks, in every order, from every state the service can be in;   *)
(* and what holds of a Passport for every scenario of its owner's, agents' *)
(* and workers' requests.                                                  *)
(***************************************************************************)
EXTENDS Tenancy, Passport, FiniteSetTheorems, TLAPS

-----------------------------------------------------------------------------
(* The inductive invariant.                                                 *)

Holding == {"locked", "buying", "bought"}
Budgeted == {"compare", "remember", "govern", "computed", "store", "count", "warn", "zero"}
RedisState == [up : BOOLEAN, auth : SUBSET Keys, org : BOOLEAN, quota : Modes \cup {"none"},
               recent : SUBSET Queries, key : [Keys -> Nat], tenant : Nat, user : Nat]
History == [counted : Nat, overlap : BOOLEAN, through : [Keys -> Nat], blind : BOOLEAN,
            applied : UNION {[S -> Nat] : S \in SUBSET Nat}, adjusted : BOOLEAN]

RowTypes == tenant \in Tenant /\ budget \in TenantBudget /\ keys \in [Keys -> ApiKey]
SubTypes == subs \in Seq(BillingSubscription) /\ receipts \in SUBSET Nat
OtherTypes == redis \in RedisState /\ hist \in History
ProcessTypes == /\ script \in DOMAIN Scripts /\ pc = [r \in Requests |-> pc[r]]
                /\ seen = [r \in Requests |-> seen[r]]
                /\ \A r \in Requests : pc[r] \in Budgeted => seen[r].budget \in TenantBudget
Types == RowTypes /\ SubTypes /\ OtherTypes /\ ProcessTypes

\* Which kind of request is where.
Places ==
  \A r \in Requests :
    /\ pc[r] \in {"matched", "entered", "gate", "compare", "remember"} => Asked[r].op = "call"
    /\ pc[r] \in {"insert", "creating", "found"} => Asked[r].op = "org"
    /\ pc[r] \in {"receipt", "load", "apply"} => Asked[r].op = "event"
    /\ pc[r] \in Holding => Asked[r].op = "checkout"

\* The rows of a tenant appear together, by one insert at a time, and who works on a row has one.
RowsAppear ==
  /\ \A r \in Requests : pc[r] = "creating" => tenant.row = "none"
  /\ \A r, s \in Requests : pc[r] = "creating" /\ pc[s] = "creating" => r = s
  /\ tenant.row = "none" => ~budget.row
  /\ ~budget.row => tenant.plan = "free" /\ subs = <<>> /\ hist.counted = 0
  /\ \A r \in Requests :
       pc[r] \in Holding \cup {"count", "zero", "sign", "receipt", "load", "apply"} => budget.row

\* An organisation's token finds both rows or none.
TokenFinds ==
  /\ \A r \in Requests : Asked[r].op = "org" =>
       /\ tenant.row # "none" => budget.row
       /\ pc[r] \notin {"new", "insert", "creating", "refused"} => budget.row
  /\ redis.org => \E r \in Requests : Asked[r].op = "org"
  /\ redis.org => budget.row

\* Without overlap the one task that changes the count has read it as it is.
CountHeld ==
  ~hist.overlap =>
    /\ budget.row => budget.calls = hist.counted
    /\ \A r \in Requests : Counting(r) => seen[r].budget.calls = budget.calls
    /\ \A r, s \in Requests : Counting(r) /\ Counting(s) => r = s

\* Calls let through are calls that were counted.
RateHeld == ~hist.blind => \A k \in Keys : hist.through[k] <= redis.key[k] /\ hist.through[k] <= KeyRate

\* Who buys holds the row and saw no checkout of the plan that could be used again.
CheckoutHeld ==
  /\ \A r, s \in Requests : pc[r] \in Holding /\ pc[s] \in Holding => r = s
  /\ \A r \in Requests : pc[r] \in {"buying", "bought"} => Reusable(Asked[r].plan) = {}
  /\ \A r \in Requests : pc[r] = "bought" =>
       seen[r].sub \in DOMAIN subs /\ subs[seen[r].sub].plan = Asked[r].plan
  /\ \A s, t \in Rows :
       /\ subs[s].status = "created" /\ subs[s].fresh /\ subs[t].status = "created" /\ subs[t].fresh
       /\ subs[s].plan = subs[t].plan
       => s = t

\* Who is about to apply an event holds its receipt, which is not there yet.
ReceiptHolds ==
  /\ \A r \in Requests : pc[r] \in {"load", "apply"} => Asked[r].id \notin receipts
  /\ \A r, s \in Requests :
       pc[r] \in {"load", "apply"} /\ pc[s] \in {"load", "apply"} /\ Asked[r].id = Asked[s].id => r = s
  /\ EventOnce

Inv == Types /\ Places /\ RowsAppear /\ TokenFinds /\ CountHeld /\ RateHeld /\ CheckoutHeld
       /\ ReceiptHolds /\ PlanAgrees

-----------------------------------------------------------------------------
(* What the requests carry, and what a write of the budget leaves alone.    *)

\* What a request of each kind carries (the schemas of the routes).
LEMMA Carried ==
  ASSUME script \in DOMAIN Scripts, NEW r \in Requests
  PROVE  /\ Asked[r].op \in {"call", "revoke", "create"} => Asked[r].key \in Keys
         /\ Asked[r].op = "call" => Asked[r].query \in Queries
         /\ Asked[r].op = "plan" => Asked[r].plan \in Plans
         /\ Asked[r].op = "checkout" => Asked[r].plan \in Plans \ {"free"}
         /\ Asked[r].op = "event" => /\ Asked[r].id \in Nat /\ Asked[r].sub \in Nat
                                     /\ Asked[r].type \in DOMAIN Status /\ Asked[r].plan \in Plans
<1>1. Scripts[script] \in Script
  BY TenancyAssumption
<1>2. Asked \in Seq(Request)
  BY <1>1 DEF Asked, Script
<1>3. Asked[r] \in Request
  BY <1>2 DEF Requests
<1>4. CASE Asked[r] \in [op : {"call"}, key : Keys, query : Queries, good : BOOLEAN, dedup : BOOLEAN]
  BY <1>4
<1>5. CASE Asked[r] \in [op : {"revoke", "create"}, key : Keys]
  BY <1>5
<1>6. CASE Asked[r] \in [op : {"org", "orgCreated", "orgDeleted", "usage", "alert", "reset"}]
  BY <1>6
<1>7. CASE Asked[r] \in [op : {"plan"}, plan : Plans]
  BY <1>7
<1>8. CASE Asked[r] \in [op : {"checkout"}, plan : Plans \ {"free"}]
  BY <1>8
<1>9. CASE Asked[r] \in [op : {"verify"}, sub : Nat]
  BY <1>9
<1>10. CASE Asked[r] \in [op : {"event"}, id : Nat, type : DOMAIN Status, sub : Nat, plan : Plans]
  BY <1>10
<1> QED
  BY <1>3, <1>4, <1>5, <1>6, <1>7, <1>8, <1>9, <1>10 DEF Request

\* The ORM writes the columns that differ from what was read, and the row stays one.
LEMMA WrittenColumns ==
  ASSUME NEW b \in TenantBudget, NEW n \in TenantBudget, budget \in TenantBudget
  PROVE  /\ Written(b, n) \in TenantBudget
         /\ n.row = b.row => Written(b, n).row = budget.row
         /\ n.plan = b.plan => Written(b, n).plan = budget.plan
         /\ n.calls = b.calls => Written(b, n).calls = budget.calls
         /\ n.calls # b.calls => Written(b, n).calls = n.calls
  BY DEF Written, TenantBudget

\* apply_plan_limits on a budget.
LEMMA LimitedColumns ==
  ASSUME NEW b \in TenantBudget, NEW p \in Plans
  PROVE  /\ Limited(b, p) \in TenantBudget
         /\ Limited(b, p).row = b.row /\ Limited(b, p).calls = b.calls
         /\ b.row => Limited(b, p).plan = p
         /\ ~b.row => Limited(b, p) = b
  BY DEF Limited, TenantBudget

\* What has the places of a sequence is one.
LEMMA SameLength ==
  ASSUME NEW S, NEW q \in Seq(S), NEW f \in [DOMAIN q -> S]
  PROVE  f \in Seq(S)
<1>1. DOMAIN q = 1 .. Len(q) /\ Len(q) \in Nat
  OBVIOUS
<1> QED
  BY <1>1

\* A subscription gets another status, or its row.
LEMMA SubRewritten ==
  ASSUME subs \in Seq(BillingSubscription), NEW s, NEW st \in {"created", "authenticated", "active", "cancelled"}
  PROVE  [subs EXCEPT ![s].status = st] \in Seq(BillingSubscription)
<1>1. \A i \in DOMAIN subs : [subs[i] EXCEPT !.status = st] \in BillingSubscription
  <2>1. ASSUME NEW x \in BillingSubscription PROVE [x EXCEPT !.status = st] \in BillingSubscription
    BY DEF BillingSubscription
  <2> QED
    BY <2>1
<1>2. CASE s \in DOMAIN subs
  BY <1>1, <1>2
<1>3. CASE s \notin DOMAIN subs
  <2>1. [subs EXCEPT ![s].status = st] = subs
    BY <1>3
  <2> QED
    BY <2>1
<1> QED
  BY <1>2, <1>3
LEMMA SubStored ==
  ASSUME subs \in Seq(BillingSubscription), NEW s
  PROVE  [subs EXCEPT ![s].row = TRUE] \in Seq(BillingSubscription)
<1>1. \A i \in DOMAIN subs : [subs[i] EXCEPT !.row = TRUE] \in BillingSubscription
  <2>1. ASSUME NEW x \in BillingSubscription PROVE [x EXCEPT !.row = TRUE] \in BillingSubscription
    BY DEF BillingSubscription
  <2> QED
    BY <2>1
<1>2. CASE s \in DOMAIN subs
  BY <1>1, <1>2
<1>3. CASE s \notin DOMAIN subs
  <2>1. [subs EXCEPT ![s].row = TRUE] = subs
    BY <1>3
  <2> QED
    BY <2>1
<1> QED
  BY <1>2, <1>3

\* The mode and the level of a budget are modes and levels.
LEMMA Judged ==
  ASSUME NEW b \in TenantBudget
  PROVE  /\ Mode(b) \in Modes
         /\ Level(b) \in {"none", "warning", "critical"}
  BY DEF Mode, Level, Modes, TenantBudget

-----------------------------------------------------------------------------
(* Types.                                                                   *)

\* A write of Redis that may not happen.
LEMMA RedisWrites ==
  ASSUME redis \in RedisState, NEW new \in RedisState, Redis(new)
  PROVE  redis' \in RedisState
  BY DEF Redis

\* A call of a key counts for the key and for the tenant.
LEMMA CallCounted ==
  ASSUME redis \in RedisState, NEW k \in Keys, NEW b \in BOOLEAN
  PROVE  [redis EXCEPT !.key[k] = redis.key[k] + 1, !.tenant = IF b THEN @ ELSE @ + 1] \in RedisState
<1>1. [redis.key EXCEPT ![k] = redis.key[k] + 1] \in [Keys -> Nat]
  BY DEF RedisState
<1>2. (IF b THEN redis.tenant ELSE redis.tenant + 1) \in Nat
  BY DEF RedisState
<1>3. ASSUME NEW x \in [Keys -> Nat], NEW y \in Nat
      PROVE  [redis EXCEPT !.key = x, !.tenant = y] \in RedisState
  BY DEF RedisState
<1>4. [redis EXCEPT !.key[k] = redis.key[k] + 1, !.tenant = IF b THEN @ ELSE @ + 1]
        = [redis EXCEPT !.key = [redis.key EXCEPT ![k] = redis.key[k] + 1],
                        !.tenant = IF b THEN redis.tenant ELSE redis.tenant + 1]
  BY DEF RedisState
<1> QED
  BY <1>1, <1>2, <1>3, <1>4
LEMMA CallThrough ==
  ASSUME hist \in History, NEW k \in Keys, NEW c \in BOOLEAN, NEW b \in BOOLEAN
  PROVE  [hist EXCEPT !.through[k] = IF c THEN @ ELSE @ + 1, !.blind = @ \/ b] \in History
<1>1. [hist.through EXCEPT ![k] = IF c THEN @ ELSE @ + 1] \in [Keys -> Nat]
  BY DEF History
<1>2. (hist.blind \/ b) \in BOOLEAN
  OBVIOUS
<1> QED
  BY <1>1, <1>2 DEF History

\* A request goes on, and what it keeps of the budget is one.
LEMMA Moves ==
  ASSUME ProcessTypes, NEW r \in Requests, NEW p, NEW v, Goes(r, p), UNCHANGED script,
         Keeps(r, v) \/ (UNCHANGED seen /\ v = seen[r]), p \in Budgeted => v.budget \in TenantBudget
  PROVE  ProcessTypes'
  BY DEF ProcessTypes, Requests, Asked, Goes, Keeps

\* The steps of a call leave the tables alone.
LEMMA CallTypes ==
  ASSUME Types, Places, NEW r \in AnyRequest,
         \/ AuthHit(r) \/ AuthLookup(r) \/ AuthStore(r) \/ Limit(r)
         \/ GateRead(r) \/ Compare(r) \/ Remember(r) \/ Govern(r)
         \/ EnvelopeHit(r) \/ EnvelopeRead(r) \/ EnvelopeStore(r)
  PROVE  Types'
<1>0. RowTypes' /\ SubTypes'
  BY DEF Types, RowTypes, SubTypes, Rest, dbVars, AuthHit, AuthLookup, AuthStore, Limit, GateRead,
         Compare, Remember, Govern, EnvelopeHit, EnvelopeRead, EnvelopeStore
<1>1. CASE AuthHit(r) \/ AuthLookup(r) \/ EnvelopeHit(r) \/ GateRead(r)
  BY <1>0, <1>1 DEF Types, RowTypes, OtherTypes, ProcessTypes, Rest, At, Starts, Goes, Keeps, Requests, Asked,
                    AuthHit, AuthLookup, EnvelopeHit, GateRead, Budgeted, Decided
<1>2. CASE AuthStore(r)
  <2>1. Asked[r].key \in Keys
    BY <1>2, Carried DEF AuthStore, Places, At, Types, ProcessTypes
  <2>2. [redis EXCEPT !.auth = @ \cup {Asked[r].key}] \in RedisState
    BY <2>1 DEF Types, OtherTypes, RedisState
  <2>3. OtherTypes'
    BY <1>2, <2>2, RedisWrites DEF AuthStore, Types, OtherTypes, Rest
  <2>4. ProcessTypes'
    BY <1>2, Moves DEF AuthStore, Types, Rest, At, Budgeted
  <2> QED
    BY <1>0, <2>3, <2>4 DEF Types
<1>3. CASE Limit(r)
  <2>0. Asked[r].key \in Keys
    BY <1>3, Carried DEF Limit, Places, At, Types, ProcessTypes
  <2>1. redis' \in RedisState
    BY <1>3, <2>0, CallCounted DEF Limit, Types, OtherTypes, KeyOver
  <2>2. hist' \in History
    BY <1>3, <2>0, CallThrough DEF Limit, Types, OtherTypes
  <2>3. ProcessTypes'
    BY <1>3 DEF Limit, ProcessTypes, Types, Rest, At, Budgeted, Goes, Requests, Asked
  <2> QED
    BY <1>0, <2>1, <2>2, <2>3 DEF Types, OtherTypes
<1>4. CASE Compare(r)
  <2>1. ProcessTypes'
    BY <1>4 DEF Compare, Types, ProcessTypes, Rest, At, Budgeted, Goes, Keeps, Requests, Asked
  <2> QED
    BY <1>0, <1>4, <2>1 DEF Types, OtherTypes, Compare, Rest
<1>5. CASE Remember(r)
  <2>1. Asked[r].query \in Queries
    BY <1>5, Carried DEF Remember, Places, At, Types, ProcessTypes
  <2>2. [redis EXCEPT !.recent = @ \cup {Asked[r].query}] \in RedisState
    BY <2>1 DEF Types, OtherTypes, RedisState
  <2>3. OtherTypes'
    BY <1>5, <2>2, RedisWrites DEF Remember, Types, OtherTypes, Rest
  <2>4. ProcessTypes'
    BY <1>5 DEF Remember, Types, ProcessTypes, Rest, At, Budgeted, Goes, Keeps, Requests, Asked
  <2> QED
    BY <1>0, <2>3, <2>4 DEF Types
<1>6. CASE Govern(r)
  <2>1. [redis EXCEPT !.user = @ + 1] \in RedisState
    BY DEF Types, OtherTypes, RedisState
  <2>2. OtherTypes'
    BY <1>6, <2>1, RedisWrites DEF Govern, Types, OtherTypes, Rest
  <2>3. ProcessTypes'
    BY <1>6 DEF Govern, Types, ProcessTypes, Rest, At, Budgeted, Goes, Keeps, Requests, Asked
  <2> QED
    BY <1>0, <2>2, <2>3 DEF Types
<1>7. CASE EnvelopeRead(r)
  <2>1. ProcessTypes'
    BY <1>7 DEF EnvelopeRead, Types, RowTypes, ProcessTypes, Rest, At, Budgeted, Goes, Keeps, Requests, Asked
  <2> QED
    BY <1>0, <1>7, <2>1 DEF Types, OtherTypes, EnvelopeRead, Rest
<1>8. CASE EnvelopeStore(r)
  <2>1. Mode(seen[r].budget) \in Modes
    BY <1>8, Judged DEF EnvelopeStore, Budgeted, Types, ProcessTypes, At
  <2>2. [redis EXCEPT !.quota = Mode(seen[r].budget)] \in RedisState
    BY <2>1 DEF Types, OtherTypes, RedisState
  <2>3. OtherTypes'
    BY <1>8, <2>2, RedisWrites DEF EnvelopeStore, Types, OtherTypes, Rest
  <2>4. ProcessTypes'
    BY <1>8 DEF EnvelopeStore, Decided, Types, ProcessTypes, Rest, At, Budgeted, Goes, Keeps, Requests, Asked
  <2> QED
    BY <1>0, <2>3, <2>4 DEF Types
<1> QED
  BY <1>1, <1>2, <1>3, <1>4, <1>5, <1>6, <1>7, <1>8

\* The tasks write columns of a budget they read before.
LEMMA TaskTypes ==
  ASSUME Types, NEW r \in AnyRequest,
         \/ Notify(r) \/ UsageRead(r) \/ UsageWrite(r) \/ AlertRead(r) \/ AlertWrite(r)
         \/ ResetRead(r) \/ ResetWrite(r)
  PROVE  Types'
<1>0. SubTypes' /\ redis' \in RedisState
  BY DEF Types, SubTypes, OtherTypes, Rest, dbVars, Notify, UsageRead, UsageWrite, AlertRead, AlertWrite,
         ResetRead, ResetWrite
<1>1. ProcessTypes'
  <2>1. CASE Notify(r)
    BY <2>1 DEF Types, RowTypes, ProcessTypes, Rest, At, Budgeted, Goes, Keeps, Requests, Asked, Notify
  <2>2. CASE UsageRead(r) \/ UsageWrite(r)
    <3>1. CASE UsageRead(r) /\ budget.row
      BY <3>1 DEF Types, RowTypes, ProcessTypes, Rest, At, Starts, Budgeted, Goes, Keeps, Requests, Asked, UsageRead
    <3>2. CASE UsageRead(r) /\ ~budget.row
      BY <3>2 DEF Types, ProcessTypes, Rest, At, Starts, Budgeted, Goes, Requests, Asked, UsageRead
    <3>3. CASE UsageWrite(r)
      BY <3>3 DEF Types, ProcessTypes, Rest, At, Budgeted, Goes, Keeps, Requests, Asked, UsageWrite
    <3> QED
      BY <2>2, <3>1, <3>2, <3>3
  <2>3. CASE AlertRead(r) \/ AlertWrite(r)
    BY <2>3 DEF Types, RowTypes, ProcessTypes, Rest, dbVars, At, Starts, Budgeted, Goes, Keeps, Requests,
                Asked, AlertRead, AlertWrite
  <2>4. CASE ResetRead(r) \/ ResetWrite(r)
    BY <2>4 DEF Types, RowTypes, ProcessTypes, Rest, dbVars, At, Starts, Budgeted, Goes, Keeps, Requests,
                Asked, ResetRead, ResetWrite
  <2> QED
    BY <2>1, <2>2, <2>3, <2>4
<1>2. hist' \in History
  <2>1. CASE UsageRead(r) \/ ResetRead(r)
    <3>1. Overlaps(r) \in BOOLEAN
      BY DEF Overlaps
    <3> QED
      BY <2>1, <3>1 DEF UsageRead, ResetRead, Types, OtherTypes, History
  <2>2. CASE UsageWrite(r) \/ ResetWrite(r)
    BY <2>2 DEF UsageWrite, ResetWrite, Types, OtherTypes, History
  <2>3. CASE Notify(r) \/ AlertRead(r) \/ AlertWrite(r)
    BY <2>3 DEF Notify, AlertRead, AlertWrite, Types, OtherTypes, Rest
  <2> QED
    BY <2>1, <2>2, <2>3
<1>3. tenant' \in Tenant /\ keys' \in [Keys -> ApiKey]
  BY DEF Types, RowTypes, Rest, dbVars, Notify, UsageRead, UsageWrite, AlertRead, AlertWrite,
         ResetRead, ResetWrite
<1>4. budget' \in TenantBudget
  <2> DEFINE b == seen[r].budget
  <2>1. CASE Notify(r)
    <3> DEFINE pct == IF Level(b) = "critical" THEN "critical"
                      ELSE IF Level(b) = "warning" /\ b.pct = "none" THEN "warning" ELSE b.pct
               n == [b EXCEPT !.mode = Mode(b), !.pct = pct]
    <3>1. b \in TenantBudget
      BY <2>1 DEF Notify, At, Types, ProcessTypes, Budgeted
    <3>2. n \in TenantBudget
      BY <3>1, Judged DEF TenantBudget
    <3>3. budget' = IF b.row THEN Written(b, n) ELSE budget
      BY <2>1 DEF Notify
    <3> QED
      BY <3>1, <3>2, <3>3, WrittenColumns DEF Types, RowTypes
  <2>2. CASE UsageWrite(r)
    <3>1. b \in TenantBudget
      BY <2>2 DEF UsageWrite, At, Types, ProcessTypes, Budgeted
    <3>2. [b EXCEPT !.calls = @ + 1] \in TenantBudget
      BY <3>1 DEF TenantBudget
    <3> QED
      BY <2>2, <3>1, <3>2, WrittenColumns DEF UsageWrite, Types, RowTypes
  <2>3. CASE AlertWrite(r)
    <3>1. b \in TenantBudget
      BY <2>3 DEF AlertWrite, At, Types, ProcessTypes, Budgeted
    <3>2. [b EXCEPT !.pct = "warning"] \in TenantBudget
      BY <3>1 DEF TenantBudget
    <3> QED
      BY <2>3, <3>1, <3>2, WrittenColumns DEF AlertWrite, Types, RowTypes
  <2>4. CASE ResetWrite(r)
    <3>1. b \in TenantBudget
      BY <2>4 DEF ResetWrite, At, Types, ProcessTypes, Budgeted
    <3>2. MonthBegun(b) \in TenantBudget
      BY <3>1 DEF TenantBudget, MonthBegun, Modes
    <3> QED
      BY <2>4, <3>1, <3>2, WrittenColumns DEF ResetWrite, Types, RowTypes
  <2>5. CASE UsageRead(r) \/ AlertRead(r) \/ ResetRead(r)
    BY <2>5 DEF UsageRead, AlertRead, ResetRead, Rest, dbVars, Types, RowTypes
  <2> QED
    BY <2>1, <2>2, <2>3, <2>4, <2>5
<1> QED
  BY <1>0, <1>1, <1>2, <1>3, <1>4 DEF Types, RowTypes, OtherTypes

\* Keys, organisations and the operator's change of plan.
LEMMA RowTypesKept ==
  ASSUME Types, NEW r \in AnyRequest,
         \/ Revoke(r) \/ Create(r) \/ OrgHit(r) \/ OrgLookup(r) \/ OrgInsert(r) \/ OrgCreate(r)
         \/ OrgStore(r) \/ OrgCreated(r) \/ OrgLimits(r) \/ OrgDeleted(r) \/ ChangePlan(r) \/ Invalidate(r)
  PROVE  Types'
<1>0. SubTypes'
  BY DEF Types, SubTypes, Rest, dbVars, Revoke, Create, OrgHit, OrgLookup, OrgInsert, OrgCreate, OrgStore,
         OrgCreated, OrgLimits, OrgDeleted, ChangePlan, Invalidate
<1>1. ProcessTypes'
  BY DEF Types, ProcessTypes, Rest, dbVars, At, Starts, Budgeted, Goes, Requests, Asked, Revoke, Create,
         OrgHit, OrgLookup, OrgInsert, OrgCreate, OrgStore, OrgCreated, OrgLimits, OrgDeleted, ChangePlan, Invalidate
<1>2. hist' \in History
  BY DEF Types, OtherTypes, History, Rest, Revoke, Create, OrgHit, OrgLookup, OrgInsert, OrgCreate, OrgStore,
         OrgCreated, OrgLimits, OrgDeleted, ChangePlan, Invalidate
<1>3. redis' \in RedisState
  BY DEF Types, OtherTypes, RedisState, Redis, Rest, Revoke, Create, OrgHit, OrgLookup, OrgInsert, OrgCreate,
         OrgStore, OrgCreated, OrgLimits, OrgDeleted, ChangePlan, Invalidate
<1>4. keys' \in [Keys -> ApiKey]
  <2>1. CASE Revoke(r) \/ Create(r)
    <3>1. r \in Requests /\ Asked[r].key \in Keys
      BY <2>1, Carried DEF Revoke, Create, Starts, At, Types, ProcessTypes
    <3>2. keys[Asked[r].key] \in ApiKey
      BY <3>1 DEF Types, RowTypes
    <3>3. [keys[Asked[r].key] EXCEPT !.st = "revoked"] \in ApiKey /\ [st |-> "active", may |-> TRUE] \in ApiKey
      BY <3>2 DEF ApiKey
    <3> QED
      BY <2>1, <3>1, <3>3 DEF Revoke, Create, Types, RowTypes
  <2> QED
    BY <2>1 DEF Types, RowTypes, Rest, dbVars, OrgHit, OrgLookup, OrgInsert, OrgCreate, OrgStore,
                OrgCreated, OrgLimits, OrgDeleted, ChangePlan, Invalidate
<1>5. tenant' \in Tenant
  BY DEF Types, RowTypes, Tenant, Plans, Rest, dbVars, Revoke, Create, OrgHit, OrgLookup, OrgInsert, OrgCreate,
         OrgStore, OrgCreated, OrgLimits, OrgDeleted, ChangePlan, Invalidate
<1>6. budget' \in TenantBudget
  <2>1. NewBudget \in TenantBudget /\ "free" \in Plans
    BY DEF NewBudget, TenantBudget, Plans, Modes
  <2>2. CASE OrgCreate(r) \/ OrgCreated(r)
    BY <2>1, <2>2, LimitedColumns DEF OrgCreate, OrgCreated, Ensured, Types, RowTypes
  <2>3. ASSUME NEW x \in TenantBudget PROVE [x EXCEPT !.due = FALSE] \in TenantBudget
    BY DEF TenantBudget
  <2>4. CASE OrgLimits(r)
    BY <2>1, <2>3, <2>4, LimitedColumns DEF OrgLimits, Types, RowTypes
  <2>5. CASE ChangePlan(r)
    <3>1. Asked[r].plan \in Plans
      BY <2>5, Carried DEF ChangePlan, Starts, At, Types, ProcessTypes
    <3> QED
      BY <2>3, <2>5, <3>1, LimitedColumns DEF ChangePlan, Types, RowTypes
  <2> QED
    BY <2>2, <2>4, <2>5 DEF Types, RowTypes, Rest, dbVars, Revoke, Create, OrgHit, OrgLookup, OrgInsert,
                            OrgStore, OrgDeleted, Invalidate
<1> QED
  BY <1>0, <1>1, <1>2, <1>3, <1>4, <1>5, <1>6 DEF Types, RowTypes, OtherTypes

\* A subscription of the provider, its rows and its receipts.
LEMMA BillingTypes ==
  ASSUME Types, Places, NEW r \in AnyRequest,
         \/ CheckoutLock(r) \/ CheckoutDecide(r) \/ Buy(r) \/ CheckoutCommit(r) \/ VerifyRead(r)
         \/ VerifyWrite(r) \/ Receive(r) \/ Receipt(r) \/ Load(r) \/ Apply(r)
  PROVE  Types'
<1>1. ProcessTypes'
  BY DEF Types, ProcessTypes, Rest, dbVars, At, Starts, Budgeted, Goes, Keeps, Requests, Asked, CheckoutLock,
         CheckoutDecide, Buy, CheckoutCommit, VerifyRead, VerifyWrite, Receive, Receipt, Load, Apply
<1>2. redis' \in RedisState /\ keys' \in [Keys -> ApiKey]
  BY DEF Types, RowTypes, OtherTypes, Rest, dbVars, CheckoutLock, CheckoutDecide, Buy, CheckoutCommit,
         VerifyRead, VerifyWrite, Receive, Receipt, Load, Apply
<1>3. CASE Apply(r)
  <2> DEFINE a == Asked[r]
             plan == IF a.type = "cancelled" THEN "free" ELSE a.plan
  <2>1. r \in Requests /\ a.id \in Nat /\ a.type \in DOMAIN Status /\ a.plan \in Plans
    BY <1>3, Carried DEF Apply, At, Places, Types, ProcessTypes
  <2>2. Status[a.type] \in {"created", "authenticated", "active", "cancelled"}
    BY <2>1 DEF Status
  <2>3. plan \in Plans /\ Granted(a.type, plan) \in Plans
    BY <2>1 DEF Plans, Granted
  <2>4. subs' \in Seq(BillingSubscription)
    <3>1. subs' = [subs EXCEPT ![a.sub].status = Status[a.type]]
      BY <1>3 DEF Apply
    <3> QED
      BY <2>2, <3>1, SubRewritten DEF Types, SubTypes
  <2>5. receipts' \in SUBSET Nat
    BY <1>3, <2>1 DEF Apply, Types, SubTypes
  <2>6. budget' \in TenantBudget
    BY <1>3, <2>3, LimitedColumns DEF Apply, Types, RowTypes
  <2>7. tenant' \in Tenant
    BY <1>3, <2>3 DEF Apply, Types, RowTypes, Tenant
  <2>8. hist' \in History
    <3> DEFINE S == DOMAIN hist.applied \cup {a.id}
               f == [i \in S |-> IF i = a.id THEN Times(i) + 1 ELSE hist.applied[i]]
    <3>1. hist' = [hist EXCEPT !.applied = f]
      BY <1>3 DEF Apply
    <3>2. PICK D \in SUBSET Nat : hist.applied \in [D -> Nat]
      BY DEF Types, OtherTypes, History
    <3>3. S \in SUBSET Nat
      BY <2>1, <3>2
    <3>4. f \in [S -> Nat]
      <4>1. Times(a.id) \in Nat
        BY <3>2 DEF Times
      <4>2. \A i \in DOMAIN hist.applied : hist.applied[i] \in Nat
        BY <3>2
      <4> QED
        BY <4>1, <4>2
    <3>5. f \in UNION {[X -> Nat] : X \in SUBSET Nat}
      BY <3>3, <3>4
    <3> HIDE DEF f
    <3> QED
      BY <3>1, <3>5 DEF Types, OtherTypes, History
  <2> QED
    BY <1>1, <1>2, <2>4, <2>5, <2>6, <2>7, <2>8 DEF Types, RowTypes, SubTypes, OtherTypes
<1>4. CASE ~Apply(r)
  <2>1. tenant' = tenant /\ budget' = budget /\ receipts' = receipts /\ hist' = hist
    BY <1>4 DEF Rest, dbVars, CheckoutLock, CheckoutDecide, Buy, CheckoutCommit,
         VerifyRead, VerifyWrite, Receive, Receipt, Load
  <2>2. subs' \in Seq(BillingSubscription)
    <3>1. CASE Buy(r)
      <4>1. Asked[r].plan \in Plans \ {"free"}
        BY <3>1, Carried DEF Buy, At, Places, Holding, Types, ProcessTypes
      <4>2. [plan |-> Asked[r].plan, status |-> "created", row |-> FALSE, fresh |-> TRUE] \in BillingSubscription
        BY <4>1 DEF BillingSubscription
      <4> QED
        BY <3>1, <4>2 DEF Buy, Types, SubTypes
    <3>2. CASE CheckoutCommit(r)
      BY <3>2, SubStored DEF CheckoutCommit, Types, SubTypes
    <3>3. CASE VerifyWrite(r)
      BY <3>3, SubRewritten DEF VerifyWrite, Types, SubTypes
    <3> QED
      BY <1>4, <3>1, <3>2, <3>3 DEF Rest, dbVars, CheckoutLock, CheckoutDecide, VerifyRead, Receive, Receipt, Load,
                                    Types, SubTypes
  <2> QED
    BY <1>1, <1>2, <2>1, <2>2 DEF Types, RowTypes, SubTypes, OtherTypes
<1> QED
  BY <1>3, <1>4

\* The minute, the month, the half hour and the lives of entries.
LEMMA TimeTypes ==
  ASSUME Types, Minute \/ Month \/ HalfHour \/ Expire
  PROVE  Types'
<1>1. ProcessTypes'
  BY DEF Types, ProcessTypes, Rest, Requests, Asked, Minute, Month, HalfHour, Expire
<1>2. tenant' \in Tenant /\ keys' \in [Keys -> ApiKey] /\ receipts' \in SUBSET Nat
  BY DEF Types, RowTypes, SubTypes, Rest, dbVars, Minute, Month, HalfHour, Expire
<1>3. budget' \in TenantBudget
  BY DEF Types, RowTypes, Rest, dbVars, Minute, Month, HalfHour, Expire, TenantBudget
<1>4. subs' \in Seq(BillingSubscription)
  <2>1. CASE HalfHour
    <3>0. ASSUME NEW x \in BillingSubscription PROVE [x EXCEPT !.fresh = FALSE] \in BillingSubscription
      BY DEF BillingSubscription
    <3>1. \A s \in DOMAIN subs : [subs[s] EXCEPT !.fresh = FALSE] \in BillingSubscription
      BY <3>0 DEF Types, SubTypes
    <3>2. subs' = [s \in DOMAIN subs |-> [subs[s] EXCEPT !.fresh = FALSE]]
      BY <2>1 DEF HalfHour
    <3>3. subs' \in [DOMAIN subs -> BillingSubscription]
      BY <3>1, <3>2
    <3> QED
      BY <3>3, SameLength DEF Types, SubTypes
  <2> QED
    BY <2>1 DEF Types, SubTypes, Rest, dbVars, Minute, Month, Expire
<1>5. redis' \in RedisState
  <2>1. CASE Minute
    <3>1. [k \in Keys |-> 0] \in [Keys -> Nat]
      OBVIOUS
    <3> QED
      BY <2>1, <3>1 DEF Minute, Types, OtherTypes, RedisState
  <2>2. CASE Expire
    BY <2>2 DEF Expire, Changes, Types, OtherTypes, RedisState
  <2> QED
    BY <2>1, <2>2 DEF Types, OtherTypes, Rest, Month, HalfHour
<1>6. hist' \in History
  <2>1. CASE Minute
    <3>1. [k \in Keys |-> 0] \in [Keys -> Nat]
      OBVIOUS
    <3> QED
      BY <2>1, <3>1 DEF Minute, Types, OtherTypes, History
  <2> QED
    BY <2>1 DEF Types, OtherTypes, Rest, Month, HalfHour, Expire
<1> QED
  BY <1>1, <1>2, <1>3, <1>4, <1>5, <1>6 DEF Types, RowTypes, SubTypes, OtherTypes

-----------------------------------------------------------------------------
(* The kinds of steps.                                                      *)

Calling(r) ==
  \/ AuthHit(r) \/ AuthLookup(r) \/ AuthStore(r) \/ Limit(r) \/ GateRead(r) \/ Compare(r) \/ Remember(r)
  \/ Govern(r) \/ EnvelopeHit(r) \/ EnvelopeRead(r) \/ EnvelopeStore(r)
Tasking(r) ==
  \/ Notify(r) \/ UsageRead(r) \/ UsageWrite(r) \/ AlertRead(r) \/ AlertWrite(r) \/ ResetRead(r) \/ ResetWrite(r)
Provisioning(r) ==
  \/ Revoke(r) \/ Create(r) \/ OrgHit(r) \/ OrgLookup(r) \/ OrgInsert(r) \/ OrgCreate(r) \/ OrgStore(r)
  \/ OrgCreated(r) \/ OrgLimits(r) \/ OrgDeleted(r) \/ ChangePlan(r) \/ Invalidate(r)
Billing(r) ==
  \/ CheckoutLock(r) \/ CheckoutDecide(r) \/ Buy(r) \/ CheckoutCommit(r) \/ VerifyRead(r) \/ VerifyWrite(r)
  \/ Receive(r) \/ Receipt(r) \/ Load(r) \/ Apply(r)
Passing == Minute \/ Month \/ HalfHour \/ Expire

LEMMA Steps ==
  ASSUME Next
  PROVE  (\E r \in AnyRequest : Calling(r) \/ Tasking(r) \/ Provisioning(r) \/ Billing(r)) \/ Passing
  BY DEF Next, Entering, Spending, Buying, Calling, Tasking, Provisioning, Billing, Passing

LEMMA TypesStep ==
  ASSUME Types, Places, Next
  PROVE  Types'
<1>1. CASE Passing
  BY <1>1, TimeTypes DEF Passing
<1>2. ASSUME NEW r \in AnyRequest, Calling(r) PROVE Types'
  BY <1>2, CallTypes DEF Calling
<1>3. ASSUME NEW r \in AnyRequest, Tasking(r) PROVE Types'
  BY <1>3, TaskTypes DEF Tasking
<1>4. ASSUME NEW r \in AnyRequest, Provisioning(r) PROVE Types'
  BY <1>4, RowTypesKept DEF Provisioning
<1>5. ASSUME NEW r \in AnyRequest, Billing(r) PROVE Types'
  BY <1>5, BillingTypes DEF Billing
<1> QED
  BY <1>1, <1>2, <1>3, <1>4, <1>5, Steps

\* Requests go their own ways.
LEMMA PlacesStep ==
  ASSUME Types, Places, Next
  PROVE  Places'
<1> USE DEF Types, ProcessTypes, Places, Holding, At, Starts, Goes, Requests, Asked, Rest
<1>1. CASE Passing
  BY <1>1 DEF Passing, Minute, Month, HalfHour, Expire
<1>2. ASSUME NEW r \in AnyRequest, Calling(r) PROVE Places'
  <2>1. CASE AuthHit(r) \/ AuthLookup(r) \/ AuthStore(r) \/ Limit(r)
    BY <2>1 DEF AuthHit, AuthLookup, AuthStore, Limit
  <2>2. CASE GateRead(r) \/ Compare(r) \/ Remember(r) \/ Govern(r)
    BY <2>2 DEF GateRead, Compare, Remember, Govern
  <2>3. CASE EnvelopeHit(r) \/ EnvelopeRead(r) \/ EnvelopeStore(r)
    BY <2>3 DEF EnvelopeHit, EnvelopeRead, EnvelopeStore, Decided, Asking
  <2> QED
    BY <1>2, <2>1, <2>2, <2>3 DEF Calling
<1>3. ASSUME NEW r \in AnyRequest, Tasking(r) PROVE Places'
  BY <1>3 DEF Tasking, Notify, UsageRead, UsageWrite, AlertRead, AlertWrite, ResetRead, ResetWrite
<1>4. ASSUME NEW r \in AnyRequest, Provisioning(r) PROVE Places'
  BY <1>4 DEF Provisioning, Revoke, Create, OrgHit, OrgLookup, OrgInsert, OrgCreate, OrgStore, OrgCreated,
              OrgLimits, OrgDeleted, ChangePlan, Invalidate
<1>5. ASSUME NEW r \in AnyRequest, Billing(r) PROVE Places'
  <2>1. CASE CheckoutLock(r) \/ CheckoutDecide(r) \/ Buy(r) \/ CheckoutCommit(r)
    BY <2>1 DEF CheckoutLock, CheckoutDecide, Buy, CheckoutCommit
  <2>2. CASE VerifyRead(r) \/ VerifyWrite(r) \/ Receive(r) \/ Receipt(r)
    BY <2>2 DEF VerifyRead, VerifyWrite, Receive, Receipt
  <2>3. CASE Load(r) \/ Apply(r)
    BY <2>3 DEF Load, Apply
  <2> QED
    BY <1>5, <2>1, <2>2, <2>3 DEF Billing
<1> QED
  BY <1>1, <1>2, <1>3, <1>4, <1>5, Steps

\* What the tasks leave of the budget as it is.
LEMMA TaskWrites ==
  ASSUME Types, NEW r \in AnyRequest, Tasking(r)
  PROVE  /\ budget'.row = budget.row /\ budget'.plan = budget.plan
         /\ ~UsageWrite(r) /\ ~ResetWrite(r) => budget'.calls = budget.calls
         /\ UsageWrite(r) => budget'.calls = seen[r].budget.calls + 1
         /\ ResetWrite(r) => \/ budget'.calls = 0
                             \/ seen[r].budget.calls = 0 /\ budget'.calls = budget.calls
         /\ tenant' = tenant /\ subs' = subs /\ receipts' = receipts /\ keys' = keys /\ redis' = redis
<1> DEFINE b == seen[r].budget
<1>0. tenant' = tenant /\ subs' = subs /\ receipts' = receipts /\ keys' = keys /\ redis' = redis
  BY DEF Tasking, Rest, dbVars, Notify, UsageRead, UsageWrite, AlertRead, AlertWrite, ResetRead, ResetWrite
<1>a. budget \in TenantBudget
  BY DEF Types, RowTypes
<1>1. CASE Notify(r)
  <2> DEFINE pct == IF Level(b) = "critical" THEN "critical"
                    ELSE IF Level(b) = "warning" /\ b.pct = "none" THEN "warning" ELSE b.pct
             n == [b EXCEPT !.mode = Mode(b), !.pct = pct]
  <2>1. b \in TenantBudget
    BY <1>1 DEF Notify, At, Types, ProcessTypes, Budgeted
  <2>2. n \in TenantBudget /\ n.row = b.row /\ n.plan = b.plan /\ n.calls = b.calls
    BY <2>1, Judged DEF TenantBudget
  <2>3. budget' = IF b.row THEN Written(b, n) ELSE budget
    BY <1>1 DEF Notify
  <2>4. ~UsageWrite(r) /\ ~ResetWrite(r)
    BY <1>1 DEF Notify, UsageWrite, ResetWrite, At
  <2> HIDE DEF n, b
  <2> QED
    BY <1>0, <1>a, <2>1, <2>2, <2>3, <2>4, WrittenColumns
<1>2. CASE UsageWrite(r)
  <2> DEFINE n == [b EXCEPT !.calls = @ + 1]
  <2>1. b \in TenantBudget
    BY <1>2 DEF UsageWrite, At, Types, ProcessTypes, Budgeted
  <2>2. n \in TenantBudget /\ n.row = b.row /\ n.plan = b.plan /\ n.calls = b.calls + 1 /\ n.calls # b.calls
    BY <2>1 DEF TenantBudget
  <2>3. budget' = Written(b, n)
    BY <1>2 DEF UsageWrite
  <2>4. ~ResetWrite(r)
    BY <1>2 DEF UsageWrite, ResetWrite, At
  <2> HIDE DEF n
  <2> QED
    BY <1>0, <1>2, <1>a, <2>1, <2>2, <2>3, <2>4, WrittenColumns
<1>3. CASE AlertWrite(r)
  <2> DEFINE n == [b EXCEPT !.pct = "warning"]
  <2>1. b \in TenantBudget
    BY <1>3 DEF AlertWrite, At, Types, ProcessTypes, Budgeted
  <2>2. n \in TenantBudget /\ n.row = b.row /\ n.plan = b.plan /\ n.calls = b.calls
    BY <2>1 DEF TenantBudget
  <2>3. budget' = Written(b, n)
    BY <1>3 DEF AlertWrite
  <2>4. ~UsageWrite(r) /\ ~ResetWrite(r)
    BY <1>3 DEF AlertWrite, UsageWrite, ResetWrite, At
  <2> HIDE DEF n
  <2> QED
    BY <1>0, <1>a, <2>1, <2>2, <2>3, <2>4, WrittenColumns
<1>4. CASE ResetWrite(r)
  <2>1. b \in TenantBudget
    BY <1>4 DEF ResetWrite, At, Types, ProcessTypes, Budgeted
  <2>2. MonthBegun(b) \in TenantBudget /\ MonthBegun(b).row = b.row /\ MonthBegun(b).plan = b.plan
        /\ MonthBegun(b).calls = 0
    BY <2>1 DEF TenantBudget, MonthBegun, Modes
  <2>3. budget' = Written(b, MonthBegun(b))
    BY <1>4 DEF ResetWrite
  <2>4. ~UsageWrite(r)
    BY <1>4 DEF UsageWrite, ResetWrite, At
  <2> QED
    BY <1>0, <1>4, <1>a, <2>1, <2>2, <2>3, <2>4, WrittenColumns
<1>5. CASE UsageRead(r) \/ AlertRead(r) \/ ResetRead(r)
  <2>1. budget' = budget
    BY <1>5 DEF UsageRead, AlertRead, ResetRead, Rest, dbVars
  <2>2. ~UsageWrite(r) /\ ~ResetWrite(r)
    BY <1>5 DEF UsageRead, AlertRead, ResetRead, UsageWrite, ResetWrite, Starts, At
  <2> QED
    BY <1>0, <2>1, <2>2
<1> QED
  BY <1>1, <1>2, <1>3, <1>4, <1>5 DEF Tasking

\* What provisioning and billing make of the two rows.
LEMMA RowWrites ==
  ASSUME Types, Places, NEW r \in AnyRequest
  PROVE  /\ OrgCreate(r) => /\ budget'.row /\ budget'.plan = "free" /\ budget'.calls = 0
                            /\ tenant'.row = "active" /\ tenant'.plan = "free"
         /\ OrgCreated(r) => /\ budget.row => budget' = budget
                             /\ ~budget.row => budget'.row /\ budget'.plan = "free" /\ budget'.calls = 0
                             /\ tenant.row # "none" => tenant' = tenant
                             /\ tenant.row = "none" => tenant'.row = "active" /\ tenant'.plan = "free"
         /\ OrgLimits(r) => /\ budget'.row = budget.row /\ budget'.calls = budget.calls
                            /\ budget.row => budget'.plan = "free"
         /\ ChangePlan(r) => budget'.row = budget.row /\ budget'.calls = budget.calls
         /\ Apply(r) => /\ budget'.row = budget.row /\ budget'.calls = budget.calls
                        /\ tenant'.row = tenant.row
                        /\ \/ budget' = budget /\ tenant' = tenant
                           \/ budget.row => budget'.plan = tenant'.plan
         /\ OrgDeleted(r) => tenant'.plan = tenant.plan /\ (tenant'.row = "none" <=> tenant.row = "none")
<1>0. budget \in TenantBudget /\ tenant \in Tenant
  BY DEF Types, RowTypes
<1>f. "free" \in Plans
  BY DEF Plans
<1>n. NewBudget \in TenantBudget /\ NewBudget.row /\ NewBudget.plan = "free" /\ NewBudget.calls = 0
  BY DEF NewBudget, TenantBudget, Plans, Modes
<1>d. ASSUME NEW x \in TenantBudget
      PROVE  /\ [x EXCEPT !.due = FALSE].row = x.row /\ [x EXCEPT !.due = FALSE].plan = x.plan
             /\ [x EXCEPT !.due = FALSE].calls = x.calls
  BY DEF TenantBudget
<1>1. ASSUME OrgCreate(r)
      PROVE  /\ budget'.row /\ budget'.plan = "free" /\ budget'.calls = 0
             /\ tenant'.row = "active" /\ tenant'.plan = "free"
  BY <1>1, <1>f, <1>n, LimitedColumns DEF OrgCreate
<1>2. ASSUME OrgCreated(r)
      PROVE  /\ budget.row => budget' = budget
             /\ ~budget.row => budget'.row /\ budget'.plan = "free" /\ budget'.calls = 0
             /\ tenant.row # "none" => tenant' = tenant
             /\ tenant.row = "none" => tenant'.row = "active" /\ tenant'.plan = "free"
  BY <1>2, <1>n DEF OrgCreated, Ensured
<1>3. ASSUME OrgLimits(r)
      PROVE  /\ budget'.row = budget.row /\ budget'.calls = budget.calls
             /\ budget.row => budget'.plan = "free"
  BY <1>0, <1>3, <1>f, <1>d, LimitedColumns DEF OrgLimits
<1>4. ASSUME ChangePlan(r)
      PROVE  budget'.row = budget.row /\ budget'.calls = budget.calls
  <2>1. Asked[r].plan \in Plans
    BY <1>4, Carried DEF ChangePlan, Starts, At, Types, ProcessTypes
  <2> QED
    BY <1>0, <1>4, <1>d, <2>1, LimitedColumns DEF ChangePlan
<1>5. ASSUME Apply(r)
      PROVE  /\ budget'.row = budget.row /\ budget'.calls = budget.calls
             /\ tenant'.row = tenant.row
             /\ \/ budget' = budget /\ tenant' = tenant
                \/ budget.row => budget'.plan = tenant'.plan
  <2> DEFINE plan == IF Asked[r].type = "cancelled" THEN "free" ELSE Asked[r].plan
             grants == Asked[r].type # "authenticated" /\ ~seen[r].newer
  <2>1. Asked[r].plan \in Plans
    BY <1>5, Carried DEF Apply, At, Places, Types, ProcessTypes
  <2>2. plan \in Plans /\ Granted(Asked[r].type, plan) = plan
    BY <2>1 DEF Plans, Granted
  <2>3. /\ budget' = IF grants THEN Limited(budget, plan) ELSE budget
        /\ tenant' = IF grants THEN [tenant EXCEPT !.plan = plan] ELSE tenant
    BY <1>5, <2>2 DEF Apply
  <2>4. [tenant EXCEPT !.plan = plan].plan = plan /\ [tenant EXCEPT !.plan = plan].row = tenant.row
    BY <1>0 DEF Tenant
  <2> HIDE DEF plan
  <2> QED
    BY <1>0, <2>2, <2>3, <2>4, LimitedColumns
<1>6. ASSUME OrgDeleted(r)
      PROVE  tenant'.plan = tenant.plan /\ (tenant'.row = "none" <=> tenant.row = "none")
  BY <1>0, <1>6 DEF OrgDeleted, Tenant
<1> QED
  BY <1>1, <1>2, <1>3, <1>4, <1>5, <1>6

\* What time leaves as it is.
LEMMA TimeWrites ==
  ASSUME Types, Passing
  PROVE  /\ tenant' = tenant /\ keys' = keys /\ receipts' = receipts /\ pc' = pc /\ seen' = seen /\ script' = script
         /\ budget'.row = budget.row /\ budget'.plan = budget.plan /\ budget'.calls = budget.calls
         /\ hist'.counted = hist.counted /\ hist'.overlap = hist.overlap /\ hist'.applied = hist.applied
         /\ hist'.adjusted = hist.adjusted
         /\ redis'.auth \subseteq redis.auth /\ (redis'.org => redis.org)
         /\ DOMAIN subs' = DOMAIN subs /\ (subs = <<>> => subs' = <<>>)
         /\ \A s \in DOMAIN subs : /\ subs'[s].row = subs[s].row /\ subs'[s].plan = subs[s].plan
                                   /\ subs'[s].status = subs[s].status /\ (subs'[s].fresh => subs[s].fresh)
<1>1. /\ tenant' = tenant /\ keys' = keys /\ receipts' = receipts /\ pc' = pc /\ seen' = seen /\ script' = script
  BY DEF Passing, Minute, Month, HalfHour, Expire, Rest, dbVars
<1>2. budget'.row = budget.row /\ budget'.plan = budget.plan /\ budget'.calls = budget.calls
  BY DEF Passing, Minute, Month, HalfHour, Expire, Rest, dbVars, Types, RowTypes, TenantBudget
<1>3. /\ hist'.counted = hist.counted /\ hist'.overlap = hist.overlap /\ hist'.applied = hist.applied
      /\ hist'.adjusted = hist.adjusted
  BY DEF Passing, Minute, Month, HalfHour, Expire, Rest, Types, OtherTypes, History
<1>4. redis'.auth \subseteq redis.auth /\ (redis'.org => redis.org)
  BY DEF Passing, Minute, Month, HalfHour, Expire, Changes, Rest, Types, OtherTypes, RedisState
<1>5. CASE HalfHour
  <2>1. subs' = [s \in DOMAIN subs |-> [subs[s] EXCEPT !.fresh = FALSE]]
    BY <1>5 DEF HalfHour
  <2>2. subs = <<>> => subs' = <<>>
    BY <2>1
  <2>3. \A s \in DOMAIN subs : subs[s] \in BillingSubscription
    BY DEF Types, SubTypes
  <2>4. \A s \in DOMAIN subs : /\ subs'[s].row = subs[s].row /\ subs'[s].plan = subs[s].plan
                                /\ subs'[s].status = subs[s].status /\ (subs'[s].fresh => subs[s].fresh)
    BY <2>1, <2>3 DEF BillingSubscription
  <2> QED
    BY <1>1, <1>2, <1>3, <1>4, <2>1, <2>2, <2>4
<1>6. CASE Minute \/ Month \/ Expire
  <2>1. subs' = subs
    BY <1>6 DEF Minute, Month, Expire, Rest, dbVars
  <2> QED
    BY <1>1, <1>2, <1>3, <1>4, <2>1
<1> QED
  BY <1>5, <1>6 DEF Passing

\* What a call leaves as it is.
LEMMA CallWrites ==
  ASSUME Types, Places, NEW r \in AnyRequest, Calling(r)
  PROVE  /\ tenant' = tenant /\ budget' = budget /\ keys' = keys /\ subs' = subs /\ receipts' = receipts
         /\ script' = script /\ r \in Requests /\ \A s \in Requests \ {r} : pc'[s] = pc[s] /\ seen'[s] = seen[s]
         /\ pc'[r] \in {"matched", "entered", "refused", "gate", "compare", "remember", "govern", "answered",
                        "admit", "queued", "computed", "store", "done"}
         /\ hist'.counted = hist.counted /\ hist'.overlap = hist.overlap /\ hist'.applied = hist.applied
         /\ hist'.adjusted = hist.adjusted
         /\ redis'.org = redis.org
<1>1. tenant' = tenant /\ budget' = budget /\ keys' = keys /\ subs' = subs /\ receipts' = receipts /\ script' = script
  BY DEF Calling, Rest, dbVars, AuthHit, AuthLookup, AuthStore, Limit, GateRead, Compare, Remember, Govern,
         EnvelopeHit, EnvelopeRead, EnvelopeStore
<1>2. /\ hist'.counted = hist.counted /\ hist'.overlap = hist.overlap /\ hist'.applied = hist.applied
      /\ hist'.adjusted = hist.adjusted
  BY DEF Calling, Rest, AuthHit, AuthLookup, AuthStore, Limit, GateRead, Compare, Remember, Govern,
         EnvelopeHit, EnvelopeRead, EnvelopeStore, Types, OtherTypes, History
<1>3. redis'.org = redis.org
  BY DEF Calling, Rest, AuthHit, AuthLookup, AuthStore, Limit, GateRead, Compare, Remember, Govern, Redis,
         EnvelopeHit, EnvelopeRead, EnvelopeStore, Types, OtherTypes, RedisState
<1>4. /\ r \in Requests /\ \A s \in Requests \ {r} : pc'[s] = pc[s] /\ seen'[s] = seen[s]
      /\ pc'[r] \in {"matched", "entered", "refused", "gate", "compare", "remember", "govern", "answered",
                     "admit", "queued", "computed", "store", "done"}
  <2> USE DEF Types, ProcessTypes, Rest, At, Starts, Goes, Keeps
  <2>1. CASE AuthHit(r) \/ AuthLookup(r) \/ AuthStore(r) \/ Limit(r)
    BY <2>1 DEF AuthHit, AuthLookup, AuthStore, Limit
  <2>2. CASE GateRead(r) \/ Compare(r) \/ Remember(r) \/ Govern(r)
    BY <2>2 DEF GateRead, Compare, Remember, Govern
  <2>3. CASE EnvelopeHit(r) \/ EnvelopeRead(r) \/ EnvelopeStore(r)
    BY <2>3 DEF EnvelopeHit, EnvelopeRead, EnvelopeStore, Decided
  <2> QED
    BY <2>1, <2>2, <2>3 DEF Calling
<1> QED
  BY <1>1, <1>2, <1>3, <1>4

-----------------------------------------------------------------------------
(* The rows of a tenant.                                                    *)

LEMMA RowsStep ==
  ASSUME Types, Places, RowsAppear, Next
  PROVE  RowsAppear'
<1>t. budget \in TenantBudget /\ tenant \in Tenant
  BY DEF Types, RowTypes
<1>1. CASE Passing
  BY <1>1, TimeWrites DEF RowsAppear, Requests, Asked
<1>2. ASSUME NEW r \in AnyRequest, Calling(r) PROVE RowsAppear'
  BY <1>2, CallWrites DEF RowsAppear, Requests, Asked, Holding
<1>3. ASSUME NEW r \in AnyRequest, Tasking(r) PROVE RowsAppear'
  <2>1. /\ budget'.row = budget.row /\ tenant' = tenant /\ subs' = subs
    BY <1>3, TaskWrites
  <2>2. ~budget.row => hist'.counted = 0
    BY <1>3 DEF Tasking, Notify, UsageRead, UsageWrite, AlertRead, AlertWrite, ResetRead, ResetWrite, At,
                RowsAppear, Rest, Types, OtherTypes, History
  <2>3. /\ script' = script
        /\ \A s \in Requests : pc'[s] = pc[s] \/ pc'[s] \in {"store", "done", "warn"}
                                 \/ (pc'[s] \in {"count", "zero"} /\ budget.row)
    BY <1>3 DEF Tasking, Notify, UsageRead, UsageWrite, AlertRead, AlertWrite, ResetRead, ResetWrite, At, Starts,
                Goes, Rest, Types, ProcessTypes
  <2> QED
    BY <2>1, <2>2, <2>3 DEF RowsAppear, Requests, Asked, Holding
<1>4. ASSUME NEW r \in AnyRequest, Provisioning(r) PROVE RowsAppear'
  <2>0. subs' = subs /\ script' = script
    BY <1>4 DEF Provisioning, Revoke, Create, OrgHit, OrgLookup, OrgInsert, OrgCreate, OrgStore, OrgCreated,
                OrgLimits, OrgDeleted, ChangePlan, Invalidate, Rest, dbVars
  <2>1. hist'.counted = hist.counted
    BY <1>4 DEF Provisioning, Revoke, Create, OrgHit, OrgLookup, OrgInsert, OrgCreate, OrgStore, OrgCreated,
                OrgLimits, OrgDeleted, ChangePlan, Invalidate, Rest, Types, OtherTypes, History
  <2>2. /\ \A s \in Requests \ {r} : pc'[s] = pc[s]
        /\ r \in Requests
        /\ pc'[r] \in {"done", "answered", "found", "insert", "creating", "refused", "limits", "invalidate"}
    BY <1>4 DEF Provisioning, Revoke, Create, OrgHit, OrgLookup, OrgInsert, OrgCreate, OrgStore, OrgCreated,
                OrgLimits, OrgDeleted, ChangePlan, Invalidate, Rest, At, Starts, Goes, Types, ProcessTypes
  <2>3. CASE OrgCreate(r)
    <3>1. pc[r] = "creating" /\ pc'[r] = "found"
      BY <2>3 DEF OrgCreate, At, Goes, Types, ProcessTypes, Requests, Asked
    <3> QED
      BY <2>0, <2>1, <2>2, <2>3, <3>1, RowWrites DEF RowsAppear, Requests, Asked, Holding
  <2>4. CASE OrgCreated(r)
    <3>1. pc'[r] = "limits" /\ \A s \in Requests : pc[s] # "creating"
      BY <2>4 DEF OrgCreated, Starts, At, Goes, Types, ProcessTypes, Requests, Asked, OrgHeld
    <3> QED
      BY <2>0, <2>1, <2>2, <2>4, <3>1, RowWrites DEF RowsAppear, Requests, Asked, Holding
  <2>5. CASE OrgInsert(r)
    <3>1. \A s \in Requests : pc[s] # "creating"
      BY <2>5 DEF OrgInsert, OrgHeld
    <3>2. pc'[r] = "creating" => tenant.row = "none"
      BY <2>5 DEF OrgInsert, At, Goes, Types, ProcessTypes, Requests, Asked
    <3>3. tenant' = tenant /\ budget' = budget
      BY <2>5 DEF OrgInsert, Rest, dbVars
    <3> QED
      BY <2>0, <2>1, <2>2, <3>1, <3>2, <3>3 DEF RowsAppear, Requests, Asked, Holding
  <2>6. CASE OrgLimits(r) \/ ChangePlan(r)
    <3>1. tenant' = tenant /\ pc'[r] # "creating"
      BY <2>6 DEF OrgLimits, ChangePlan, Starts, At, Goes, Types, ProcessTypes, Requests, Asked, Rest, dbVars
    <3>2. budget'.row = budget.row
      BY <2>6, RowWrites
    <3> QED
      BY <2>0, <2>1, <2>2, <3>1, <3>2 DEF RowsAppear, Requests, Asked, Holding
  <2>7. CASE OrgDeleted(r)
    <3>1. budget' = budget /\ pc'[r] # "creating"
      BY <2>7 DEF OrgDeleted, Starts, At, Goes, Types, ProcessTypes, Requests, Asked, Rest, dbVars
    <3> QED
      BY <2>0, <2>1, <2>2, <2>7, <3>1, RowWrites DEF RowsAppear, Requests, Asked, Holding
  <2>8. CASE Revoke(r) \/ Create(r) \/ OrgHit(r) \/ OrgLookup(r) \/ OrgStore(r) \/ Invalidate(r)
    <3>1. tenant' = tenant /\ budget' = budget /\ pc'[r] # "creating"
      BY <2>8 DEF Revoke, Create, OrgHit, OrgLookup, OrgStore, Invalidate, Starts, At, Goes, Types, ProcessTypes,
                  Requests, Asked, Rest, dbVars
    <3> QED
      BY <2>0, <2>1, <2>2, <3>1 DEF RowsAppear, Requests, Asked, Holding
  <2> QED
    BY <1>4, <2>3, <2>4, <2>5, <2>6, <2>7, <2>8 DEF Provisioning
<1>5. ASSUME NEW r \in AnyRequest, Billing(r) PROVE RowsAppear'
  <2>0. script' = script /\ hist'.counted = hist.counted
    BY <1>5 DEF Billing, CheckoutLock, CheckoutDecide, Buy, CheckoutCommit, VerifyRead, VerifyWrite, Receive,
                Receipt, Load, Apply, Rest, Types, OtherTypes, History
  <2>1. /\ \A s \in Requests \ {r} : pc'[s] = pc[s]
        /\ r \in Requests
        /\ \/ pc'[r] \in {"done", "refused", "new", "invalidate"}
           \/ pc'[r] \in Holding \cup {"sign", "receipt", "load", "apply"} /\ budget.row
    <3> USE DEF At, Starts, Goes, Types, ProcessTypes, SubTypes, RowsAppear, Holding
    <3>1. CASE CheckoutLock(r) \/ CheckoutDecide(r) \/ Buy(r) \/ CheckoutCommit(r)
      BY <3>1 DEF CheckoutLock, CheckoutDecide, Buy, CheckoutCommit, Rest
    <3>2. CASE VerifyRead(r) \/ VerifyWrite(r) \/ Receive(r)
      BY <3>2 DEF VerifyRead, VerifyWrite, Receive, Rest
    <3>3. CASE Receipt(r) \/ Load(r) \/ Apply(r)
      BY <3>3 DEF Receipt, Load, Apply, Rest
    <3> QED
      BY <1>5, <3>1, <3>2, <3>3 DEF Billing
  <2>2. budget'.row = budget.row /\ tenant'.row = tenant.row /\ (~budget.row => tenant'.plan = tenant.plan)
    <3>1. CASE Apply(r)
      BY <3>1, RowWrites DEF Apply, At, RowsAppear
    <3> QED
      BY <1>5, <3>1 DEF Billing, CheckoutLock, CheckoutDecide, Buy, CheckoutCommit, VerifyRead, VerifyWrite,
                        Receive, Receipt, Load, Rest, dbVars
  <2>3. ~budget.row => subs' = <<>>
    BY <1>5 DEF Billing, CheckoutLock, CheckoutDecide, Buy, CheckoutCommit, VerifyRead, VerifyWrite,
                Receive, Receipt, Load, Apply, Rest, dbVars, RowsAppear, At, Holding
  <2> QED
    BY <2>0, <2>1, <2>2, <2>3 DEF RowsAppear, Requests, Asked, Holding
<1> QED
  BY <1>1, <1>2, <1>3, <1>4, <1>5, Steps

-----------------------------------------------------------------------------
(* An organisation's token.                                                 *)

\* What the tasks leave of the requests as it is.
LEMMA TaskMoves ==
  ASSUME Types, NEW r \in AnyRequest, Tasking(r)
  PROVE  /\ script' = script /\ r \in Requests /\ (pc[r] # "new" \/ Asked[r].op \in {"usage", "alert", "reset"})
         /\ \A s \in Requests \ {r} : pc'[s] = pc[s] /\ seen'[s] = seen[s]
         /\ pc'[r] \in {"store", "done", "warn", "count", "zero"}
         /\ pc[r] \in {"new", "computed", "count", "warn", "zero"}
         /\ hist'.applied = hist.applied /\ hist'.adjusted = hist.adjusted
         /\ hist'.through = hist.through /\ hist'.blind = hist.blind
<1>1. /\ hist'.applied = hist.applied /\ hist'.adjusted = hist.adjusted
      /\ hist'.through = hist.through /\ hist'.blind = hist.blind
  BY DEF Tasking, Notify, UsageRead, UsageWrite, AlertRead, AlertWrite, ResetRead, ResetWrite, Rest,
         Types, OtherTypes, History
<1>2. /\ script' = script /\ r \in Requests /\ (pc[r] # "new" \/ Asked[r].op \in {"usage", "alert", "reset"})
      /\ \A s \in Requests \ {r} : pc'[s] = pc[s] /\ seen'[s] = seen[s]
      /\ pc'[r] \in {"store", "done", "warn", "count", "zero"}
      /\ pc[r] \in {"new", "computed", "count", "warn", "zero"}
  BY DEF Tasking, Notify, UsageRead, UsageWrite, AlertRead, AlertWrite, ResetRead, ResetWrite, At, Starts,
         Goes, Keeps, Rest, Types, ProcessTypes
<1> QED
  BY <1>1, <1>2

\* What provisioning leaves as it is.
LEMMA ProvisionMoves ==
  ASSUME Types, NEW r \in AnyRequest, Provisioning(r)
  PROVE  /\ script' = script /\ r \in Requests /\ subs' = subs /\ receipts' = receipts /\ seen' = seen
         /\ \A s \in Requests \ {r} : pc'[s] = pc[s]
         /\ pc'[r] \in {"done", "answered", "found", "insert", "creating", "refused", "limits", "invalidate"}
         /\ hist'.counted = hist.counted /\ hist'.overlap = hist.overlap /\ hist'.applied = hist.applied
         /\ hist'.through = hist.through /\ hist'.blind = hist.blind
         /\ redis'.key = redis.key /\ redis'.auth = redis.auth
<1>1. script' = script /\ subs' = subs /\ receipts' = receipts /\ seen' = seen
  BY DEF Provisioning, Revoke, Create, OrgHit, OrgLookup, OrgInsert, OrgCreate, OrgStore, OrgCreated,
         OrgLimits, OrgDeleted, ChangePlan, Invalidate, Rest, dbVars
<1>2. /\ hist'.counted = hist.counted /\ hist'.overlap = hist.overlap /\ hist'.applied = hist.applied
      /\ hist'.through = hist.through /\ hist'.blind = hist.blind
  BY DEF Provisioning, Revoke, Create, OrgHit, OrgLookup, OrgInsert, OrgCreate, OrgStore, OrgCreated,
         OrgLimits, OrgDeleted, ChangePlan, Invalidate, Rest, Types, OtherTypes, History
<1>3. redis'.key = redis.key /\ redis'.auth = redis.auth
  BY DEF Provisioning, Revoke, Create, OrgHit, OrgLookup, OrgInsert, OrgCreate, OrgStore, OrgCreated, Redis,
         OrgLimits, OrgDeleted, ChangePlan, Invalidate, Rest, Types, OtherTypes, RedisState
<1>4. /\ r \in Requests /\ \A s \in Requests \ {r} : pc'[s] = pc[s]
      /\ pc'[r] \in {"done", "answered", "found", "insert", "creating", "refused", "limits", "invalidate"}
  BY DEF Provisioning, Revoke, Create, OrgHit, OrgLookup, OrgInsert, OrgCreate, OrgStore, OrgCreated,
         OrgLimits, OrgDeleted, ChangePlan, Invalidate, Rest, At, Starts, Goes, Types, ProcessTypes
<1> QED
  BY <1>1, <1>2, <1>3, <1>4

\* What billing leaves as it is.
LEMMA BillingMoves ==
  ASSUME Types, Places, NEW r \in AnyRequest, Billing(r)
  PROVE  /\ script' = script /\ r \in Requests /\ redis' = redis /\ keys' = keys
         /\ \A s \in Requests \ {r} : pc'[s] = pc[s] /\ seen'[s] = seen[s]
         /\ Asked[r].op \in {"checkout", "verify", "event"} \/ pc[r] = "sign"
         /\ pc'[r] \in {"done", "refused", "new", "invalidate", "sign", "receipt", "load", "apply"} \cup Holding
         /\ hist'.counted = hist.counted /\ hist'.overlap = hist.overlap
         /\ hist'.through = hist.through /\ hist'.blind = hist.blind /\ hist'.adjusted = hist.adjusted
         /\ ~Apply(r) => tenant' = tenant /\ budget' = budget /\ receipts' = receipts /\ hist' = hist
<1>1. script' = script /\ redis' = redis /\ keys' = keys
  BY DEF Billing, CheckoutLock, CheckoutDecide, Buy, CheckoutCommit, VerifyRead, VerifyWrite, Receive,
         Receipt, Load, Apply, Rest, dbVars
<1>2. /\ hist'.counted = hist.counted /\ hist'.overlap = hist.overlap
      /\ hist'.through = hist.through /\ hist'.blind = hist.blind /\ hist'.adjusted = hist.adjusted
  BY DEF Billing, CheckoutLock, CheckoutDecide, Buy, CheckoutCommit, VerifyRead, VerifyWrite, Receive,
         Receipt, Load, Apply, Rest, Types, OtherTypes, History
<1>3. ~Apply(r) => tenant' = tenant /\ budget' = budget /\ receipts' = receipts /\ hist' = hist
  BY DEF Billing, CheckoutLock, CheckoutDecide, Buy, CheckoutCommit, VerifyRead, VerifyWrite, Receive,
         Receipt, Load, Rest, dbVars
<1>4. /\ r \in Requests /\ \A s \in Requests \ {r} : pc'[s] = pc[s] /\ seen'[s] = seen[s]
      /\ Asked[r].op \in {"checkout", "verify", "event"} \/ pc[r] = "sign"
      /\ pc'[r] \in {"done", "refused", "new", "invalidate", "sign", "receipt", "load", "apply"} \cup Holding
  <2> USE DEF At, Starts, Goes, Keeps, Types, ProcessTypes, Places, Holding, Rest
  <2>1. CASE CheckoutLock(r) \/ CheckoutDecide(r) \/ Buy(r) \/ CheckoutCommit(r)
    BY <2>1 DEF CheckoutLock, CheckoutDecide, Buy, CheckoutCommit
  <2>2. CASE VerifyRead(r) \/ VerifyWrite(r) \/ Receive(r)
    BY <2>2 DEF VerifyRead, VerifyWrite, Receive
  <2>3. CASE Receipt(r) \/ Load(r) \/ Apply(r)
    BY <2>3 DEF Receipt, Load, Apply
  <2> QED
    BY <2>1, <2>2, <2>3 DEF Billing
<1> QED
  BY <1>1, <1>2, <1>3, <1>4

\* Rows that appeared stay.
LEMMA RowStays ==
  ASSUME Types, Places, Next
  PROVE  budget.row => budget'.row
<1>1. CASE Passing
  BY <1>1, TimeWrites
<1>2. ASSUME NEW r \in AnyRequest, Calling(r) PROVE budget' = budget
  BY <1>2, CallWrites
<1>3. ASSUME NEW r \in AnyRequest, Tasking(r) PROVE budget'.row = budget.row
  BY <1>3, TaskWrites
<1>4. ASSUME NEW r \in AnyRequest, Provisioning(r) PROVE budget.row => budget'.row
  BY <1>4, RowWrites DEF Provisioning, Revoke, Create, OrgHit, OrgLookup, OrgInsert, OrgStore, OrgDeleted,
                         Invalidate, Rest, dbVars
<1>5. ASSUME NEW r \in AnyRequest, Billing(r) PROVE budget.row => budget'.row
  BY <1>5, RowWrites, BillingMoves
<1> QED
  BY <1>1, <1>2, <1>3, <1>4, <1>5, Steps

LEMMA TokenStep ==
  ASSUME Types, Places, RowsAppear, TokenFinds, Next
  PROVE  TokenFinds'
<1>0. budget.row => budget'.row
  BY RowStays
<1>1. CASE Passing
  BY <1>1, <1>0, TimeWrites DEF TokenFinds, Requests, Asked
<1>2. ASSUME NEW r \in AnyRequest, Calling(r) PROVE TokenFinds'
  <2>1. Asked[r].op = "org" => pc[r] \notin {"new", "insert", "creating", "refused"}
    BY <1>2 DEF Calling, AuthHit, AuthLookup, AuthStore, Limit, GateRead, Compare, Remember, Govern,
                EnvelopeHit, EnvelopeRead, EnvelopeStore, Asking, At, Starts
  <2> QED
    BY <1>0, <1>2, <2>1, CallWrites DEF TokenFinds, Requests, Asked
<1>3. ASSUME NEW r \in AnyRequest, Tasking(r) PROVE TokenFinds'
  <2>1. Asked[r].op = "org" => pc[r] \notin {"new", "insert", "creating", "refused"}
    BY <1>3, TaskMoves
  <2> QED
    BY <1>0, <1>3, <2>1, TaskMoves, TaskWrites DEF TokenFinds, Requests, Asked
<1>4. ASSUME NEW r \in AnyRequest, Provisioning(r) PROVE TokenFinds'
  <2>1. CASE OrgCreate(r)
    <3>1. redis' = redis
      BY <2>1 DEF OrgCreate, Rest
    <3>2. budget'.row
      BY <2>1, RowWrites
    <3> QED
      BY <1>4, <3>1, <3>2, ProvisionMoves DEF TokenFinds, Requests, Asked
  <2>2. CASE OrgCreated(r)
    <3>1. redis' = redis
      BY <2>2 DEF OrgCreated, Rest
    <3>2. budget'.row
      BY <2>2, RowWrites
    <3> QED
      BY <1>4, <3>1, <3>2, ProvisionMoves DEF TokenFinds, Requests, Asked
  <2>3. CASE ~OrgCreate(r) /\ ~OrgCreated(r)
    <3>1. tenant'.row = "none" <=> tenant.row = "none"
      BY <1>4, <2>3, RowWrites DEF Provisioning, Revoke, Create, OrgHit, OrgLookup, OrgInsert, OrgStore,
                                   OrgLimits, OrgDeleted, ChangePlan, Invalidate, Rest, dbVars
    <3>2. /\ redis'.org => redis.org \/ (OrgStore(r) /\ pc[r] = "found")
          /\ Asked[r].op = "org" => \/ pc[r] \notin {"new", "insert", "creating", "refused"}
                                    \/ pc'[r] \in {"insert", "creating", "refused"}
                                    \/ pc'[r] = "answered" /\ redis.org
                                    \/ pc'[r] = "found" /\ tenant.row # "none"
      BY <1>4, <2>3 DEF Provisioning, Revoke, Create, OrgHit, OrgLookup, OrgInsert, OrgStore, OrgLimits, OrgDeleted,
                        ChangePlan, Invalidate, Rest, At, Starts, Goes, Known, Redis, Types, ProcessTypes, OtherTypes,
                        RedisState
    <3>3. pc[r] = "found" => Asked[r].op = "org"
      BY <1>4, ProvisionMoves DEF Places
    <3> QED
      BY <1>0, <1>4, <3>1, <3>2, <3>3, ProvisionMoves DEF TokenFinds, Requests, Asked
  <2> QED
    BY <2>1, <2>2, <2>3
<1>5. ASSUME NEW r \in AnyRequest, Billing(r) PROVE TokenFinds'
  <2>1. tenant'.row = tenant.row
    BY <1>5, RowWrites, BillingMoves
  <2>2. Asked[r].op = "org" => pc[r] = "sign"
    BY <1>5, BillingMoves
  <2> QED
    BY <1>0, <1>5, <2>1, <2>2, BillingMoves DEF TokenFinds, Requests, Asked
<1> QED
  BY <1>1, <1>2, <1>3, <1>4, <1>5, Steps

-----------------------------------------------------------------------------
(* The count of the month, and the rate of a key.                           *)

LEMMA CountStep ==
  ASSUME Types, Places, RowsAppear, CountHeld, Next
  PROVE  CountHeld'
<1>1. CASE Passing
  BY <1>1, TimeWrites DEF CountHeld, Counting, Requests, Asked
<1>2. ASSUME NEW r \in AnyRequest, Calling(r) PROVE CountHeld'
  BY <1>2, CallWrites DEF CountHeld, Counting, Requests, Asked
<1>3. ASSUME NEW r \in AnyRequest, Tasking(r) PROVE CountHeld'
  <2>0. budget.calls \in Nat /\ hist.counted \in Nat
    BY DEF Types, RowTypes, OtherTypes, TenantBudget, History
  <2>1. CASE UsageRead(r) \/ ResetRead(r)
    <3>1. hist'.overlap = Overlaps(r) /\ hist'.counted = hist.counted
      BY <2>1 DEF UsageRead, ResetRead, Types, OtherTypes, History
    <3>2. budget' = budget /\ (pc'[r] \in {"count", "zero"} => seen'[r].budget = budget)
      BY <2>1 DEF UsageRead, ResetRead, Starts, At, Goes, Keeps, Rest, dbVars, Types, ProcessTypes
    <3>3. CASE Overlaps(r)
      BY <3>1, <3>3 DEF CountHeld
    <3>4. CASE ~Overlaps(r)
      <4>1. ~hist.overlap /\ \A i \in Requests \ {r} : pc'[i] \notin {"count", "zero"}
        BY <1>3, <3>4, TaskMoves DEF Overlaps, Counting
      <4> QED
        BY <1>3, <3>1, <3>2, <4>1, TaskMoves DEF CountHeld, Counting, Requests, Asked
    <3> QED
      BY <3>3, <3>4
  <2>2. CASE UsageWrite(r)
    <3>1. hist'.overlap = hist.overlap /\ hist'.counted = hist.counted + 1
      BY <2>2 DEF UsageWrite, Types, OtherTypes, History
    <3>2. pc[r] = "count" /\ pc'[r] = "done"
      BY <2>2 DEF UsageWrite, At, Goes, Types, ProcessTypes
    <3>3. budget'.row = budget.row /\ budget'.calls = seen[r].budget.calls + 1 /\ budget.row
      BY <1>3, <2>2, <3>2, TaskWrites, TaskMoves DEF RowsAppear
    <3> QED
      BY <1>3, <2>0, <3>1, <3>2, <3>3, TaskMoves DEF CountHeld, Counting, Requests, Asked
  <2>3. CASE ResetWrite(r)
    <3>1. hist'.overlap = hist.overlap /\ hist'.counted = 0
      BY <2>3 DEF ResetWrite, Types, OtherTypes, History
    <3>2. pc[r] = "zero" /\ pc'[r] = "done"
      BY <2>3 DEF ResetWrite, At, Goes, Types, ProcessTypes
    <3>3. \/ budget'.calls = 0
          \/ seen[r].budget.calls = 0 /\ budget'.calls = budget.calls
      BY <1>3, <2>3, TaskWrites
    <3> QED
      BY <1>3, <2>0, <3>1, <3>2, <3>3, TaskMoves DEF CountHeld, Counting, Requests, Asked
  <2>4. CASE Notify(r) \/ AlertRead(r) \/ AlertWrite(r)
    <3>1. hist' = hist /\ pc'[r] \notin {"count", "zero"}
      BY <2>4 DEF Notify, AlertRead, AlertWrite, Rest, Starts, At, Goes, Types, ProcessTypes
    <3>2. ~UsageWrite(r) /\ ~ResetWrite(r)
      BY <2>4 DEF Notify, AlertRead, AlertWrite, UsageWrite, ResetWrite, Starts, At
    <3>3. budget'.calls = budget.calls /\ budget'.row = budget.row
      BY <1>3, <3>2, TaskWrites
    <3> QED
      BY <1>3, <3>1, <3>3, TaskMoves DEF CountHeld, Counting, Requests, Asked
  <2> QED
    BY <1>3, <2>1, <2>2, <2>3, <2>4 DEF Tasking
<1>4. ASSUME NEW r \in AnyRequest, Provisioning(r) PROVE CountHeld'
  <2>1. CASE OrgCreate(r)
    <3>1. ~budget.row
      BY <2>1 DEF OrgCreate, At, RowsAppear
    <3>2. \A s \in Requests : ~Counting(s)
      BY <3>1 DEF RowsAppear, Counting
    <3> QED
      BY <1>4, <2>1, <3>1, <3>2, RowWrites, ProvisionMoves DEF CountHeld, Counting, RowsAppear, Requests, Asked
  <2>2. CASE OrgCreated(r) /\ ~budget.row
    <3>2. \A s \in Requests : ~Counting(s)
      BY <2>2 DEF RowsAppear, Counting
    <3> QED
      BY <1>4, <2>2, <3>2, RowWrites, ProvisionMoves DEF CountHeld, Counting, RowsAppear, Requests, Asked
  <2>3. CASE ~OrgCreate(r) /\ (OrgCreated(r) => budget.row)
    <3>1. budget'.row = budget.row /\ budget'.calls = budget.calls
      BY <1>4, <2>3, RowWrites DEF Provisioning, Revoke, Create, OrgHit, OrgLookup, OrgInsert, OrgStore, OrgDeleted,
                                   Invalidate, Rest, dbVars
    <3> QED
      BY <1>4, <3>1, ProvisionMoves DEF CountHeld, Counting, Requests, Asked
  <2> QED
    BY <2>1, <2>2, <2>3
<1>5. ASSUME NEW r \in AnyRequest, Billing(r) PROVE CountHeld'
  <2>1. budget'.row = budget.row /\ budget'.calls = budget.calls
    BY <1>5, RowWrites, BillingMoves
  <2> QED
    BY <1>5, <2>1, BillingMoves DEF CountHeld, Counting, Holding, Requests, Asked
<1> QED
  BY <1>1, <1>2, <1>3, <1>4, <1>5, Steps

LEMMA RateStep ==
  ASSUME Types, Places, RateHeld, Next
  PROVE  RateHeld'
<1>1. CASE Minute
  <2>1. /\ hist'.through = [k \in Keys |-> 0] /\ redis'.key = [k \in Keys |-> 0]
    BY <1>1 DEF Minute, Types, OtherTypes, History, RedisState
  <2> QED
    BY <2>1, TenancyAssumption DEF RateHeld
<1>2. CASE Month \/ HalfHour \/ Expire
  <2>1. hist' = hist /\ redis'.key = redis.key
    BY <1>2 DEF Month, HalfHour, Expire, Changes, Rest, Types, OtherTypes, RedisState
  <2> QED
    BY <2>1 DEF RateHeld
<1>3. ASSUME NEW r \in AnyRequest, Calling(r), ~Limit(r) PROVE RateHeld'
  <2>1. hist' = hist /\ redis'.key = redis.key
    BY <1>3 DEF Calling, AuthHit, AuthLookup, AuthStore, GateRead, Compare, Remember, Govern, Redis,
                EnvelopeHit, EnvelopeRead, EnvelopeStore, Rest, Types, OtherTypes, RedisState
  <2> QED
    BY <2>1 DEF RateHeld
<1>4. ASSUME NEW r \in AnyRequest, Limit(r) PROVE RateHeld'
  <2> DEFINE k == Asked[r].key
             limited == redis.up /\ (KeyOver(redis.key[k] + 1) \/ redis.tenant + 1 > TenantRate)
  <2>0. k \in Keys
    BY <1>4, Carried DEF Limit, Places, At, Types, ProcessTypes
  <2>1. CASE ~keys[k].may
    BY <1>4, <2>1 DEF Limit, RateHeld
  <2>2. CASE keys[k].may
    <3>1. /\ hist'.through = [hist.through EXCEPT ![k] = IF limited THEN @ ELSE @ + 1]
          /\ hist'.blind = (hist.blind \/ ~redis.up)
      BY <1>4, <2>2 DEF Limit, Types, OtherTypes, History
    <3>2. redis.up => redis'.key = [redis.key EXCEPT ![k] = redis.key[k] + 1]
      BY <1>4, <2>2 DEF Limit, Types, OtherTypes, RedisState
    <3>3. redis.key \in [Keys -> Nat] /\ hist.through \in [Keys -> Nat] /\ KeyRate \in Nat
      BY TenancyAssumption DEF Types, OtherTypes, RedisState, History
    <3>4. CASE ~redis.up
      BY <3>1, <3>4 DEF RateHeld
    <3>5. CASE redis.up
      <4>1. ~hist'.blind => ~hist.blind
        BY <3>1
      <4>2. ~limited => redis.key[k] + 1 <= KeyRate
        BY <2>0, <3>3, <3>5 DEF KeyOver
      <4>3. /\ limited => hist'.through[k] = hist.through[k]
            /\ ~limited => hist'.through[k] = hist.through[k] + 1
            /\ \A j \in Keys \ {k} : hist'.through[j] = hist.through[j]
        BY <2>0, <3>1, <3>3
      <4>4. redis'.key[k] = redis.key[k] + 1 /\ \A j \in Keys \ {k} : redis'.key[j] = redis.key[j]
        BY <2>0, <3>2, <3>3, <3>5
      <4>5. ASSUME NEW j \in Keys,
                   ~hist'.blind PROVE hist'.through[j] <= redis'.key[j] /\ hist'.through[j] <= KeyRate
        <5>1. hist.through[j] <= redis.key[j] /\ hist.through[j] <= KeyRate
          BY <4>1, <4>5 DEF RateHeld
        <5> HIDE DEF limited, k
        <5> QED
          BY <2>0, <3>3, <4>2, <4>3, <4>4, <5>1
      <4> QED
        BY <4>5 DEF RateHeld
    <3> QED
      BY <3>4, <3>5
  <2> QED
    BY <2>1, <2>2
<1>5. ASSUME NEW r \in AnyRequest, Tasking(r) PROVE RateHeld'
  BY <1>5, TaskMoves, TaskWrites DEF RateHeld
<1>6. ASSUME NEW r \in AnyRequest, Provisioning(r) PROVE RateHeld'
  BY <1>6, ProvisionMoves DEF RateHeld
<1>7. ASSUME NEW r \in AnyRequest, Billing(r) PROVE RateHeld'
  BY <1>7, BillingMoves DEF RateHeld
<1> QED
  BY <1>1, <1>2, <1>3, <1>4, <1>5, <1>6, <1>7, Steps DEF Passing

-----------------------------------------------------------------------------
(* Checkouts and receipts.                                                  *)

\* A status that is written is never "created" again.
LEMMA StatusWrites ==
  ASSUME Types, Places, NEW r \in AnyRequest, VerifyWrite(r) \/ Apply(r)
  PROVE  /\ DOMAIN subs' = DOMAIN subs
         /\ \A s \in DOMAIN subs : /\ subs'[s].row = subs[s].row /\ subs'[s].plan = subs[s].plan
                                   /\ subs'[s].fresh = subs[s].fresh
                                   /\ subs'[s].status = subs[s].status \/ subs'[s].status # "created"
<1>1. PICK i \in {Asked[r].sub} : \E st \in {"authenticated", "active", "cancelled"} :
        subs' = [subs EXCEPT ![i].status = st]
  <2>1. CASE VerifyWrite(r)
    BY <2>1 DEF VerifyWrite
  <2>2. CASE Apply(r)
    <3>1. Asked[r].type \in DOMAIN Status
      BY <2>2, Carried DEF Apply, At, Places, Types, ProcessTypes
    <3>2. Status[Asked[r].type] \in {"authenticated", "active", "cancelled"}
      BY <3>1 DEF Status
    <3> QED
      BY <2>2, <3>2 DEF Apply
  <2> QED
    BY <2>1, <2>2
<1>2. PICK st \in {"authenticated", "active", "cancelled"} : subs' = [subs EXCEPT ![i].status = st]
  BY <1>1
<1>3. \A s \in DOMAIN subs : subs[s] \in BillingSubscription
  BY DEF Types, SubTypes
<1>4. ASSUME NEW x \in BillingSubscription
      PROVE  /\ [x EXCEPT !.status = st].row = x.row /\ [x EXCEPT !.status = st].plan = x.plan
             /\ [x EXCEPT !.status = st].fresh = x.fresh /\ [x EXCEPT !.status = st].status = st
  BY DEF BillingSubscription
<1>5. /\ DOMAIN subs' = DOMAIN subs
      /\ \A s \in DOMAIN subs : subs'[s] = IF s = i THEN [subs[s] EXCEPT !.status = st] ELSE subs[s]
  BY <1>2
<1>6. ASSUME NEW s \in DOMAIN subs
      PROVE  /\ subs'[s].row = subs[s].row /\ subs'[s].plan = subs[s].plan
             /\ subs'[s].fresh = subs[s].fresh
             /\ subs'[s].status = subs[s].status \/ subs'[s].status # "created"
  <2>1. CASE s = i
    <3>1. subs'[s] = [subs[s] EXCEPT !.status = st] /\ subs[s] \in BillingSubscription
      BY <1>3, <1>5, <2>1
    <3> QED
      BY <1>4, <3>1
  <2>2. CASE s # i
    BY <1>5, <2>2
  <2> QED
    BY <2>1, <2>2
<1> QED
  BY <1>5, <1>6

\* Checkouts that could be used again only become fewer, except by the commit of one.
Waits(s) == subs[s].row /\ subs[s].status = "created" /\ subs[s].fresh
LEMMA CheckoutKept ==
  ASSUME CheckoutHeld, script' = script,
         DOMAIN subs \subseteq DOMAIN subs',
         \A s \in DOMAIN subs' : Waits(s)' => s \in DOMAIN subs /\ Waits(s),
         \A s \in DOMAIN subs : subs'[s].plan = subs[s].plan,
         \A s \in Requests : pc'[s] \in Holding => pc[s] = pc'[s] /\ seen'[s] = seen[s]
  PROVE  CheckoutHeld'
  BY DEF CheckoutHeld, Reusable, Rows, Waits, Requests, Asked, Holding

LEMMA CheckoutStep ==
  ASSUME Types, Places, CheckoutHeld, Next
  PROVE  CheckoutHeld'
<1>1. CASE Passing
  <2>1. /\ script' = script /\ pc' = pc /\ seen' = seen /\ DOMAIN subs' = DOMAIN subs
        /\ \A s \in DOMAIN subs : /\ subs'[s].row = subs[s].row /\ subs'[s].plan = subs[s].plan
                                  /\ subs'[s].status = subs[s].status /\ (subs'[s].fresh => subs[s].fresh)
    BY <1>1, TimeWrites
  <2> QED
    BY <2>1, CheckoutKept DEF Waits
<1>2. ASSUME NEW r \in AnyRequest, Calling(r) PROVE CheckoutHeld'
  <2>1. /\ script' = script /\ subs' = subs
        /\ \A s \in Requests : pc'[s] \in Holding => pc[s] = pc'[s] /\ seen'[s] = seen[s]
    BY <1>2, CallWrites DEF Holding
  <2> QED
    BY <2>1, CheckoutKept DEF Waits
<1>3. ASSUME NEW r \in AnyRequest, Tasking(r) PROVE CheckoutHeld'
  <2>1. /\ script' = script /\ subs' = subs
        /\ \A s \in Requests : pc'[s] \in Holding => pc[s] = pc'[s] /\ seen'[s] = seen[s]
    BY <1>3, TaskWrites, TaskMoves DEF Holding
  <2> QED
    BY <2>1, CheckoutKept DEF Waits
<1>4. ASSUME NEW r \in AnyRequest, Provisioning(r) PROVE CheckoutHeld'
  <2>1. /\ script' = script /\ subs' = subs
        /\ \A s \in Requests : pc'[s] \in Holding => pc[s] = pc'[s] /\ seen'[s] = seen[s]
    BY <1>4, ProvisionMoves DEF Holding
  <2> QED
    BY <2>1, CheckoutKept DEF Waits
<1>5. ASSUME NEW r \in AnyRequest, Billing(r) PROVE CheckoutHeld'
  <2>0. script' = script /\ r \in Requests /\ \A s \in Requests \ {r} : pc'[s] = pc[s] /\ seen'[s] = seen[s]
    BY <1>5, BillingMoves
  <2>1. CASE VerifyRead(r) \/ Receive(r) \/ Receipt(r) \/ Load(r)
    <3>1. subs' = subs /\ pc'[r] \notin Holding
      BY <2>1 DEF VerifyRead, Receive, Receipt, Load, Rest, dbVars, Starts, At, Goes, Types, ProcessTypes, Holding
    <3> QED
      BY <2>0, <3>1, CheckoutKept DEF Waits
  <2>2. CASE VerifyWrite(r) \/ Apply(r)
    <3>1. pc'[r] \notin Holding
      BY <2>2 DEF VerifyWrite, Apply, At, Goes, Types, ProcessTypes, Holding
    <3>2. /\ DOMAIN subs' = DOMAIN subs
          /\ \A s \in DOMAIN subs : /\ subs'[s].row = subs[s].row /\ subs'[s].plan = subs[s].plan
                                    /\ subs'[s].fresh = subs[s].fresh
                                    /\ subs'[s].status = subs[s].status \/ subs'[s].status # "created"
      BY <2>2, StatusWrites
    <3> QED
      BY <2>0, <3>1, <3>2, CheckoutKept DEF Waits
  <2>3. CASE CheckoutLock(r)
    <3>1. subs' = subs /\ pc'[r] \in {"locked", "refused"} /\ \A s \in Requests : pc[s] \notin Holding
      BY <2>3 DEF CheckoutLock, BudgetHeld, Rest, dbVars, Starts, At, Goes, Types, ProcessTypes, Holding
    <3> QED
      BY <2>0, <3>1 DEF CheckoutHeld, Reusable, Rows, Requests, Asked, Holding
  <2>4. CASE CheckoutDecide(r)
    <3>1. /\ subs' = subs /\ pc[r] = "locked" /\ pc'[r] \in {"refused", "done", "buying"}
          /\ pc'[r] = "buying" => Reusable(Asked[r].plan) = {}
      BY <2>4 DEF CheckoutDecide, Rest, dbVars, At, Goes, Types, ProcessTypes
    <3> QED
      BY <2>0, <3>1 DEF CheckoutHeld, Reusable, Rows, Requests, Asked, Holding
  <2>5. CASE Buy(r)
    <3>1. CASE subs' = subs /\ pc'[r] = "refused"
      BY <2>0, <3>1, CheckoutKept DEF Waits, Holding
    <3>2. CASE /\ subs' = Append(subs, [plan |-> Asked[r].plan, status |-> "created", row |-> FALSE, fresh |-> TRUE])
               /\ seen'[r] = [sub |-> Len(subs) + 1] /\ pc'[r] = "bought"
      <4>1. /\ DOMAIN subs = 1 .. Len(subs) /\ DOMAIN subs' = 1 .. Len(subs) + 1 /\ Len(subs) \in Nat
            /\ \A s \in DOMAIN subs : subs'[s] = subs[s]
            /\ subs'[Len(subs) + 1].plan = Asked[r].plan /\ subs'[Len(subs) + 1].row = FALSE
        BY <3>2 DEF Types, SubTypes
      <4>2. DOMAIN subs' = DOMAIN subs \cup {Len(subs) + 1}
        BY <4>1
      <4>3. pc[r] = "buying"
        BY <2>5 DEF Buy, At
      <4>4. Rows' = Rows /\ \A p : Reusable(p)' = Reusable(p)
        BY <4>1, <4>2 DEF Rows, Reusable
      <4> QED
        BY <2>0, <3>2, <4>1, <4>2, <4>3, <4>4 DEF CheckoutHeld, Rows, Requests, Asked, Holding
    <3> QED
      BY <2>0, <2>5, <3>1, <3>2 DEF Buy, Goes, Keeps, Types, ProcessTypes
  <2>6. CASE CheckoutCommit(r)
    <3>1. pc[r] = "bought" /\ pc'[r] = "done"
      BY <2>6 DEF CheckoutCommit, At, Goes, Types, ProcessTypes
    <3>2. CASE subs' = subs
      BY <2>0, <3>1, <3>2, CheckoutKept DEF Waits, Holding
    <3>3. CASE subs' = [subs EXCEPT ![seen[r].sub].row = TRUE]
      <4> DEFINE n == seen[r].sub
      <4>1. n \in DOMAIN subs /\ subs[n].plan = Asked[r].plan /\ Reusable(Asked[r].plan) = {}
        BY <2>0, <3>1 DEF CheckoutHeld
      <4>2. \A s \in DOMAIN subs : subs[s] \in BillingSubscription
        BY DEF Types, SubTypes
      <4>3. ASSUME NEW x \in BillingSubscription
            PROVE  /\ [x EXCEPT !.row = TRUE].plan = x.plan /\ [x EXCEPT !.row = TRUE].status = x.status
                   /\ [x EXCEPT !.row = TRUE].fresh = x.fresh
        BY DEF BillingSubscription
      <4>4. /\ DOMAIN subs' = DOMAIN subs /\ \A s \in DOMAIN subs \ {n} : subs'[s] = subs[s]
            /\ subs'[n] = [subs[n] EXCEPT !.row = TRUE]
        BY <3>3, <4>1
      <4>5. subs'[n].plan = subs[n].plan
        BY <4>1, <4>2, <4>3, <4>4
      <4>6. \A s \in Requests : pc'[s] \notin Holding
        BY <2>0, <3>1 DEF CheckoutHeld, Holding
      <4>7. ASSUME NEW s \in Rows', NEW t \in Rows', Waits(s)', Waits(t)', subs'[s].plan = subs'[t].plan
            PROVE  s = t
        <5>1. ASSUME NEW x \in Rows' \ {n}, Waits(x)', subs'[x].plan = subs[n].plan PROVE FALSE
          BY <4>1, <4>4, <5>1 DEF Reusable, Rows, Waits
        <5>2. CASE s = n \/ t = n
          BY <4>5, <4>7, <5>1, <5>2
        <5>3. CASE s # n /\ t # n
          BY <4>4, <4>7, <5>3 DEF CheckoutHeld, Rows, Waits
        <5> QED
          BY <5>2, <5>3
      <4> HIDE DEF n
      <4> QED
        BY <2>0, <4>6, <4>7 DEF CheckoutHeld, Rows, Waits, Requests, Asked, Holding
    <3> QED
      BY <2>6, <3>2, <3>3 DEF CheckoutCommit
  <2> QED
    BY <1>5, <2>1, <2>2, <2>3, <2>4, <2>5, <2>6 DEF Billing
<1> QED
  BY <1>1, <1>2, <1>3, <1>4, <1>5, Steps

LEMMA ReceiptStep ==
  ASSUME Types, Places, ReceiptHolds, Next
  PROVE  ReceiptHolds'
<1> USE DEF ReceiptHolds, EventOnce, Requests, Asked
<1>1. CASE Passing
  BY <1>1, TimeWrites
<1>2. ASSUME NEW r \in AnyRequest, Calling(r) PROVE ReceiptHolds'
  BY <1>2, CallWrites
<1>3. ASSUME NEW r \in AnyRequest, Tasking(r) PROVE ReceiptHolds'
  BY <1>3, TaskMoves, TaskWrites
<1>4. ASSUME NEW r \in AnyRequest, Provisioning(r) PROVE ReceiptHolds'
  BY <1>4, ProvisionMoves
<1>5. ASSUME NEW r \in AnyRequest, Billing(r) PROVE ReceiptHolds'
  <2>1. CASE Apply(r)
    <3> DEFINE id == Asked[r].id
    <3>1. pc[r] = "apply" /\ pc'[r] \notin {"load", "apply"} /\ r \in Requests
      BY <2>1 DEF Apply, At, Goes, Types, ProcessTypes
    <3>2. receipts' = receipts \cup {id}
      BY <2>1 DEF Apply
    <3>3. hist'.applied = [i \in DOMAIN hist.applied \cup {id} |-> IF i = id THEN Times(i) + 1 ELSE hist.applied[i]]
      BY <2>1 DEF Apply, Types, OtherTypes, History
    <3>4. id \notin DOMAIN hist.applied
      BY <3>1
    <3>5. Times(id) = 0
      BY <3>4 DEF Times
    <3>6. EventOnce'
      BY <3>2, <3>3, <3>4, <3>5
    <3>7. script' = script /\ \A s \in Requests \ {r} : pc'[s] = pc[s]
      BY <1>5, BillingMoves
    <3> QED
      BY <3>1, <3>2, <3>6, <3>7
  <2>2. CASE Receipt(r)
    <3>1. /\ r \in Requests /\ \A s \in Requests : pc[s] \in {"load", "apply"} => Asked[s].id # Asked[r].id
          /\ pc'[r] = "load" => Asked[r].id \notin receipts
          /\ pc'[r] # "apply"
      BY <2>2 DEF Receipt, ReceiptHeld, Received, At, Goes, Types, ProcessTypes
    <3>2. ~Apply(r)
      BY <2>2 DEF Receipt, Apply, At
    <3> QED
      BY <1>5, <3>1, <3>2, BillingMoves
  <2>3. CASE ~Apply(r) /\ ~Receipt(r)
    <3>1. pc'[r] \in {"load", "apply"} => pc[r] \in {"load", "apply"}
      BY <1>5, <2>3 DEF Billing, CheckoutLock, CheckoutDecide, Buy, CheckoutCommit, VerifyRead, VerifyWrite,
                        Receive, Load, At, Starts, Goes, Types, ProcessTypes
    <3> QED
      BY <1>5, <2>3, <3>1, BillingMoves
  <2> QED
    BY <2>1, <2>2, <2>3
<1> QED
  BY <1>1, <1>2, <1>3, <1>4, <1>5, Steps

LEMMA PlanStep ==
  ASSUME Types, Places, RowsAppear, PlanAgrees, Next
  PROVE  PlanAgrees'
<1> USE DEF PlanAgrees
<1>1. CASE Passing
  BY <1>1, TimeWrites
<1>2. ASSUME NEW r \in AnyRequest, Calling(r) PROVE PlanAgrees'
  BY <1>2, CallWrites
<1>3. ASSUME NEW r \in AnyRequest, Tasking(r) PROVE PlanAgrees'
  BY <1>3, TaskWrites, TaskMoves
<1>4. ASSUME NEW r \in AnyRequest, Provisioning(r) PROVE PlanAgrees'
  <2>1. CASE OrgLimits(r)
    <3>1. hist'.adjusted = (hist.adjusted \/ tenant.plan # "free") /\ tenant' = tenant
      BY <2>1 DEF OrgLimits, Rest, Types, OtherTypes, History
    <3> QED
      BY <2>1, <3>1, RowWrites
  <2>2. CASE ChangePlan(r)
    BY <2>2 DEF ChangePlan, Types, OtherTypes, History
  <2>3. CASE ~OrgLimits(r) /\ ~ChangePlan(r)
    <3>1. hist'.adjusted = hist.adjusted
      BY <1>4, <2>3 DEF Provisioning, Revoke, Create, OrgHit, OrgLookup, OrgInsert, OrgCreate, OrgStore, OrgCreated,
                        OrgDeleted, Invalidate, Rest
    <3>2. CASE OrgCreate(r) \/ OrgCreated(r)
      BY <3>1, <3>2, RowWrites DEF RowsAppear
    <3>3. CASE OrgDeleted(r)
      <4>1. budget' = budget
        BY <3>3 DEF OrgDeleted, Rest
      <4> QED
        BY <3>1, <3>3, <4>1, RowWrites
    <3> QED
      BY <1>4, <2>3, <3>1, <3>2, <3>3 DEF Provisioning, Revoke, Create, OrgHit, OrgLookup, OrgInsert, OrgStore,
                                          Invalidate, Rest, dbVars
  <2> QED
    BY <2>1, <2>2, <2>3
<1>5. ASSUME NEW r \in AnyRequest, Billing(r) PROVE PlanAgrees'
  BY <1>5, RowWrites, BillingMoves
<1> QED
  BY <1>1, <1>2, <1>3, <1>4, <1>5, Steps

-----------------------------------------------------------------------------
(* The theorems.                                                            *)

LEMMA InitInv == Init => Inv
<1> SUFFICES ASSUME Init PROVE Inv
  OBVIOUS
<1> DEFINE S == Scripts[script]
<1>0. script \in DOMAIN Scripts /\ S \in Script /\ StartsWell(S)
  BY TenancyAssumption DEF Init
<1>1. /\ tenant = S.tenant /\ budget = S.budget /\ keys = S.keys /\ subs = S.subs /\ receipts = {}
      /\ pc = [r \in Requests |-> "new"] /\ seen = [r \in Requests |-> Nothing]
      /\ hist = [counted |-> S.budget.calls, overlap |-> FALSE, through |-> [k \in Keys |-> 0],
                 blind |-> FALSE, applied |-> <<>>, adjusted |-> FALSE]
      /\ redis = [up |-> TRUE, auth |-> {}, org |-> FALSE, quota |-> "none", recent |-> {},
                  key |-> [k \in Keys |-> 0], tenant |-> 0, user |-> 0]
  BY DEF Init
<1>2. /\ tenant \in Tenant /\ budget \in TenantBudget /\ keys \in [Keys -> ApiKey]
      /\ subs \in Seq(BillingSubscription)
  BY <1>0, <1>1 DEF Script
<1>3. OtherTypes
  <2>1. [k \in Keys |-> 0] \in [Keys -> Nat] /\ S.budget.calls \in Nat
    BY <1>1, <1>2 DEF TenantBudget
  <2>2. <<>> \in UNION {[X -> Nat] : X \in SUBSET Nat}
    <3>1. <<>> \in [{} -> Nat] /\ {} \in SUBSET Nat
      OBVIOUS
    <3> QED
      BY <3>1
  <2>3. redis \in RedisState
    BY <1>1, <2>1 DEF RedisState
  <2>4. hist \in History
    BY <1>1, <2>1, <2>2 DEF History
  <2> QED
    BY <2>3, <2>4 DEF OtherTypes
<1>4. Types
  BY <1>0, <1>1, <1>2, <1>3 DEF Types, RowTypes, SubTypes, ProcessTypes, Budgeted
<1>5. Places /\ CountHeld /\ PlanAgrees
  BY <1>0, <1>1 DEF Places, CountHeld, PlanAgrees, Counting, StartsWell, Holding
<1>6. RowsAppear
  BY <1>0, <1>1 DEF RowsAppear, StartsWell, Holding
<1>7. TokenFinds
  BY <1>0, <1>1 DEF TokenFinds, StartsWell, Requests, Asked
<1>8. RateHeld
  BY <1>1, TenancyAssumption DEF RateHeld
<1>9. CheckoutHeld
  BY <1>0, <1>1 DEF CheckoutHeld, StartsWell, Rows, Holding
<1>10. ReceiptHolds
  BY <1>1 DEF ReceiptHolds, EventOnce
<1> QED
  BY <1>4, <1>5, <1>6, <1>7, <1>8, <1>9, <1>10 DEF Inv

LEMMA NextInv == Inv /\ [Next]_vars => Inv'
<1> SUFFICES ASSUME Inv, [Next]_vars PROVE Inv'
  OBVIOUS
<1>1. CASE Next
  BY <1>1, TypesStep, PlacesStep, RowsStep, TokenStep, CountStep, RateStep, CheckoutStep, ReceiptStep, PlanStep DEF Inv
<1>2. CASE UNCHANGED vars
  <2>1. /\ script' = script /\ tenant' = tenant /\ budget' = budget /\ keys' = keys /\ subs' = subs
        /\ receipts' = receipts /\ redis' = redis /\ pc' = pc /\ seen' = seen /\ hist' = hist
    BY <1>2 DEF vars, dbVars
  <2>2. Types' /\ Places'
    BY <2>1 DEF Inv, Types, RowTypes, SubTypes, OtherTypes, ProcessTypes, Places, Requests, Asked
  <2>3. RowsAppear' /\ TokenFinds'
    BY <2>1 DEF Inv, RowsAppear, TokenFinds, Requests, Asked
  <2>4. CountHeld' /\ RateHeld'
    BY <2>1 DEF Inv, CountHeld, Counting, RateHeld, Requests, Asked
  <2>5. CheckoutHeld'
    BY <2>1 DEF Inv, CheckoutHeld, Rows, Reusable, Requests, Asked
  <2>6. ReceiptHolds' /\ PlanAgrees'
    BY <2>1 DEF Inv, ReceiptHolds, EventOnce, PlanAgrees, Requests, Asked
  <2> QED
    BY <2>2, <2>3, <2>4, <2>5, <2>6 DEF Inv
<1> QED
  BY <1>1, <1>2

LEMMA Invariance == Spec => []Inv
  BY InitInv, NextInv, PTL DEF Spec

\* Rows, caches and receipts keep their types through every step of the routers, the middleware
\* and the tasks.
THEOREM Typed == Spec => []TypeOK
<1>1. Inv => TypeOK
  BY DEF Inv, Types, RowTypes, SubTypes, OtherTypes, RedisState, TypeOK
<1> QED
  BY <1>1, Invariance, PTL

\* Whoever is let in for an organisation has both its rows, no key gets more calls through in a
\* minute than its limit, and the month's count is exact unless two tasks that change it overlap:
\* for any requests, any limits and however auth.py, rate_limiter.py and the tasks interleave.
THEOREM Admitted == Spec => []Admission
<1>1. Inv => Provisioned
  BY DEF Inv, Provisioned, TokenFinds, RowsAppear
<1>2. Inv => KeyRateHolds
  BY DEF Inv, KeyRateHolds, RateHeld
<1>3. Inv => CountExact
  BY DEF Inv, CountExact, CountHeld
<1> QED
  BY <1>1, <1>2, <1>3, Invariance, PTL DEF Admission

\* One checkout of a plan waits to be paid, a webhook is applied once however often it is
\* delivered, and the plans of the two rows agree unless the budget's was set alone: for any number
\* of tabs, deliveries and subscriptions (billing.py, razorpay_webhooks.py).
THEOREM Billed == Spec => []BillingOnce
<1>1. Inv => OneCheckout
  <2>1. ASSUME Inv, NEW p \in Plans PROVE Cardinality(Reusable(p)) <= 1
    <3>1. \A s, t \in Reusable(p) : s = t
      BY <2>1 DEF Inv, CheckoutHeld, Reusable, Rows
    <3>2. CASE Reusable(p) = {}
      BY <3>2, FS_EmptySet
    <3>3. CASE Reusable(p) # {}
      <4>1. PICK s \in Reusable(p) : TRUE
        BY <3>3
      <4>2. Reusable(p) = {s}
        BY <3>1, <4>1
      <4> QED
        BY <4>2, FS_Singleton
    <3> QED
      BY <3>2, <3>3
  <2> QED
    BY <2>1 DEF OneCheckout
<1>2. Inv => EventOnce /\ PlanAgrees
  BY DEF Inv, ReceiptHolds
<1> QED
  BY <1>1, <1>2, Invariance, PTL DEF BillingOnce

-----------------------------------------------------------------------------
(* Who was shut out stays out.                                              *)

\* What a call takes from the cache of keys, and puts into it.
LEMMA KeyEffects ==
  ASSUME Types, Places, NEW r \in AnyRequest, Calling(r)
  PROVE  /\ redis'.auth \subseteq redis.auth \cup {Asked[r].key}
         /\ pc[r] # "matched" => redis'.auth = redis.auth
         /\ pc'[r] = "matched" => keys[Asked[r].key].st = "active"
         /\ pc[r] = "new" /\ pc'[r] = "entered" => Asked[r].key \in redis.auth
         /\ pc[r] = "new" => Asked[r].op = "call"
<1> USE DEF Types, OtherTypes, RedisState, ProcessTypes, Rest, At, Starts, Goes, Redis
<1>1. CASE AuthHit(r) \/ AuthLookup(r) \/ AuthStore(r)
  BY <1>1 DEF AuthHit, AuthLookup, AuthStore, Acceptable
<1>2. CASE Limit(r)
  BY <1>2 DEF Limit
<1>3. CASE GateRead(r) \/ Compare(r) \/ Remember(r) \/ Govern(r)
  BY <1>3 DEF GateRead, Compare, Remember, Govern
<1>4. CASE EnvelopeHit(r) \/ EnvelopeRead(r) \/ EnvelopeStore(r)
  BY <1>4 DEF EnvelopeHit, EnvelopeRead, EnvelopeStore, Decided, Asking
<1> QED
  BY <1>1, <1>2, <1>3, <1>4 DEF Calling

\* What a token takes from the cache of organisations, and puts into it.
LEMMA OrgEffects ==
  ASSUME Types, Places, RowsAppear, NEW r \in AnyRequest, Provisioning(r)
  PROVE  /\ redis'.org => redis.org \/ pc[r] = "found"
         /\ pc'[r] = "found" => tenant.row \in {"active", "none"}
         /\ Starts(r, "org") /\ pc'[r] = "answered" => redis.org
         /\ tenant.row = "inactive" => tenant'.row = "inactive"
         /\ \A k \in Keys : keys[k].st = "revoked" => keys'[k].st = "revoked"
         /\ Starts(r, "call") => FALSE
<1>1. /\ redis'.org => redis.org \/ pc[r] = "found"
      /\ pc'[r] = "found" => tenant.row \in {"active", "none"}
      /\ Starts(r, "org") /\ pc'[r] = "answered" => redis.org
      /\ Starts(r, "call") => FALSE
  <2> USE DEF Types, OtherTypes, RedisState, ProcessTypes, Rest, At, Starts, Goes, Redis
  <2>1. CASE OrgHit(r) \/ OrgLookup(r) \/ OrgInsert(r) \/ OrgCreate(r) \/ OrgStore(r)
    BY <2>1 DEF OrgHit, OrgLookup, OrgInsert, OrgCreate, OrgStore, Known, RowsAppear
  <2>2. CASE Revoke(r) \/ Create(r) \/ OrgCreated(r) \/ OrgLimits(r) \/ OrgDeleted(r) \/ ChangePlan(r) \/ Invalidate(r)
    BY <2>2 DEF Revoke, Create, OrgCreated, OrgLimits, OrgDeleted, ChangePlan, Invalidate
  <2> QED
    BY <2>1, <2>2 DEF Provisioning
<1>2. tenant.row = "inactive" => tenant'.row = "inactive"
  BY DEF Provisioning, Revoke, Create, OrgHit, OrgLookup, OrgInsert, OrgCreate, OrgStore, OrgCreated, OrgLimits,
         OrgDeleted, ChangePlan, Invalidate, Rest, dbVars, At, RowsAppear, Types, RowTypes, Tenant
<1>3. ASSUME NEW k \in Keys, keys[k].st = "revoked" PROVE keys'[k].st = "revoked"
  <2>1. CASE Revoke(r) \/ Create(r)
    <3>1. Asked[r].key \in Keys
      BY <2>1, Carried DEF Revoke, Create, Starts, At, Types, ProcessTypes
    <3>2. keys \in [Keys -> ApiKey] /\ [keys[k] EXCEPT !.st = "revoked"].st = "revoked"
      BY DEF Types, RowTypes, ApiKey
    <3> QED
      BY <1>3, <2>1, <3>1, <3>2 DEF Revoke, Create
  <2> QED
    BY <1>3, <2>1 DEF Provisioning, OrgHit, OrgLookup, OrgInsert, OrgCreate, OrgStore, OrgCreated, OrgLimits,
                      OrgDeleted, ChangePlan, Invalidate, Rest, dbVars
<1> QED
  BY <1>1, <1>2, <1>3

\* A key that was revoked, or an organisation that was deleted, is out for good once its entry in
\* the cache of auth.py is gone and no lookup of before is under way: no interleaving of requests,
\* expiries and outages of Redis brings the entry back or lets anybody in.
THEOREM ShutOut == Spec => StaysOut
<1> DEFINE KeyOut == \A k \in Keys : DeadKey(k) =>
                       DeadKey(k)' /\ \A r \in Requests : Starts(r, "call") /\ Asked[r].key = k => pc'[r] # "entered"
           OrgOut == DeadOrg => DeadOrg' /\ \A r \in Requests : Starts(r, "org") => pc'[r] # "answered"
<1>1. ASSUME Inv, Next PROVE KeyOut
  <2> USE DEF DeadKey, Starts, At, Requests, Asked
  <2>0. Types /\ Places /\ RowsAppear
    BY <1>1 DEF Inv
  <2>1. CASE Passing
    BY <2>0, <2>1, TimeWrites
  <2>2. ASSUME NEW r \in AnyRequest, Calling(r) PROVE KeyOut
    <3>1. pc[r] = "matched" => Asked[r].op = "call"
      BY <2>0, <2>2, CallWrites DEF Places
    <3> QED
      BY <2>0, <2>2, <3>1, CallWrites, KeyEffects
  <2>3. ASSUME NEW r \in AnyRequest, Tasking(r) PROVE KeyOut
    BY <2>0, <2>3, TaskMoves, TaskWrites
  <2>4. ASSUME NEW r \in AnyRequest, Provisioning(r) PROVE KeyOut
    BY <2>0, <2>4, ProvisionMoves, OrgEffects
  <2>5. ASSUME NEW r \in AnyRequest, Billing(r) PROVE KeyOut
    BY <2>0, <2>5, BillingMoves DEF Holding
  <2> QED
    BY <1>1, <2>1, <2>2, <2>3, <2>4, <2>5, Steps
<1>2. ASSUME Inv, Next PROVE OrgOut
  <2> USE DEF DeadOrg, Starts, At, Requests, Asked
  <2>0. Types /\ Places /\ RowsAppear
    BY <1>2 DEF Inv
  <2>1. CASE Passing
    BY <2>0, <2>1, TimeWrites
  <2>2. ASSUME NEW r \in AnyRequest, Calling(r) PROVE OrgOut
    BY <2>0, <2>2, CallWrites, KeyEffects
  <2>3. ASSUME NEW r \in AnyRequest, Tasking(r) PROVE OrgOut
    BY <2>0, <2>3, TaskMoves, TaskWrites
  <2>4. ASSUME NEW r \in AnyRequest, Provisioning(r) PROVE OrgOut
    <3>1. pc[r] = "found" => Asked[r].op = "org"
      BY <2>0, <2>4, ProvisionMoves DEF Places
    <3> QED
      BY <2>0, <2>4, <3>1, ProvisionMoves, OrgEffects
  <2>5. ASSUME NEW r \in AnyRequest, Billing(r) PROVE OrgOut
    <3>1. tenant'.row = tenant.row
      BY <2>0, <2>5, RowWrites, BillingMoves
    <3> QED
      BY <2>0, <2>5, <3>1, BillingMoves DEF Holding
  <2> QED
    BY <1>2, <2>1, <2>2, <2>3, <2>4, <2>5, Steps
<1>3. Inv /\ [Next]_vars => [KeyOut /\ OrgOut]_vars
  BY <1>1, <1>2
<1> QED
  BY <1>3, Invariance, PTL DEF Spec, StaysOut

-----------------------------------------------------------------------------
(* Passport: what holds for every scenario of requests, jobs and corrections, *)
(* in every order, with any number of agents, claims and slots.               *)

\* The types of the variables.
SlotTypes == scenario \in DOMAIN Scenarios /\ req \in [Slots -> Local]
AccountTypes == /\ user \in User /\ cached \in SUBSET (Slots \cup {0}) /\ otp \in Otp
                /\ mixed \in BOOLEAN /\ events \in Nat
ConsentTypes == /\ agent \in [Agents -> BOOLEAN] /\ grant \in [Agents -> Grant]
                /\ link \in Link /\ conn \in [Users -> Connection]
RowsTypes == Stored \in SUBSET MemIds /\ mem \in [Stored -> Memory] /\ claim \in [Claims -> Claim]
AllTypes == SlotTypes /\ AccountTypes /\ ConsentTypes /\ RowsTypes

\* What the scenario says of a slot.
LEMMA SlotsAre ==
  /\ IsFiniteSet(Slots) /\ Slots \in SUBSET (Nat \ {0}) /\ 0 \notin Slots
<1>1. Cardinality(Slots) \in Nat
  BY PassportAssumption, FS_CardinalityType
<1> QED
  BY <1>1, PassportAssumption

LEMMA AskIs ==
  ASSUME scenario \in DOMAIN Scenarios, NEW s \in Slots
  PROVE  /\ ask(s) \in PassportRequest
         /\ ask(s).who = 2 => ask(s).op \in {"grant", "oauth", "disconnect"}
         /\ ask(s).op = "correct" => Len(ask(s).items) = 1
         /\ ask(s).op = "add" => Len(ask(s).items) <= 2
         /\ ask(s).op = "deliver" => ask(s).of \in Slots /\ ask(ask(s).of).op = "add"
<1>1. Scenarios[scenario] \in Scenario
  BY PassportAssumption
<1>2. Scenarios[scenario].ask \in [Slots -> PassportRequest]
  BY <1>1 DEF Scenario
<1> QED
  BY <1>1, <1>2 DEF ask, Scenario

LEMMA RequestIs ==
  ASSUME scenario \in DOMAIN Scenarios, NEW s \in Slots
  PROVE  /\ ask(s).op \in Ops /\ ask(s).who \in Users /\ ask(s).agent \in Agents
         /\ ask(s).tok \in Slots \cup {0} /\ ask(s).code \in Slots \cup {0}
         /\ ask(s).cap \in BOOLEAN /\ ask(s).link \in BOOLEAN /\ ask(s).rw \in BOOLEAN
         /\ ask(s).cats \in SUBSET Categories /\ ask(s).key \in Nat
         /\ ask(s).items \in Seq(Item) /\ ask(s).mem \in MemIds
<1>1. ask(s) \in PassportRequest
  BY AskIs
<1> QED
  BY <1>1 DEF PassportRequest

\* A job carries the payload of an add.
LEMMA PayloadIs ==
  ASSUME scenario \in DOMAIN Scenarios, NEW s \in Slots, ask(s).op \in {"add", "deliver"}
  PROVE  /\ job(s) \in Slots /\ payload(s).agent \in Agents
         /\ payload(s).items \in Seq(Item) /\ Len(payload(s).items) <= 2
         /\ EventOf(s) \in Event /\ EventOf(s) # <<"job", 0>>
<1>1. job(s) \in Slots /\ ask(job(s)).op = "add"
  BY AskIs DEF job
<1>2. /\ payload(s).agent \in Agents /\ payload(s).items \in Seq(Item) /\ payload(s).key \in Nat
      /\ Len(payload(s).items) <= 2
  BY <1>1, AskIs, RequestIs DEF payload
<1>3. EventOf(s) \in Event /\ EventOf(s) # <<"job", 0>>
  BY <1>1, <1>2, SlotsAre DEF EventOf, Event
<1> QED
  BY <1>1, <1>2, <1>3

LEMMA SeedIs ==
  /\ SeedMemory \in Memory /\ SeedClaim \in Claims /\ SeedValue \in Values
  /\ Seed \in MemIds /\ NoMem \notin MemIds /\ Fresh \in Local
<1>1. SeedClaim \in Claims /\ SeedValue \in Values /\ (CHOOSE a \in Agents : TRUE) \in Agents
  BY PassportAssumption DEF SeedClaim, SeedValue
<1>2. SeedMemory \in Memory
  BY <1>1 DEF SeedMemory, Memory, Event
<1>3. Seed \in MemIds /\ NoMem \notin MemIds
  BY DEF Seed, NoMem, MemIds
<1>4. Fresh \in Local
  <2>1. <<>> \in Seq({"skip", "activated", "asserted", "disputed"})
    OBVIOUS
  <2> QED
    BY <2>1 DEF Fresh, Local, Pcs
<1> QED
  BY <1>1, <1>2, <1>3, <1>4

-----------------------------------------------------------------------------
(* A step of one request leaves the others where they are.                  *)

Alike(x, y) == /\ x.pc = y.pc /\ x.tries = y.tries /\ x.tok = y.tok /\ x.seen = y.seen /\ x.n = y.n
               /\ x.cats = y.cats /\ x.staged = y.staged /\ x.ids = y.ids /\ x.published = y.published
Others(s) == \A t \in Slots \ {s} : Alike(req'[t], req[t])
\* The slots as they are after a step of s.
Moved(s) == req' \in [Slots -> Local] /\ Others(s) /\ scenario' = scenario

LEMMA Edited ==
  ASSUME req \in [Slots -> Local], NEW s \in Slots, NEW x \in Local, req' = [req EXCEPT ![s] = x],
         scenario' = scenario
  PROVE  Moved(s) /\ req'[s] = x /\ \A t \in Slots \ {s} : req'[t] = req[t]
  BY DEF Moved, Others, Alike, Local

LEMMA RetryIs ==
  ASSUME req \in [Slots -> Local], NEW s \in Slots, Retry(s), scenario' = scenario
  PROVE  /\ Moved(s) /\ req'[s].pc \in {"queued", "done"} /\ req'[s].staged = <<>> /\ req'[s].cut = FALSE
         /\ req'[s].published = req[s].published /\ req'[s].tries = req[s].tries + 1
         /\ req'[s].pc = "queued" => req[s].tries + 1 < MaxRetries
         /\ \A t \in Slots \ {s} : req'[t] = req[t]
<1>1. PICK x : x = [Fresh EXCEPT !.pc = IF req[s].tries + 1 < MaxRetries THEN "queued" ELSE "done",
                                 !.tries = req[s].tries + 1, !.published = req[s].published]
  OBVIOUS
<1>2. /\ x \in Local /\ x.pc = (IF req[s].tries + 1 < MaxRetries THEN "queued" ELSE "done") /\ x.staged = <<>>
      /\ x.cut = FALSE /\ x.published = req[s].published /\ x.tries = req[s].tries + 1
  <2>1. Fresh \in Local /\ Fresh.staged = <<>> /\ Fresh.cut = FALSE
    BY SeedIs DEF Fresh
  <2>2. req[s].tries + 1 \in Nat /\ req[s].published \in BOOLEAN /\ {"queued", "done"} \subseteq Pcs
    BY DEF Local, Pcs
  <2> HIDE DEF Fresh
  <2> QED
    BY <1>1, <2>1, <2>2 DEF Local
<1>3. req' = [req EXCEPT ![s] = x]
  BY <1>1 DEF Retry
<1>4. Moved(s) /\ req'[s] = x /\ \A t \in Slots \ {s} : req'[t] = req[t]
  BY <1>2, <1>3, Edited
<1> QED
  BY <1>2, <1>4

LEMMA CutOffIs ==
  ASSUME req \in [Slots -> Local], NEW a, NEW b \in BOOLEAN
  PROVE  /\ CutOff(a, b) \in [Slots -> Local]
         /\ \A t \in Slots : /\ Alike(CutOff(a, b)[t], req[t])
                              /\ CutOff(a, b)[t].cut = IF req[t].pc \in Extracting /\ payload(t).agent = a
                                                        THEN b ELSE req[t].cut
  BY DEF CutOff, Alike, Local

LEMMA InPcs ==
  /\ "idle" \in Pcs /\ "register" \in Pcs /\ "sendotp" \in Pcs /\ "verify" \in Pcs /\ "regenerate" \in Pcs
  /\ "erase" \in Pcs
  /\ "grant" \in Pcs /\ "revoke" \in Pcs /\ "narrow" \in Pcs /\ "retire" \in Pcs /\ "issue" \in Pcs
  /\ "oauth" \in Pcs
  /\ "callback" \in Pcs /\ "disconnect" \in Pcs /\ "add" \in Pcs /\ "deliver" \in Pcs /\ "retrieve" \in Pcs
  /\ "flag" \in Pcs
  /\ "unflag" \in Pcs /\ "correct" \in Pcs /\ "delete" \in Pcs /\ "new" \in Pcs /\ "insert" \in Pcs
  /\ "recache" \in Pcs
  /\ "send" \in Pcs /\ "mail" \in Pcs /\ "compare" \in Pcs /\ "accept" \in Pcs /\ "clear" \in Pcs /\ "count" \in Pcs
  /\ "bar" \in Pcs /\ "drop" \in Pcs /\ "swap" \in Pcs /\ "publish" \in Pcs /\ "ids" \in Pcs /\ "wipe" \in Pcs
  /\ "uncache" \in Pcs /\ "connect" \in Pcs /\ "check" \in Pcs /\ "upsert" \in Pcs /\ "revoking" \in Pcs
  /\ "narrowing" \in Pcs
  /\ "retiring" \in Pcs /\ "provider" \in Pcs /\ "parting" \in Pcs /\ "lookup" \in Pcs /\ "remember" \in Pcs
  /\ "capability" \in Pcs
  /\ "allowed" \in Pcs /\ "search" \in Pcs /\ "replay" \in Pcs /\ "reserve" \in Pcs /\ "dispatch" \in Pcs
  /\ "queued" \in Pcs
  /\ "lock" \in Pcs /\ "extract" \in Pcs /\ "store" \in Pcs /\ "claim" \in Pcs /\ "commit" \in Pcs
  /\ "flagging" \in Pcs
  /\ "unflagging" \in Pcs /\ "embed" \in Pcs /\ "archive" \in Pcs /\ "recording" \in Pcs
  /\ "corrected" \in Pcs /\ "number" \in Pcs
  /\ "removing" \in Pcs /\ "deleted" \in Pcs /\ "done" \in Pcs
  BY DEF Pcs, Ops

\* A step of s from one of the places P to one of Q.
Walks(s, P, Q) == Moved(s) /\ req[s].pc \in P /\ req'[s].pc \in Q
\* What a step leaves of the slots.
Same(s) == /\ req'[s].staged = req[s].staged /\ req'[s].cut = req[s].cut /\ req'[s].tries = req[s].tries
           /\ \A t \in Slots \ {s} : req'[t] = req[t]
PcOnly(s) == Same(s) /\ req'[s].tok = req[s].tok /\ req'[s].seen = req[s].seen /\ req'[s].n = req[s].n

Staged == Seq({"skip", "activated", "asserted", "disputed"})

LEMMA GoWalks ==
  ASSUME AllTypes, NEW s \in Slots, NEW p \in Pcs, Go(s, p), scenario' = scenario, NEW P, NEW Q,
         req[s].pc \in P, p \in Q
  PROVE  /\ Walks(s, P, Q) /\ req'[s].pc = p
         /\ PcOnly(s)
<1>1. req \in [Slots -> Local] /\ req[s] \in Local
  BY DEF AllTypes, SlotTypes
<1>2. PICK x : x = [req[s] EXCEPT !.pc = p]
  OBVIOUS
<1>3. /\ x \in Local /\ x.pc = p
      /\ x.staged = req[s].staged /\ x.cut = req[s].cut /\ x.tries = req[s].tries /\ x.tok = req[s].tok
      /\ x.seen = req[s].seen /\ x.n = req[s].n
  <2>1. req[s] \in Local
    BY <1>1
  <2> QED
    BY <2>1, <1>2 DEF Local
<1>4. req' = [req EXCEPT ![s] = x]
  BY <1>1, <1>2 DEF Go
<1>5. Moved(s) /\ req'[s] = x /\ \A t \in Slots \ {s} : req'[t] = req[t]
  BY <1>1, <1>3, <1>4, Edited
<1> QED
  BY <1>3, <1>5 DEF Walks, Same, PcOnly

LEMMA GoTokWalks ==
  ASSUME AllTypes, NEW s \in Slots, NEW p \in Pcs, NEW v \in Slots \cup {0}, GoTok(s, p, v),
         scenario' = scenario, NEW P, NEW Q,
         req[s].pc \in P, p \in Q
  PROVE  /\ Walks(s, P, Q) /\ req'[s].pc = p
         /\ Same(s) /\ req'[s].tok = v /\ req'[s].seen = req[s].seen /\ req'[s].n = req[s].n
<1>1. req \in [Slots -> Local] /\ req[s] \in Local
  BY DEF AllTypes, SlotTypes
<1>2. PICK x : x = [req[s] EXCEPT !.pc = p, !.tok = v]
  OBVIOUS
<1>3. /\ x \in Local /\ x.pc = p /\ x.tok = v
      /\ x.staged = req[s].staged /\ x.cut = req[s].cut /\ x.tries = req[s].tries /\ x.seen = req[s].seen
      /\ x.n = req[s].n
  <2>1. req[s] \in Local
    BY <1>1
  <2> QED
    BY <2>1, <1>2 DEF Local
<1>4. req' = [req EXCEPT ![s] = x]
  BY <1>1, <1>2 DEF GoTok
<1>5. Moved(s) /\ req'[s] = x /\ \A t \in Slots \ {s} : req'[t] = req[t]
  BY <1>1, <1>3, <1>4, Edited
<1> QED
  BY <1>3, <1>5 DEF Walks, Same, PcOnly

LEMMA GoSeenWalks ==
  ASSUME AllTypes, NEW s \in Slots, NEW p \in Pcs, NEW v \in BOOLEAN, GoSeen(s, p, v), scenario' = scenario,
         NEW P, NEW Q,
         req[s].pc \in P, p \in Q
  PROVE  /\ Walks(s, P, Q) /\ req'[s].pc = p
         /\ Same(s) /\ req'[s].tok = req[s].tok /\ req'[s].seen = v /\ req'[s].n = req[s].n
<1>1. req \in [Slots -> Local] /\ req[s] \in Local
  BY DEF AllTypes, SlotTypes
<1>2. PICK x : x = [req[s] EXCEPT !.pc = p, !.seen = v]
  OBVIOUS
<1>3. /\ x \in Local /\ x.pc = p /\ x.seen = v
      /\ x.staged = req[s].staged /\ x.cut = req[s].cut /\ x.tries = req[s].tries /\ x.tok = req[s].tok
      /\ x.n = req[s].n
  <2>1. req[s] \in Local
    BY <1>1
  <2> QED
    BY <2>1, <1>2 DEF Local
<1>4. req' = [req EXCEPT ![s] = x]
  BY <1>1, <1>2 DEF GoSeen
<1>5. Moved(s) /\ req'[s] = x /\ \A t \in Slots \ {s} : req'[t] = req[t]
  BY <1>1, <1>3, <1>4, Edited
<1> QED
  BY <1>3, <1>5 DEF Walks, Same, PcOnly

LEMMA GoNumberWalks ==
  ASSUME AllTypes, NEW s \in Slots, NEW p \in Pcs, NEW v \in Nat, GoNumber(s, p, v), scenario' = scenario,
         NEW P, NEW Q,
         req[s].pc \in P, p \in Q
  PROVE  /\ Walks(s, P, Q) /\ req'[s].pc = p
         /\ Same(s) /\ req'[s].tok = req[s].tok /\ req'[s].seen = req[s].seen /\ req'[s].n = v
<1>1. req \in [Slots -> Local] /\ req[s] \in Local
  BY DEF AllTypes, SlotTypes
<1>2. PICK x : x = [req[s] EXCEPT !.pc = p, !.n = v]
  OBVIOUS
<1>3. /\ x \in Local /\ x.pc = p /\ x.n = v
      /\ x.staged = req[s].staged /\ x.cut = req[s].cut /\ x.tries = req[s].tries /\ x.tok = req[s].tok
      /\ x.seen = req[s].seen
  <2>1. req[s] \in Local
    BY <1>1
  <2> QED
    BY <2>1, <1>2 DEF Local
<1>4. req' = [req EXCEPT ![s] = x]
  BY <1>1, <1>2 DEF GoNumber
<1>5. Moved(s) /\ req'[s] = x /\ \A t \in Slots \ {s} : req'[t] = req[t]
  BY <1>1, <1>3, <1>4, Edited
<1> QED
  BY <1>3, <1>5 DEF Walks, Same, PcOnly

LEMMA GoCatsWalks ==
  ASSUME AllTypes, NEW s \in Slots, NEW p \in Pcs, NEW v \in SUBSET Categories, GoCats(s, p, v),
         scenario' = scenario, NEW P, NEW Q,
         req[s].pc \in P, p \in Q
  PROVE  /\ Walks(s, P, Q) /\ req'[s].pc = p
         /\ PcOnly(s)
<1>1. req \in [Slots -> Local] /\ req[s] \in Local
  BY DEF AllTypes, SlotTypes
<1>2. PICK x : x = [req[s] EXCEPT !.pc = p, !.cats = v]
  OBVIOUS
<1>3. /\ x \in Local /\ x.pc = p /\ x.cats = v
      /\ x.staged = req[s].staged /\ x.cut = req[s].cut /\ x.tries = req[s].tries /\ x.tok = req[s].tok
      /\ x.seen = req[s].seen /\ x.n = req[s].n
  <2>1. req[s] \in Local
    BY <1>1
  <2> QED
    BY <2>1, <1>2 DEF Local
<1>4. req' = [req EXCEPT ![s] = x]
  BY <1>1, <1>2 DEF GoCats
<1>5. Moved(s) /\ req'[s] = x /\ \A t \in Slots \ {s} : req'[t] = req[t]
  BY <1>1, <1>3, <1>4, Edited
<1> QED
  BY <1>3, <1>5 DEF Walks, Same, PcOnly

LEMMA GoIdsWalks ==
  ASSUME AllTypes, NEW s \in Slots, NEW p \in Pcs, NEW v \in SUBSET MemIds, GoIds(s, p, v),
         scenario' = scenario, NEW P, NEW Q,
         req[s].pc \in P, p \in Q
  PROVE  /\ Walks(s, P, Q) /\ req'[s].pc = p
         /\ PcOnly(s)
<1>1. req \in [Slots -> Local] /\ req[s] \in Local
  BY DEF AllTypes, SlotTypes
<1>2. PICK x : x = [req[s] EXCEPT !.pc = p, !.ids = v]
  OBVIOUS
<1>3. /\ x \in Local /\ x.pc = p /\ x.ids = v
      /\ x.staged = req[s].staged /\ x.cut = req[s].cut /\ x.tries = req[s].tries /\ x.tok = req[s].tok
      /\ x.seen = req[s].seen /\ x.n = req[s].n
  <2>1. req[s] \in Local
    BY <1>1
  <2> QED
    BY <2>1, <1>2 DEF Local
<1>4. req' = [req EXCEPT ![s] = x]
  BY <1>1, <1>2 DEF GoIds
<1>5. Moved(s) /\ req'[s] = x /\ \A t \in Slots \ {s} : req'[t] = req[t]
  BY <1>1, <1>3, <1>4, Edited
<1> QED
  BY <1>3, <1>5 DEF Walks, Same, PcOnly

LEMMA GoStagedWalks ==
  ASSUME AllTypes, NEW s \in Slots, NEW p \in Pcs, NEW v \in Staged, GoStaged(s, p, v), scenario' = scenario,
         NEW P, NEW Q,
         req[s].pc \in P, p \in Q
  PROVE  /\ Walks(s, P, Q) /\ req'[s].pc = p
         /\ req'[s].staged = v /\ req'[s].cut = req[s].cut /\ req'[s].tries = req[s].tries
         /\ \A t \in Slots \ {s} : req'[t] = req[t]
<1>1. req \in [Slots -> Local] /\ req[s] \in Local
  BY DEF AllTypes, SlotTypes
<1>2. PICK x : x = [req[s] EXCEPT !.pc = p, !.staged = v]
  OBVIOUS
<1>3. /\ x \in Local /\ x.pc = p /\ x.staged = v
      /\ x.cut = req[s].cut /\ x.tries = req[s].tries /\ x.tok = req[s].tok /\ x.seen = req[s].seen
      /\ x.n = req[s].n
  <2>1. req[s] \in Local
    BY <1>1
  <2> QED
    BY <2>1, <1>2 DEF Local, Staged
<1>4. req' = [req EXCEPT ![s] = x]
  BY <1>1, <1>2 DEF GoStaged
<1>5. Moved(s) /\ req'[s] = x /\ \A t \in Slots \ {s} : req'[t] = req[t]
  BY <1>1, <1>3, <1>4, Edited
<1> QED
  BY <1>3, <1>5 DEF Walks, Same, PcOnly

LEMMA GoTo ==
  ASSUME AllTypes, NEW s \in Slots, NEW p \in Pcs, Go(s, p), scenario' = scenario
  PROVE  Moved(s) /\ req'[s].pc = p /\ PcOnly(s)
<1>1. Walks(s, {req[s].pc}, {p}) /\ req'[s].pc = p /\ PcOnly(s)
  BY GoWalks
<1> QED
  BY <1>1 DEF Walks

LEMMA GoTokTo ==
  ASSUME AllTypes, NEW s \in Slots, NEW p \in Pcs, NEW v \in Slots \cup {0}, GoTok(s, p, v), scenario' = scenario
  PROVE  Moved(s) /\ req'[s].pc = p /\ req'[s].tok = v /\ Same(s)
<1>1. Walks(s, {req[s].pc}, {p}) /\ req'[s].pc = p /\ req'[s].tok = v /\ Same(s)
  BY GoTokWalks
<1> QED
  BY <1>1 DEF Walks

-----------------------------------------------------------------------------
(* Where each action leads.                                                 *)

LEMMA RecacheWalks ==
  ASSUME AllTypes, NEW s \in Slots, Recache(s)
  PROVE  Walks(s, {"recache"}, {"send", "done"}) /\ PcOnly(s)
<1>1. PICK p \in {"send", "done"} : Go(s, p)
  BY DEF Recache, Done
<1>2. req[s].pc \in {"recache"} /\ scenario' = scenario /\ {"send", "done"} \subseteq Pcs
  BY InPcs DEF Recache, Does, Begin
<1> QED
  BY <1>1, <1>2, GoWalks

LEMMA SendOtpWalks ==
  ASSUME AllTypes, NEW s \in Slots, SendOtp(s)
  PROVE  Walks(s, {"new", "send", "mail"}, {"send", "mail", "done"}) /\ PcOnly(s)
<1>1. PICK p \in {"send", "mail", "done"} : Go(s, p)
  BY DEF SendOtp, Done
<1>2. req[s].pc \in {"new", "send", "mail"} /\ scenario' = scenario /\ {"send", "mail", "done"} \subseteq Pcs
  BY InPcs DEF SendOtp, Does, Begin
<1> QED
  BY <1>1, <1>2, GoWalks

LEMMA CountFailureWalks ==
  ASSUME AllTypes, NEW s \in Slots, CountFailure(s)
  PROVE  Walks(s, {"count", "bar"}, {"bar", "done"}) /\ PcOnly(s)
<1>1. PICK p \in {"bar", "done"} : Go(s, p)
  BY DEF CountFailure, Done
<1>2. req[s].pc \in {"count", "bar"} /\ scenario' = scenario /\ {"bar", "done"} \subseteq Pcs
  BY InPcs DEF CountFailure, Does, Begin
<1> QED
  BY <1>1, <1>2, GoWalks

LEMMA AcceptOtpWalks ==
  ASSUME AllTypes, NEW s \in Slots, AcceptOtp(s)
  PROVE  Walks(s, {"accept", "clear"}, {"clear", "recache", "done"}) /\ PcOnly(s)
<1>1. PICK p \in {"clear", "recache", "done"} : Go(s, p)
  BY DEF AcceptOtp, Done
<1>2. req[s].pc \in {"accept", "clear"} /\ scenario' = scenario /\ {"clear", "recache", "done"} \subseteq Pcs
  BY InPcs DEF AcceptOtp, Does, Begin
<1> QED
  BY <1>1, <1>2, GoWalks

LEMMA RegenerateWalks ==
  ASSUME AllTypes, NEW s \in Slots, Regenerate(s)
  PROVE  Walks(s, {"regenerate", "drop", "swap", "publish"}, {"drop", "swap", "publish", "done"}) /\ PcOnly(s)
<1>1. PICK p \in {"drop", "swap", "publish", "done"} : Go(s, p)
  BY DEF Regenerate, Done
<1>2. /\ req[s].pc \in {"regenerate", "drop", "swap", "publish"} /\ scenario' = scenario
      /\ {"drop", "swap", "publish", "done"} \subseteq Pcs
  BY InPcs DEF Regenerate, Does, Begin
<1> QED
  BY <1>1, <1>2, GoWalks

LEMMA GrantConsumeWalks ==
  ASSUME AllTypes, NEW s \in Slots, GrantConsume(s)
  PROVE  Walks(s, {"grant"}, {"check", "connect", "done"}) /\ PcOnly(s)
<1>1. PICK p \in {"check", "connect", "done"} : Go(s, p)
  BY DEF GrantConsume, Done
<1>2. req[s].pc \in {"grant"} /\ scenario' = scenario /\ {"check", "connect", "done"} \subseteq Pcs
  BY InPcs DEF GrantConsume, Does, Begin
<1> QED
  BY <1>1, <1>2, GoWalks

LEMMA GrantCheckWalks ==
  ASSUME AllTypes, NEW s \in Slots, GrantCheck(s)
  PROVE  Walks(s, {"check"}, {"upsert", "done"}) /\ PcOnly(s)
<1>1. PICK p \in {"upsert", "done"} : Go(s, p)
  BY DEF GrantCheck, Done
<1>2. req[s].pc \in {"check"} /\ scenario' = scenario /\ {"upsert", "done"} \subseteq Pcs
  BY InPcs DEF GrantCheck, Does, Begin
<1> QED
  BY <1>1, <1>2, GoWalks

LEMMA NarrowWalks ==
  ASSUME AllTypes, NEW s \in Slots, Narrow(s)
  PROVE  Walks(s, {"narrow", "narrowing"}, {"narrowing", "done"}) /\ PcOnly(s)
<1>1. PICK p \in {"narrowing", "done"} : Go(s, p)
  BY DEF Narrow, Done
<1>2. req[s].pc \in {"narrow", "narrowing"} /\ scenario' = scenario /\ {"narrowing", "done"} \subseteq Pcs
  BY InPcs DEF Narrow, Does, Begin
<1> QED
  BY <1>1, <1>2, GoWalks

LEMMA IssueLinkWalks ==
  ASSUME AllTypes, NEW s \in Slots, IssueLink(s)
  PROVE  Walks(s, {"new"}, {"done"}) /\ PcOnly(s)
<1>1. PICK p \in {"done"} : Go(s, p)
  BY DEF IssueLink, Done
<1>2. req[s].pc \in {"new"} /\ scenario' = scenario /\ {"done"} \subseteq Pcs
  BY InPcs DEF IssueLink, Does, Begin
<1> QED
  BY <1>1, <1>2, GoWalks

LEMMA OAuthInitiateWalks ==
  ASSUME AllTypes, NEW s \in Slots, OAuthInitiate(s)
  PROVE  Walks(s, {"oauth"}, {"done"}) /\ PcOnly(s)
<1>1. PICK p \in {"done"} : Go(s, p)
  BY DEF OAuthInitiate, Done
<1>2. req[s].pc \in {"oauth"} /\ scenario' = scenario /\ {"done"} \subseteq Pcs
  BY InPcs DEF OAuthInitiate, Does, Begin
<1> QED
  BY <1>1, <1>2, GoWalks

LEMMA OAuthCommitWalks ==
  ASSUME AllTypes, NEW s \in Slots, OAuthCommit(s)
  PROVE  Walks(s, {"callback"}, {"done"}) /\ PcOnly(s)
<1>1. PICK p \in {"done"} : Go(s, p)
  BY DEF OAuthCommit, Done
<1>2. req[s].pc \in {"callback"} /\ scenario' = scenario /\ {"done"} \subseteq Pcs
  BY InPcs DEF OAuthCommit, Does, Begin
<1> QED
  BY <1>1, <1>2, GoWalks

LEMMA DisconnectWalks ==
  ASSUME AllTypes, NEW s \in Slots, Disconnect(s)
  PROVE  Walks(s, {"disconnect", "parting"}, {"parting", "done"}) /\ PcOnly(s)
<1>1. PICK p \in {"parting", "done"} : Go(s, p)
  BY DEF Disconnect, Done
<1>2. req[s].pc \in {"disconnect", "parting"} /\ scenario' = scenario /\ {"parting", "done"} \subseteq Pcs
  BY InPcs DEF Disconnect, Does, Begin
<1> QED
  BY <1>1, <1>2, GoWalks

LEMMA AuthenticateWalks ==
  ASSUME AllTypes, NEW s \in Slots, Authenticate(s)
  PROVE  Walks(s, {"new"}, {"allowed", "lookup", "done"}) /\ PcOnly(s)
<1>1. PICK p \in {"allowed", "lookup", "done"} : Go(s, p)
  BY DEF Authenticate, Done
<1>2. req[s].pc \in {"new"} /\ scenario' = scenario /\ {"allowed", "lookup", "done"} \subseteq Pcs
  BY InPcs DEF Authenticate, Does, Begin
<1> QED
  BY <1>1, <1>2, GoWalks

LEMMA IssueCapabilityWalks ==
  ASSUME AllTypes, NEW s \in Slots, IssueCapability(s)
  PROVE  Walks(s, {"new"}, {"capability", "done"}) /\ PcOnly(s)
<1>1. PICK p \in {"capability", "done"} : Go(s, p)
  BY DEF IssueCapability, Done
<1>2. req[s].pc \in {"new"} /\ scenario' = scenario /\ {"capability", "done"} \subseteq Pcs
  BY InPcs DEF IssueCapability, Does, Begin
<1> QED
  BY <1>1, <1>2, GoWalks

LEMMA UseCapabilityWalks ==
  ASSUME AllTypes, NEW s \in Slots, UseCapability(s)
  PROVE  Walks(s, {"capability"}, {"allowed", "done"}) /\ PcOnly(s)
<1>1. PICK p \in {"allowed", "done"} : Go(s, p)
  BY DEF UseCapability, Done
<1>2. req[s].pc \in {"capability"} /\ scenario' = scenario /\ {"allowed", "done"} \subseteq Pcs
  BY InPcs DEF UseCapability, Does, Begin
<1> QED
  BY <1>1, <1>2, GoWalks

LEMMA ResolveByTokenWalks ==
  ASSUME AllTypes, NEW s \in Slots, ResolveByToken(s)
  PROVE  Walks(s, {"lookup", "remember"}, {"remember", "allowed", "done"}) /\ PcOnly(s)
<1>1. PICK p \in {"remember", "allowed", "done"} : Go(s, p)
  BY DEF ResolveByToken, Done
<1>2. req[s].pc \in {"lookup", "remember"} /\ scenario' = scenario /\ {"remember", "allowed", "done"} \subseteq Pcs
  BY InPcs DEF ResolveByToken, Does, Begin
<1> QED
  BY <1>1, <1>2, GoWalks

LEMMA AddAdmitWalks ==
  ASSUME AllTypes, NEW s \in Slots, AddAdmit(s)
  PROVE  Walks(s, {"allowed"}, {"replay", "done"}) /\ PcOnly(s)
<1>1. PICK p \in {"replay", "done"} : Go(s, p)
  BY DEF AddAdmit, Done
<1>2. req[s].pc \in {"allowed"} /\ scenario' = scenario /\ {"replay", "done"} \subseteq Pcs
  BY InPcs DEF AddAdmit, Does, Begin
<1> QED
  BY <1>1, <1>2, GoWalks

LEMMA AddReplayWalks ==
  ASSUME AllTypes, NEW s \in Slots, AddReplay(s)
  PROVE  Walks(s, {"replay"}, {"reserve", "done"}) /\ PcOnly(s)
<1>1. PICK p \in {"reserve", "done"} : Go(s, p)
  BY DEF AddReplay, Done
<1>2. req[s].pc \in {"replay"} /\ scenario' = scenario /\ {"reserve", "done"} \subseteq Pcs
  BY InPcs DEF AddReplay, Does, Begin
<1> QED
  BY <1>1, <1>2, GoWalks

LEMMA DeliverWalks ==
  ASSUME AllTypes, NEW s \in Slots, Deliver(s)
  PROVE  Walks(s, {"new"}, {"queued"}) /\ PcOnly(s)
<1>1. PICK p \in {"queued"} : Go(s, p)
  BY DEF Deliver, Done
<1>2. req[s].pc \in {"new"} /\ scenario' = scenario /\ {"queued"} \subseteq Pcs
  BY InPcs DEF Deliver, Does, Begin
<1> QED
  BY <1>1, <1>2, GoWalks

LEMMA JobLockWalks ==
  ASSUME AllTypes, NEW s \in Slots, JobLock(s)
  PROVE  Walks(s, {"lock"}, {"extract", "done"}) /\ PcOnly(s)
<1>1. PICK p \in {"extract", "done"} : Go(s, p)
  BY DEF JobLock, Done
<1>2. req[s].pc \in {"lock"} /\ scenario' = scenario /\ {"extract", "done"} \subseteq Pcs
  BY InPcs DEF JobLock, Does, Begin
<1> QED
  BY <1>1, <1>2, GoWalks

LEMMA JobExtractWalks ==
  ASSUME AllTypes, NEW s \in Slots, JobExtract(s)
  PROVE  Walks(s, {"extract"}, {"store"}) /\ PcOnly(s)
<1>1. PICK p \in {"store"} : Go(s, p)
  BY DEF JobExtract, Done
<1>2. req[s].pc \in {"extract"} /\ scenario' = scenario /\ {"store"} \subseteq Pcs
  BY InPcs DEF JobExtract, Does, Begin
<1> QED
  BY <1>1, <1>2, GoWalks

LEMMA CorrectCommitWalks ==
  ASSUME AllTypes, NEW s \in Slots, CorrectCommit(s)
  PROVE  Walks(s, {"corrected"}, {"done"}) /\ PcOnly(s)
<1>1. PICK p \in {"done"} : Go(s, p)
  BY DEF CorrectCommit, Done
<1>2. req[s].pc \in {"corrected"} /\ scenario' = scenario /\ {"done"} \subseteq Pcs
  BY InPcs DEF CorrectCommit, Does, Begin
<1> QED
  BY <1>1, <1>2, GoWalks

LEMMA DeleteCommitWalks ==
  ASSUME AllTypes, NEW s \in Slots, DeleteCommit(s)
  PROVE  Walks(s, {"deleted"}, {"done"}) /\ PcOnly(s)
<1>1. PICK p \in {"done"} : Go(s, p)
  BY DEF DeleteCommit, Done
<1>2. req[s].pc \in {"deleted"} /\ scenario' = scenario /\ {"done"} \subseteq Pcs
  BY InPcs DEF DeleteCommit, Does, Begin
<1> QED
  BY <1>1, <1>2, GoWalks

LEMMA CutAndDoneWalks ==
  ASSUME AllTypes, NEW s \in Slots, NEW b \in BOOLEAN, CutAndDone(s, b), scenario' = scenario, NEW P,
         req[s].pc \in P,
         req[s].pc \notin Extracting
  PROVE  /\ Walks(s, P, {"done"}) /\ req'[s].staged = req[s].staged /\ req'[s].cut = req[s].cut
         /\ req'[s].tries = req[s].tries
         /\ \A t \in Slots \ {s} : req'[t].cut = IF req[t].pc \in Extracting /\ payload(t).agent = ask(s).agent
                                                 THEN b ELSE req[t].cut
<1>1. req \in [Slots -> Local]
  BY DEF AllTypes, SlotTypes
<1>2. PICK f : f = CutOff(ask(s).agent, b)
  OBVIOUS
<1>3. /\ f \in [Slots -> Local]
      /\ \A t \in Slots : /\ Alike(f[t], req[t])
                          /\ f[t].cut = IF req[t].pc \in Extracting /\ payload(t).agent = ask(s).agent
                                        THEN b ELSE req[t].cut
  BY <1>1, <1>2, CutOffIs
<1>4. req' = [f EXCEPT ![s] = [f[s] EXCEPT !.pc = "done"]]
  BY <1>2 DEF CutAndDone
<1>5. PICK x : x = [f[s] EXCEPT !.pc = "done"]
  OBVIOUS
<1>6. x \in Local /\ x.pc = "done" /\ x.staged = f[s].staged /\ x.cut = f[s].cut /\ x.tries = f[s].tries
  <2>1. f[s] \in Local /\ "done" \in Pcs
    BY <1>3, InPcs
  <2> QED
    BY <1>5, <2>1 DEF Local
<1>7. req' \in [Slots -> Local] /\ req'[s] = x /\ \A t \in Slots \ {s} : req'[t] = f[t]
  BY <1>3, <1>4, <1>5, <1>6
<1> QED
  BY <1>3, <1>6, <1>7 DEF Walks, Moved, Others, Alike

LEMMA EnterWalks ==
  ASSUME AllTypes, NEW s \in Slots, Enter(s)
  PROVE  /\ Walks(s, {"new"}, {ask(s).op, "done"}) /\ Same(s) /\ ask(s).op \in Owners /\ req'[s].tok = user.token
         /\ req'[s].pc # "done" => Alive \/ ask(s).who = 2
<1>1. PICK p \in {ask(s).op, "done"} : GoTok(s, p, user.token) /\ (p # "done" => Alive \/ ask(s).who = 2)
  BY DEF Enter
<1>2. req[s].pc = "new" /\ scenario' = scenario /\ ask(s).op \in Owners
  BY DEF Enter, Begin, Does
<1>3. p \in Pcs /\ user.token \in Slots \cup {0}
  BY <1>2, InPcs DEF Owners, AllTypes, AccountTypes, User
<1> QED
  BY <1>1, <1>2, <1>3, GoTokWalks

LEMMA RegisterWalks ==
  ASSUME AllTypes, NEW s \in Slots, Register(s)
  PROVE  /\ Walks(s, {"new", "insert"}, {"insert", "done", "recache"}) /\ Same(s)
         /\ req'[s].pc = "recache" => req'[s].tok = s
<1>1. scenario' = scenario /\ {"insert", "done", "recache"} \subseteq Pcs /\ req[s].pc \in {"new", "insert"}
  BY InPcs DEF Register, Begin, Does
<1>2. (\E p \in {"insert", "done"} : Go(s, p)) \/ GoTok(s, "recache", s)
  BY DEF Register, Done
<1>3. ASSUME NEW p \in {"insert", "done"}, Go(s, p)
      PROVE  Walks(s, {"new", "insert"}, {"insert", "done", "recache"}) /\ req'[s].pc = p /\ PcOnly(s)
  BY <1>1, <1>3, GoWalks
<1>4. CASE GoTok(s, "recache", s)
  BY <1>1, <1>4, GoTokWalks
<1> QED
  BY <1>2, <1>3, <1>4 DEF PcOnly

LEMMA VerifyOtpWalks ==
  ASSUME AllTypes, NEW s \in Slots, VerifyOtp(s)
  PROVE  /\ Walks(s, {"new", "compare"}, {"compare", "done", "accept", "count"}) /\ Same(s)
         /\ req'[s].pc = "accept" => req'[s].tok = user.token
<1>1. /\ scenario' = scenario /\ {"compare", "done", "accept", "count"} \subseteq Pcs
      /\ req[s].pc \in {"new", "compare"}
      /\ user.token \in Slots \cup {0}
  BY InPcs DEF VerifyOtp, Begin, Does, AllTypes, AccountTypes, User
<1>2. (\E p \in {"compare", "done", "count"} : Go(s, p)) \/ GoTok(s, "accept", user.token)
  BY DEF VerifyOtp
<1>3. ASSUME NEW p \in {"compare", "done", "count"}, Go(s, p)
      PROVE  Walks(s, {"new", "compare"}, {"compare", "done", "accept", "count"}) /\ req'[s].pc = p /\ PcOnly(s)
  BY <1>1, <1>3, GoWalks
<1>4. CASE GoTok(s, "accept", user.token)
  BY <1>1, <1>4, GoTokWalks
<1> QED
  BY <1>2, <1>3, <1>4 DEF PcOnly

LEMMA EraseWalks ==
  ASSUME AllTypes, NEW s \in Slots, Erase(s)
  PROVE  Walks(s, {"erase", "ids", "wipe", "uncache"}, {"ids", "wipe", "uncache", "done"}) /\ PcOnly(s)
<1>1. /\ scenario' = scenario /\ {"ids", "wipe", "uncache", "done"} \subseteq Pcs
      /\ req[s].pc \in {"erase", "ids", "wipe", "uncache"} /\ Stored \in SUBSET MemIds
  BY InPcs DEF Erase, Does, AllTypes, RowsTypes
<1>2. (\E p \in {"ids", "uncache", "done"} : Go(s, p)) \/ GoIds(s, "wipe", Stored)
  BY DEF Erase, Done
<1>3. ASSUME NEW p \in {"ids", "uncache", "done"}, Go(s, p)
      PROVE  Walks(s, {"erase", "ids", "wipe", "uncache"}, {"ids", "wipe", "uncache", "done"}) /\ PcOnly(s)
  BY <1>1, <1>3, GoWalks
<1>4. CASE GoIds(s, "wipe", Stored)
  BY <1>1, <1>4, GoIdsWalks
<1> QED
  BY <1>2, <1>3, <1>4

LEMMA GrantConnectWalks ==
  ASSUME AllTypes, NEW s \in Slots, GrantConnect(s)
  PROVE  /\ Walks(s, {"connect"}, {"check", "done"}) /\ Same(s) /\ req'[s].seen = (link.proxy # 0)
         /\ req'[s].pc = "check" => Connects(ask(s).who)
<1>1. PICK b \in BOOLEAN : b = (link.proxy # 0)
  OBVIOUS
<1>2. PICK p \in {"check", "done"} : GoSeen(s, p, b) /\ (p = "check" => Connects(ask(s).who))
  BY <1>1 DEF GrantConnect
<1>3. scenario' = scenario /\ {"check", "done"} \subseteq Pcs /\ req[s].pc \in {"connect"}
  BY InPcs DEF GrantConnect, Does
<1>4. Walks(s, {"connect"}, {"check", "done"}) /\ Same(s) /\ req'[s].seen = b /\ req'[s].pc = p
  BY <1>2, <1>3, GoSeenWalks
<1> QED
  BY <1>1, <1>2, <1>4

LEMMA GrantUpsertWalks ==
  ASSUME AllTypes, NEW s \in Slots, GrantUpsert(s)
  PROVE  /\ Walks(s, {"upsert"}, {"done"}) /\ req'[s].staged = req[s].staged /\ req'[s].cut = req[s].cut
         /\ req'[s].tries = req[s].tries
<1>1. scenario' = scenario /\ "done" \in Pcs /\ req[s].pc \in {"upsert"} /\ req[s].pc \notin Extracting
  BY InPcs DEF GrantUpsert, Does, Extracting
<1>2. Go(s, "done") \/ CutAndDone(s, ~ask(s).rw)
  BY DEF GrantUpsert, Done
<1>3. CASE Go(s, "done")
  <2>1. Walks(s, {"upsert"}, {"done"}) /\ PcOnly(s)
    BY <1>1, <1>3, GoWalks
  <2> QED
    BY <2>1 DEF PcOnly, Same
<1>4. CASE CutAndDone(s, ~ask(s).rw)
  BY <1>1, <1>4, CutAndDoneWalks
<1> QED
  BY <1>2, <1>3, <1>4

LEMMA RevokeWalks ==
  ASSUME AllTypes, NEW s \in Slots, RevokeGrant(s)
  PROVE  /\ Walks(s, {"revoke", "revoking"}, {"revoking", "done"}) /\ req'[s].staged = req[s].staged
         /\ req'[s].cut = req[s].cut /\ req'[s].tries = req[s].tries
<1>1. /\ scenario' = scenario /\ {"revoking", "done"} \subseteq Pcs /\ req[s].pc \in {"revoke", "revoking"}
      /\ req[s].pc \notin Extracting
  BY InPcs DEF RevokeGrant, Does, Extracting
<1>2. (\E p \in {"revoking", "done"}, b \in BOOLEAN : GoSeen(s, p, b)) \/ Go(s, "done") \/ CutAndDone(s, TRUE)
  BY DEF RevokeGrant, Done
<1>3. CASE Go(s, "done")
  <2>1. Walks(s, {"revoke", "revoking"}, {"revoking", "done"}) /\ PcOnly(s)
    BY <1>1, <1>3, GoWalks
  <2> QED
    BY <2>1 DEF PcOnly, Same
<1>4. CASE CutAndDone(s, TRUE)
  <2>1. /\ Walks(s, {"revoke", "revoking"}, {"done"}) /\ req'[s].staged = req[s].staged
        /\ req'[s].cut = req[s].cut /\ req'[s].tries = req[s].tries
    BY <1>1, <1>4, CutAndDoneWalks
  <2> QED
    BY <2>1 DEF Walks
<1>5. ASSUME NEW p \in {"revoking", "done"}, NEW b \in BOOLEAN, GoSeen(s, p, b)
      PROVE  Walks(s, {"revoke", "revoking"}, {"revoking", "done"}) /\ Same(s)
  BY <1>1, <1>5, GoSeenWalks
<1> QED
  BY <1>2, <1>3, <1>4, <1>5 DEF Same

LEMMA RetireWalks ==
  ASSUME AllTypes, NEW s \in Slots, Retire(s)
  PROVE  /\ Walks(s, {"new", "retiring"}, {"retiring", "done"}) /\ req'[s].staged = req[s].staged
         /\ req'[s].cut = req[s].cut /\ req'[s].tries = req[s].tries
<1>1. /\ scenario' = scenario /\ {"retiring", "done"} \subseteq Pcs /\ req[s].pc \in {"new", "retiring"}
      /\ req[s].pc \notin Extracting
  BY InPcs DEF Retire, Does, Begin, Extracting
<1>2. (\E b \in BOOLEAN : GoSeen(s, "retiring", b)) \/ Go(s, "done") \/ CutAndDone(s, TRUE)
  BY DEF Retire, Done
<1>3. CASE Go(s, "done")
  <2>1. Walks(s, {"new", "retiring"}, {"retiring", "done"}) /\ PcOnly(s)
    BY <1>1, <1>3, GoWalks
  <2> QED
    BY <2>1 DEF PcOnly, Same
<1>4. CASE CutAndDone(s, TRUE)
  <2>1. /\ Walks(s, {"new", "retiring"}, {"done"}) /\ req'[s].staged = req[s].staged
        /\ req'[s].cut = req[s].cut /\ req'[s].tries = req[s].tries
    BY <1>1, <1>4, CutAndDoneWalks
  <2> QED
    BY <2>1 DEF Walks
<1>5. ASSUME NEW b \in BOOLEAN, GoSeen(s, "retiring", b)
      PROVE  Walks(s, {"new", "retiring"}, {"retiring", "done"}) /\ Same(s)
  BY <1>1, <1>5, GoSeenWalks
<1> QED
  BY <1>2, <1>3, <1>4, <1>5 DEF Same

LEMMA OAuthCallbackWalks ==
  ASSUME AllTypes, NEW s \in Slots, OAuthCallback(s)
  PROVE  /\ Walks(s, {"new", "provider"}, {"provider", "callback", "done"}) /\ Same(s)
         /\ req'[s].pc = "provider" => req'[s].n \in Users
         /\ req'[s].pc = "callback" => req'[s].n = req[s].n /\ Connects(req[s].n) /\ req'[s].seen = (link.proxy # 0)
<1>1. /\ scenario' = scenario /\ {"provider", "callback", "done"} \subseteq Pcs /\ req[s].pc \in {"new", "provider"}
      /\ link.oauth \in {0} \cup Users /\ Users \subseteq Nat
  BY InPcs DEF OAuthCallback, Does, Begin, AllTypes, ConsentTypes, Link, Users
<1>2. \/ \E p \in {"done", "provider"} : GoNumber(s, p, link.oauth) /\ (p = "provider" => link.oauth # 0)
      \/ \E p \in {"callback", "done"} : /\ GoSeen(s, p, link.proxy # 0)
                                         /\ p = "callback" => Connects(req[s].n)
  BY DEF OAuthCallback
<1>3. ASSUME NEW p \in {"done", "provider"}, GoNumber(s, p, link.oauth), p = "provider" => link.oauth # 0
      PROVE  /\ Walks(s, {"new", "provider"}, {"provider", "callback", "done"}) /\ Same(s) /\ req'[s].pc = p
             /\ req'[s].n = link.oauth
  <2>1. PICK n \in Nat : n = link.oauth
    BY <1>1
  <2>2. GoNumber(s, p, n)
    BY <1>3, <2>1
  <2> QED
    BY <1>1, <2>1, <2>2, GoNumberWalks
<1>4. ASSUME NEW p \in {"callback", "done"}, GoSeen(s, p, link.proxy # 0), p = "callback" => Connects(req[s].n)
      PROVE  /\ Walks(s, {"new", "provider"}, {"provider", "callback", "done"}) /\ Same(s) /\ req'[s].pc = p
             /\ req'[s].n = req[s].n /\ req'[s].seen = (link.proxy # 0)
  <2>1. PICK b \in BOOLEAN : b = (link.proxy # 0)
    OBVIOUS
  <2>2. GoSeen(s, p, b)
    BY <1>4, <2>1
  <2>3. /\ Walks(s, {"new", "provider"}, {"provider", "callback", "done"}) /\ Same(s) /\ req'[s].pc = p
        /\ req'[s].n = req[s].n /\ req'[s].seen = b
    BY <1>1, <2>2, GoSeenWalks
  <2> QED
    BY <2>1, <2>3
<1> QED
  BY <1>1, <1>2, <1>3, <1>4

LEMMA RetrieveWalks ==
  ASSUME AllTypes, NEW s \in Slots, Retrieve(s)
  PROVE  Walks(s, {"allowed"}, {"search", "done"}) /\ PcOnly(s)
<1>1. PICK p \in {"search", "done"} : GoCats(s, p, grant[ask(s).agent].cats)
  BY DEF Retrieve
<1>2. /\ scenario' = scenario /\ {"search", "done"} \subseteq Pcs /\ req[s].pc \in {"allowed"}
      /\ scenario \in DOMAIN Scenarios /\ grant \in [Agents -> Grant]
  BY InPcs DEF Retrieve, Does, AllTypes, SlotTypes, ConsentTypes
<1>3. grant[ask(s).agent].cats \in SUBSET Categories
  BY <1>2, RequestIs DEF Grant
<1> QED
  BY <1>1, <1>2, <1>3, GoCatsWalks

LEMMA SearchWalks ==
  ASSUME AllTypes, NEW s \in Slots, Search(s)
  PROVE  Walks(s, {"search"}, {"done"}) /\ PcOnly(s)
<1>1. PICK i : i = {m \in Stored : mem[m].st = "live" /\ m \in DOMAIN vec}
  OBVIOUS
<1>2. /\ scenario' = scenario /\ "done" \in Pcs /\ req[s].pc \in {"search"} /\ Stored \in SUBSET MemIds
      /\ GoIds(s, "done", i)
  BY <1>1, InPcs DEF Search, Does, AllTypes, RowsTypes
<1>3. i \in SUBSET MemIds
  BY <1>1, <1>2
<1> QED
  BY <1>2, <1>3, GoIdsWalks

LEMMA AddDispatchWalks ==
  ASSUME AllTypes, NEW s \in Slots, AddDispatch(s)
  PROVE  Walks(s, {"reserve", "dispatch"}, {"dispatch", "queued", "done"}) /\ PcOnly(s)
<1>1. /\ scenario' = scenario /\ {"dispatch", "queued", "done"} \subseteq Pcs
      /\ req[s].pc \in {"reserve", "dispatch"}
      /\ req \in [Slots -> Local]
  BY InPcs DEF AddDispatch, Does, AllTypes, SlotTypes
<1>2. \/ \E p \in {"dispatch", "done"} : Go(s, p)
      \/ req' = [req EXCEPT ![s] = [req[s] EXCEPT !.pc = "queued", !.published = TRUE]]
  BY <1>1 DEF AddDispatch, Done
<1>3. ASSUME NEW p \in {"dispatch", "done"}, Go(s, p)
      PROVE  Walks(s, {"reserve", "dispatch"}, {"dispatch", "queued", "done"}) /\ PcOnly(s)
  BY <1>1, <1>3, GoWalks
<1>4. CASE req' = [req EXCEPT ![s] = [req[s] EXCEPT !.pc = "queued", !.published = TRUE]]
  <2>1. PICK x : x = [req[s] EXCEPT !.pc = "queued", !.published = TRUE]
    OBVIOUS
  <2>2. /\ x \in Local /\ x.pc = "queued" /\ x.staged = req[s].staged /\ x.cut = req[s].cut
        /\ x.tries = req[s].tries
        /\ x.tok = req[s].tok /\ x.seen = req[s].seen /\ x.n = req[s].n
    <3>1. req[s] \in Local /\ "queued" \in Pcs
      BY <1>1
    <3> QED
      BY <2>1, <3>1 DEF Local
  <2>3. Moved(s) /\ req'[s] = x /\ \A t \in Slots \ {s} : req'[t] = req[t]
    BY <1>1, <1>4, <2>1, <2>2, Edited
  <2> QED
    BY <1>1, <2>2, <2>3 DEF Walks, PcOnly, Same
<1> QED
  BY <1>2, <1>3, <1>4

\* A retried job starts again, or is over.
LEMMA RetryWalks ==
  ASSUME AllTypes, NEW s \in Slots, Retry(s), scenario' = scenario, NEW P, req[s].pc \in P
  PROVE  /\ Walks(s, P, {"queued", "done"}) /\ req'[s].staged = <<>> /\ req'[s].cut = FALSE
         /\ req'[s].tries = req[s].tries + 1 /\ (req'[s].pc = "queued" => req[s].tries + 1 < MaxRetries)
         /\ \A t \in Slots \ {s} : req'[t] = req[t]
<1>1. req \in [Slots -> Local]
  BY DEF AllTypes, SlotTypes
<1> QED
  BY <1>1, RetryIs DEF Walks

LEMMA JobBeginWalks ==
  ASSUME AllTypes, NEW s \in Slots, JobBegin(s), ask(s).op \in {"add", "deliver"}
  PROVE  \/ Walks(s, {"queued"}, {"lock", "done"}) /\ PcOnly(s) /\ (req'[s].pc = "lock" => WriteGrant(s))
         \/ Retry(s) /\ scenario' = scenario /\ req[s].pc = "queued"
<1>1. /\ scenario' = scenario /\ {"lock", "done"} \subseteq Pcs /\ req[s].pc \in {"queued"}
      /\ scenario \in DOMAIN Scenarios /\ grant \in [Agents -> Grant]
  BY InPcs DEF JobBegin, Does, AllTypes, SlotTypes, ConsentTypes
<1>2. grant[payload(s).agent].cats \in SUBSET Categories
  BY <1>1, PayloadIs DEF Grant
<1>3. CASE ~Retry(s)
  <2>1. PICK p \in {"lock", "done"} : GoCats(s, p, grant[payload(s).agent].cats) /\ (p = "lock" => WriteGrant(s))
    BY <1>3 DEF JobBegin
  <2> QED
    BY <1>1, <1>2, <2>1, GoCatsWalks
<1> QED
  BY <1>1, <1>3

\* What a job stages is one decision more.
LEMMA StagedMore ==
  ASSUME AllTypes, NEW s \in Slots, NEW d \in {"skip", "activated", "asserted", "disputed"}
  PROVE  Append(req[s].staged, d) \in Staged
<1>1. req[s].staged \in Staged
  BY DEF AllTypes, SlotTypes, Local, Staged
<1> QED
  BY <1>1 DEF Staged

LEMMA JobInsertWalks ==
  ASSUME AllTypes, NEW s \in Slots, JobInsert(s)
  PROVE  \/ /\ Walks(s, {"store"}, {"store"}) /\ req'[s].cut = req[s].cut /\ req'[s].tries = req[s].tries
            /\ req'[s].staged = Append(req[s].staged, "skip") /\ \A t \in Slots \ {s} : req'[t] = req[t]
         \/ Walks(s, {"store"}, {"claim"}) /\ PcOnly(s) /\ Alive
         \/ Retry(s) /\ scenario' = scenario /\ req[s].pc = "store"
<1>1. scenario' = scenario /\ {"store", "claim"} \subseteq Pcs /\ req[s].pc \in {"store"}
  BY InPcs DEF JobInsert, Does
<1>2. CASE GoStaged(s, "store", Append(req[s].staged, "skip"))
  <2>1. PICK g \in Staged : g = Append(req[s].staged, "skip")
    BY StagedMore
  <2>2. GoStaged(s, "store", g)
    BY <1>2, <2>1
  <2> QED
    <3>1. /\ Walks(s, {"store"}, {"store"}) /\ req'[s].staged = g /\ req'[s].cut = req[s].cut
          /\ req'[s].tries = req[s].tries /\ \A t \in Slots \ {s} : req'[t] = req[t]
      BY <1>1, <2>2, GoStagedWalks
    <3> QED
      BY <2>1, <3>1
<1>3. CASE Go(s, "claim") /\ Alive
  <2>1. PICK p \in Pcs : p = "claim"
    BY <1>1
  <2>2. Go(s, p) /\ p \in {"claim"}
    BY <1>3, <2>1
  <2>3. Walks(s, {"store"}, {"claim"}) /\ PcOnly(s)
    BY <1>1, <2>2, GoWalks
  <2> QED
    BY <1>3, <2>3
<1> QED
  BY <1>1, <1>2, <1>3 DEF JobInsert

LEMMA DecisionIs ==
  ASSUME NEW s, NEW c, NEW v
  PROVE  Decision(s, c, v) \in {"activated", "asserted", "disputed"}
  BY DEF Decision

LEMMA JobRecordWalks ==
  ASSUME AllTypes, NEW s \in Slots, JobRecord(s)
  PROVE  /\ Walks(s, {"claim"}, {"store"}) /\ req'[s].cut = req[s].cut /\ req'[s].tries = req[s].tries
         /\ req'[s].staged = Append(req[s].staged, Decision(s, Cur(s).claim, Cur(s).val))
         /\ \A t \in Slots \ {s} : req'[t] = req[t]
<1>1. scenario' = scenario /\ {"store", "claim"} \subseteq Pcs /\ req[s].pc \in {"claim"}
  BY InPcs DEF JobRecord, Does
<1>2. PICK g \in Staged : g = Append(req[s].staged, Decision(s, Cur(s).claim, Cur(s).val))
  BY StagedMore, DecisionIs
<1>3. GoStaged(s, "store", g)
  BY <1>2 DEF JobRecord
<1>4. /\ Walks(s, {"claim"}, {"store"}) /\ req'[s].staged = g /\ req'[s].cut = req[s].cut
      /\ req'[s].tries = req[s].tries /\ \A t \in Slots \ {s} : req'[t] = req[t]
  BY <1>1, <1>3, GoStagedWalks
<1> QED
  BY <1>2, <1>4

LEMMA DropsStaged ==
  ASSUME AllTypes, NEW s \in Slots, NEW P, req[s].pc \in P, GoStaged(s, "done", <<>>), scenario' = scenario
  PROVE  /\ Walks(s, P, {"done"}) /\ req'[s].cut = req[s].cut /\ req'[s].tries = req[s].tries
         /\ req'[s].staged = <<>> /\ \A t \in Slots \ {s} : req'[t] = req[t]
<1>1. "done" \in Pcs /\ <<>> \in Staged
  BY InPcs DEF Staged
<1> QED
  BY <1>1, GoStagedWalks

LEMMA JobFinalWalks ==
  ASSUME AllTypes, NEW s \in Slots, JobFinal(s)
  PROVE  \/ Walks(s, {"store"}, {"commit"}) /\ PcOnly(s) /\ WriteGrant(s)
         \/ /\ Walks(s, {"store"}, {"done"}) /\ req'[s].cut = req[s].cut /\ req'[s].tries = req[s].tries
            /\ req'[s].staged = <<>> /\ \A t \in Slots \ {s} : req'[t] = req[t]
<1>1. scenario' = scenario /\ "commit" \in Pcs /\ req[s].pc \in {"store"}
  BY InPcs DEF JobFinal, Does
<1>2. CASE Go(s, "commit") /\ WriteGrant(s)
  BY <1>1, <1>2, GoWalks
<1>3. CASE GoStaged(s, "done", <<>>)
  BY <1>1, <1>3, DropsStaged
<1> QED
  BY <1>2, <1>3 DEF JobFinal, StillGranted

LEMMA JobCommitWalks ==
  ASSUME AllTypes, NEW s \in Slots, JobCommit(s)
  PROVE  \/ /\ Walks(s, {"commit"}, {"done"}) /\ req'[s].cut = req[s].cut /\ req'[s].tries = req[s].tries
            /\ req'[s].staged = <<>> /\ \A t \in Slots \ {s} : req'[t] = req[t]
         \/ Retry(s) /\ scenario' = scenario /\ req[s].pc = "commit"
<1>1. scenario' = scenario /\ req[s].pc \in {"commit"}
  BY DEF JobCommit, Does
<1>2. CASE GoStaged(s, "done", <<>>)
  BY <1>1, <1>2, DropsStaged
<1> QED
  BY <1>1, <1>2 DEF JobCommit

LEMMA VictimWalks ==
  ASSUME NEW s, Victim(s)
  PROVE  Retry(s) /\ scenario' = scenario /\ req[s].pc = "claim"
  BY DEF Victim, Does

Breakable == {"insert", "connect", "upsert", "callback", "swap", "wipe", "archive", "recording", "corrected",
              "deleted"}
LEMMA FailWalks ==
  ASSUME AllTypes, NEW s \in Slots, Fail(s)
  PROVE  \/ Retry(s) /\ scenario' = scenario /\ req[s].pc \in {"extract", "store", "claim", "commit"}
         \/ Walks(s, Breakable, {"done"}) /\ PcOnly(s)
<1>1. scenario' = scenario /\ "done" \in Pcs
  BY InPcs DEF Fail
<1>2. CASE req[s].pc \in Breakable /\ Go(s, "done")
  BY <1>1, <1>2, GoWalks
<1> QED
  BY <1>1, <1>2 DEF Fail, Done, Breakable

\* What is read of a memory.
LEMMA RowIs ==
  ASSUME AllTypes, NEW m \in Stored
  PROVE  /\ m \in MemIds /\ mem[m] \in Memory /\ mem[m].flagged \in BOOLEAN /\ mem[m].pending \in Nat
         /\ mem[m].ver \in Nat
         /\ mem[m].claim \in Claims /\ mem[m].val \in Values /\ mem[m].agent \in Agents
<1>1. m \in MemIds /\ mem[m] \in Memory
  BY DEF AllTypes, RowsTypes
<1> QED
  BY <1>1 DEF Memory

LEMMA FlagWalks ==
  ASSUME AllTypes, NEW s \in Slots, Flag(s)
  PROVE  Walks(s, {"flag", "flagging"}, {"flagging", "done"}) /\ Same(s)
<1>1. /\ scenario' = scenario /\ {"flagging", "done"} \subseteq Pcs /\ req[s].pc \in {"flag", "flagging"}
      /\ req \in [Slots -> Local]
  BY InPcs DEF Flag, Does, AllTypes, SlotTypes
<1>2. CASE Go(s, "done")
  <2>1. Walks(s, {"flag", "flagging"}, {"flagging", "done"}) /\ PcOnly(s)
    BY <1>1, <1>2, GoWalks
  <2> QED
    BY <2>1 DEF PcOnly
<1>3. CASE ~Go(s, "done")
  <2>1. PICK m \in Stored : req' = [req EXCEPT ![s] = [req[s] EXCEPT !.pc = "flagging", !.seen = mem[m].flagged,
                                                                     !.n = mem[m].pending]]
    BY <1>1, <1>3 DEF Flag, Done, Live
  <2>2. PICK b \in BOOLEAN, n \in Nat : b = mem[m].flagged /\ n = mem[m].pending
    BY RowIs
  <2>3. PICK x : x = [req[s] EXCEPT !.pc = "flagging", !.seen = b, !.n = n]
    OBVIOUS
  <2>4. x \in Local /\ x.pc = "flagging" /\ x.staged = req[s].staged /\ x.cut = req[s].cut /\ x.tries = req[s].tries
    <3>1. req[s] \in Local /\ "flagging" \in Pcs
      BY <1>1
    <3> QED
      BY <2>3, <3>1 DEF Local
  <2>5. Moved(s) /\ req'[s] = x /\ \A t \in Slots \ {s} : req'[t] = req[t]
    BY <1>1, <2>1, <2>2, <2>3, <2>4, Edited
  <2> QED
    BY <1>1, <2>4, <2>5 DEF Walks, Same
<1> QED
  BY <1>2, <1>3

LEMMA UnflagWalks ==
  ASSUME AllTypes, NEW s \in Slots, Unflag(s)
  PROVE  Walks(s, {"unflag", "unflagging"}, {"unflagging", "done"}) /\ Same(s)
<1>1. scenario' = scenario /\ {"unflagging", "done"} \subseteq Pcs /\ req[s].pc \in {"unflag", "unflagging"}
  BY InPcs DEF Unflag, Does
<1>2. CASE Go(s, "done")
  <2>1. Walks(s, {"unflag", "unflagging"}, {"unflagging", "done"}) /\ PcOnly(s)
    BY <1>1, <1>2, GoWalks
  <2> QED
    BY <2>1 DEF PcOnly
<1>3. CASE ~Go(s, "done")
  <2>1. PICK m \in Stored : GoSeen(s, "unflagging", mem[m].flagged)
    BY <1>3 DEF Unflag, Done, Live
  <2>2. mem[m].flagged \in BOOLEAN
    BY RowIs
  <2> QED
    BY <1>1, <2>1, <2>2, GoSeenWalks
<1> QED
  BY <1>2, <1>3

LEMMA CorrectStageWalks ==
  ASSUME AllTypes, NEW s \in Slots, CorrectStage(s)
  PROVE  /\ Walks(s, {"correct", "embed", "archive", "recording"},
                  {"embed", "archive", "recording", "corrected", "done"}) /\ Same(s)
         /\ \/ req[s].pc = "correct" /\ req'[s].pc \in {"embed", "done"}
            \/ req[s].pc = "embed" /\ req'[s].pc = "done"
            \/ req[s].pc = "embed" /\ req'[s].pc = "archive" /\ ask(s).mem \in Stored
            \/ req[s].pc = "archive" /\ req'[s].pc = "recording" /\ req'[s].seen = IsActive(ask(s).mem)
            \/ /\ req[s].pc = "recording" /\ req'[s].pc = "corrected" /\ req'[s].seen = req[s].seen
               /\ ClaimFree(s, Head(ask(s).items).claim)
<1> DEFINE P == {"correct", "embed", "archive", "recording"}
           Q == {"embed", "archive", "recording", "corrected", "done"}
<1>1. scenario' = scenario /\ Q \subseteq Pcs /\ req[s].pc \in P
  BY InPcs DEF CorrectStage, Does
<1>2. ASSUME NEW p \in Q, Go(s, p) PROVE Walks(s, P, Q) /\ Same(s) /\ req'[s].pc = p /\ req'[s].seen = req[s].seen
  <2>1. Walks(s, P, Q) /\ PcOnly(s) /\ req'[s].pc = p
    BY <1>1, <1>2, GoWalks
  <2> QED
    BY <2>1 DEF PcOnly
<1>3. ASSUME GoSeen(s, "recording", IsActive(ask(s).mem))
      PROVE  Walks(s, P, Q) /\ Same(s) /\ req'[s].pc = "recording" /\ req'[s].seen = IsActive(ask(s).mem)
  <2>1. PICK b \in BOOLEAN : b = IsActive(ask(s).mem)
    BY DEF IsActive
  <2>2. GoSeen(s, "recording", b) /\ "recording" \in Q /\ "recording" \in Pcs
    BY <1>3, <2>1, InPcs
  <2>3. Walks(s, P, Q) /\ Same(s) /\ req'[s].pc = "recording" /\ req'[s].seen = b
    BY <1>1, <2>2, GoSeenWalks
  <2> QED
    BY <2>1, <2>3
<1>4. CASE req[s].pc = "correct" /\ \E p \in {"embed", "done"} : Go(s, p)
  BY <1>2, <1>4
<1>5. CASE req[s].pc = "embed" /\ Go(s, "done")
  BY <1>2, <1>5
<1>6. CASE req[s].pc = "embed" /\ Go(s, "archive") /\ ask(s).mem \in Stored
  BY <1>2, <1>6
<1>7. CASE req[s].pc = "archive" /\ GoSeen(s, "recording", IsActive(ask(s).mem))
  BY <1>3, <1>7
<1>8. CASE req[s].pc = "recording" /\ ClaimFree(s, Head(ask(s).items).claim) /\ Go(s, "corrected")
  BY <1>2, <1>8
<1> QED
  BY <1>4, <1>5, <1>6, <1>7, <1>8 DEF CorrectStage, Does, Done

LEMMA DeleteStageWalks ==
  ASSUME AllTypes, NEW s \in Slots, DeleteStage(s)
  PROVE  /\ Walks(s, {"delete", "number", "removing"}, {"number", "removing", "deleted", "done"}) /\ Same(s)
         /\ req'[s].pc = "deleted" => ask(s).mem \in Stored /\ req'[s].seen = IsActive(ask(s).mem)
<1> DEFINE P == {"delete", "number", "removing"}
           Q == {"number", "removing", "deleted", "done"}
<1>1. scenario' = scenario /\ Q \subseteq Pcs /\ req[s].pc \in P
  BY InPcs DEF DeleteStage, Does
<1>2. ASSUME NEW p \in {"number", "done"}, Go(s, p) PROVE Walks(s, P, Q) /\ Same(s) /\ req'[s].pc = p
  <2>1. p \in Q
    OBVIOUS
  <2>2. Walks(s, P, Q) /\ PcOnly(s) /\ req'[s].pc = p
    BY <1>1, <1>2, <2>1, GoWalks
  <2> QED
    BY <2>2 DEF PcOnly
<1>3. ASSUME NEW n \in Nat, GoNumber(s, "removing", n) PROVE Walks(s, P, Q) /\ Same(s) /\ req'[s].pc = "removing"
  <2>1. "removing" \in Q /\ "removing" \in Pcs
    BY InPcs
  <2> QED
    BY <1>1, <1>3, <2>1, GoNumberWalks
<1>4. ASSUME NEW p \in {"deleted", "done"}, GoSeen(s, p, IsActive(ask(s).mem))
      PROVE  Walks(s, P, Q) /\ Same(s) /\ req'[s].pc = p /\ req'[s].seen = IsActive(ask(s).mem)
  <2>1. PICK b \in BOOLEAN : b = IsActive(ask(s).mem)
    BY DEF IsActive
  <2>2. GoSeen(s, p, b) /\ p \in Q /\ p \in Pcs
    BY <1>4, <2>1, InPcs
  <2>3. Walks(s, P, Q) /\ Same(s) /\ req'[s].pc = p /\ req'[s].seen = b
    BY <1>1, <2>2, GoSeenWalks
  <2> QED
    BY <2>1, <2>3
<1>5. \/ \E p \in {"number", "done"} : Go(s, p)
      \/ \E n \in Nat : GoNumber(s, "removing", n)
      \/ \E p \in {"deleted", "done"} : /\ GoSeen(s, p, IsActive(ask(s).mem))
                                        /\ p = "deleted" => ask(s).mem \in Stored
  <2>1. (IF ask(s).mem \in Stored THEN mem[ask(s).mem].ver ELSE 0) \in Nat
    BY RowIs
  <2> QED
    BY <2>1 DEF DeleteStage, Done
<1> HIDE DEF P, Q
<1>6. ASSUME NEW p \in {"deleted", "done"}, GoSeen(s, p, IsActive(ask(s).mem)),
             p = "deleted" => ask(s).mem \in Stored
      PROVE  /\ Walks(s, P, Q) /\ Same(s)
             /\ (req'[s].pc = "deleted" => ask(s).mem \in Stored /\ req'[s].seen = IsActive(ask(s).mem))
  BY <1>4, <1>6
<1>7. /\ Walks(s, P, Q) /\ Same(s)
      /\ (req'[s].pc = "deleted" => ask(s).mem \in Stored /\ req'[s].seen = IsActive(ask(s).mem))
  BY <1>2, <1>3, <1>5, <1>6
<1> QED
  BY <1>7 DEF P, Q

-----------------------------------------------------------------------------
(* Every step is one request's, and what it does follows from what was       *)
(* asked.                                                                    *)

JobPcs == {"queued", "lock", "extract", "store", "claim", "commit"}
PlaceOK(p, o, k) ==
  /\ p \in JobPcs => o \in {"add", "deliver"} /\ k < MaxRetries
  /\ p \notin JobPcs \cup {"done"} => k = 0
  /\ k <= MaxRetries
  /\ p \in {"replay", "reserve", "dispatch"} => o = "add"
  /\ p \in {"grant", "connect", "check", "upsert"} => o = "grant"
  /\ p \in {"correct", "embed", "archive", "recording", "corrected"} => o = "correct"
  /\ p = "regenerate" => o = "regenerate"
  /\ p = "insert" => o = "register"
  /\ p \in {"compare", "accept", "clear"} => o = "verify"
  /\ p = "recache" => o \in {"register", "verify"}
Standing == \A s \in Slots : PlaceOK(req[s].pc, ask(s).op, req[s].tries)

\* A request that starts finds less than MaxOpen others, and moves to a place of its own.
Admits(s) ==
  /\ Moved(s) /\ req[s].pc # "done" /\ (req[s].pc = "new" => Cardinality(UnderWay) < MaxOpen)
  /\ PlaceOK(req'[s].pc, ask(s).op, req'[s].tries)

LEMMA RetryAdmits ==
  ASSUME AllTypes, NEW s \in Slots, PlaceOK(req[s].pc, ask(s).op, req[s].tries), Retry(s), scenario' = scenario,
         req[s].pc \in JobPcs
  PROVE  Admits(s)
<1>1. /\ Walks(s, JobPcs, {"queued", "done"}) /\ req'[s].tries = req[s].tries + 1
      /\ req'[s].pc = "queued" => req[s].tries + 1 < MaxRetries
  BY RetryWalks
<1>2. req[s].tries \in Nat /\ MaxRetries \in Nat
  BY PassportAssumption DEF AllTypes, SlotTypes, Local
<1> QED
  BY <1>1, <1>2 DEF Admits, Walks, PlaceOK, JobPcs

LEMMA StepAdmits ==
  ASSUME AllTypes, Standing, NEW s \in Slots, Step(s)
  PROVE  Admits(s)
<1> USE DEF Walks, Same, PcOnly
<1>0. /\ PlaceOK(req[s].pc, ask(s).op, req[s].tries) /\ req[s].tries \in Nat /\ MaxRetries \in Nat \ {0}
      /\ req[s].pc \in JobPcs => ask(s).op \in {"add", "deliver"}
  BY PassportAssumption DEF Standing, AllTypes, SlotTypes, Local, PlaceOK
<1>1. CASE Enter(s)
  BY <1>0, <1>1, EnterWalks DEF Admits, PlaceOK, JobPcs, Enter, Begin, Does, Owners
<1>2. CASE Register(s)
  BY <1>0, <1>2, RegisterWalks DEF Admits, PlaceOK, JobPcs, Register, Begin, Does
<1>3. CASE Recache(s)
  BY <1>0, <1>3, RecacheWalks DEF Admits, PlaceOK, JobPcs, Recache, Begin, Does
<1>4. CASE SendOtp(s)
  BY <1>0, <1>4, SendOtpWalks DEF Admits, PlaceOK, JobPcs, SendOtp, Begin, Does
<1>5. CASE VerifyOtp(s)
  BY <1>0, <1>5, VerifyOtpWalks DEF Admits, PlaceOK, JobPcs, VerifyOtp, Begin, Does
<1>6. CASE CountFailure(s)
  BY <1>0, <1>6, CountFailureWalks DEF Admits, PlaceOK, JobPcs, CountFailure, Begin, Does
<1>7. CASE AcceptOtp(s)
  BY <1>0, <1>7, AcceptOtpWalks DEF Admits, PlaceOK, JobPcs, AcceptOtp, Begin, Does
<1>8. CASE Regenerate(s)
  BY <1>0, <1>8, RegenerateWalks DEF Admits, PlaceOK, JobPcs, Regenerate, Begin, Does
<1>9. CASE Erase(s)
  BY <1>0, <1>9, EraseWalks DEF Admits, PlaceOK, JobPcs, Erase, Begin, Does
<1>10. CASE GrantConsume(s)
  BY <1>0, <1>10, GrantConsumeWalks DEF Admits, PlaceOK, JobPcs, GrantConsume, Begin, Does
<1>11. CASE GrantConnect(s)
  BY <1>0, <1>11, GrantConnectWalks DEF Admits, PlaceOK, JobPcs, GrantConnect, Begin, Does
<1>12. CASE GrantCheck(s)
  BY <1>0, <1>12, GrantCheckWalks DEF Admits, PlaceOK, JobPcs, GrantCheck, Begin, Does
<1>13. CASE GrantUpsert(s)
  BY <1>0, <1>13, GrantUpsertWalks DEF Admits, PlaceOK, JobPcs, GrantUpsert, Begin, Does
<1>14. CASE RevokeGrant(s)
  BY <1>0, <1>14, RevokeWalks DEF Admits, PlaceOK, JobPcs, RevokeGrant, Begin, Does
<1>15. CASE Narrow(s)
  BY <1>0, <1>15, NarrowWalks DEF Admits, PlaceOK, JobPcs, Narrow, Begin, Does
<1>16. CASE Retire(s)
  BY <1>0, <1>16, RetireWalks DEF Admits, PlaceOK, JobPcs, Retire, Begin, Does
<1>17. CASE IssueLink(s)
  BY <1>0, <1>17, IssueLinkWalks DEF Admits, PlaceOK, JobPcs, IssueLink, Begin, Does
<1>18. CASE OAuthInitiate(s)
  BY <1>0, <1>18, OAuthInitiateWalks DEF Admits, PlaceOK, JobPcs, OAuthInitiate, Begin, Does
<1>19. CASE OAuthCallback(s)
  BY <1>0, <1>19, OAuthCallbackWalks DEF Admits, PlaceOK, JobPcs, OAuthCallback, Begin, Does
<1>20. CASE OAuthCommit(s)
  BY <1>0, <1>20, OAuthCommitWalks DEF Admits, PlaceOK, JobPcs, OAuthCommit, Begin, Does
<1>21. CASE Disconnect(s)
  BY <1>0, <1>21, DisconnectWalks DEF Admits, PlaceOK, JobPcs, Disconnect, Begin, Does
<1>22. CASE Authenticate(s)
  BY <1>0, <1>22, AuthenticateWalks DEF Admits, PlaceOK, JobPcs, Authenticate, Begin, Does
<1>23. CASE IssueCapability(s)
  BY <1>0, <1>23, IssueCapabilityWalks DEF Admits, PlaceOK, JobPcs, IssueCapability, Begin, Does
<1>24. CASE UseCapability(s)
  BY <1>0, <1>24, UseCapabilityWalks DEF Admits, PlaceOK, JobPcs, UseCapability, Begin, Does
<1>25. CASE ResolveByToken(s)
  BY <1>0, <1>25, ResolveByTokenWalks DEF Admits, PlaceOK, JobPcs, ResolveByToken, Begin, Does
<1>26. CASE Retrieve(s)
  BY <1>0, <1>26, RetrieveWalks DEF Admits, PlaceOK, JobPcs, Retrieve, Begin, Does
<1>27. CASE Search(s)
  BY <1>0, <1>27, SearchWalks DEF Admits, PlaceOK, JobPcs, Search, Begin, Does
<1>28. CASE AddAdmit(s)
  BY <1>0, <1>28, AddAdmitWalks DEF Admits, PlaceOK, JobPcs, AddAdmit, Begin, Does
<1>29. CASE AddReplay(s)
  BY <1>0, <1>29, AddReplayWalks DEF Admits, PlaceOK, JobPcs, AddReplay, Begin, Does
<1>30. CASE AddDispatch(s)
  BY <1>0, <1>30, AddDispatchWalks DEF Admits, PlaceOK, JobPcs
<1>31. CASE Deliver(s)
  BY <1>0, <1>31, DeliverWalks DEF Admits, PlaceOK, JobPcs, Deliver, Begin, Does
<1>32. CASE JobBegin(s)
  <2>1. req[s].pc = "queued"
    BY <1>32 DEF JobBegin, Does
  <2>2. ask(s).op \in {"add", "deliver"}
    BY <1>0, <2>1 DEF JobPcs
  <2> QED
    BY <1>0, <1>32, <2>1, <2>2, JobBeginWalks, RetryAdmits DEF Admits, PlaceOK, JobPcs
<1>33. CASE JobLock(s)
  BY <1>0, <1>33, JobLockWalks DEF Admits, PlaceOK, JobPcs, JobLock, Begin, Does
<1>34. CASE JobExtract(s)
  BY <1>0, <1>34, JobExtractWalks DEF Admits, PlaceOK, JobPcs, JobExtract, Begin, Does
<1>35. CASE JobInsert(s)
  BY <1>0, <1>35, JobInsertWalks, RetryAdmits DEF Admits, PlaceOK, JobPcs
<1>36. CASE JobRecord(s)
  BY <1>0, <1>36, JobRecordWalks, RetryAdmits DEF Admits, PlaceOK, JobPcs
<1>37. CASE JobFinal(s)
  BY <1>0, <1>37, JobFinalWalks, RetryAdmits DEF Admits, PlaceOK, JobPcs
<1>38. CASE JobCommit(s)
  BY <1>0, <1>38, JobCommitWalks, RetryAdmits DEF Admits, PlaceOK, JobPcs
<1>39. CASE Victim(s)
  BY <1>0, <1>39, VictimWalks, RetryAdmits DEF Admits, PlaceOK, JobPcs
<1>40. CASE Fail(s)
  BY <1>0, <1>40, FailWalks, RetryAdmits DEF Admits, PlaceOK, JobPcs, Breakable
<1>41. CASE Flag(s)
  BY <1>0, <1>41, FlagWalks DEF Admits, PlaceOK, JobPcs, Flag, Begin, Does
<1>42. CASE Unflag(s)
  BY <1>0, <1>42, UnflagWalks DEF Admits, PlaceOK, JobPcs, Unflag, Begin, Does
<1>43. CASE CorrectStage(s)
  BY <1>0, <1>43, CorrectStageWalks DEF Admits, PlaceOK, JobPcs, CorrectStage, Begin, Does
<1>44. CASE CorrectCommit(s)
  BY <1>0, <1>44, CorrectCommitWalks DEF Admits, PlaceOK, JobPcs, CorrectCommit, Begin, Does
<1>45. CASE DeleteStage(s)
  BY <1>0, <1>45, DeleteStageWalks DEF Admits, PlaceOK, JobPcs, DeleteStage, Begin, Does
<1>46. CASE DeleteCommit(s)
  BY <1>0, <1>46, DeleteCommitWalks DEF Admits, PlaceOK, JobPcs, DeleteCommit, Begin, Does
<1> QED
  BY <1>1, <1>2, <1>3, <1>4, <1>5, <1>6, <1>7, <1>8, <1>9, <1>10, <1>11, <1>12, <1>13, <1>14, <1>15, <1>16, <1>17,
     <1>18, <1>19, <1>20, <1>21, <1>22, <1>23, <1>24, <1>25, <1>26, <1>27, <1>28, <1>29, <1>30, <1>31, <1>32,
     <1>33, <1>34, <1>35, <1>36, <1>37, <1>38, <1>39, <1>40, <1>41, <1>42, <1>43, <1>44, <1>45, <1>46 DEF Step

-----------------------------------------------------------------------------
(* The account.                                                              *)

\* The places of requests that deal with codes and tokens.
AccountPcs == {"send", "mail", "compare", "count", "bar", "recache", "accept", "clear", "remember", "regenerate",
               "drop", "swap", "publish"}
NoAccount(s) == /\ Moved(s) /\ UNCHANGED <<user, cached, otp, mixed>> /\ events' \in {events, events + 1}
                /\ req[s].pc \notin AccountPcs /\ req'[s].pc \notin AccountPcs
Accounts(s) == \/ Enter(s) \/ Register(s) \/ Recache(s) \/ SendOtp(s) \/ VerifyOtp(s) \/ CountFailure(s)
               \/ AcceptOtp(s) \/ Regenerate(s) \/ Erase(s) \/ ResolveByToken(s) \/ Fail(s)

LEMMA RetryNoAccount ==
  ASSUME AllTypes, NEW s \in Slots, Retry(s), scenario' = scenario, req[s].pc \in JobPcs,
         UNCHANGED <<user, cached, otp, mixed>>, events' \in {events, events + 1}
  PROVE  NoAccount(s)
<1>1. Walks(s, JobPcs, {"queued", "done"})
  BY RetryWalks
<1> QED
  BY <1>1 DEF NoAccount, Walks, JobPcs, AccountPcs

LEMMA StepAccounts ==
  ASSUME AllTypes, Standing, NEW s \in Slots, Step(s)
  PROVE  NoAccount(s) \/ Accounts(s)
<1>0. req[s].pc \in JobPcs => ask(s).op \in {"add", "deliver"}
  BY DEF Standing, PlaceOK
<1> USE DEF Walks, idVars
<1>1. CASE GrantConsume(s)
  BY <1>1, GrantConsumeWalks DEF NoAccount, AccountPcs, GrantConsume, Calm, Fault
<1>2. CASE GrantConnect(s)
  BY <1>2, GrantConnectWalks DEF NoAccount, AccountPcs, GrantConnect, Calm, Fault
<1>3. CASE GrantCheck(s)
  BY <1>3, GrantCheckWalks DEF NoAccount, AccountPcs, GrantCheck, Calm, Fault
<1>4. CASE GrantUpsert(s)
  BY <1>4, GrantUpsertWalks DEF NoAccount, AccountPcs, GrantUpsert, Calm, Fault
<1>5. CASE RevokeGrant(s)
  BY <1>5, RevokeWalks DEF NoAccount, AccountPcs, RevokeGrant, Calm, Fault
<1>6. CASE Narrow(s)
  BY <1>6, NarrowWalks DEF NoAccount, AccountPcs, Narrow, Calm, Fault
<1>7. CASE Retire(s)
  BY <1>7, RetireWalks DEF NoAccount, AccountPcs, Retire, Calm, Fault
<1>8. CASE IssueLink(s)
  BY <1>8, IssueLinkWalks DEF NoAccount, AccountPcs, IssueLink, Calm, Fault
<1>9. CASE OAuthInitiate(s)
  BY <1>9, OAuthInitiateWalks DEF NoAccount, AccountPcs, OAuthInitiate, Calm, Fault
<1>10. CASE OAuthCallback(s)
  BY <1>10, OAuthCallbackWalks DEF NoAccount, AccountPcs, OAuthCallback, Calm, Fault
<1>11. CASE OAuthCommit(s)
  BY <1>11, OAuthCommitWalks DEF NoAccount, AccountPcs, OAuthCommit, Calm, Fault
<1>12. CASE Disconnect(s)
  BY <1>12, DisconnectWalks DEF NoAccount, AccountPcs, Disconnect, Calm, Fault
<1>13. CASE Authenticate(s)
  BY <1>13, AuthenticateWalks DEF NoAccount, AccountPcs, Authenticate, Calm, Fault
<1>14. CASE IssueCapability(s)
  BY <1>14, IssueCapabilityWalks DEF NoAccount, AccountPcs, IssueCapability, Calm, Fault
<1>15. CASE UseCapability(s)
  BY <1>15, UseCapabilityWalks DEF NoAccount, AccountPcs, UseCapability, Calm, Fault
<1>16. CASE Retrieve(s)
  BY <1>16, RetrieveWalks DEF NoAccount, AccountPcs, Retrieve, Calm, Fault
<1>17. CASE Search(s)
  BY <1>17, SearchWalks DEF NoAccount, AccountPcs, Search, Calm, Fault
<1>18. CASE AddAdmit(s)
  BY <1>18, AddAdmitWalks DEF NoAccount, AccountPcs, AddAdmit, Calm, Fault
<1>19. CASE AddReplay(s)
  BY <1>19, AddReplayWalks DEF NoAccount, AccountPcs, AddReplay, Calm, Fault
<1>20. CASE AddDispatch(s)
  <2>1. UNCHANGED <<user, cached, otp, mixed>> /\ events' \in {events, events + 1}
    BY <1>20 DEF AddDispatch, Calm, Fault
  <2> QED
    BY <1>20, <2>1, AddDispatchWalks DEF NoAccount, AccountPcs, JobPcs
<1>21. CASE Deliver(s)
  BY <1>21, DeliverWalks DEF NoAccount, AccountPcs, Deliver, Calm, Fault
<1>22. CASE JobBegin(s)
  <2>1. req[s].pc = "queued" /\ UNCHANGED <<user, cached, otp, mixed, events>>
    BY <1>22 DEF JobBegin, Does
  <2>2. ask(s).op \in {"add", "deliver"}
    BY <1>0, <2>1 DEF JobPcs
  <2> QED
    BY <1>22, <2>1, <2>2, JobBeginWalks, RetryNoAccount DEF NoAccount, AccountPcs, JobPcs
<1>23. CASE JobLock(s)
  BY <1>23, JobLockWalks DEF NoAccount, AccountPcs, JobLock, Calm, Fault
<1>24. CASE JobExtract(s)
  BY <1>24, JobExtractWalks DEF NoAccount, AccountPcs, JobExtract, Calm, Fault
<1>25. CASE JobInsert(s)
  <2>1. UNCHANGED <<user, cached, otp, mixed>> /\ events' \in {events, events + 1}
    BY <1>25 DEF JobInsert, Calm, Fault
  <2> QED
    BY <1>25, <2>1, RetryNoAccount, JobInsertWalks DEF NoAccount, AccountPcs, JobPcs
<1>26. CASE JobRecord(s)
  <2>1. UNCHANGED <<user, cached, otp, mixed>> /\ events' \in {events, events + 1}
    BY <1>26 DEF JobRecord, Calm, Fault
  <2> QED
    BY <1>26, <2>1, RetryNoAccount, JobRecordWalks DEF NoAccount, AccountPcs, JobPcs
<1>27. CASE JobFinal(s)
  <2>1. UNCHANGED <<user, cached, otp, mixed>> /\ events' \in {events, events + 1}
    BY <1>27 DEF JobFinal, Calm, Fault
  <2> QED
    BY <1>27, <2>1, RetryNoAccount, JobFinalWalks DEF NoAccount, AccountPcs, JobPcs
<1>28. CASE JobCommit(s)
  <2>1. UNCHANGED <<user, cached, otp, mixed>> /\ events' \in {events, events + 1}
    BY <1>28 DEF JobCommit, Calm, Fault
  <2> QED
    BY <1>28, <2>1, RetryNoAccount, JobCommitWalks DEF NoAccount, AccountPcs, JobPcs
<1>29. CASE Victim(s)
  <2>1. UNCHANGED <<user, cached, otp, mixed>> /\ events' \in {events, events + 1}
    BY <1>29 DEF Victim, Calm, Fault
  <2> QED
    BY <1>29, <2>1, RetryNoAccount, VictimWalks DEF NoAccount, AccountPcs, JobPcs
<1>30. CASE Flag(s)
  BY <1>30, FlagWalks DEF NoAccount, AccountPcs, Flag, Calm, Fault
<1>31. CASE Unflag(s)
  BY <1>31, UnflagWalks DEF NoAccount, AccountPcs, Unflag, Calm, Fault
<1>32. CASE CorrectStage(s)
  BY <1>32, CorrectStageWalks DEF NoAccount, AccountPcs, CorrectStage, Calm, Fault
<1>33. CASE CorrectCommit(s)
  BY <1>33, CorrectCommitWalks DEF NoAccount, AccountPcs, CorrectCommit, Calm, Fault
<1>34. CASE DeleteStage(s)
  BY <1>34, DeleteStageWalks DEF NoAccount, AccountPcs, DeleteStage, Calm, Fault
<1>35. CASE DeleteCommit(s)
  BY <1>35, DeleteCommitWalks DEF NoAccount, AccountPcs, DeleteCommit, Calm, Fault
<1> QED
  BY <1>1, <1>2, <1>3, <1>4, <1>5, <1>6, <1>7, <1>8, <1>9, <1>10, <1>11, <1>12, <1>13, <1>14, <1>15, <1>16, <1>17,
     <1>18, <1>19, <1>20, <1>21, <1>22, <1>23, <1>24, <1>25, <1>26, <1>27, <1>28, <1>29, <1>30, <1>31, <1>32,
     <1>33, <1>34, <1>35 DEF Step, Accounts

\* How many are where.
LEMMA SizeOf ==
  ASSUME NEW A \in SUBSET Slots
  PROVE  IsFiniteSet(A) /\ Cardinality(A) \in Nat
  BY SlotsAre, FS_Subset, FS_CardinalityType

LEMMA SizeLess ==
  ASSUME NEW A \in SUBSET Slots, NEW B \in SUBSET A
  PROVE  Cardinality(B) <= Cardinality(A)
  BY SizeOf, FS_Subset

LEMMA SizeTwo ==
  ASSUME NEW C \in SUBSET Slots, NEW A \in SUBSET C, NEW B \in SUBSET C, A \cap B = {}
  PROVE  Cardinality(A) + Cardinality(B) <= Cardinality(C)
<1>1. IsFiniteSet(A) /\ IsFiniteSet(B) /\ IsFiniteSet(A \cup B) /\ A \cup B \in SUBSET C
  BY SizeOf
<1>2. Cardinality(A \cup B) = Cardinality(A) + Cardinality(B) - Cardinality(A \cap B)
  BY <1>1, FS_Union
<1>3. Cardinality(A \cap B) = 0 /\ Cardinality(A) \in Nat /\ Cardinality(B) \in Nat
  BY <1>1, FS_EmptySet, FS_CardinalityType
<1>4. Cardinality(A \cup B) <= Cardinality(C)
  BY <1>1, SizeLess
<1> QED
  BY <1>2, <1>3, <1>4

LEMMA SizeStep ==
  ASSUME NEW A \in SUBSET Slots, NEW B \in SUBSET Slots, NEW s \in Slots,
         \A t \in Slots \ {s} : t \in A <=> t \in B
  PROVE  /\ Cardinality(A) \in Nat /\ Cardinality(B) \in Nat
         /\ (s \in A <=> s \in B) => Cardinality(B) = Cardinality(A)
         /\ s \notin A /\ s \in B => Cardinality(B) = Cardinality(A) + 1
         /\ s \in A /\ s \notin B => Cardinality(B) = Cardinality(A) - 1
<1>1. IsFiniteSet(A) /\ Cardinality(A) \in Nat /\ Cardinality(B) \in Nat
  BY SizeOf
<1>2. ASSUME s \in A <=> s \in B PROVE A = B
  BY <1>2
<1>3. ASSUME s \notin A, s \in B PROVE Cardinality(B) = Cardinality(A) + 1
  <2>1. B = A \cup {s}
    BY <1>3
  <2> QED
    BY <1>1, <1>3, <2>1, FS_AddElement
<1>4. ASSUME s \in A, s \notin B PROVE Cardinality(B) = Cardinality(A) - 1
  <2>1. B = A \ {s}
    BY <1>4
  <2> QED
    BY <1>1, <1>4, <2>1, FS_RemoveElement
<1> QED
  BY <1>1, <1>2, <1>3, <1>4

\* Who is under way to where.
Are(P) == {s \in Slots : req[s].pc \in P}
Sends(s) == req[s].pc \in {"send", "mail"} \/ (req[s].pc = "recache" /\ ask(s).op = "register")
Sending == {s \in Slots : Sends(s)}

LEMMA AreStep ==
  ASSUME NEW s \in Slots, Moved(s), NEW P
  PROVE  /\ Cardinality(Are(P)) \in Nat /\ Cardinality(Are(P)') \in Nat
         /\ (req[s].pc \in P <=> req'[s].pc \in P) => Cardinality(Are(P)') = Cardinality(Are(P))
         /\ req[s].pc \notin P /\ req'[s].pc \in P => Cardinality(Are(P)') = Cardinality(Are(P)) + 1
         /\ req[s].pc \in P /\ req'[s].pc \notin P => Cardinality(Are(P)') = Cardinality(Are(P)) - 1
<1>1. PICK A \in SUBSET Slots, B \in SUBSET Slots : A = Are(P) /\ B = Are(P)'
  BY DEF Are
<1>2. /\ \A t \in Slots \ {s} : t \in A <=> t \in B
      /\ s \in A <=> req[s].pc \in P
      /\ s \in B <=> req'[s].pc \in P
  BY <1>1 DEF Are, Moved, Others, Alike
<1> QED
  BY <1>1, <1>2, SizeStep

LEMMA SendingStep ==
  ASSUME NEW s \in Slots, Moved(s)
  PROVE  /\ Cardinality(Sending) \in Nat /\ Cardinality(Sending') \in Nat
         /\ (Sends(s) <=> Sends(s)') => Cardinality(Sending') = Cardinality(Sending)
         /\ ~Sends(s) /\ Sends(s)' => Cardinality(Sending') = Cardinality(Sending) + 1
         /\ Sends(s) /\ ~Sends(s)' => Cardinality(Sending') = Cardinality(Sending) - 1
<1>1. PICK A \in SUBSET Slots, B \in SUBSET Slots : A = Sending /\ B = Sending'
  BY DEF Sending
<1>2. /\ \A t \in Slots \ {s} : t \in A <=> t \in B
      /\ s \in A <=> Sends(s)
      /\ s \in B <=> Sends(s)'
  BY <1>1 DEF Sending, Sends, ask, Moved, Others, Alike
<1> QED
  BY <1>1, <1>2, SizeStep

Opened == Cardinality(UnderWay) <= MaxOpen
LEMMA OpenStep ==
  ASSUME NEW s \in Slots, Admits(s), Opened
  PROVE  Opened'
<1>1. PICK A \in SUBSET Slots, B \in SUBSET Slots : A = UnderWay /\ B = UnderWay'
  BY DEF UnderWay
<1>2. /\ \A t \in Slots \ {s} : t \in A <=> t \in B
      /\ s \in A <=> req[s].pc \notin {"new", "done"}
  BY <1>1 DEF UnderWay, Admits, Moved, Others, Alike
<1>3. Cardinality(A) \in Nat /\ Cardinality(B) \in Nat /\ MaxOpen \in Nat
  BY SizeOf, PassportAssumption
<1>4. CASE s \in A
  BY <1>1, <1>2, <1>3, <1>4, SizeStep DEF Opened
<1>5. CASE s \notin A
  <2>1. Cardinality(A) < MaxOpen
    BY <1>1, <1>2, <1>5 DEF Admits
  <2> QED
    BY <1>1, <1>2, <1>3, <1>5, <2>1, SizeStep DEF Opened
<1> QED
  BY <1>4, <1>5

LEMMA OpenCovers ==
  ASSUME Opened'
  PROVE  /\ Cardinality(Are({"count", "bar"})') + Cardinality(Are({"compare"})') <= MaxOpen
         /\ Cardinality(Sending') <= MaxOpen
         /\ Cardinality(Are({"count", "bar"})') \in Nat /\ Cardinality(Are({"compare"})') \in Nat
         /\ Cardinality(Sending') \in Nat
<1>1. PICK C \in SUBSET Slots : C = UnderWay'
  BY DEF UnderWay
<1>2. PICK A, B, D : A = Are({"count", "bar"})' /\ B = Are({"compare"})' /\ D = Sending'
  OBVIOUS
<1>3. A \in SUBSET C /\ B \in SUBSET C /\ D \in SUBSET C /\ A \cap B = {}
  BY <1>1, <1>2 DEF Are, Sending, Sends, UnderWay
<1>4. Cardinality(A) + Cardinality(B) <= Cardinality(C) /\ Cardinality(D) <= Cardinality(C)
  BY <1>3, SizeTwo, SizeLess
<1>5. /\ Cardinality(A) \in Nat /\ Cardinality(B) \in Nat /\ Cardinality(C) \in Nat /\ Cardinality(D) \in Nat
      /\ MaxOpen \in Nat
  BY <1>3, SizeOf, PassportAssumption
<1> QED
  BY <1>1, <1>2, <1>4, <1>5 DEF Opened

\* The limits count what was compared or mailed and who is about to.
SentCount == otp.sent + Cardinality(Sending) <= SendLimit - 1 + MaxOpen
FailCount == otp.guesses <= otp.fails + Cardinality(Are({"count"})) + events
LockCount == ~otp.lock => otp.guesses <= OtpLimit - 1 + Cardinality(Are({"count", "bar"})) + events
GuessCount == otp.guesses + Cardinality(Are({"compare"})) <= OtpLimit - 1 + MaxOpen + events
Counted == SentCount /\ FailCount /\ LockCount /\ GuessCount

\* Before the registration nobody has the user's token or a code.
Unborn == user.st = None =>
  /\ otp.sent = 0 /\ cached = {}
  /\ \A s \in Slots : req[s].pc \notin {"send", "mail", "remember", "accept", "clear", "recache",
                                        "regenerate", "drop", "swap", "publish"}

\* The token in force is the one that requests have read and the cache knows.
Publishing == \E t \in Slots : req[t].pc = "publish"
TokenAt(s) ==
  /\ req[s].pc = "remember" => ask(s).tok = user.token
  /\ req[s].pc \in {"accept", "clear", "recache", "drop"} => req[s].tok = user.token
  /\ req[s].pc = "regenerate" => req[s].tok = user.token \/ user.rate \/ Publishing
  /\ req[s].pc = "swap" => cached = {}
  /\ req[s].pc = "publish" => user.token = s
OneSwap == \A s, t \in Slots :
  req[s].pc \in {"drop", "swap", "publish"} /\ req[t].pc \in {"drop", "swap", "publish"} => s = t
InForce == ~mixed /\ events = 0 /\ user.st = "active"
TokenHeld == InForce => cached \subseteq {user.token} /\ (\A s \in Slots : TokenAt(s)) /\ OneSwap

LEMMA OtpIs ==
  ASSUME AllTypes
  PROVE  /\ otp.sent \in Nat /\ otp.guesses \in Nat /\ otp.fails \in Nat /\ otp.lock \in BOOLEAN
         /\ otp.code \in Slots \cup {0}
         /\ events \in Nat /\ SendLimit \in Nat \ {0} /\ OtpLimit \in Nat \ {0} /\ MaxOpen \in Nat
  BY PassportAssumption DEF AllTypes, AccountTypes, Otp

\* The writes of the counters and the lock.
LEMMA FailsUp ==
  ASSUME NEW o \in Otp, NEW x, x = [o EXCEPT !.fails = o.fails + 1]
  PROVE  x \in Otp /\ x.sent = o.sent /\ x.fails = o.fails + 1 /\ x.guesses = o.guesses /\ x.lock = o.lock
  BY DEF Otp

LEMMA LockOn ==
  ASSUME NEW o \in Otp, NEW x, x = [o EXCEPT !.lock = TRUE]
  PROVE  x \in Otp /\ x.sent = o.sent /\ x.lock /\ x.fails = o.fails /\ x.guesses = o.guesses
  BY DEF Otp

LEMMA LockOff ==
  ASSUME NEW o \in Otp, NEW x, x = [o EXCEPT !.lock = FALSE]
  PROVE  x \in Otp /\ x.sent = o.sent /\ ~x.lock /\ x.fails = o.fails /\ x.guesses = o.guesses
  BY DEF Otp

LEMMA Cleared ==
  ASSUME NEW o \in Otp, NEW x, x = [o EXCEPT !.fails = 0, !.lock = FALSE, !.guesses = 0]
  PROVE  x \in Otp /\ x.sent = o.sent /\ x.fails = 0 /\ x.guesses = 0
  BY DEF Otp

LEMMA Lapsed ==
  ASSUME NEW o \in Otp, NEW x, x = [o EXCEPT !.fails = 0, !.guesses = 0]
  PROVE  x \in Otp /\ x.sent = o.sent /\ x.fails = 0 /\ x.guesses = 0
  BY DEF Otp

LEMMA CodeOff ==
  ASSUME NEW o \in Otp, NEW x, x = [o EXCEPT !.code = 0]
  PROVE  x \in Otp /\ x.sent = o.sent /\ x.fails = o.fails /\ x.guesses = o.guesses /\ x.lock = o.lock
  BY DEF Otp

\* A request that does not deal with codes leaves the counts.
LEMMA CountedStays ==
  ASSUME AllTypes, NEW s \in Slots, Moved(s), Counted, otp' = otp, events' \in {events, events + 1},
         req[s].pc \notin {"compare", "count", "bar"}, req'[s].pc \notin {"compare", "count", "bar"},
         Sends(s)' => Sends(s)
  PROVE  Counted'
<1>1. /\ Cardinality(Are({"count"})') = Cardinality(Are({"count"}))
      /\ Cardinality(Are({"count", "bar"})') = Cardinality(Are({"count", "bar"}))
      /\ Cardinality(Are({"compare"})') = Cardinality(Are({"compare"}))
      /\ Cardinality(Are({"count"})) \in Nat /\ Cardinality(Are({"count", "bar"})) \in Nat
      /\ Cardinality(Are({"compare"})) \in Nat
  BY AreStep
<1>2. Cardinality(Sending') <= Cardinality(Sending) /\ Cardinality(Sending') \in Nat /\ Cardinality(Sending) \in Nat
  BY SendingStep
<1>3. SentCount'
  BY <1>2, OtpIs DEF Counted, SentCount
<1>4. FailCount' /\ LockCount' /\ GuessCount'
  BY <1>1, OtpIs DEF Counted, FailCount, LockCount, GuessCount
<1> QED
  BY <1>3, <1>4 DEF Counted

\* The slots other than s as a step of s leaves them.
LEMMA OthersStay ==
  ASSUME NEW s \in Slots, Moved(s), NEW t \in Slots \ {s}
  PROVE  /\ req'[t].pc = req[t].pc /\ req'[t].tok = req[t].tok /\ req'[t].seen = req[t].seen /\ req'[t].n = req[t].n
         /\ req'[t].staged = req[t].staged /\ req'[t].tries = req[t].tries /\ ask(t)' = ask(t)
  BY DEF Moved, Others, Alike, ask

\* A request that does not deal with tokens leaves what is known of them.
LEMMA TokenStays ==
  ASSUME NEW s \in Slots, Moved(s), TokenHeld, UNCHANGED <<user, cached, mixed>>, events' \in {events, events + 1},
         events \in Nat, TokenAt(s)', req[s].pc # "publish", req'[s].pc \notin {"drop", "swap", "publish"}
  PROVE  TokenHeld'
<1>1. SUFFICES ASSUME InForce' PROVE cached' \subseteq {user'.token} /\ (\A t \in Slots : TokenAt(t)') /\ OneSwap'
  BY DEF TokenHeld
<1>2. InForce
  BY <1>1 DEF InForce
<1>3. cached \subseteq {user.token} /\ (\A t \in Slots : TokenAt(t)) /\ OneSwap
  BY <1>2 DEF TokenHeld
<1>4. Publishing => Publishing'
  BY OthersStay DEF Publishing
<1>5. ASSUME NEW t \in Slots \ {s} PROVE TokenAt(t)'
  <2>1. TokenAt(t)
    BY <1>3
  <2> QED
    BY <1>4, <2>1, OthersStay DEF TokenAt
<1>6. OneSwap'
  BY <1>3, OthersStay DEF OneSwap
<1> QED
  BY <1>3, <1>5, <1>6

LEMMA UnbornStays ==
  ASSUME NEW s \in Slots, Moved(s), Unborn, user'.st = None => user.st = None /\ otp'.sent = 0 /\ cached' = {},
         user.st = None => req'[s].pc \notin {"send", "mail", "remember", "accept", "clear", "recache", "regenerate",
                                              "drop", "swap", "publish"}
  PROVE  Unborn'
  BY OthersStay DEF Unborn

AccountInv == Counted /\ Unborn /\ TokenHeld

LEMMA NoAccountKeeps ==
  ASSUME AllTypes, NEW s \in Slots, NoAccount(s), AccountInv
  PROVE  AccountTypes' /\ AccountInv'
<1>1. /\ Moved(s) /\ UNCHANGED <<user, cached, otp, mixed>> /\ events' \in {events, events + 1} /\ events \in Nat
      /\ req[s].pc \notin AccountPcs /\ req'[s].pc \notin AccountPcs
  BY OtpIs DEF NoAccount
<1>2. AccountTypes'
  BY <1>1 DEF AllTypes, AccountTypes
<1>3. ~Sends(s)' /\ TokenAt(s)'
  BY <1>1 DEF AccountPcs, Sends, TokenAt
<1>4. Counted'
  BY <1>1, <1>3, CountedStays DEF AccountInv, AccountPcs
<1>5. Unborn'
  BY <1>1, UnbornStays DEF AccountInv, AccountPcs, Unborn
<1>6. TokenHeld'
  BY <1>1, <1>3, TokenStays DEF AccountInv, AccountPcs
<1> QED
  BY <1>2, <1>4, <1>5, <1>6 DEF AccountInv

LEMMA EnterAccount ==
  ASSUME AllTypes, NEW s \in Slots, Enter(s), AccountInv
  PROVE  AccountTypes' /\ AccountInv'
<1>1. /\ Walks(s, {"new"}, {ask(s).op, "done"}) /\ req'[s].tok = user.token /\ ask(s).op \in Owners
      /\ req'[s].pc # "done" => user.st = "active" \/ ask(s).who = 2
  BY EnterWalks DEF Alive
<1>2. UNCHANGED <<user, cached, otp, mixed, events>> /\ Moved(s) /\ req[s].pc = "new" /\ events \in Nat
      /\ scenario \in DOMAIN Scenarios
  BY <1>1, OtpIs DEF Enter, idVars, Walks, AllTypes, SlotTypes
<1>3. ask(s).who = 2 => ask(s).op \in {"grant", "oauth", "disconnect"}
  BY <1>2, AskIs
<1>4. req'[s].pc \in Owners \cup {"done"}
  BY <1>1 DEF Walks
<1>5. AccountTypes'
  BY <1>2 DEF AllTypes, AccountTypes
<1>6. Counted'
  <2>1. ~Sends(s)'
    BY <1>4 DEF Sends, Owners
  <2> QED
    BY <1>2, <1>4, <2>1, CountedStays DEF AccountInv, Owners
<1>7. Unborn'
  <2>1. user.st = None => req'[s].pc \in {"grant", "oauth", "disconnect", "done"}
    BY <1>1, <1>3 DEF None, Walks
  <2> QED
    BY <1>2, <2>1, UnbornStays DEF AccountInv, Unborn
<1>8. TokenHeld'
  <2>1. TokenAt(s)'
    BY <1>1, <1>2, <1>4 DEF TokenAt, Owners
  <2> QED
    BY <1>2, <1>4, <2>1, TokenStays DEF AccountInv, Owners
<1> QED
  BY <1>5, <1>6, <1>7, <1>8 DEF AccountInv

LEMMA RegisterAccount ==
  ASSUME AllTypes, NEW s \in Slots, Register(s), AccountInv, Opened, Opened'
  PROVE  AccountTypes' /\ AccountInv'
<1>1. /\ Walks(s, {"new", "insert"}, {"insert", "done", "recache"})
      /\ req'[s].pc = "recache" => req'[s].tok = s
  BY RegisterWalks
<1>2. UNCHANGED <<cached, otp, mixed, events>> /\ Moved(s) /\ events \in Nat /\ user \in User
  BY <1>1, OtpIs DEF Register, Walks, AllTypes, AccountTypes
<1>3. CASE user' = user /\ req'[s].pc \in {"insert", "done"}
  <2>1. ~Sends(s)' /\ TokenAt(s)'
    BY <1>3 DEF Sends, TokenAt
  <2>2. AccountTypes'
    BY <1>2, <1>3 DEF AllTypes, AccountTypes
  <2>3. Counted'
    BY <1>1, <1>2, <1>3, <2>1, CountedStays DEF AccountInv, Walks
  <2>4. Unborn'
    BY <1>2, <1>3, UnbornStays DEF AccountInv, Unborn
  <2>5. TokenHeld'
    BY <1>1, <1>2, <1>3, <2>1, TokenStays DEF AccountInv, Walks
  <2> QED
    BY <2>2, <2>3, <2>4, <2>5 DEF AccountInv
<1>4. CASE /\ user.st = None /\ user' = [user EXCEPT !.st = "active", !.token = s] /\ req[s].pc = "insert"
           /\ GoTok(s, "recache", s)
  <2>0. scenario' = scenario /\ "recache" \in Pcs
    BY InPcs DEF Register
  <2>1. req'[s].pc = "recache" /\ req'[s].tok = s
    BY <1>4, <2>0, GoTokTo
  <2>2. user' \in User /\ user'.st = "active" /\ user'.token = s
    BY <1>2, <1>4 DEF User
  <2>3. AccountTypes'
    BY <1>2, <2>2 DEF AllTypes, AccountTypes
  <2>4. /\ otp.sent = 0 /\ cached = {}
        /\ \A t \in Slots : req[t].pc \notin {"send", "mail", "remember", "accept", "clear", "recache",
                                              "regenerate", "drop", "swap", "publish"}
    BY <1>4 DEF AccountInv, Unborn
  <2>5. Unborn'
    BY <2>2 DEF Unborn, None
  <2>6. Counted'
    <3>1. SentCount'
      <4>1. Cardinality(Sending') <= MaxOpen /\ Cardinality(Sending') \in Nat
        BY OpenCovers
      <4> QED
        BY <1>2, <2>4, <4>1, OtpIs DEF SentCount
    <3>2. /\ Cardinality(Are({"count"})') = Cardinality(Are({"count"}))
          /\ Cardinality(Are({"count", "bar"})') = Cardinality(Are({"count", "bar"}))
          /\ Cardinality(Are({"compare"})') = Cardinality(Are({"compare"}))
      BY <1>2, <1>4, <2>1, AreStep
    <3>3. FailCount' /\ LockCount' /\ GuessCount'
      BY <1>2, <3>2 DEF AccountInv, Counted, FailCount, LockCount, GuessCount
    <3> QED
      BY <3>1, <3>3 DEF Counted
  <2>7. TokenHeld'
    <3>1. \A t \in Slots \ {s} : req'[t].pc \notin {"remember", "accept", "clear", "recache", "drop", "regenerate",
                                                    "swap", "publish"}
      BY <1>2, <2>4, OthersStay
    <3>2. \A t \in Slots : TokenAt(t)'
      BY <2>1, <2>2, <3>1 DEF TokenAt
    <3>3. OneSwap'
      BY <2>1, <3>1 DEF OneSwap
    <3> QED
      BY <1>2, <2>4, <3>2, <3>3 DEF TokenHeld
  <2> QED
    BY <2>3, <2>5, <2>6, <2>7 DEF AccountInv
<1>5. \/ user' = user /\ \E p \in {"insert", "done"} : Go(s, p)
      \/ /\ user.st = None /\ user' = [user EXCEPT !.st = "active", !.token = s] /\ req[s].pc = "insert"
         /\ GoTok(s, "recache", s)
  BY DEF Register, Done, Does
<1>6. ASSUME NEW p \in {"insert", "done"}, Go(s, p) PROVE req'[s].pc = p
  <2>1. scenario' = scenario /\ p \in Pcs /\ req[s].pc \in {"new", "insert"} /\ p \in {"insert", "done"}
    BY <1>1, <1>2, InPcs DEF Register, Walks
  <2> QED
    BY <1>6, <2>1, GoTo
<1> QED
  BY <1>3, <1>4, <1>5, <1>6

\* What the cache can be after a write that may fail.
LEMMA CacheIs ==
  ASSUME AllTypes, NEW set, Cache(set)
  PROVE  /\ events' \in {events, events + 1} /\ events \in Nat /\ events' \in Nat /\ cached' \in {set, cached}
         /\ events' = 0 => cached' = set
  BY OtpIs DEF Cache, Calm, Fault

LEMMA RecacheAccount ==
  ASSUME AllTypes, NEW s \in Slots, Recache(s), AccountInv
  PROVE  AccountTypes' /\ AccountInv'
<1>1. Walks(s, {"recache"}, {"send", "done"}) /\ Moved(s)
  BY RecacheWalks DEF Walks
<1>2. /\ user' = user /\ otp' = otp /\ scenario' = scenario /\ mixed' = (mixed \/ Swapping) /\ user \in User
      /\ req[s] \in Local /\ cached \in SUBSET (Slots \cup {0})
  BY DEF Recache, AllTypes, AccountTypes, SlotTypes
<1>3. /\ events' \in {events, events + 1} /\ events \in Nat /\ events' \in Nat
      /\ cached' \in {cached \cup {req[s].tok}, cached} /\ (events' = 0 => cached' = cached \cup {req[s].tok})
  BY CacheIs DEF Recache
<1>4. req'[s].pc = "send" => ask(s).op = "register"
  <2>1. CASE ask(s).op # "register"
    <3>1. Go(s, "done") /\ "done" \in Pcs /\ req[s].pc \in {"recache"} /\ "done" \in {"done"}
      BY <1>1, <2>1, InPcs DEF Recache, Walks
    <3> QED
      BY <1>2, <3>1, GoTo
  <2> QED
    BY <2>1
<1>5. AccountTypes'
  <2>1. req[s].tok \in Slots \cup {0}
    BY <1>2 DEF Local
  <2> QED
    BY <1>2, <1>3, <2>1 DEF AllTypes, AccountTypes
<1>6. Counted'
  <2>1. Sends(s)' => Sends(s)
    BY <1>1, <1>2, <1>4 DEF Sends, Walks, ask
  <2> QED
    BY <1>1, <1>2, <1>3, <2>1, CountedStays DEF AccountInv, Walks
<1>7. Unborn'
  <2>1. user.st # None
    BY <1>1 DEF AccountInv, Unborn, Walks
  <2> QED
    BY <1>2, <2>1 DEF Unborn
<1>8. TokenHeld'
  <2>1. SUFFICES ASSUME InForce' PROVE cached' \subseteq {user'.token} /\ (\A t \in Slots : TokenAt(t)') /\ OneSwap'
    BY DEF TokenHeld
  <2>2. InForce /\ ~Swapping /\ cached' = cached \cup {req[s].tok}
    <3>1. ~mixed' /\ events' = 0 /\ user'.st = "active"
      BY <2>1 DEF InForce
    <3>2. ~mixed /\ ~Swapping
      BY <1>2, <3>1
    <3> QED
      BY <1>2, <1>3, <3>1, <3>2 DEF InForce
  <2>3. cached \subseteq {user.token} /\ (\A t \in Slots : TokenAt(t)) /\ OneSwap
    BY <2>2 DEF AccountInv, TokenHeld
  <2>4. req[s].tok = user.token
    BY <1>1, <2>3 DEF TokenAt, Walks
  <2>5. ~Publishing /\ \A t \in Slots : req[t].pc \notin {"swap", "publish"}
    BY <2>2 DEF Swapping, Publishing, Does
  <2>6. ASSUME NEW t \in Slots PROVE TokenAt(t)'
    <3>1. CASE t = s
      BY <1>1, <3>1 DEF TokenAt, Walks
    <3>2. CASE t # s
      <4>1. TokenAt(t)
        BY <2>3
      <4> QED
        BY <1>1, <1>2, <2>5, <3>2, <4>1, OthersStay DEF TokenAt
    <3> QED
      BY <3>1, <3>2
  <2>7. OneSwap'
    BY <1>1, <2>3, OthersStay DEF OneSwap, Walks
  <2> QED
    BY <1>2, <2>2, <2>3, <2>4, <2>6, <2>7
<1> QED
  BY <1>5, <1>6, <1>7, <1>8 DEF AccountInv

LEMMA SendOtpAccount ==
  ASSUME AllTypes, NEW s \in Slots, SendOtp(s), AccountInv, Opened, Opened'
  PROVE  AccountTypes' /\ AccountInv'
<1>1. Walks(s, {"new", "send", "mail"}, {"send", "mail", "done"}) /\ Moved(s)
  BY SendOtpWalks DEF Walks
<1>2. /\ UNCHANGED <<user, cached, mixed, scenario>> /\ events \in Nat /\ events' \in {events, events + 1}
      /\ otp \in Otp
      /\ {"send", "mail", "done"} \subseteq Pcs
  BY OtpIs, InPcs DEF SendOtp, Calm, Fault, AllTypes, AccountTypes
<1>3. \/ /\ req[s].pc = "new" /\ otp' = otp /\ otp.sent < SendLimit /\ user.st = "active" /\ Go(s, "send")
      \/ /\ req[s].pc \in {"new", "send"} /\ otp' = otp /\ Go(s, "done")
      \/ /\ req[s].pc = "send" /\ Go(s, "mail") /\ otp' = [otp EXCEPT !.code = s] /\ user.st = "active"
      \/ /\ req[s].pc = "mail" /\ Go(s, "done") /\ otp' \in {otp, [otp EXCEPT !.sent = @ + 1]}
  BY DEF SendOtp, Begin, Does, Alive, Done
<1>4. /\ otp' \in Otp /\ otp'.guesses = otp.guesses /\ otp'.fails = otp.fails /\ otp'.lock = otp.lock
      /\ otp'.sent # otp.sent => otp'.sent = otp.sent + 1 /\ req[s].pc = "mail"
  BY <1>2, <1>3 DEF Otp
<1>5. AccountTypes'
  BY <1>2, <1>4 DEF AllTypes, AccountTypes
<1>6. FailCount' /\ LockCount' /\ GuessCount'
  <2>1. /\ Cardinality(Are({"count"})') = Cardinality(Are({"count"}))
        /\ Cardinality(Are({"count", "bar"})') = Cardinality(Are({"count", "bar"}))
        /\ Cardinality(Are({"compare"})') = Cardinality(Are({"compare"}))
        /\ Cardinality(Are({"count"})) \in Nat /\ Cardinality(Are({"count", "bar"})) \in Nat
        /\ Cardinality(Are({"compare"})) \in Nat
    BY <1>1, AreStep DEF Walks
  <2> QED
    BY <1>2, <1>4, <2>1, OtpIs DEF AccountInv, Counted, FailCount, LockCount, GuessCount
<1>7. SentCount'
  <2>1. /\ Cardinality(Sending) \in Nat /\ Cardinality(Sending') \in Nat
        /\ (Sends(s) <=> Sends(s)') => Cardinality(Sending') = Cardinality(Sending)
        /\ Sends(s) /\ ~Sends(s)' => Cardinality(Sending') = Cardinality(Sending) - 1
    BY <1>1, SendingStep
  <2>2. otp.sent + Cardinality(Sending) <= SendLimit - 1 + MaxOpen
    BY DEF AccountInv, Counted, SentCount
  <2>3. CASE req[s].pc = "new" /\ otp' = otp /\ otp.sent < SendLimit
    <3>1. Cardinality(Sending') <= MaxOpen
      BY OpenCovers
    <3> QED
      BY <2>1, <2>3, <3>1, OtpIs DEF SentCount
  <2>4. CASE req[s].pc \in {"new", "send"} /\ otp' = otp /\ Go(s, "done")
    <3>1. req'[s].pc = "done"
      BY <1>2, <2>4, GoTo
    <3>2. ~Sends(s)'
      BY <3>1 DEF Sends
    <3> QED
      BY <2>1, <2>2, <2>4, <3>2, OtpIs DEF SentCount
  <2>5. CASE req[s].pc = "send" /\ Go(s, "mail") /\ otp' = [otp EXCEPT !.code = s]
    <3>1. req'[s].pc = "mail"
      BY <1>2, <2>5, GoTo
    <3>2. Sends(s)' /\ Sends(s) /\ otp'.sent = otp.sent
      BY <1>4, <2>5, <3>1 DEF Sends
    <3> QED
      BY <2>1, <2>2, <3>2, OtpIs DEF SentCount
  <2>6. CASE req[s].pc = "mail" /\ Go(s, "done")
    <3>1. req'[s].pc = "done"
      BY <1>2, <2>6, GoTo
    <3>2. ~Sends(s)' /\ Sends(s) /\ otp'.sent <= otp.sent + 1 /\ otp'.sent \in Nat
      BY <1>4, <2>6, <3>1, OtpIs DEF Sends, Otp
    <3> QED
      BY <2>1, <2>2, <3>2, OtpIs DEF SentCount
  <2> QED
    BY <1>3, <2>3, <2>4, <2>5, <2>6
<1>8. Unborn'
  <2>1. user.st = None => req[s].pc \notin {"send", "mail"} /\ otp' = otp
    BY <1>3 DEF AccountInv, Unborn, None
  <2>2. user.st = None => req'[s].pc = "done"
    BY <1>2, <1>3, <2>1, GoTo DEF None
  <2> QED
    BY <1>1, <1>2, <2>1, <2>2, UnbornStays DEF AccountInv, Unborn
<1>9. TokenHeld'
  <2>1. TokenAt(s)'
    BY <1>1 DEF Walks, TokenAt
  <2> QED
    BY <1>1, <1>2, <2>1, TokenStays DEF AccountInv, Walks
<1> QED
  BY <1>5, <1>6, <1>7, <1>8, <1>9 DEF AccountInv, Counted

LEMMA VerifyOtpAccount ==
  ASSUME AllTypes, NEW s \in Slots, VerifyOtp(s), AccountInv, Opened, Opened'
  PROVE  AccountTypes' /\ AccountInv'
<1>1. /\ Walks(s, {"new", "compare"}, {"compare", "done", "accept", "count"}) /\ Moved(s)
      /\ req'[s].pc = "accept" => req'[s].tok = user.token
  BY VerifyOtpWalks DEF Walks
<1>2. /\ UNCHANGED <<user, cached, mixed, scenario>> /\ events \in Nat /\ events' \in {events, events + 1}
      /\ otp \in Otp
      /\ {"compare", "done", "accept", "count"} \subseteq Pcs /\ user.token \in Slots \cup {0}
  BY OtpIs, InPcs DEF VerifyOtp, Calm, Fault, AllTypes, AccountTypes, User
<1>3. \/ req[s].pc = "new" /\ otp' = otp /\ ~otp.lock /\ Go(s, "compare") /\ events' = events
      \/ req[s].pc = "new" /\ otp' = otp /\ Go(s, "done") /\ events' = events
      \/ req[s].pc = "new" /\ otp' = otp /\ Go(s, "compare") /\ events' = events + 1
      \/ req[s].pc = "compare" /\ otp' = otp /\ GoTok(s, "accept", user.token) /\ events' = events /\ user.st = "active"
      \/ /\ req[s].pc = "compare" /\ Go(s, "count") /\ otp' = [otp EXCEPT !.guesses = @ + 1]
         /\ events' = events
  BY DEF VerifyOtp, Begin, Does, Alive, Calm, Fault, Unlocked
<1>4. /\ otp' \in Otp /\ otp'.fails = otp.fails /\ otp'.lock = otp.lock /\ otp'.sent = otp.sent
      /\ otp'.guesses \in {otp.guesses, otp.guesses + 1}
  BY <1>2, <1>3 DEF Otp
<1>5. AccountTypes'
  BY <1>2, <1>4 DEF AllTypes, AccountTypes
<1>6. SentCount'
  <2>1. ~Sends(s)' /\ ~Sends(s)
    BY <1>1 DEF Sends, Walks
  <2>2. Cardinality(Sending') = Cardinality(Sending)
    BY <1>1, <2>1, SendingStep
  <2> QED
    BY <1>4, <2>2 DEF AccountInv, Counted, SentCount
<1>7. FailCount' /\ LockCount' /\ GuessCount'
  <2> DEFINE c == Cardinality(Are({"count"}))  cb == Cardinality(Are({"count", "bar"}))
             e == Cardinality(Are({"compare"}))
  <2>1. c \in Nat /\ cb \in Nat /\ e \in Nat /\ c' \in Nat /\ cb' \in Nat /\ e' \in Nat
    BY <1>1, AreStep
  <2>2. /\ otp.guesses <= otp.fails + c + events
        /\ ~otp.lock => otp.guesses <= OtpLimit - 1 + cb + events
        /\ otp.guesses + e <= OtpLimit - 1 + MaxOpen + events
    BY DEF AccountInv, Counted, FailCount, LockCount, GuessCount
  <2>3. SUFFICES /\ otp'.guesses <= otp'.fails + c' + events'
                 /\ ~otp'.lock => otp'.guesses <= OtpLimit - 1 + cb' + events'
                 /\ otp'.guesses + e' <= OtpLimit - 1 + MaxOpen + events'
    BY DEF FailCount, LockCount, GuessCount
  <2>4. CASE req[s].pc = "new" /\ otp' = otp /\ ~otp.lock /\ Go(s, "compare") /\ events' = events
    <3>1. req'[s].pc = "compare"
      BY <1>2, <2>4, GoTo
    <3>2. c' = c /\ cb' = cb
      BY <1>1, <2>4, <3>1, AreStep
    <3>3. cb' + e' <= MaxOpen
      BY OpenCovers
    <3> QED
      BY <2>1, <2>2, <2>4, <3>2, <3>3, OtpIs
  <2>5. CASE req[s].pc = "new" /\ otp' = otp /\ Go(s, "done") /\ events' = events
    <3>1. req'[s].pc = "done"
      BY <1>2, <2>5, GoTo
    <3>2. c' = c /\ cb' = cb /\ e' = e
      BY <1>1, <2>5, <3>1, AreStep
    <3> QED
      BY <2>2, <2>5, <3>2
  <2>6. CASE req[s].pc = "new" /\ otp' = otp /\ Go(s, "compare") /\ events' = events + 1
    <3>1. req'[s].pc = "compare"
      BY <1>2, <2>6, GoTo
    <3>2. c' = c /\ cb' = cb /\ e' = e + 1
      BY <1>1, <2>6, <3>1, AreStep
    <3> QED
      BY <2>1, <2>2, <2>6, <3>2, OtpIs
  <2>7. CASE req[s].pc = "compare" /\ otp' = otp /\ GoTok(s, "accept", user.token) /\ events' = events
    <3>1. req'[s].pc = "accept"
      BY <1>2, <2>7, GoTokTo
    <3>2. c' = c /\ cb' = cb /\ e' = e - 1
      BY <1>1, <2>7, <3>1, AreStep
    <3> QED
      BY <2>1, <2>2, <2>7, <3>2, OtpIs
  <2>8. CASE /\ req[s].pc = "compare" /\ Go(s, "count") /\ otp' = [otp EXCEPT !.guesses = @ + 1]
             /\ events' = events
    <3>1. req'[s].pc = "count"
      BY <1>2, <2>8, GoTo
    <3>2. c' = c + 1 /\ cb' = cb + 1 /\ e' = e - 1
      BY <1>1, <2>8, <3>1, AreStep
    <3> QED
      BY <1>4, <2>1, <2>2, <2>8, <3>2, OtpIs
  <2> QED
    BY <1>3, <2>4, <2>5, <2>6, <2>7, <2>8
<1>8. Unborn'
  <2>1. user.st = None => req'[s].pc # "accept"
    <3>1. user.st = None => \E p \in {"compare", "done", "count"} : Go(s, p)
      BY <1>3 DEF None
    <3> QED
      BY <1>2, <3>1, GoTo
  <2> QED
    BY <1>1, <1>2, <1>4, <2>1, UnbornStays DEF AccountInv, Unborn, Walks
<1>9. TokenHeld'
  <2>1. TokenAt(s)'
    BY <1>1, <1>2 DEF Walks, TokenAt
  <2> QED
    BY <1>1, <1>2, <2>1, TokenStays DEF AccountInv, Walks
<1> QED
  BY <1>5, <1>6, <1>7, <1>8, <1>9 DEF AccountInv, Counted

LEMMA CountFailureAccount ==
  ASSUME AllTypes, NEW s \in Slots, CountFailure(s), AccountInv
  PROVE  AccountTypes' /\ AccountInv'
<1>1. Walks(s, {"count", "bar"}, {"bar", "done"}) /\ Moved(s)
  BY CountFailureWalks DEF Walks
<1>2. /\ UNCHANGED <<user, cached, mixed, scenario>> /\ events \in Nat /\ events' \in {events, events + 1}
      /\ otp \in Otp
      /\ {"bar", "done"} \subseteq Pcs
  BY OtpIs, InPcs DEF CountFailure, Calm, Fault, AllTypes, AccountTypes
<1>3. \/ /\ req[s].pc = "count" /\ otp' = [otp EXCEPT !.fails = @ + 1] /\ otp.fails + 1 < OtpLimit /\ Go(s, "done")
         /\ events' = events
      \/ /\ req[s].pc = "count" /\ otp' = [otp EXCEPT !.fails = @ + 1] /\ Go(s, "bar") /\ events' = events
      \/ req[s].pc = "count" /\ otp' = otp /\ Go(s, "done") /\ events' = events + 1
      \/ req[s].pc = "bar" /\ otp' = [otp EXCEPT !.lock = TRUE] /\ Go(s, "done") /\ events' = events
      \/ req[s].pc = "bar" /\ otp' = otp /\ Go(s, "done") /\ events' = events + 1
  BY OtpIs DEF CountFailure, Does, Calm, Fault, LimitReached, Done
<1>4. /\ otp' \in Otp /\ otp'.guesses = otp.guesses /\ otp'.sent = otp.sent
  <2>1. PICK o, x : o = otp /\ x = otp'
    OBVIOUS
  <2>2. \/ x = [o EXCEPT !.fails = o.fails + 1] \/ x = [o EXCEPT !.lock = TRUE] \/ x = o
    BY <1>3, <2>1
  <2> QED
    BY <1>2, <2>1, <2>2, FailsUp, LockOn
<1>5. AccountTypes'
  BY <1>2, <1>4 DEF AllTypes, AccountTypes
<1>6. SentCount'
  <2>1. ~Sends(s)' /\ ~Sends(s)
    BY <1>1 DEF Sends, Walks
  <2>2. Cardinality(Sending') = Cardinality(Sending)
    BY <1>1, <2>1, SendingStep
  <2> QED
    BY <1>4, <2>2 DEF AccountInv, Counted, SentCount
<1>7. FailCount' /\ LockCount' /\ GuessCount'
  <2> DEFINE c == Cardinality(Are({"count"}))  cb == Cardinality(Are({"count", "bar"}))
             e == Cardinality(Are({"compare"}))
  <2>1. c \in Nat /\ cb \in Nat /\ e \in Nat /\ c' \in Nat /\ cb' \in Nat /\ e' = e
    BY <1>1, AreStep DEF Walks
  <2>2. /\ otp.guesses <= otp.fails + c + events
        /\ ~otp.lock => otp.guesses <= OtpLimit - 1 + cb + events
        /\ otp.guesses + e <= OtpLimit - 1 + MaxOpen + events
    BY DEF AccountInv, Counted, FailCount, LockCount, GuessCount
  <2>3. SUFFICES /\ otp'.guesses <= otp'.fails + c' + events'
                 /\ ~otp'.lock => otp'.guesses <= OtpLimit - 1 + cb' + events'
                 /\ otp'.guesses + e' <= OtpLimit - 1 + MaxOpen + events'
    BY DEF FailCount, LockCount, GuessCount
  <2>4. CASE /\ req[s].pc = "count" /\ otp' = [otp EXCEPT !.fails = @ + 1] /\ otp.fails + 1 < OtpLimit
             /\ Go(s, "done") /\ events' = events
    <3>1. req'[s].pc = "done" /\ otp'.fails = otp.fails + 1 /\ otp'.lock = otp.lock
      BY <1>2, <2>4, GoTo DEF Otp
    <3>2. c' = c - 1 /\ cb' = cb - 1
      BY <1>1, <2>4, <3>1, AreStep
    <3>3. otp.fails + 1 < OtpLimit /\ events' = events
      BY <2>4
    <3>5. c' <= cb'
      <4>1. PICK A, B : A = Are({"count"})' /\ B = Are({"count", "bar"})'
        OBVIOUS
      <4>2. A \in SUBSET B /\ B \in SUBSET Slots
        BY <4>1 DEF Are
      <4> QED
        BY <4>1, <4>2, SizeLess
    <3>4. otp'.guesses <= otp'.fails + c' + events'
      BY <1>4, <2>1, <2>2, <3>1, <3>2, <3>3, OtpIs
    <3> HIDE DEF c, cb, e
    <3> QED
      BY <1>4, <2>1, <2>2, <3>1, <3>2, <3>3, <3>4, <3>5, OtpIs
  <2>5. CASE req[s].pc = "count" /\ otp' = [otp EXCEPT !.fails = @ + 1] /\ Go(s, "bar") /\ events' = events
    <3>1. req'[s].pc = "bar" /\ otp'.fails = otp.fails + 1 /\ otp'.lock = otp.lock
      BY <1>2, <2>5, GoTo DEF Otp
    <3>2. c' = c - 1 /\ cb' = cb
      BY <1>1, <2>5, <3>1, AreStep
    <3> HIDE DEF c, cb, e
    <3> QED
      BY <1>4, <2>1, <2>2, <2>5, <3>1, <3>2, OtpIs
  <2>6. CASE req[s].pc = "count" /\ otp' = otp /\ Go(s, "done") /\ events' = events + 1
    <3>1. req'[s].pc = "done"
      BY <1>2, <2>6, GoTo
    <3>2. c' = c - 1 /\ cb' = cb - 1
      BY <1>1, <2>6, <3>1, AreStep
    <3> HIDE DEF c, cb, e
    <3> QED
      BY <2>1, <2>2, <2>6, <3>2, OtpIs
  <2>7. CASE req[s].pc = "bar" /\ otp' = [otp EXCEPT !.lock = TRUE] /\ Go(s, "done") /\ events' = events
    <3>1. req'[s].pc = "done" /\ otp'.lock /\ otp'.fails = otp.fails
      BY <1>2, <2>7, GoTo DEF Otp
    <3>2. c' = c
      BY <1>1, <2>7, <3>1, AreStep
    <3> HIDE DEF c, cb, e
    <3> QED
      BY <1>4, <2>1, <2>2, <2>7, <3>1, <3>2, OtpIs
  <2>8. CASE req[s].pc = "bar" /\ otp' = otp /\ Go(s, "done") /\ events' = events + 1
    <3>1. req'[s].pc = "done"
      BY <1>2, <2>8, GoTo
    <3>2. c' = c /\ cb' = cb - 1
      BY <1>1, <2>8, <3>1, AreStep
    <3> HIDE DEF c, cb, e
    <3> QED
      BY <2>1, <2>2, <2>8, <3>2, OtpIs
  <2> QED
    BY <1>3, <2>4, <2>5, <2>6, <2>7, <2>8
<1>8. Unborn'
  BY <1>1, <1>2, <1>4, UnbornStays DEF AccountInv, Unborn, Walks
<1>9. TokenHeld'
  <2>1. TokenAt(s)'
    BY <1>1 DEF Walks, TokenAt
  <2> QED
    BY <1>1, <1>2, <2>1, TokenStays DEF AccountInv, Walks
<1> QED
  BY <1>5, <1>6, <1>7, <1>8, <1>9 DEF AccountInv, Counted

LEMMA AcceptOtpAccount ==
  ASSUME AllTypes, Standing, NEW s \in Slots, AcceptOtp(s), AccountInv
  PROVE  AccountTypes' /\ AccountInv'
<1>1. Walks(s, {"accept", "clear"}, {"clear", "recache", "done"}) /\ Moved(s) /\ PcOnly(s)
  BY AcceptOtpWalks DEF Walks
<1>2. UNCHANGED <<user, cached, mixed, scenario, events>> /\ events \in Nat /\ otp \in Otp
  BY OtpIs DEF AcceptOtp, AllTypes, AccountTypes
<1>3. \/ otp' \in {otp, [otp EXCEPT !.code = 0]}
      \/ otp' = [otp EXCEPT !.fails = 0, !.lock = FALSE, !.guesses = 0]
  BY DEF AcceptOtp
<1>4. /\ otp' \in Otp /\ otp'.sent = otp.sent
      /\ \/ otp'.guesses = otp.guesses /\ otp'.lock = otp.lock /\ otp'.fails = otp.fails
         \/ otp'.guesses = 0 /\ otp'.fails = 0
  <2>1. PICK o, x : o = otp /\ x = otp'
    OBVIOUS
  <2>2. \/ x = [o EXCEPT !.code = 0] \/ x = [o EXCEPT !.fails = 0, !.lock = FALSE, !.guesses = 0] \/ x = o
    BY <1>3, <2>1
  <2> QED
    BY <1>2, <2>1, <2>2, CodeOff, Cleared
<1>5. AccountTypes'
  BY <1>2, <1>4 DEF AllTypes, AccountTypes
<1>6. SentCount'
  <2>1. ask(s).op = "verify"
    BY <1>1 DEF Standing, PlaceOK, Walks
  <2>2. ~Sends(s)' /\ ~Sends(s)
    BY <1>1, <1>2, <2>1 DEF Sends, Walks, ask
  <2>3. Cardinality(Sending') = Cardinality(Sending)
    BY <1>1, <2>2, SendingStep
  <2> QED
    BY <1>4, <2>3 DEF AccountInv, Counted, SentCount
<1>7. FailCount' /\ LockCount' /\ GuessCount'
  <2>1. /\ Cardinality(Are({"count"})') = Cardinality(Are({"count"}))
        /\ Cardinality(Are({"count", "bar"})') = Cardinality(Are({"count", "bar"}))
        /\ Cardinality(Are({"compare"})') = Cardinality(Are({"compare"}))
        /\ Cardinality(Are({"count"})) \in Nat /\ Cardinality(Are({"count", "bar"})) \in Nat
        /\ Cardinality(Are({"compare"})) \in Nat
    BY <1>1, AreStep DEF Walks
  <2>2. CASE otp'.guesses = otp.guesses /\ otp'.lock = otp.lock /\ otp'.fails = otp.fails
    BY <1>2, <2>1, <2>2 DEF AccountInv, Counted, FailCount, LockCount, GuessCount
  <2>3. CASE otp'.guesses = 0 /\ otp'.fails = 0
    BY <1>2, <2>1, <2>3, OtpIs DEF AccountInv, Counted, FailCount, LockCount, GuessCount
  <2> QED
    BY <1>4, <2>2, <2>3
<1>8. Unborn'
  <2>1. user.st # None
    BY <1>1 DEF AccountInv, Unborn, Walks
  <2> QED
    BY <1>2, <2>1 DEF Unborn
<1>9. TokenHeld'
  <2>1. SUFFICES ASSUME InForce' PROVE TokenHeld'
    BY DEF TokenHeld
  <2>2. TokenAt(s)
    <3>1. InForce
      BY <1>2, <2>1 DEF InForce
    <3> QED
      BY <3>1 DEF AccountInv, TokenHeld
  <2>3. TokenAt(s)'
    BY <1>1, <1>2, <2>2 DEF Walks, PcOnly, TokenAt
  <2> QED
    BY <1>1, <1>2, <2>3, TokenStays DEF AccountInv, Walks
<1> QED
  BY <1>5, <1>6, <1>7, <1>8, <1>9 DEF AccountInv, Counted

LEMMA FailAccount ==
  ASSUME AllTypes, NEW s \in Slots, Fail(s), AccountInv
  PROVE  AccountTypes' /\ AccountInv'
<1>1. UNCHANGED <<user, cached, otp, mixed, scenario>> /\ events' = events + 1 /\ events \in Nat
  BY OtpIs DEF Fail, Fault, idVars
<1>2. Walks(s, JobPcs \cup Breakable, {"queued", "done"})
  <2>1. CASE Retry(s) /\ req[s].pc \in {"extract", "store", "claim", "commit"}
    <3>1. req[s].pc \in JobPcs
      BY <2>1 DEF JobPcs
    <3>2. Walks(s, JobPcs, {"queued", "done"})
      BY <1>1, <2>1, <3>1, RetryWalks
    <3> QED
      BY <3>2 DEF Walks
  <2>2. CASE Walks(s, Breakable, {"done"})
    BY <2>2 DEF Walks
  <2> QED
    BY <2>1, <2>2, FailWalks
<1>3. AccountTypes'
  BY <1>1 DEF AllTypes, AccountTypes
<1>4. ~Sends(s)'
  BY <1>2 DEF Walks, Sends
<1>5. Moved(s) /\ Counted'
  BY <1>1, <1>2, <1>4, CountedStays DEF AccountInv, Walks, JobPcs, Breakable
<1>6. Unborn'
  BY <1>1, <1>2, <1>5, UnbornStays DEF AccountInv, Unborn, Walks
<1>7. TokenHeld'
  <2>1. ~InForce'
    BY <1>1 DEF InForce
  <2> QED
    BY <2>1 DEF TokenHeld
<1> QED
  BY <1>3, <1>5, <1>6, <1>7 DEF AccountInv

LEMMA LapseOtpAccount ==
  ASSUME AllTypes, LapseOtp, AccountInv
  PROVE  AccountTypes' /\ AccountInv'
<1>1. UNCHANGED <<user, cached, mixed, scenario, req>> /\ events' = events + 1 /\ events \in Nat /\ otp \in Otp
  BY OtpIs DEF LapseOtp, Fault, AllTypes, AccountTypes
<1>2. \/ otp' = [otp EXCEPT !.fails = 0, !.guesses = 0]
      \/ otp.fails <= 0 /\ otp' = [otp EXCEPT !.lock = FALSE]
  BY OtpIs DEF LapseOtp
<1>3. /\ otp' \in Otp /\ otp'.sent = otp.sent
      /\ \/ otp'.fails = 0 /\ otp'.guesses = 0
         \/ otp.fails = 0 /\ otp'.fails = 0 /\ otp'.guesses = otp.guesses
  <2>1. PICK o, x : o = otp /\ x = otp'
    OBVIOUS
  <2>2. x = [o EXCEPT !.fails = 0, !.guesses = 0] \/ (o.fails = 0 /\ x = [o EXCEPT !.lock = FALSE])
    BY <1>2, <2>1, OtpIs
  <2> QED
    BY <1>1, <2>1, <2>2, Lapsed, LockOff
<1>4. AccountTypes'
  BY <1>1, <1>3 DEF AllTypes, AccountTypes
<1>5. /\ Are({"count"})' = Are({"count"}) /\ Are({"count", "bar"})' = Are({"count", "bar"})
      /\ Are({"compare"})' = Are({"compare"}) /\ Sending' = Sending
      /\ Are({"count"}) \in SUBSET Are({"count", "bar"}) /\ Are({"count", "bar"}) \in SUBSET Slots
      /\ Are({"compare"}) \in SUBSET Slots /\ Are({"count"}) \in SUBSET Slots
  BY <1>1 DEF Are, Sending, Sends, ask
<1>6. /\ Cardinality(Are({"count"})) <= Cardinality(Are({"count", "bar"}))
      /\ Cardinality(Are({"count"})) \in Nat /\ Cardinality(Are({"count", "bar"})) \in Nat
      /\ Cardinality(Are({"compare"})) \in Nat
  BY <1>5, SizeLess, SizeOf
<1>7. SentCount' /\ FailCount'
  BY <1>1, <1>3, <1>5, <1>6, OtpIs DEF AccountInv, Counted, SentCount, FailCount
<1>8. LockCount'
  BY <1>1, <1>3, <1>5, <1>6, OtpIs DEF AccountInv, Counted, FailCount, LockCount
<1>9. GuessCount'
  BY <1>1, <1>3, <1>5, <1>6, OtpIs DEF AccountInv, Counted, GuessCount
<1>10. Unborn'
  BY <1>1, <1>3 DEF AccountInv, Unborn
<1>11. TokenHeld'
  BY <1>1 DEF TokenHeld, InForce
<1> QED
  BY <1>4, <1>7, <1>8, <1>9, <1>10, <1>11 DEF AccountInv, Counted

\* A request that overlaps none leaves what is known of the others.
LEMMA OthersToken ==
  ASSUME NEW s \in Slots, Moved(s), NEW t \in Slots \ {s}, TokenAt(t), user'.token = user.token,
         user.rate => user'.rate, cached' \subseteq cached, Publishing => Publishing' \/ user'.rate
  PROVE  TokenAt(t)'
  BY OthersStay DEF TokenAt

LEMMA ResolveByTokenAccount ==
  ASSUME AllTypes, NEW s \in Slots, ResolveByToken(s), AccountInv
  PROVE  AccountTypes' /\ AccountInv'
<1>1. Walks(s, {"lookup", "remember"}, {"remember", "allowed", "done"}) /\ Moved(s)
  BY ResolveByTokenWalks DEF Walks
<1>2. /\ user' = user /\ otp' = otp /\ scenario' = scenario /\ events \in Nat /\ cached \in SUBSET (Slots \cup {0})
      /\ {"remember", "allowed", "done"} \subseteq Pcs /\ scenario \in DOMAIN Scenarios /\ mixed \in BOOLEAN
  BY OtpIs, InPcs DEF ResolveByToken, AllTypes, AccountTypes, SlotTypes
<1>3. \/ /\ req[s].pc = "lookup" /\ UNCHANGED <<cached, mixed, events>> /\ user.st = "active" /\ user.token = ask(s).tok
         /\ Go(s, "remember")
      \/ /\ req[s].pc = "lookup" /\ UNCHANGED <<cached, mixed, events>> /\ Go(s, "done")
      \/ /\ req[s].pc = "remember" /\ Cache(cached \cup {ask(s).tok}) /\ mixed' = (mixed \/ Swapping)
         /\ \E p \in {"allowed", "done"} : Go(s, p)
  BY DEF ResolveByToken, Does, Calm, Alive
<1>4. /\ events' \in {events, events + 1} /\ events' \in Nat
      /\ req[s].pc = "remember" =>
           /\ cached' \in {cached \cup {ask(s).tok}, cached}
           /\ events' = 0 => cached' = cached \cup {ask(s).tok}
  BY <1>2, <1>3, CacheIs
<1>5. /\ req[s].pc = "lookup" => UNCHANGED <<cached, mixed>>
      /\ req[s].pc = "remember" => mixed' = (mixed \/ Swapping)
      /\ req[s].pc = "remember" => req'[s].pc \in {"allowed", "done"}
      /\ req'[s].pc = "remember" => user.st = "active" /\ user.token = ask(s).tok
  <2>1. CASE /\ req[s].pc = "lookup" /\ UNCHANGED <<cached, mixed>> /\ user.st = "active" /\ user.token = ask(s).tok
    BY <2>1
  <2>2. CASE req[s].pc = "lookup" /\ UNCHANGED <<cached, mixed>> /\ Go(s, "done")
    <3>1. req'[s].pc = "done"
      BY <1>2, <2>2, GoTo
    <3> QED
      BY <2>2, <3>1
  <2>3. CASE req[s].pc = "remember" /\ mixed' = (mixed \/ Swapping) /\ \E p \in {"allowed", "done"} : Go(s, p)
    <3>1. req'[s].pc \in {"allowed", "done"}
      BY <1>2, <2>3, GoTo
    <3> QED
      BY <2>3, <3>1
  <2> QED
    BY <1>3, <2>1, <2>2, <2>3
<1>6. AccountTypes'
  <2>1. cached' \in SUBSET (Slots \cup {0})
    <3>1. ask(s).tok \in Slots \cup {0}
      BY <1>2, RequestIs
    <3> QED
      BY <1>1, <1>2, <1>4, <1>5, <3>1 DEF Walks
  <2>2. mixed' \in BOOLEAN
    BY <1>1, <1>2, <1>5 DEF Walks, Swapping
  <2> QED
    BY <1>2, <1>4, <2>1, <2>2 DEF AllTypes, AccountTypes
<1>7. Counted'
  <2>1. ~Sends(s)'
    BY <1>1 DEF Sends, Walks
  <2> QED
    BY <1>1, <1>2, <1>4, <2>1, CountedStays DEF AccountInv, Walks
<1>8. Unborn'
  <2>1. user.st = None => req[s].pc # "remember" /\ cached = {} /\ otp.sent = 0
    BY DEF AccountInv, Unborn
  <2>2. user.st = None => cached' = {} /\ req'[s].pc \in {"allowed", "done"}
    BY <1>1, <1>5, <2>1 DEF Walks, None
  <2> QED
    BY <1>1, <1>2, <2>1, <2>2, UnbornStays DEF AccountInv
<1>9. TokenHeld'
  <2>1. CASE req[s].pc = "lookup"
    <3>1. TokenAt(s)'
      BY <1>1, <1>2, <1>5 DEF Walks, TokenAt, ask
    <3> QED
      BY <1>1, <1>2, <1>4, <1>5, <2>1, <3>1, TokenStays DEF AccountInv, Walks
  <2>2. CASE req[s].pc = "remember"
    <3>1. SUFFICES ASSUME InForce' PROVE cached' \subseteq {user'.token} /\ (\A t \in Slots : TokenAt(t)') /\ OneSwap'
      BY DEF TokenHeld
    <3>2. ~mixed /\ ~Swapping /\ events = 0 /\ user.st = "active" /\ cached' = cached \cup {ask(s).tok}
      <4>1. ~mixed' /\ events' = 0 /\ user'.st = "active"
        BY <3>1 DEF InForce
      <4>2. ~mixed /\ ~Swapping
        BY <1>5, <2>2, <4>1
      <4> QED
        BY <1>2, <1>4, <2>2, <4>1, <4>2
    <3>3. cached \subseteq {user.token} /\ (\A t \in Slots : TokenAt(t)) /\ OneSwap
      BY <3>2 DEF AccountInv, TokenHeld, InForce
    <3>4. ask(s).tok = user.token
      BY <2>2, <3>3 DEF TokenAt
    <3>5. ~Publishing /\ \A t \in Slots : req[t].pc \notin {"swap", "publish"}
      BY <3>2 DEF Swapping, Publishing, Does
    <3>6. ASSUME NEW t \in Slots PROVE TokenAt(t)'
      <4>1. CASE t = s
        BY <1>1, <1>5, <2>2, <4>1 DEF TokenAt
      <4>2. CASE t # s
        <5>1. TokenAt(t)
          BY <3>3
        <5> QED
          BY <1>1, <1>2, <3>5, <4>2, <5>1, OthersStay DEF TokenAt
      <4> QED
        BY <4>1, <4>2
    <3>7. OneSwap'
      BY <1>1, <3>3, OthersStay DEF OneSwap, Walks
    <3> QED
      BY <1>2, <3>2, <3>3, <3>4, <3>6, <3>7
  <2> QED
    BY <1>1, <2>1, <2>2 DEF Walks
<1> QED
  BY <1>6, <1>7, <1>8, <1>9 DEF AccountInv

LEMMA EraseAccount ==
  ASSUME AllTypes, NEW s \in Slots, Erase(s), AccountInv
  PROVE  AccountTypes' /\ AccountInv'
<1>1. Walks(s, {"erase", "ids", "wipe", "uncache"}, {"ids", "wipe", "uncache", "done"}) /\ Moved(s)
  BY EraseWalks DEF Walks
<1>2. /\ UNCHANGED <<otp, mixed, events>> /\ user \in User /\ events \in Nat
      /\ \/ user' = user /\ cached' \in SUBSET cached
         \/ user.st = "active" /\ user' = [user EXCEPT !.st = "gone"] /\ cached' = cached
  BY OtpIs DEF Erase, Alive, AllTypes, AccountTypes
<1>3. user' \in User /\ user'.token = user.token /\ user'.rate = user.rate /\ (user'.st = user.st \/ user'.st = "gone")
  BY <1>2 DEF User
<1>4. AccountTypes'
  BY <1>2, <1>3 DEF AllTypes, AccountTypes
<1>5. ~Sends(s)' /\ TokenAt(s)'
  BY <1>1 DEF Sends, TokenAt, Walks
<1>6. Counted'
  BY <1>1, <1>2, <1>5, CountedStays DEF AccountInv, Walks
<1>7. Unborn'
  BY <1>1, <1>2, <1>3, UnbornStays DEF AccountInv, Unborn, Walks, None
<1>8. TokenHeld'
  <2>1. SUFFICES ASSUME InForce' PROVE cached' \subseteq {user'.token} /\ (\A t \in Slots : TokenAt(t)') /\ OneSwap'
    BY DEF TokenHeld
  <2>2. InForce
    BY <1>2, <1>3, <2>1 DEF InForce
  <2>3. cached \subseteq {user.token} /\ (\A t \in Slots : TokenAt(t)) /\ OneSwap
    BY <2>2 DEF AccountInv, TokenHeld
  <2>4. Publishing => Publishing'
    BY <1>1, OthersStay DEF Publishing, Walks
  <2>5. \A t \in Slots \ {s} : TokenAt(t)'
    BY <1>1, <1>2, <1>3, <2>3, <2>4, OthersToken
  <2>6. OneSwap'
    BY <1>1, <2>3, OthersStay DEF OneSwap, Walks
  <2> QED
    BY <1>2, <1>3, <1>5, <2>3, <2>5, <2>6
<1> QED
  BY <1>4, <1>6, <1>7, <1>8 DEF AccountInv

\* The four steps of a regeneration.
RegenerateSteps(s) ==
  \/ req[s].pc = "regenerate" /\ UNCHANGED <<user, cached, events>> /\ user.rate /\ Go(s, "done")
  \/ req[s].pc = "regenerate" /\ UNCHANGED <<user, cached, events>> /\ ~user.rate /\ Go(s, "drop")
  \/ req[s].pc = "drop" /\ Cache(cached \ {req[s].tok}) /\ user' = user /\ Go(s, "swap")
  \/ /\ req[s].pc = "swap" /\ UNCHANGED <<cached, events>> /\ user.st = "active"
     /\ user' = [user EXCEPT !.token = s] /\ Go(s, "publish")
  \/ req[s].pc = "swap" /\ UNCHANGED <<cached, events, user>> /\ user.st # "active" /\ Go(s, "done")
  \/ /\ req[s].pc = "publish" /\ cached' = cached \cup {s} /\ user' = [user EXCEPT !.rate = TRUE]
     /\ events' = events /\ Go(s, "done")
  \/ /\ req[s].pc = "publish" /\ events' = events + 1 /\ cached' \in {cached, cached \cup {s}}
     /\ user' \in {user, [user EXCEPT !.rate = TRUE]} /\ Go(s, "done")

LEMMA RegenerateIs ==
  ASSUME NEW s, Regenerate(s)
  PROVE  RegenerateSteps(s) /\ mixed' = (mixed \/ Mixed(s)) /\ otp' = otp /\ scenario' = scenario
  BY DEF Regenerate, RegenerateSteps, Does, Calm, Fault, Done, Dropped, Alive

LEMMA UserWrites ==
  ASSUME NEW u \in User, NEW s \in Slots, NEW x
  PROVE  /\ x = [u EXCEPT !.token = s] => x \in User /\ x.st = u.st /\ x.token = s /\ x.rate = u.rate
         /\ x = [u EXCEPT !.rate = TRUE] => x \in User /\ x.st = u.st /\ x.token = u.token /\ x.rate
  BY DEF User

LEMMA RegenerateAccount ==
  ASSUME AllTypes, NEW s \in Slots, Regenerate(s), AccountInv
  PROVE  AccountTypes' /\ AccountInv'
<1>1. Walks(s, {"regenerate", "drop", "swap", "publish"}, {"drop", "swap", "publish", "done"}) /\ Moved(s) /\ PcOnly(s)
  BY RegenerateWalks DEF Walks
<1>2. RegenerateSteps(s) /\ mixed' = (mixed \/ Mixed(s)) /\ otp' = otp /\ scenario' = scenario
  BY RegenerateIs
<1>3. /\ user \in User /\ cached \in SUBSET (Slots \cup {0}) /\ events \in Nat /\ mixed \in BOOLEAN
      /\ {"drop", "swap", "publish", "done"} \subseteq Pcs
  BY OtpIs, InPcs DEF AllTypes, AccountTypes
<1>4. ASSUME NEW p \in {"drop", "swap", "publish", "done"}, Go(s, p) PROVE req'[s].pc = p
  BY <1>2, <1>3, <1>4, GoTo
<1>5. req[s].pc = "drop" => /\ events' \in {events, events + 1} /\ cached' \in {cached \ {req[s].tok}, cached}
                            /\ events' = 0 => cached' = cached \ {req[s].tok}
  BY <1>2, CacheIs DEF RegenerateSteps
<1>6. PICK u, x : u = user /\ x = user'
  OBVIOUS
<1>7. /\ x = u \/ x = [u EXCEPT !.token = s] \/ x = [u EXCEPT !.rate = TRUE]
      /\ cached' \in SUBSET (Slots \cup {0}) /\ events' \in {events, events + 1}
  BY <1>2, <1>3, <1>5, <1>6 DEF RegenerateSteps
<1>8. user' \in User /\ user'.st = user.st
  BY <1>3, <1>6, <1>7, UserWrites
<1>9. AccountTypes'
  <2>1. mixed' \in BOOLEAN
    BY <1>2, <1>3 DEF Mixed
  <2> QED
    BY <1>2, <1>3, <1>7, <1>8, <2>1, OtpIs DEF AllTypes, AccountTypes
<1>10. Counted'
  <2>1. ~Sends(s)'
    BY <1>1 DEF Sends, Walks
  <2> QED
    BY <1>1, <1>2, <1>7, <2>1, CountedStays DEF AccountInv, Walks
<1>11. Unborn'
  <2>1. user.st # None
    BY <1>1 DEF AccountInv, Unborn, Walks
  <2> QED
    BY <1>8, <2>1 DEF Unborn
<1>12. TokenHeld'
  <2>1. SUFFICES ASSUME InForce' PROVE cached' \subseteq {user'.token} /\ (\A t \in Slots : TokenAt(t)') /\ OneSwap'
    BY DEF TokenHeld
  <2>2. ~mixed /\ ~Mixed(s) /\ events = 0 /\ events' = events /\ user.st = "active"
    <3>1. ~mixed' /\ events' = 0 /\ user'.st = "active"
      BY <2>1 DEF InForce
    <3>2. ~mixed /\ ~Mixed(s)
      BY <1>2, <3>1
    <3> QED
      BY <1>3, <1>7, <1>8, <3>1, <3>2
  <2>3. cached \subseteq {user.token} /\ (\A t \in Slots : TokenAt(t)) /\ OneSwap /\ TokenAt(s)
    BY <2>2 DEF AccountInv, TokenHeld, InForce
  <2>4. \A t \in Slots \ {s} : req[t].pc \notin TokenPcs /\ req'[t].pc = req[t].pc
    BY <1>1, <2>2, OthersStay DEF Mixed
  <2>5. OneSwap'
    BY <2>4 DEF OneSwap, TokenPcs
  <2>6. CASE req[s].pc = "regenerate" /\ UNCHANGED <<user, cached>> /\ Go(s, "done")
    <3>1. req'[s].pc = "done"
      BY <1>4, <2>6
    <3>2. Publishing => Publishing'
      BY <2>4, <2>6 DEF Publishing
    <3>3. \A t \in Slots \ {s} : TokenAt(t)'
      BY <1>1, <2>3, <2>6, <3>2, OthersToken
    <3>4. TokenAt(s)'
      BY <3>1 DEF TokenAt
    <3> QED
      BY <2>3, <2>5, <2>6, <3>3, <3>4
  <2>7. CASE req[s].pc = "regenerate" /\ UNCHANGED <<user, cached>> /\ ~user.rate /\ Go(s, "drop")
    <3>1. req'[s].pc = "drop" /\ req'[s].tok = req[s].tok
      BY <1>1, <1>4, <2>7 DEF PcOnly
    <3>2. ~Publishing
      BY <2>4, <2>7 DEF Publishing, TokenPcs
    <3>3. \A t \in Slots \ {s} : TokenAt(t)'
      BY <1>1, <2>3, <2>7, <3>2, OthersToken
    <3>4. TokenAt(s)'
      BY <2>3, <2>7, <3>1, <3>2 DEF TokenAt
    <3> QED
      BY <2>3, <2>5, <2>7, <3>3, <3>4
  <2>8. CASE req[s].pc = "drop" /\ user' = user /\ Go(s, "swap")
    <3>1. req'[s].pc = "swap" /\ cached' = {} /\ ~Publishing
      <4>1. cached' = cached \ {user.token}
        BY <1>5, <2>2, <2>3, <2>8 DEF TokenAt
      <4>2. cached' = {}
        BY <2>3, <4>1
      <4> QED
        BY <1>4, <2>4, <2>8, <4>2 DEF Publishing, TokenPcs
    <3>2. \A t \in Slots \ {s} : TokenAt(t)'
      BY <1>1, <2>3, <2>8, <3>1, OthersToken
    <3>3. TokenAt(s)'
      BY <3>1 DEF TokenAt
    <3> QED
      BY <2>5, <3>1, <3>2, <3>3
  <2>9. CASE req[s].pc = "swap" /\ cached' = cached /\ user' = [user EXCEPT !.token = s] /\ Go(s, "publish")
    <3>1. req'[s].pc = "publish" /\ cached' = {} /\ user'.token = s
      BY <1>3, <1>4, <1>6, <2>3, <2>9, UserWrites DEF TokenAt
    <3>2. Publishing'
      BY <3>1 DEF Publishing
    <3>3. \A t \in Slots \ {s} : TokenAt(t)'
      BY <2>4, <3>2 DEF TokenAt, TokenPcs
    <3>4. TokenAt(s)'
      BY <3>1 DEF TokenAt
    <3> QED
      BY <2>5, <3>1, <3>3, <3>4
  <2>10. CASE /\ req[s].pc = "publish" /\ cached' = cached \cup {s} /\ user' = [user EXCEPT !.rate = TRUE]
              /\ Go(s, "done")
    <3>1. req'[s].pc = "done" /\ user'.token = s /\ user.token = s /\ user'.rate
      BY <1>3, <1>4, <1>6, <2>3, <2>10, UserWrites DEF TokenAt
    <3>2. \A t \in Slots \ {s} : TokenAt(t)'
      BY <2>4, <3>1 DEF TokenAt, TokenPcs
    <3>3. TokenAt(s)'
      BY <3>1 DEF TokenAt
    <3> QED
      BY <2>3, <2>5, <2>10, <3>1, <3>2, <3>3
  <2> QED
    BY <1>2, <2>2, <2>6, <2>7, <2>8, <2>9, <2>10 DEF RegenerateSteps
<1> QED
  BY <1>9, <1>10, <1>11, <1>12 DEF AccountInv

\* Codes and tokens, whatever the step.
LEMMA AccountStep ==
  ASSUME AllTypes, Standing, Opened, AccountInv, NEW s \in Slots, Step(s)
  PROVE  AccountTypes' /\ Opened' /\ AccountInv'
<1>1. Opened'
  BY StepAdmits, OpenStep
<1>2. CASE NoAccount(s)
  BY <1>1, <1>2, NoAccountKeeps
<1>3. CASE Accounts(s)
  <2>1. CASE Enter(s)
    BY <1>1, <2>1, EnterAccount
  <2>2. CASE Register(s)
    BY <1>1, <2>2, RegisterAccount
  <2>3. CASE Recache(s)
    BY <1>1, <2>3, RecacheAccount
  <2>4. CASE SendOtp(s)
    BY <1>1, <2>4, SendOtpAccount
  <2>5. CASE VerifyOtp(s)
    BY <1>1, <2>5, VerifyOtpAccount
  <2>6. CASE CountFailure(s)
    BY <1>1, <2>6, CountFailureAccount
  <2>7. CASE AcceptOtp(s)
    BY <1>1, <2>7, AcceptOtpAccount
  <2>8. CASE Regenerate(s)
    BY <1>1, <2>8, RegenerateAccount
  <2>9. CASE Erase(s)
    BY <1>1, <2>9, EraseAccount
  <2>10. CASE ResolveByToken(s)
    BY <1>1, <2>10, ResolveByTokenAccount
  <2>11. CASE Fail(s)
    BY <1>1, <2>11, FailAccount
  <2> QED
    BY <1>1, <1>3, <2>1, <2>2, <2>3, <2>4, <2>5, <2>6, <2>7, <2>8, <2>9, <2>10, <2>11 DEF Accounts
<1> QED
  BY <1>2, <1>3, StepAccounts

-----------------------------------------------------------------------------
(* Consent and organisations.                                                *)

\* A job that lost its grant before its last look at it has not passed that look.
CutAt(s) == req[s].cut => /\ req[s].pc \in Extracting \cup {"done"}
                          /\ req[s].pc \in Extracting => ~WriteGrant(s)
\* The account a request found linked is its user's, or the user is gone.
Linked(u) == link.proxy = u \/ (u = 1 /\ user.st = "gone")
OwnerAt(s) ==
  /\ req[s].pc \in {"check", "upsert"} /\ ask(s).link /\ req[s].seen => Linked(ask(s).who)
  /\ req[s].pc \in {"provider", "callback"} => req[s].n \in Users
  /\ req[s].pc = "callback" /\ req[s].seen => Linked(req[s].n)
ConsentInv == OneOwner /\ \A s \in Slots : CutAt(s) /\ OwnerAt(s)

Still(s) == \A t \in Slots \ {s} : req'[t] = req[t]
StaysGone == user.st = "gone" => user'.st = "gone"
NoConsent(s) == /\ scenario' = scenario /\ Still(s) /\ UNCHANGED <<agent, grant, link, conn>> /\ StaysGone
                /\ req'[s].pc \notin {"check", "upsert", "provider", "callback"} /\ CutAt(s)'
Consents(s) == \/ GrantConsume(s) \/ GrantConnect(s) \/ GrantCheck(s) \/ GrantUpsert(s) \/ RevokeGrant(s) \/ Narrow(s)
               \/ Retire(s) \/ IssueLink(s) \/ OAuthInitiate(s) \/ OAuthCallback(s) \/ OAuthCommit(s)
               \/ Disconnect(s) \/ Erase(s)

LEMMA GrantStays ==
  ASSUME NEW s, UNCHANGED <<scenario, grant>>
  PROVE  WriteGrant(s)' <=> WriteGrant(s)
  BY DEF WriteGrant, Current, payload, job, ask

LEMMA RetryConsent ==
  ASSUME AllTypes, NEW s \in Slots, Retry(s), UNCHANGED <<scenario, agent, grant, link, conn>>, StaysGone
  PROVE  NoConsent(s)
<1>1. Walks(s, {req[s].pc}, {"queued", "done"}) /\ req'[s].cut = FALSE /\ Still(s)
  BY RetryWalks DEF Still
<1> QED
  BY <1>1 DEF NoConsent, CutAt, Walks

LEMMA StepConsents ==
  ASSUME AllTypes, Standing, NEW s \in Slots, Step(s), CutAt(s)
  PROVE  NoConsent(s) \/ Consents(s)
<1>0. req[s].pc \in JobPcs => ask(s).op \in {"add", "deliver"}
  BY DEF Standing, PlaceOK
<1>35. user.st = "gone" => user.st # None /\ user.st # "active"
  BY DEF None
<1> USE DEF Walks, consentVars, orgVars, Same, PcOnly, Still
<1>1. CASE Enter(s)
  <2>1. UNCHANGED <<scenario, agent, grant, link, conn>> /\ StaysGone
    BY <1>1 DEF Enter, idVars, StaysGone
  <2> QED
    BY <1>1, <2>1, EnterWalks DEF NoConsent, CutAt, Extracting, Owners
<1>2. CASE Register(s)
  <2>1. UNCHANGED <<scenario, agent, grant, link, conn>> /\ StaysGone
    BY <1>35, <1>2 DEF Register, StaysGone
  <2> QED
    BY <1>2, <2>1, RegisterWalks DEF NoConsent, CutAt, Extracting
<1>3. CASE Recache(s)
  <2>1. UNCHANGED <<scenario, agent, grant, link, conn>> /\ StaysGone
    BY <1>3 DEF Recache, idVars, StaysGone
  <2> QED
    BY <1>3, <2>1, RecacheWalks DEF NoConsent, CutAt, Extracting
<1>4. CASE SendOtp(s)
  <2>1. UNCHANGED <<scenario, agent, grant, link, conn>> /\ StaysGone
    BY <1>4 DEF SendOtp, idVars, StaysGone
  <2> QED
    BY <1>4, <2>1, SendOtpWalks DEF NoConsent, CutAt, Extracting
<1>5. CASE VerifyOtp(s)
  <2>1. UNCHANGED <<scenario, agent, grant, link, conn>> /\ StaysGone
    BY <1>5 DEF VerifyOtp, idVars, StaysGone
  <2> QED
    BY <1>5, <2>1, VerifyOtpWalks DEF NoConsent, CutAt, Extracting
<1>6. CASE CountFailure(s)
  <2>1. UNCHANGED <<scenario, agent, grant, link, conn>> /\ StaysGone
    BY <1>6 DEF CountFailure, idVars, StaysGone
  <2> QED
    BY <1>6, <2>1, CountFailureWalks DEF NoConsent, CutAt, Extracting
<1>7. CASE AcceptOtp(s)
  <2>1. UNCHANGED <<scenario, agent, grant, link, conn>> /\ StaysGone
    BY <1>7 DEF AcceptOtp, idVars, StaysGone
  <2> QED
    BY <1>7, <2>1, AcceptOtpWalks DEF NoConsent, CutAt, Extracting
<1>8. CASE Regenerate(s)
  <2>1. UNCHANGED <<scenario, agent, grant, link, conn>> /\ StaysGone
    <3>1. UNCHANGED <<scenario, agent, grant, link, conn>>
      BY <1>8 DEF Regenerate
    <3>2. RegenerateSteps(s) /\ user \in User
      BY <1>8, RegenerateIs DEF AllTypes, AccountTypes
    <3>3. PICK u, x : u = user /\ x = user'
      OBVIOUS
    <3>4. x = u \/ x = [u EXCEPT !.token = s] \/ x = [u EXCEPT !.rate = TRUE]
      BY <3>2, <3>3 DEF RegenerateSteps
    <3> QED
      BY <3>1, <3>2, <3>3, <3>4, UserWrites DEF StaysGone
  <2> QED
    BY <1>8, <2>1, RegenerateWalks DEF NoConsent, CutAt, Extracting
<1>9. CASE Authenticate(s)
  <2>1. UNCHANGED <<scenario, agent, grant, link, conn>> /\ StaysGone
    BY <1>9 DEF Authenticate, idVars, StaysGone
  <2> QED
    BY <1>9, <2>1, AuthenticateWalks DEF NoConsent, CutAt, Extracting
<1>10. CASE IssueCapability(s)
  <2>1. UNCHANGED <<scenario, agent, grant, link, conn>> /\ StaysGone
    BY <1>10 DEF IssueCapability, idVars, StaysGone
  <2> QED
    BY <1>10, <2>1, IssueCapabilityWalks DEF NoConsent, CutAt, Extracting
<1>11. CASE UseCapability(s)
  <2>1. UNCHANGED <<scenario, agent, grant, link, conn>> /\ StaysGone
    BY <1>11 DEF UseCapability, idVars, StaysGone
  <2> QED
    BY <1>11, <2>1, UseCapabilityWalks DEF NoConsent, CutAt, Extracting
<1>12. CASE ResolveByToken(s)
  <2>1. UNCHANGED <<scenario, agent, grant, link, conn>> /\ StaysGone
    BY <1>12 DEF ResolveByToken, idVars, StaysGone
  <2> QED
    BY <1>12, <2>1, ResolveByTokenWalks DEF NoConsent, CutAt, Extracting
<1>13. CASE Retrieve(s)
  <2>1. UNCHANGED <<scenario, agent, grant, link, conn>> /\ StaysGone
    BY <1>13 DEF Retrieve, idVars, StaysGone
  <2> QED
    BY <1>13, <2>1, RetrieveWalks DEF NoConsent, CutAt, Extracting
<1>14. CASE Search(s)
  <2>1. UNCHANGED <<scenario, agent, grant, link, conn>> /\ StaysGone
    BY <1>14 DEF Search, idVars, StaysGone
  <2> QED
    BY <1>14, <2>1, SearchWalks DEF NoConsent, CutAt, Extracting
<1>15. CASE AddAdmit(s)
  <2>1. UNCHANGED <<scenario, agent, grant, link, conn>> /\ StaysGone
    BY <1>15 DEF AddAdmit, idVars, StaysGone
  <2> QED
    BY <1>15, <2>1, AddAdmitWalks DEF NoConsent, CutAt, Extracting
<1>16. CASE AddReplay(s)
  <2>1. UNCHANGED <<scenario, agent, grant, link, conn>> /\ StaysGone
    BY <1>16 DEF AddReplay, idVars, StaysGone
  <2> QED
    BY <1>16, <2>1, AddReplayWalks DEF NoConsent, CutAt, Extracting
<1>17. CASE AddDispatch(s)
  <2>1. UNCHANGED <<scenario, agent, grant, link, conn>> /\ StaysGone
    BY <1>17 DEF AddDispatch, idVars, StaysGone
  <2> QED
    BY <1>17, <2>1, AddDispatchWalks DEF NoConsent, CutAt, Extracting
<1>18. CASE Deliver(s)
  <2>1. UNCHANGED <<scenario, agent, grant, link, conn>> /\ StaysGone
    BY <1>18 DEF Deliver, idVars, StaysGone
  <2> QED
    BY <1>18, <2>1, DeliverWalks DEF NoConsent, CutAt, Extracting
<1>19. CASE JobBegin(s)
  <2>1. UNCHANGED <<scenario, agent, grant, link, conn>> /\ StaysGone
    BY <1>19 DEF JobBegin, idVars, StaysGone
  <2>2. ask(s).op \in {"add", "deliver"}
    BY <1>0, <1>19 DEF JobBegin, JobPcs, Does
  <2> QED
    BY <1>19, <2>1, <2>2, JobBeginWalks, RetryConsent DEF NoConsent, CutAt, Extracting
<1>20. CASE JobLock(s)
  <2>1. UNCHANGED <<scenario, agent, grant, link, conn>> /\ StaysGone
    BY <1>20 DEF JobLock, idVars, StaysGone
  <2> QED
    BY <1>20, <2>1, JobLockWalks, GrantStays DEF NoConsent, CutAt, Extracting
<1>21. CASE JobExtract(s)
  <2>1. UNCHANGED <<scenario, agent, grant, link, conn>> /\ StaysGone
    BY <1>21 DEF JobExtract, idVars, StaysGone
  <2> QED
    BY <1>21, <2>1, JobExtractWalks, GrantStays DEF NoConsent, CutAt, Extracting
<1>22. CASE JobInsert(s)
  <2>1. UNCHANGED <<scenario, agent, grant, link, conn>> /\ StaysGone
    BY <1>22 DEF JobInsert, idVars, StaysGone
  <2> QED
    BY <1>22, <2>1, JobInsertWalks, RetryConsent, GrantStays DEF NoConsent, CutAt, Extracting
<1>23. CASE JobRecord(s)
  <2>1. UNCHANGED <<scenario, agent, grant, link, conn>> /\ StaysGone
    BY <1>23 DEF JobRecord, idVars, StaysGone
  <2> QED
    BY <1>23, <2>1, JobRecordWalks, GrantStays DEF NoConsent, CutAt, Extracting
<1>24. CASE JobFinal(s)
  <2>1. UNCHANGED <<scenario, agent, grant, link, conn>> /\ StaysGone
    BY <1>24 DEF JobFinal, idVars, StaysGone
  <2> QED
    BY <1>24, <2>1, JobFinalWalks, GrantStays DEF NoConsent, CutAt, Extracting
<1>25. CASE JobCommit(s)
  <2>1. UNCHANGED <<scenario, agent, grant, link, conn>> /\ StaysGone
    BY <1>25 DEF JobCommit, idVars, StaysGone
  <2> QED
    BY <1>25, <2>1, JobCommitWalks, RetryConsent, GrantStays DEF NoConsent, CutAt, Extracting
<1>26. CASE Victim(s)
  <2>1. UNCHANGED <<scenario, agent, grant, link, conn>> /\ StaysGone
    BY <1>26 DEF Victim, idVars, StaysGone
  <2> QED
    BY <1>26, <2>1, VictimWalks, RetryConsent DEF NoConsent, CutAt, Extracting, Breakable
<1>27. CASE Fail(s)
  <2>1. UNCHANGED <<scenario, agent, grant, link, conn>> /\ StaysGone
    BY <1>27 DEF Fail, idVars, StaysGone
  <2> QED
    BY <1>27, <2>1, FailWalks, RetryConsent DEF NoConsent, CutAt, Extracting, Breakable
<1>28. CASE Flag(s)
  <2>1. UNCHANGED <<scenario, agent, grant, link, conn>> /\ StaysGone
    BY <1>28 DEF Flag, idVars, StaysGone
  <2> QED
    BY <1>28, <2>1, FlagWalks DEF NoConsent, CutAt, Extracting
<1>29. CASE Unflag(s)
  <2>1. UNCHANGED <<scenario, agent, grant, link, conn>> /\ StaysGone
    BY <1>29 DEF Unflag, idVars, StaysGone
  <2> QED
    BY <1>29, <2>1, UnflagWalks DEF NoConsent, CutAt, Extracting
<1>30. CASE CorrectStage(s)
  <2>1. UNCHANGED <<scenario, agent, grant, link, conn>> /\ StaysGone
    BY <1>30 DEF CorrectStage, idVars, StaysGone
  <2> QED
    BY <1>30, <2>1, CorrectStageWalks DEF NoConsent, CutAt, Extracting
<1>31. CASE CorrectCommit(s)
  <2>1. UNCHANGED <<scenario, agent, grant, link, conn>> /\ StaysGone
    BY <1>31 DEF CorrectCommit, idVars, StaysGone
  <2> QED
    BY <1>31, <2>1, CorrectCommitWalks DEF NoConsent, CutAt, Extracting
<1>32. CASE DeleteStage(s)
  <2>1. UNCHANGED <<scenario, agent, grant, link, conn>> /\ StaysGone
    BY <1>32 DEF DeleteStage, idVars, StaysGone
  <2> QED
    BY <1>32, <2>1, DeleteStageWalks DEF NoConsent, CutAt, Extracting
<1>33. CASE DeleteCommit(s)
  <2>1. UNCHANGED <<scenario, agent, grant, link, conn>> /\ StaysGone
    BY <1>33 DEF DeleteCommit, idVars, StaysGone
  <2> QED
    BY <1>33, <2>1, DeleteCommitWalks DEF NoConsent, CutAt, Extracting
<1> QED
  BY <1>1, <1>2, <1>3, <1>4, <1>5, <1>6, <1>7, <1>8, <1>9, <1>10, <1>11, <1>12, <1>13, <1>14, <1>15, <1>16, <1>17,
     <1>18, <1>19, <1>20, <1>21, <1>22, <1>23, <1>24, <1>25, <1>26, <1>27, <1>28, <1>29, <1>30, <1>31, <1>32,
     <1>33 DEF Step, Consents

LEMMA NoConsentKeeps ==
  ASSUME AllTypes, NEW s \in Slots, NoConsent(s), ConsentInv
  PROVE  ConsentTypes' /\ ConsentInv'
<1>1. ConsentTypes'
  BY DEF NoConsent, AllTypes, ConsentTypes
<1>2. OneOwner'
  BY DEF NoConsent, ConsentInv, OneOwner
<1>3. ASSUME NEW t \in Slots \ {s} PROVE CutAt(t)' /\ OwnerAt(t)'
  <2>1. /\ CutAt(t) /\ OwnerAt(t) /\ req'[t] = req[t] /\ ask(t)' = ask(t) /\ link' = link
        /\ (WriteGrant(t)' <=> WriteGrant(t))
    BY GrantStays DEF NoConsent, ConsentInv, Still, ask
  <2> QED
    BY <2>1 DEF CutAt, OwnerAt, Linked, NoConsent, StaysGone
<1>4. CutAt(s)' /\ OwnerAt(s)'
  BY DEF NoConsent, OwnerAt
<1> QED
  BY <1>1, <1>2, <1>3, <1>4 DEF ConsentInv

\* A step that leaves the grants and whose account it is.
LEMMA ConsentKeeps ==
  ASSUME NEW s \in Slots, ConsentInv, scenario' = scenario, Still(s), grant' = grant, link'.proxy = link.proxy,
         StaysGone,
         OneOwner', CutAt(s)', OwnerAt(s)'
  PROVE  ConsentInv'
<1>1. ASSUME NEW t \in Slots \ {s} PROVE CutAt(t)' /\ OwnerAt(t)'
  <2>1. CutAt(t) /\ OwnerAt(t) /\ req'[t] = req[t] /\ ask(t)' = ask(t) /\ (WriteGrant(t)' <=> WriteGrant(t))
    BY GrantStays DEF ConsentInv, Still, ask
  <2> QED
    BY <2>1 DEF CutAt, OwnerAt, Linked, StaysGone
<1> QED
  BY <1>1 DEF ConsentInv

\* A request that is not a job's is not cut off.
LEMMA NotCut ==
  ASSUME NEW s \in Slots, ConsentInv, req[s].pc \notin Extracting \cup {"done"}, req'[s].cut = req[s].cut
  PROVE  CutAt(s)' /\ ~req[s].cut
  BY DEF ConsentInv, CutAt

LEMMA LinkIs ==
  ASSUME AllTypes
  PROVE  /\ link \in Link /\ link.token \in Agents \cup {None, "used"} /\ link.oauth \in {0} \cup Users
         /\ link.proxy \in {0} \cup Users
  BY DEF AllTypes, ConsentTypes, Link

LEMMA LinkWrites ==
  ASSUME NEW l \in Link, NEW x
  PROVE  /\ \A k \in Agents \cup {None, "used"} : x = [l EXCEPT !.token = k] => x \in Link /\ x.proxy = l.proxy
         /\ \A k \in {0} \cup Users : x = [l EXCEPT !.oauth = k] => x \in Link /\ x.proxy = l.proxy
         /\ \A k \in {0} \cup Users : x = [l EXCEPT !.proxy = k] => x \in Link /\ x.proxy = k
  BY DEF Link

LEMMA GrantConsumeConsent ==
  ASSUME AllTypes, NEW s \in Slots, GrantConsume(s), ConsentInv
  PROVE  ConsentTypes' /\ ConsentInv'
<1>1. Walks(s, {"grant"}, {"check", "connect", "done"}) /\ PcOnly(s)
  BY GrantConsumeWalks
<1>2. UNCHANGED <<scenario, agent, grant, conn, user>>
  BY DEF GrantConsume, consentVars, idVars
<1>3. req'[s].pc = "check" => ~ask(s).link
  <2>1. CASE ask(s).link
    <3>1. PICK p \in {"connect", "done"} : Go(s, p)
      BY <2>1 DEF GrantConsume
    <3>2. p \in Pcs
      BY InPcs
    <3> QED
      BY <1>2, <3>1, <3>2, GoTo
  <2> QED
    BY <2>1
<1>4. link' \in Link /\ link'.proxy = link.proxy
  <2>1. PICK l, x : l = link /\ x = link'
    OBVIOUS
  <2>2. PICK k \in Agents \cup {None, "used"} : x = l \/ x = [l EXCEPT !.token = k]
    BY <2>1 DEF GrantConsume
  <2> QED
    BY <2>1, <2>2, LinkIs, LinkWrites
<1>5. ConsentTypes'
  BY <1>2, <1>4 DEF AllTypes, ConsentTypes
<1>6. CutAt(s)'
  BY <1>1, NotCut DEF Walks, PcOnly, Same, Extracting
<1>7. OwnerAt(s)'
  BY <1>1, <1>2, <1>3 DEF OwnerAt, Walks, ask
<1>8. OneOwner'
  BY <1>2, <1>4 DEF ConsentInv, OneOwner
<1> QED
  BY <1>1, <1>2, <1>4, <1>5, <1>6, <1>7, <1>8, ConsentKeeps DEF PcOnly, Same, Still, StaysGone

LEMMA GrantConnectConsent ==
  ASSUME AllTypes, NEW s \in Slots, GrantConnect(s), ConsentInv
  PROVE  ConsentTypes' /\ ConsentInv'
<1>1. /\ Walks(s, {"connect"}, {"check", "done"}) /\ Same(s) /\ req'[s].seen = (link.proxy # 0)
      /\ req'[s].pc = "check" => Connects(ask(s).who)
  BY GrantConnectWalks
<1>2. UNCHANGED <<scenario, agent, grant, conn, user, link>>
  BY DEF GrantConnect, consentVars, idVars, orgVars
<1>3. ConsentTypes'
  BY <1>2 DEF AllTypes, ConsentTypes
<1>4. CutAt(s)'
  BY <1>1, NotCut DEF Walks, Same, Extracting
<1>5. OwnerAt(s)'
  BY <1>1, <1>2 DEF OwnerAt, Walks, ask, Connects, Linked
<1>6. OneOwner'
  BY <1>2 DEF ConsentInv, OneOwner
<1> QED
  BY <1>1, <1>2, <1>3, <1>4, <1>5, <1>6, ConsentKeeps DEF Same, Still, StaysGone

LEMMA GrantCheckConsent ==
  ASSUME AllTypes, NEW s \in Slots, GrantCheck(s), ConsentInv
  PROVE  ConsentTypes' /\ ConsentInv'
<1>1. Walks(s, {"check"}, {"upsert", "done"}) /\ PcOnly(s)
  BY GrantCheckWalks
<1>2. UNCHANGED <<scenario, agent, grant, conn, user, link>>
  BY DEF GrantCheck, consentVars, idVars, orgVars
<1>3. ConsentTypes'
  BY <1>2 DEF AllTypes, ConsentTypes
<1>4. CutAt(s)'
  BY <1>1, NotCut DEF Walks, PcOnly, Same, Extracting
<1>5. OwnerAt(s)'
  <2>1. OwnerAt(s)
    BY DEF ConsentInv
  <2> QED
    BY <1>1, <1>2, <2>1 DEF OwnerAt, Walks, ask, PcOnly, Linked
<1>6. OneOwner'
  BY <1>2 DEF ConsentInv, OneOwner
<1> QED
  BY <1>1, <1>2, <1>3, <1>4, <1>5, <1>6, ConsentKeeps DEF PcOnly, Same, Still, StaysGone

LEMMA IssueLinkConsent ==
  ASSUME AllTypes, NEW s \in Slots, IssueLink(s), ConsentInv
  PROVE  ConsentTypes' /\ ConsentInv'
<1>1. Walks(s, {"new"}, {"done"}) /\ PcOnly(s)
  BY IssueLinkWalks
<1>2. UNCHANGED <<scenario, agent, grant, conn, user>> /\ ask(s).agent \in Agents
  BY RequestIs DEF IssueLink, consentVars, idVars, AllTypes, SlotTypes
<1>3. link' \in Link /\ link'.proxy = link.proxy
  <2>1. PICK l, x : l = link /\ x = link'
    OBVIOUS
  <2>2. x = l \/ x = [l EXCEPT !.token = ask(s).agent]
    BY <2>1 DEF IssueLink
  <2> QED
    BY <1>2, <2>1, <2>2, LinkIs, LinkWrites
<1>4. ConsentTypes'
  BY <1>2, <1>3 DEF AllTypes, ConsentTypes
<1>5. CutAt(s)'
  BY <1>1, NotCut DEF Walks, PcOnly, Same, Extracting
<1>6. OwnerAt(s)'
  BY <1>1 DEF OwnerAt, Walks
<1>7. OneOwner'
  BY <1>2, <1>3 DEF ConsentInv, OneOwner
<1> QED
  BY <1>1, <1>2, <1>3, <1>4, <1>5, <1>6, <1>7, ConsentKeeps DEF PcOnly, Same, Still, StaysGone

LEMMA OAuthInitiateConsent ==
  ASSUME AllTypes, NEW s \in Slots, OAuthInitiate(s), ConsentInv
  PROVE  ConsentTypes' /\ ConsentInv'
<1>1. Walks(s, {"oauth"}, {"done"}) /\ PcOnly(s)
  BY OAuthInitiateWalks
<1>2. UNCHANGED <<scenario, agent, grant, conn, user>> /\ ask(s).who \in {0} \cup Users
  BY RequestIs DEF OAuthInitiate, consentVars, idVars, AllTypes, SlotTypes
<1>3. link' \in Link /\ link'.proxy = link.proxy
  <2>1. PICK l, x : l = link /\ x = link'
    OBVIOUS
  <2>2. x = [l EXCEPT !.oauth = ask(s).who]
    BY <2>1 DEF OAuthInitiate
  <2> QED
    BY <1>2, <2>1, <2>2, LinkIs, LinkWrites
<1>4. ConsentTypes'
  BY <1>2, <1>3 DEF AllTypes, ConsentTypes
<1>5. CutAt(s)'
  BY <1>1, NotCut DEF Walks, PcOnly, Same, Extracting
<1>6. OwnerAt(s)'
  BY <1>1 DEF OwnerAt, Walks
<1>7. OneOwner'
  BY <1>2, <1>3 DEF ConsentInv, OneOwner
<1> QED
  BY <1>1, <1>2, <1>3, <1>4, <1>5, <1>6, <1>7, ConsentKeeps DEF PcOnly, Same, Still, StaysGone

LEMMA OAuthCallbackConsent ==
  ASSUME AllTypes, NEW s \in Slots, OAuthCallback(s), ConsentInv
  PROVE  ConsentTypes' /\ ConsentInv'
<1>1. /\ Walks(s, {"new", "provider"}, {"provider", "callback", "done"}) /\ Same(s)
      /\ req'[s].pc = "provider" => req'[s].n \in Users
      /\ req'[s].pc = "callback" => req'[s].n = req[s].n /\ Connects(req[s].n) /\ req'[s].seen = (link.proxy # 0)
  BY OAuthCallbackWalks
<1>2. UNCHANGED <<scenario, agent, grant, conn, user>>
  BY DEF OAuthCallback, consentVars, idVars
<1>3. link' \in Link /\ link'.proxy = link.proxy
  <2>1. PICK l, x : l = link /\ x = link'
    OBVIOUS
  <2>2. x = l \/ x = [l EXCEPT !.oauth = 0]
    BY <2>1 DEF OAuthCallback
  <2> QED
    BY <2>1, <2>2, LinkIs, LinkWrites
<1>4. ConsentTypes'
  BY <1>2, <1>3 DEF AllTypes, ConsentTypes
<1>5. CutAt(s)'
  BY <1>1, NotCut DEF Walks, Same, Extracting
<1>6. OwnerAt(s)'
  <2>1. OwnerAt(s)
    BY DEF ConsentInv
  <2>2. req'[s].pc = "callback" => req[s].pc = "provider"
    <3>1. CASE req[s].pc = "new"
      <4>1. PICK p \in {"done", "provider"} : GoNumber(s, p, link.oauth)
        BY <3>1 DEF OAuthCallback, Does
      <4>2. PICK n \in Nat : n = link.oauth
        BY LinkIs DEF Users
      <4>3. GoNumber(s, p, n) /\ p \in Pcs /\ req[s].pc \in {"new"} /\ p \in {"done", "provider"}
        BY <3>1, <4>1, <4>2, InPcs
      <4>4. Walks(s, {"new"}, {"done", "provider"})
        BY <1>2, <4>3, GoNumberWalks
      <4> QED
        BY <4>4 DEF Walks
    <3> QED
      BY <1>1, <3>1 DEF Walks
  <2> QED
    BY <1>1, <1>2, <1>3, <2>1, <2>2 DEF OwnerAt, Walks, Connects, Linked
<1>7. OneOwner'
  BY <1>2, <1>3 DEF ConsentInv, OneOwner
<1> QED
  BY <1>1, <1>2, <1>3, <1>4, <1>5, <1>6, <1>7, ConsentKeeps DEF Same, Still, StaysGone

LEMMA DisconnectConsent ==
  ASSUME AllTypes, NEW s \in Slots, Disconnect(s), ConsentInv
  PROVE  ConsentTypes' /\ ConsentInv'
<1>1. Walks(s, {"disconnect", "parting"}, {"parting", "done"}) /\ PcOnly(s)
  BY DisconnectWalks
<1>2. UNCHANGED <<scenario, agent, grant, link, user>> /\ ask(s).who \in Users /\ conn \in [Users -> Connection]
  BY RequestIs DEF Disconnect, consentVars, idVars, AllTypes, SlotTypes, ConsentTypes
<1>3. /\ conn' \in [Users -> Connection]
      /\ \A u \in Users : conn'[u].st = "active" => conn'[u] = conn[u]
  <2>1. CASE conn' = conn
    BY <1>2, <2>1
  <2>2. CASE conn' # conn
    <3>1. PICK x : x = [conn[ask(s).who] EXCEPT !.st = IF conn[ask(s).who].st = None THEN None ELSE "inactive"]
      OBVIOUS
    <3>2. x \in Connection /\ x.st # "active"
      <4>1. conn[ask(s).who] \in Connection
        BY <1>2
      <4> QED
        BY <3>1, <4>1 DEF Connection, None
    <3>3. conn' = [conn EXCEPT ![ask(s).who] = x]
      BY <1>2, <2>2, <3>1 DEF Disconnect
    <3> QED
      BY <1>2, <3>2, <3>3
  <2> QED
    BY <2>1, <2>2
<1>4. ConsentTypes'
  BY <1>2, <1>3 DEF AllTypes, ConsentTypes
<1>5. CutAt(s)'
  BY <1>1, NotCut DEF Walks, PcOnly, Same, Extracting
<1>6. OwnerAt(s)'
  BY <1>1 DEF OwnerAt, Walks
<1>7. OneOwner'
  BY <1>2, <1>3 DEF ConsentInv, OneOwner
<1> QED
  BY <1>1, <1>2, <1>3, <1>4, <1>5, <1>6, <1>7, ConsentKeeps DEF PcOnly, Same, Still, StaysGone

\* What the others have lost stays lost, unless the grant is given again.
CutKept(s) == \A t \in Slots \ {s} : req'[t].cut =>
  /\ req[t].cut \/ req[t].pc \in Extracting
  /\ req[t].pc \in Extracting => ~WriteGrant(t)'

LEMMA ConsentMoves ==
  ASSUME AllTypes, NEW s \in Slots, ConsentInv, scenario' = scenario, Others(s), CutKept(s), CutAt(s)',
         req'[s].pc \notin {"check", "upsert", "provider", "callback"},
         \A u \in Users : Linked(u) => Linked(u)', OneOwner'
  PROVE  ConsentInv'
<1>1. ASSUME NEW t \in Slots \ {s} PROVE CutAt(t)' /\ OwnerAt(t)'
  <2>1. /\ CutAt(t) /\ OwnerAt(t) /\ req'[t].pc = req[t].pc /\ req'[t].seen = req[t].seen /\ req'[t].n = req[t].n
        /\ ask(t)' = ask(t) /\ ask(t).who \in Users
    BY RequestIs DEF ConsentInv, Others, Alike, ask, AllTypes, SlotTypes
  <2>2. CutAt(t)'
    BY <2>1 DEF CutAt, CutKept
  <2>3. OwnerAt(t)'
    BY <2>1 DEF OwnerAt
  <2> QED
    BY <2>2, <2>3
<1>2. OwnerAt(s)'
  BY DEF OwnerAt
<1> QED
  BY <1>1, <1>2 DEF ConsentInv

LEMMA JobAgent ==
  ASSUME AllTypes, Standing, NEW t \in Slots, req[t].pc \in JobPcs, scenario' = scenario
  PROVE  payload(t).agent \in Agents /\ payload(t)' = payload(t)
<1>1. ask(t).op \in {"add", "deliver"} /\ scenario \in DOMAIN Scenarios
  BY DEF Standing, PlaceOK, AllTypes, SlotTypes
<1> QED
  BY <1>1, PayloadIs DEF payload, job, ask

LEMMA Severs ==
  ASSUME AllTypes, Standing, ConsentInv, NEW s \in Slots, NEW b \in BOOLEAN, CutAndDone(s, b), scenario' = scenario,
         req[s].pc \notin Extracting \cup {"done"}, \A x \in Agents \ {ask(s).agent} : grant'[x] = grant[x],
         b => grant'[ask(s).agent].st # "active" \/ ~grant'[ask(s).agent].rw
  PROVE  CutKept(s)
<1> SUFFICES ASSUME NEW t \in Slots \ {s}, req'[t].cut
             PROVE  /\ req[t].cut \/ req[t].pc \in Extracting
                    /\ req[t].pc \in Extracting => ~WriteGrant(t)'
  BY DEF CutKept
<1>1. req'[t].cut = IF req[t].pc \in Extracting /\ payload(t).agent = ask(s).agent THEN b ELSE req[t].cut
  <2>1. req[s].pc \in {req[s].pc} /\ req[s].pc \notin Extracting
    OBVIOUS
  <2> QED
    BY <2>1, CutAndDoneWalks
<1>2. ASSUME req[t].pc \in Extracting PROVE ~WriteGrant(t)'
  <2>1. payload(t).agent \in Agents /\ payload(t)' = payload(t)
    BY <1>2, JobAgent DEF Extracting, JobPcs
  <2>2. CASE payload(t).agent = ask(s).agent
    BY <1>1, <1>2, <2>1, <2>2 DEF WriteGrant, Current
  <2>3. CASE payload(t).agent # ask(s).agent
    <3>1. CutAt(t) /\ req[t].cut
      BY <1>1, <2>3 DEF ConsentInv
    <3>2. ~WriteGrant(t) /\ grant'[payload(t).agent] = grant[payload(t).agent]
      BY <1>2, <2>1, <2>3, <3>1 DEF CutAt
    <3> QED
      BY <2>1, <3>2 DEF WriteGrant, Current
  <2> QED
    BY <2>2, <2>3
<1> QED
  BY <1>1, <1>2

\* A step that gives nobody a grant and cuts nobody off.
LEMMA Spares ==
  ASSUME AllTypes, Standing, ConsentInv, NEW s \in Slots, Still(s), scenario' = scenario,
         \A x \in Agents : /\ grant'[x].st = "active" /\ ~grant'[x].late /\ grant'[x].rw
                           => grant[x].st = "active" /\ ~grant[x].late /\ grant[x].rw
  PROVE  CutKept(s)
<1> SUFFICES ASSUME NEW t \in Slots \ {s}, req'[t].cut
             PROVE  /\ req[t].cut \/ req[t].pc \in Extracting
                    /\ req[t].pc \in Extracting => ~WriteGrant(t)'
  BY DEF CutKept
<1>1. req[t].cut /\ CutAt(t)
  BY DEF Still, ConsentInv
<1>2. ASSUME req[t].pc \in Extracting PROVE ~WriteGrant(t)'
  <2>1. payload(t).agent \in Agents /\ payload(t)' = payload(t)
    BY <1>2, JobAgent DEF Extracting, JobPcs
  <2> QED
    BY <1>1, <1>2, <2>1 DEF CutAt, WriteGrant, Current
<1> QED
  BY <1>1, <1>2

\* The row of a grant.
LEMMA GrantIs ==
  ASSUME AllTypes, NEW a \in Agents
  PROVE  /\ grant \in [Agents -> Grant] /\ grant[a] \in Grant /\ grant[a].st \in {None, "active", "revoked"}
         /\ grant[a].rw \in BOOLEAN /\ grant[a].late \in BOOLEAN
  BY DEF AllTypes, ConsentTypes, Grant

\* Consent that concerns no organisation.
LEMMA GrantOnly ==
  ASSUME AllTypes, NEW s \in Slots, ConsentInv, UNCHANGED <<scenario, user, link, conn>>,
         grant' \in [Agents -> Grant],
         agent' \in [Agents -> BOOLEAN], Moved(s), CutKept(s), CutAt(s)',
         req'[s].pc \notin {"check", "upsert", "provider", "callback"}
  PROVE  ConsentTypes' /\ ConsentInv'
<1>1. OneOwner' /\ \A u \in Users : Linked(u) => Linked(u)'
  BY DEF ConsentInv, OneOwner, Linked
<1>2. ConsentTypes'
  BY DEF AllTypes, ConsentTypes
<1>3. Others(s)
  BY DEF Moved
<1> QED
  BY <1>1, <1>2, <1>3, ConsentMoves

LEMMA RowWritten ==
  ASSUME NEW g \in [Agents -> Grant], NEW a \in Agents, NEW r \in Grant, NEW h, h = [g EXCEPT ![a] = r]
  PROVE  h \in [Agents -> Grant] /\ h[a] = r /\ \A y \in Agents \ {a} : h[y] = g[y]
  OBVIOUS

LEMMA NarrowedRow ==
  ASSUME NEW g \in [Agents -> Grant], NEW a \in Agents, NEW z \in SUBSET Categories, NEW h,
         h = [g EXCEPT ![a].cats = z]
  PROVE  /\ h \in [Agents -> Grant] /\ h[a].st = g[a].st /\ h[a].rw = g[a].rw /\ h[a].late = g[a].late
         /\ \A x \in Agents \ {a} : h[x] = g[x]
<1>1. PICK r : r = [g[a] EXCEPT !.cats = z]
  OBVIOUS
<1>2. r \in Grant /\ r.st = g[a].st /\ r.rw = g[a].rw /\ r.late = g[a].late
  <2>1. g[a] \in Grant
    OBVIOUS
  <2> QED
    BY <1>1, <2>1 DEF Grant
<1>3. h = [g EXCEPT ![a] = r]
  BY <1>1
<1> QED
  BY <1>2, <1>3

LEMMA LateRow ==
  ASSUME NEW g \in [Agents -> Grant], NEW a \in Agents, NEW h, h = [g EXCEPT ![a].late = TRUE]
  PROVE  /\ h \in [Agents -> Grant] /\ h[a].late
         /\ \A x \in Agents \ {a} : h[x] = g[x]
<1>1. PICK r : r = [g[a] EXCEPT !.late = TRUE]
  OBVIOUS
<1>2. r \in Grant /\ r.late
  <2>1. g[a] \in Grant
    OBVIOUS
  <2> QED
    BY <1>1, <2>1 DEF Grant
<1>3. h = [g EXCEPT ![a] = r]
  BY <1>1
<1> QED
  BY <1>2, <1>3

LEMMA RevokeConsent ==
  ASSUME AllTypes, Standing, NEW s \in Slots, RevokeGrant(s), ConsentInv
  PROVE  ConsentTypes' /\ ConsentInv'
<1> DEFINE a == ask(s).agent
<1>1. /\ Walks(s, {"revoke", "revoking"}, {"revoking", "done"}) /\ req'[s].cut = req[s].cut
      /\ req[s].pc \notin Extracting \cup {"done"}
  BY RevokeWalks DEF Walks, Extracting
<1>2. UNCHANGED <<scenario, agent, link, conn, user>> /\ a \in Agents /\ agent \in [Agents -> BOOLEAN]
  BY RequestIs DEF RevokeGrant, orgVars, idVars, AllTypes, SlotTypes, ConsentTypes
<1>3. /\ grant \in [Agents -> Grant] /\ grant[a].st \in {None, "active", "revoked"}
  BY <1>2, GrantIs
<1> HIDE DEF a
<1>4. CASE Does(s, "revoking") /\ grant[a].st # None /\ req[s].seen
  <2>1. CutAndDone(s, TRUE) /\ grant' = [grant EXCEPT ![a].st = "revoked", ![a].marked = TRUE]
    BY <1>4 DEF RevokeGrant, Does, a
  <2>2. PICK g, h : g = grant /\ h = grant'
    OBVIOUS
  <2>3. h \in [Agents -> Grant] /\ h[a].st = "revoked" /\ \A x \in Agents \ {a} : h[x] = g[x]
    <3>1. PICK z \in {None, "active", "revoked"} : z = "revoked"
      OBVIOUS
    <3>2. h = [g EXCEPT ![a].st = z, ![a].marked = TRUE] /\ g \in [Agents -> Grant] /\ a \in Agents
      BY <1>2, <1>3, <2>1, <2>2, <3>1
    <3>3. PICK x, r : x = g[a] /\ r = [x EXCEPT !.st = z, !.marked = TRUE]
      OBVIOUS
    <3>4. h = [g EXCEPT ![a] = r]
      BY <3>2, <3>3
    <3>5. x \in Grant
      BY <3>2, <3>3
    <3>6. r \in Grant /\ r.st = z
      BY <3>3, <3>5 DEF Grant
    <3>7. g \in [Agents -> Grant] /\ a \in Agents
      BY <3>2
    <3> QED
      BY <3>1, <3>4, <3>6, <3>7, RowWritten
  <2>4. CutKept(s)
    BY <1>1, <1>2, <2>1, <2>2, <2>3, Severs DEF a
  <2> QED
    BY <1>1, <1>2, <2>2, <2>3, <2>4, NotCut, GrantOnly DEF Walks
<1>5. CASE ~(Does(s, "revoking") /\ grant[a].st # None /\ req[s].seen)
  <2>1. Still(s)
    <3>1. (\E p \in {"revoking", "done"}, b \in BOOLEAN : GoSeen(s, p, b)) \/ Go(s, "done")
      BY <1>5 DEF RevokeGrant, Done, a
    <3>2. {"revoking", "done"} \subseteq Pcs /\ req[s].pc \in {req[s].pc}
      BY InPcs
    <3>3. ASSUME NEW p \in {"revoking", "done"}, NEW b \in BOOLEAN, GoSeen(s, p, b) PROVE Still(s)
      <4>1. Walks(s, {req[s].pc}, {p}) /\ Same(s)
        BY <1>2, <3>2, <3>3, GoSeenWalks
      <4> QED
        BY <4>1 DEF Same, Still
    <3>4. CASE Go(s, "done")
      <4>1. Walks(s, {req[s].pc}, {"done"}) /\ PcOnly(s)
        BY <1>2, <3>2, <3>4, GoWalks
      <4> QED
        BY <4>1 DEF PcOnly, Same, Still
    <3> QED
      BY <3>1, <3>3, <3>4
  <2>2. PICK g, h : g = grant /\ h = grant'
    OBVIOUS
  <2>3. h = g \/ h = [g EXCEPT ![a].st = g[a].st, ![a].marked = TRUE]
    BY <1>5, <2>2 DEF RevokeGrant, a
  <2>4. /\ h \in [Agents -> Grant] /\ h[a].st = g[a].st /\ h[a].rw = g[a].rw /\ h[a].late = g[a].late
        /\ \A x \in Agents \ {a} : h[x] = g[x]
    <3>1. PICK z \in {None, "active", "revoked"} : z = g[a].st
      BY <1>3, <2>2
    <3>2. h = g \/ h = [g EXCEPT ![a].st = z, ![a].marked = TRUE]
      BY <2>3, <3>1
    <3>3. g \in [Agents -> Grant] /\ a \in Agents
      BY <1>2, <1>3, <2>2
    <3>4. CASE h = [g EXCEPT ![a].st = z, ![a].marked = TRUE]
      <4>1. PICK x, r : x = g[a] /\ r = [x EXCEPT !.st = z, !.marked = TRUE]
        OBVIOUS
      <4>2. h = [g EXCEPT ![a] = r]
        BY <3>4, <4>1
      <4>3. x \in Grant
        BY <3>3, <4>1
      <4>4. r \in Grant /\ r.st = z /\ r.rw = x.rw /\ r.late = x.late
        BY <4>1, <4>3 DEF Grant
      <4> QED
        BY <3>1, <3>3, <4>1, <4>2, <4>4, RowWritten
    <3> QED
      BY <3>2, <3>3, <3>4
  <2>5. CutKept(s)
    BY <1>2, <2>1, <2>2, <2>4, Spares
  <2> QED
    BY <1>1, <1>2, <2>2, <2>4, <2>5, NotCut, GrantOnly DEF Walks
<1> QED
  BY <1>4, <1>5

LEMMA NarrowConsent ==
  ASSUME AllTypes, Standing, NEW s \in Slots, Narrow(s), ConsentInv
  PROVE  ConsentTypes' /\ ConsentInv'
<1> DEFINE a == ask(s).agent
<1>1. /\ Walks(s, {"narrow", "narrowing"}, {"narrowing", "done"}) /\ PcOnly(s)
      /\ req[s].pc \notin Extracting \cup {"done"}
  BY NarrowWalks DEF Walks, Extracting
<1>2. UNCHANGED <<scenario, agent, link, conn, user>> /\ a \in Agents /\ agent \in [Agents -> BOOLEAN]
  BY RequestIs DEF Narrow, orgVars, idVars, AllTypes, SlotTypes, ConsentTypes
<1>3. grant \in [Agents -> Grant] /\ ask(s).cats \in SUBSET Categories
  BY <1>2, GrantIs, RequestIs DEF AllTypes, SlotTypes
<1>4. PICK g, h : g = grant /\ h = grant'
  OBVIOUS
<1>5. h = g \/ h = [g EXCEPT ![a].cats = ask(s).cats]
  BY <1>4 DEF Narrow
<1> HIDE DEF a
<1>6. /\ h \in [Agents -> Grant] /\ h[a].st = g[a].st /\ h[a].rw = g[a].rw /\ h[a].late = g[a].late
      /\ \A x \in Agents \ {a} : h[x] = g[x]
  BY <1>2, <1>3, <1>4, <1>5, NarrowedRow
<1>7. CutKept(s)
  BY <1>1, <1>2, <1>4, <1>6, Spares DEF PcOnly, Same, Still
<1> QED
  BY <1>1, <1>2, <1>4, <1>6, <1>7, NotCut, GrantOnly DEF Walks, PcOnly, Same

LEMMA RetireConsent ==
  ASSUME AllTypes, Standing, NEW s \in Slots, Retire(s), ConsentInv
  PROVE  ConsentTypes' /\ ConsentInv'
<1> DEFINE a == ask(s).agent
<1>1. /\ Walks(s, {"new", "retiring"}, {"retiring", "done"}) /\ req'[s].cut = req[s].cut
      /\ req[s].pc \notin Extracting \cup {"done"}
  BY RetireWalks DEF Walks, Extracting
<1>2. UNCHANGED <<scenario, link, conn, user>> /\ a \in Agents /\ agent' \in [Agents -> BOOLEAN]
  BY RequestIs DEF Retire, orgVars, consentVars, idVars, AllTypes, SlotTypes, ConsentTypes
<1>3. /\ grant \in [Agents -> Grant] /\ grant[a].st \in {None, "active", "revoked"}
  BY <1>2, GrantIs
<1>4. PICK g, h : g = grant /\ h = grant'
  OBVIOUS
<1> HIDE DEF a
<1>5. CASE Does(s, "retiring") /\ req[s].seen
  <2>1. CutAndDone(s, TRUE) /\ h = IF g[a].st # None THEN [g EXCEPT ![a].st = "revoked", ![a].marked = TRUE] ELSE g
    BY <1>4, <1>5 DEF Retire, Does, Begin, a
  <2>2. h \in [Agents -> Grant] /\ h[a].st \in {None, "revoked"} /\ \A x \in Agents \ {a} : h[x] = g[x]
    <3>1. PICK z \in {None, "active", "revoked"} : z = "revoked"
      OBVIOUS
    <3>2. g \in [Agents -> Grant] /\ a \in Agents /\ g[a].st \in {None, "active", "revoked"}
      BY <1>2, <1>3, <1>4
    <3>3. CASE g[a].st = None
      BY <2>1, <3>2, <3>3
    <3>4. CASE g[a].st # None
      <4>1. h = [g EXCEPT ![a].st = z, ![a].marked = TRUE]
        BY <2>1, <3>1, <3>4
      <4>2. PICK x, r : x = g[a] /\ r = [x EXCEPT !.st = z, !.marked = TRUE]
        OBVIOUS
      <4>3. h = [g EXCEPT ![a] = r]
        BY <4>1, <4>2
      <4>4. x \in Grant
        BY <3>2, <4>2
      <4>5. r \in Grant /\ r.st = z
        BY <4>2, <4>4 DEF Grant
      <4> QED
        BY <3>1, <3>2, <4>3, <4>5, RowWritten
    <3> QED
      BY <3>3, <3>4
  <2>3. CutKept(s)
    BY <1>1, <1>2, <1>4, <2>1, <2>2, Severs DEF a, None
  <2> QED
    BY <1>1, <1>2, <1>4, <2>2, <2>3, NotCut, GrantOnly DEF Walks
<1>6. CASE ~(Does(s, "retiring") /\ req[s].seen)
  <2>1. Still(s)
    <3>1. (\E b \in BOOLEAN : GoSeen(s, "retiring", b)) \/ Go(s, "done")
      BY <1>6 DEF Retire, Done, a
    <3>2. {"retiring", "done"} \subseteq Pcs /\ req[s].pc \in {req[s].pc}
      BY InPcs
    <3>3. ASSUME NEW b \in BOOLEAN, GoSeen(s, "retiring", b) PROVE Still(s)
      <4>1. Walks(s, {req[s].pc}, {"retiring"}) /\ Same(s)
        BY <1>2, <3>2, <3>3, GoSeenWalks
      <4> QED
        BY <4>1 DEF Same, Still
    <3>4. CASE Go(s, "done")
      <4>1. Walks(s, {req[s].pc}, {"done"}) /\ PcOnly(s)
        BY <1>2, <3>2, <3>4, GoWalks
      <4> QED
        BY <4>1 DEF PcOnly, Same, Still
    <3> QED
      BY <3>1, <3>3, <3>4
  <2>2. h = g
    BY <1>4, <1>6 DEF Retire, consentVars
  <2>3. CutKept(s)
    BY <1>2, <1>4, <2>1, <2>2, Spares
  <2> QED
    BY <1>1, <1>2, <1>3, <1>4, <2>2, <2>3, NotCut, GrantOnly DEF Walks
<1> QED
  BY <1>5, <1>6

\* Linking the account to a user it is free for.
LEMMA ConnectKeeps ==
  ASSUME AllTypes, OneOwner, NEW u \in Users, Connect(u), link.proxy \in {0, u}, user' = user
  PROVE  /\ link' \in Link /\ conn' \in [Users -> Connection] /\ OneOwner'
         /\ \A v \in Users : Linked(v) => Linked(v)'
<1>1. link' \in Link /\ link'.proxy = u
  <2>1. PICK l, x, k : l = link /\ x = link' /\ k = IF link.proxy = 0 THEN u ELSE link.proxy
    OBVIOUS
  <2>2. x = [l EXCEPT !.proxy = k] /\ k = u /\ k \in {0} \cup Users
    BY <2>1 DEF Connect
  <2> QED
    BY <2>1, <2>2, LinkIs, LinkWrites
<1>2. PICK r : r = [st |-> "active", proxy |-> TRUE]
  OBVIOUS
<1>3. r \in Connection
  BY <1>2 DEF Connection
<1>4. conn \in [Users -> Connection] /\ conn' = [conn EXCEPT ![u] = r]
  BY <1>2 DEF AllTypes, ConsentTypes, Connect
<1>5. conn' \in [Users -> Connection] /\ \A v \in Users \ {u} : conn'[v] = conn[v]
  BY <1>3, <1>4
<1>6. 0 \notin Users
  BY DEF Users
<1>7. OneOwner'
  BY <1>1, <1>5, <1>6 DEF OneOwner
<1>8. \A v \in Users : Linked(v) => Linked(v)'
  BY <1>1, <1>6 DEF Linked
<1> QED
  BY <1>1, <1>5, <1>7, <1>8

LEMMA OrgsStay ==
  ASSUME AllTypes, OneOwner, UNCHANGED <<link, conn, user>>
  PROVE  /\ link' \in Link /\ conn' \in [Users -> Connection] /\ OneOwner'
         /\ \A v \in Users : Linked(v) => Linked(v)'
  BY DEF AllTypes, ConsentTypes, OneOwner, Linked

LEMMA OAuthCommitConsent ==
  ASSUME AllTypes, Standing, NEW s \in Slots, OAuthCommit(s), ConsentInv
  PROVE  ConsentTypes' /\ ConsentInv'
<1>1. /\ Walks(s, {"callback"}, {"done"}) /\ PcOnly(s) /\ req[s].pc \notin Extracting \cup {"done"}
  BY OAuthCommitWalks DEF Walks, Extracting
<1>2. UNCHANGED <<scenario, agent, grant, user>>
  BY DEF OAuthCommit, consentVars, idVars
<1>3. req[s].n \in Users /\ (req[s].seen => Linked(req[s].n)) /\ OneOwner
  BY <1>1 DEF Walks, ConsentInv, OwnerAt
<1>4. /\ link' \in Link /\ conn' \in [Users -> Connection] /\ OneOwner'
      /\ \A v \in Users : Linked(v) => Linked(v)'
  <2>1. CASE UNCHANGED <<link, conn>>
    BY <1>2, <1>3, <2>1, OrgsStay
  <2>2. CASE ~UNCHANGED <<link, conn>>
    <3>1. Connect(req[s].n) /\ ~(req[s].n = 1 /\ ~Alive) /\ ~Refused(s)
      BY <2>2 DEF OAuthCommit, orgVars
    <3>2. link.proxy \in {0, req[s].n}
      BY <1>3, <3>1 DEF Refused, Linked, Alive
    <3> QED
      BY <1>2, <1>3, <3>1, <3>2, ConnectKeeps
  <2> QED
    BY <2>1, <2>2
<1>5. CutKept(s)
  BY <1>1, <1>2, Spares DEF PcOnly, Same, Still
<1>6. CutAt(s)'
  BY <1>1, NotCut DEF PcOnly, Same
<1>7. ConsentInv'
  BY <1>1, <1>2, <1>4, <1>5, <1>6, ConsentMoves DEF Walks, Moved
<1>8. ConsentTypes'
  BY <1>2, <1>4 DEF AllTypes, ConsentTypes
<1> QED
  BY <1>7, <1>8

LEMMA GrantUpsertConsent ==
  ASSUME AllTypes, Standing, NEW s \in Slots, GrantUpsert(s), ConsentInv
  PROVE  ConsentTypes' /\ ConsentInv'
<1> DEFINE a == ask(s).agent
<1>1. /\ Walks(s, {"upsert"}, {"done"}) /\ req'[s].cut = req[s].cut /\ req[s].pc \notin Extracting \cup {"done"}
  BY GrantUpsertWalks DEF Walks, Extracting
<1>2. UNCHANGED <<scenario, agent, user>>
  BY DEF GrantUpsert, idVars
<1>3. /\ ask(s).who \in Users /\ a \in Agents /\ ask(s).cats \in SUBSET Categories /\ ask(s).rw \in BOOLEAN
      /\ (ask(s).link /\ req[s].seen => Linked(ask(s).who)) /\ OneOwner /\ grant \in [Agents -> Grant]
  BY <1>1, RequestIs DEF Walks, ConsentInv, OwnerAt, AllTypes, SlotTypes, ConsentTypes
<1>4. /\ link' \in Link /\ conn' \in [Users -> Connection] /\ OneOwner'
      /\ \A v \in Users : Linked(v) => Linked(v)'
  <2>1. CASE UNCHANGED <<link, conn>>
    BY <1>2, <1>3, <2>1, OrgsStay
  <2>2. CASE ~UNCHANGED <<link, conn>>
    <3>1. Connect(ask(s).who) /\ ~(ask(s).who = 1 /\ ~Alive) /\ ~Refused(s) /\ ask(s).link
      BY <2>2 DEF GrantUpsert, orgVars
    <3>2. link.proxy \in {0, ask(s).who}
      BY <1>3, <3>1 DEF Refused, Linked, Alive
    <3> QED
      BY <1>2, <1>3, <3>1, <3>2, ConnectKeeps
  <2> QED
    BY <2>1, <2>2
<1> HIDE DEF a
<1>5. CutKept(s) /\ grant' \in [Agents -> Grant]
  <2>1. CASE Go(s, "done") /\ grant' = grant
    <3>1. "done" \in Pcs /\ req[s].pc \in {"upsert"}
      BY <1>1, InPcs DEF Walks
    <3>2. Walks(s, {"upsert"}, {"done"}) /\ PcOnly(s)
      BY <1>2, <2>1, <3>1, GoWalks
    <3> QED
      BY <1>2, <1>3, <2>1, <3>2, Spares DEF PcOnly, Same, Still
  <2>2. CASE ~(Go(s, "done") /\ grant' = grant)
    <3>1. PICK g, h : g = grant /\ h = grant'
      OBVIOUS
    <3>2. PICK r : r = [st |-> "active", rw |-> ask(s).rw, cats |-> ask(s).cats, late |-> FALSE, marked |-> FALSE]
      OBVIOUS
    <3>3. CutAndDone(s, ~ask(s).rw) /\ h = [g EXCEPT ![a] = r]
      BY <2>2, <3>1, <3>2 DEF GrantUpsert, Done, a
    <3>4. r \in Grant /\ r.rw = ask(s).rw
      BY <1>3, <3>2 DEF Grant
    <3>5. h \in [Agents -> Grant] /\ h[a] = r /\ \A y \in Agents \ {a} : h[y] = g[y]
      BY <1>3, <3>1, <3>3, <3>4, RowWritten
    <3>6. PICK b \in BOOLEAN : b = ~ask(s).rw
      BY <1>3
    <3>7. CutAndDone(s, b) /\ (b => ~grant'[ask(s).agent].rw) /\ \A x \in Agents \ {ask(s).agent} : grant'[x] = grant[x]
      BY <3>1, <3>3, <3>4, <3>5, <3>6 DEF a
    <3>8. CutKept(s)
      BY <1>1, <1>2, <3>7, Severs
    <3> QED
      BY <3>1, <3>5, <3>8
  <2> QED
    BY <2>1, <2>2
<1>6. CutAt(s)'
  BY <1>1, NotCut
<1>7. ConsentInv'
  BY <1>1, <1>2, <1>4, <1>5, <1>6, ConsentMoves DEF Walks, Moved
<1>8. ConsentTypes'
  BY <1>2, <1>4, <1>5 DEF AllTypes, ConsentTypes
<1> QED
  BY <1>7, <1>8

LEMMA EraseConsent ==
  ASSUME AllTypes, Standing, NEW s \in Slots, Erase(s), ConsentInv
  PROVE  ConsentTypes' /\ ConsentInv'
<1>1. Moved(s) /\ Still(s) /\ req'[s].pc \in {"ids", "wipe", "uncache", "done"} /\ req'[s].cut = req[s].cut
      /\ req[s].pc \notin Extracting \cup {"done"}
  BY EraseWalks DEF Walks, PcOnly, Same, Extracting, Still
<1>2. UNCHANGED <<scenario, agent>> /\ agent \in [Agents -> BOOLEAN] /\ OneOwner
  BY DEF Erase, consentVars, AllTypes, ConsentTypes, ConsentInv
<1>3. CutAt(s)'
  BY <1>1, NotCut
<1>4. CASE user' = user /\ UNCHANGED <<grant, link, conn>>
  <2>1. /\ link' \in Link /\ conn' \in [Users -> Connection] /\ OneOwner'
        /\ \A v \in Users : Linked(v) => Linked(v)'
    BY <1>2, <1>4, OrgsStay
  <2>2. CutKept(s)
    BY <1>1, <1>2, <1>4, Spares
  <2>3. grant' \in [Agents -> Grant]
    BY <1>4 DEF AllTypes, ConsentTypes
  <2> QED
    BY <1>1, <1>2, <1>3, <2>1, <2>2, <2>3, ConsentMoves DEF ConsentTypes, Moved
<1>5. CASE ~(user' = user /\ UNCHANGED <<grant, link, conn>>)
  <2>1. /\ user' = [user EXCEPT !.st = "gone"]
        /\ grant' = [a \in Agents |-> [grant[a] EXCEPT !.st = None]]
        /\ conn' = [conn EXCEPT ![1] = [st |-> None, proxy |-> FALSE]]
        /\ link' = [link EXCEPT !.proxy = IF @ = 1 THEN 0 ELSE @]
    BY <1>5 DEF Erase, consentVars, orgVars
  <2>2. user'.st = "gone"
    BY <2>1 DEF AllTypes, AccountTypes, User
  <2>3. grant' \in [Agents -> Grant] /\ \A x \in Agents : grant'[x].st # "active"
    <3>1. ASSUME NEW x \in Agents
          PROVE  [grant[x] EXCEPT !.st = None] \in Grant /\ [grant[x] EXCEPT !.st = None].st # "active"
      <4>1. PICK r : r = grant[x]
        OBVIOUS
      <4>2. r \in Grant
        BY <4>1, GrantIs
      <4>3. [r EXCEPT !.st = None] \in Grant /\ [r EXCEPT !.st = None].st # "active"
        BY <4>2 DEF Grant, None
      <4> QED
        BY <4>1, <4>3
    <3> QED
      BY <2>1, <3>1
  <2>4. link' \in Link /\ link'.proxy = IF link.proxy = 1 THEN 0 ELSE link.proxy
    <3>1. PICK l, x, k : l = link /\ x = link' /\ k = IF link.proxy = 1 THEN 0 ELSE link.proxy
      OBVIOUS
    <3>2. x = [l EXCEPT !.proxy = k] /\ k \in {0} \cup Users
      BY <2>1, <3>1, LinkIs
    <3> QED
      BY <3>1, <3>2, LinkIs, LinkWrites
  <2>5. conn' \in [Users -> Connection] /\ conn'[1].st # "active" /\ \A v \in Users \ {1} : conn'[v] = conn[v]
    <3>1. PICK r : r = [st |-> None, proxy |-> FALSE]
      OBVIOUS
    <3>2. r \in Connection /\ r.st # "active"
      BY <3>1 DEF Connection, None
    <3>3. conn \in [Users -> Connection] /\ conn' = [conn EXCEPT ![1] = r] /\ 1 \in Users
      BY <2>1, <3>1 DEF AllTypes, ConsentTypes, Users
    <3> QED
      BY <3>2, <3>3
  <2>6. OneOwner'
    BY <1>2, <2>4, <2>5 DEF OneOwner
  <2>7. \A v \in Users : Linked(v) => Linked(v)'
    BY <2>2, <2>4 DEF Linked
  <2>8. CutKept(s)
    BY <1>1, <1>2, <2>3, Spares
  <2> QED
    BY <1>1, <1>2, <1>3, <2>3, <2>4, <2>5, <2>6, <2>7, <2>8, ConsentMoves DEF ConsentTypes, Moved
<1> QED
  BY <1>4, <1>5

LEMMA ConsentStep ==
  ASSUME AllTypes, Standing, ConsentInv, NEW s \in Slots, Step(s)
  PROVE  ConsentTypes' /\ ConsentInv'
<1>1. NoConsent(s) \/ Consents(s)
  <2>1. CutAt(s)
    BY DEF ConsentInv
  <2> QED
    BY <2>1, StepConsents
<1>2. CASE NoConsent(s)
  BY <1>2, NoConsentKeeps
<1>3. CASE Consents(s)
  BY <1>3, GrantConsumeConsent, GrantConnectConsent, GrantCheckConsent, GrantUpsertConsent, RevokeConsent,
     NarrowConsent,
     RetireConsent, IssueLinkConsent, OAuthInitiateConsent, OAuthCallbackConsent, OAuthCommitConsent, DisconnectConsent,
     EraseConsent DEF Consents
<1> QED
  BY <1>1, <1>2, <1>3

\* An expiry cuts the agent's jobs off and moves nobody.
LEMMA ExpireConsent ==
  ASSUME AllTypes, Standing, NEW a \in Agents, ExpireGrant(a), ConsentInv
  PROVE  /\ ConsentTypes' /\ ConsentInv' /\ req' \in [Slots -> Local]
         /\ \A t \in Slots : Alike(req'[t], req[t])
<1>1. UNCHANGED <<scenario, user, agent, link, conn>> /\ req \in [Slots -> Local]
  BY DEF ExpireGrant, idVars, orgVars, AllTypes, SlotTypes
<1>2. PICK g, h : g = grant /\ h = grant'
  OBVIOUS
<1>3. h \in [Agents -> Grant] /\ h[a].late /\ \A x \in Agents \ {a} : h[x] = g[x]
  <2>1. g \in [Agents -> Grant] /\ h = [g EXCEPT ![a].late = TRUE]
    BY <1>2, GrantIs DEF ExpireGrant
  <2> QED
    BY <2>1, LateRow
<1>4. /\ req' \in [Slots -> Local]
      /\ \A t \in Slots : /\ Alike(req'[t], req[t])
                          /\ req'[t].cut = IF req[t].pc \in Extracting /\ payload(t).agent = a THEN TRUE ELSE req[t].cut
  <2>1. PICK b \in BOOLEAN : b = TRUE
    OBVIOUS
  <2>2. req' = CutOff(a, b)
    BY <2>1 DEF ExpireGrant
  <2>3. PICK f : f = CutOff(a, b)
    OBVIOUS
  <2>4. /\ f \in [Slots -> Local]
        /\ \A t \in Slots : /\ Alike(f[t], req[t])
                            /\ f[t].cut = IF req[t].pc \in Extracting /\ payload(t).agent = a THEN b ELSE req[t].cut
    BY <1>1, <2>3, CutOffIs
  <2> QED
    BY <2>1, <2>2, <2>3, <2>4
<1>5. ASSUME NEW t \in Slots PROVE CutAt(t)' /\ OwnerAt(t)'
  <2>1. /\ CutAt(t) /\ OwnerAt(t) /\ ask(t)' = ask(t) /\ req'[t].pc = req[t].pc /\ req'[t].seen = req[t].seen
        /\ req'[t].n = req[t].n
    BY <1>1, <1>4 DEF ConsentInv, ask, Alike
  <2>2. OwnerAt(t)'
    BY <1>1, <2>1 DEF OwnerAt, Linked
  <2>3. ASSUME req'[t].cut, req[t].pc \in Extracting PROVE ~WriteGrant(t)'
    <3>1. payload(t).agent \in Agents /\ payload(t)' = payload(t)
      BY <1>1, <2>3, JobAgent DEF Extracting, JobPcs
    <3>2. CASE payload(t).agent = a
      BY <1>2, <1>3, <3>1, <3>2 DEF WriteGrant, Current
    <3>3. CASE payload(t).agent # a
      <4>1. ~WriteGrant(t) /\ grant'[payload(t).agent] = grant[payload(t).agent]
        BY <1>2, <1>3, <1>4, <2>1, <2>3, <3>1, <3>3 DEF CutAt
      <4> QED
        BY <3>1, <4>1 DEF WriteGrant, Current
    <3> QED
      BY <3>2, <3>3
  <2>4. CutAt(t)'
    BY <1>4, <2>1, <2>3 DEF CutAt
  <2> QED
    BY <2>2, <2>4
<1>6. OneOwner' /\ ConsentTypes'
  BY <1>1, <1>2, <1>3 DEF ConsentInv, OneOwner, AllTypes, ConsentTypes
<1> QED
  BY <1>4, <1>5, <1>6 DEF ConsentInv

\* Nothing of the account depends on who was cut off.
LEMMA UnmovedAccount ==
  ASSUME AllTypes, Standing, Opened, AccountInv, UNCHANGED <<scenario, user, cached, otp, mixed>>,
         events' \in {events, events + 1}, \A t \in Slots : Alike(req'[t], req[t])
  PROVE  AccountTypes' /\ Opened' /\ AccountInv' /\ Standing'
<1>1. \A t \in Slots : /\ req'[t].pc = req[t].pc /\ req'[t].tok = req[t].tok
                       /\ req'[t].tries = req[t].tries /\ ask(t)' = ask(t)
  BY DEF Alike, ask
<1>2. AccountTypes' /\ events \in Nat
  BY DEF AllTypes, AccountTypes
<1>3. UnderWay' = UnderWay /\ Sending' = Sending
  BY <1>1 DEF UnderWay, Sending, Sends
<1>4. ASSUME NEW P PROVE Are(P)' = Are(P)
  BY <1>1 DEF Are
<1>5. Opened' /\ Standing'
  BY <1>1, <1>3 DEF Opened, Standing
<1>7. Counted'
  <2>1. otp' = otp /\ Are({"count"})' = Are({"count"}) /\ Are({"count", "bar"})' = Are({"count", "bar"})
        /\ Are({"compare"})' = Are({"compare"}) /\ Sending' = Sending
    BY <1>3, <1>4
  <2>2. PICK c, cb, e : c = Cardinality(Are({"count"})) /\ cb = Cardinality(Are({"count", "bar"}))
                        /\ e = Cardinality(Are({"compare"}))
    OBVIOUS
  <2>3. c \in Nat /\ cb \in Nat /\ e \in Nat
    <3>1. \A P : Are(P) \in SUBSET Slots
      BY DEF Are
    <3> QED
      BY <2>2, <3>1, SizeOf
  <2>4. /\ otp.guesses \in Nat /\ otp.fails \in Nat /\ OtpLimit \in Nat /\ MaxOpen \in Nat
    BY PassportAssumption DEF AllTypes, AccountTypes, Otp
  <2>5. SentCount' /\ (FailCount => FailCount') /\ (LockCount => LockCount') /\ (GuessCount => GuessCount')
    <3>1. SentCount'
      BY <2>1 DEF AccountInv, Counted, SentCount
    <3>2. FailCount => FailCount'
      BY <1>2, <2>1, <2>2, <2>3, <2>4 DEF FailCount
    <3>3. LockCount => LockCount'
      BY <1>2, <2>1, <2>2, <2>3, <2>4 DEF LockCount
    <3>4. GuessCount => GuessCount'
      BY <1>2, <2>1, <2>2, <2>3, <2>4 DEF GuessCount
    <3> QED
      BY <3>1, <3>2, <3>3, <3>4
  <2> QED
    BY <2>5 DEF AccountInv, Counted
<1>8. Unborn'
  BY <1>1 DEF AccountInv, Unborn
<1>9. TokenHeld'
  <2>1. InForce' => InForce
    BY <1>2 DEF InForce
  <2>2. Publishing' <=> Publishing
    BY <1>1 DEF Publishing
  <2>3. \A t \in Slots : TokenAt(t) => TokenAt(t)'
    BY <1>1, <2>2 DEF TokenAt
  <2>4. OneSwap => OneSwap'
    BY <1>1 DEF OneSwap
  <2> QED
    BY <2>1, <2>3, <2>4 DEF AccountInv, TokenHeld
<1> QED
  BY <1>2, <1>5, <1>7, <1>8, <1>9 DEF AccountInv

LEMMA StandingStep ==
  ASSUME Standing, NEW s \in Slots, Admits(s)
  PROVE  Standing'
  BY DEF Standing, Admits, Moved, Others, Alike, ask

-----------------------------------------------------------------------------
(* The ledger: events, claims and the memories they show.                    *)

Storing == {"store", "claim", "commit"}
\* What a job has staged, and where.
StagedAt(s) ==
  /\ req[s].pc \notin Storing => req[s].staged = <<>>
  /\ req[s].pc \in Storing => Len(req[s].staged) <= Len(payload(s).items)
  /\ req[s].pc = "claim" => Len(req[s].staged) < Len(payload(s).items)
\* One job at a time works on an event, and on one that is not stored.
EventAt(s) == HoldsEvent(s) => ~EventStored(s) /\ \A t \in Slots \ {s} : HoldsEvent(t) => ~SameEvent(s, t)
\* One transaction at a time has a word on a claim.
ClaimAt(s) == \A c \in Claims : HoldsClaim(s, c) => ClaimFree(s, c)
\* What was decided of a claim is so when it is committed.
ItemClaim(s, i) == payload(s).items[i].claim
DecidedAt(s) == \A i \in DOMAIN req[s].staged :
  /\ req[s].staged[i] = "activated" => claim[ItemClaim(s, i)].st = None /\ Own(s, ItemClaim(s, i)) = {i}
  /\ req[s].staged[i] \in {"asserted", "disputed"} =>
       claim[ItemClaim(s, i)].st # None \/ Own(s, ItemClaim(s, i)) # {}
\* What a correction or a removal found of its memory's claim can only get better.
Unnamed(m) == \A c \in Claims : claim[c].mem # m
AmendAt(s) ==
  /\ req[s].pc \in {"archive", "recording", "corrected", "deleted"} => ask(s).mem \in Stored \/ user.st = "gone"
  /\ req[s].pc \in {"recording", "corrected", "deleted"} /\ ~req[s].seen => Unnamed(ask(s).mem)
SlotAt(s) == StagedAt(s) /\ EventAt(s) /\ ClaimAt(s) /\ DecidedAt(s) /\ AmendAt(s)
\* After the erasure there is nothing left, and nothing comes.
GoneClean == user.st = "gone" => Stored = {} /\ \A s \in Slots : ~Inserted(s)
\* Where a memory comes from.
OfAgent(m) == /\ ask(m[1]).op \in {"add", "deliver"} /\ mem[m].src = "passport_agent" /\ mem[m].run = m[1]
              /\ mem[m].agent = payload(m[1]).agent /\ mem[m].event = EventOf(m[1])
OfOwner(m) == /\ ask(m[1]).op = "correct" /\ mem[m].src = "user_correction" /\ ~mem[m].spoke
              /\ mem[m].event = <<"job", 0>> /\ req[m[1]].pc = "done"
Sourced == \A m \in Stored :
  /\ m # Seed => m[1] \in Slots /\ (OfAgent(m) \/ OfOwner(m))
  /\ m = Seed => mem[m].event = <<"job", 0>>
\* The claims and the memories they show.
Backed == \A c \in Claims : claim[c].mem # NoMem =>
  /\ claim[c].mem \in Stored /\ mem[claim[c].mem].st = "live"
  /\ mem[claim[c].mem].claim = c /\ mem[claim[c].mem].val = claim[c].val
Spoken == \A m \in Stored : claim[mem[m].claim].st # None
Shown == Sourced /\ Backed /\ Spoken /\ StoredOnce /\ FirstWordOnly /\ RevokedNotWritten
LedgerInv == (\A s \in Slots : SlotAt(s)) /\ GoneClean /\ Shown

\* The memories as far as the ledger goes.
Kept == Stored' = Stored /\ \A m \in Stored :
  /\ mem'[m].st = mem[m].st /\ mem'[m].src = mem[m].src /\ mem'[m].agent = mem[m].agent
  /\ mem'[m].event = mem[m].event /\ mem'[m].claim = mem[m].claim /\ mem'[m].val = mem[m].val
  /\ mem'[m].spoke = mem[m].spoke /\ mem'[m].run = mem[m].run /\ mem'[m].cut = mem[m].cut
GoneSame == user'.st = "gone" <=> user.st = "gone"

\* What the others hold and have decided stays as it is.
LEMMA JobStays ==
  ASSUME scenario' = scenario, NEW t
  PROVE  ask(t)' = ask(t) /\ job(t)' = job(t) /\ payload(t)' = payload(t) /\ EventOf(t)' = EventOf(t)
         /\ \A i : ItemClaim(t, i)' = ItemClaim(t, i)
  BY DEF ask, job, payload, EventOf, ItemClaim

LEMMA SameStays ==
  ASSUME scenario' = scenario, NEW t, NEW u
  PROVE  SameEvent(t, u)' <=> SameEvent(t, u)
  BY JobStays DEF SameEvent

LEMMA HoldStays ==
  ASSUME scenario' = scenario, NEW s \in Slots, Others(s), NEW t \in Slots \ {s}
  PROVE  /\ HoldsEvent(t)' <=> HoldsEvent(t)
         /\ Inserted(t)' <=> Inserted(t)
         /\ \A c : HoldsClaim(t, c)' <=> HoldsClaim(t, c)
         /\ \A c : Own(t, c)' = Own(t, c)
         /\ req'[t].pc = req[t].pc /\ req'[t].staged = req[t].staged /\ req'[t].seen = req[t].seen
<1>1. req'[t].pc = req[t].pc /\ req'[t].staged = req[t].staged /\ req'[t].seen = req[t].seen
  BY DEF Others, Alike
<1>2. HoldsEvent(t)' <=> HoldsEvent(t)
  BY <1>1 DEF HoldsEvent
<1>3. Inserted(t)' <=> Inserted(t)
  BY <1>1 DEF Inserted
<1>4. ASSUME NEW c PROVE (HoldsClaim(t, c)' <=> HoldsClaim(t, c)) /\ Own(t, c)' = Own(t, c)
  BY <1>1, JobStays DEF HoldsClaim, Own, Does
<1> QED
  BY <1>1, <1>2, <1>3, <1>4

\* The parts that do not depend on the memories.
LEMMA OthersHold ==
  ASSUME scenario' = scenario, NEW s \in Slots, Others(s), NEW t \in Slots \ {s}, SlotAt(t), EventAt(s)',
         ClaimAt(s)'
  PROVE  /\ StagedAt(t)' /\ ClaimAt(t)'
         /\ HoldsEvent(t)' => \A u \in Slots \ {t} : HoldsEvent(u)' => ~SameEvent(t, u)'
<1>1. StagedAt(t)'
  BY HoldStays, JobStays DEF SlotAt, StagedAt
<1>2. ClaimAt(t)'
  <2> SUFFICES ASSUME NEW c \in Claims, HoldsClaim(t, c)', NEW u \in Slots \ {t} PROVE ~HoldsClaim(u, c)'
    BY DEF ClaimAt, ClaimFree
  <2>1. CASE u = s
    BY <2>1 DEF ClaimAt, ClaimFree
  <2>2. CASE u # s
    BY <2>2, HoldStays DEF SlotAt, ClaimAt, ClaimFree
  <2> QED
    BY <2>1, <2>2
<1>3. ASSUME HoldsEvent(t)', NEW u \in Slots \ {t}, HoldsEvent(u)' PROVE ~SameEvent(t, u)'
  <2>1. CASE u = s
    <3>1. ~SameEvent(s, t)'
      BY <1>3, <2>1 DEF EventAt
    <3> QED
      BY <2>1, <3>1 DEF SameEvent
  <2>2. CASE u # s
    BY <1>3, <2>2, HoldStays, SameStays DEF SlotAt, EventAt
  <2> QED
    BY <2>1, <2>2
<1> QED
  BY <1>1, <1>2, <1>3

\* A step that leaves the memories and the claims.
LEMMA LedgerStill ==
  ASSUME NEW s \in Slots, LedgerInv, scenario' = scenario, Others(s), req[s].pc # "done", Kept, claim' = claim,
         GoneSame,
         SlotAt(s)', user.st = "gone" => ~Inserted(s)'
  PROVE  LedgerInv'
<1>1. ASSUME NEW t \in Slots \ {s} PROVE SlotAt(t)'
  <2>1. SlotAt(t) /\ EventAt(s)' /\ ClaimAt(s)'
    BY DEF LedgerInv, SlotAt
  <2>2. /\ StagedAt(t)' /\ ClaimAt(t)'
        /\ HoldsEvent(t)' => \A u \in Slots \ {t} : HoldsEvent(u)' => ~SameEvent(t, u)'
    BY <2>1, OthersHold
  <2>3. EventAt(t)'
    <3>1. EventStored(t)' => EventStored(t)
      BY JobStays DEF EventStored, Kept
    <3>2. HoldsEvent(t)' => ~EventStored(t)
      BY <2>1, HoldStays DEF SlotAt, EventAt
    <3> QED
      BY <2>2, <3>1, <3>2 DEF EventAt
  <2>4. DecidedAt(t)'
    <3>1. /\ req'[t].staged = req[t].staged
          /\ \A i : ItemClaim(t, i)' = ItemClaim(t, i) /\ \A c : Own(t, c)' = Own(t, c)
      BY HoldStays, JobStays
    <3> QED
      BY <2>1, <3>1 DEF SlotAt, DecidedAt
  <2>5. AmendAt(t)'
    BY <2>1, HoldStays, JobStays DEF SlotAt, AmendAt, Kept, GoneSame, Unnamed
  <2> QED
    BY <2>2, <2>3, <2>4, <2>5 DEF SlotAt
<1>2. GoneClean'
  <2> SUFFICES ASSUME user'.st = "gone" PROVE Stored' = {} /\ \A t \in Slots : ~Inserted(t)'
    BY DEF GoneClean
  <2>1. Stored' = {} /\ ~Inserted(s)'
    BY DEF LedgerInv, GoneClean, Kept, GoneSame
  <2> QED
    BY <2>1, HoldStays DEF LedgerInv, GoneClean, GoneSame
<1>3. Sourced'
  <2> SUFFICES ASSUME NEW m \in Stored
               PROVE  /\ m # Seed => m[1] \in Slots /\ (OfAgent(m)' \/ OfOwner(m)')
                      /\ m = Seed => mem'[m].event = <<"job", 0>>
    BY DEF Sourced, Kept
  <2>1. m = Seed => mem'[m].event = <<"job", 0>>
    BY DEF Kept, LedgerInv, Shown, Sourced
  <2>2. ASSUME m # Seed PROVE m[1] \in Slots /\ (OfAgent(m)' \/ OfOwner(m)')
    <3>1. m[1] \in Slots /\ (OfAgent(m) \/ OfOwner(m))
      BY <2>2 DEF LedgerInv, Shown, Sourced
    <3>2. PICK u \in Slots : u = m[1]
      BY <3>1
    <3>3. OfAgent(m) => OfAgent(m)'
      BY <3>2, JobStays DEF OfAgent, Kept
    <3>4. OfOwner(m) => OfOwner(m)'
      <4>1. req[u].pc = "done" => req'[u].pc = "done"
        BY DEF Others, Alike
      <4> QED
        BY <3>2, <4>1, JobStays DEF OfOwner, Kept
    <3> QED
      BY <3>1, <3>3, <3>4
  <2> QED
    BY <2>1, <2>2
<1>4. Backed'
  BY DEF LedgerInv, Shown, Backed, Kept
<1>5. Spoken' /\ StoredOnce' /\ FirstWordOnly' /\ RevokedNotWritten'
  <2>1. Spoken'
    BY DEF LedgerInv, Shown, Spoken, Kept
  <2>2. StoredOnce'
    BY DEF LedgerInv, Shown, StoredOnce, Kept
  <2>3. FirstWordOnly'
    BY DEF LedgerInv, Shown, FirstWordOnly, Kept
  <2>4. RevokedNotWritten'
    BY DEF LedgerInv, Shown, RevokedNotWritten, Kept
  <2> QED
    BY <2>1, <2>2, <2>3, <2>4
<1> QED
  BY <1>1, <1>2, <1>3, <1>4, <1>5 DEF LedgerInv, Shown

LedgerPcs == {"extract", "store", "claim", "commit", "archive", "recording", "corrected", "deleted"}
\* A step to where nothing is held.
LEMMA Released ==
  ASSUME NEW s \in Slots, scenario' = scenario, req'[s].pc \notin LedgerPcs, req'[s].staged = <<>>
  PROVE  SlotAt(s)' /\ ~Inserted(s)'
<1>1. ~Inserted(s)' /\ (\A c : ~HoldsClaim(s, c)') /\ ~HoldsEvent(s)'
  BY DEF Inserted, HoldsClaim, HoldsEvent, Does, LedgerPcs
<1>2. DOMAIN req'[s].staged = {}
  OBVIOUS
<1> QED
  BY <1>1, <1>2 DEF SlotAt, StagedAt, EventAt, ClaimAt, DecidedAt, AmendAt, LedgerPcs, Storing

Clear(s) == /\ scenario' = scenario /\ Others(s) /\ req[s].pc # "done" /\ mem' = mem /\ claim' = claim /\ GoneSame
            /\ req'[s].pc \notin LedgerPcs /\ req'[s].staged = <<>>
LEMMA ClearKeeps ==
  ASSUME AllTypes, NEW s \in Slots, LedgerInv, Clear(s)
  PROVE  RowsTypes' /\ LedgerInv'
<1>1. RowsTypes' /\ Kept
  BY DEF Clear, AllTypes, RowsTypes, Kept, Stored
<1>2. SlotAt(s)' /\ ~Inserted(s)'
  BY Released DEF Clear
<1> QED
  BY <1>1, <1>2, LedgerStill DEF Clear

Ledgers(s) == \/ JobLock(s) \/ JobExtract(s) \/ JobInsert(s) \/ JobRecord(s) \/ JobFinal(s) \/ JobCommit(s)
              \/ CorrectStage(s) \/ CorrectCommit(s) \/ DeleteStage(s) \/ DeleteCommit(s)
              \/ Flag(s) \/ Unflag(s) \/ Erase(s)

LEMMA RetryClears ==
  ASSUME AllTypes, NEW s \in Slots, Retry(s), UNCHANGED <<scenario, mem, claim, user>>, req[s].pc # "done"
  PROVE  Clear(s)
<1>1. Walks(s, {req[s].pc}, {"queued", "done"}) /\ req'[s].staged = <<>>
  BY RetryWalks
<1> QED
  BY <1>1 DEF Clear, Walks, Moved, LedgerPcs, GoneSame

LEMMA StepLedgers ==
  ASSUME AllTypes, Standing, NEW s \in Slots, Step(s), StagedAt(s)
  PROVE  Clear(s) \/ Ledgers(s)
<1>1. /\ req[s].pc \notin Storing => req[s].staged = <<>>
      /\ req[s].pc \in JobPcs => ask(s).op \in {"add", "deliver"}
  BY DEF StagedAt, Standing, PlaceOK
<1> USE DEF Walks, Same, PcOnly, Moved, Storing, LedgerPcs
<1>2. CASE Enter(s)
  <2>1. UNCHANGED <<scenario, mem, claim>> /\ GoneSame
    BY <1>2 DEF Enter, memVars, idVars, GoneSame
  <2> QED
    BY <1>1, <1>2, <2>1, EnterWalks DEF Clear, Owners
<1>3. CASE Register(s)
  <2>1. UNCHANGED <<scenario, mem, claim>> /\ GoneSame
    <3>1. user' = user \/ (user.st = None /\ user' = [user EXCEPT !.st = "active", !.token = s])
      BY <1>3 DEF Register
    <3>2. user \in User
      BY DEF AllTypes, AccountTypes
    <3> QED
      BY <1>3, <3>1, <3>2 DEF Register, memVars, GoneSame, User, None
  <2> QED
    BY <1>1, <1>3, <2>1, RegisterWalks DEF Clear
<1>4. CASE Recache(s)
  <2>1. UNCHANGED <<scenario, mem, claim>> /\ GoneSame
    BY <1>4 DEF Recache, memVars, idVars, GoneSame
  <2> QED
    BY <1>1, <1>4, <2>1, RecacheWalks DEF Clear
<1>5. CASE SendOtp(s)
  <2>1. UNCHANGED <<scenario, mem, claim>> /\ GoneSame
    BY <1>5 DEF SendOtp, memVars, idVars, GoneSame
  <2> QED
    BY <1>1, <1>5, <2>1, SendOtpWalks DEF Clear
<1>6. CASE VerifyOtp(s)
  <2>1. UNCHANGED <<scenario, mem, claim>> /\ GoneSame
    BY <1>6 DEF VerifyOtp, memVars, idVars, GoneSame
  <2> QED
    BY <1>1, <1>6, <2>1, VerifyOtpWalks DEF Clear
<1>7. CASE CountFailure(s)
  <2>1. UNCHANGED <<scenario, mem, claim>> /\ GoneSame
    BY <1>7 DEF CountFailure, memVars, idVars, GoneSame
  <2> QED
    BY <1>1, <1>7, <2>1, CountFailureWalks DEF Clear
<1>8. CASE AcceptOtp(s)
  <2>1. UNCHANGED <<scenario, mem, claim>> /\ GoneSame
    BY <1>8 DEF AcceptOtp, memVars, idVars, GoneSame
  <2> QED
    BY <1>1, <1>8, <2>1, AcceptOtpWalks DEF Clear
<1>9. CASE Regenerate(s)
  <2>1. UNCHANGED <<scenario, mem, claim>> /\ GoneSame
    <3>1. UNCHANGED <<scenario, mem, claim>>
      BY <1>9 DEF Regenerate, memVars
    <3>2. RegenerateSteps(s) /\ user \in User
      BY <1>9, RegenerateIs DEF AllTypes, AccountTypes
    <3>3. PICK u, x : u = user /\ x = user'
      OBVIOUS
    <3>4. x = u \/ x = [u EXCEPT !.token = s] \/ x = [u EXCEPT !.rate = TRUE]
      BY <3>2, <3>3 DEF RegenerateSteps
    <3> QED
      BY <3>1, <3>2, <3>3, <3>4, UserWrites DEF GoneSame
  <2> QED
    BY <1>1, <1>9, <2>1, RegenerateWalks DEF Clear
<1>10. CASE GrantConsume(s)
  <2>1. UNCHANGED <<scenario, mem, claim>> /\ GoneSame
    BY <1>10 DEF GrantConsume, memVars, idVars, GoneSame
  <2> QED
    BY <1>1, <1>10, <2>1, GrantConsumeWalks DEF Clear
<1>11. CASE GrantConnect(s)
  <2>1. UNCHANGED <<scenario, mem, claim>> /\ GoneSame
    BY <1>11 DEF GrantConnect, memVars, idVars, GoneSame
  <2> QED
    BY <1>1, <1>11, <2>1, GrantConnectWalks DEF Clear
<1>12. CASE GrantCheck(s)
  <2>1. UNCHANGED <<scenario, mem, claim>> /\ GoneSame
    BY <1>12 DEF GrantCheck, memVars, idVars, GoneSame
  <2> QED
    BY <1>1, <1>12, <2>1, GrantCheckWalks DEF Clear
<1>13. CASE GrantUpsert(s)
  <2>1. UNCHANGED <<scenario, mem, claim>> /\ GoneSame
    BY <1>13 DEF GrantUpsert, memVars, idVars, GoneSame
  <2> QED
    BY <1>1, <1>13, <2>1, GrantUpsertWalks DEF Clear
<1>14. CASE RevokeGrant(s)
  <2>1. UNCHANGED <<scenario, mem, claim>> /\ GoneSame
    BY <1>14 DEF RevokeGrant, memVars, idVars, GoneSame
  <2> QED
    BY <1>1, <1>14, <2>1, RevokeWalks DEF Clear
<1>15. CASE Narrow(s)
  <2>1. UNCHANGED <<scenario, mem, claim>> /\ GoneSame
    BY <1>15 DEF Narrow, memVars, idVars, GoneSame
  <2> QED
    BY <1>1, <1>15, <2>1, NarrowWalks DEF Clear
<1>16. CASE Retire(s)
  <2>1. UNCHANGED <<scenario, mem, claim>> /\ GoneSame
    BY <1>16 DEF Retire, memVars, idVars, GoneSame
  <2> QED
    BY <1>1, <1>16, <2>1, RetireWalks DEF Clear
<1>17. CASE IssueLink(s)
  <2>1. UNCHANGED <<scenario, mem, claim>> /\ GoneSame
    BY <1>17 DEF IssueLink, memVars, idVars, GoneSame
  <2> QED
    BY <1>1, <1>17, <2>1, IssueLinkWalks DEF Clear
<1>18. CASE OAuthInitiate(s)
  <2>1. UNCHANGED <<scenario, mem, claim>> /\ GoneSame
    BY <1>18 DEF OAuthInitiate, memVars, idVars, GoneSame
  <2> QED
    BY <1>1, <1>18, <2>1, OAuthInitiateWalks DEF Clear
<1>19. CASE OAuthCallback(s)
  <2>1. UNCHANGED <<scenario, mem, claim>> /\ GoneSame
    BY <1>19 DEF OAuthCallback, memVars, idVars, GoneSame
  <2> QED
    BY <1>1, <1>19, <2>1, OAuthCallbackWalks DEF Clear
<1>20. CASE OAuthCommit(s)
  <2>1. UNCHANGED <<scenario, mem, claim>> /\ GoneSame
    BY <1>20 DEF OAuthCommit, memVars, idVars, GoneSame
  <2> QED
    BY <1>1, <1>20, <2>1, OAuthCommitWalks DEF Clear
<1>21. CASE Disconnect(s)
  <2>1. UNCHANGED <<scenario, mem, claim>> /\ GoneSame
    BY <1>21 DEF Disconnect, memVars, idVars, GoneSame
  <2> QED
    BY <1>1, <1>21, <2>1, DisconnectWalks DEF Clear
<1>22. CASE Authenticate(s)
  <2>1. UNCHANGED <<scenario, mem, claim>> /\ GoneSame
    BY <1>22 DEF Authenticate, memVars, idVars, GoneSame
  <2> QED
    BY <1>1, <1>22, <2>1, AuthenticateWalks DEF Clear
<1>23. CASE IssueCapability(s)
  <2>1. UNCHANGED <<scenario, mem, claim>> /\ GoneSame
    BY <1>23 DEF IssueCapability, memVars, idVars, GoneSame
  <2> QED
    BY <1>1, <1>23, <2>1, IssueCapabilityWalks DEF Clear
<1>24. CASE UseCapability(s)
  <2>1. UNCHANGED <<scenario, mem, claim>> /\ GoneSame
    BY <1>24 DEF UseCapability, memVars, idVars, GoneSame
  <2> QED
    BY <1>1, <1>24, <2>1, UseCapabilityWalks DEF Clear
<1>25. CASE ResolveByToken(s)
  <2>1. UNCHANGED <<scenario, mem, claim>> /\ GoneSame
    BY <1>25 DEF ResolveByToken, memVars, idVars, GoneSame
  <2> QED
    BY <1>1, <1>25, <2>1, ResolveByTokenWalks DEF Clear
<1>26. CASE Retrieve(s)
  <2>1. UNCHANGED <<scenario, mem, claim>> /\ GoneSame
    BY <1>26 DEF Retrieve, memVars, idVars, GoneSame
  <2> QED
    BY <1>1, <1>26, <2>1, RetrieveWalks DEF Clear
<1>27. CASE Search(s)
  <2>1. UNCHANGED <<scenario, mem, claim>> /\ GoneSame
    BY <1>27 DEF Search, memVars, idVars, GoneSame
  <2> QED
    BY <1>1, <1>27, <2>1, SearchWalks DEF Clear
<1>28. CASE AddAdmit(s)
  <2>1. UNCHANGED <<scenario, mem, claim>> /\ GoneSame
    BY <1>28 DEF AddAdmit, memVars, idVars, GoneSame
  <2> QED
    BY <1>1, <1>28, <2>1, AddAdmitWalks DEF Clear
<1>29. CASE AddReplay(s)
  <2>1. UNCHANGED <<scenario, mem, claim>> /\ GoneSame
    BY <1>29 DEF AddReplay, memVars, idVars, GoneSame
  <2> QED
    BY <1>1, <1>29, <2>1, AddReplayWalks DEF Clear
<1>30. CASE AddDispatch(s)
  <2>1. UNCHANGED <<scenario, mem, claim>> /\ GoneSame
    BY <1>30 DEF AddDispatch, memVars, idVars, GoneSame
  <2> QED
    BY <1>1, <1>30, <2>1, AddDispatchWalks DEF Clear
<1>31. CASE Deliver(s)
  <2>1. UNCHANGED <<scenario, mem, claim>> /\ GoneSame
    BY <1>31 DEF Deliver, memVars, idVars, GoneSame
  <2> QED
    BY <1>1, <1>31, <2>1, DeliverWalks DEF Clear
<1>32. CASE JobBegin(s)
  <2>1. UNCHANGED <<scenario, mem, claim, user>>
    BY <1>32 DEF JobBegin, memVars, idVars
  <2>2. ask(s).op \in {"add", "deliver"}
    BY <1>1, <1>32 DEF JobBegin, JobPcs, Does
  <2> QED
    BY <1>1, <1>32, <2>1, <2>2, JobBeginWalks, RetryClears DEF Clear, GoneSame
<1>33. CASE Victim(s)
  <2>1. UNCHANGED <<scenario, mem, claim, user>>
    BY <1>33 DEF Victim, memVars, idVars
  <2> QED
    BY <1>1, <1>33, <2>1, VictimWalks, RetryClears DEF Clear, GoneSame
<1>34. CASE Fail(s)
  <2>1. UNCHANGED <<scenario, mem, claim, user>>
    BY <1>34 DEF Fail, memVars, idVars
  <2> QED
    BY <1>1, <1>34, <2>1, FailWalks, RetryClears DEF Clear, GoneSame, Breakable
<1> QED
  BY <1>2, <1>3, <1>4, <1>5, <1>6, <1>7, <1>8, <1>9, <1>10, <1>11, <1>12, <1>13, <1>14, <1>15, <1>16, <1>17,
     <1>18, <1>19, <1>20, <1>21, <1>22, <1>23, <1>24, <1>25, <1>26, <1>27, <1>28, <1>29, <1>30, <1>31, <1>32,
     <1>33, <1>34 DEF Step, Ledgers

LEMMA QuietLedger ==
  ASSUME AllTypes, NEW s \in Slots, LedgerInv, UNCHANGED <<scenario, mem, claim, user>>, Moved(s),
         req[s].pc # "done",
         SlotAt(s)', user.st = "gone" => ~Inserted(s)'
  PROVE  RowsTypes' /\ LedgerInv'
<1>1. RowsTypes' /\ Kept /\ GoneSame /\ Others(s)
  BY DEF AllTypes, RowsTypes, Kept, Stored, GoneSame, Moved
<1> QED
  BY <1>1, LedgerStill

\* A job that goes on works on the event it has.
LEMMA EventGoesOn ==
  ASSUME NEW s \in Slots, UNCHANGED <<scenario, mem>>, Others(s), ~EventStored(s),
         \A t \in Slots \ {s} : HoldsEvent(t) => ~SameEvent(s, t)
  PROVE  EventAt(s)'
<1>1. ~EventStored(s)'
  BY JobStays DEF EventStored, Stored
<1>2. \A t \in Slots \ {s} : HoldsEvent(t)' => ~SameEvent(s, t)'
  BY HoldStays, SameStays
<1> QED
  BY <1>1, <1>2 DEF EventAt

LEMMA ClaimGoesOn ==
  ASSUME NEW s \in Slots, scenario' = scenario, Others(s),
         \A c \in Claims : HoldsClaim(s, c)' => ClaimFree(s, c)
  PROVE  ClaimAt(s)'
  BY HoldStays DEF ClaimAt, ClaimFree

LEMMA JobLockLedger ==
  ASSUME AllTypes, Standing, NEW s \in Slots, JobLock(s), LedgerInv
  PROVE  RowsTypes' /\ LedgerInv'
<1>1. /\ Moved(s) /\ Others(s) /\ req[s].pc = "lock" /\ req'[s].pc \in {"extract", "done"}
      /\ req'[s].staged = req[s].staged
      /\ UNCHANGED <<scenario, mem, claim, user>>
  BY JobLockWalks DEF Walks, PcOnly, Same, JobLock, memVars, idVars, Moved
<1>2. req'[s].staged = <<>>
  BY <1>1 DEF LedgerInv, SlotAt, StagedAt, Storing
<1>3. CASE req'[s].pc = "done"
  <2>1. SlotAt(s)' /\ ~Inserted(s)'
    BY <1>1, <1>2, <1>3, Released DEF LedgerPcs
  <2> QED
    BY <1>1, <2>1, QuietLedger
<1>4. CASE req'[s].pc = "extract"
  <2>1. ~EventStored(s) /\ EventFree(s)
    <3>1. CASE EventStored(s)
      <4>1. Go(s, "done") /\ "done" \in Pcs
        BY <3>1, InPcs DEF JobLock
      <4> QED
        BY <1>1, <1>4, <4>1, GoTo
    <3> QED
      BY <3>1 DEF JobLock
  <2>2. EventAt(s)'
    BY <1>1, <2>1, EventGoesOn DEF EventFree
  <2>3. ~Inserted(s)' /\ (\A c : ~HoldsClaim(s, c)')
    BY <1>2, <1>4 DEF Inserted, HoldsClaim, Does
  <2>4. SlotAt(s)'
    <3>1. DOMAIN req'[s].staged = {}
      BY <1>2
    <3> QED
      BY <1>2, <1>4, <2>2, <2>3, <3>1 DEF SlotAt, StagedAt, ClaimAt, DecidedAt, AmendAt, Storing
  <2> QED
    BY <1>1, <2>3, <2>4, QuietLedger
<1> QED
  BY <1>1, <1>3, <1>4

LEMMA JobExtractLedger ==
  ASSUME AllTypes, Standing, NEW s \in Slots, JobExtract(s), LedgerInv
  PROVE  RowsTypes' /\ LedgerInv'
<1>1. /\ Moved(s) /\ Others(s) /\ req[s].pc = "extract" /\ req'[s].pc = "store" /\ req'[s].staged = req[s].staged
      /\ UNCHANGED <<scenario, mem, claim, user>>
  BY JobExtractWalks DEF Walks, PcOnly, Same, JobExtract, memVars, idVars, Moved
<1>2. req'[s].staged = <<>> /\ SlotAt(s)
  BY <1>1 DEF LedgerInv, SlotAt, StagedAt, Storing
<1>3. EventAt(s)'
  BY <1>1, <1>2, EventGoesOn DEF SlotAt, EventAt, HoldsEvent
<1>4. ~Inserted(s)' /\ (\A c : ~HoldsClaim(s, c)')
  BY <1>1, <1>2 DEF Inserted, HoldsClaim, Does
<1>5. StagedAt(s)'
  <2>1. ask(s).op \in {"add", "deliver"} /\ scenario \in DOMAIN Scenarios
    BY <1>1 DEF Standing, PlaceOK, JobPcs, AllTypes, SlotTypes
  <2>2. payload(s)' = payload(s) /\ Len(payload(s).items) \in Nat
    BY <1>1, <2>1, PayloadIs, JobStays
  <2>3. Len(req'[s].staged) = 0
    BY <1>2
  <2> QED
    BY <1>1, <2>2, <2>3 DEF StagedAt, Storing
<1>6. SlotAt(s)'
  <2>1. DOMAIN req'[s].staged = {}
    BY <1>2
  <2> QED
    BY <1>1, <1>3, <1>4, <1>5, <2>1 DEF SlotAt, ClaimAt, DecidedAt, AmendAt
<1> QED
  BY <1>1, <1>4, <1>6, QuietLedger

\* What a job decides next.
LEMMA Appended ==
  ASSUME NEW q \in Staged, NEW d, NEW r, r = Append(q, d)
  PROVE  /\ Len(q) \in Nat /\ Len(r) = Len(q) + 1 /\ DOMAIN q = 1 .. Len(q) /\ DOMAIN r = 1 .. Len(q) + 1
         /\ r[Len(q) + 1] = d /\ \A i \in DOMAIN q : r[i] = q[i]
  BY DEF Staged

LEMMA StagedIs ==
  ASSUME AllTypes, NEW s \in Slots
  PROVE  /\ req[s].staged \in Staged /\ Len(req[s].staged) \in Nat /\ DOMAIN req[s].staged = 1 .. Len(req[s].staged)
         /\ \A i \in DOMAIN req[s].staged : req[s].staged[i] \in {"skip", "activated", "asserted", "disputed"}
<1>1. req[s].staged \in Staged
  BY DEF AllTypes, SlotTypes, Local, Staged
<1> QED
  BY <1>1 DEF Staged

LEMMA JobItems ==
  ASSUME AllTypes, Standing, NEW s \in Slots, req[s].pc \in JobPcs
  PROVE  /\ payload(s).agent \in Agents /\ payload(s).items \in Seq(Item) /\ Len(payload(s).items) \in Nat
         /\ Len(payload(s).items) <= 2 /\ EventOf(s) \in Event /\ EventOf(s) # <<"job", 0>>
         /\ ask(s).op \in {"add", "deliver"}
<1>1. ask(s).op \in {"add", "deliver"} /\ scenario \in DOMAIN Scenarios
  BY DEF Standing, PlaceOK, AllTypes, SlotTypes
<1> QED
  BY <1>1, PayloadIs

LEMMA JobInsertLedger ==
  ASSUME AllTypes, Standing, NEW s \in Slots, JobInsert(s), LedgerInv
  PROVE  RowsTypes' /\ LedgerInv'
<1>1. UNCHANGED <<scenario, mem, claim, user>> /\ req[s].pc = "store" /\ Len(req[s].staged) + 1 <= Len(payload(s).items)
  BY DEF JobInsert, memVars, idVars, Does, Next1
<1>2. /\ Len(payload(s).items) \in Nat /\ payload(s)' = payload(s) /\ SlotAt(s)
      /\ \A i : ItemClaim(s, i)' = ItemClaim(s, i)
  BY <1>1, JobItems, JobStays DEF JobPcs, LedgerInv
<1>3. /\ req[s].staged \in Staged /\ Len(req[s].staged) \in Nat
  BY StagedIs
<1>4. CASE Retry(s)
  <2>1. Clear(s)
    BY <1>1, <1>4, RetryClears
  <2> QED
    BY <2>1, ClearKeeps
<1>5. CASE Walks(s, {"store"}, {"claim"}) /\ PcOnly(s) /\ Alive
  <2>1. Moved(s) /\ Others(s) /\ req'[s].pc = "claim" /\ req'[s].staged = req[s].staged
    BY <1>5 DEF Walks, PcOnly, Same, Moved
  <2>2. EventAt(s)'
    BY <1>1, <1>2, <2>1, EventGoesOn DEF SlotAt, EventAt, HoldsEvent
  <2>3. \A c : (HoldsClaim(s, c)' <=> HoldsClaim(s, c)) /\ Own(s, c)' = Own(s, c)
    BY <1>1, <1>2, <2>1 DEF HoldsClaim, Does, Own
  <2>4. ClaimAt(s)'
    BY <1>1, <1>2, <2>1, <2>3, ClaimGoesOn DEF SlotAt, ClaimAt
  <2>5. StagedAt(s)'
    BY <1>1, <1>2, <1>3, <2>1 DEF StagedAt, Storing
  <2>6. DecidedAt(s)'
    BY <1>1, <1>2, <2>1, <2>3 DEF SlotAt, DecidedAt
  <2>7. AmendAt(s)' /\ user.st # "gone"
    BY <1>5, <2>1 DEF AmendAt, Alive
  <2>8. SlotAt(s)'
    BY <2>2, <2>4, <2>5, <2>6, <2>7 DEF SlotAt
  <2> QED
    BY <1>1, <2>1, <2>7, <2>8, QuietLedger
<1>6. CASE /\ Walks(s, {"store"}, {"store"}) /\ req'[s].cut = req[s].cut /\ req'[s].tries = req[s].tries
           /\ req'[s].staged = Append(req[s].staged, "skip") /\ \A t \in Slots \ {s} : req'[t] = req[t]
  <2>1. Moved(s) /\ Others(s) /\ req'[s].pc = "store"
    BY <1>6 DEF Walks, Moved
  <2>2. PICK q, r : q = req[s].staged /\ r = req'[s].staged
    OBVIOUS
  <2>3. /\ Len(q) \in Nat /\ Len(r) = Len(q) + 1 /\ DOMAIN q = 1 .. Len(q) /\ DOMAIN r = 1 .. Len(q) + 1
        /\ r[Len(q) + 1] = "skip" /\ \A i \in DOMAIN q : r[i] = q[i]
    BY <1>3, <1>6, <2>2, Appended
  <2>4. /\ DOMAIN q \subseteq DOMAIN r
        /\ \A i \in DOMAIN r : r[i] # "skip" => i \in DOMAIN q /\ q[i] = r[i]
    BY <2>3
  <2>5. ASSUME NEW c PROVE (HoldsClaim(s, c)' <=> HoldsClaim(s, c)) /\ Own(s, c)' = Own(s, c)
    <3>1. HoldsClaim(s, c)' <=> HoldsClaim(s, c)
      BY <1>1, <1>2, <2>1, <2>2, <2>3, <2>4 DEF HoldsClaim, Does
    <3>2. Own(s, c)' = Own(s, c)
      BY <1>2, <2>2, <2>3, <2>4 DEF Own
    <3> QED
      BY <3>1, <3>2
  <2>6. Inserted(s)' <=> Inserted(s)
    BY <1>1, <2>1, <2>2, <2>3, <2>4 DEF Inserted
  <2>7. EventAt(s)'
    BY <1>1, <1>2, <2>1, EventGoesOn DEF SlotAt, EventAt, HoldsEvent
  <2>8. ClaimAt(s)'
    BY <1>1, <1>2, <2>1, <2>5, ClaimGoesOn DEF SlotAt, ClaimAt
  <2>9. StagedAt(s)'
    BY <1>1, <1>2, <1>3, <2>1, <2>2, <2>3 DEF StagedAt, Storing
  <2>10. DecidedAt(s)'
    BY <1>1, <1>2, <2>2, <2>4, <2>5 DEF SlotAt, DecidedAt
  <2>11. AmendAt(s)'
    BY <2>1 DEF AmendAt
  <2>12. SlotAt(s)'
    BY <2>7, <2>8, <2>9, <2>10, <2>11 DEF SlotAt
  <2>13. user.st = "gone" => ~Inserted(s)'
    BY <2>6 DEF LedgerInv, GoneClean
  <2> QED
    BY <1>1, <2>1, <2>12, <2>13, QuietLedger
<1> QED
  BY <1>4, <1>5, <1>6, JobInsertWalks

LEMMA JobRecordLedger ==
  ASSUME AllTypes, Standing, NEW s \in Slots, JobRecord(s), LedgerInv
  PROVE  RowsTypes' /\ LedgerInv'
<1>1. UNCHANGED <<scenario, mem, claim, user>> /\ req[s].pc = "claim" /\ ClaimFree(s, Cur(s).claim)
  BY DEF JobRecord, memVars, idVars, Does
<1>2. /\ Len(payload(s).items) \in Nat /\ payload(s)' = payload(s) /\ SlotAt(s)
      /\ \A i : ItemClaim(s, i)' = ItemClaim(s, i)
  BY <1>1, JobItems, JobStays DEF JobPcs, LedgerInv
<1>3. /\ req[s].staged \in Staged /\ Len(req[s].staged) \in Nat
  BY StagedIs
<1>4. Moved(s) /\ Others(s) /\ req'[s].pc = "store"
  BY JobRecordWalks DEF Walks, Moved
<1>5. PICK q, r, d, k : /\ q = req[s].staged /\ r = req'[s].staged /\ d = Decision(s, Cur(s).claim, Cur(s).val)
                        /\ k = Cur(s).claim
  OBVIOUS
<1>6. /\ Len(q) \in Nat /\ Len(r) = Len(q) + 1 /\ DOMAIN q = 1 .. Len(q) /\ DOMAIN r = 1 .. Len(q) + 1
      /\ r[Len(q) + 1] = d /\ \A i \in DOMAIN q : r[i] = q[i]
  <2>1. r = Append(q, d)
    BY <1>5, JobRecordWalks
  <2> QED
    BY <1>3, <1>5, <2>1, Appended
<1>7. PICK n : n = Len(q) + 1
  OBVIOUS
<1>8. /\ DOMAIN r = DOMAIN q \cup {n} /\ n \notin DOMAIN q /\ r[n] = d /\ \A i \in DOMAIN q : r[i] = q[i]
  BY <1>6, <1>7
<1>9. ItemClaim(s, n) = k /\ payload(s).items[n].claim = k
  BY <1>5, <1>7 DEF ItemClaim, Cur, Next1
<1>10. /\ d = "activated" => Own(s, k) = {} /\ claim[k].st = None
       /\ d \in {"asserted", "disputed"} => ~(Own(s, k) = {} /\ claim[k].st = None)
       /\ d \in {"activated", "asserted", "disputed"}
  BY <1>5, DecisionIs DEF Decision
<1>11. ASSUME NEW c PROVE Own(s, c)' = IF c = k /\ d = "activated" THEN Own(s, c) \cup {n} ELSE Own(s, c)
  BY <1>2, <1>5, <1>8, <1>9 DEF Own
<1>12. ASSUME NEW c \in Claims, HoldsClaim(s, c)' PROVE ClaimFree(s, c)
  <2>1. CASE c = k
    BY <1>1, <1>5, <2>1
  <2>2. CASE c # k
    <3>1. HoldsClaim(s, c)
      BY <1>2, <1>4, <1>5, <1>8, <1>9, <1>12, <2>2 DEF HoldsClaim, Does
    <3> QED
      BY <1>2, <3>1 DEF SlotAt, ClaimAt
  <2> QED
    BY <2>1, <2>2
<1>13. ClaimAt(s)'
  BY <1>1, <1>4, <1>12, ClaimGoesOn
<1>14. EventAt(s)'
  BY <1>1, <1>2, <1>4, EventGoesOn DEF SlotAt, EventAt, HoldsEvent
<1>15. StagedAt(s)'
  BY <1>1, <1>2, <1>3, <1>4, <1>5, <1>6 DEF SlotAt, StagedAt, Storing
<1>16. AmendAt(s)'
  BY <1>4 DEF AmendAt
<1>17. DecidedAt(s)'
  <2>1. ASSUME NEW i \in DOMAIN r, NEW c, c = ItemClaim(s, i)
        PROVE  /\ r[i] = "activated" => claim[c].st = None /\ Own(s, c)' = {i}
               /\ r[i] \in {"asserted", "disputed"} => claim[c].st # None \/ Own(s, c)' # {}
    <3>1. CASE i = n
      BY <1>8, <1>9, <1>10, <1>11, <2>1, <3>1
    <3>2. CASE i \in DOMAIN q
      <4>1. /\ q[i] = "activated" => claim[c].st = None /\ Own(s, c) = {i}
            /\ q[i] \in {"asserted", "disputed"} => claim[c].st # None \/ Own(s, c) # {}
        BY <1>2, <1>5, <2>1, <3>2 DEF SlotAt, DecidedAt
      <4>2. r[i] = q[i]
        BY <1>8, <3>2
      <4> QED
        BY <1>10, <1>11, <4>1, <4>2
    <3> QED
      BY <1>8, <3>1, <3>2
  <2>2. ASSUME NEW i \in DOMAIN r
        PROVE  /\ r[i] = "activated" => claim'[ItemClaim(s, i)'].st = None /\ Own(s, ItemClaim(s, i))' = {i}
               /\ r[i] \in {"asserted", "disputed"} =>
                    claim'[ItemClaim(s, i)'].st # None \/ Own(s, ItemClaim(s, i))' # {}
    <3>1. PICK c : c = ItemClaim(s, i)
      OBVIOUS
    <3>2. c = ItemClaim(s, i)' /\ claim' = claim
      BY <1>1, <1>2, <3>1
    <3>3. Own(s, ItemClaim(s, i))' = Own(s, c)'
      BY <3>2 DEF Own
    <3> QED
      BY <2>1, <3>1, <3>2, <3>3
  <2> QED
    BY <1>5, <2>2 DEF DecidedAt
<1>18. SlotAt(s)'
  BY <1>13, <1>14, <1>15, <1>16, <1>17 DEF SlotAt
<1>19. user.st # "gone"
  BY <1>1 DEF LedgerInv, GoneClean, Inserted
<1> QED
  BY <1>1, <1>4, <1>18, <1>19, QuietLedger

LEMMA JobFinalLedger ==
  ASSUME AllTypes, Standing, NEW s \in Slots, JobFinal(s), LedgerInv
  PROVE  RowsTypes' /\ LedgerInv'
<1>1. UNCHANGED <<scenario, mem, claim, user>> /\ req[s].pc = "store"
  BY DEF JobFinal, memVars, idVars, Does
<1>2. payload(s)' = payload(s) /\ SlotAt(s) /\ \A i : ItemClaim(s, i)' = ItemClaim(s, i)
  BY <1>1, JobStays DEF LedgerInv
<1>3. CASE /\ Walks(s, {"store"}, {"done"}) /\ req'[s].cut = req[s].cut /\ req'[s].tries = req[s].tries
           /\ req'[s].staged = <<>> /\ \A t \in Slots \ {s} : req'[t] = req[t]
  <2>1. Clear(s)
    BY <1>1, <1>3 DEF Clear, Walks, Moved, GoneSame, LedgerPcs
  <2> QED
    BY <2>1, ClearKeeps
<1>4. CASE Walks(s, {"store"}, {"commit"}) /\ PcOnly(s) /\ WriteGrant(s)
  <2>1. Moved(s) /\ Others(s) /\ req'[s].pc = "commit" /\ req'[s].staged = req[s].staged
    BY <1>4 DEF Walks, PcOnly, Same, Moved
  <2>2. EventAt(s)'
    BY <1>1, <1>2, <2>1, EventGoesOn DEF SlotAt, EventAt, HoldsEvent
  <2>3. \A c : (HoldsClaim(s, c)' <=> HoldsClaim(s, c)) /\ Own(s, c)' = Own(s, c)
    BY <1>1, <1>2, <2>1 DEF HoldsClaim, Does, Own
  <2>4. ClaimAt(s)'
    BY <1>1, <1>2, <2>1, <2>3, ClaimGoesOn DEF SlotAt, ClaimAt
  <2>5. StagedAt(s)' /\ AmendAt(s)'
    BY <1>1, <1>2, <2>1 DEF SlotAt, StagedAt, Storing, AmendAt
  <2>6. DecidedAt(s)'
    BY <1>1, <1>2, <2>1, <2>3 DEF SlotAt, DecidedAt
  <2>7. user.st = "gone" => ~Inserted(s)'
    BY <1>1, <2>1 DEF LedgerInv, GoneClean, Inserted
  <2>8. SlotAt(s)'
    BY <2>2, <2>4, <2>5, <2>6 DEF SlotAt
  <2> QED
    BY <1>1, <2>1, <2>7, <2>8, QuietLedger
<1> QED
  BY <1>3, <1>4, JobFinalWalks

LEMMA NotActive ==
  ASSUME AllTypes, LedgerInv, NEW m \in Stored, ~IsActive(m)
  PROVE  Unnamed(m)
<1> SUFFICES ASSUME NEW c \in Claims, claim[c].mem = m PROVE FALSE
  BY DEF Unnamed
<1>1. m # NoMem
  BY RowIs, SeedIs
<1>2. mem[m].claim = c
  BY <1>1 DEF LedgerInv, Shown, Backed
<1> QED
  BY <1>2 DEF IsActive

LEMMA CorrectStageLedger ==
  ASSUME AllTypes, Standing, NEW s \in Slots, CorrectStage(s), LedgerInv
  PROVE  RowsTypes' /\ LedgerInv'
<1>1. /\ UNCHANGED <<scenario, mem, claim, user>> /\ Moved(s) /\ Others(s) /\ req'[s].staged = req[s].staged
      /\ req[s].pc \in {"correct", "embed", "archive", "recording"}
  BY CorrectStageWalks DEF Walks, Same, Moved, CorrectStage, memVars, idVars
<1>2. SlotAt(s) /\ req'[s].staged = <<>> /\ DOMAIN req'[s].staged = {} /\ ask(s)' = ask(s)
  <2>1. SlotAt(s) /\ ask(s)' = ask(s)
    BY <1>1, JobStays DEF LedgerInv
  <2>2. req'[s].staged = <<>>
    BY <1>1, <2>1 DEF SlotAt, StagedAt, Storing
  <2> QED
    BY <2>1, <2>2
<1>3. CASE req'[s].pc \in {"embed", "done"}
  <2>1. SlotAt(s)' /\ ~Inserted(s)'
    BY <1>1, <1>2, <1>3, Released DEF LedgerPcs
  <2> QED
    BY <1>1, <2>1, QuietLedger
<1>4. ASSUME req'[s].pc \in {"archive", "recording", "corrected"}, ClaimAt(s)', AmendAt(s)', user.st # "gone"
      PROVE  RowsTypes' /\ LedgerInv'
  <2>1. StagedAt(s)' /\ DecidedAt(s)' /\ EventAt(s)'
    BY <1>2, <1>4 DEF StagedAt, Storing, DecidedAt, EventAt, HoldsEvent
  <2> QED
    BY <1>1, <1>4, <2>1, QuietLedger DEF SlotAt
<1>5. CASE req[s].pc = "embed" /\ req'[s].pc = "archive" /\ ask(s).mem \in Stored
  <2>1. ClaimAt(s)'
    BY <1>2, <1>5 DEF ClaimAt, HoldsClaim, Does
  <2>2. AmendAt(s)'
    BY <1>1, <1>2, <1>5 DEF AmendAt, Stored
  <2>3. user.st # "gone"
    BY <1>5 DEF LedgerInv, GoneClean
  <2> QED
    BY <1>4, <1>5, <2>1, <2>2, <2>3
<1>6. CASE req[s].pc = "archive" /\ req'[s].pc = "recording" /\ req'[s].seen = IsActive(ask(s).mem)
  <2>1. user.st # "gone" /\ ask(s).mem \in Stored
    BY <1>2, <1>6 DEF LedgerInv, GoneClean, Inserted, SlotAt, AmendAt
  <2>2. ClaimAt(s)'
    BY <1>2, <1>6 DEF ClaimAt, HoldsClaim, Does
  <2>3. ~req'[s].seen => Unnamed(ask(s).mem)
    BY <1>6, <2>1, NotActive
  <2>4. Unnamed(ask(s).mem) => Unnamed(ask(s).mem)'
    BY <1>1, <1>2 DEF Unnamed
  <2>5. AmendAt(s)'
    BY <1>1, <1>2, <1>6, <2>1, <2>3, <2>4 DEF AmendAt, Stored
  <2> QED
    BY <1>4, <1>6, <2>1, <2>2, <2>5
<1>7. CASE /\ req[s].pc = "recording" /\ req'[s].pc = "corrected" /\ req'[s].seen = req[s].seen
           /\ ClaimFree(s, Head(ask(s).items).claim)
  <2>1. user.st # "gone" /\ ask(s).mem \in Stored /\ (~req'[s].seen => Unnamed(ask(s).mem))
    BY <1>2, <1>7 DEF LedgerInv, GoneClean, Inserted, SlotAt, AmendAt
  <2>2. ClaimAt(s)'
    <3>1. \A c \in Claims : HoldsClaim(s, c)' => ClaimFree(s, c)
      BY <1>2, <1>7 DEF HoldsClaim, Does
    <3> QED
      BY <1>1, <3>1, ClaimGoesOn
  <2>3. Unnamed(ask(s).mem) => Unnamed(ask(s).mem)'
    BY <1>1, <1>2 DEF Unnamed
  <2>4. AmendAt(s)'
    BY <1>1, <1>2, <1>7, <2>1, <2>3 DEF AmendAt, Stored
  <2> QED
    BY <1>4, <1>7, <2>1, <2>2, <2>4
<1> QED
  BY <1>3, <1>5, <1>6, <1>7, CorrectStageWalks

LEMMA DeleteStageLedger ==
  ASSUME AllTypes, Standing, NEW s \in Slots, DeleteStage(s), LedgerInv
  PROVE  RowsTypes' /\ LedgerInv'
<1>1. /\ UNCHANGED <<scenario, mem, claim, user>> /\ Moved(s) /\ Others(s) /\ req'[s].staged = req[s].staged
      /\ req[s].pc \in {"delete", "number", "removing"} /\ req'[s].pc \in {"number", "removing", "deleted", "done"}
      /\ req'[s].pc = "deleted" => ask(s).mem \in Stored /\ req'[s].seen = IsActive(ask(s).mem)
  BY DeleteStageWalks DEF Walks, Same, Moved, DeleteStage, memVars, idVars
<1>2. req'[s].staged = <<>> /\ DOMAIN req'[s].staged = {} /\ ask(s)' = ask(s)
  <2>1. SlotAt(s) /\ ask(s)' = ask(s)
    BY <1>1, JobStays DEF LedgerInv
  <2>2. req'[s].staged = <<>>
    BY <1>1, <2>1 DEF SlotAt, StagedAt, Storing
  <2> QED
    BY <2>1, <2>2
<1>3. CASE req'[s].pc # "deleted"
  <2>1. SlotAt(s)' /\ ~Inserted(s)'
    BY <1>1, <1>2, <1>3, Released DEF LedgerPcs
  <2> QED
    BY <1>1, <2>1, QuietLedger
<1>4. CASE req'[s].pc = "deleted"
  <2>1. ~Inserted(s)' /\ ClaimAt(s)' /\ EventAt(s)' /\ StagedAt(s)' /\ DecidedAt(s)'
    BY <1>2, <1>4 DEF Inserted, ClaimAt, HoldsClaim, Does, EventAt, HoldsEvent, StagedAt, Storing, DecidedAt
  <2>2. ~req'[s].seen => Unnamed(ask(s).mem)
    BY <1>1, <1>4, NotActive
  <2>3. Unnamed(ask(s).mem) => Unnamed(ask(s).mem)'
    BY <1>1, <1>2 DEF Unnamed
  <2>4. AmendAt(s)'
    BY <1>1, <1>2, <1>4, <2>2, <2>3 DEF AmendAt, Stored
  <2> QED
    BY <1>1, <2>1, <2>4, QuietLedger DEF SlotAt
<1> QED
  BY <1>3, <1>4

\* The flags of a memory are not the ledger's.
LEMMA FlagLedger ==
  ASSUME AllTypes, Standing, NEW s \in Slots, Flag(s) \/ Unflag(s), LedgerInv
  PROVE  RowsTypes' /\ LedgerInv'
<1> DEFINE m == ask(s).mem
<1>1. /\ UNCHANGED <<scenario, claim, user>> /\ Moved(s) /\ Others(s) /\ req'[s].staged = req[s].staged
      /\ req[s].pc \notin LedgerPcs \cup {"done"} /\ req'[s].pc \notin LedgerPcs
  BY FlagWalks, UnflagWalks DEF Walks, Same, Moved, Flag, Unflag, idVars, LedgerPcs
<1>2. req'[s].staged = <<>>
  BY <1>1 DEF LedgerInv, SlotAt, StagedAt, Storing, LedgerPcs
<1>3. SlotAt(s)' /\ ~Inserted(s)'
  BY <1>1, <1>2, Released
<1>4. mem \in [Stored -> Memory] /\ GoneSame
  BY <1>1 DEF AllTypes, RowsTypes, GoneSame
<1>5. RowsTypes' /\ Kept
  <2>1. CASE mem' = mem
    BY <1>1, <2>1 DEF AllTypes, RowsTypes, Kept, Stored
  <2>2. CASE mem' # mem
    <3>1. PICK f, h : f = mem /\ h = mem'
      OBVIOUS
    <3>2. m \in Stored /\ \E n \in Nat, b \in BOOLEAN : h = [f EXCEPT ![m].pending = n, ![m].flagged = b]
      <4>1. CASE Flag(s)
        <5>1. /\ m \in Stored
              /\ h = [f EXCEPT ![m].pending = IF req[s].n = 0 THEN f[m].pending + 1 ELSE f[m].pending,
                               ![m].flagged = IF req[s].seen THEN f[m].flagged ELSE TRUE]
          BY <2>2, <3>1, <4>1 DEF Flag
        <5>2. (IF req[s].n = 0 THEN f[m].pending + 1 ELSE f[m].pending) \in Nat
              /\ (IF req[s].seen THEN f[m].flagged ELSE TRUE) \in BOOLEAN
          <6>1. f[m].pending \in Nat /\ f[m].flagged \in BOOLEAN
            BY <3>1, <5>1, RowIs
          <6>2. (IF req[s].n = 0 THEN f[m].pending + 1 ELSE f[m].pending) \in Nat
            BY <6>1
          <6>3. (IF req[s].seen THEN f[m].flagged ELSE TRUE) \in BOOLEAN
            BY <6>1
          <6> QED
            BY <6>2, <6>3
        <5> QED
          BY <5>1, <5>2
      <4>2. CASE Unflag(s)
        <5>1. /\ m \in Stored
              /\ h = [f EXCEPT ![m].pending = 0, ![m].flagged = IF req[s].seen THEN FALSE ELSE f[m].flagged]
          BY <2>2, <3>1, <4>2 DEF Unflag
        <5>2. (IF req[s].seen THEN FALSE ELSE f[m].flagged) \in BOOLEAN
          BY <3>1, <5>1, RowIs
        <5> QED
          BY <5>1, <5>2
      <4> QED
        BY <4>1, <4>2
    <3> HIDE DEF m
    <3>3. PICK n \in Nat, b \in BOOLEAN : h = [f EXCEPT ![m].pending = n, ![m].flagged = b]
      BY <3>2
    <3>4. PICK r : r = [f[m] EXCEPT !.pending = n, !.flagged = b]
      OBVIOUS
    <3>5. h = [f EXCEPT ![m] = r] /\ f \in [Stored -> Memory] /\ m \in Stored
      BY <1>4, <3>1, <3>2, <3>3, <3>4
    <3>6. PICK x : x = f[m]
      OBVIOUS
    <3>7. x \in Memory
      BY <3>5, <3>6
    <3>8. /\ r \in Memory /\ r.st = x.st /\ r.src = x.src /\ r.agent = x.agent /\ r.event = x.event
          /\ r.claim = x.claim
          /\ r.val = x.val /\ r.spoke = x.spoke /\ r.run = x.run /\ r.cut = x.cut
      BY <3>4, <3>6, <3>7 DEF Memory
    <3>9. h \in [Stored -> Memory] /\ \A y \in Stored \ {m} : h[y] = f[y]
      BY <3>5, <3>8
    <3>10. DOMAIN mem' = Stored /\ Stored' = Stored
      BY <3>1, <3>9 DEF Stored
    <3>11. RowsTypes'
      BY <1>1, <3>1, <3>9, <3>10 DEF AllTypes, RowsTypes
    <3>12. Kept
      BY <3>1, <3>5, <3>6, <3>8, <3>9, <3>10 DEF Kept
    <3> QED
      BY <3>11, <3>12
  <2> QED
    BY <2>1, <2>2
<1> QED
  BY <1>1, <1>3, <1>4, <1>5, LedgerStill

LEMMA EraseLedger ==
  ASSUME AllTypes, Standing, NEW s \in Slots, Erase(s), LedgerInv
  PROVE  RowsTypes' /\ LedgerInv'
<1>1. /\ scenario' = scenario /\ Moved(s) /\ Others(s) /\ req'[s].staged = req[s].staged
      /\ req[s].pc \notin LedgerPcs \cup {"done"} /\ req'[s].pc \notin LedgerPcs
  BY EraseWalks DEF Walks, PcOnly, Same, Moved, Erase, LedgerPcs
<1>2. req'[s].staged = <<>>
  BY <1>1 DEF LedgerInv, SlotAt, StagedAt, Storing, LedgerPcs
<1>3. SlotAt(s)' /\ ~Inserted(s)'
  BY <1>1, <1>2, Released
<1>4. CASE UNCHANGED <<user, mem, claim>>
  <2>1. Clear(s)
    BY <1>1, <1>2, <1>4 DEF Clear, GoneSame
  <2> QED
    BY <2>1, ClearKeeps
<1>5. CASE ~UNCHANGED <<user, mem, claim>>
  <2>1. /\ \A t \in Slots : ~Inserted(t)
        /\ user' = [user EXCEPT !.st = "gone"] /\ mem' = [m \in {} |-> SeedMemory]
        /\ claim' = [c \in Claims |-> NoClaim]
    BY <1>5 DEF Erase, memVars
  <2>2. user'.st = "gone" /\ Stored' = {} /\ (\A c \in Claims : claim'[c] = NoClaim) /\ NoClaim.mem = NoMem
    BY <2>1 DEF AllTypes, AccountTypes, User, Stored, NoClaim
  <2>3. RowsTypes'
    <3>1. NoClaim \in Claim
      BY DEF NoClaim, Claim
    <3>2. mem' \in [Stored' -> Memory]
      BY <2>1, <2>2
    <3> QED
      BY <2>1, <2>2, <3>1, <3>2 DEF RowsTypes
  <2>4. GoneClean'
    BY <1>1, <1>3, <2>1, <2>2, HoldStays DEF GoneClean
  <2>5. Shown'
    BY <2>2 DEF Shown, Sourced, Backed, Spoken, StoredOnce, FirstWordOnly, RevokedNotWritten
  <2>6. ASSUME NEW t \in Slots \ {s} PROVE SlotAt(t)'
    <3>1. SlotAt(t) /\ EventAt(s)' /\ ClaimAt(s)' /\ ask(t)' = ask(t)
      BY <1>1, <1>3, JobStays DEF LedgerInv, SlotAt
    <3>2. /\ StagedAt(t)' /\ ClaimAt(t)'
          /\ HoldsEvent(t)' => \A u \in Slots \ {t} : HoldsEvent(u)' => ~SameEvent(t, u)'
      BY <1>1, <3>1, OthersHold
    <3>3. EventAt(t)'
      BY <2>2, <3>2 DEF EventAt, EventStored
    <3>4. \A i \in DOMAIN req'[t].staged : req'[t].staged[i] = "skip"
      BY <1>1, <2>1, HoldStays DEF Inserted
    <3>5. DecidedAt(t)'
      BY <3>4 DEF DecidedAt
    <3>6. ask(t).mem \in MemIds /\ NoMem \notin MemIds
      BY RequestIs, SeedIs DEF AllTypes, SlotTypes
    <3>7. AmendAt(t)'
      BY <2>2, <3>1, <3>6 DEF AmendAt, Unnamed
    <3> QED
      BY <3>2, <3>3, <3>5, <3>7 DEF SlotAt
  <2> QED
    BY <1>3, <2>3, <2>4, <2>5, <2>6 DEF LedgerInv
<1> QED
  BY <1>4, <1>5

\* A memory as it is archived, and the claim that may lose it.
LEMMA ArchivedIs ==
  ASSUME AllTypes, NEW m \in Stored, NEW f, f = Archived(m)
  PROVE  /\ f \in [Stored -> Memory] /\ (\A x \in Stored \ {m} : f[x] = mem[x])
         /\ \A x \in Stored : /\ f[x].src = mem[x].src /\ f[x].agent = mem[x].agent /\ f[x].event = mem[x].event
                              /\ f[x].claim = mem[x].claim /\ f[x].val = mem[x].val /\ f[x].spoke = mem[x].spoke
                              /\ f[x].run = mem[x].run /\ f[x].cut = mem[x].cut
<1>1. PICK x : x = mem[m]
  OBVIOUS
<1>2. x \in Memory /\ x.ver \in Nat /\ mem \in [Stored -> Memory]
  BY <1>1, RowIs DEF AllTypes, RowsTypes
<1>3. PICK r : r = [x EXCEPT !.st = "archived", !.rev = "archived", !.ver = x.ver + 1, !.pending = 0, !.flagged = FALSE]
  OBVIOUS
<1>4. PICK k \in Nat : k = x.ver + 1
  BY <1>2
<1>5. x \in Memory
  BY <1>2
<1>6. /\ r \in Memory /\ r.src = x.src /\ r.agent = x.agent /\ r.event = x.event /\ r.claim = x.claim
      /\ r.val = x.val /\ r.spoke = x.spoke /\ r.run = x.run /\ r.cut = x.cut
  BY <1>3, <1>4, <1>5 DEF Memory
<1>7. f = [mem EXCEPT ![m] = r]
  BY <1>1, <1>3 DEF Archived
<1> QED
  BY <1>1, <1>2, <1>6, <1>7

LEMMA UnclaimedIs ==
  ASSUME AllTypes, LedgerInv, NEW m \in Stored, NEW b \in BOOLEAN, ~b => Unnamed(m), NEW g, g = Unclaimed(m, b)
  PROVE  /\ g \in [Claims -> Claim]
         /\ \A c \in Claims : /\ g[c].st = None <=> claim[c].st = None
                              /\ g[c].mem = NoMem \/ g[c] = claim[c]
                              /\ g[c].mem # m
<1>1. claim \in [Claims -> Claim] /\ mem[m].claim \in Claims /\ m # NoMem
  BY RowIs, SeedIs DEF AllTypes, RowsTypes
<1>2. CASE ~b
  BY <1>1, <1>2 DEF Unclaimed, Unnamed
<1>3. CASE b
  <2>1. PICK r : r = [st |-> "archived", mem |-> NoMem, val |-> 0]
    OBVIOUS
  <2>2. r \in Claim /\ r.st # None /\ r.mem = NoMem
    BY <2>1 DEF Claim, None
  <2>3. PICK k \in Claims : k = mem[m].claim
    BY <1>1
  <2>4. g = [claim EXCEPT ![k] = r]
    BY <1>3, <2>1, <2>3 DEF Unclaimed
  <2>5. g \in [Claims -> Claim] /\ g[k] = r /\ \A c \in Claims \ {k} : g[c] = claim[c]
    BY <1>1, <2>2, <2>4
  <2>6. claim[k].st # None
    BY <2>3 DEF LedgerInv, Shown, Spoken
  <2>7. \A c \in Claims \ {k} : claim[c].mem # m
    BY <1>1, <2>3 DEF LedgerInv, Shown, Backed
  <2> QED
    BY <1>1, <2>2, <2>5, <2>6, <2>7
<1> QED
  BY <1>2, <1>3

\* The claims that a job decides on are its items'.
LEMMA JobClaim ==
  ASSUME AllTypes, Standing, NEW t \in Slots, StagedAt(t), NEW i \in DOMAIN req[t].staged
  PROVE  /\ ItemClaim(t, i) \in Claims /\ i \in 1 .. 2 /\ i \in DOMAIN payload(t).items
         /\ payload(t).items[i] \in Item
         /\ req[t].pc \in Storing
<1>1. req[t].pc \in Storing
  BY DEF StagedAt
<1>2. /\ payload(t).items \in Seq(Item) /\ Len(payload(t).items) \in Nat /\ Len(payload(t).items) <= 2
  BY <1>1, JobItems DEF Storing, JobPcs
<1>3. Len(req[t].staged) <= Len(payload(t).items)
  BY <1>1 DEF StagedAt
<1>4. i \in 1 .. Len(req[t].staged) /\ Len(req[t].staged) \in Nat
  BY StagedIs
<1>5. i \in 1 .. Len(payload(t).items) /\ i \in 1 .. 2
  BY <1>2, <1>3, <1>4
<1>6. payload(t).items[i] \in Item /\ i \in DOMAIN payload(t).items
  BY <1>2, <1>5
<1> QED
  BY <1>1, <1>5, <1>6 DEF ItemClaim, Item

LEMMA DecidedStays ==
  ASSUME AllTypes, Standing, NEW s \in Slots, NEW t \in Slots \ {s}, scenario' = scenario, Others(s), SlotAt(t),
         \A c \in Claims : HoldsClaim(t, c) => (claim'[c].st = None <=> claim[c].st = None)
  PROVE  DecidedAt(t)'
<1>1. req'[t].staged = req[t].staged /\ \A c : Own(t, c)' = Own(t, c)
  BY HoldStays
<1>2. ASSUME NEW i \in DOMAIN req[t].staged
      PROVE  /\ req[t].staged[i] = "activated" =>
                  claim'[ItemClaim(t, i)'].st = None /\ Own(t, ItemClaim(t, i))' = {i}
             /\ req[t].staged[i] \in {"asserted", "disputed"} =>
                  claim'[ItemClaim(t, i)'].st # None \/ Own(t, ItemClaim(t, i))' # {}
  <2>1. PICK c : c = ItemClaim(t, i)
    OBVIOUS
  <2>2. c = ItemClaim(t, i)'
    BY <2>1, JobStays
  <2>3. c \in Claims
    BY <2>1, JobClaim DEF SlotAt
  <2>4. Own(t, ItemClaim(t, i))' = Own(t, c)
    <3>1. Own(t, ItemClaim(t, i))' = Own(t, c)'
      BY <2>2 DEF Own
    <3> QED
      BY <1>1, <3>1
  <2>5. req[t].staged[i] # "skip" => HoldsClaim(t, c)
    BY <2>1 DEF HoldsClaim, ItemClaim
  <2>6. /\ req[t].staged[i] = "activated" => claim[c].st = None /\ Own(t, c) = {i}
        /\ req[t].staged[i] \in {"asserted", "disputed"} => claim[c].st # None \/ Own(t, c) # {}
    BY <2>1 DEF SlotAt, DecidedAt
  <2> QED
    BY <2>2, <2>3, <2>4, <2>5, <2>6
<1> QED
  BY <1>1, <1>2 DEF DecidedAt

LEMMA AmendStays ==
  ASSUME AllTypes, NEW s \in Slots, NEW t \in Slots \ {s}, scenario' = scenario, user' = user, Others(s), SlotAt(t),
         Stored \subseteq Stored',
         \A c \in Claims : claim'[c].mem # claim[c].mem =>
            claim'[c].mem = NoMem \/ (claim'[c].mem \notin Stored /\ user.st # "gone")
  PROVE  AmendAt(t)'
<1>1. req'[t].pc = req[t].pc /\ req'[t].seen = req[t].seen /\ ask(t)' = ask(t)
  BY HoldStays, JobStays
<1>2. ask(t).mem \in MemIds /\ NoMem \notin MemIds
  BY RequestIs, SeedIs DEF AllTypes, SlotTypes
<1>3. AmendAt(t)
  BY DEF SlotAt
<1>4. ASSUME Unnamed(ask(t).mem), ask(t).mem \in Stored \/ user.st = "gone" PROVE Unnamed(ask(t).mem)'
  BY <1>1, <1>2, <1>4 DEF Unnamed
<1> QED
  BY <1>1, <1>3, <1>4 DEF AmendAt

\* What is told of a memory and never changes.
Told(x) == /\ mem'[x].src = mem[x].src /\ mem'[x].agent = mem[x].agent /\ mem'[x].event = mem[x].event
           /\ mem'[x].claim = mem[x].claim /\ mem'[x].val = mem[x].val /\ mem'[x].spoke = mem[x].spoke
           /\ mem'[x].run = mem[x].run /\ mem'[x].cut = mem[x].cut

LEMMA OriginStays ==
  ASSUME NEW s \in Slots, scenario' = scenario, Others(s), req[s].pc # "done" \/ req'[s].pc = "done", Sourced,
         NEW x \in Stored,
         Told(x)
  PROVE  /\ x # Seed => x[1] \in Slots /\ (OfAgent(x)' \/ OfOwner(x)')
         /\ x = Seed => mem'[x].event = <<"job", 0>>
<1>1. x = Seed => mem'[x].event = <<"job", 0>>
  BY DEF Sourced, Told
<1>2. ASSUME x # Seed PROVE x[1] \in Slots /\ (OfAgent(x)' \/ OfOwner(x)')
  <2>1. x[1] \in Slots /\ (OfAgent(x) \/ OfOwner(x))
    BY <1>2 DEF Sourced
  <2>2. PICK u \in Slots : u = x[1]
    BY <2>1
  <2>3. OfAgent(x) => OfAgent(x)'
    BY <2>2, JobStays DEF OfAgent, Told
  <2>4. OfOwner(x) => OfOwner(x)'
    <3>1. req[u].pc = "done" => req'[u].pc = "done"
      BY DEF Others, Alike
    <3> QED
      BY <2>2, <3>1, JobStays DEF OfOwner, Told
  <2> QED
    BY <2>1, <2>3, <2>4
<1> QED
  BY <1>1, <1>2

LEMMA DeleteCommitLedger ==
  ASSUME AllTypes, Standing, NEW s \in Slots, DeleteCommit(s), LedgerInv
  PROVE  RowsTypes' /\ LedgerInv'
<1>1. /\ scenario' = scenario /\ user' = user /\ Moved(s) /\ Others(s) /\ req'[s].staged = req[s].staged
      /\ req[s].pc = "deleted" /\ req'[s].pc = "done"
  BY DeleteCommitWalks DEF Walks, PcOnly, Same, Moved, DeleteCommit, idVars
<1>2. SlotAt(s) /\ req'[s].staged = <<>>
  BY <1>1 DEF LedgerInv, SlotAt, StagedAt, Storing
<1>3. SlotAt(s)' /\ ~Inserted(s)'
  BY <1>1, <1>2, Released DEF LedgerPcs
<1>4. PICK m : m = ask(s).mem
  OBVIOUS
<1>5. CASE m \notin Stored
  <2>1. UNCHANGED <<mem, claim>>
    BY <1>4, <1>5 DEF DeleteCommit, memVars
  <2>2. Clear(s)
    BY <1>1, <1>2, <2>1 DEF Clear, GoneSame, LedgerPcs
  <2> QED
    BY <2>2, ClearKeeps
<1>6. CASE m \in Stored
  <2>1. PICK b \in BOOLEAN : b = req[s].seen
    BY DEF AllTypes, SlotTypes, Local
  <2>2. mem' = Archived(m) /\ claim' = Unclaimed(m, b) /\ (~b => Unnamed(m))
    BY <1>1, <1>2, <1>4, <1>6, <2>1 DEF DeleteCommit, SlotAt, AmendAt
  <2>3. /\ mem' \in [Stored -> Memory] /\ (\A x \in Stored \ {m} : mem'[x] = mem[x])
        /\ \A x \in Stored : /\ mem'[x].src = mem[x].src /\ mem'[x].agent = mem[x].agent /\ mem'[x].event = mem[x].event
                             /\ mem'[x].claim = mem[x].claim /\ mem'[x].val = mem[x].val
                             /\ mem'[x].spoke = mem[x].spoke
                             /\ mem'[x].run = mem[x].run /\ mem'[x].cut = mem[x].cut
    <3>1. PICK h : h = Archived(m)
      OBVIOUS
    <3> QED
      BY <1>6, <2>2, <3>1, ArchivedIs
  <2>4. /\ claim' \in [Claims -> Claim]
        /\ \A c \in Claims : /\ claim'[c].st = None <=> claim[c].st = None
                             /\ claim'[c].mem = NoMem \/ claim'[c] = claim[c]
                             /\ claim'[c].mem # m
    <3>1. PICK h : h = Unclaimed(m, b)
      OBVIOUS
    <3> QED
      BY <1>6, <2>2, <3>1, UnclaimedIs
  <2>5. Stored' = Stored
    BY <2>3 DEF Stored
  <2>6. RowsTypes'
    BY <2>3, <2>4, <2>5 DEF AllTypes, RowsTypes
  <2>7. GoneClean'
    BY <1>1, <1>3, <2>5, HoldStays DEF LedgerInv, GoneClean
  <2>8. Backed' /\ Spoken'
    <3>1. Backed'
      BY <2>3, <2>4, <2>5 DEF LedgerInv, Shown, Backed
    <3>2. Spoken'
      BY <2>3, <2>4, <2>5, RowIs DEF LedgerInv, Shown, Spoken
    <3> QED
      BY <3>1, <3>2
  <2>9. StoredOnce' /\ FirstWordOnly' /\ RevokedNotWritten'
    <3>1. StoredOnce'
      BY <2>3, <2>5 DEF LedgerInv, Shown, StoredOnce
    <3>2. FirstWordOnly'
      BY <2>3, <2>5 DEF LedgerInv, Shown, FirstWordOnly
    <3>3. RevokedNotWritten'
      BY <2>3, <2>5 DEF LedgerInv, Shown, RevokedNotWritten
    <3> QED
      BY <3>1, <3>2, <3>3
  <2>10. Sourced'
    <3>1. Sourced /\ (req[s].pc # "done" \/ req'[s].pc = "done")
      BY <1>1 DEF LedgerInv, Shown
    <3>2. \A x \in Stored : Told(x)
      BY <2>3 DEF Told
    <3> QED
      BY <1>1, <2>5, <3>1, <3>2, OriginStays DEF Sourced
  <2>11. ASSUME NEW t \in Slots \ {s} PROVE SlotAt(t)'
    <3>1. SlotAt(t) /\ EventAt(s)' /\ ClaimAt(s)'
      BY <1>3 DEF LedgerInv, SlotAt
    <3>2. /\ StagedAt(t)' /\ ClaimAt(t)'
          /\ HoldsEvent(t)' => \A u \in Slots \ {t} : HoldsEvent(u)' => ~SameEvent(t, u)'
      BY <1>1, <3>1, OthersHold
    <3>3. EventAt(t)'
      BY <1>1, <2>3, <2>5, <3>1, <3>2, HoldStays, JobStays DEF SlotAt, EventAt, EventStored
    <3>4. DecidedAt(t)'
      BY <1>1, <2>4, <3>1, DecidedStays
    <3>5. AmendAt(t)'
      BY <1>1, <2>4, <2>5, <3>1, AmendStays
    <3> QED
      BY <3>2, <3>3, <3>4, <3>5 DEF SlotAt
  <2> QED
    BY <1>3, <2>6, <2>7, <2>8, <2>9, <2>10, <2>11 DEF LedgerInv, Shown
<1> QED
  BY <1>5, <1>6

LEMMA CorrectCommitLedger ==
  ASSUME AllTypes, Standing, NEW s \in Slots, CorrectCommit(s), LedgerInv
  PROVE  RowsTypes' /\ LedgerInv'
<1>1. /\ scenario' = scenario /\ user' = user /\ Moved(s) /\ Others(s) /\ req'[s].staged = req[s].staged
      /\ req[s].pc = "corrected" /\ req'[s].pc = "done"
  BY CorrectCommitWalks DEF Walks, PcOnly, Same, Moved, CorrectCommit, idVars
<1>2. SlotAt(s) /\ req'[s].staged = <<>> /\ user.st # "gone" /\ ask(s).op = "correct"
  BY <1>1 DEF LedgerInv, SlotAt, StagedAt, Storing, GoneClean, Inserted, Standing, PlaceOK
<1>3. SlotAt(s)' /\ ~Inserted(s)'
  BY <1>1, <1>2, Released DEF LedgerPcs
<1>4. PICK m, n, it : m = ask(s).mem /\ n = <<s, 1>> /\ it = Head(ask(s).items)
  OBVIOUS
<1>5. m \in Stored /\ (~req[s].seen => Unnamed(m)) /\ mem[m].agent \in Agents
  BY <1>1, <1>2, <1>4, RowIs DEF SlotAt, AmendAt
<1>6. it.claim \in Claims /\ it.val \in Values
  <2>1. ask(s).items \in Seq(Item) /\ Len(ask(s).items) = 1
    BY <1>2, AskIs, RequestIs DEF AllTypes, SlotTypes
  <2>2. it \in Item
    BY <1>4, <2>1
  <2> QED
    BY <2>2 DEF Item
<1>7. n \notin Stored /\ n \in MemIds /\ n # Seed /\ n # NoMem /\ n[1] = s
  <2>1. n \in MemIds /\ n # Seed /\ n # NoMem /\ n[1] = s
    BY <1>4, SlotsAre DEF MemIds, Seed, NoMem
  <2>2. ASSUME n \in Stored PROVE FALSE
    <3>1. OfAgent(n) \/ OfOwner(n)
      BY <2>1, <2>2 DEF LedgerInv, Shown, Sourced
    <3> QED
      BY <1>1, <1>2, <2>1, <3>1 DEF OfAgent, OfOwner
  <2> QED
    BY <2>1, <2>2
<1>8. PICK b \in BOOLEAN : b = req[s].seen
  BY DEF AllTypes, SlotTypes, Local
<1>9. PICK w : w = [SeedMemory EXCEPT !.src = "user_correction", !.agent = mem[m].agent, !.claim = it.claim,
                                      !.val = it.val, !.spoke = FALSE, !.run = s]
  OBVIOUS
<1>10. /\ w \in Memory /\ w.src = "user_correction" /\ w.claim = it.claim /\ w.val = it.val /\ ~w.spoke
       /\ w.event = <<"job", 0>> /\ w.st = "live" /\ ~w.cut
  <2>1. PICK a, c, v, x : a = mem[m].agent /\ c = it.claim /\ v = it.val /\ x = SeedMemory
    OBVIOUS
  <2>2. /\ a \in Agents /\ c \in Claims /\ v \in Values
        /\ w = [x EXCEPT !.src = "user_correction", !.agent = a, !.claim = c, !.val = v, !.spoke = FALSE, !.run = s]
    BY <1>5, <1>6, <1>9, <2>1
  <2>3. x \in Memory /\ x.event = <<"job", 0>> /\ x.st = "live" /\ x.cut = FALSE
    BY <2>1, SeedIs DEF SeedMemory
  <2>4. x \in Memory
    BY <2>3
  <2>5. /\ w \in Memory /\ w.src = "user_correction" /\ w.claim = c /\ w.val = v /\ w.spoke = FALSE
        /\ w.event = x.event /\ w.st = x.st /\ w.cut = x.cut
    BY <2>2, <2>4 DEF Memory
  <2> QED
    BY <2>1, <2>3, <2>5
<1>11. PICK f : f = Archived(m)
  OBVIOUS
<1>12. /\ f \in [Stored -> Memory] /\ (\A x \in Stored \ {m} : f[x] = mem[x])
       /\ \A x \in Stored : /\ f[x].src = mem[x].src /\ f[x].agent = mem[x].agent /\ f[x].event = mem[x].event
                            /\ f[x].claim = mem[x].claim /\ f[x].val = mem[x].val /\ f[x].spoke = mem[x].spoke
                            /\ f[x].run = mem[x].run /\ f[x].cut = mem[x].cut
  BY <1>5, <1>11, ArchivedIs
<1>13. PICK g : g = Unclaimed(m, b)
  OBVIOUS
<1>14. /\ g \in [Claims -> Claim]
       /\ \A c \in Claims : /\ g[c].st = None <=> claim[c].st = None
                            /\ g[c].mem = NoMem \/ g[c] = claim[c]
                            /\ g[c].mem # m
  BY <1>5, <1>8, <1>13, UnclaimedIs
<1>15. PICK k : k = [st |-> "active", mem |-> n, val |-> it.val]
  OBVIOUS
<1>16. k \in Claim /\ k.st # None /\ k.mem = n /\ k.val = it.val
  BY <1>6, <1>7, <1>15 DEF Claim, None
<1>17. /\ mem' = [x \in Stored \cup {n} |-> IF x # n THEN f[x] ELSE w]
       /\ claim' = [g EXCEPT ![it.claim] = k]
  BY <1>4, <1>8, <1>9, <1>11, <1>13, <1>15 DEF CorrectCommit
<1>18. /\ Stored' = Stored \cup {n} /\ mem'[n] = w /\ (\A x \in Stored : mem'[x] = f[x])
       /\ mem' \in [Stored' -> Memory]
  BY <1>7, <1>10, <1>12, <1>17 DEF Stored
<1>19. /\ claim' \in [Claims -> Claim] /\ claim'[it.claim] = k /\ \A c \in Claims \ {it.claim} : claim'[c] = g[c]
  BY <1>6, <1>14, <1>16, <1>17
<1>20. RowsTypes'
  BY <1>7, <1>18, <1>19 DEF AllTypes, RowsTypes
<1>21. \A x \in Stored : Told(x)
  BY <1>12, <1>18 DEF Told
<1>22. GoneClean'
  BY <1>1, <1>2 DEF GoneClean
<1>23. Backed'
  <2> SUFFICES ASSUME NEW c \in Claims, claim'[c].mem # NoMem
               PROVE  /\ claim'[c].mem \in Stored' /\ mem'[claim'[c].mem].st = "live"
                      /\ mem'[claim'[c].mem].claim = c /\ mem'[claim'[c].mem].val = claim'[c].val
    BY DEF Backed
  <2>1. CASE c = it.claim
    BY <1>10, <1>16, <1>18, <1>19, <2>1
  <2>2. CASE c # it.claim
    <3>1. claim'[c] = claim[c] /\ claim[c].mem # m /\ claim[c].mem # NoMem
      BY <1>14, <1>19, <2>2
    <3>2. PICK x : x = claim[c].mem
      OBVIOUS
    <3>3. x \in Stored /\ mem[x].st = "live" /\ mem[x].claim = c /\ mem[x].val = claim[c].val
      BY <3>1, <3>2 DEF LedgerInv, Shown, Backed
    <3>4. mem'[x] = mem[x] /\ x \in Stored'
      BY <1>12, <1>18, <3>1, <3>2, <3>3
    <3> QED
      BY <3>1, <3>2, <3>3, <3>4
  <2> QED
    BY <2>1, <2>2
<1>24. Spoken'
  <2>1. ASSUME NEW x \in Stored PROVE claim'[mem'[x].claim].st # None
    <3>1. mem'[x].claim = mem[x].claim /\ mem[x].claim \in Claims /\ claim[mem[x].claim].st # None
      BY <1>21, RowIs DEF Told, LedgerInv, Shown, Spoken
    <3> QED
      BY <1>14, <1>16, <1>19, <3>1
  <2> QED
    BY <1>10, <1>16, <1>18, <1>19, <2>1 DEF Spoken
<1>25. StoredOnce' /\ FirstWordOnly' /\ RevokedNotWritten'
  <2>1. StoredOnce'
    <3> SUFFICES ASSUME NEW x \in Stored', NEW y \in Stored', {mem'[x].src, mem'[y].src} = {"passport_agent"},
                        x # Seed, y # Seed, mem'[x].agent = mem'[y].agent, mem'[x].event = mem'[y].event
                 PROVE  mem'[x].run = mem'[y].run
      BY DEF StoredOnce
    <3>1. x \in Stored /\ y \in Stored
      BY <1>10, <1>18
    <3>2. /\ {mem[x].src, mem[y].src} = {"passport_agent"} /\ mem[x].agent = mem[y].agent
          /\ mem[x].event = mem[y].event
          /\ mem'[x].run = mem[x].run /\ mem'[y].run = mem[y].run
      BY <1>21, <3>1 DEF Told
    <3> QED
      BY <3>1, <3>2 DEF LedgerInv, Shown, StoredOnce
  <2>2. FirstWordOnly'
    BY <1>10, <1>18, <1>21 DEF LedgerInv, Shown, FirstWordOnly, Told
  <2>3. RevokedNotWritten'
    BY <1>10, <1>18, <1>21 DEF LedgerInv, Shown, RevokedNotWritten, Told
  <2> QED
    BY <2>1, <2>2, <2>3
<1>26. Sourced'
  <2>1. Sourced /\ (req[s].pc # "done" \/ req'[s].pc = "done")
    BY <1>1 DEF LedgerInv, Shown
  <2>2. OfOwner(n)'
    BY <1>1, <1>2, <1>7, <1>10, <1>18, JobStays DEF OfOwner
  <2> QED
    BY <1>1, <1>7, <1>18, <1>21, <2>1, <2>2, OriginStays DEF Sourced
<1>27. ASSUME NEW t \in Slots \ {s} PROVE SlotAt(t)'
  <2>1. SlotAt(t) /\ EventAt(s)' /\ ClaimAt(s)'
    BY <1>3 DEF LedgerInv, SlotAt
  <2>2. /\ StagedAt(t)' /\ ClaimAt(t)'
        /\ HoldsEvent(t)' => \A u \in Slots \ {t} : HoldsEvent(u)' => ~SameEvent(t, u)'
    BY <1>1, <2>1, OthersHold
  <2>3. EventAt(t)'
    <3>1. ASSUME HoldsEvent(t)' PROVE ~EventStored(t)'
      <4>1. HoldsEvent(t) /\ EventOf(t)' = EventOf(t) /\ payload(t)' = payload(t)
        BY <1>1, <3>1, HoldStays, JobStays
      <4>2. ~EventStored(t) /\ EventOf(t) # <<"job", 0>>
        BY <2>1, <4>1, JobItems DEF SlotAt, EventAt, HoldsEvent, JobPcs
      <4> QED
        BY <1>10, <1>18, <1>21, <4>1, <4>2 DEF EventStored, Told
    <3> QED
      BY <2>2, <3>1 DEF EventAt
  <2>4. DecidedAt(t)'
    <3>1. ~HoldsClaim(t, it.claim)
      BY <1>1, <1>2, <1>4, <1>6 DEF SlotAt, ClaimAt, ClaimFree, HoldsClaim, Does
    <3>2. \A c \in Claims : HoldsClaim(t, c) => (claim'[c].st = None <=> claim[c].st = None)
      BY <1>14, <1>19, <3>1
    <3> QED
      BY <1>1, <2>1, <3>2, DecidedStays
  <2>5. AmendAt(t)'
    <3>1. \A c \in Claims : claim'[c].mem # claim[c].mem =>
             claim'[c].mem = NoMem \/ (claim'[c].mem \notin Stored /\ user.st # "gone")
      BY <1>2, <1>7, <1>14, <1>16, <1>19
    <3> QED
      BY <1>1, <1>18, <2>1, <3>1, AmendStays
  <2> QED
    BY <2>2, <2>3, <2>4, <2>5 DEF SlotAt
<1> QED
  BY <1>3, <1>20, <1>22, <1>23, <1>24, <1>25, <1>26, <1>27 DEF LedgerInv, Shown

\* A claim after the commit of a job.
LEMMA ClaimCommitted ==
  ASSUME AllTypes, Standing, NEW s \in Slots, JobCommit(s), LedgerInv, NEW c \in Claims
  PROVE  /\ claim' \in [Claims -> Claim]
         /\ (\A i \in Writes(s) : ItemClaim(s, i) # c) => claim'[c] = claim[c]
         /\ Own(s, c) = {} => claim'[c].mem = claim[c].mem /\ claim'[c].val = claim[c].val
         /\ \A i \in Own(s, c) : claim'[c].mem = <<s, i>> /\ claim'[c].val = payload(s).items[i].val
         /\ claim[c].st # None \/ Own(s, c) # {} => claim'[c].st # None
<1>1. req[s].pc = "commit" /\ SlotAt(s) /\ claim \in [Claims -> Claim]
  BY DEF JobCommit, Does, LedgerInv, AllTypes, RowsTypes
<1>2. \A i \in Writes(s) : /\ i \in 1 .. 2 /\ payload(s).items[i].val \in Values /\ i \in DOMAIN req[s].staged
  BY <1>1, JobClaim DEF Writes, SlotAt, Item
<1>3. ASSUME NEW d \in Claims
      PROVE  /\ claim'[d] \in Claim
             /\ (\A i \in Writes(s) : ItemClaim(s, i) # d) => claim'[d] = claim[d]
             /\ Own(s, d) = {} => claim'[d].mem = claim[d].mem /\ claim'[d].val = claim[d].val
             /\ \A i \in Own(s, d) : claim'[d].mem = <<s, i>> /\ claim'[d].val = payload(s).items[i].val
             /\ claim[d].st # None \/ Own(s, d) # {} => claim'[d].st # None
  <2>1. PICK M : M = {i \in Writes(s) : payload(s).items[i].claim = d}
    OBVIOUS
  <2>2. Own(s, d) = {i \in M : req[s].staged[i] = "activated"}
    BY <1>2, <2>1 DEF Own, Writes
  <2>3. claim'[d] = IF \E i \in M : req[s].staged[i] = "activated"
          THEN LET i == CHOOSE i \in M : req[s].staged[i] = "activated" IN
               [st |-> IF \E j \in M : req[s].staged[j] = "disputed" THEN "disputed" ELSE "active",
                mem |-> <<s, i>>, val |-> payload(s).items[i].val]
          ELSE IF \E i \in M : req[s].staged[i] = "disputed"
          THEN [claim[d] EXCEPT !.st = "disputed"] ELSE claim[d]
    BY <2>1 DEF JobCommit
  <2>4. CASE Own(s, d) = {}
    <3>1. PICK x \in Claim : x = claim[d]
      BY <1>1
    <3>2. PICK r : r = [x EXCEPT !.st = "disputed"]
      OBVIOUS
    <3>3. r \in Claim /\ r.st = "disputed" /\ r.mem = x.mem /\ r.val = x.val
      BY <3>2 DEF Claim
    <3>4. claim'[d] = IF \E i \in M : req[s].staged[i] = "disputed" THEN r ELSE x
      BY <2>2, <2>3, <2>4, <3>1, <3>2
    <3>5. (\A i \in Writes(s) : ItemClaim(s, i) # d) => M = {}
      BY <2>1 DEF ItemClaim
    <3> QED
      BY <2>4, <3>1, <3>3, <3>4, <3>5 DEF None
  <2>5. CASE Own(s, d) # {}
    <3>1. PICK k \in Own(s, d) : TRUE
      BY <2>5
    <3>2. k \in M /\ k \in Writes(s) /\ req[s].staged[k] = "activated" /\ ItemClaim(s, k) = d
      BY <2>1, <2>2, <3>1 DEF ItemClaim
    <3>3. Own(s, d) = {k}
      BY <1>1, <1>2, <3>2 DEF SlotAt, DecidedAt
    <3>4. k = CHOOSE i \in M : req[s].staged[i] = "activated"
      BY <2>2, <3>2, <3>3
    <3>5. PICK z \in {"disputed", "active"} :
            z = IF \E j \in M : req[s].staged[j] = "disputed" THEN "disputed" ELSE "active"
      OBVIOUS
    <3>6. claim'[d] = [st |-> z, mem |-> <<s, k>>, val |-> payload(s).items[k].val]
      BY <2>3, <3>2, <3>4, <3>5
    <3>7. <<s, k>> \in MemIds /\ payload(s).items[k].val \in Values
      BY <1>2, <3>2 DEF MemIds
    <3>8. claim'[d] \in Claim
      BY <3>6, <3>7 DEF Claim
    <3> QED
      BY <3>2, <3>3, <3>6, <3>8 DEF None
  <2> QED
    BY <2>4, <2>5
<1>4. claim' \in [Claims -> Claim]
  <2>1. claim' = [d \in Claims |-> claim'[d]]
    BY DEF JobCommit
  <2> QED
    BY <1>3, <2>1
<1> QED
  BY <1>3, <1>4

\* The row of an item that was decided.
LEMMA NewIs ==
  ASSUME AllTypes, Standing, NEW s \in Slots, req[s].pc = "commit", LedgerInv, NEW i \in Writes(s)
  PROVE  /\ New(s, i) \in Memory /\ New(s, i).src = "passport_agent" /\ New(s, i).run = s
         /\ New(s, i).cut = req[s].cut
         /\ New(s, i).agent = payload(s).agent /\ New(s, i).event = EventOf(s) /\ New(s, i).claim = ItemClaim(s, i)
         /\ New(s, i).val = payload(s).items[i].val /\ New(s, i).spoke = (req[s].staged[i] = "activated")
         /\ req[s].staged[i] = "activated" => New(s, i).st = "live"
<1>1. SlotAt(s) /\ i \in DOMAIN req[s].staged
  BY DEF LedgerInv, Writes
<1>2. PICK d \in {"activated", "asserted", "disputed"} : d = req[s].staged[i]
  BY <1>1, StagedIs DEF Writes
<1>3. PICK a \in Agents, e \in Event : a = payload(s).agent /\ e = EventOf(s)
  BY JobItems DEF JobPcs
<1>4. PICK c \in Claims, v \in Values : c = payload(s).items[i].claim /\ v = payload(s).items[i].val
  BY <1>1, JobClaim DEF SlotAt, Item
<1>5. PICK b \in BOOLEAN : b = (d = "activated")
  OBVIOUS
<1>6. PICK q \in BOOLEAN : q = req[s].cut
  BY DEF AllTypes, SlotTypes, Local
<1>7. PICK l \in {"live", "archived"} : l = IF d = "activated" THEN "live" ELSE "archived"
  OBVIOUS
<1>8. PICK x \in Memory : x = SeedMemory
  BY SeedIs
<1>9. x.src = "passport_agent"
  BY <1>8 DEF SeedMemory
<1>10. PICK r : r = [x EXCEPT !.st = l, !.agent = a, !.event = e, !.claim = c, !.val = v, !.rev = d, !.spoke = b,
                              !.run = s, !.cut = q]
  OBVIOUS
<1>11. x \in Memory
  OBVIOUS
<1>12. /\ r \in Memory /\ r.src = x.src /\ r.run = s /\ r.cut = q /\ r.agent = a /\ r.event = e /\ r.claim = c
       /\ r.val = v /\ r.spoke = b /\ r.st = l
  BY <1>10, <1>11 DEF Memory
<1>13. New(s, i) = r
  BY <1>2, <1>3, <1>4, <1>5, <1>6, <1>7, <1>8, <1>10 DEF New
<1> QED
  BY <1>2, <1>3, <1>4, <1>5, <1>6, <1>7, <1>9, <1>12, <1>13 DEF ItemClaim

LEMMA JobCommitLedger ==
  ASSUME AllTypes, Standing, NEW s \in Slots, JobCommit(s), LedgerInv, ConsentInv
  PROVE  RowsTypes' /\ LedgerInv'
<1>1. scenario' = scenario /\ user' = user /\ req[s].pc = "commit" /\ SlotAt(s)
  BY DEF JobCommit, idVars, Does, LedgerInv
<1>2. Moved(s) /\ Others(s) /\ req'[s].pc \notin LedgerPcs /\ req'[s].staged = <<>>
  <2>1. CASE Retry(s)
    <3>1. Walks(s, {"commit"}, {"queued", "done"}) /\ req'[s].staged = <<>>
      BY <1>1, <2>1, RetryWalks
    <3> QED
      BY <3>1 DEF Walks, Moved, LedgerPcs
  <2>2. CASE ~Retry(s)
    BY <2>2, JobCommitWalks DEF Walks, Moved, LedgerPcs
  <2> QED
    BY <2>1, <2>2
<1>3. SlotAt(s)' /\ ~Inserted(s)'
  BY <1>1, <1>2, Released
<1>4. /\ payload(s).agent \in Agents /\ EventOf(s) # <<"job", 0>> /\ ask(s).op \in {"add", "deliver"}
      /\ ~EventStored(s) /\ \A t \in Slots \ {s} : HoldsEvent(t) => ~SameEvent(s, t)
  BY <1>1, JobItems DEF JobPcs, SlotAt, EventAt, HoldsEvent
<1>5. \A i \in Writes(s) : /\ i \in 1 .. 2 /\ ItemClaim(s, i) \in Claims /\ HoldsClaim(s, ItemClaim(s, i))
                           /\ i \in DOMAIN req[s].staged
                           /\ req[s].staged[i] \in {"activated", "asserted", "disputed"}
  BY <1>1, JobClaim, StagedIs DEF Writes, SlotAt, HoldsClaim, ItemClaim
<1>6. \A x \in Stored : x[1] # s
  <2> SUFFICES ASSUME NEW x \in Stored, x[1] = s PROVE FALSE
    OBVIOUS
  <2>1. x # Seed
    BY SlotsAre DEF Seed
  <2>2. OfAgent(x) \/ OfOwner(x)
    BY <2>1 DEF LedgerInv, Shown, Sourced
  <2>3. OfAgent(x) => EventStored(s)
    BY DEF OfAgent, EventStored
  <2> QED
    BY <1>4, <2>2, <2>3 DEF OfOwner
<1>7. PICK N : N = {<<s, i>> : i \in Writes(s)}
  OBVIOUS
<1>8. /\ N \subseteq MemIds /\ N \cap Stored = {} /\ Seed \notin N /\ NoMem \notin N
      /\ \A x \in N : x[1] = s /\ x[2] \in Writes(s) /\ x = <<s, x[2]>>
  BY <1>5, <1>6, <1>7, SlotsAre DEF MemIds, Seed, NoMem
<1>9. /\ Stored' = Stored \cup N /\ (\A x \in Stored : mem'[x] = mem[x]) /\ (\A x \in N : mem'[x] = New(s, x[2]))
  <2>1. mem' = [x \in Stored \cup N |-> IF x[1] = s THEN New(s, x[2]) ELSE mem[x]]
    BY <1>7 DEF JobCommit
  <2> QED
    BY <1>6, <1>8, <2>1 DEF Stored
<1>10. ASSUME NEW x \in N
       PROVE  /\ mem'[x] \in Memory /\ mem'[x].src = "passport_agent" /\ mem'[x].run = s /\ ~mem'[x].cut
              /\ mem'[x].agent = payload(s).agent /\ mem'[x].event = EventOf(s)
              /\ mem'[x].claim = ItemClaim(s, x[2])
              /\ mem'[x].val = payload(s).items[x[2]].val /\ mem'[x].spoke = (req[s].staged[x[2]] = "activated")
              /\ req[s].staged[x[2]] = "activated" => mem'[x].st = "live"
  <2>1. PICK i \in Writes(s) : i = x[2]
    BY <1>8
  <2>2. ~req[s].cut
    BY <1>1 DEF ConsentInv, CutAt, Extracting
  <2> QED
    BY <1>1, <1>9, <2>1, <2>2, NewIs
<1>11. \A x \in Stored : Told(x)
  BY <1>9 DEF Told
<1>12. claim' \in [Claims -> Claim]
  BY ClaimCommitted, PassportAssumption
<1>13. RowsTypes'
  <2>1. mem' \in [Stored' -> Memory]
    <3>1. \A x \in Stored' : mem'[x] \in Memory
      BY <1>9, <1>10, RowIs
    <3>2. mem' = [x \in Stored' |-> mem'[x]]
      BY DEF JobCommit, Stored
    <3> QED
      BY <3>1, <3>2
  <2> QED
    BY <1>8, <1>9, <1>12, <2>1 DEF AllTypes, RowsTypes
<1>14. user.st = "gone" => Writes(s) = {}
  BY DEF LedgerInv, GoneClean, Inserted, Writes
<1>15. GoneClean'
  <2> SUFFICES ASSUME user.st = "gone" PROVE Stored' = {} /\ \A t \in Slots : ~Inserted(t)'
    BY <1>1 DEF GoneClean
  <2>1. Stored' = {}
    BY <1>7, <1>9, <1>14 DEF LedgerInv, GoneClean
  <2> QED
    BY <1>1, <1>2, <1>3, <2>1, HoldStays DEF LedgerInv, GoneClean
<1>16. Backed'
  <2> SUFFICES ASSUME NEW c \in Claims, claim'[c].mem # NoMem
               PROVE  /\ claim'[c].mem \in Stored' /\ mem'[claim'[c].mem].st = "live"
                      /\ mem'[claim'[c].mem].claim = c /\ mem'[claim'[c].mem].val = claim'[c].val
    BY DEF Backed
  <2>1. CASE Own(s, c) = {}
    <3>1. claim'[c].mem = claim[c].mem /\ claim'[c].val = claim[c].val
      BY <2>1, ClaimCommitted
    <3>2. PICK x : x = claim[c].mem
      OBVIOUS
    <3>3. x \in Stored /\ mem[x].st = "live" /\ mem[x].claim = c /\ mem[x].val = claim[c].val
      BY <3>1, <3>2 DEF LedgerInv, Shown, Backed
    <3> QED
      BY <1>9, <3>1, <3>2, <3>3
  <2>2. CASE Own(s, c) # {}
    <3>1. PICK i \in Own(s, c) : TRUE
      BY <2>2
    <3>2. claim'[c].mem = <<s, i>> /\ claim'[c].val = payload(s).items[i].val
      BY <3>1, ClaimCommitted
    <3>3. i \in Writes(s) /\ req[s].staged[i] = "activated" /\ ItemClaim(s, i) = c
      BY <3>1 DEF Own, Writes, ItemClaim
    <3>4. PICK x \in N : x = <<s, i>>
      BY <1>7, <3>3
    <3> QED
      BY <1>9, <1>10, <3>2, <3>3, <3>4
  <2> QED
    BY <2>1, <2>2
<1>17. Spoken'
  <2>1. ASSUME NEW x \in Stored PROVE claim'[mem'[x].claim].st # None
    <3>1. PICK c \in Claims : c = mem[x].claim
      BY RowIs
    <3>2. mem'[x].claim = c /\ claim[c].st # None
      BY <1>11, <3>1 DEF Told, LedgerInv, Shown, Spoken
    <3> QED
      BY <3>2, ClaimCommitted
  <2>2. ASSUME NEW x \in N PROVE claim'[mem'[x].claim].st # None
    <3>1. PICK i \in Writes(s) : i = x[2]
      BY <1>8
    <3>2. PICK c \in Claims : c = ItemClaim(s, i)
      BY <1>5
    <3>3. claim[c].st # None \/ Own(s, c) # {}
      <4>1. i \in DOMAIN req[s].staged /\ req[s].staged[i] \in {"activated", "asserted", "disputed"}
        BY <1>5
      <4> QED
        BY <1>1, <3>2, <4>1 DEF SlotAt, DecidedAt
    <3> QED
      BY <1>10, <3>1, <3>2, <3>3, ClaimCommitted
  <2> QED
    BY <1>9, <2>1, <2>2 DEF Spoken
<1>18. StoredOnce'
  <2> SUFFICES ASSUME NEW x \in Stored', NEW y \in Stored', {mem'[x].src, mem'[y].src} = {"passport_agent"},
                      x # Seed, y # Seed, mem'[x].agent = mem'[y].agent, mem'[x].event = mem'[y].event
               PROVE  mem'[x].run = mem'[y].run
    BY DEF StoredOnce
  <2>1. \A z \in Stored : ~(mem'[z].agent = payload(s).agent /\ mem'[z].event = EventOf(s))
    BY <1>4, <1>9 DEF EventStored
  <2>2. CASE x \in N /\ y \in N
    BY <1>10, <2>2
  <2>3. CASE x \in Stored /\ y \in Stored
    BY <1>9, <2>3 DEF LedgerInv, Shown, StoredOnce
  <2> QED
    BY <1>9, <1>10, <2>1, <2>2, <2>3
<1>19. FirstWordOnly'
  <2> SUFFICES ASSUME NEW x \in Stored', NEW y \in Stored', mem'[x].spoke, mem'[y].spoke, mem'[x].claim = mem'[y].claim
               PROVE  x = y
    BY DEF FirstWordOnly
  <2>1. ASSUME NEW z \in N, mem'[z].spoke, NEW c, c = mem'[z].claim
        PROVE  claim[c].st = None /\ Own(s, c) = {z[2]}
    <3>1. PICK i \in Writes(s) : i = z[2]
      BY <1>8
    <3>2. req[s].staged[i] = "activated" /\ c = ItemClaim(s, i) /\ i \in DOMAIN req[s].staged
      BY <1>5, <1>10, <2>1, <3>1
    <3> QED
      BY <1>1, <3>1, <3>2 DEF SlotAt, DecidedAt
  <2>2. \A z \in Stored : claim[mem'[z].claim].st # None
    BY <1>9 DEF LedgerInv, Shown, Spoken
  <2>3. CASE x \in N /\ y \in N
    <3>1. {x[2]} = {y[2]}
      BY <2>1, <2>3
    <3> QED
      BY <1>8, <2>3, <3>1
  <2>4. CASE x \in Stored /\ y \in Stored
    BY <1>9, <2>4 DEF LedgerInv, Shown, FirstWordOnly
  <2> QED
    BY <1>9, <2>1, <2>2, <2>3, <2>4
<1>20. RevokedNotWritten'
  BY <1>9, <1>10 DEF LedgerInv, Shown, RevokedNotWritten
<1>21. Sourced'
  <2>1. Sourced /\ (req[s].pc # "done" \/ req'[s].pc = "done")
    BY <1>1 DEF LedgerInv, Shown
  <2>2. ASSUME NEW x \in N PROVE OfAgent(x)'
    BY <1>1, <1>4, <1>8, <1>10, JobStays DEF OfAgent
  <2> QED
    BY <1>1, <1>2, <1>8, <1>9, <1>11, <2>1, <2>2, OriginStays DEF Sourced
<1>22. ASSUME NEW t \in Slots \ {s} PROVE SlotAt(t)'
  <2>1. SlotAt(t) /\ EventAt(s)' /\ ClaimAt(s)'
    BY <1>3 DEF LedgerInv, SlotAt
  <2>2. /\ StagedAt(t)' /\ ClaimAt(t)'
        /\ HoldsEvent(t)' => \A u \in Slots \ {t} : HoldsEvent(u)' => ~SameEvent(t, u)'
    BY <1>1, <1>2, <2>1, OthersHold
  <2>3. EventAt(t)'
    <3>1. ASSUME HoldsEvent(t)' PROVE ~EventStored(t)'
      <4>1. HoldsEvent(t) /\ EventOf(t)' = EventOf(t) /\ payload(t)' = payload(t)
        BY <1>1, <1>2, <3>1, HoldStays, JobStays
      <4>2. ~EventStored(t) /\ ~SameEvent(s, t)
        BY <1>4, <2>1, <4>1 DEF SlotAt, EventAt
      <4>3. \A x \in N : ~(mem'[x].agent = payload(t).agent /\ mem'[x].event = EventOf(t))
        BY <1>10, <4>2 DEF SameEvent
      <4> QED
        BY <1>9, <4>1, <4>2, <4>3 DEF EventStored
    <3> QED
      BY <2>2, <3>1 DEF EventAt
  <2>4. DecidedAt(t)'
    <3>1. ASSUME NEW c \in Claims, HoldsClaim(t, c) PROVE claim'[c] = claim[c]
      <4>1. \A i \in Writes(s) : ItemClaim(s, i) # c
        BY <1>1, <1>5, <3>1 DEF SlotAt, ClaimAt, ClaimFree
      <4> QED
        BY <4>1, ClaimCommitted
    <3> QED
      BY <1>1, <1>2, <2>1, <3>1, DecidedStays
  <2>5. AmendAt(t)'
    <3>1. ASSUME NEW c \in Claims, claim'[c].mem # claim[c].mem
          PROVE  claim'[c].mem \notin Stored /\ user.st # "gone"
      <4>1. PICK i \in Own(s, c) : TRUE
        BY <3>1, ClaimCommitted
      <4>2. claim'[c].mem = <<s, i>> /\ i \in Writes(s)
        BY <4>1, ClaimCommitted DEF Own, Writes
      <4> QED
        BY <1>7, <1>8, <1>14, <4>2
    <3> QED
      BY <1>1, <1>2, <1>9, <2>1, <3>1, AmendStays
  <2> QED
    BY <2>2, <2>3, <2>4, <2>5 DEF SlotAt
<1> QED
  BY <1>3, <1>13, <1>15, <1>16, <1>17, <1>18, <1>19, <1>20, <1>21, <1>22 DEF LedgerInv, Shown

LEMMA LedgerStep ==
  ASSUME AllTypes, Standing, ConsentInv, LedgerInv, NEW s \in Slots, Step(s)
  PROVE  RowsTypes' /\ LedgerInv'
<1>1. Clear(s) \/ Ledgers(s)
  <2>1. StagedAt(s)
    BY DEF LedgerInv, SlotAt
  <2> QED
    BY <2>1, StepLedgers
<1>2. CASE Clear(s)
  BY <1>2, ClearKeeps
<1>3. CASE Ledgers(s)
  BY <1>3, JobLockLedger, JobExtractLedger, JobInsertLedger, JobRecordLedger, JobFinalLedger, JobCommitLedger,
     CorrectStageLedger, CorrectCommitLedger, DeleteStageLedger, DeleteCommitLedger, FlagLedger, EraseLedger DEF Ledgers
<1> QED
  BY <1>1, <1>2, <1>3

\* Nothing of the ledger depends on who was cut off.
LEMMA UnmovedLedger ==
  ASSUME AllTypes, LedgerInv, UNCHANGED <<scenario, user, mem, claim>>, \A t \in Slots : Alike(req'[t], req[t])
  PROVE  RowsTypes' /\ LedgerInv'
<1>1. \A t \in Slots : /\ req'[t].pc = req[t].pc /\ req'[t].staged = req[t].staged /\ req'[t].seen = req[t].seen
                       /\ ask(t)' = ask(t) /\ payload(t)' = payload(t) /\ EventOf(t)' = EventOf(t)
  BY JobStays DEF Alike
<1>2. RowsTypes' /\ Stored' = Stored
  BY DEF AllTypes, RowsTypes, Stored
<1>3. ASSUME NEW t \in Slots
      PROVE  /\ HoldsEvent(t)' <=> HoldsEvent(t)
             /\ Inserted(t)' <=> Inserted(t)
             /\ \A c : HoldsClaim(t, c)' <=> HoldsClaim(t, c)
             /\ \A c : Own(t, c)' = Own(t, c)
  BY <1>1 DEF HoldsEvent, Inserted, HoldsClaim, Own, Does
<1>4. ASSUME NEW t \in Slots PROVE SlotAt(t)'
  <2>1. SlotAt(t)
    BY DEF LedgerInv
  <2>2. StagedAt(t)'
    BY <1>1, <2>1 DEF SlotAt, StagedAt
  <2>3. EventAt(t)'
    BY <1>1, <1>2, <1>3, <2>1, SameStays DEF SlotAt, EventAt, EventStored
  <2>4. ClaimAt(t)'
    BY <1>3, <2>1 DEF SlotAt, ClaimAt, ClaimFree
  <2>5. DecidedAt(t)'
    BY <1>1, <1>3, <2>1 DEF SlotAt, DecidedAt, ItemClaim
  <2>6. AmendAt(t)'
    BY <1>1, <1>2, <2>1 DEF SlotAt, AmendAt, Unnamed
  <2> QED
    BY <2>2, <2>3, <2>4, <2>5, <2>6 DEF SlotAt
<1>5. GoneClean'
  BY <1>2, <1>3 DEF LedgerInv, GoneClean
<1>6. Sourced'
  <2> SUFFICES ASSUME NEW m \in Stored
               PROVE  /\ m # Seed => m[1] \in Slots /\ (OfAgent(m)' \/ OfOwner(m)')
                      /\ m = Seed => mem'[m].event = <<"job", 0>>
    BY <1>2 DEF Sourced
  <2>1. m = Seed => mem'[m].event = <<"job", 0>>
    BY DEF LedgerInv, Shown, Sourced
  <2>2. ASSUME m # Seed PROVE m[1] \in Slots /\ (OfAgent(m)' \/ OfOwner(m)')
    <3>1. m[1] \in Slots /\ (OfAgent(m) \/ OfOwner(m))
      BY <2>2 DEF LedgerInv, Shown, Sourced
    <3> QED
      BY <1>1, <3>1 DEF OfAgent, OfOwner
  <2> QED
    BY <2>1, <2>2
<1>7. Backed' /\ Spoken' /\ StoredOnce' /\ FirstWordOnly' /\ RevokedNotWritten'
  BY <1>2 DEF LedgerInv, Shown, Backed, Spoken, StoredOnce, FirstWordOnly, RevokedNotWritten
<1> QED
  BY <1>2, <1>4, <1>5, <1>6, <1>7 DEF LedgerInv, Shown

-----------------------------------------------------------------------------
(* The invariant of the Passport.                                            *)

PassportInv == AllTypes /\ Standing /\ Opened /\ AccountInv /\ ConsentInv /\ LedgerInv

LEMMA StepKeeps ==
  ASSUME PassportInv, NEW s \in Slots, Step(s)
  PROVE  PassportInv'
<1>1. Admits(s) /\ SlotTypes'
  BY StepAdmits DEF PassportInv, Admits, Moved, AllTypes, SlotTypes
<1>2. Standing'
  BY <1>1, StandingStep DEF PassportInv
<1>3. AccountTypes' /\ Opened' /\ AccountInv'
  BY AccountStep DEF PassportInv
<1>4. ConsentTypes' /\ ConsentInv'
  BY ConsentStep DEF PassportInv
<1>5. RowsTypes' /\ LedgerInv'
  BY LedgerStep DEF PassportInv
<1> QED
  BY <1>1, <1>2, <1>3, <1>4, <1>5 DEF PassportInv, AllTypes

LEMMA ExpireKeeps ==
  ASSUME PassportInv, NEW a \in Agents, ExpireGrant(a)
  PROVE  PassportInv'
<1>1. /\ UNCHANGED <<scenario, user, cached, otp, mixed, mem, claim>> /\ events' = events + 1
  BY DEF ExpireGrant, idVars, memVars, Fault
<1>2. ConsentTypes' /\ ConsentInv' /\ req' \in [Slots -> Local] /\ \A t \in Slots : Alike(req'[t], req[t])
  BY ExpireConsent DEF PassportInv
<1>3. AccountTypes' /\ Opened' /\ AccountInv' /\ Standing'
  BY <1>1, <1>2, UnmovedAccount DEF PassportInv
<1>4. RowsTypes' /\ LedgerInv'
  BY <1>1, <1>2, UnmovedLedger DEF PassportInv
<1> QED
  BY <1>1, <1>2, <1>3, <1>4 DEF PassportInv, AllTypes, SlotTypes

LEMMA ConsentUnmoved ==
  ASSUME ConsentTypes, ConsentInv, UNCHANGED <<scenario, req, agent, grant, link, conn>>, user'.st = user.st
  PROVE  ConsentTypes' /\ ConsentInv'
  BY DEF ConsentTypes, ConsentInv, OneOwner, CutAt, OwnerAt, Linked, WriteGrant, Current, payload, job, ask

LEMMA LapseKeeps ==
  ASSUME PassportInv, LapseOtp
  PROVE  PassportInv'
<1>1. /\ UNCHANGED <<scenario, req, user, agent, grant, link, conn, mem, claim>>
      /\ \A t \in Slots : Alike(req'[t], req[t])
  BY DEF LapseOtp, consentVars, orgVars, memVars, Alike
<1>2. AccountTypes' /\ Opened' /\ AccountInv'
  BY <1>1, LapseOtpAccount DEF PassportInv, Opened, UnderWay
<1>3. ConsentTypes' /\ ConsentInv'
  BY <1>1, ConsentUnmoved DEF PassportInv, AllTypes
<1>4. RowsTypes' /\ LedgerInv'
  BY <1>1, UnmovedLedger DEF PassportInv
<1>5. Standing' /\ SlotTypes'
  BY <1>1 DEF PassportInv, Standing, ask, AllTypes, SlotTypes
<1> QED
  BY <1>2, <1>3, <1>4, <1>5 DEF PassportInv, AllTypes

LEMMA RestKeeps ==
  ASSUME PassportInv, UNCHANGED passportVars
  PROVE  PassportInv'
<1>1. /\ UNCHANGED <<scenario, req, user, cached, otp, mixed, agent, grant, link, conn, mem, claim, events>>
      /\ \A t \in Slots : Alike(req'[t], req[t])
  BY DEF passportVars, Alike
<1>2. AccountTypes' /\ Opened' /\ AccountInv' /\ Standing'
  BY <1>1, UnmovedAccount DEF PassportInv
<1>3. ConsentTypes' /\ ConsentInv'
  BY <1>1, ConsentUnmoved DEF PassportInv, AllTypes
<1>4. RowsTypes' /\ LedgerInv'
  BY <1>1, UnmovedLedger DEF PassportInv
<1>5. SlotTypes'
  BY <1>1 DEF PassportInv, AllTypes, SlotTypes
<1> QED
  BY <1>2, <1>3, <1>4, <1>5 DEF PassportInv, AllTypes

LEMMA EmptySize ==
  ASSUME NEW A, A = {}
  PROVE  Cardinality(A) = 0
  BY FS_EmptySet

LEMMA InitTypes ==
  ASSUME PassportInit
  PROVE  AllTypes
<1>1. SlotTypes
  BY SeedIs DEF PassportInit, SlotTypes
<1>2. AccountTypes
  BY DEF PassportInit, AccountTypes, User, Otp, None
<1>3. ConsentTypes
  <2>1. PICK z \in {None, "active", "revoked"} : z = IF Scenarios[scenario].seed THEN "active" ELSE None
    OBVIOUS
  <2>2. PICK r : r = [st |-> z, rw |-> TRUE, cats |-> Categories, late |-> FALSE, marked |-> FALSE]
    OBVIOUS
  <2>3. r \in Grant
    BY <2>2 DEF Grant
  <2>4. grant = [a \in Agents |-> r]
    BY <2>1, <2>2 DEF PassportInit
  <2>5. agent \in [Agents -> BOOLEAN] /\ grant \in [Agents -> Grant]
    BY <2>3, <2>4 DEF PassportInit
  <2>6. link \in Link /\ conn \in [Users -> Connection]
    BY DEF PassportInit, Link, Connection, None
  <2> QED
    BY <2>5, <2>6 DEF ConsentTypes
<1>4. RowsTypes
  <2>1. PICK x \in Memory : x = SeedMemory
    BY SeedIs
  <2>2. PICK S \in SUBSET {Seed} : S = IF Scenarios[scenario].seed THEN {Seed} ELSE {}
    OBVIOUS
  <2>3. mem = [m \in S |-> x]
    BY <2>1, <2>2 DEF PassportInit
  <2>4. Stored \in SUBSET MemIds /\ mem \in [Stored -> Memory]
    BY <2>3, SeedIs DEF Stored
  <2>5. PICK p \in Claim, q \in Claim : p = [st |-> "active", mem |-> Seed, val |-> SeedValue] /\ q = NoClaim
    BY SeedIs DEF Claim, NoClaim
  <2>6. claim = [c \in Claims |-> IF c = SeedClaim /\ Scenarios[scenario].seed THEN p ELSE q]
    BY <2>5 DEF PassportInit
  <2> QED
    BY <2>4, <2>6 DEF RowsTypes
<1> QED
  BY <1>1, <1>2, <1>3, <1>4 DEF AllTypes

LEMMA InitSlots ==
  ASSUME PassportInit
  PROVE  \A s \in Slots : /\ req[s].pc = "new" /\ req[s].tries = 0 /\ req[s].staged = <<>> /\ ~req[s].cut
                          /\ DOMAIN req[s].staged = {}
  BY DEF PassportInit, Fresh

LEMMA InitAccount ==
  ASSUME PassportInit
  PROVE  Standing /\ Opened /\ AccountInv
<1>1. \A s \in Slots : req[s].pc = "new" /\ req[s].tries = 0
  BY InitSlots
<1>2. {OtpLimit, SendLimit, MaxRetries} \subseteq Nat \ {0} /\ {MaxOpen, MaxEvents} \subseteq Nat
  BY PassportAssumption
<1>3. Standing
  BY <1>1, <1>2 DEF Standing, PlaceOK, JobPcs
<1>4. /\ Cardinality(UnderWay) = 0 /\ Cardinality(Sending) = 0 /\ Cardinality(Are({"count"})) = 0
      /\ Cardinality(Are({"count", "bar"})) = 0 /\ Cardinality(Are({"compare"})) = 0
  <2>1. UnderWay = {} /\ Sending = {}
    BY <1>1 DEF UnderWay, Sending, Sends
  <2>2. Are({"count"}) = {} /\ Are({"count", "bar"}) = {} /\ Are({"compare"}) = {}
    BY <1>1 DEF Are
  <2> QED
    BY <2>1, <2>2, EmptySize
<1>5. Opened
  BY <1>2, <1>4 DEF Opened
<1>6. otp.sent = 0 /\ otp.guesses = 0 /\ otp.fails = 0 /\ events = 0
  BY DEF PassportInit
<1>7. Counted
  BY <1>2, <1>4, <1>6 DEF Counted, SentCount, FailCount, LockCount, GuessCount
<1>8. Unborn
  BY <1>1, <1>6 DEF Unborn, PassportInit, None
<1>9. TokenHeld
  BY <1>1 DEF TokenHeld, InForce, TokenAt, OneSwap, PassportInit, None
<1> QED
  BY <1>3, <1>5, <1>7, <1>8, <1>9 DEF AccountInv

LEMMA InitConsent ==
  ASSUME PassportInit
  PROVE  ConsentInv
<1>1. OneOwner
  BY DEF PassportInit, OneOwner, None
<1> QED
  BY <1>1, InitSlots DEF ConsentInv, CutAt, OwnerAt

LEMMA InitLedger ==
  ASSUME PassportInit
  PROVE  LedgerInv
<1>1. AllTypes
  BY InitTypes
<1>2. ASSUME NEW s \in Slots PROVE SlotAt(s) /\ ~Inserted(s)
  <2>1. req[s].pc = "new" /\ req[s].staged = <<>> /\ DOMAIN req[s].staged = {}
    BY InitSlots
  <2>2. ~Inserted(s) /\ (\A c : ~HoldsClaim(s, c)) /\ ~HoldsEvent(s)
    BY <2>1 DEF Inserted, HoldsClaim, HoldsEvent, Does
  <2> QED
    BY <2>1, <2>2 DEF SlotAt, StagedAt, EventAt, ClaimAt, DecidedAt, AmendAt, Storing
<1>3. GoneClean
  BY DEF PassportInit, GoneClean, None
<1>4. /\ Stored \in SUBSET {Seed} /\ (Seed \in Stored <=> Scenarios[scenario].seed)
      /\ \A m \in Stored : mem[m] = SeedMemory
  BY DEF PassportInit, Stored
<1>5. PICK x : x = SeedMemory
  OBVIOUS
<1>6. /\ x.st = "live" /\ x.src = "passport_agent" /\ x.event = <<"job", 0>> /\ x.claim = SeedClaim
      /\ x.val = SeedValue
      /\ x.cut = FALSE
  BY <1>5 DEF SeedMemory
<1>7. \A c \in Claims : claim[c] = IF c = SeedClaim /\ Scenarios[scenario].seed
                                   THEN [st |-> "active", mem |-> Seed, val |-> SeedValue] ELSE NoClaim
  BY DEF PassportInit
<1>8. Sourced
  BY <1>4, <1>5, <1>6 DEF Sourced
<1>9. Backed
  <2> SUFFICES ASSUME NEW c \in Claims, claim[c].mem # NoMem
               PROVE  /\ claim[c].mem \in Stored /\ mem[claim[c].mem].st = "live"
                      /\ mem[claim[c].mem].claim = c /\ mem[claim[c].mem].val = claim[c].val
    BY DEF Backed
  <2>1. c = SeedClaim /\ Scenarios[scenario].seed
    BY <1>7 DEF NoClaim
  <2>2. claim[c].mem = Seed /\ claim[c].val = SeedValue /\ Seed \in Stored
    BY <1>4, <1>7, <2>1
  <2> QED
    BY <1>4, <1>5, <1>6, <2>1, <2>2
<1>10. Spoken
  <2> SUFFICES ASSUME NEW m \in Stored PROVE claim[mem[m].claim].st # None
    BY DEF Spoken
  <2>1. mem[m].claim = SeedClaim /\ Scenarios[scenario].seed /\ SeedClaim \in Claims
    BY <1>4, <1>5, <1>6, SeedIs
  <2> QED
    BY <1>7, <2>1 DEF None
<1>11. StoredOnce /\ FirstWordOnly /\ RevokedNotWritten
  BY <1>4, <1>5, <1>6 DEF StoredOnce, FirstWordOnly, RevokedNotWritten
<1> QED
  BY <1>2, <1>3, <1>8, <1>9, <1>10, <1>11 DEF LedgerInv, Shown

\* The invariant holds of every run of a Passport: where each request stands and what it has read,
\* who is counted against the limits, whose the organisation's account is, and which memory every
\* claim shows (uui_service.py, routers/uui.py, universal_extraction_tasks.py).
THEOREM PassportInvariant == PassportSpec => []PassportInv
<1>1. PassportInit => PassportInv
  BY InitTypes, InitAccount, InitConsent, InitLedger DEF PassportInv
<1>2. PassportInv /\ [PassportNext]_passportVars => PassportInv'
  <2> SUFFICES ASSUME PassportInv, [PassportNext]_passportVars PROVE PassportInv'
    OBVIOUS
  <2>1. CASE UNCHANGED passportVars
    BY <2>1, RestKeeps
  <2>2. ASSUME NEW s \in Slots, Step(s) PROVE PassportInv'
    BY <2>2, StepKeeps
  <2>3. CASE LapseOtp
    BY <2>3, LapseKeeps
  <2>4. ASSUME NEW a \in Agents, ExpireGrant(a) PROVE PassportInv'
    BY <2>4, ExpireKeeps
  <2>5. CASE Over
    BY <2>5, RestKeeps DEF Over
  <2> QED
    BY <2>1, <2>2, <2>3, <2>4, <2>5 DEF PassportNext
<1> QED
  BY <1>1, <1>2, PTL DEF PassportSpec

\* Rows, counters and what a request carries keep their types through every step of the routers and
\* of extract_universal_memory.
THEOREM PassportTypes == PassportSpec => []PassportTypeOK
<1>1. PassportInv => PassportTypeOK
  <2> SUFFICES ASSUME PassportInv PROVE PassportTypeOK
    OBVIOUS
  <2>1. AllTypes /\ Standing
    BY DEF PassportInv
  <2>2. ASSUME NEW s \in Slots PROVE req[s] \in Local /\ req[s].tries <= MaxRetries /\ Len(req[s].staged) <= 2
    <3>1. req[s] \in Local
      BY <2>1 DEF AllTypes, SlotTypes
    <3>2. req[s].tries <= MaxRetries
      BY <2>1 DEF Standing, PlaceOK
    <3>3. StagedAt(s)
      BY DEF PassportInv, LedgerInv, SlotAt
    <3>4. CASE req[s].pc \in Storing
      <4>1. Len(payload(s).items) \in Nat /\ Len(payload(s).items) <= 2 /\ Len(req[s].staged) \in Nat
        BY <2>1, <3>4, JobItems, StagedIs DEF Storing, JobPcs
      <4> QED
        BY <3>1, <3>2, <3>3, <3>4, <4>1 DEF StagedAt
    <3>5. CASE req[s].pc \notin Storing
      BY <3>1, <3>2, <3>3, <3>5 DEF StagedAt
    <3> QED
      BY <3>1, <3>2, <3>4, <3>5
  <2> QED
    BY <2>1, <2>2 DEF PassportTypeOK, AllTypes, AccountTypes, ConsentTypes, RowsTypes
<1> QED
  BY <1>1, PassportInvariant, PTL

\* Whatever revocations, retirements, expiries and new grants overlap an extraction, and however often
\* it is retried or delivered again, a job whose grant ended before its last look at it stores nothing
\* (_active_write_grant in universal_extraction_tasks.py).
THEOREM RevokedLeavesNothing == PassportSpec => []RevokedNotWritten
<1>1. PassportInv => RevokedNotWritten
  BY DEF PassportInv, LedgerInv, Shown
<1> QED
  BY <1>1, PassportInvariant, PTL

\* For any number of jobs, corrections, removals and deliveries: one run stores an event, the memory a
\* claim calls active is live and says the claim's value, and at most one agent's memory of a claim was
\* ever live (_lock_event_delivery, universal_claim_ledger_service.py).
THEOREM ClaimsAreKept == PassportSpec => []ClaimsKept
<1>1. PassportInv => ClaimsKept
  <2>1. Backed => ClaimBacked
    BY DEF Backed, ClaimBacked
  <2> QED
    BY <2>1 DEF PassportInv, LedgerInv, Shown, ClaimsKept
<1> QED
  BY <1>1, PassportInvariant, PTL

\* For any limits and however requests overlap: an organisation's account belongs to one user's
\* connections, wrong codes and mails are bounded by the limits and what was under way, and no replaced
\* token is cached unless a use of it overlapped the regeneration (uui_service.py, routers/uui.py).
THEOREM IdentityIsKept == PassportSpec => []IdentityKept
<1>1. PassportInv => IdentityKept
  <2> SUFFICES ASSUME PassportInv PROVE OneOwner /\ LimitsHold /\ ReplacedForgotten
    BY DEF IdentityKept
  <2>1. OneOwner
    BY DEF PassportInv, ConsentInv
  <2>2. ReplacedForgotten
    BY DEF PassportInv, AccountInv, TokenHeld, InForce, ReplacedForgotten
  <2>3. PICK a, b : a = Cardinality(Sending) /\ b = Cardinality(Are({"compare"}))
    OBVIOUS
  <2>4. a \in Nat /\ b \in Nat
    <3>1. Sending \in SUBSET Slots /\ Are({"compare"}) \in SUBSET Slots
      BY DEF Sending, Are
    <3> QED
      BY <2>3, <3>1, SizeOf
  <2>5. /\ otp.sent \in Nat /\ otp.guesses \in Nat /\ events \in Nat /\ OtpLimit \in Nat /\ SendLimit \in Nat
        /\ MaxOpen \in Nat
    BY PassportAssumption DEF PassportInv, AllTypes, AccountTypes, Otp
  <2>6. /\ otp.sent + a <= SendLimit - 1 + MaxOpen /\ otp.guesses + b <= OtpLimit - 1 + MaxOpen + events
    BY <2>3 DEF PassportInv, AccountInv, Counted, SentCount, GuessCount
  <2>7. LimitsHold
    BY <2>4, <2>5, <2>6 DEF LimitsHold
  <2> QED
    BY <2>1, <2>2, <2>7
<1> QED
  BY <1>1, PassportInvariant, PTL

=============================================================================
