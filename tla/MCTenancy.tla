----------------------------- MODULE MCTenancy -----------------------------
(***************************************************************************)
(* One tenant, two keys, plans of two and three calls a month.  Each       *)
(* script puts a few requests, workers or webhooks beside each other and   *)
(* lets entries expire, the month begin or Redis fail at any moment.       *)
(***************************************************************************)
EXTENDS Tenancy

AKey(s) == [st |-> s, may |-> TRUE]
Usual == [k1 |-> AKey("active"), k2 |-> [st |-> "active", may |-> FALSE]]
Both == [k1 |-> AKey("active"), k2 |-> AKey("active")]
Fresh == [Usual EXCEPT !.k2 = AKey("none")]
NoTenant == [row |-> "none", plan |-> "free"]
T(p) == [row |-> "active", plan |-> p]
NoBudget == [NewBudget EXCEPT !.row = FALSE]
B(p, n) == [NewBudget EXCEPT !.plan = p, !.limits = p, !.calls = n]
Sub(s) == [plan |-> "starter", status |-> s, row |-> TRUE, fresh |-> TRUE]

Call(k, q) == [op |-> "call", key |-> k, query |-> q, good |-> TRUE, dedup |-> TRUE]
Service == [Call("k1", "q1") EXCEPT !.dedup = FALSE]
Poor(k) == [Call(k, "q1") EXCEPT !.good = FALSE]
Op(o) == [op |-> o]
Key(o, k) == [op |-> o, key |-> k]
Plan(o, p) == [op |-> o, plan |-> p]
Verify(s) == [op |-> "verify", sub |-> s]
Event(i, t, s) == [op |-> "event", id |-> i, type |-> t, sub |-> s, plan |-> "starter"]

S(t, b, ks, ss, asked, then) ==
  [tenant |-> t, budget |-> b, keys |-> ks, subs |-> ss, asked |-> asked, then |-> then]

AllScripts == <<
  S(T("free"), B("free", 0), Usual, <<>>, <<Service, Poor("k1"), Key("revoke", "k1")>>, <<"authEnds">>),
  S(T("free"), B("free", 0), Usual, <<>>, <<Poor("k1"), Poor("k1"), Poor("k1")>>, <<"minute">>),
  S(T("free"), B("free", 0), Both, <<>>, <<Poor("k1"), Poor("k1"), Poor("k2"), Poor("k2")>>, <<>>),
  S(T("free"), B("free", 0), Fresh, <<>>, <<Key("create", "k2"), Call("k2", "q1"), Call("k1", "q1")>>, <<"redis">>),
  S(T("free"), B("free", 0), Usual, <<>>, <<Call("k1", "q1"), Call("k1", "q2"), Call("k2", "q1")>>, <<"queriesEnd">>),
  S(T("free"), B("free", 1), Usual, <<>>, <<Service, Op("usage"), Service, Op("usage")>>, <<>>),
  S(T("free"), B("free", 2), Usual, <<>>, <<Service, Op("alert"), Op("reset"), Op("reset")>>, <<"month", "quotaEnds">>),
  S(T("starter"), B("starter", 2), Usual, <<>>, <<Service, Op("usage"), Op("reset")>>, <<"month">>),
  S(T("free"), B("free", 1), Usual, <<>>, <<Service, Op("usage"), Plan("plan", "starter")>>, <<"redis", "quotaEnds">>),
  S(T("free"), B("free", 1), Usual, <<>>, <<Service, Op("usage"), Plan("checkout", "starter")>>, <<>>),
  S(NoTenant, NoBudget, Usual, <<>>, <<Op("org"), Op("org"), Op("orgCreated"), Op("orgDeleted")>>, <<"orgEnds">>),
  S(T("free"), NoBudget, Usual, <<>>, <<Op("usage"), Plan("plan", "starter"), Plan("checkout", "starter"), Service>>,
    <<>>),
  S(T("free"), B("free", 0), Usual, <<Sub("authenticated")>>,
    <<Op("orgCreated"), Event(1, "activated", 1), Op("org")>>, <<"month">>),
  S(T("free"), B("free", 0), Usual, <<>>,
    <<Plan("checkout", "starter"), Plan("checkout", "starter"), Verify(1), Event(1, "activated", 1)>>, <<"halfhour">>),
  S(T("starter"), B("starter", 1), Usual, <<Sub("active"), Sub("created")>>,
    <<Event(1, "cancelled", 1), Event(2, "activated", 2), Event(2, "activated", 2), Verify(2)>>, <<>>),
  S(T("starter"), B("starter", 1), Usual, <<Sub("active")>>,
    <<Event(1, "cancelled", 1), Event(1, "cancelled", 1), Event(2, "authenticated", 1), Plan("checkout", "starter")>>,
    <<>>),
  S(T("free"), B("free", 1), Usual, <<Sub("created")>>,
    <<Event(1, "activated", 1), [Event(2, "activated", 1) EXCEPT !.plan = "free"], Op("org"), Service>>, <<>>)
  >>
MCScripts == [k \in DOMAIN AllScripts |-> AllScripts[k]]
MCCallLimit == [free |-> 2, starter |-> 3]
MCUserRate == [none |-> 2, free |-> 1, starter |-> 2]
=============================================================================
