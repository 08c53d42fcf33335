--------------------------- MODULE MCProviderCalls ---------------------------
(* Two calls that share a provider from two processes, two of one process   *)
(* with another provider to fall back on, and two to the index.             *)
EXTENDS ProviderCalls
Apart == [c \in Calls |-> IF c = 1 THEN "a" ELSE "b"]
Together == [c \in Calls |-> "a"]
Two(proc, order, x, y, up, then) ==
  [proc |-> proc, order |-> [c \in Calls |-> order], guarded |-> {},
   works |-> [p \in Services |-> IF p = "x" THEN x ELSE y], redis |-> up, then |-> then]
Index(k) == [k EXCEPT !.guarded = Calls]
Turns(w) == [what |-> "works", on |-> "x", to |-> w]
Redis == [what |-> "redis"]
Dies == [what |-> "crash", on |-> "a"]
AllPlans == <<
  Two(Apart, <<"x">>, "down", "up", TRUE, <<Turns("up")>>),
  Two(Apart, <<"x">>, "hung", "up", TRUE, <<Redis, Redis>>),
  Two(Apart, <<"x">>, "slow", "up", TRUE, <<Dies, Turns("down")>>),
  Two(Together, <<"x", "y">>, "refusing", "up", TRUE, <<Turns("up")>>),
  Two(Together, <<"x", "y">>, "limited", "down", TRUE, <<>>),
  Two(Apart, <<"x">>, "down", "up", FALSE, <<Redis, Turns("up")>>),
  Index(Two(Apart, <<"x">>, "down", "up", TRUE, <<Turns("up")>>)),
  Index(Two(Together, <<"x">>, "refusing", "up", TRUE, <<Redis, Turns("hung"), Redis, Turns("up")>>)) >>
MCPlans == {AllPlans[k] : k \in DOMAIN AllPlans}
=============================================================================
