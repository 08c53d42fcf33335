----------------------------- MODULE MCPassport -----------------------------
(* Five requests to a scenario, and the scenarios in which they get in each  *)
(* other's way.                                                              *)
EXTENDS Passport

MCSlots == 1 .. 5
Cats == {"fact", "goal"}
Ask(op) == [op |-> op, who |-> 1, agent |-> "a", tok |-> 0, code |-> 0, cap |-> FALSE,
            link |-> FALSE, rw |-> TRUE, cats |-> Cats, key |-> 0, of |-> 0, items |-> <<>>,
            mem |-> Seed]
Idle == Ask("idle")
It(c, v, k) == [claim |-> c, val |-> v, cat |-> k]
Add(key, items) == [Ask("add") EXCEPT !.key = key, !.items = items]
Capable(r) == [r EXCEPT !.cap = TRUE]
Deliver2(s) == [Ask("deliver") EXCEPT !.of = s]
By2(r) == [r EXCEPT !.who = 2]
WithLink(r) == [r EXCEPT !.link = TRUE]
ReadOnly(r) == [r EXCEPT !.rw = FALSE]
Only(r, cats) == [r EXCEPT !.cats = cats]
Code(s) == [Ask("verify") EXCEPT !.code = s]
Holding(r, s) == [r EXCEPT !.tok = s]
Correct(m, c, v) == [Ask("correct") EXCEPT !.mem = m, !.items = <<It(c, v, "fact")>>]
Five(a, b, c, d, e, seed) == [seed |-> seed, ask |-> <<a, b, c, d, e>>]

AllScenarios == <<
  \* codes and tokens
  Five(Ask("sendotp"), Code(1), Code(0), Code(0), Code(0), TRUE),
  Five(Code(0), Code(0), Code(0), Code(0), Code(0), TRUE),
  Five(Ask("sendotp"), Ask("sendotp"), Ask("sendotp"), Ask("sendotp"), Ask("sendotp"), TRUE),
  Five(Ask("register"), Ask("register"), Holding(Ask("retrieve"), 1), Code(1), Idle, FALSE),
  Five(Ask("regenerate"), Ask("regenerate"), Ask("retrieve"), Holding(Ask("retrieve"), 1), Idle, TRUE),
  Five(Ask("sendotp"), Code(1), Ask("regenerate"), Ask("retrieve"), Idle, TRUE),
  \* erasure
  Five(Ask("erase"), Add(0, <<It("c", 1, "fact")>>), Ask("grant"), Ask("delete"), Idle, TRUE),
  Five(Ask("erase"), Ask("regenerate"), Correct(Seed, "c", 2), Ask("flag"), Idle, TRUE),
  \* grants while a job runs
  Five(Add(1, <<It("d", 1, "fact"), It("d", 2, "goal")>>), Ask("revoke"), Ask("grant"), Ask("revoke"), Idle, TRUE),
  Five(Add(0, <<It("d", 1, "fact"), It("c", 2, "goal")>>), Only(Ask("narrow"), {"goal"}), ReadOnly(Ask("grant")), Deliver2(1), Idle, TRUE),
  Five(Add(0, <<It("d", 1, "fact")>>), Ask("retire"), Ask("grant"), Capable(Ask("retrieve")), Idle, TRUE),
  \* one event several times
  Five(Add(1, <<It("c", 1, "fact"), It("d", 1, "fact")>>), Add(1, <<It("c", 1, "fact"), It("d", 1, "fact")>>), Deliver2(1), Idle, Idle, TRUE),
  Five(Add(1, <<It("c", 1, "fact"), It("d", 1, "fact")>>), Add(2, <<It("d", 2, "fact"), It("c", 1, "fact")>>), Ask("grant"), Idle, Idle, TRUE),
  \* the owner's word
  Five(Add(0, <<It("c", 2, "fact")>>), Correct(Seed, "c", 2), Ask("delete"), Ask("flag"), Idle, TRUE),
  Five(Correct(Seed, "c", 2), Correct(Seed, "d", 2), Add(0, <<It("d", 1, "fact")>>), Ask("delete"), Idle, TRUE),
  Five(Ask("delete"), Ask("delete"), Add(0, <<It("c", 1, "fact")>>), Add(0, <<It("c", 2, "fact")>>), Idle, TRUE),
  Five(Ask("flag"), Ask("flag"), Ask("unflag"), Ask("delete"), Idle, TRUE),
  \* organisations
  Five(Ask("issue"), WithLink(Ask("grant")), By2(WithLink(Ask("grant"))), Ask("disconnect"), Ask("issue"), TRUE),
  Five(Ask("oauth"), By2(Ask("oauth")), Ask("callback"), Ask("callback"), Ask("disconnect"), TRUE),
  Five(Ask("issue"), WithLink(Ask("grant")), By2(Ask("oauth")), Ask("callback"), Ask("erase"), TRUE)
>>
MCScenarios == [k \in DOMAIN AllScenarios |-> AllScenarios[k]]
=============================================================================
