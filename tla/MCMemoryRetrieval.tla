------------------------- MODULE MCMemoryRetrieval -------------------------
(***************************************************************************)
(* Three memories, two processes, up to three requests.  Each script puts  *)
(* one kind of change beside the reads: an edit, a deletion, an extraction,*)
(* a hold, the clock, a re-embedding, a claim, the user, an outage.        *)
(***************************************************************************)
EXTENDS MemoryRetrieval

N == [row |-> "none", rev |-> 0, when |-> "always", model |-> "new"]
L == [row |-> "live", rev |-> 1, when |-> "always", model |-> "new"]
O == [L EXCEPT !.model = "old"]
Until == [L EXCEPT !.when = "now"]
Planned == [L EXCEPT !.row = "scheduled", !.when = "later"]

Ask(op, p, m) == [op |-> op, proc |-> p, m |-> m, quota |-> "full"]
Low(q) == [Ask("read", 1, 1) EXCEPT !.quota = q]
Ev(w) == [what |-> w]
At1(w, m) == [what |-> w, m |-> m]
By(m, n) == [what |-> "supersede", m |-> m, by |-> n]
S(mem0, h, c, src, rt, asked, then) ==
  [mem |-> mem0, hot |-> h, cached |-> c, sourced |-> src, routed |-> rt, asked |-> asked, then |-> then]
Read1 == Ask("read", 1, 1)
Read2 == Ask("read", 2, 1)

AllScripts == <<
  S(<<L, L, N>>, {1}, {1, 2}, {}, FALSE, <<Read1, Ask("update", 2, 1), Read1>>, <<>>),
  S(<<L, L, N>>, {}, {}, {}, FALSE, <<Read1, Ask("promote", 1, 1), Ask("update", 2, 1)>>, <<>>),
  S(<<L, L, N>>, {}, {1, 2}, {}, FALSE, <<Read1, Ask("archive", 1, 2), Read2>>, <<Ev("redis")>>),
  S(<<L, L, N>>, {1, 2}, {}, {}, TRUE, <<Read1, Ask("delete", 2, 2)>>, <<Ev("hold"), Ev("release")>>),
  S(<<L, N, N>>, {}, {1}, {}, FALSE, <<Read1, Read2>>, <<At1("add", 2), At1("deliver", 2)>>),
  S(<<Until, Planned, L>>, {1}, {}, {}, FALSE, <<Read1, Ask("asof", 1, 1)>>,
    <<At1("begin", 2), At1("activate", 2), At1("end", 1), At1("expire", 1)>>),
  S(<<O, O, L>>, {}, {}, {}, FALSE, <<Read1, Read1>>, <<At1("move", 1), At1("remodel", 1)>>),
  S(<<L, N, L>>, {1}, {1}, {1, 2}, FALSE, <<Read1, Read2>>,
    <<By(1, 2), Ev("correction"), Ev("release"), At1("deliver", 1)>>),
  S(<<L, Until, L>>, {}, {}, {1, 2}, TRUE, <<Read1, Ask("delete", 1, 2)>>,
    <<By(1, 2), At1("end", 2), At1("expire", 2)>>),
  S(<<L, L, N>>, {1}, {1, 2}, {}, FALSE, <<Read1, Ask("list", 2, 1), Ask("update", 1, 2)>>,
    <<Ev("block"), Ev("unblock"), Ev("erase")>>),
  S(<<L, L, L>>, {}, {}, {}, FALSE, <<Ask("list", 1, 1), Ask("delete", 2, 2), Ask("delete", 1, 3)>>,
    <<At1("decay", 1)>>),
  S(<<L, L, N>>, {1}, {}, {}, FALSE, <<Read1, Read2>>, <<Ev("index"), Ev("index"), At1("decay", 2)>>),
  S(<<L, L, N>>, {1, 2}, {1}, {}, TRUE, <<Low("degraded_retrieve"), Low("blocked"), Read2>>,
    <<At1("withhold", 1), Ev("release")>>),
  S(<<L, L, N>>, {1, 2}, {1}, {}, TRUE, <<Read2, Ask("update", 1, 1)>>, <<At1("withhold", 1)>>),
  S(<<L, L, L>>, {}, {}, {1, 2}, TRUE, <<Read1>>, <<At1("withhold", 1), At1("decay", 2)>>),
  S(<<L, L, L>>, {1, 2, 3}, {}, {}, FALSE, <<Read1, Ask("archive", 1, 1)>>, <<At1("deliver", 1)>>),
  S(<<Until, Planned, L>>, {}, {}, {1, 2}, FALSE, <<Read1>>, <<At1("begin", 2), At1("activate", 2)>>)
  >>
MCScripts == [k \in DOMAIN AllScripts |-> AllScripts[k]]
=============================================================================
