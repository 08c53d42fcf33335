------------------------- MODULE MCMemoryExtraction -------------------------
(* One conversation of two jobs: proposals p and q with the user's reply,   *)
(* and a request that sends q again or a new proposal r with the same reply, *)
(* before, after or at once.                                                *)
EXTENDS MemoryExtraction, TLC

T(denied, all, denial, picks, names, replaces) ==
  [denied |-> denied, denyAll |-> all, denial |-> denial, picks |-> picks, names |-> names,
   replaces |-> replaces, question |-> FALSE]
TheDarkOne == [T({}, FALSE, TRUE, 0, {2}, FALSE) EXCEPT !.question = TRUE]
NotFirstSecond == T({1}, TRUE, TRUE, 2, {}, FALSE)
NoRather == T({}, FALSE, TRUE, 0, {}, TRUE)

NeverAdd == T({}, TRUE, FALSE, 0, {}, FALSE)

MCJobs == 1 .. 2
MCLength == <<3, 2>>
Talk(second, text, schema) ==
  [sent |-> <<<<"p", "q", "u">>, second>>, said |-> [x \in {"u"} |-> text], domain |-> schema]
MCConversations == {Talk(<<"r", "u">>, NeverAdd, FALSE)}
  \cup UNION {{Talk(<<"q", "u">>, TheDarkOne, d), Talk(<<"r", "u">>, NotFirstSecond, d),
              Talk(<<"r", "u">>, NoRather, d)} : d \in BOOLEAN}

C(cites, rel, pt, quote, state, conf) ==
  [cites |-> cites, rel |-> rel, pt |-> pt, quote |-> quote, echo |-> FALSE, state |-> state,
   conf |-> conf]
MCCandidates ==
  {C({3}, "direct", 0, 3, "asserted", "high"), C({3}, "direct", 0, 0, "asserted", "high"),
   C({2, 3}, "proposal", 2, 3, "asserted", "high"), C({3}, "direct", 0, 3, "asserted", "low"),
   C({3}, "direct", 0, 3, "uncertain_change", "high")}
A(memories, nothing, decision, ordinal, evidence, clar, pair) ==
  [memories |-> memories, nothing |-> nothing, decision |-> decision, ordinal |-> ordinal,
   evidence |-> evidence, clar |-> clar, pair |-> pair]
Plainly == C({3}, "direct", 0, 3, "asserted", "high")
AllAnswers == <<
  {A({c}, FALSE, None, 0, FALSE, 0, FALSE) : c \in MCCandidates}
  \cup {A({}, FALSE, "confirmed", o, TRUE, 0, FALSE) : o \in 1 .. 2}
  \cup {A({Plainly}, FALSE, "rejected", 2, FALSE, 0, FALSE), A({}, FALSE, None, 0, FALSE, 0, FALSE),
        A({}, TRUE, None, 0, FALSE, 3, FALSE), A({}, TRUE, None, 0, FALSE, 3, TRUE)},
  {A({}, FALSE, "confirmed", 1, FALSE, 0, FALSE),
   A({C({1, 2}, "proposal", 1, 2, "asserted", "high")}, FALSE, None, 0, FALSE, 0, FALSE)}>>
AllRepairs == <<
  {[memories |-> {}, nothing |-> TRUE], [memories |-> {}, nothing |-> FALSE],
   [memories |-> {Plainly}, nothing |-> FALSE]},
  {[memories |-> {C({2}, "direct", 0, 2, "asserted", "high")}, nothing |-> FALSE]}>>
MCAnswers == [j \in DOMAIN AllAnswers |-> AllAnswers[j]]
MCRepairs == [j \in DOMAIN AllRepairs |-> AllRepairs[j]]
MCSource == <<FALSE, FALSE>>
MCCopies == <<2, 1>>
MCCuts == <<{1 .. 3, 2 .. 3}, {1 .. 2}>>
MCSymmetry == Permutations(Workers)
=============================================================================
