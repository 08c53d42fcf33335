--------------------------- MODULE ProviderPermits ---------------------------
(***************************************************************************)
(* What the concurrency limits of the language-model providers promise,    *)
(* whatever leases, crashes and outages are behind them: at no moment are  *)
(* more than Limit calls under way at one provider                         *)
(* (llm_provider_concurrency_limits).                                      *)
(***************************************************************************)
EXTENDS FiniteSets, Naturals

CONSTANTS Calls, Services, Limit
VARIABLE running  \* running[p]: the calls provider p is working on

Init == running = [p \in Services |-> {}]
Start(p, c) == /\ Cardinality(running[p]) < Limit
               /\ running' = [running EXCEPT ![p] = @ \cup {c}]
\* Calls end by themselves, and several at once when a process dies.
End == \E gone \in SUBSET Calls : running' = [p \in Services |-> running[p] \ gone]

Next == End \/ \E p \in Services, c \in Calls : Start(p, c)
Spec == Init /\ [][Next]_running
=============================================================================
