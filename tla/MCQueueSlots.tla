----------------------------- MODULE MCQueueSlots -----------------------------
(* A small instance of QueueSlots: two tenants, two plans with different   *)
(* limits, three jobs and one handler.                                     *)
EXTENDS QueueSlots, TLC

CONSTANTS t1, t2, j1, j2, j3, h1, h2, free, starter, freeQ, starterQ

MCJobs == {j1, j2, j3}
MCOwner == j1 :> t1 @@ j2 :> t1 @@ j3 :> t2
MCPlans == {free, starter}
MCQueues == {freeQ, starterQ}
MCQueueMap == free :> freeQ @@ starter :> starterQ
MCLimits == free :> 1 @@ starter :> 2
=============================================================================
