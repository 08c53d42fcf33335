--------------------------- MODULE MCExtractionJobs ---------------------------
(* Small instances of ExtractionJobs, the lanes side by side.              *)
EXTENDS ExtractionJobs, TLC

CONSTANTS j1, j2, j3, w1, w2, d1, d2

MCLanes == [j \in Jobs |-> IF j = j1 THEN "durable" ELSE IF j = j2 THEN "plain" ELSE "prepared"]
MCDurable == [j \in Jobs |-> "durable"]
MCSymmetry == Permutations(Workers) \union Permutations(Watchdogs)
=============================================================================
