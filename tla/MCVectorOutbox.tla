---------------------------- MODULE MCVectorOutbox ----------------------------
(* Instances of VectorOutbox: one or two memories, two overlapping cycles. *)
EXTENDS VectorOutbox, TLC

CONSTANTS m1, m2, c1, c2

MCSymmetry == Permutations(Cycles)
================================================================================
