----------------------------- MODULE MCPlacement -----------------------------
(* Model values for Placement.                                               *)
EXTENDS Placement, TLC

CONSTANTS m1, t1

MCTailoring == m1 :> t1
=============================================================================
