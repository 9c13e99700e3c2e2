---------------------------- MODULE MCSettlement ----------------------------
(* An instance of Settlement for TLC: one peer and one task.               *)
EXTENDS Settlement, TLC

CONSTANTS p1, t1

MCTaskPeer == t1 :> p1
MCHard     == -4
=============================================================================
