----------------------------- MODULE MCRecharge -----------------------------
(***************************************************************************)
(* Recharge for TLC: one order, two requests that create it and two that    *)
(* watch it.  No symmetry: the run checks liveness.                         *)
(***************************************************************************)
EXTENDS Recharge

CONSTANTS o1, c1, c2, p1, p2
=============================================================================
