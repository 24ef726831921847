--------------------------- MODULE MCVideoRegroup ---------------------------
(***************************************************************************)
(* VideoRegroup for TLC: two shots, one of them inserted, and two tasks,    *)
(* with pairs and batches.  Shots are only compared, so that they may be     *)
(* permuted.                                                                *)
(***************************************************************************)
EXTENDS VideoRegroup, TLC

Symmetry == Permutations(ShotIds)
=============================================================================
