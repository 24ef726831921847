----------------------------- MODULE MCVideoCard -----------------------------
(***************************************************************************)
(* VideoCard for TLC: one card, two tasks.                                  *)
(***************************************************************************)
EXTENDS VideoCard
=============================================================================
