--------------------------- MODULE MCOnlineQueue ---------------------------
(***************************************************************************)
(* OnlineQueue for TLC: workers and finishers are interchangeable.          *)
(***************************************************************************)
EXTENDS OnlineQueue, TLC

Symmetry == Permutations(Workers) \cup Permutations(Finishers)
=============================================================================
