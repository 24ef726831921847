--------------------------- MODULE MCJimengJob ---------------------------
(***************************************************************************)
(* JimengJob for TLC.                                                       *)
(***************************************************************************)
EXTENDS JimengJob
=============================================================================
