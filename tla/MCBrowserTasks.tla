--------------------------- MODULE MCBrowserTasks ---------------------------
(***************************************************************************)
(* BrowserTasks for TLC: one task, and one row an earlier page left that    *)
(* may link to it.                                                          *)
(***************************************************************************)
EXTENDS BrowserTasks, TLC

CONSTANTS t1, l1

MCTasks == {t1}
MCLocals == {l1}
MCLinkOf == l1 :> t1
=============================================================================
