------------------------------ MODULE TaskView ------------------------------
(***************************************************************************)
(* What a user may rely on when looking at a task: the browser shows a task *)
(* as completed or cancelled only if the server says so, and once shown it  *)
(* stays shown until the row disappears.  A failed row is not final: a      *)
(* query that failed locally may be corrected by the server.                *)
(***************************************************************************)
CONSTANTS Tasks

VARIABLES
  server,   \* what the server has decided of each task
  view      \* what the browser shows of it; "absent" when nothing

ViewInit == \A t \in Tasks : view[t] \in {"completed", "cancelled"} => view[t] = server[t]

\* One change of what is shown of a task
MayBecome(t, new) ==
  \/ new = view[t]
  \/ new = "absent"
  \/ new \in {"open", "failed"} /\ view[t] \notin {"completed", "cancelled"}
  \/ new \in {"completed", "cancelled"} /\ new = server[t]
                                        /\ view[t] \notin {"completed", "cancelled"} \ {new}

\* The server decides each task once
Decides(t, new) ==
  new = server[t] \/ server[t] \notin {"completed", "failed", "cancelled"}

ViewNext == \A t \in Tasks : MayBecome(t, view'[t]) /\ Decides(t, server'[t])

ViewSpec == ViewInit /\ [][ViewNext]_<<server, view>>
=============================================================================
