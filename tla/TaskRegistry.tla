--------------------------- MODULE TaskRegistry ---------------------------
(***************************************************************************)
(* The browser's table of tasks (new_html/services/taskRegistry.ts): the    *)
(* operations of TaskRegistry as functions from one table to the next.      *)
(*                                                                          *)
(* A row is known by the id it was registered under.  Rows that an earlier  *)
(* version of the page registered under an id of its own carry the id of    *)
(* the server's task in metadata.backendTaskId; they survive in the         *)
(* session storage and are here the Locals, with LinkOf their link.  Of a   *)
(* row only its status matters: "open" stands for the active ones (pending, *)
(* queued, running), "lost" for a failed row whose error is                 *)
(* FRONTEND_QUEUE_TASK_LOST_MESSAGE.  Every operation persists the table    *)
(* before it returns, so the stored table is the table.                     *)
(***************************************************************************)
EXTENDS Naturals

CONSTANTS
  Tasks,    \* ids of the server's tasks
  Locals,   \* ids of the rows that link to a task
  LinkOf    \* metadata.backendTaskId of those rows

ASSUME RegistryAssumption ==
  /\ Tasks \cap Locals = {}
  /\ LinkOf \in [Locals -> Tasks]
  /\ \A k, l \in Locals : LinkOf[k] = LinkOf[l] => k = l

Ids == Tasks \cup Locals

Outcomes == {"completed", "failed", "cancelled"}
Statuses == {"absent", "open", "lost"} \cup Outcomes

\* The task a row stands for
TaskOf(id) == IF id \in Locals THEN LinkOf[id] ELSE id

\* get: a row that links to the task hides the task's own row
Linked(rows, t) == {l \in Locals : LinkOf[l] = t /\ rows[l] # "absent"}
Get(rows, t) == IF Linked(rows, t) = {} THEN t ELSE CHOOSE l \in Linked(rows, t) : TRUE

\* Faulty: late news are taken whatever the row says.
BlendAnyway(old, new) == IF old = "absent" THEN old ELSE new

\* update: what becomes of a status when news of another arrives.
\* Completed and cancelled work is never resurrected; failed work may be.
Blend(old, new) ==
  IF old = "absent" \/ old \in {"completed", "cancelled"} THEN old ELSE new

Update(rows, t, status) ==
  LET row == Get(rows, t) IN [rows EXCEPT ![row] = Blend(@, status)]

\* cancel: overwrites whatever the row says
Overwrite(rows, t) ==
  LET row == Get(rows, t)
  IN  [rows EXCEPT ![row] = IF @ = "absent" THEN @ ELSE "cancelled"]

\* What the end of a task does to its row: complete, fail or cancel
Conclude(old, outcome) ==
  IF outcome = "cancelled" THEN (IF old = "absent" THEN old ELSE "cancelled")
  ELSE Blend(old, outcome)

\* Faulty: the duplicate of a linked row stays.
NotCollapsed(rows) == rows

\* collapseBackendDuplicate, for every row that links to a task: the task's
\* own row goes, and tells its status to the row that hides it.
Collapsed(rows) ==
  [id \in Ids |->
     IF id \in Locals
     THEN IF rows[id] = "open" /\ rows[LinkOf[id]] # "absent"
          THEN rows[LinkOf[id]] ELSE rows[id]
     ELSE IF Linked(rows, id) # {} THEN "absent" ELSE rows[id]]

\* register: an existing row keeps an outcome that is final
Register(rows, t, status) ==
  LET row == Get(rows, t)
  IN  Collapsed([rows EXCEPT ![row] = IF @ = "absent" THEN status ELSE Blend(@, status)])

\* mergeFromServer, for one task the server reports as "completed" or "failed"
Merged(old, status) ==
  CASE old = "absent" -> status
    [] old = "open" \/ (old \in {"failed", "lost"} /\ status = "completed") -> status
    [] OTHER -> old

\* The rows an answer speaks of: of each task it names, the one that stands for it
Addressed(rows, news) == {id \in Ids : id = Get(rows, TaskOf(id)) /\ news[TaskOf(id)] # "none"}

\* rehydrate: rows the page restores from its session storage.  "expired" are
\* the settled rows past COMPLETED_RETAIN_MS and the active ones past
\* STALE_ACTIVE_MS.
Rehydrated(rows, expired) ==
  LET linked(id) == id \in Locals \/ Linked(rows, id) # {}
      revived(id) == IF rows[id] = "lost" THEN "open" ELSE rows[id]
      restored == [id \in Ids |->
        CASE revived(id) = "open" /\ id \in expired /\ ~ linked(id) -> "failed"
          [] revived(id) \in Outcomes /\ id \in expired -> "absent"
          [] OTHER -> revived(id)]
  IN  Collapsed(restored)

\* remove: deletes the row, whichever id it is asked for by
Removed(rows, t) == [rows EXCEPT ![Get(rows, t)] = "absent"]
=============================================================================
