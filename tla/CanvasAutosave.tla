--------------------------- MODULE CanvasAutosave ---------------------------
(***************************************************************************)
(* The free canvas of an episode: one visit of its page after another, each *)
(* with the three parts that keep its content.                              *)
(*   studioSnapshotStore.ts   finds, or makes, the board and the one state  *)
(*     record of the episode, reads it, and writes one snapshot at a time   *)
(*   WorkspaceLoadBoundary.tsx  mounts the editor only on a finished read   *)
(*   useWorkspaceSave.ts        saves 700 ms after a change, and on leaving *)
(* A value stands for the object the page holds as its snapshot, compared   *)
(* by identity; Strip is what stripEmbeddedMedia leaves of it, Opened what  *)
(* resolveStudioWorkspace makes of it: the built-in workflow is put in      *)
(* front, afresh.  The store's revision and loaded flag have no place here: *)
(* they refuse a save while the episode is read, and no editor is mounted   *)
(* then.                                                                    *)
(* A request of a page that goes away takes effect at once or never.        *)
(***************************************************************************)
EXTENDS Naturals, Sequences

CONSTANTS
  Values,       \* snapshots
  Default,      \* the workspace of an episode nobody has worked on
  Strip,        \* a snapshot without its data: URLs
  Opened,       \* a snapshot with the built-in workflow renewed
  None,
  MaxVisits,    \* bound on the visits of the page
  MaxEdits,     \* bound on the changes of the user
  MaxFailures   \* bound on the requests that fail

Unset == {"no_board", "no_record", "empty"}
Unreadable == {"malformed", "doubled"}

ASSUME ValuesAssumption ==
  /\ Default \in Values
  /\ {Strip, Opened} \subseteq [Values -> Values]
  /\ \A v \in Values :
       /\ Strip[Strip[v]] = Strip[v] /\ Opened[Opened[v]] = Opened[v]
       /\ Strip[Opened[Strip[v]]] = Opened[Strip[v]]
  /\ Strip[Default] = Default /\ Opened[Default] = Default
  /\ None \notin Values
  /\ Values \cap (Unset \cup Unreadable) = {}

ASSUME BoundsAssumption == {MaxVisits, MaxEdits, MaxFailures} \subseteq Nat

VARIABLES
  stored,    \* the server: no board, no record, an empty one, a snapshot, or worse
  page,      \* "closed", or what the load boundary shows
  load,      \* the request loadSnapshot waits for, "idle" when none is read
  located,   \* both identities are known to the store
  value,     \* the snapshot the editor holds
  acknowledged,  \* acknowledged.current
  queue,     \* the chain of saveTail, its head on the way; the last is pending.current
  timer,     \* the debounce timer is armed
  status,    \* what the editor says of the last change
  work,      \* what the user may expect to find again
  visits, edits, failures

hook == <<value, acknowledged, queue, timer, status>>
bounds == <<visits, edits, failures>>
vars == <<stored, page, load, located, hook, work, bounds>>

-----------------------------------------------------------------------------
(***************************************************************************)
(* Reading.                                                                 *)
(***************************************************************************)
\* Faulty: the explicit null is taken for a snapshot
ContentAsRead(s) == IF s \in Values THEN Opened[s] ELSE s

\* What the editor opens with (resolveStudioWorkspace)
Content(s) == IF s \in Unset THEN Default ELSE Opened[s]

Fresh ==
  /\ value = None /\ acknowledged = None /\ queue = <<>>
  /\ timer = FALSE /\ status = "pending"

Init ==
  /\ stored \in Unset \cup Unreadable \cup {Strip[v] : v \in Values}
  /\ page = "closed" /\ load = "idle" /\ located = FALSE
  /\ Fresh
  /\ work = IF stored \in Unreadable THEN {} ELSE IF stored \in Unset THEN {Default} ELSE {stored}
  /\ visits = 0 /\ edits = 0 /\ failures = 0

\* A second call while one is on its way gets the promise of the first
FirstRequest == IF load # "idle" THEN load ELSE IF located THEN "read" ELSE "list"

\* A new visit builds a store of its own, and its boundary loads
Open ==
  /\ page = "closed" /\ visits < MaxVisits
  /\ visits' = visits + 1
  /\ page' = "loading" /\ load' = "list" /\ located' = FALSE
  /\ UNCHANGED <<stored, hook, work, edits, failures>>

Retry ==
  /\ page = "error"
  /\ page' = "loading" /\ load' = FirstRequest
  /\ UNCHANGED <<stored, located, hook, work, bounds>>

LoadTimesOut ==
  /\ page = "loading"
  /\ page' = "error"
  /\ UNCHANGED <<stored, load, located, hook, work, bounds>>

\* What the request on its way makes of the server
Made ==
  CASE load = "board"  -> "no_record"
    [] load = "record" -> "empty"
    [] OTHER           -> stored

\* What is asked for when it is answered
NextRequest ==
  CASE load = "list"   -> IF stored = "no_board" THEN "board" ELSE "detail"
    [] load = "board"  -> "detail"
    [] load = "detail" -> IF stored = "no_record" THEN "record" ELSE "read"
    [] load = "record" -> "read"

LoadGoesOn ==
  /\ load \in {"list", "board", "detail", "record"}
  /\ ~ (load = "detail" /\ stored = "doubled")
  /\ stored' = Made /\ load' = NextRequest
  /\ located' = (load' = "read")
  /\ UNCHANGED <<page, hook, work, bounds>>

\* Two state records, or one that cannot be read
Refused ==
  \/ load = "detail" /\ stored = "doubled"
  \/ load = "read" /\ stored \in Unreadable

LoadFails ==
  /\ load # "idle"
  /\ IF Refused THEN UNCHANGED <<stored, failures>>
     ELSE /\ failures < MaxFailures /\ failures' = failures + 1
          /\ stored' \in {stored, Made}
  /\ load' = "idle" /\ located' = FALSE
  /\ page' = IF page = "loading" THEN "error" ELSE page
  /\ UNCHANGED <<hook, work, visits, edits>>

\* A boundary whose timer has run out does not listen any more
Listening == page = "loading"

LoadEnds ==
  /\ load = "read" /\ ~ Refused
  /\ load' = "idle"
  /\ IF Listening
     THEN /\ page' = "ready"
          /\ value' = Content(stored) /\ timer' = TRUE
          /\ work' = {Content(stored)}
     ELSE UNCHANGED <<page, value, timer, work>>
  /\ UNCHANGED <<stored, located, acknowledged, queue, status, bounds>>

\* The page goes away, and with it everything it holds
Gone ==
  /\ page' = "closed" /\ load' = "idle" /\ located' = FALSE
  /\ value' = None /\ acknowledged' = None /\ queue' = <<>>
  /\ timer' = FALSE /\ status' = "pending"

GiveUp ==
  /\ page \in {"loading", "error"}
  /\ stored' \in {stored, Made}
  /\ Gone
  /\ UNCHANGED <<work, bounds>>

-----------------------------------------------------------------------------
(***************************************************************************)
(* Writing.                                                                 *)
(***************************************************************************)
Newest(q) == q[Len(q)]

Edit(v) ==
  /\ page = "ready" /\ edits < MaxEdits
  /\ v # value
  /\ value' = v /\ status' = "pending" /\ timer' = TRUE
  /\ work' = work \cup {v}
  /\ edits' = edits + 1
  /\ UNCHANGED <<stored, page, load, located, acknowledged, queue, visits, failures>>

Pending(q) == q # <<>> /\ Newest(q).value = value

\* Faulty: an older acknowledgement outlives a new write
OldAcknowledgement == acknowledged

\* The acknowledgement a new write leaves standing: none, for whether it took
\* effect is not known when it fails
StillAcknowledged == None

\* persist(value), on what the chain and the acknowledgement are then; a caller
\* of saveNow waits for the write it joins or adds
Persist(q, ack, s, awaited) ==
  \/ /\ Pending(q)
     /\ queue' = [q EXCEPT ![Len(q)].awaited = @ \/ awaited]
     /\ acknowledged' = ack /\ status' = s
  \/ /\ q = <<>> /\ ack = value
     /\ queue' = q /\ acknowledged' = ack /\ status' = "saved"
  \/ /\ ~ Pending(q) /\ ~ (q = <<>> /\ ack = value)
     /\ queue' = Append(q, [value |-> value, awaited |-> awaited])
     /\ acknowledged' = StillAcknowledged /\ status' = "saving"

Debounce ==
  /\ page = "ready" /\ timer
  /\ timer' = FALSE
  /\ Persist(queue, acknowledged, status, FALSE)
  /\ UNCHANGED <<stored, page, load, located, value, work, bounds>>

\* saveNow has answered true: navigateFromStudio
Leave == Gone /\ work' = {value} /\ UNCHANGED bounds

\* Faulty: no write is on its way
NothingOnItsWay(q, ack) == q = <<>>

\* The newest value has been acknowledged, not only the one that was clicked on
Safe(q, ack) == q = <<>> /\ ack = value

SaveNow ==
  /\ page = "ready"
  /\ UNCHANGED stored
  /\ \/ Safe(queue, acknowledged) /\ Leave
     \/ /\ ~ Safe(queue, acknowledged)
        /\ timer' = FALSE
        /\ Persist(queue, acknowledged, status, TRUE)
        /\ UNCHANGED <<page, load, located, value, work, bounds>>

\* The chain, the acknowledgement and the status once its head has been written
Rest == Tail(queue)
AckAfter == IF Rest = <<>> THEN Head(queue).value ELSE acknowledged
SavedAfter == IF Rest = <<>> /\ value = Head(queue).value THEN "saved" ELSE status

SaveSucceeds ==
  /\ page = "ready" /\ queue # <<>>
  /\ stored' = Strip[Head(queue).value]
  /\ \/ /\ ~ Head(queue).awaited
        /\ queue' = Rest /\ acknowledged' = AckAfter /\ status' = SavedAfter
        /\ UNCHANGED <<page, load, located, value, timer, work, bounds>>
     \/ /\ Head(queue).awaited /\ Safe(Rest, AckAfter)
        /\ Leave
     \/ /\ Head(queue).awaited /\ ~ Safe(Rest, AckAfter)
        /\ Persist(Rest, AckAfter, SavedAfter, TRUE)
        /\ UNCHANGED <<page, load, located, value, timer, work, bounds>>

\* Faulty: a failed write says nothing
FailedUnsaid == status

FailedAfter == IF Rest = <<>> /\ value = Head(queue).value THEN "error" ELSE status

\* No answer, or a bad one; the write may have taken effect
SaveFails ==
  /\ page = "ready" /\ queue # <<>> /\ failures < MaxFailures
  /\ failures' = failures + 1
  /\ stored' \in {stored, Strip[Head(queue).value]}
  /\ queue' = Rest /\ status' = FailedAfter
  /\ UNCHANGED <<page, load, located, value, acknowledged, timer, work, visits, edits>>

\* The browser asks before it closes a page with unsaved work
Warns == acknowledged # value

\* The user closes or reloads the page
Close ==
  /\ page = "ready"
  /\ stored' \in {stored} \cup {Strip[r.value] : r \in {queue[i] : i \in {1} \cap DOMAIN queue}}
  /\ Gone
  /\ work' = IF Warns THEN work ELSE {value}
  /\ UNCHANGED bounds

-----------------------------------------------------------------------------
Next ==
  \/ Open \/ Retry \/ LoadTimesOut \/ LoadGoesOn \/ LoadFails \/ LoadEnds \/ GiveUp
  \/ \E v \in Values : Edit(v)
  \/ Debounce \/ SaveNow \/ SaveSucceeds \/ SaveFails \/ Close

\* The debounce timer runs out, and a request is answered some day
Fairness == WF_vars(Debounce) /\ WF_vars(SaveSucceeds \/ SaveFails)

Spec == Init /\ [][Next]_vars /\ Fairness

-----------------------------------------------------------------------------
Contents == Unset \cup Unreadable \cup Values

TypeOK ==
  /\ stored \in Contents
  /\ page \in {"closed", "loading", "error", "ready"}
  /\ load \in {"idle", "list", "board", "detail", "record", "read"}
  /\ located \in BOOLEAN
  /\ value \in Values \cup {None} /\ acknowledged \in Values \cup {None}
  /\ queue \in Seq([value : Values, awaited : BOOLEAN])
  /\ timer \in BOOLEAN
  /\ status \in {"pending", "saving", "saved", "error"}
  /\ work \subseteq Values
  /\ visits \in Nat /\ edits \in Nat /\ failures \in Nat

\* When the editor says saved, or the browser lets the page go without a warning,
\* the server holds what the user sees: also after an undo to a value an older
\* write is carrying, a write whose answer was lost, or edits during a slow save
\* (useWorkspaceSave.ts: keep dirty state until the latest value is acknowledged).
SavedIsStored ==
  page = "ready" /\ (status = "saved" \/ acknowledged = value) => stored = Strip[value]

\* The editor opens with the work the user left: the very last value if leaving
\* was allowed or the page closed without a warning, one the user had in the
\* editor otherwise.  A record that cannot be read never becomes an editor
\* (WorkspaceLoadBoundary.tsx: failed or obsolete reads must never mount an
\* editor with default writable state).
ReopenShowsWork ==
  [][page # "ready" /\ page' = "ready" => \E v \in work : value' = Opened[Strip[v]]]_vars

\* A change does not stay pending or saving for ever: it is saved, or the editor
\* says that it is not.
SaveSettles ==
  page = "ready" /\ status \in {"pending", "saving"}
    ~> page # "ready" \/ status \in {"saved", "error"}
=============================================================================
