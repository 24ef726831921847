---------------------------- MODULE BrowserTasks ----------------------------
(***************************************************************************)
(* How the browser learns what became of the server's tasks: the registry   *)
(* (services/taskRegistry.ts), the handlers that feed it                    *)
(* (contexts/TaskContext.tsx), the event stream and the polls               *)
(* (services/globalTaskManager.ts), the list of notifications               *)
(* (services/notificationMapping.ts), the status queries of one task        *)
(* (services/videoTaskPoller.ts, services/taskRegistryRecovery.ts) and the  *)
(* cancellation (services/taskControlService.ts).                           *)
(*                                                                          *)
(* Every request is two steps or more: it is sent, the server answers with  *)
(* what it knows then, and the answer is applied later; several polls may   *)
(* be on their way at once.  Time is left out but for the 60 seconds by     *)
(* which a poll reaches back before the last one: "covered" are the tasks   *)
(* that had ended when the last successful poll began, "aged" those whose   *)
(* end is more than 60 seconds before it, which a poll need not report.     *)
(***************************************************************************)
EXTENDS TaskRegistry, Sequences, FiniteSets

CONSTANTS
  PollSlots     \* polls that may overlap

VARIABLES
  server,      \* status of each task on the server; "none" before submission
  rows,        \* taskRegistry.tasks
  polls,       \* the polls on their way
  covered,     \* tasks that had ended at lastPollTime
  aged,        \* tasks that ended more than 60 seconds before lastPollTime
  stream,      \* sseConnected
  events,      \* messages of the stream not yet handled
  ready,       \* notificationBaselineReady
  remembered,  \* emittedNotificationIds
  toasts,      \* notifications shown for each task since the page opened
  bygone,      \* tasks that had ended when the page opened (history)
  listing,     \* getNotifications on its way
  watched,     \* tasks the video poller follows
  asked,       \* tasks the recovery asks about, once each
  query,       \* the answer to a status query of each task
  cancelling   \* tasks whose cancellation the server has confirmed

vars == <<server, rows, polls, covered, aged, stream, events, ready, remembered,
          toasts, bygone, listing, watched, asked, query, cancelling>>

feedVars == <<polls, covered, aged, ready>>
streamVars == <<stream, events>>
toastVars == <<remembered, toasts>>
queryVars == <<watched, asked, query>>
pageVars == <<bygone, listing, cancelling>>

Nothing == [t \in Tasks |-> "none"]
Idle == [busy |-> FALSE, baseline |-> FALSE, started |-> {}, active |-> "wait",
         live |-> Nothing, report |-> "wait", ended |-> Nothing]

Ended == {t \in Tasks : server[t] \in Outcomes}

\* Statuses of a task the server still works on
Live == {"queued", "running"}

\* get_active_tasks_for_user
LiveNow == [t \in Tasks |-> IF server[t] \in Live THEN "open" ELSE "none"]

\* get_terminal_tasks_for_notifications: cancelled tasks are not among them
Reported == {"completed", "failed"}
ReportOf(S) == [t \in Tasks |-> IF t \in S THEN server[t] ELSE "none"]
Reportable == {t \in Tasks : server[t] \in Reported}

\* What a status query is answered: TASK_NOT_FOUND is "missing"
Answers == {"none", "open", "missing"} \cup Outcomes

TypeOK ==
  /\ server \in [Tasks -> {"none"} \cup Live \cup Outcomes]
  /\ rows \in [Ids -> Statuses]
  /\ polls \in [PollSlots ->
       [busy : BOOLEAN, baseline : BOOLEAN, started : SUBSET Tasks,
        active : {"wait", "here"}, live : [Tasks -> {"none", "open"}],
        report : {"wait", "failed", "ok"}, ended : [Tasks -> {"none"} \cup Reported]]]
  /\ covered \in SUBSET Tasks /\ aged \in SUBSET Tasks
  /\ stream \in BOOLEAN /\ ready \in BOOLEAN
  /\ events \in Seq([kind : {"progress"} \cup Reported, task : Tasks])
  /\ remembered \in SUBSET Tasks /\ bygone \in SUBSET Tasks
  /\ toasts \in [Tasks -> Nat]
  /\ listing \in [Tasks -> {"none"} \cup Reported]
  /\ watched \in SUBSET Tasks /\ asked \in SUBSET Tasks
  /\ query \in [Tasks -> Answers]
  /\ cancelling \in SUBSET Tasks

\* Faulty: a status of the server is taken as it is.
Verbatim(status) == status

\* mapTaskStatus: the active statuses are one here
Mapped(status) == IF status \in Live THEN "open" ELSE status

\* The rows with a link that are still active are asked about
AskedFor(table) == {t \in Tasks : \E l \in Linked(table, t) : table[l] = "open"}

\* A page opens.  The session storage may hold what an earlier one left: a row
\* that links to a submitted task, the task's own row, or both.
Init ==
  /\ \E stored \in [Ids -> {"absent", "open", "lost"}] :
       /\ \A t \in Tasks : stored[t] # "lost"
       /\ rows = Rehydrated(stored, {})
       /\ server = [t \in Tasks |->
            IF stored[t] = "absent" /\ Linked(stored, t) = {} THEN "none" ELSE "queued"]
  /\ polls = [p \in PollSlots |-> Idle]
  /\ covered = {} /\ aged = {} /\ stream = FALSE /\ events = <<>>
  /\ ready = FALSE /\ remembered = {} /\ toasts = [t \in Tasks |-> 0]
  /\ bygone = {} /\ listing = Nothing /\ watched = {}
  /\ asked = AskedFor(rows) /\ query = Nothing /\ cancelling = {}

-----------------------------------------------------------------------------
(* The server. *)

Publish(kind, t) ==
  events' = IF stream THEN Append(events, [kind |-> kind, task |-> t]) ELSE events

\* The page's submission reaches the queue; its answer comes later (Watch)
Submit(t) ==
  /\ server[t] = "none"
  /\ server' = [server EXCEPT ![t] = "queued"]
  /\ UNCHANGED <<rows, feedVars, streamVars, toastVars, queryVars, pageVars>>

Work(t) ==
  /\ server[t] = "queued"
  /\ server' = [server EXCEPT ![t] = "running"]
  /\ Publish("progress", t)
  /\ UNCHANGED <<rows, feedVars, stream, toastVars, queryVars, pageVars>>

Finish(t, outcome) ==
  /\ server[t] = "running" \/ (server[t] = "queued" /\ outcome = "failed")
  /\ server' = [server EXCEPT ![t] = outcome]
  /\ Publish(outcome, t)
  /\ UNCHANGED <<rows, feedVars, stream, toastVars, queryVars, pageVars>>

\* Another page of the user cancels the task; no event is published
CancelElsewhere(t) ==
  /\ server[t] = "queued"
  /\ server' = [server EXCEPT ![t] = "cancelled"]
  /\ UNCHANGED <<rows, feedVars, streamVars, toastVars, queryVars, pageVars>>

-----------------------------------------------------------------------------
(* globalTaskManager: the stream and the polls. *)

StreamOpens ==
  /\ ~ stream
  /\ stream' = TRUE
  /\ UNCHANGED <<server, rows, feedVars, events, toastVars, queryVars, pageVars>>

\* onerror: what the stream had not delivered is lost
StreamBreaks ==
  /\ stream
  /\ stream' = FALSE /\ events' = <<>>
  /\ UNCHANGED <<server, rows, feedVars, toastVars, queryVars, pageVars>>

\* rememberNotificationId, then the notification handler for each new one; a page
\* that forgets the oldest of more than 300 ids is left out
Notify(S, news, table) ==
  /\ remembered' = remembered \cup S
  /\ toasts' = [t \in Tasks |-> toasts[t] + IF t \in S \ remembered THEN 1 ELSE 0]
  /\ rows' = LET fresh == [t \in Tasks |-> IF t \in S \ remembered THEN news[t] ELSE "none"]
             IN  [id \in Ids |->
                    IF id \notin Addressed(table, fresh) THEN table[id]
                    ELSE IF table[id] = "absent" THEN fresh[TaskOf(id)]
                    ELSE Conclude(table[id], fresh[TaskOf(id)])]

\* onmessage and handleSSEMessage; the poll it starts is a PollStarts
StreamDelivers ==
  /\ events # <<>>
  /\ LET e == Head(events) IN
     \/ /\ e.kind = "progress"
        /\ rows' = Update(rows, e.task, "open")
        /\ UNCHANGED toastVars
     \/ /\ e.kind \in Reported
        /\ Notify({e.task}, [t \in Tasks |-> e.kind], rows)
  /\ events' = Tail(events)
  /\ UNCHANGED <<server, feedVars, stream, queryVars, pageVars>>

\* poll: a timer, an opened stream or a message starts it; none waits for
\* another to end.  Whether it is the baseline is read now.
PollStarts(p) ==
  /\ ~ polls[p].busy
  /\ polls' = [polls EXCEPT ![p] = [Idle EXCEPT !.busy = TRUE, !.baseline = ~ ready,
                                                !.started = Ended]]
  /\ UNCHANGED <<server, rows, covered, aged, ready, streamVars, toastVars,
                 queryVars, pageVars>>

\* A failed answer changes nothing, as does one that names no task
ActiveAnswered(p) ==
  /\ polls[p].busy /\ polls[p].active = "wait"
  /\ \E live \in {LiveNow, Nothing} :
       polls' = [polls EXCEPT ![p].active = "here", ![p].live = live]
  /\ UNCHANGED <<server, rows, covered, aged, ready, streamVars, toastVars,
                 queryVars, pageVars>>

\* The reach back of 60 seconds covers what has not aged; it may cover more
ReportAnswered(p, result) ==
  /\ polls[p].busy /\ polls[p].report = "wait"
  /\ \E S \in IF result = "ok" THEN SUBSET Reportable ELSE {{}} :
       /\ result = "ok" => Reportable \ aged \subseteq S
       /\ polls' = [polls EXCEPT ![p].report = result, ![p].ended = ReportOf(S)]
  /\ UNCHANGED <<server, rows, covered, aged, ready, streamVars, toastVars,
                 queryVars, pageVars>>

\* The tasks whose end a successful poll need not report again
BehindNow(poll) == Ended  \* faulty: as of the end of the poll
Behind(poll) == poll.started

\* Faulty: the first poll remembers nothing of what it was told.
BaselineForgotten(told) == {}
Baseline(told) == told

\* Both answers are here: tasks_updated, then tasks_terminal, then the
\* notifications, which only a poll after the baseline shows, and only while
\* no stream is connected.
PollEnds(p) ==
  LET poll == polls[p]
      found == [id \in Ids |->
        IF id \notin Addressed(rows, poll.live) THEN rows[id]
        ELSE IF rows[id] = "absent" THEN "open" ELSE Blend(rows[id], "open")]
      table == [id \in Ids |->
        IF id \in Addressed(found, poll.ended)
        THEN Conclude(found[id], poll.ended[TaskOf(id)]) ELSE found[id]]
      told == {t \in Tasks : poll.ended[t] # "none"}
      ok == poll.report = "ok"
  IN
  /\ poll.busy /\ poll.active # "wait" /\ poll.report # "wait"
  /\ polls' = [polls EXCEPT ![p] = Idle]
  /\ ready' = (ready \/ ok)
  /\ covered' = IF ok THEN Behind(poll) ELSE covered
  /\ \/ /\ ok /\ ~ stream /\ ~ poll.baseline
        /\ Notify(told, poll.ended, table)
     \/ /\ ~ (ok /\ ~ stream /\ ~ poll.baseline)
        /\ remembered' = IF ok /\ poll.baseline THEN remembered \cup Baseline(told)
                         ELSE remembered
        /\ rows' = table
        /\ UNCHANGED toasts
  /\ UNCHANGED <<server, aged, streamVars, queryVars, pageVars>>

\* Sixty seconds have passed since a task the last poll covered ended; nothing
\* older than that is still on its way.
Ages(t) ==
  /\ t \in covered \ aged
  /\ \A p \in PollSlots : polls[p].live[t] = "none"
  /\ \A i \in DOMAIN events : events[i].task # t
  /\ query[t] # "open"
  /\ aged' = aged \cup {t}
  /\ UNCHANGED <<server, rows, polls, covered, ready, streamVars, toastVars,
                 queryVars, pageVars>>

-----------------------------------------------------------------------------
(* TaskContext: the list of notifications, cancellation, removal. *)

\* Dismissed notifications and those past the first 50 are not in the answer
ListAnswered ==
  /\ listing = Nothing
  /\ \E S \in SUBSET Reportable : listing' = ReportOf(S)
  /\ UNCHANGED <<server, rows, feedVars, streamVars, toastVars, queryVars, bygone,
                 cancelling>>

ListEnds ==
  /\ listing # Nothing
  /\ rows' = [id \in Ids |->
       IF id \in Addressed(rows, listing)
       THEN Merged(rows[id], listing[TaskOf(id)]) ELSE rows[id]]
  /\ listing' = Nothing
  /\ UNCHANGED <<server, feedVars, streamVars, toastVars, queryVars, bygone,
                 cancelling>>

\* cancelTask: the server accepts the cancellation, or has done so before; a
\* refusal changes nothing
CancelAnswered(t) ==
  /\ rows[Get(rows, t)] = "open" /\ t \notin cancelling
  /\ server[t] \in {"queued", "cancelled"}
  /\ server' = [server EXCEPT ![t] = "cancelled"]
  /\ cancelling' = cancelling \cup {t}
  /\ UNCHANGED <<rows, feedVars, streamVars, toastVars, queryVars, bygone, listing>>

CancelEnds(t) ==
  /\ t \in cancelling
  /\ rows' = Overwrite(rows, t)
  /\ cancelling' = cancelling \ {t}
  /\ UNCHANGED <<server, feedVars, streamVars, toastVars, queryVars, bygone, listing>>

\* removeTask: the answer of a recovery of the row is dropped when it comes, unless
\* it is that there is no such task
RemoveRow(t) ==
  /\ rows[Get(rows, t)] \in Outcomes
  /\ rows' = Removed(rows, t)
  /\ asked' = asked \ {t}
  /\ \E late \in {"none", "missing"} :
       /\ late = "missing" => t \in asked /\ query[t] \in {"none", "missing"}
       /\ query' = IF t \in watched THEN query ELSE [query EXCEPT ![t] = late]
  /\ UNCHANGED <<server, feedVars, streamVars, toastVars, watched, pageVars>>

-----------------------------------------------------------------------------
(* Status queries of one task. *)

\* startVideoPoll: a submission is answered, or a card resumes its task
Watch(t) ==
  /\ server[t] # "none"
  /\ rows' = Register(rows, t, "open")
  /\ watched' = watched \cup {t}
  /\ UNCHANGED <<server, feedVars, streamVars, toastVars, asked, query, pageVars>>

\* stopVideoPoll: the card's history says how the task ended
Unwatch(t) ==
  /\ t \in watched /\ t \in Ended
  /\ watched' = watched \ {t}
  /\ query' = IF t \in asked THEN query ELSE [query EXCEPT ![t] = "none"]
  /\ UNCHANGED <<server, rows, feedVars, streamVars, toastVars, asked, pageVars>>

\* A query of the poller or of the recovery is answered with the status, or that
\* there is no such task (its record was deleted or could not be read); one that
\* fails in another way, or takes too long, changes nothing
QueryAnswered(t) ==
  /\ t \in watched \cup asked /\ query[t] = "none"
  /\ \E answer \in {Mapped(server[t]), "missing"} : query' = [query EXCEPT ![t] = answer]
  /\ UNCHANGED <<server, rows, feedVars, streamVars, toastVars, watched, asked, pageVars>>

\* buildPollFn ends the watch over a task that has ended or is not there
Settled(answer) == answer \in Outcomes \cup {"missing"}

\* The row of a task that is not there fails
Told(answer) == IF answer = "missing" THEN "failed" ELSE answer

\* The poller follows a task until it has ended; the recovery
\* (recoverSubmittedRegistryTasks) asks once
QueryEnds(t) ==
  /\ query[t] # "none"
  /\ rows' = IF t \in watched /\ query[t] = "cancelled" THEN Overwrite(rows, t)
             ELSE Update(rows, t, Told(query[t]))
  /\ watched' = IF Settled(query[t]) THEN watched \ {t} ELSE watched
  /\ asked' = asked \ {t}
  /\ query' = [query EXCEPT ![t] = "none"]
  /\ UNCHANGED <<server, feedVars, streamVars, toastVars, pageVars>>

\* The recovery gives up on a row whose query failed
RecoveryFails(t) ==
  /\ t \in asked /\ query[t] = "none"
  /\ asked' = asked \ {t}
  /\ UNCHANGED <<server, rows, feedVars, streamVars, toastVars, watched, query, pageVars>>

-----------------------------------------------------------------------------
\* The page is loaded again.  What was on its way is lost, the table comes back
\* from the session storage, and the linked rows that are still active are asked
\* about.
Reload ==
  /\ \E expired \in SUBSET Ids : rows' = Rehydrated(rows, expired)
  /\ asked' = AskedFor(rows')
  /\ polls' = [p \in PollSlots |-> Idle]
  /\ covered' = {} /\ aged' = {} /\ ready' = FALSE
  /\ stream' = FALSE /\ events' = <<>>
  /\ remembered' = {} /\ toasts' = [t \in Tasks |-> 0]
  /\ bygone' = Ended /\ listing' = Nothing /\ watched' = {}
  /\ query' = Nothing /\ cancelling' = {}
  /\ UNCHANGED server

ServerSteps(t) ==
  \/ Submit(t) \/ Work(t) \/ CancelElsewhere(t)
  \/ \E outcome \in Reported : Finish(t, outcome)

PollSteps(p) ==
  \/ PollStarts(p) \/ ActiveAnswered(p) \/ PollEnds(p)
  \/ \E result \in {"ok", "failed"} : ReportAnswered(p, result)

PageSteps(t) ==
  \/ CancelAnswered(t) \/ CancelEnds(t) \/ RemoveRow(t) \/ Ages(t)

QuerySteps(t) ==
  \/ Watch(t) \/ Unwatch(t)
  \/ QueryAnswered(t) \/ QueryEnds(t)
  \/ RecoveryFails(t)

Next ==
  \/ \E t \in Tasks : ServerSteps(t) \/ PageSteps(t) \/ QuerySteps(t)
  \/ \E p \in PollSlots : PollSteps(p)
  \/ StreamOpens \/ StreamBreaks \/ StreamDelivers
  \/ ListAnswered \/ ListEnds
  \/ Reload

\* The interval timers keep polling and querying, and the network is not down
\* for ever: a request that is sent again and again is some day answered.
Fairness ==
  /\ \A p \in PollSlots :
       /\ WF_vars(PollStarts(p)) /\ WF_vars(PollEnds(p))
       /\ WF_vars(ActiveAnswered(p)) /\ SF_vars(ReportAnswered(p, "ok"))
  /\ \A t \in Tasks :
       /\ WF_vars(QueryAnswered(t)) /\ WF_vars(QueryEnds(t))
       /\ WF_vars(CancelEnds(t))

Spec == Init /\ [][Next]_vars /\ Fairness

-----------------------------------------------------------------------------
\* What the page shows of a task
Shown == [t \in Tasks |-> IF rows[Get(rows, t)] = "lost" THEN "failed" ELSE rows[Get(rows, t)]]

View == INSTANCE TaskView WITH view <- Shown

\* The registry, fed by all its sources in any order, implements the promise to
\* the user: nothing is shown completed or cancelled that is not, and what is
\* shown so stays so, whatever late answer arrives
\* (taskRegistry.ts: completed/cancelled work must never be resurrected).
ViewImplemented == View!ViewSpec

\* One task has one row: an earlier page's row and the server's never stand side
\* by side, in whatever order the stored rows, the polls and the stream speak.
OneRowPerTask ==
  \A l \in Locals : rows[l] # "absent" => rows[LinkOf[l]] = "absent"

\* The user is told once of the end of a task, by the stream or by a poll, and
\* never of one that ended before the page opened (globalTaskManager.ts, the
\* baseline poll), even when polls overlap or fail.
ToldOnce ==
  \A t \in Tasks : toasts[t] <= 1 /\ (t \in bygone => toasts[t] = 0)

\* A row that was open when its task ended does not stay open for ever, though
\* messages are lost, late, or contradict each other; and the poller of a card
\* lets go of a task that ended.
OpenRowsClose ==
  <>[][~ Reload]_vars =>
    \A t \in Tasks :
      /\ (server[t] \in Reported /\ t \notin covered /\ Shown[t] = "open")
           ~> Shown[t] # "open"
      /\ (t \in watched /\ t \in Ended) ~> t \notin watched
=============================================================================
