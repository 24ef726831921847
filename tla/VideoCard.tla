------------------------------ MODULE VideoCard ------------------------------
(***************************************************************************)
(* One card of the video page (components/VideoPage.tsx) and the tasks it    *)
(* submits: the submission, the poller that follows a task                  *)
(* (services/videoTaskPoller.ts), the history of tasks fetched again after   *)
(* every change of the cards (services/videoTaskReconciliation.ts), the      *)
(* cancellation, and the saved session a page is opened from.               *)
(*                                                                          *)
(* Tasks are numbered in the order in which the server creates them; 0 is   *)
(* "no task".  A video is known by the task that made it.  The other cards   *)
(* act on this one only by starting its attach and history effects anew     *)
(* (CardsChange).                                                           *)
(***************************************************************************)
EXTENDS Naturals

CONSTANTS
  MaxTasks,     \* bound on the tasks of the card
  LateAnswers   \* whether an answer may come after the card has moved on

ASSUME MaxTasksAssumption == MaxTasks \in Nat
ASSUME LateAnswersAssumption == LateAnswers \in BOOLEAN

VARIABLES
  server,     \* status of each task on the server
  card,       \* tasksStatus[uuid]: state and taskId
  videos,     \* tasksStatus[uuid].videos
  poller,     \* the poller of the card, the answer it has, whether the page hears it
  sub,        \* pendingSubmissions: the submission on its way
  history,    \* the history of tasks on its way
  restoring,  \* the task the restore timer will resume
  cancel,     \* the task whose cancellation the server has confirmed
  stored,     \* the card in the saved session
  open,       \* the page is mounted
  loading     \* isLoading: it does not show its cards yet

vars == <<server, card, videos, poller, sub, history, restoring, cancel,
          stored, open, loading>>

Tasks == 1..MaxTasks
NoTask == 0
Live == {"queued", "running"}
\* A cancelled task ends a card as a failed one does
Outcomes == {"completed", "failed"}

\* The states of a card: "processing" is one with "running"
Active == {"pending", "running"}
Settled == {"done", "failed"}
CardStates == {"idle"} \cup Active \cup Settled

Blank == [state |-> "idle", task |-> NoTask]
Quiet == [task |-> NoTask, answer |-> "none", heard |-> FALSE]
Nothing == [t \in Tasks |-> "none"]
NoSubmission == [stage |-> "idle", before |-> Blank, task |-> NoTask]
NoHistory == [stage |-> "none", seen |-> Nothing]

ServerStates == {"none"} \cup Live \cup Outcomes
\* What a query may be answered: TASK_NOT_FOUND, or the status of the task
Answers == ServerStates \cup {"missing"}
CardType == [state : CardStates, task : Tasks \cup {NoTask}]
PollerType == [task : Tasks \cup {NoTask}, answer : Answers, heard : BOOLEAN]
SubmissionType == [stage : {"idle", "saving", "sent", "made"}, before : CardType,
                   task : Tasks \cup {NoTask}]
HistoryType == [stage : {"none", "asked", "answered"}, seen : [Tasks -> ServerStates]]

TypeOK ==
  /\ server \in [Tasks -> ServerStates]
  /\ card \in CardType
  /\ videos \in SUBSET Tasks
  /\ poller \in PollerType
  /\ sub \in SubmissionType
  /\ history \in HistoryType
  /\ restoring \in Tasks \cup {NoTask}
  /\ cancel \in Tasks \cup {NoTask}
  /\ stored \in CardType /\ stored.state # "running"
  /\ open \in BOOLEAN /\ loading \in BOOLEAN

\* Faulty: the card is saved as it is.
SavedAsIs == card

\* What saveSession writes: a card at work is saved as pending
Snapshot == [card EXCEPT !.state = IF @ = "running" THEN "pending" ELSE @]

Init ==
  /\ server = Nothing
  /\ card = Blank /\ videos = {}
  /\ poller = Quiet /\ sub = NoSubmission
  /\ history = NoHistory /\ restoring = NoTask /\ cancel = NoTask
  /\ stored = Blank
  /\ open = FALSE /\ loading = FALSE

-----------------------------------------------------------------------------
(* The server. *)

\* Tasks are numbered as they are created
Created(t) == server[t] = "none" /\ \A u \in 1..(t - 1) : server[u] # "none"

Work(t) ==
  /\ server[t] = "queued"
  /\ server' = [server EXCEPT ![t] = "running"]
  /\ UNCHANGED <<card, videos, poller, sub, history, restoring, cancel,
                 stored, open, loading>>

Finish(t, outcome) ==
  /\ server[t] = "running" \/ (server[t] = "queued" /\ outcome = "failed")
  /\ server' = [server EXCEPT ![t] = outcome]
  /\ UNCHANGED <<card, videos, poller, sub, history, restoring, cancel,
                 stored, open, loading>>

-----------------------------------------------------------------------------
(* The poller. *)

\* startVideoPoll: the poller of the same task only takes the new callbacks
Following(t) ==
  IF poller.task = t THEN [poller EXCEPT !.heard = TRUE]
  ELSE [task |-> t, answer |-> "none", heard |-> TRUE]

\* A query that fails, or takes too long, is sent again, unless the answer is that
\* there is no such task: its record was deleted, or one store no longer has it and
\* the other could not be read
PollAnswered ==
  /\ poller.task # NoTask /\ poller.answer = "none"
  /\ \E answer \in {server[poller.task], "missing"} :
       poller' = [poller EXCEPT !.answer = answer]
  /\ UNCHANGED <<server, card, videos, sub, history, restoring, cancel,
                 stored, open, loading>>

\* What onProgress, onComplete and onFail make of an answer
StateFor(answer) ==
  CASE answer = "queued" -> "pending"
    [] answer = "running" -> "running"
    [] answer = "completed" -> "done"
    [] OTHER -> "failed"

\* The poller stops at the end of its task, or when there is no such task; the
\* callbacks do not look at which task the card names
PollEnds ==
  /\ poller.answer # "none"
  /\ poller' = IF poller.answer \notin Live THEN Quiet
               ELSE [poller EXCEPT !.answer = "none"]
  /\ card' = IF poller.heard THEN [card EXCEPT !.state = StateFor(poller.answer)] ELSE card
  /\ videos' = IF poller.heard /\ poller.answer = "completed"
               THEN videos \cup {poller.task} ELSE videos
  /\ UNCHANGED <<server, sub, history, restoring, cancel, stored, open, loading>>

-----------------------------------------------------------------------------
(* The history. *)

\* The effects of a change of the cards: the poller's callbacks are attached and
\* the card named after its task, then a new history is asked for
Attached(shown) ==
  IF poller.task = NoTask THEN shown ELSE [state |-> "running", task |-> poller.task]

CardsChange ==
  /\ poller' = [poller EXCEPT !.heard = poller.task # NoTask]
  /\ history' = [stage |-> "asked", seen |-> Nothing]

\* Any change of the cards: text, order, another card's submission
EditCards ==
  /\ open /\ ~ loading
  /\ card' = Attached(card)
  /\ CardsChange
  /\ UNCHANGED <<server, videos, sub, restoring, cancel, stored, open, loading>>

\* getTasks(100): the newest tasks of the user, as they are now.  Tasks of other
\* cards may push the card's older ones past the page boundary.
HistoryAnswered ==
  /\ history.stage = "asked"
  /\ \E boundary \in 0..(MaxTasks - 1) :
       history' = [stage |-> "answered",
                   seen |-> [t \in Tasks |-> IF t > boundary THEN server[t] ELSE "none"]]
  /\ UNCHANGED <<server, card, videos, poller, sub, restoring, cancel,
                 stored, open, loading>>

\* It fails, or all of the card's tasks are past the boundary
HistoryFails ==
  /\ history.stage # "none"
  /\ history' = NoHistory
  /\ UNCHANGED <<server, card, videos, poller, sub, restoring, cancel,
                 stored, open, loading>>

Seen == {t \in Tasks : history.seen[t] # "none"}

\* Faulty: absence of the card's live task settles it.
KeepsNothing == FALSE

\* Absence from the history cannot settle the live task a card names
Keeps == card.task # NoTask /\ card.state \in Active /\ card.task \notin Seen

\* Faulty: the poller is left as it is when the history names a live task.
NotResumed(t) == poller

\* reconcileActiveVideoTasks' "resumable"
Resumed(t) == IF poller.task = t THEN poller ELSE Following(t)

\* Faulty: an ended task stops the card's poller, whatever it follows.
StoppedAnyway(t) == Quiet

Stopped(t) == IF poller.task = t THEN Quiet ELSE poller

\* The newest task of the answer gives the card its state; a task that is still
\* live is resumed, a poller whose task has ended is stopped
HistoryEnds ==
  /\ history.stage = "answered"
  /\ history' = NoHistory
  /\ videos' = videos \cup {t \in Seen : history.seen[t] = "completed"}
  /\ \/ /\ Seen = {}
        /\ UNCHANGED <<card, poller>>
     \/ /\ Seen # {} /\ Keeps
        /\ card' = IF poller.task = card.task THEN card ELSE [card EXCEPT !.state = "running"]
        /\ poller' = Resumed(card.task)
     \/ /\ Seen # {} /\ ~ Keeps
        /\ \E newest \in Seen :
           /\ \A t \in Seen : t <= newest
           /\ \/ /\ history.seen[newest] \in Live
                 /\ card' = [state |-> IF history.seen[newest] = "queued" /\ poller.task = newest
                                       THEN "pending" ELSE "running", task |-> newest]
                 /\ poller' = Resumed(newest)
              \/ /\ history.seen[newest] \in Outcomes
                 /\ card' = [state |-> IF history.seen[newest] = "completed" THEN "done"
                                       ELSE "failed", task |-> newest]
                 /\ poller' = Stopped(newest)
  /\ UNCHANGED <<server, sub, restoring, cancel, stored, open, loading>>

-----------------------------------------------------------------------------
(* The submission: executeTask, one at a time for a card. *)

\* ensureVideoSegmentId, then the cards are set before they are saved.  What the
\* card was is kept for Refused; without a video segment nothing happens.
Submit ==
  /\ open /\ ~ loading /\ sub.stage = "idle"
  /\ sub' = [stage |-> "saving", before |-> card, task |-> NoTask]
  /\ card' = Attached(card)
  /\ CardsChange
  /\ UNCHANGED <<server, videos, restoring, cancel, stored, open, loading>>

Saved ==
  /\ sub.stage = "saving"
  /\ sub' = [sub EXCEPT !.stage = "sent"]
  /\ stored' = Snapshot
  /\ card' = [state |-> "running", task |-> NoTask]
  /\ UNCHANGED <<server, videos, poller, history, restoring, cancel, open, loading>>

\* The save failed, or its answer was lost: nothing is submitted
NotSaved ==
  /\ sub.stage = "saving"
  /\ sub' = NoSubmission
  /\ stored' \in {stored, Snapshot}
  /\ UNCHANGED <<server, card, videos, poller, history, restoring, cancel, open, loading>>

Reaches(t) ==
  /\ sub.stage = "sent"
  /\ Created(t)
  /\ server' = [server EXCEPT ![t] = "queued"]
  /\ sub' = [stage |-> "made", before |-> Blank, task |-> t]
  /\ UNCHANGED <<card, videos, poller, history, restoring, cancel, stored, open, loading>>

\* A task that can still be cancelled starts as pending
Accepted(state) ==
  /\ sub.stage = "made"
  /\ card' = [state |-> state, task |-> sub.task]
  /\ poller' = Following(sub.task)
  /\ sub' = NoSubmission
  /\ UNCHANGED <<server, videos, history, restoring, cancel, stored, open, loading>>

\* Too few points: the card is put back as it was when the user clicked, without
\* the videos that came since
Refused ==
  /\ sub.stage = "sent"
  /\ LateAnswers \/ (sub.before.state \notin Active /\ poller.task = NoTask)
  /\ card' = sub.before /\ videos' \in SUBSET videos
  /\ sub' = NoSubmission
  /\ UNCHANGED <<server, poller, history, restoring, cancel, stored, open, loading>>

\* Any other error, or no answer; the request may have reached the server
Errs ==
  /\ sub.stage \in {"sent", "made"}
  /\ card' = [card EXCEPT !.state = "failed"]
  /\ sub' = NoSubmission
  /\ UNCHANGED <<server, videos, poller, history, restoring, cancel, stored, open, loading>>

-----------------------------------------------------------------------------
(* VideoCancellationControl. *)

CancelAnswered ==
  /\ open /\ ~ loading /\ cancel = NoTask
  /\ card.task # NoTask /\ card.state \in Active
  /\ server[card.task] = "queued"
  /\ server' = [server EXCEPT ![card.task] = "failed"]
  /\ cancel' = card.task
  /\ UNCHANGED <<card, videos, poller, sub, history, restoring, stored, open, loading>>

\* onCancelled stops the card's poller and clears the card, whatever they are by now
CancelEnds ==
  /\ cancel # NoTask
  /\ LateAnswers \/ poller.task \in {NoTask, cancel}
  /\ cancel' = NoTask
  /\ poller' = Quiet
  /\ card' = Blank
  /\ UNCHANGED <<server, videos, sub, history, restoring, stored, open, loading>>

\* The answer is lost; the user only sees an error
CancelLost ==
  /\ cancel # NoTask
  /\ cancel' = NoTask
  /\ UNCHANGED <<server, card, videos, poller, sub, history, restoring,
                 stored, open, loading>>

-----------------------------------------------------------------------------
(* The page. *)

\* The autosave, and the one when the page is hidden
Save ==
  /\ open /\ ~ loading
  /\ stored' = Snapshot
  /\ UNCHANGED <<server, card, videos, poller, sub, history, restoring,
                 cancel, open, loading>>

\* The page goes: its memory and what it waited for
Gone ==
  /\ open' = FALSE /\ loading' = FALSE
  /\ card' = Blank /\ videos' = {}
  /\ history' = NoHistory /\ restoring' = NoTask
  /\ UNCHANGED <<server, stored>>

\* The user goes to another page; the poller lives on, unheard
Leave ==
  /\ open /\ sub.stage = "idle" /\ cancel = NoTask
  /\ Gone
  /\ poller' = [poller EXCEPT !.heard = FALSE]
  /\ UNCHANGED <<sub, cancel>>

\* The browser loads everything anew; the poller is gone too
Reload ==
  /\ Gone
  /\ poller' = Quiet /\ sub' = NoSubmission /\ cancel' = NoTask

\* The page is mounted, its attach effect finds the poller, and loadSession has read
\* the session: the restore timer is set, but the cards come only when the project's
\* new shots are known.  A page that cannot read its session stays like this.
Open ==
  /\ ~ open
  /\ open' = TRUE /\ loading' = TRUE
  /\ card' = Attached(Blank)
  /\ poller' = [poller EXCEPT !.heard = poller.task # NoTask]
  /\ restoring' = IF stored.state \in Active THEN stored.task ELSE NoTask
  /\ UNCHANGED <<server, videos, sub, history, cancel, stored>>

\* The cards of the session take the place of what the page had of them; which of
\* the videos had been saved is left open
Loaded ==
  /\ loading
  /\ loading' = FALSE
  /\ card' = Attached(stored)
  /\ videos' \in SUBSET {t \in Tasks : server[t] = "completed"}
  /\ CardsChange
  /\ UNCHANGED <<server, sub, restoring, cancel, stored, open>>

\* What the timer was set for may have been settled meanwhile, or is not shown yet
StillRestores == card.task = restoring /\ card.state \notin Settled

RestoreTimer ==
  /\ restoring # NoTask
  /\ restoring' = NoTask
  /\ \/ /\ StillRestores
        /\ card' = [state |-> "running", task |-> restoring]
        /\ poller' = Following(restoring)
     \/ /\ ~ StillRestores
        /\ UNCHANGED <<card, poller>>
  /\ UNCHANGED <<server, videos, sub, history, cancel, stored, open, loading>>

ServerSteps(t) ==
  \/ Work(t) \/ Reaches(t)
  \/ \E outcome \in {"completed", "failed"} : Finish(t, outcome)

SubmissionSteps ==
  \/ Submit \/ Saved \/ NotSaved
  \/ \E state \in Active : Accepted(state)
  \/ Refused \/ Errs

PageSteps ==
  \/ EditCards \/ Save \/ Leave \/ Reload \/ Open \/ Loaded \/ RestoreTimer
  \/ HistoryAnswered \/ HistoryFails \/ HistoryEnds

Next ==
  \/ \E t \in Tasks : ServerSteps(t)
  \/ SubmissionSteps
  \/ PollAnswered \/ PollEnds
  \/ CancelAnswered \/ CancelEnds \/ CancelLost
  \/ PageSteps

Spec == Init /\ [][Next]_vars

-----------------------------------------------------------------------------
\* A card at work on a task is followed: a poller that the page hears will tell
\* of its end, or the restore timer is about to start one.
AtWork == open /\ card.state \in Active /\ card.task # NoTask
Followed == (poller.task # NoTask /\ poller.heard) \/ restoring = card.task

\* A card that is followed stays so until it is no longer at work.  Only a page that
\* takes longer to load than its restore timer waits can show a card that nobody
\* follows: then the timer finds no card (VideoPage.tsx:1398-1404, 1423).
StaysFollowed ==
  [][(AtWork => Followed) /\ ~ (loading /\ ~ loading' /\ restoring = NoTask)
       => (AtWork' => Followed')]_vars

\* The card of a session is reconciled with the server after a reload
\* (docs/architecture/video-task-state-recovery.md:5-6): what is shown at work is
\* followed, or the history that will settle or resume it is on its way.  No run checks
\* this, as the code breaks it: the page may take longer than its restore timer waits, and
\* the history may fail or not name the task.
RestoredIsReconciled ==
  AtWork /\ ~ loading => Followed \/ history.stage # "none"

\* The page never turns its poller back to an older task of the card: a history
\* the server answered before the last submission, or cut off at the page boundary,
\* and a restore timer set long ago do not take it from the task submitted last
\* (videoTaskReconciliation.ts:137-138).
NeverTurnsBack ==
  [][poller.task # NoTask /\ open /\ open'
       => poller'.task = NoTask \/ poller'.task >= poller.task]_vars

\* A poller the page hears stops only when its task has ended, or when there is no
\* such task; then the card is no longer at work, and the video of a task that has
\* ended is shown.  No history, edit or refused submission ends the watch over a task
\* whose outcome is to come.
OutcomeShown ==
  [][open /\ open' /\ poller.task # NoTask /\ poller.heard /\ poller'.task = NoTask
       => /\ card'.state \notin Active
          /\ \/ poller.answer = "missing"
             \/ /\ server[poller.task] \in Outcomes
                /\ server[poller.task] = "completed" => poller.task \in videos']_vars

\* The answer to the cancellation of a task leaves a newer task's poller alone
\* (videoTaskPoller.ts:84-85: slow requests must not update a replacement task
\* that reuses the same card).
CancelSparesReplacement ==
  [][cancel # NoTask /\ cancel' = NoTask /\ open' /\ poller.task \notin {NoTask, cancel}
       => poller'.task = poller.task]_vars
=============================================================================
