-------------------------- MODULE VideoCardProofs --------------------------
(***************************************************************************)
(* Proofs about VideoCard, for any number of tasks.                         *)
(***************************************************************************)
EXTENDS VideoCard, TLAPS

MaybeTask == Tasks \cup {NoTask}

-----------------------------------------------------------------------------
(* The values the actions build. *)

\* Tasks are positive numbers, so that "no task" is none of them.
LEMMA TaskNumbers ==
  Tasks \subseteq Nat /\ \A t \in Tasks : t > 0 /\ t # NoTask /\ t <= t
BY MaxTasksAssumption DEF Tasks, NoTask

\* The initial values of the parts.
LEMMA BlankValues ==
  /\ Blank \in CardType /\ Blank.state = "idle" /\ Blank.task = NoTask
  /\ Quiet \in PollerType /\ Quiet.task = NoTask /\ Quiet.answer = "none" /\ Quiet.heard = FALSE
  /\ NoSubmission \in SubmissionType /\ NoSubmission.stage = "idle" /\ NoSubmission.before = Blank
  /\ Nothing \in [Tasks -> ServerStates] /\ \A t \in Tasks : Nothing[t] = "none"
  /\ NoHistory \in HistoryType /\ NoHistory.stage = "none" /\ NoHistory.seen = Nothing
<1>1. Blank \in CardType /\ Blank.state = "idle" /\ Blank.task = NoTask
  BY DEF Blank, CardType, CardStates
<1>2. /\ Quiet \in PollerType /\ Quiet.task = NoTask /\ Quiet.answer = "none"
      /\ Quiet.heard = FALSE
  BY DEF Quiet, PollerType, ServerStates, Answers
<1>3. /\ NoSubmission \in SubmissionType /\ NoSubmission.stage = "idle"
      /\ NoSubmission.before = Blank
  BY <1>1 DEF NoSubmission, SubmissionType
<1>4. Nothing \in [Tasks -> ServerStates] /\ \A t \in Tasks : Nothing[t] = "none"
  BY DEF Nothing, ServerStates
<1>5. NoHistory \in HistoryType /\ NoHistory.stage = "none" /\ NoHistory.seen = Nothing
  BY <1>4 DEF NoHistory, HistoryType
<1> QED
  BY <1>1, <1>2, <1>3, <1>4, <1>5

\* A card is a state and a task.
LEMMA CardValues ==
  /\ \A s \in CardStates, t \in MaybeTask :
       LET c == [state |-> s, task |-> t]
       IN  c \in CardType /\ c.state = s /\ c.task = t
  /\ \A c \in CardType, s \in CardStates :
       LET d == [c EXCEPT !.state = s]
       IN  d \in CardType /\ d.state = s /\ d.task = c.task
  /\ \A c \in CardType : c.state \in CardStates /\ c.task \in MaybeTask
BY DEF CardType, MaybeTask

\* A poller is a task, an answer and whether it is heard.
LEMMA PollerValues ==
  /\ \A t \in MaybeTask, a \in Answers, h \in BOOLEAN :
       LET p == [task |-> t, answer |-> a, heard |-> h]
       IN  p \in PollerType /\ p.task = t /\ p.answer = a /\ p.heard = h
  /\ \A p \in PollerType, h \in BOOLEAN :
       LET q == [p EXCEPT !.heard = h]
       IN  q \in PollerType /\ q.task = p.task /\ q.answer = p.answer /\ q.heard = h
  /\ \A p \in PollerType, a \in Answers :
       LET q == [p EXCEPT !.answer = a]
       IN  q \in PollerType /\ q.task = p.task /\ q.answer = a /\ q.heard = p.heard
  /\ \A p \in PollerType :
       p.task \in MaybeTask /\ p.answer \in Answers /\ p.heard \in BOOLEAN
BY DEF PollerType, MaybeTask

\* A submission is a stage, the card as it was, and the task made of it.
LEMMA SubmissionValues ==
  /\ \A g \in {"idle", "saving", "sent", "made"}, b \in CardType, t \in MaybeTask :
       LET s == [stage |-> g, before |-> b, task |-> t]
       IN  s \in SubmissionType /\ s.stage = g /\ s.before = b /\ s.task = t
  /\ \A s \in SubmissionType, g \in {"idle", "saving", "sent", "made"} :
       LET r == [s EXCEPT !.stage = g]
       IN  r \in SubmissionType /\ r.stage = g /\ r.before = s.before /\ r.task = s.task
  /\ \A s \in SubmissionType :
       /\ s.stage \in {"idle", "saving", "sent", "made"}
       /\ s.before \in CardType /\ s.task \in MaybeTask
BY DEF SubmissionType, MaybeTask

\* A history is a stage and the status of the tasks it names.
LEMMA HistoryValues ==
  /\ \A g \in {"none", "asked", "answered"}, f \in [Tasks -> ServerStates] :
       LET h == [stage |-> g, seen |-> f]
       IN  h \in HistoryType /\ h.stage = g /\ h.seen = f
  /\ \A h \in HistoryType :
       h.stage \in {"none", "asked", "answered"} /\ h.seen \in [Tasks -> ServerStates]
BY DEF HistoryType

\* The states and answers there are.
LEMMA StateValues ==
  /\ Active \subseteq CardStates /\ Settled \subseteq CardStates
  /\ "idle" \in CardStates /\ "pending" \in Active /\ "running" \in Active
  /\ "done" \in Settled /\ "failed" \in Settled
  /\ "idle" \notin Active /\ Active \cap Settled = {}
  /\ Live \subseteq ServerStates /\ Outcomes \subseteq ServerStates
  /\ "none" \in ServerStates /\ "none" \notin Live \cup Outcomes
  /\ Live \cap Outcomes = {}
  /\ "queued" \in Live /\ "running" \in Live
  /\ "completed" \in Outcomes /\ "failed" \in Outcomes
  /\ \A s \in ServerStates : s = "none" \/ s \in Live \/ s \in Outcomes
  /\ ServerStates \subseteq Answers /\ "missing" \in Answers
  /\ "missing" \notin Live /\ "missing" \notin Outcomes /\ "missing" # "none"
  /\ \A a \in Answers : a \in ServerStates \/ a = "missing"
BY DEF Active, Settled, CardStates, Live, Outcomes, ServerStates, Answers

\* What becomes of a card with an answer: it is at work if the task is.
LEMMA StateForValues ==
  \A a \in Answers : StateFor(a) \in CardStates /\ (StateFor(a) \in Active <=> a \in Live)
BY DEF StateFor, Answers, ServerStates, CardStates, Active, Settled, Live, Outcomes

\* What the helpers return.
LEMMA HelperValues ==
  ASSUME TypeOK
  PROVE  /\ \A t \in Tasks : LET p == Following(t) IN
              /\ p \in PollerType /\ p.task = t /\ p.heard = TRUE
              /\ p.answer = IF poller.task = t THEN poller.answer ELSE "none"
         /\ \A t \in Tasks : LET p == Resumed(t) IN
              /\ p \in PollerType /\ p.task = t
              /\ IF poller.task = t THEN p = poller ELSE p.heard = TRUE /\ p.answer = "none"
         /\ \A t \in Tasks : Stopped(t) \in PollerType /\ Stopped(t) \in {Quiet, poller}
         /\ \A c \in CardType :
              /\ Attached(c) \in CardType
              /\ IF poller.task = NoTask THEN Attached(c) = c
                 ELSE Attached(c).task = poller.task /\ Attached(c).state = "running"
         /\ Snapshot \in CardType /\ Snapshot.task = card.task
         /\ Snapshot.state = IF card.state = "running" THEN "pending" ELSE card.state
<1>t. poller \in PollerType /\ card \in CardType
  BY DEF TypeOK
<1>1. ASSUME NEW t \in Tasks
      PROVE  /\ Following(t) \in PollerType /\ Following(t).task = t
             /\ Following(t).heard = TRUE
             /\ Following(t).answer = IF poller.task = t THEN poller.answer ELSE "none"
  <2>1. CASE poller.task = t
    <3>1. Following(t) = [poller EXCEPT !.heard = TRUE]
      BY <2>1 DEF Following
    <3> QED
      BY <1>t, <2>1, <3>1 DEF PollerType
  <2>2. CASE poller.task # t
    BY <2>2, PollerValues, StateValues DEF Following, MaybeTask
  <2> QED
    BY <2>1, <2>2
<1>2. ASSUME NEW t \in Tasks
      PROVE  /\ Resumed(t) \in PollerType /\ Resumed(t).task = t
             /\ IF poller.task = t THEN Resumed(t) = poller
                ELSE Resumed(t).heard = TRUE /\ Resumed(t).answer = "none"
  BY <1>t, <1>1 DEF Resumed, Following
<1>3. ASSUME NEW t \in Tasks
      PROVE  Stopped(t) \in PollerType /\ Stopped(t) \in {Quiet, poller}
  BY <1>t, BlankValues DEF Stopped
<1>4. ASSUME NEW c \in CardType
      PROVE  /\ Attached(c) \in CardType
             /\ IF poller.task = NoTask THEN Attached(c) = c
                ELSE Attached(c).task = poller.task /\ Attached(c).state = "running"
  BY <1>t, CardValues, PollerValues, StateValues DEF Attached
<1>5. /\ Snapshot \in CardType /\ Snapshot.task = card.task
      /\ Snapshot.state = IF card.state = "running" THEN "pending" ELSE card.state
  BY <1>t, CardValues, StateValues DEF Snapshot
<1> QED
  BY <1>t, <1>1, <1>2, <1>3, <1>4, <1>5

-----------------------------------------------------------------------------
(* Type correctness. *)

\* The type invariant made inductive: a poller without a task is at rest, and a
\* submission that was made has its task.
Shape ==
  /\ TypeOK
  /\ poller.task = NoTask => poller = Quiet
  /\ sub.stage = "made" => sub.task \in Tasks

\* The values of the state's parts.
LEMMA Parts ==
  ASSUME TypeOK
  PROVE  /\ poller.task \in MaybeTask /\ poller.answer \in Answers
         /\ poller.heard \in BOOLEAN
         /\ card.state \in CardStates /\ card.task \in MaybeTask
         /\ stored.state \in CardStates /\ stored.task \in MaybeTask
         /\ sub.stage \in {"idle", "saving", "sent", "made"}
         /\ sub.before \in CardType /\ sub.task \in MaybeTask
         /\ history.stage \in {"none", "asked", "answered"}
         /\ history.seen \in [Tasks -> ServerStates]
BY CardValues, PollerValues, SubmissionValues, HistoryValues DEF TypeOK

\* The shape of the state survives every step.
LEMMA TypeStep == Shape /\ [Next]_vars => TypeOK'
<1> SUFFICES ASSUME Shape, [Next]_vars PROVE TypeOK'
  OBVIOUS
<1>t. TypeOK
  BY DEF Shape
<1> USE <1>t, HelperValues, BlankValues, StateValues, TaskNumbers, Parts DEF MaybeTask
<1>1. CASE \E t \in Tasks : ServerSteps(t)
  <2> PICK t \in Tasks : ServerSteps(t)
    BY <1>1
  <2>1. CASE Work(t)
    BY <2>1 DEF TypeOK, Work
  <2>2. CASE Reaches(t)
    BY <2>2, SubmissionValues DEF TypeOK, Reaches
  <2>3. CASE \E outcome \in {"completed", "failed"} : Finish(t, outcome)
    BY <2>3 DEF TypeOK, Finish
  <2> QED
    BY <2>1, <2>2, <2>3 DEF ServerSteps
<1>2. CASE SubmissionSteps
  <2>1. CASE Submit
    BY <2>1, SubmissionValues, HistoryValues, PollerValues DEF TypeOK, Submit, CardsChange
  <2>2. CASE Saved
    <3>1. sub' \in SubmissionType
      BY <2>2, SubmissionValues DEF TypeOK, Saved
    <3>2. card' \in CardType
      BY <2>2, CardValues DEF TypeOK, Saved
    <3>3. stored' \in CardType /\ stored'.state # "running"
      BY <2>2 DEF Saved
    <3> QED
      BY <2>2, <3>1, <3>2, <3>3 DEF TypeOK, Saved
  <2>3. CASE NotSaved
    <3>1. Snapshot \in CardType /\ Snapshot.state # "running"
      OBVIOUS
    <3>2. stored' = stored \/ stored' = Snapshot
      BY <2>3 DEF NotSaved
    <3> QED
      BY <2>3, <3>1, <3>2, BlankValues DEF TypeOK, NotSaved
  <2>4. CASE \E state \in Active : Accepted(state)
    <3> PICK state \in Active : Accepted(state)
      BY <2>4
    <3>1. sub.task \in Tasks
      BY DEF Accepted, Shape
    <3>2. Following(sub.task) \in PollerType
      BY <3>1
    <3> QED
      BY <3>1, <3>2, CardValues DEF TypeOK, Accepted
  <2>5. CASE Refused
    BY <2>5, SubmissionValues DEF TypeOK, Refused
  <2>6. CASE Errs
    BY <2>6, CardValues DEF TypeOK, Errs
  <2> QED
    BY <1>2, <2>1, <2>2, <2>3, <2>4, <2>5, <2>6 DEF SubmissionSteps
<1>3. CASE PollAnswered
  <2>1. PICK a \in {server[poller.task], "missing"} : poller' = [poller EXCEPT !.answer = a]
    BY <1>3 DEF PollAnswered
  <2>2. a \in Answers
    BY <1>3, <2>1 DEF TypeOK, PollAnswered
  <2>3. poller' \in PollerType
    BY <2>1, <2>2, PollerValues DEF TypeOK
  <2> QED
    BY <1>3, <2>3 DEF TypeOK, PollAnswered
<1>4. CASE PollEnds
  <2>1. poller' \in PollerType
    BY <1>4, PollerValues DEF TypeOK, PollEnds
  <2>2. card' \in CardType
    BY <1>4, CardValues, StateForValues DEF TypeOK, PollEnds
  <2>3. videos' \in SUBSET Tasks
    <3>1. poller.answer = "completed" => poller.task \in Tasks
      BY StateValues DEF Shape
    <3> QED
      BY <1>4, <3>1 DEF TypeOK, PollEnds
  <2> QED
    BY <1>4, <2>1, <2>2, <2>3 DEF TypeOK, PollEnds
<1>5. CASE CancelAnswered \/ CancelEnds \/ CancelLost
  BY <1>5, CardValues DEF TypeOK, CancelAnswered, CancelEnds, CancelLost
<1>6. CASE PageSteps
  <2>1. CASE EditCards
    BY <2>1, HistoryValues, PollerValues DEF TypeOK, EditCards, CardsChange
  <2>2. CASE Save
    BY <2>2 DEF TypeOK, Save
  <2>3. CASE Leave
    BY <2>3, PollerValues DEF TypeOK, Leave, Gone
  <2>8. CASE Reload
    <3>1. /\ card' = Blank /\ videos' = {} /\ history' = NoHistory /\ restoring' = NoTask
          /\ poller' = Quiet /\ sub' = NoSubmission /\ cancel' = NoTask /\ open' = FALSE
          /\ loading' = FALSE /\ server' = server /\ stored' = stored
      BY <2>8 DEF Reload, Gone
    <3> QED
      BY <3>1 DEF TypeOK
  <2>4. CASE Open
    BY <2>4, PollerValues DEF TypeOK, Open
  <2>10. CASE Loaded
    BY <2>10, HistoryValues, PollerValues, CardValues DEF TypeOK, Loaded, CardsChange
  <2>5. CASE RestoreTimer
    <3>1. restoring \in Tasks
      BY <2>5 DEF TypeOK, RestoreTimer
    <3>2. Following(restoring) \in PollerType
      BY <3>1
    <3>3. [state |-> "running", task |-> restoring] \in CardType
      BY <3>1 DEF CardType
    <3> QED
      BY <2>5, <3>2, <3>3 DEF TypeOK, RestoreTimer
  <2>6. CASE HistoryAnswered
    <3>1. PICK b \in 0..(MaxTasks - 1) :
            history' = [stage |-> "answered",
                        seen |-> [t \in Tasks |-> IF t > b THEN server[t] ELSE "none"]]
      BY <2>6 DEF HistoryAnswered
    <3>2. [t \in Tasks |-> IF t > b THEN server[t] ELSE "none"] \in [Tasks -> ServerStates]
      BY DEF TypeOK
    <3>3. history' \in HistoryType
      BY <3>1, <3>2 DEF HistoryType
    <3> QED
      BY <2>6, <3>3 DEF TypeOK, HistoryAnswered
  <2>9. CASE HistoryFails
    BY <2>9 DEF TypeOK, HistoryFails
  <2>7. CASE HistoryEnds
    <3>1. videos' \in SUBSET Tasks
      BY <2>7 DEF TypeOK, HistoryEnds, Seen
    <3>2. card' \in CardType /\ poller' \in PollerType
      <4>1. CASE UNCHANGED <<card, poller>>
        BY <4>1 DEF TypeOK
      <4>2. CASE Keeps /\ poller' = Resumed(card.task)
                 /\ card' = IF poller.task = card.task THEN card
                            ELSE [card EXCEPT !.state = "running"]
        BY <4>2, CardValues DEF TypeOK, Keeps
      <4>3. CASE \E n \in Seen, s \in CardStates :
                   card' = [state |-> s, task |-> n] /\ poller' \in {Resumed(n), Stopped(n)}
        <5> PICK n \in Seen, s \in CardStates :
                   card' = [state |-> s, task |-> n] /\ poller' \in {Resumed(n), Stopped(n)}
          BY <4>3
        <5>1. n \in Tasks
          BY DEF Seen
        <5>2. card' \in CardType
          BY <5>1 DEF CardType
        <5>3. Resumed(n) \in PollerType /\ Stopped(n) \in PollerType
          BY <5>1
        <5> QED
          BY <5>2, <5>3
      <4> QED
        BY <2>7, <4>1, <4>2, <4>3 DEF HistoryEnds
    <3> QED
      BY <2>7, <3>1, <3>2 DEF TypeOK, HistoryEnds
  <2> QED
    BY <1>6, <2>1, <2>2, <2>3, <2>4, <2>5, <2>6, <2>7, <2>8, <2>9, <2>10 DEF PageSteps
<1>7. CASE UNCHANGED vars
  BY <1>7 DEF TypeOK, vars
<1> QED
  BY <1>1, <1>2, <1>3, <1>4, <1>5, <1>6, <1>7 DEF Next

\* The effects of a change of the cards on the poller: it is heard, if there is one.
LEMMA ChangedPoller ==
  ASSUME Shape, CardsChange
  PROVE  /\ poller'.task = poller.task /\ poller'.answer = poller.answer
         /\ poller.task # NoTask => poller'.heard = TRUE
         /\ poller.task = NoTask => poller' = Quiet
         /\ history'.stage = "asked" /\ history'.seen = Nothing
<1>1. poller \in PollerType /\ (poller.task # NoTask) \in BOOLEAN
  BY DEF Shape, TypeOK
<1>2. poller' = [poller EXCEPT !.heard = poller.task # NoTask]
  BY DEF CardsChange
<1>3. /\ poller'.task = poller.task /\ poller'.answer = poller.answer
      /\ poller'.heard = (poller.task # NoTask)
  BY <1>1, <1>2, PollerValues
<1>4. poller.task = NoTask => poller' = Quiet
  <2> SUFFICES ASSUME poller.task = NoTask PROVE poller' = Quiet
    OBVIOUS
  <2>1. poller = Quiet
    BY DEF Shape
  <2>2. poller' = [Quiet EXCEPT !.heard = FALSE]
    BY <1>2, <2>1
  <2> QED
    BY <2>2 DEF Quiet
<1>5. history'.stage = "asked" /\ history'.seen = Nothing
  BY DEF CardsChange
<1> QED
  BY <1>3, <1>4, <1>5

\* A poller without a task stays at rest, and a submission that was made keeps its task.
LEMMA ShapeStep == Shape /\ [Next]_vars => Shape'
<1> SUFFICES ASSUME Shape, [Next]_vars PROVE Shape'
  OBVIOUS
<1>t. TypeOK /\ TypeOK'
  BY TypeStep DEF Shape
<1>1. poller'.task = NoTask => poller' = Quiet
  <2> USE StateValues, TaskNumbers, Parts, BlankValues DEF MaybeTask
  <2>1. CASE poller' \in {poller, Quiet}
    BY <2>1 DEF Shape
  <2>2. CASE PollAnswered \/ PollEnds
    <3>1. poller.task # NoTask
      BY <2>2 DEF PollAnswered, PollEnds, Shape
    <3>2. poller' = Quiet \/ \E a \in Answers : poller' = [poller EXCEPT !.answer = a]
      <4>1. CASE PollAnswered
        <5>1. server[poller.task] \in Answers /\ "missing" \in Answers
          BY <1>t, <3>1 DEF TypeOK
        <5> QED
          BY <4>1, <5>1 DEF PollAnswered
      <4>2. CASE PollEnds
        BY <4>2 DEF PollEnds
      <4> QED
        BY <2>2, <4>1, <4>2
    <3>3. \A a \in Answers : [poller EXCEPT !.answer = a].task = poller.task
      BY <1>t, PollerValues DEF TypeOK
    <3> QED
      BY <3>1, <3>2, <3>3
  <2>3. CASE CardsChange
    BY <2>3, ChangedPoller
  <2>4. CASE \E t \in Tasks : poller' \in {Following(t), Resumed(t), Stopped(t)}
    <3> PICK t \in Tasks : poller' \in {Following(t), Resumed(t), Stopped(t)}
      BY <2>4
    <3>1. Following(t).task = t /\ Resumed(t).task = t /\ Stopped(t) \in {Quiet, poller}
      BY <1>t, HelperValues
    <3> QED
      BY <3>1 DEF Shape
  <2>5. CASE Leave
    <3>1. poller' = [poller EXCEPT !.heard = FALSE]
      BY <2>5 DEF Leave
    <3>2. poller = Quiet => [poller EXCEPT !.heard = FALSE] = Quiet
      BY DEF Quiet
    <3>3. poller'.task = poller.task
      BY <1>t, <3>1, PollerValues DEF TypeOK
    <3> QED
      BY <3>1, <3>2, <3>3 DEF Shape
  <2>9. CASE Open
    <3>1. poller' = [poller EXCEPT !.heard = poller.task # NoTask]
      BY <2>9 DEF Open
    <3>2. poller = Quiet => poller' = Quiet
      BY <3>1 DEF Quiet
    <3>3. poller'.task = poller.task
      BY <1>t, <3>1, PollerValues DEF TypeOK
    <3> QED
      BY <3>2, <3>3 DEF Shape
  <2>6. CASE HistoryEnds
    <3>1. card.task \in Tasks \/ ~ Keeps
      BY <1>t DEF Keeps
    <3>2. poller' = poller \/ \E t \in Tasks : poller' \in {Resumed(t), Stopped(t)}
      BY <2>6, <3>1 DEF HistoryEnds, Seen
    <3> QED
      BY <2>1, <2>4, <3>2
  <2>7. CASE \E state \in Active : Accepted(state)
    BY <2>4, <2>7 DEF Accepted, Shape
  <2>8. CASE RestoreTimer
    BY <1>t, <2>1, <2>4, <2>8 DEF RestoreTimer, TypeOK
  <2> QED
    BY <2>1, <2>2, <2>3, <2>5, <2>6, <2>7, <2>8, <2>9 DEF Next, vars, ServerSteps, Work, Finish,
       Reaches, SubmissionSteps, Submit, Saved, NotSaved, Refused, Errs, CancelAnswered,
       CancelEnds, CancelLost, PageSteps, EditCards, Save, Reload, Loaded, HistoryAnswered,
       HistoryFails
<1>2. sub'.stage = "made" => sub'.task \in Tasks
  <2>1. CASE \E t \in Tasks : Reaches(t)
    BY <2>1, SubmissionValues DEF Reaches
  <2>2. CASE UNCHANGED sub
    BY <2>2 DEF Shape
  <2>3. CASE sub' = NoSubmission \/ Submit \/ Saved
    <3>1. sub' = NoSubmission => sub'.stage = "idle"
      BY BlankValues
    <3>2. Submit => sub'.stage = "saving"
      BY DEF Submit
    <3>3. Saved => sub'.stage = "sent"
      <4>1. [sub EXCEPT !.stage = "sent"].stage = "sent"
        BY <1>t, SubmissionValues DEF TypeOK
      <4> QED
        BY <4>1 DEF Saved
    <3> QED
      BY <2>3, <3>1, <3>2, <3>3
  <2> QED
    BY <2>1, <2>2, <2>3 DEF Next, vars, ServerSteps, Work, Finish, SubmissionSteps, NotSaved,
       Accepted, Refused, Errs, PollAnswered, PollEnds, CancelAnswered, CancelEnds, CancelLost,
       PageSteps, EditCards, Save, Leave, Reload, Gone, Open, Loaded, RestoreTimer, HistoryAnswered,
       HistoryFails, HistoryEnds
<1> QED
  BY <1>t, <1>1, <1>2 DEF Shape

\* Initially nobody does anything.
LEMMA ShapeInit == Init => Shape
BY BlankValues DEF Init, Shape, TypeOK

\* Every part of the page, the session and the server keeps its shape, also when
\* answers come late.
THEOREM CardTypeCorrect == Spec => []TypeOK
<1>1. Shape => TypeOK
  BY DEF Shape
<1> QED
  BY <1>1, ShapeInit, ShapeStep, PTL DEF Spec

-----------------------------------------------------------------------------
(* The inductive invariant. *)

\* A task the page names is one the server has.
Exists(t) == t # NoTask => server[t] # "none"

\* The poller's task exists, its last word is the server's, and an open page hears it.
PollerKnown ==
  poller.task # NoTask =>
    /\ server[poller.task] # "none"
    /\ poller.answer \in Outcomes => server[poller.task] = poller.answer
    /\ open => poller.heard = TRUE

\* Nothing but the poller outlives the page, and nobody hears it; a page that loads
\* waits for no history, submission or cancellation, and restores what was stored.
PageClosed ==
  /\ ~ open => /\ card.state = "idle" /\ card.task = NoTask /\ loading = FALSE
               /\ restoring = NoTask /\ poller.heard = FALSE
  /\ ~ open \/ loading => history.stage = "none" /\ cancel = NoTask /\ sub.stage = "idle"
  /\ loading => restoring \in {NoTask, stored.task}

\* Tasks are numbered without a gap.
Numbered ==
  \A t, u \in Tasks : t < u /\ server[u] # "none" => server[t] # "none"

\* The task made of the submission is the newest there is.
SubmissionKnown ==
  sub.stage = "made" =>
    /\ server[sub.task] # "none"
    /\ \A t \in Tasks : server[t] # "none" => t <= sub.task

\* The tasks the page and the session name exist; a confirmed cancellation ended one.
TasksKnown ==
  /\ Exists(card.task) /\ Exists(stored.task) /\ Exists(restoring)
  /\ Exists(sub.before.task)
  /\ cancel # NoTask => server[cancel] = "failed"

\* What the history says of a task was so, and still is once the task has ended.
HistoryKnown ==
  \A t \in Tasks : history.seen[t] # "none" =>
    /\ server[t] # "none"
    /\ history.seen[t] \in Outcomes => server[t] = history.seen[t]

\* The card never names an older task than its poller.
CardLeads ==
  open /\ card.task # NoTask /\ poller.task # NoTask => poller.task <= card.task

Covered(t) == \E u \in Seen : t <= u

\* A history that has come in covers the poller's task, unless the card was given
\* that task since; and it covers what the restore timer was set for.
HistoryFresh ==
  history.stage = "answered" /\ Seen # {} =>
    /\ restoring # NoTask => Covered(restoring)
    /\ poller.task # NoTask =>
         \/ Covered(poller.task)
         \/ sub.stage = "idle" /\ card.task # NoTask /\ card.state \in Active

Inv ==
  /\ Shape
  /\ Numbered /\ PollerKnown /\ PageClosed /\ SubmissionKnown /\ TasksKnown /\ HistoryKnown
  /\ CardLeads /\ HistoryFresh

\* A task does not vanish from the server, and an outcome is final.
LEMMA ServerStep ==
  ASSUME TypeOK, [Next]_vars, NEW t \in Tasks
  PROVE  /\ server[t] # "none" => server'[t] # "none"
         /\ server[t] \in Outcomes => server'[t] = server[t]
<1> USE StateValues
<1>1. CASE \E u \in Tasks : ServerSteps(u)
  <2> PICK u \in Tasks : ServerSteps(u)
    BY <1>1
  <2>1. CASE Work(u)
    BY <2>1 DEF TypeOK, Work
  <2>2. CASE Reaches(u)
    BY <2>2 DEF TypeOK, Reaches, Created
  <2>3. CASE \E outcome \in {"completed", "failed"} : Finish(u, outcome)
    BY <2>3 DEF TypeOK, Finish
  <2> QED
    BY <2>1, <2>2, <2>3 DEF ServerSteps
<1>2. CASE CancelAnswered
  BY <1>2 DEF TypeOK, CancelAnswered
<1>3. CASE server' = server
  BY <1>3
<1> QED
  BY <1>1, <1>2, <1>3 DEF Next, vars, SubmissionSteps, PageSteps, Submit, Saved, NotSaved,
     Accepted, Refused, Errs, PollAnswered, PollEnds, CancelEnds, CancelLost, EditCards,
     Save, Leave, Reload, Gone, Open, Loaded, RestoreTimer, HistoryAnswered, HistoryFails, HistoryEnds

\* Steps of the server preserve the invariant.
LEMMA ServerInv ==
  ASSUME Inv, TypeOK', NEW t \in Tasks, ServerSteps(t)
  PROVE  Inv'
<1> USE StateValues, TaskNumbers, Parts, BlankValues DEF MaybeTask
<1>s. /\ TypeOK /\ [Next]_vars
      /\ \A u \in Tasks : /\ server[u] # "none" => server'[u] # "none"
                          /\ server[u] \in Outcomes => server'[u] = server[u]
  BY ServerStep DEF Inv, Shape, Next
<1>1. /\ UNCHANGED <<card, videos, poller, history, restoring, cancel, stored, open, loading>>
      /\ Seen' = Seen
  BY DEF ServerSteps, Work, Finish, Reaches, Seen
<1>k. TasksKnown' /\ HistoryKnown'
  <2>1. TasksKnown /\ HistoryKnown
    BY DEF Inv
  <2>2. \A u \in MaybeTask : Exists(u) => Exists(u)'
    BY <1>s DEF Exists
  <2>3. Exists(card.task)' /\ Exists(stored.task)' /\ Exists(restoring)'
    BY <1>s, <1>1, <2>1, <2>2 DEF TasksKnown, Exists, TypeOK
  <2>4. Exists(sub.before.task)'
    <3>1. sub.before.task \in MaybeTask
      BY <1>s, CardValues
    <3>2. sub'.before \in {sub.before, Blank}
      BY DEF ServerSteps, Work, Finish, Reaches
    <3> QED
      BY ZenonT(60), <1>s, <2>1, <3>1, <3>2 DEF TasksKnown, Exists
  <2>5. cancel' # NoTask => server'[cancel'] = "failed"
    BY <1>s, <1>1, <2>1 DEF TasksKnown, TypeOK
  <2>6. HistoryKnown'
    BY <1>s, <1>1, <2>1 DEF HistoryKnown
  <2> QED
    BY <2>3, <2>4, <2>5, <2>6 DEF TasksKnown
<1>2. CASE ~ Reaches(t)
  <2>1. UNCHANGED sub
    BY <1>2 DEF ServerSteps, Work, Finish
  <2>2. \A u \in Tasks : server'[u] # "none" => server[u] # "none"
    BY <1>2, <1>s DEF ServerSteps, Work, Finish, TypeOK
  <2>3. Shape' /\ PollerKnown' /\ PageClosed' /\ SubmissionKnown'
    BY <1>s, <1>1, <2>1, <2>2 DEF Inv, Shape, PollerKnown, PageClosed, SubmissionKnown
  <2>4. Numbered'
    BY <1>s, <2>2 DEF Inv, Numbered
  <2>5. CardLeads' /\ HistoryFresh'
    BY <1>1, <2>1 DEF Inv, CardLeads, HistoryFresh, Covered
  <2> QED
    BY <1>k, <2>3, <2>4, <2>5 DEF Inv
<1>3. CASE Reaches(t)
  <2>1. /\ sub.stage = "sent" /\ Created(t)
        /\ server' = [server EXCEPT ![t] = "queued"]
        /\ sub'.stage = "made" /\ sub'.before = Blank /\ sub'.task = t
    BY <1>3 DEF Reaches
  <2>2. Shape' /\ PollerKnown' /\ PageClosed'
    BY <1>s, <1>1, <2>1 DEF Inv, Shape, PollerKnown, PageClosed
  <2>3. SubmissionKnown'
    <3>1. server'[t] # "none"
      BY <1>s, <2>1 DEF TypeOK
    <3>2. ASSUME NEW u \in Tasks, server'[u] # "none" PROVE u <= t
      <4>1. CASE u = t
        BY <4>1
      <4>2. CASE u # t
        <5>1. server[u] # "none" /\ server[t] = "none"
          BY <1>s, <2>1, <3>2, <4>2 DEF TypeOK, Created
        <5> QED
          BY <5>1 DEF Inv, Numbered
      <4> QED
        BY <4>1, <4>2
    <3> QED
      BY <2>1, <3>1, <3>2 DEF SubmissionKnown
  <2>4. Numbered'
    <3>1. \A u \in Tasks : server'[u] = "none" => server[u] = "none" /\ u # t
      BY <1>s, <2>1 DEF TypeOK
    <3>2. \A u \in Tasks : server[u] # "none" \/ u = t \/ server'[u] = "none"
      BY <1>s, <2>1 DEF TypeOK
    <3>3. \A u \in Tasks : u < t => server[u] # "none"
      BY <2>1, MaxTasksAssumption DEF Created, Tasks
    <3> QED
      BY <3>1, <3>2, <3>3 DEF Inv, Numbered
  <2>5. CardLeads' /\ HistoryFresh'
    BY <1>1, <2>1 DEF Inv, CardLeads, HistoryFresh, Covered
  <2> QED
    BY <1>k, <2>2, <2>3, <2>4, <2>5 DEF Inv
<1> QED
  BY <1>2, <1>3

\* Steps of the submission preserve the invariant, when no refusal comes late.
LEMMA SubmissionInv ==
  ASSUME Inv, TypeOK', SubmissionSteps, ~ LateAnswers
  PROVE  Inv'
<1> USE StateValues, TaskNumbers, Parts, BlankValues DEF MaybeTask
<1>t. TypeOK
  BY DEF Inv, Shape
<1>1. CASE Submit
  <2>1. /\ poller'.task = poller.task /\ poller'.answer = poller.answer
        /\ poller.task # NoTask => poller'.heard = TRUE
        /\ poller.task = NoTask => poller' = Quiet
        /\ history'.stage = "asked" /\ history'.seen = Nothing
    BY <1>1, ChangedPoller DEF Submit, Inv
  <2>2. /\ open = TRUE /\ open' = TRUE /\ loading = FALSE /\ loading' = FALSE
        /\ sub'.stage = "saving" /\ sub'.before = card
        /\ UNCHANGED <<server, videos, restoring, cancel, stored>>
        /\ IF poller.task = NoTask THEN card' = card
           ELSE card'.task = poller.task /\ card'.state = "running"
    BY ZenonT(60), <1>1, <1>t, HelperValues DEF Submit, TypeOK
  <2>3. Shape' /\ PollerKnown' /\ PageClosed' /\ SubmissionKnown' /\ Numbered'
    BY <2>1, <2>2 DEF Inv, Shape, PollerKnown, PageClosed, SubmissionKnown, Numbered
  <2>4. TasksKnown'
    BY <1>t, <2>1, <2>2 DEF Inv, TasksKnown, Exists, PollerKnown
  <2>5. HistoryKnown' /\ HistoryFresh'
    BY <2>1 DEF HistoryKnown, HistoryFresh
  <2>7. CardLeads'
    <3>1. poller.task # NoTask => poller.task <= poller.task
      BY <1>t
    <3> QED
      BY <2>1, <2>2, <3>1 DEF CardLeads
  <2> QED
    BY <2>3, <2>4, <2>5, <2>7 DEF Inv
<1>2. CASE Saved
  <2>1. /\ sub.stage = "saving" /\ sub'.stage = "sent" /\ sub'.before = sub.before
        /\ stored'.task = card.task /\ card'.task = NoTask
        /\ UNCHANGED <<server, videos, poller, history, restoring, cancel, open, loading>>
        /\ Seen' = Seen
    <3>1. sub.stage = "saving" /\ sub'.stage = "sent" /\ sub'.before = sub.before
      BY <1>2, <1>t, SubmissionValues DEF Saved, TypeOK
    <3>2. stored'.task = card.task /\ card'.task = NoTask
      BY <1>2, <1>t, HelperValues DEF Saved
    <3> QED
      BY <1>2, <3>1, <3>2 DEF Saved, Seen
  <2> QED
    BY <2>1 DEF Inv, Shape, PollerKnown, PageClosed, SubmissionKnown, Numbered, TasksKnown,
       Exists, HistoryKnown, HistoryFresh, Covered, CardLeads
<1>3. CASE NotSaved
  <2>1. /\ sub.stage = "saving" /\ sub'.stage = "idle" /\ sub'.before = Blank
        /\ stored'.task \in {stored.task, card.task}
        /\ UNCHANGED <<server, card, videos, poller, history, restoring, cancel, open, loading>>
        /\ Seen' = Seen
    BY <1>3, <1>t, HelperValues DEF NotSaved, Seen
  <2> QED
    BY <2>1 DEF Inv, Shape, PollerKnown, PageClosed, SubmissionKnown, Numbered, TasksKnown,
       Exists, HistoryKnown, HistoryFresh, Covered, CardLeads
<1>4. CASE \E state \in Active : Accepted(state)
  <2> PICK state \in Active : Accepted(state)
    BY <1>4
  <2>1. /\ sub.stage = "made" /\ sub'.stage = "idle" /\ sub'.before = Blank
        /\ card'.state = state /\ card'.task = sub.task /\ sub.task \in Tasks
        /\ UNCHANGED <<server, videos, history, restoring, cancel, stored, open, loading>>
        /\ Seen' = Seen
    BY DEF Accepted, Seen, Inv, Shape
  <2>2. /\ poller'.task = sub.task /\ poller'.heard = TRUE
        /\ poller'.answer = IF poller.task = sub.task THEN poller.answer ELSE "none"
    BY <1>t, <2>1, HelperValues DEF Accepted
  <2>3. Shape' /\ PollerKnown' /\ PageClosed' /\ SubmissionKnown' /\ Numbered'
    BY ZenonT(60), <2>1, <2>2 DEF Inv, Shape, PollerKnown, PageClosed, SubmissionKnown, Numbered
  <2>4. TasksKnown'
    BY <1>t, <2>1, <2>2 DEF Inv, TasksKnown, Exists, SubmissionKnown
  <2>5. HistoryKnown' /\ HistoryFresh'
    BY <2>1, <2>2 DEF Inv, HistoryKnown, HistoryFresh, Covered
  <2>6. CardLeads'
    <3>1. sub.task <= sub.task
      BY <2>1
    <3> QED
      BY <2>1, <2>2, <3>1 DEF CardLeads
  <2> QED
    BY <2>3, <2>4, <2>5, <2>6 DEF Inv
<1>5. CASE Refused
  <2>1. /\ sub.stage = "sent" /\ sub.before.state \notin Active /\ poller.task = NoTask
        /\ card' = sub.before /\ sub'.stage = "idle" /\ sub'.before = Blank
        /\ UNCHANGED <<server, poller, history, restoring, cancel, stored, open, loading>>
        /\ Seen' = Seen
    BY <1>5 DEF Refused, Seen
  <2> QED
    BY <2>1 DEF Inv, Shape, PollerKnown, PageClosed, SubmissionKnown, Numbered, TasksKnown,
       Exists, HistoryKnown, HistoryFresh, Covered, CardLeads
<1>6. CASE Errs
  <2>1. /\ sub.stage \in {"sent", "made"} /\ sub'.stage = "idle" /\ sub'.before = Blank
        /\ card'.state = "failed" /\ card'.task = card.task
        /\ UNCHANGED <<server, videos, poller, history, restoring, cancel, stored, open, loading>>
        /\ Seen' = Seen
    BY <1>6, <1>t, CardValues DEF Errs, Seen, TypeOK
  <2> QED
    BY <2>1 DEF Inv, Shape, PollerKnown, PageClosed, SubmissionKnown, Numbered, TasksKnown,
       Exists, HistoryKnown, HistoryFresh, Covered, CardLeads
<1> QED
  BY <1>1, <1>2, <1>3, <1>4, <1>5, <1>6 DEF SubmissionSteps

\* Answers to the poller and to a cancellation preserve the invariant.
LEMMA AnswerInv ==
  ASSUME Inv, TypeOK', ~ LateAnswers,
         PollAnswered \/ PollEnds \/ CancelAnswered \/ CancelEnds \/ CancelLost
  PROVE  Inv'
<1> USE StateValues, TaskNumbers, Parts, BlankValues DEF MaybeTask
<1>t. TypeOK
  BY DEF Inv, Shape
<1>1. CASE PollAnswered
  <2>1. /\ poller.task # NoTask /\ poller'.task = poller.task /\ poller'.heard = poller.heard
        /\ poller'.answer \in {server[poller.task], "missing"}
    <3>1. poller.task \in Tasks /\ server[poller.task] \in Answers
      BY <1>1, <1>t DEF PollAnswered, TypeOK
    <3>2. PICK a \in {server[poller.task], "missing"} : poller' = [poller EXCEPT !.answer = a]
      BY <1>1 DEF PollAnswered
    <3>3. a \in Answers
      BY <3>1
    <3> QED
      BY <1>1, <1>t, <3>2, <3>3, PollerValues DEF PollAnswered, TypeOK
  <2>2. /\ UNCHANGED <<server, card, videos, sub, history, restoring, cancel, stored, open, loading>>
        /\ Seen' = Seen
    BY <1>1 DEF PollAnswered, Seen
  <2> QED
    BY <2>1, <2>2 DEF Inv, Shape, PollerKnown, PageClosed, SubmissionKnown, Numbered,
       TasksKnown, Exists, HistoryKnown, HistoryFresh, Covered, CardLeads
<1>2. CASE PollEnds
  <2>1. /\ UNCHANGED <<server, sub, history, restoring, cancel, stored, open, loading>>
        /\ Seen' = Seen /\ card'.task = card.task /\ poller.answer # "none"
        /\ poller.heard = FALSE => card' = card
    BY <1>2, <1>t, CardValues, StateForValues DEF PollEnds, Seen, TypeOK
  <2>2. poller.task # NoTask
    BY <2>1 DEF Inv, Shape
  <2>3. ~ open => card' = card
    BY <2>1 DEF Inv, PageClosed
  <2>4. CASE poller.answer \notin Live
    <3>1. poller' = Quiet
      BY <1>2, <2>4 DEF PollEnds
    <3> QED
      BY <2>1, <2>3, <3>1 DEF Inv, Shape, PollerKnown, PageClosed, SubmissionKnown,
         Numbered, TasksKnown, Exists, HistoryKnown, HistoryFresh, Covered, CardLeads
  <2>5. CASE poller.answer \in Live
    <3>1. /\ poller'.task = poller.task /\ poller'.heard = poller.heard
          /\ poller'.answer = "none"
      BY <1>2, <1>t, <2>5, PollerValues DEF PollEnds, TypeOK
    <3>2. poller.heard = TRUE => card'.state \in Active
      BY <1>2, <1>t, <2>5, CardValues, StateForValues DEF PollEnds, TypeOK
    <3>3. HistoryFresh'
      BY <1>t, <2>1, <2>2, <3>1, <3>2
         DEF Inv, PollerKnown, HistoryFresh, Covered, PageClosed
    <3> QED
      BY <2>1, <2>2, <2>3, <3>1, <3>3 DEF Inv, Shape, PollerKnown, PageClosed, SubmissionKnown,
         Numbered, TasksKnown, Exists, HistoryKnown, CardLeads
  <2> QED
    BY <1>t, <2>1, <2>4, <2>5
<1>3. CASE CancelAnswered
  <2>1. /\ card.task \in Tasks /\ cancel' = card.task
        /\ server' = [server EXCEPT ![card.task] = "failed"]
        /\ server[card.task] = "queued" /\ open /\ ~ loading
        /\ UNCHANGED <<card, videos, poller, sub, history, restoring, stored, open, loading>>
        /\ Seen' = Seen
    BY <1>3, <1>t DEF CancelAnswered, Seen
  <2>2. \A u \in Tasks : /\ server'[u] = "none" <=> server[u] = "none"
                         /\ server[u] \in Outcomes => server'[u] = server[u]
    BY <1>t, <2>1 DEF TypeOK
  <2>3. server'[cancel'] = "failed"
    BY <1>t, <2>1 DEF TypeOK
  <2>4. Exists(card.task)' /\ Exists(stored.task)' /\ Exists(restoring)' /\ Exists(sub.before.task)'
    BY <1>t, <2>1, <2>2, CardValues DEF Inv, TasksKnown, Exists, TypeOK
  <2>5. HistoryKnown' /\ Numbered'
    BY <2>1, <2>2 DEF Inv, HistoryKnown, Numbered
  <2>6. SubmissionKnown' /\ PollerKnown'
    BY <1>t, <2>1, <2>2 DEF Inv, Shape, SubmissionKnown, PollerKnown
  <2>7. Shape' /\ PageClosed' /\ CardLeads' /\ HistoryFresh'
    BY <2>1 DEF Inv, Shape, PageClosed, CardLeads, HistoryFresh, Covered
  <2> QED
    BY <2>3, <2>4, <2>5, <2>6, <2>7 DEF Inv, TasksKnown
<1>4. CASE CancelEnds
  <2>1. /\ poller' = Quiet /\ card' = Blank /\ cancel' = NoTask
        /\ UNCHANGED <<server, videos, sub, history, restoring, stored, open, loading>>
        /\ Seen' = Seen
    BY <1>4 DEF CancelEnds, Seen
  <2> QED
    BY <2>1 DEF Inv, Shape, PollerKnown, PageClosed, SubmissionKnown, Numbered, TasksKnown,
       Exists, HistoryKnown, HistoryFresh, Covered, CardLeads
<1>5. CASE CancelLost
  <2>1. /\ cancel' = NoTask /\ Seen' = Seen
        /\ UNCHANGED <<server, card, videos, poller, sub, history, restoring, stored, open, loading>>
    BY <1>5 DEF CancelLost, Seen
  <2> QED
    BY <2>1 DEF Inv, Shape, PollerKnown, PageClosed, SubmissionKnown, Numbered, TasksKnown,
       Exists, HistoryKnown, HistoryFresh, Covered, CardLeads
<1> QED
  BY <1>1, <1>2, <1>3, <1>4, <1>5

\* The newest task of a history that settles the card is no older than the poller's.
LEMMA NewestLeads ==
  ASSUME Inv, history.stage = "answered", ~ Keeps,
         NEW n \in Seen, \A t \in Seen : t <= n
  PROVE  poller.task # NoTask => poller.task <= n
<1> SUFFICES ASSUME poller.task # NoTask PROVE poller.task <= n
  OBVIOUS
<1>t. TypeOK /\ open = TRUE
  BY DEF Inv, Shape, PageClosed, TypeOK
<1>1. n \in Nat /\ poller.task \in Nat /\ Seen \subseteq Nat
  BY <1>t, TaskNumbers, Parts DEF MaybeTask, Seen
<1>2. Covered(poller.task)
  <2> SUFFICES ASSUME ~ Covered(poller.task) PROVE FALSE
    OBVIOUS
  <2>1. card.task # NoTask /\ card.state \in Active
    BY DEF Inv, HistoryFresh
  <2>2. card.task \in Seen
    BY <2>1 DEF Keeps
  <2>3. poller.task <= card.task
    BY <1>t, <2>1 DEF Inv, CardLeads
  <2> QED
    BY <2>2, <2>3 DEF Covered
<1>3. PICK u \in Seen : poller.task <= u
  BY <1>2 DEF Covered
<1>4. u <= n /\ u \in Nat
  BY <1>1
<1> QED
  BY <1>1, <1>3, <1>4

\* Steps of the page preserve the invariant.
LEMMA PageInv ==
  ASSUME Inv, TypeOK', PageSteps
  PROVE  Inv'
<1> USE StateValues, TaskNumbers, Parts, BlankValues DEF MaybeTask
<1>t. TypeOK
  BY DEF Inv, Shape
<1>1. CASE EditCards
  <2>1. /\ poller'.task = poller.task /\ poller'.answer = poller.answer
        /\ poller.task # NoTask => poller'.heard = TRUE
        /\ poller.task = NoTask => poller' = Quiet
        /\ history'.stage = "asked" /\ history'.seen = Nothing
    BY <1>1, ChangedPoller DEF EditCards, Inv
  <2>2. /\ open = TRUE /\ open' = TRUE /\ loading = FALSE /\ loading' = FALSE
        /\ UNCHANGED <<server, videos, sub, restoring, cancel, stored>>
        /\ IF poller.task = NoTask THEN card' = card
           ELSE card'.task = poller.task /\ card'.state = "running"
    BY ZenonT(60), <1>1, <1>t, HelperValues DEF EditCards, TypeOK
  <2>3. Shape' /\ PollerKnown' /\ PageClosed' /\ SubmissionKnown' /\ Numbered'
    BY <2>1, <2>2 DEF Inv, Shape, PollerKnown, PageClosed, SubmissionKnown, Numbered
  <2>4. TasksKnown'
    BY <1>t, <2>1, <2>2 DEF Inv, TasksKnown, Exists, PollerKnown
  <2>5. HistoryKnown' /\ HistoryFresh'
    BY <2>1 DEF HistoryKnown, HistoryFresh
  <2>7. CardLeads'
    <3>1. poller.task # NoTask => poller.task <= poller.task
      BY <1>t
    <3> QED
      BY <2>1, <2>2, <3>1 DEF CardLeads
  <2> QED
    BY <2>3, <2>4, <2>5, <2>7 DEF Inv
<1>2. CASE Save
  <2>1. /\ loading = FALSE /\ stored'.task = card.task /\ Seen' = Seen
        /\ UNCHANGED <<server, card, videos, poller, sub, history, restoring, cancel, open, loading>>
    <3>1. loading = FALSE
      BY <1>2, <1>t DEF Save, TypeOK
    <3>2. stored' = Snapshot /\ Seen' = Seen
      BY <1>2 DEF Save, Seen
    <3> QED
      BY <1>2, <1>t, <3>1, <3>2, HelperValues DEF Save
  <2> QED
    BY <2>1 DEF Inv, Shape, PollerKnown, PageClosed, SubmissionKnown, Numbered, TasksKnown,
       Exists, HistoryKnown, HistoryFresh, Covered, CardLeads
<1>3. CASE Leave \/ Reload
  <2>1. /\ open' = FALSE /\ loading' = FALSE /\ card' = Blank /\ videos' = {}
        /\ history' = NoHistory /\ restoring' = NoTask
        /\ server' = server /\ stored' = stored
        /\ cancel' = NoTask /\ sub'.stage = "idle"
        /\ sub'.before.task \in {sub.before.task, NoTask}
    BY <1>3, <1>t DEF Leave, Reload, Gone, TypeOK
  <2>2. poller' = Quiet \/ poller' = [poller EXCEPT !.heard = FALSE]
    BY <1>3 DEF Leave, Reload
  <2>3. /\ poller'.heard = FALSE
        /\ poller' = Quiet \/ (poller'.task = poller.task /\ poller'.answer = poller.answer)
    <3>1. CASE poller' = Quiet
      BY <3>1
    <3>2. CASE poller' = [poller EXCEPT !.heard = FALSE]
      BY <1>t, <3>2 DEF TypeOK, PollerType
    <3> QED
      BY <2>2, <3>1, <3>2
  <2>4. poller'.task = NoTask => poller' = Quiet
    <3>1. poller = Quiet => [poller EXCEPT !.heard = FALSE] = Quiet
      BY DEF Quiet
    <3> QED
      BY <2>2, <2>3, <3>1 DEF Inv, Shape
  <2>5. Shape' /\ PollerKnown' /\ PageClosed' /\ SubmissionKnown' /\ Numbered'
    BY <2>1, <2>3, <2>4 DEF Inv, Shape, PollerKnown, PageClosed, SubmissionKnown, Numbered
  <2> QED
    BY <2>1, <2>5 DEF Inv, TasksKnown, Exists, HistoryKnown, HistoryFresh, CardLeads
<1>4. CASE Open
  <2>1. /\ poller'.task = poller.task /\ poller'.answer = poller.answer
        /\ poller.task # NoTask => poller'.heard = TRUE
        /\ poller.task = NoTask => poller' = Quiet
    <3>1. poller' = [poller EXCEPT !.heard = poller.task # NoTask]
      BY <1>4 DEF Open
    <3>2. /\ poller'.task = poller.task /\ poller'.answer = poller.answer
          /\ poller'.heard = (poller.task # NoTask)
      BY <1>t, <3>1, PollerValues DEF TypeOK
    <3>3. poller = Quiet => poller' = Quiet
      BY <3>1 DEF Quiet
    <3> QED
      BY <3>2, <3>3 DEF Inv, Shape
  <2>2. /\ open = FALSE /\ open' = TRUE /\ loading' = TRUE
        /\ UNCHANGED <<server, videos, sub, history, cancel, stored>>
        /\ restoring' = IF stored.state \in Active THEN stored.task ELSE NoTask
        /\ IF poller.task = NoTask THEN card' = Blank
           ELSE card'.task = poller.task /\ card'.state = "running"
    BY ZenonT(60), <1>4, <1>t, HelperValues DEF Open, TypeOK
  <2>3. Shape' /\ PollerKnown' /\ PageClosed' /\ SubmissionKnown' /\ Numbered'
    BY <2>1, <2>2 DEF Inv, Shape, PollerKnown, PageClosed, SubmissionKnown, Numbered
  <2>4. TasksKnown'
    BY <1>t, <2>1, <2>2 DEF Inv, TasksKnown, Exists, PollerKnown
  <2>5. HistoryKnown' /\ HistoryFresh'
    BY <2>2 DEF Inv, PageClosed, HistoryKnown, HistoryFresh
  <2>7. CardLeads'
    <3>1. poller.task # NoTask => poller.task <= poller.task
      BY <1>t
    <3> QED
      BY <2>1, <2>2, <3>1 DEF CardLeads
  <2> QED
    BY <2>3, <2>4, <2>5, <2>7 DEF Inv
<1>9. CASE Loaded
  <2>1. /\ poller'.task = poller.task /\ poller'.answer = poller.answer
        /\ poller.task # NoTask => poller'.heard = TRUE
        /\ poller.task = NoTask => poller' = Quiet
        /\ history'.stage = "asked" /\ history'.seen = Nothing
    BY <1>9, ChangedPoller DEF Loaded, Inv
  <2>2. /\ open = TRUE /\ open' = TRUE /\ loading' = FALSE
        /\ UNCHANGED <<server, sub, restoring, cancel, stored>>
        /\ IF poller.task = NoTask THEN card' = stored
           ELSE card'.task = poller.task /\ card'.state = "running"
    <3>1. open = TRUE /\ loading = TRUE
      BY <1>9, <1>t DEF Loaded, Inv, PageClosed, TypeOK
    <3>2. stored \in CardType
      BY <1>t DEF TypeOK
    <3> QED
      BY ZenonT(60), <1>9, <1>t, <3>1, <3>2, HelperValues DEF Loaded
  <2>3. Shape' /\ PollerKnown' /\ PageClosed' /\ SubmissionKnown' /\ Numbered'
    BY <2>1, <2>2 DEF Inv, Shape, PollerKnown, PageClosed, SubmissionKnown, Numbered
  <2>4. TasksKnown'
    BY <1>t, <2>1, <2>2 DEF Inv, TasksKnown, Exists, PollerKnown
  <2>5. HistoryKnown' /\ HistoryFresh'
    BY <2>1 DEF HistoryKnown, HistoryFresh
  <2>7. CardLeads'
    <3>1. poller.task # NoTask => poller.task <= poller.task
      BY <1>t
    <3> QED
      BY <2>1, <2>2, <3>1 DEF CardLeads
  <2> QED
    BY <2>3, <2>4, <2>5, <2>7 DEF Inv
<1>5. CASE RestoreTimer
  <2>1. /\ restoring \in Tasks /\ restoring' = NoTask /\ Seen' = Seen
        /\ UNCHANGED <<server, videos, sub, history, cancel, stored, open, loading>>
    BY <1>5, <1>t DEF RestoreTimer, Seen, TypeOK
  <2>2. CASE StillRestores
    <3>1. /\ card'.state = "running" /\ card'.task = restoring /\ card.task = restoring
          /\ poller'.task = restoring /\ poller'.heard = TRUE
          /\ poller'.answer = IF poller.task = restoring THEN poller.answer ELSE "none"
      <4>1. /\ card' = [state |-> "running", task |-> restoring]
            /\ poller' = Following(restoring) /\ card.task = restoring
        BY <1>5, <2>2 DEF RestoreTimer, StillRestores
      <4>2. /\ Following(restoring).task = restoring /\ Following(restoring).heard = TRUE
            /\ Following(restoring).answer =
                 IF poller.task = restoring THEN poller.answer ELSE "none"
        BY <1>t, <2>1, HelperValues
      <4> QED
        BY <4>1, <4>2
    <3>2. Shape' /\ PollerKnown' /\ PageClosed' /\ SubmissionKnown' /\ Numbered'
      <4>1. open
        BY <1>t, <2>1 DEF Inv, PageClosed, TypeOK
      <4>2. PollerKnown'
        BY <2>1, <3>1 DEF Inv, PollerKnown, TasksKnown, Exists
      <4>3. PageClosed'
        BY <2>1, <4>1 DEF Inv, PageClosed
      <4> QED
        BY <2>1, <3>1, <4>2, <4>3 DEF Inv, Shape, SubmissionKnown, Numbered
    <3>3. TasksKnown' /\ HistoryKnown' /\ HistoryFresh'
      BY <2>1, <3>1 DEF Inv, TasksKnown, Exists, HistoryKnown, HistoryFresh, Covered
    <3>4. CardLeads'
      BY <2>1, <3>1 DEF CardLeads
    <3> QED
      BY <3>2, <3>3, <3>4 DEF Inv
  <2>3. CASE ~ StillRestores
    <3>1. UNCHANGED <<card, poller>>
      BY <1>5, <2>3 DEF RestoreTimer
    <3> QED
      BY <2>1, <3>1 DEF Inv, Shape, PollerKnown, PageClosed, SubmissionKnown, Numbered,
         TasksKnown, Exists, HistoryKnown, HistoryFresh, Covered, CardLeads
  <2> QED
    BY <2>2, <2>3
<1>6. CASE HistoryAnswered
  <2>1. history.stage = "asked"
    BY <1>6 DEF HistoryAnswered
  <2> PICK b \in 0..(MaxTasks - 1) :
        history' = [stage |-> "answered",
                    seen |-> [t \in Tasks |-> IF t > b THEN server[t] ELSE "none"]]
    BY <1>6 DEF HistoryAnswered
  <2>2. /\ UNCHANGED <<server, card, videos, poller, sub, restoring, cancel, stored, open, loading>>
        /\ history'.stage = "answered"
        /\ \A t \in Tasks : history'.seen[t] = IF t > b THEN server[t] ELSE "none"
    BY <1>6 DEF HistoryAnswered
  <2>3. ASSUME NEW t \in Tasks, server[t] # "none", Seen' # {} PROVE Covered(t)'
    <3>1. PICK u \in Seen' : TRUE
      BY <2>3
    <3>2. u \in Tasks /\ u > b
      BY <2>2, <3>1 DEF Seen
    <3>3. CASE t > b
      BY <2>2, <2>3, <3>3 DEF Seen, Covered
    <3>4. CASE ~ (t > b)
      <4>1. t <= u
        <5>1. t \in Nat /\ u \in Nat /\ b \in Nat
          BY <3>2
        <5> QED
          BY <3>2, <3>4, <5>1
      <4> QED
        BY <3>1, <4>1, Zenon DEF Covered
    <3> QED
      BY <3>3, <3>4
  <2>4. HistoryFresh'
    <3>1. ASSUME Seen' # {}, restoring # NoTask PROVE Covered(restoring)'
      <4>1. restoring \in Tasks /\ server[restoring] # "none"
        BY <1>t, <3>1 DEF Inv, TasksKnown, Exists, TypeOK
      <4>2. \E u \in Seen' : restoring <= u
        BY <2>3, <3>1, <4>1 DEF Covered
      <4> QED
        BY <2>2, <4>2 DEF Covered
    <3>2. ASSUME Seen' # {}, poller.task # NoTask PROVE Covered(poller.task)'
      <4>1. poller.task \in Tasks /\ server[poller.task] # "none"
        BY <1>t, <3>2 DEF Inv, PollerKnown
      <4>2. \E u \in Seen' : poller.task <= u
        BY <2>3, <3>2, <4>1 DEF Covered
      <4> QED
        BY <2>2, <4>2 DEF Covered
    <3> QED
      BY <2>2, <3>1, <3>2 DEF HistoryFresh
  <2>5. HistoryKnown'
    BY <2>2 DEF HistoryKnown
  <2>6. PageClosed'
    BY <2>1, <2>2 DEF Inv, PageClosed
  <2> QED
    BY <2>2, <2>4, <2>5, <2>6 DEF Inv, Shape, PollerKnown, SubmissionKnown, Numbered,
       TasksKnown, Exists, CardLeads
<1>7. CASE HistoryFails
  <2>1. /\ history' = NoHistory
        /\ UNCHANGED <<server, card, videos, poller, sub, restoring, cancel, stored, open, loading>>
    BY <1>7 DEF HistoryFails
  <2> QED
    BY <2>1 DEF Inv, Shape, PollerKnown, PageClosed, SubmissionKnown, Numbered, TasksKnown,
       Exists, HistoryKnown, HistoryFresh, CardLeads
<1>8. CASE HistoryEnds
  <2>1. /\ history' = NoHistory /\ history.stage = "answered"
        /\ UNCHANGED <<server, sub, restoring, cancel, stored, open, loading>>
    BY <1>8 DEF HistoryEnds
  <2>2. open = TRUE
    BY <1>t, <2>1 DEF Inv, PageClosed, TypeOK
  <2>3. HistoryKnown' /\ HistoryFresh' /\ SubmissionKnown' /\ Numbered' /\ PageClosed'
    BY <2>1, <2>2 DEF Inv, HistoryKnown, HistoryFresh, SubmissionKnown, Numbered, PageClosed
  <2>4. CASE UNCHANGED <<card, poller>>
    BY <2>1, <2>3, <2>4 DEF Inv, Shape, PollerKnown, TasksKnown, Exists,
       CardLeads
  <2>5. CASE Keeps /\ poller' = Resumed(card.task)
             /\ card' = IF poller.task = card.task THEN card
                        ELSE [card EXCEPT !.state = "running"]
    <3>1. /\ card.task \in Tasks /\ card'.task = card.task /\ poller'.task = card.task
          /\ IF poller.task = card.task THEN poller' = poller
             ELSE poller'.heard = TRUE /\ poller'.answer = "none"
      <4>1. card.task \in Tasks
        BY <1>t, <2>5 DEF Keeps
      <4>2. card'.task = card.task
        BY <1>t, <2>5, CardValues DEF TypeOK
      <4> QED
        BY <1>t, <2>5, <4>1, <4>2, HelperValues
    <3>2. Shape' /\ PollerKnown' /\ TasksKnown'
      BY <2>1, <3>1 DEF Inv, Shape, PollerKnown, TasksKnown, Exists
    <3>3. CardLeads'
      BY <2>1, <2>2, <3>1 DEF Inv, PollerKnown, CardLeads
    <3> QED
      BY <2>3, <3>2, <3>3 DEF Inv
  <2>6. CASE ~ Keeps /\ Seen # {} /\ ~ UNCHANGED <<card, poller>>
    <3>1. PICK n \in Seen :
            /\ \A t \in Seen : t <= n
            /\ card'.task = n
            /\ \/ poller' = Resumed(n)
               \/ poller' = Stopped(n) /\ card'.state \notin Active
      <4>1. PICK n \in Seen :
              /\ \A t \in Seen : t <= n
              /\ \/ /\ \E s \in Active : card' = [state |-> s, task |-> n]
                    /\ poller' = Resumed(n)
                 \/ /\ \E s \in Settled : card' = [state |-> s, task |-> n]
                    /\ poller' = Stopped(n)
        BY <1>8, <2>6, Zenon DEF HistoryEnds, Active, Settled
      <4> QED
        BY <4>1
    <3>2. n \in Tasks /\ server[n] # "none"
      BY <3>1 DEF Inv, HistoryKnown, Seen
    <3>3. poller.task # NoTask => poller.task <= n
      BY <2>1, <2>6, <3>1, NewestLeads
    <3>4. CASE poller' = Resumed(n)
      <4>1. /\ poller'.task = n
            /\ IF poller.task = n THEN poller' = poller
               ELSE poller'.heard = TRUE /\ poller'.answer = "none"
        BY <1>t, <3>2, <3>4, HelperValues
      <4>2. Shape' /\ PollerKnown' /\ TasksKnown'
        BY <2>1, <3>1, <3>2, <4>1 DEF Inv, Shape, PollerKnown, TasksKnown, Exists
      <4>3. CardLeads'
        BY <2>1, <2>2, <3>1, <3>2, <4>1 DEF Inv, PollerKnown, CardLeads
      <4> QED
        BY <2>3, <4>2, <4>3 DEF Inv
    <3>5. CASE poller' = Stopped(n) /\ card'.state \notin Active
      <4>1. poller' \in {Quiet, poller}
        BY <1>t, <3>2, <3>5, HelperValues
      <4>2. Shape' /\ PollerKnown' /\ TasksKnown'
        BY <2>1, <3>1, <3>2, <4>1 DEF Inv, Shape, PollerKnown, TasksKnown, Exists
      <4>3. CardLeads'
        BY <2>1, <3>1, <3>3, <3>5, <4>1 DEF CardLeads
      <4> QED
        BY <2>3, <4>2, <4>3 DEF Inv
    <3> QED
      BY <3>1, <3>4, <3>5
  <2> QED
    BY <1>8, <2>4, <2>5, <2>6 DEF HistoryEnds
<1> QED
  BY <1>1, <1>2, <1>3, <1>4, <1>5, <1>6, <1>7, <1>8, <1>9 DEF PageSteps

-----------------------------------------------------------------------------
(* The theorems. *)

\* Every step preserves the invariant, when no answer comes late.
LEMMA InvStep == ~ LateAnswers /\ Inv /\ [Next]_vars => Inv'
<1> SUFFICES ASSUME ~ LateAnswers, Inv, [Next]_vars PROVE Inv'
  OBVIOUS
<1>1. TypeOK'
  BY TypeStep DEF Inv
<1>2. CASE Next
  BY <1>1, <1>2, ServerInv, SubmissionInv, AnswerInv, PageInv DEF Next
<1>3. CASE UNCHANGED vars
  <2>1. Seen' = Seen
    BY <1>3 DEF vars, Seen
  <2> QED
    BY <1>1, <1>3, <2>1 DEF vars, Inv, Shape, PollerKnown, PageClosed, SubmissionKnown,
       Numbered, TasksKnown, Exists, HistoryKnown, HistoryFresh, Covered,
       CardLeads
<1> QED
  BY <1>2, <1>3

\* The invariant holds in a closed page on a server without tasks.
LEMMA InvInit == Init => Inv
<1> SUFFICES ASSUME Init PROVE Inv
  OBVIOUS
<1>1. Shape
  BY ShapeInit
<1> QED
  BY <1>1, BlankValues DEF Init, Inv, PollerKnown, PageClosed, SubmissionKnown,
     Numbered, TasksKnown, Exists, HistoryKnown, HistoryFresh, CardLeads

\* The inductive invariant of a card, for any number of tasks.
THEOREM CardInvariant == ~ LateAnswers => (Spec => []Inv)
<1> SUFFICES ASSUME ~ LateAnswers PROVE Spec => []Inv
  OBVIOUS
<1>1. Inv /\ [Next]_vars => Inv'
  BY InvStep
<1> QED
  BY <1>1, InvInit, PTL DEF Spec

-----------------------------------------------------------------------------
(* What may become of a poller. *)

\* While the page is open the poller keeps its task but for these steps.
LEMMA PollerMoves ==
  ASSUME Inv, [Next]_vars, poller.task # NoTask, open, open'
  PROVE  \/ poller'.task = poller.task
         \/ PollEnds /\ poller.answer \notin Live
         \/ HistoryEnds \/ CancelEnds \/ RestoreTimer
         \/ \E state \in Active : Accepted(state)
<1>t. TypeOK /\ Shape
  BY DEF Inv, Shape
<1>1. CASE poller' = poller
  BY <1>1
<1>2. CASE CardsChange
  BY <1>t, <1>2, ChangedPoller
<1>3. CASE PollAnswered
  <2>1. server[poller.task] \in Answers /\ "missing" \in Answers
    BY <1>t, Parts, StateValues DEF TypeOK, MaybeTask
  <2>2. PICK a \in {server[poller.task], "missing"} : poller' = [poller EXCEPT !.answer = a]
    BY <1>3 DEF PollAnswered
  <2> QED
    BY <1>t, <2>1, <2>2, PollerValues DEF TypeOK
<1>6. CASE Open
  BY <1>t, <1>6, PollerValues DEF Open, TypeOK
<1>4. CASE PollEnds /\ poller.answer \in Live
  BY <1>t, <1>4, PollerValues, StateValues DEF PollEnds, TypeOK
<1>5. CASE Leave \/ Reload
  BY <1>5 DEF Leave, Reload, Gone
<1> QED
  BY <1>1, <1>2, <1>3, <1>4, <1>5, <1>6 DEF Next, vars, ServerSteps, Work, Finish, Reaches,
     SubmissionSteps, Submit, Saved, NotSaved, Refused, Errs, CancelAnswered, CancelLost,
     PageSteps, EditCards, Save, Loaded, HistoryAnswered, HistoryFails

\* The page never turns its poller back to an older task, for any number of tasks.
THEOREM CardNeverTurnsBack == ~ LateAnswers => (Spec => NeverTurnsBack)
<1> SUFFICES ASSUME ~ LateAnswers PROVE Spec => NeverTurnsBack
  OBVIOUS
<1> USE TaskNumbers, Parts, BlankValues DEF MaybeTask
<1>1. ASSUME Inv, [Next]_vars, poller.task # NoTask, open, open'
      PROVE  poller'.task = NoTask \/ poller'.task >= poller.task
  <2>t. TypeOK /\ poller.task \in Tasks
    BY <1>1 DEF Inv, Shape
  <2>1. CASE poller'.task = poller.task
    BY <2>t, <2>1
  <2>2. CASE PollEnds /\ poller.answer \notin Live
    BY <2>2 DEF PollEnds
  <2>6. CASE CancelEnds
    BY <2>6 DEF CancelEnds
  <2>3. CASE RestoreTimer
    <3>1. poller' = poller \/ (poller' = Following(restoring) /\ card.task = restoring)
      BY <2>3 DEF RestoreTimer, StillRestores
    <3>2. restoring \in Tasks
      BY <2>t, <2>3 DEF RestoreTimer, TypeOK
    <3>3. Following(restoring).task = restoring
      BY <2>t, <3>2, HelperValues
    <3>4. card.task = restoring => poller.task <= restoring
      BY <1>1, <3>2 DEF Inv, CardLeads
    <3> QED
      BY <2>t, <3>1, <3>2, <3>3, <3>4
  <2>4. CASE \E state \in Active : Accepted(state)
    <3>1. sub.task \in Tasks /\ sub.stage = "made" /\ poller' = Following(sub.task)
      BY <1>1, <2>4 DEF Accepted, Inv, Shape
    <3>2. poller'.task = sub.task
      BY <2>t, <3>1, HelperValues
    <3>3. poller.task <= sub.task
      BY <1>1, <2>t, <3>1 DEF Inv, PollerKnown, SubmissionKnown
    <3> QED
      BY <2>t, <3>1, <3>2, <3>3
  <2>5. CASE HistoryEnds
    <3>1. history.stage = "answered"
      BY <2>5 DEF HistoryEnds
    <3>2. CASE poller' = poller
      BY <2>t, <3>2
    <3>3. CASE Keeps /\ poller' = Resumed(card.task)
      <4>1. card.task \in Tasks
        BY <2>t, <3>3 DEF Keeps
      <4>2. poller'.task = card.task
        BY <2>t, <3>3, <4>1, HelperValues
      <4> QED
        BY <1>1, <2>t, <4>1, <4>2 DEF Inv, CardLeads
    <3>4. CASE ~ Keeps /\ \E n \in Seen : /\ \A t \in Seen : t <= n
                                          /\ poller' \in {Resumed(n), Stopped(n)}
      <4> PICK n \in Seen : \A t \in Seen : t <= n /\ poller' \in {Resumed(n), Stopped(n)}
        BY <3>4
      <4>1. n \in Tasks
        BY DEF Seen
      <4>2. poller.task <= n
        BY <1>1, <2>t, <3>1, <3>4, NewestLeads
      <4>3. Resumed(n).task = n /\ Stopped(n) \in {Quiet, poller}
        BY <2>t, <4>1, HelperValues
      <4> QED
        BY <2>t, <4>1, <4>2, <4>3
    <3> QED
      BY <2>5, <3>2, <3>3, <3>4 DEF HistoryEnds
  <2> QED
    BY <1>1, <2>1, <2>2, <2>3, <2>4, <2>5, <2>6, PollerMoves
<1> QED
  <2>1. Inv /\ [Next]_vars =>
          [poller.task # NoTask /\ open /\ open'
             => poller'.task = NoTask \/ poller'.task >= poller.task]_vars
    BY <1>1
  <2> QED
    BY <2>1, CardInvariant, PTL DEF Spec, NeverTurnsBack

\* A card that is followed still is after the step, unless it is no longer at work.
LEMMA FollowedStep ==
  ASSUME Inv, ~ LateAnswers, Next, AtWork => Followed, AtWork',
         ~ (loading /\ ~ loading' /\ restoring = NoTask)
  PROVE  Followed'
<1> USE StateValues, TaskNumbers, Parts, BlankValues DEF MaybeTask
<1>t. TypeOK /\ Shape /\ PollerKnown /\ PageClosed
  BY DEF Inv, Shape
<1>w. open' /\ card'.state \in Active /\ card'.task # NoTask
  BY DEF AtWork
<1>1. CASE UNCHANGED <<card, poller, restoring, open>>
  BY <1>1 DEF AtWork, Followed
<1>2. CASE Loaded
  <2>1. poller'.task = poller.task /\ (poller.task # NoTask => poller'.heard = TRUE)
    BY <1>t, <1>2, ChangedPoller DEF Loaded
  <2>2. CASE poller.task # NoTask
    BY <2>1, <2>2 DEF Followed
  <2>3. CASE poller.task = NoTask
    <3>1. card' = stored
      BY <1>t, <1>2, <2>3, HelperValues DEF Loaded, TypeOK
    <3>2. restoring' = restoring /\ restoring = stored.task
      BY <1>t, <1>2 DEF Loaded, PageClosed
    <3> QED
      BY <3>1, <3>2 DEF Followed
  <2> QED
    BY <2>2, <2>3
<1>3. CASE EditCards \/ Submit
  <2>1. poller'.task = poller.task /\ (poller.task # NoTask => poller'.heard = TRUE)
    BY <1>t, <1>3, ChangedPoller DEF EditCards, Submit
  <2>2. CASE poller.task # NoTask
    BY <2>1, <2>2 DEF Followed
  <2>3. CASE poller.task = NoTask
    <3>1. card' = card /\ restoring' = restoring /\ open' = open
      BY <1>t, <1>3, <2>3, HelperValues DEF EditCards, Submit, TypeOK
    <3> QED
      BY <1>w, <2>3, <3>1 DEF AtWork, Followed
  <2> QED
    BY <2>2, <2>3
<1>4. CASE Open
  <2>1. poller' = [poller EXCEPT !.heard = poller.task # NoTask] /\ card' = Attached(Blank)
    BY <1>4 DEF Open
  <2>2. poller'.task = poller.task /\ poller'.heard = (poller.task # NoTask)
    BY <1>t, <2>1, PollerValues DEF TypeOK
  <2>3. poller.task = NoTask => card' = Blank
    BY <1>t, <2>1, HelperValues
  <2> QED
    BY <1>w, <2>2, <2>3 DEF Followed
<1>5. CASE PollAnswered
  <2>1. PICK a \in {server[poller.task], "missing"} : poller' = [poller EXCEPT !.answer = a]
    BY <1>5 DEF PollAnswered
  <2>2. a \in Answers /\ UNCHANGED <<card, restoring, open>>
    BY <1>t, <1>5, <2>1 DEF PollAnswered, TypeOK
  <2>3. poller'.task = poller.task /\ poller'.heard = poller.heard
    BY <1>t, <2>1, <2>2, PollerValues DEF TypeOK
  <2> QED
    BY <2>2, <2>3 DEF AtWork, Followed
<1>6. CASE PollEnds
  <2>1. poller.answer # "none" /\ open' = open /\ poller.task # NoTask
    BY <1>t, <1>6 DEF PollEnds, Shape
  <2>2. poller.heard = TRUE
    BY <1>t, <1>w, <2>1 DEF PollerKnown
  <2>3. card'.state = StateFor(poller.answer)
    BY <1>t, <1>6, <2>2, CardValues, StateForValues DEF PollEnds, TypeOK
  <2>4. poller.answer \in Live
    BY <1>t, <1>w, <2>3, StateForValues
  <2>5. poller'.task = poller.task /\ poller'.heard = poller.heard
    BY <1>t, <1>6, <2>4, PollerValues DEF PollEnds, TypeOK
  <2> QED
    BY <2>1, <2>2, <2>5 DEF Followed
<1>7. CASE \E state \in Active : Accepted(state)
  <2>1. sub.task \in Tasks /\ poller' = Following(sub.task)
    BY <1>t, <1>7 DEF Accepted, Shape
  <2>2. poller'.task = sub.task /\ poller'.heard = TRUE
    BY <1>t, <2>1, HelperValues
  <2> QED
    BY <2>1, <2>2 DEF Followed
<1>8. CASE RestoreTimer
  <2>1. CASE StillRestores
    <3>1. restoring \in Tasks /\ poller' = Following(restoring)
      BY <1>t, <1>8, <2>1 DEF RestoreTimer, TypeOK
    <3>2. poller'.task = restoring /\ poller'.heard = TRUE
      BY <1>t, <3>1, HelperValues
    <3> QED
      BY <3>1, <3>2 DEF Followed
  <2>2. CASE ~ StillRestores
    <3>1. UNCHANGED <<card, poller, open>>
      BY <1>8, <2>2 DEF RestoreTimer
    <3> QED
      BY <1>w, <2>2, <3>1 DEF AtWork, Followed, StillRestores
  <2> QED
    BY <2>1, <2>2
<1>9. CASE HistoryEnds
  <2>1. open' = open /\ restoring' = restoring /\ history.stage = "answered"
    BY <1>9 DEF HistoryEnds
  <2>2. CASE UNCHANGED <<card, poller>>
    BY <1>1, <2>1, <2>2
  <2>3. CASE \E n \in Tasks : poller' = Resumed(n)
    <3> PICK n \in Tasks : poller' = Resumed(n)
      BY <2>3
    <3>1. poller'.task = n /\ (poller' = poller \/ poller'.heard = TRUE)
      BY <1>t, HelperValues
    <3> QED
      BY <1>t, <1>w, <2>1, <3>1 DEF PollerKnown, Followed
  <2>4. CASE card'.state \in Settled
    BY <1>w, <2>4
  <2>5. card.task \in Tasks \/ ~ Keeps
    BY <1>t DEF Keeps
  <2> QED
    BY <1>9, <2>2, <2>3, <2>4, <2>5 DEF HistoryEnds, Seen, Settled
<1>10. CASE Saved \/ Refused \/ Errs \/ CancelEnds \/ Leave \/ Reload
  <2>1. CASE Saved
    <3>1. card'.task = NoTask
      BY <2>1 DEF Saved
    <3> QED
      BY <1>w, <3>1
  <2>2. CASE Refused
    <3>1. sub.before.state \notin Active /\ card' = sub.before
      BY <2>2 DEF Refused
    <3> QED
      BY <1>w, <3>1
  <2>3. CASE Errs
    <3>1. card'.state = "failed"
      BY <1>t, <2>3, CardValues DEF Errs, TypeOK
    <3> QED
      BY <1>w, <3>1
  <2>4. CASE CancelEnds
    BY <1>w, <2>4 DEF CancelEnds
  <2>5. CASE Leave \/ Reload
    BY <1>w, <2>5 DEF Leave, Reload, Gone
  <2> QED
    BY <1>10, <2>1, <2>2, <2>3, <2>4, <2>5
<1> QED
  BY <1>1, <1>2, <1>3, <1>4, <1>5, <1>6, <1>7, <1>8, <1>9, <1>10 DEF Next, ServerSteps, Work,
     Finish, Reaches, SubmissionSteps, NotSaved, CancelAnswered, CancelLost, PageSteps, Save,
     HistoryAnswered, HistoryFails

\* A card that is followed stays so, but for a slow load, for any number of tasks.
THEOREM CardStaysFollowed == ~ LateAnswers => (Spec => StaysFollowed)
<1> SUFFICES ASSUME ~ LateAnswers PROVE Spec => StaysFollowed
  OBVIOUS
<1>1. Inv /\ [Next]_vars =>
        [(AtWork => Followed) /\ ~ (loading /\ ~ loading' /\ restoring = NoTask)
           => (AtWork' => Followed')]_vars
  BY FollowedStep
<1> QED
  BY <1>1, CardInvariant, PTL DEF Spec, StaysFollowed

\* A poller the page hears stops only when the outcome of its task is shown, for
\* any number of tasks.
THEOREM CardOutcomeShown == ~ LateAnswers => (Spec => OutcomeShown)
<1> SUFFICES ASSUME ~ LateAnswers PROVE Spec => OutcomeShown
  OBVIOUS
<1> USE TaskNumbers, Parts, BlankValues, StateValues DEF MaybeTask
<1>1. ASSUME Inv, [Next]_vars, open, open', poller.task # NoTask, poller.heard,
             poller'.task = NoTask
      PROVE  /\ card'.state \notin Active
             /\ \/ poller.answer = "missing"
                \/ /\ server[poller.task] \in Outcomes
                   /\ server[poller.task] = "completed" => poller.task \in videos'
  <2>t. TypeOK /\ poller.task \in Tasks
    BY <1>1 DEF Inv, Shape
  <2>1. CASE PollEnds /\ poller.answer \notin Live
    <3>1. poller.answer \in Answers /\ poller.answer # "none"
      BY <2>t, <2>1 DEF PollEnds
    <3>2. poller.answer = "missing" \/ server[poller.task] = poller.answer
      BY <1>1, <2>1, <3>1 DEF Inv, PollerKnown
    <3>3. card'.state \notin Active
      BY <1>1, <2>t, <2>1, <3>1, CardValues, StateForValues DEF PollEnds, TypeOK
    <3>4. poller.answer = "completed" => poller.task \in videos'
      BY <1>1, <2>1 DEF PollEnds
    <3> QED
      BY <2>1, <3>1, <3>2, <3>3, <3>4
  <2>2. CASE CancelEnds
    <3>1. poller.task = cancel /\ card' = Blank
      BY <1>1, <2>2 DEF CancelEnds
    <3>2. server[cancel] = "failed"
      BY <1>1, <3>1 DEF Inv, TasksKnown
    <3> QED
      BY <3>1, <3>2
  <2>3. CASE RestoreTimer
    <3>1. restoring \in Tasks /\ poller' \in {poller, Following(restoring)}
      BY <2>t, <2>3 DEF RestoreTimer, TypeOK
    <3>2. Following(restoring).task = restoring
      BY <2>t, <3>1, HelperValues
    <3> QED
      BY <1>1, <3>1, <3>2, ZenonT(60)
  <2>4. CASE \E state \in Active : Accepted(state)
    <3>1. sub.task \in Tasks /\ poller' = Following(sub.task)
      BY <1>1, <2>4 DEF Accepted, Inv, Shape
    <3>2. Following(sub.task).task = sub.task
      BY <2>t, <3>1, HelperValues
    <3> QED
      BY <1>1, <3>1, <3>2, Zenon
  <2>5. CASE HistoryEnds
    <3>1. CASE poller' = poller \/ \E n \in Tasks : poller' = Resumed(n)
      <4>1. \A n \in Tasks : Resumed(n).task = n
        BY <2>t, HelperValues
      <4> QED
        BY <1>1, <3>1, <4>1
    <3>2. CASE \E n \in Seen : /\ history.seen[n] \in Outcomes
                               /\ \E s \in Settled : card' = [state |-> s, task |-> n]
                               /\ poller' = Stopped(n)
      <4> PICK n \in Seen : /\ history.seen[n] \in Outcomes
                            /\ \E s \in Settled : card' = [state |-> s, task |-> n]
                            /\ poller' = Stopped(n)
        BY <3>2
      <4>1. n \in Tasks /\ history.seen[n] # "none"
        BY DEF Seen
      <4>2. poller.task = n
        BY <1>1 DEF Stopped
      <4>3. server[n] = history.seen[n]
        BY <1>1, <4>1 DEF Inv, HistoryKnown
      <4>4. card'.state \in Settled
        OBVIOUS
      <4>5. history.seen[n] = "completed" => n \in videos'
        BY <2>5 DEF HistoryEnds
      <4> QED
        BY <4>2, <4>3, <4>4, <4>5
    <3>3. card.task \in Tasks \/ ~ Keeps
      BY <2>t DEF Keeps
    <3> QED
      BY <2>5, <3>1, <3>2, <3>3, Zenon DEF HistoryEnds, Seen, Settled
  <2> QED
    BY <1>1, <2>1, <2>2, <2>3, <2>4, <2>5, PollerMoves
<1> QED
  <2>1. Inv /\ [Next]_vars =>
          [open /\ open' /\ poller.task # NoTask /\ poller.heard /\ poller'.task = NoTask
             => /\ card'.state \notin Active
                /\ \/ poller.answer = "missing"
                   \/ /\ server[poller.task] \in Outcomes
                      /\ server[poller.task] = "completed" => poller.task \in videos']_vars
    BY <1>1
  <2> QED
    BY <2>1, CardInvariant, PTL DEF Spec, OutcomeShown
=============================================================================
