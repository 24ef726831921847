---------------------------- MODULE VideoRegroup ----------------------------
(***************************************************************************)
(* Regrouping the cards of the video page: cards are merged downwards,       *)
(* split, lose one shot, are linked into a first/last-frame pair and          *)
(* unlinked (components/VideoPage.tsx, utils/videoTaskMerge.ts), while their *)
(* tasks run, are polled, and the history of tasks comes in.                 *)
(*                                                                          *)
(* A card is known by its uuid: the sequence of the shots it was first made  *)
(* of.  A merged card keeps the uuid of its first card and, in "parts", a    *)
(* snapshot of every card it was made of.  Tasks are numbered as they are    *)
(* submitted, and the video a task makes has the number of the task.  Text,   *)
(* images, models and durations of the cards are left out, as are the cap of *)
(* 12 videos a card and the deletion of a video.  A submission is one step,  *)
(* and accepted, and a history is as new as the tasks (VideoCard has both in *)
(* steps).                                                                   *)
(***************************************************************************)
EXTENDS Naturals, Sequences, FiniteSets, SequencesExt

CONSTANTS
  ShotIds,     \* the shots that ever have a card
  MaxTasks,    \* bound on the tasks submitted
  MaxImages,   \* the images a card may hold (nine in the code)
  SameModel,   \* whether the cards have one model, so that neighbours may be linked
  Batches      \* whether batches of cards are run

\* A storyboard has finitely many shots.
ASSUME RegroupAssumption ==
  /\ IsFiniteSet(ShotIds) /\ MaxTasks \in Nat /\ MaxImages \in Nat
  /\ SameModel \in BOOLEAN /\ Batches \in BOOLEAN

VARIABLES
  cards,     \* taskGroups
  statuses,  \* tasksStatus
  task,      \* every task: the uuid it was submitted under, and how it goes
  polls,     \* the task polled under each uuid, NoVideo if none
  held       \* the taskGroups a batch was started with, if one goes on

vars == <<cards, statuses, task, polls, held>>

Tasks == 1..MaxTasks
Videos == Tasks
NoVideo == 0
Uuids == {<<a>> : a \in ShotIds} \cup {<<a, b>> : a, b \in ShotIds}
NoTask == [uuid |-> <<>>, state |-> "none"]
Ever == {t \in Tasks : task[t] # NoTask}
Running == {t \in Tasks : task[t].state = "running"}
Done == {t \in Tasks : task[t].state = "done"}

Absent == [state |-> "absent", videos |-> {}, result |-> NoVideo, task |-> NoVideo]

Ids == {cards[i].uuid : i \in DOMAIN cards}
AllShots(list) == FlattenSeq([i \in DOMAIN list |-> list[i].shots])
PartStatuses(parts) == [i \in DOMAIN parts |-> parts[i].status]
Shown == UNION {statuses[id].videos : id \in Ids}

Status == [state : {"absent", "active", "settled"}, videos : SUBSET Videos,
           result : Videos \cup {NoVideo}, task : Tasks \cup {NoVideo}]
Part == [uuid : Uuids, shots : Seq(ShotIds), status : Status]

\* The cards partition the shots; a merged card and a pair are made of parts of
\* one shot each, and no two cards have one uuid.
TypeOK ==
  /\ \A i \in DOMAIN cards :
       /\ cards[i].uuid \in Uuids
       /\ cards[i].kind \in {"single", "merged", "pair"}
       /\ \A k \in DOMAIN cards[i].parts :
            cards[i].parts[k] \in Part /\ Len(cards[i].parts[k].shots) = 1
       /\ IF cards[i].kind = "single" THEN cards[i].parts = <<>> /\ Len(cards[i].shots) = 1
          ELSE AllShots(cards[i].parts) = cards[i].shots /\ Len(cards[i].shots) > 1
  /\ IsInjective(AllShots(cards))
  /\ Cardinality(Ids) = Len(cards)
  /\ statuses \in [Uuids -> Status]
  /\ task \in [Tasks -> {NoTask} \cup [uuid : Uuids, state : {"running", "done", "failed"}]]
  /\ polls \in [Uuids -> Tasks \cup {NoVideo}]

-----------------------------------------------------------------------------
(* utils/videoTaskMerge.ts *)

\* mergeTaskStatusHistories: the first status there is says how the last attempt
\* went, the videos of all are kept
Combined(list) ==
  LET real == {i \in DOMAIN list : list[i] # Absent} IN
  IF real = {} THEN Absent
  ELSE LET first == list[CHOOSE i \in real : \A j \in real : i <= j]
       IN  [first EXCEPT !.videos = UNION {list[i].videos : i \in real}]

\* Faulty: the result stays, also when its video does not.
DeltaWithResult(status, parts) ==
  LET fresh == status.videos \ UNION {parts[i].status.videos : i \in DOMAIN parts}
  IN  IF fresh = {} THEN Absent ELSE [status EXCEPT !.videos = fresh]

\* getTaskStatusHistoryDelta: what was generated after the parts were merged
Delta(status, parts) ==
  LET fresh == status.videos \ UNION {parts[i].status.videos : i \in DOMAIN parts}
  IN  IF fresh = {} THEN Absent
      ELSE [status EXCEPT !.videos = fresh,
                          !.result = IF @ \in fresh THEN @ ELSE NoVideo]

\* Faulty: what was generated after the merge is left out.
PartsAsTheyWere(parts, status) == parts

\* The first part inherits what was generated after the merge
WithExtra(parts, status) ==
  LET extra == Delta(status, parts)
  IN  IF extra = Absent THEN parts
      ELSE [parts EXCEPT ![1].status = Combined(<<@, extra>>)]

\* mergeWithNext's childrenOf
Children(card) ==
  IF card.parts = <<>>
  THEN <<[uuid |-> card.uuid, shots |-> card.shots, status |-> statuses[card.uuid]]>>
  ELSE WithExtra(card.parts, statuses[card.uuid])

\* A range of no parts makes no card.
Kept(range) == IF range = <<>> THEN <<>> ELSE <<range>>

\* partitionMergedSnapshots: what comes before the part, the part, what comes after it
Partitioned(parts, k) ==
  Kept(SubSeq(parts, 1, k - 1)) \o Kept(<<parts[k]>>) \o Kept(SubSeq(parts, k + 1, Len(parts)))

-----------------------------------------------------------------------------
(* The page's operations. *)

Single(part) ==
  [uuid |-> part.uuid, shots |-> part.shots, parts |-> <<>>, kind |-> "single"]

\* Faulty: a range of one part is a merged card as well.
RebuiltMerged(range) ==
  [uuid |-> range[1].uuid, shots |-> AllShots(range), parts |-> range, kind |-> "merged"]

\* A card for a contiguous range of parts
Rebuilt(range) ==
  IF Len(range) = 1 THEN Single(range[1])
  ELSE [uuid |-> range[1].uuid, shots |-> AllShots(range), parts |-> range,
        kind |-> "merged"]

\* taskGroups with the cards from i to j replaced by others
Spliced(i, j, list) == SubSeq(cards, 1, i - 1) \o list \o SubSeq(cards, j + 1, Len(cards))

\* Whenever taskGroups has changed, the callbacks are attached to every poll, and
\* the status under its uuid says that its task is at work, be there a card or not.
Attached(list, polled) ==
  [id \in Uuids |-> IF polled[id] = NoVideo THEN list[id]
                    ELSE [list[id] EXCEPT !.state = "active", !.task = polled[id]]]

\* tasksStatus with the statuses of gone taken away, then those of fresh set
Restated(gone, fresh) ==
  Attached([id \in Uuids |-> IF id \in DOMAIN fresh THEN fresh[id]
                             ELSE IF id \in gone THEN Absent ELSE statuses[id]], polls)

\* The cards from i to j become one, up to the image limit
Merge(i, j) ==
  LET chosen == SubSeq(cards, i, j)
      merged == [uuid |-> cards[i].uuid, shots |-> AllShots(chosen),
                 parts |-> FlattenSeq([k \in DOMAIN chosen |-> Children(chosen[k])]),
                 kind |-> "merged"]
      gone == {chosen[k].uuid : k \in DOMAIN chosen}
      history == Combined([k \in DOMAIN chosen |-> statuses[chosen[k].uuid]])
  IN
  /\ i < j /\ Len(merged.shots) <= MaxImages
  /\ cards' = Spliced(i, j, <<merged>>)
  /\ statuses' = Restated(gone, [id \in {merged.uuid} |-> history])
  /\ UNCHANGED <<task, polls, held>>

\* splitMergedCard: every part is a card again
Split(i) ==
  LET parts == WithExtra(cards[i].parts, statuses[cards[i].uuid])
      status(id) == parts[CHOOSE k \in DOMAIN parts : parts[k].uuid = id].status
  IN
  /\ cards[i].kind = "merged"
  /\ cards' = Spliced(i, i, [k \in DOMAIN parts |-> Single(parts[k])])
  /\ statuses' = Restated({cards[i].uuid},
                          [id \in {parts[k].uuid : k \in DOMAIN parts} |-> status(id)])
  /\ UNCHANGED <<task, polls, held>>

\* removeShotFromMergedCard: what comes before, the shot, what comes after; a
\* card without a status of its own keeps what is there under its uuid.
RemoveShot(i, k) ==
  LET parts == WithExtra(cards[i].parts, statuses[cards[i].uuid])
      ranges == Partitioned(parts, k)
      rebuilt == [r \in DOMAIN ranges |-> Rebuilt(ranges[r])]
      status(r) == Combined(PartStatuses(ranges[r]))
      known == {r \in DOMAIN ranges : status(r) # Absent}
  IN
  /\ cards[i].kind = "merged"
  /\ cards' = Spliced(i, i, rebuilt)
  /\ statuses' = Restated({cards[i].uuid},
       [id \in {rebuilt[r].uuid : r \in known} |->
          status(CHOOSE r \in known : rebuilt[r].uuid = id)])
  /\ UNCHANGED <<task, polls, held>>

Idle(id) == statuses[id].state # "active"

\* linkGroups: two neighbours of one image each become a first/last-frame pair
Link(i) ==
  LET pair == <<cards[i].shots[1], cards[i + 1].shots[1]>>
      parts == Children(cards[i]) \o Children(cards[i + 1])
  IN
  /\ SameModel /\ Len(cards[i].shots) = 1 /\ Len(cards[i + 1].shots) = 1
  /\ Idle(cards[i].uuid) /\ Idle(cards[i + 1].uuid)
  /\ cards' = Spliced(i, i + 1,
       <<[uuid |-> pair, shots |-> pair, parts |-> parts, kind |-> "pair"]>>)
  /\ statuses' = Restated({cards[i].uuid, cards[i + 1].uuid},
                          [id \in {pair} |-> Combined(PartStatuses(parts))])
  /\ UNCHANGED <<task, polls, held>>

\* unlinkGroup
Unlink(i) ==
  LET parts == WithExtra(cards[i].parts, statuses[cards[i].uuid])
      status(id) == parts[CHOOSE k \in DOMAIN parts : parts[k].uuid = id].status
  IN
  /\ cards[i].kind = "pair" /\ Idle(cards[i].uuid)
  /\ cards' = Spliced(i, i, [k \in DOMAIN parts |-> Single(parts[k])])
  /\ statuses' = Restated({cards[i].uuid},
       [id \in {parts[k].uuid : k \in {m \in DOMAIN parts : parts[m].status # Absent}} |->
          status(id)])
  /\ UNCHANGED <<task, polls, held>>

\* insertEmptyTaskGroup: a card for a new shot after the i-th
Insert(i, shot) ==
  /\ shot \notin UNION {ToSet(cards[k].shots) : k \in DOMAIN cards}
  /\ statuses[<<shot>>] = Absent /\ {t \in Ever : task[t].uuid[1] = shot} = {}
  /\ cards' = InsertAt(cards, i + 1,
       [uuid |-> <<shot>>, shots |-> <<shot>>, parts |-> <<>>, kind |-> "single"])
  /\ statuses' = Restated({}, <<>>)
  /\ UNCHANGED <<task, polls, held>>

\* removeTask; the task, if any, goes on, and so does its poll
RemoveCard(i) ==
  /\ cards' = RemoveAt(cards, i)
  /\ statuses' = Restated({cards[i].uuid}, <<>>)
  /\ UNCHANGED <<task, polls, held>>

-----------------------------------------------------------------------------
(* Tasks.  A poll and its callbacks know the uuid, not the card. *)

\* executeTask, answered, for the i-th card of a list: taskGroups is set to the
\* list, and startPolling makes the status if there is none and replaces the poll
Run(list, i, t) ==
  LET id == list[i].uuid IN
  /\ Ever = 1..(t - 1)
  /\ cards' = list
  /\ task' = [task EXCEPT ![t] = [uuid |-> id, state |-> "running"]]
  /\ polls' = [polls EXCEPT ![id] = t]
  /\ statuses' = Attached(statuses, polls')
  /\ held' = IF t = MaxTasks THEN {} ELSE held

\* runAllSelected, runAllPending: until the batch ends it runs with taskGroups as it was
\* when the batch was started (a single run does until its video segment is known); it
\* is over with the last of MaxTasks
BatchStarts ==
  /\ Batches /\ held = {} /\ Ever # Tasks
  /\ held' = {cards}
  /\ UNCHANGED <<cards, statuses, task, polls>>

BatchEnds ==
  /\ held # {}
  /\ held' = {}
  /\ UNCHANGED <<cards, statuses, task, polls>>

\* The task comes to its end at the server.
Ends(t) ==
  /\ t \in Running
  /\ \E end \in {"done", "failed"} : task' = [task EXCEPT ![t].state = end]
  /\ UNCHANGED <<cards, statuses, polls, held>>

\* onProgress
Progress(id) ==
  /\ polls[id] \in Running
  /\ statuses' = [statuses EXCEPT ![id].state = "active"]
  /\ UNCHANGED <<cards, task, polls, held>>

\* The video of the task is shown, and the last of those shown is the result.
Completed(status, t, result) ==
  [status EXCEPT !.state = "settled", !.videos = status.videos \cup {t}, !.result = result]
LastShown(status, t) == IF t \in status.videos THEN status.videos ELSE {t}

\* onComplete; onFail, when the task failed or is not there any more
PollEnds(id) ==
  LET t == polls[id] IN
  /\ t # NoVideo
  /\ \/ /\ t \in Done
        /\ \E result \in LastShown(statuses[id], t) :
             statuses' = [statuses EXCEPT ![id] = Completed(statuses[id], t, result)]
     \/ statuses' = [statuses EXCEPT ![id].state = "settled"]
  /\ polls' = [polls EXCEPT ![id] = NoVideo]
  /\ UNCHANGED <<cards, task, held>>

-----------------------------------------------------------------------------
(* The history of tasks: services/videoTaskReconciliation.ts *)

\* groupByTaskId: a task goes to one of the cards that name it
Named == {t \in Ever : \E id \in Ids : statuses[id].task = t}
ByTaskId == {f \in [Named -> Ids] : \A t \in Named : statuses[f[t]].task = t}

\* tasksByGroup: a task is the card's under its uuid or, when no card has the uuid it
\* was submitted under, through the video segment of the card's first shot or, when
\* there is no such card or the segments were not read, by its id
MatchedTo(card, segments, byTaskId) ==
  {t \in Ever :
     LET uuid == task[t].uuid
         bySegment == segments /\ uuid[1] \in {cards[i].shots[1] : i \in DOMAIN cards}
     IN  \/ uuid = card.uuid
         \/ uuid \notin Ids /\ bySegment /\ uuid[1] = card.shots[1]
         \/ uuid \notin Ids /\ ~ bySegment /\ t \in Named /\ byTaskId[t] = card.uuid}

Newest(matched) == CHOOSE t \in matched : \A u \in matched : u <= t
Videoed(status, matched) == status.videos \cup (matched \cap Done)

\* A live task of the card that is not among those matched is not settled by them.
GoesOn(status, matched) ==
  status.state = "active" /\ status.task \notin matched \cup {NoVideo}

\* When the newest task has made a video, a result that is not shown gives way to another.
Results(status, matched) ==
  IF /\ ~ GoesOn(status, matched) /\ Newest(matched) \in Done
     /\ status.result \notin Videoed(status, matched)
  THEN Videoed(status, matched) ELSE {status.result}

\* The status of a card with matched tasks: it shows the videos of all of them, and the
\* newest says how it goes.
Reconciled(status, matched, result) ==
  IF GoesOn(status, matched) THEN [status EXCEPT !.videos = Videoed(status, matched)]
  ELSE [state |-> IF Newest(matched) \in Running THEN "active" ELSE "settled",
        videos |-> Videoed(status, matched), result |-> result, task |-> Newest(matched)]

\* reconcileActiveVideoTasks for all cards; the live ones are polled from then on, and
\* a poll whose task has ended and is named by the status under its uuid is stopped
History(segments, byTaskId) ==
  LET all == [id \in Ids |->
        MatchedTo(CHOOSE card \in ToSet(cards) : card.uuid = id, segments, byTaskId)]
      met == {id \in Ids : all[id] # {}}
      started == [id \in Uuids |-> IF id \in met /\ statuses'[id].state = "active"
                                   THEN statuses'[id].task ELSE polls[id]]
  IN
  /\ \E result \in [met -> Videos \cup {NoVideo}] :
       /\ \A id \in met : result[id] \in Results(statuses[id], all[id])
       /\ statuses' = [id \in Uuids |-> IF id \in met
                                        THEN Reconciled(statuses[id], all[id], result[id])
                                        ELSE statuses[id]]
  /\ polls' = [id \in Uuids |->
       IF started[id] = statuses'[id].task /\ started[id] \notin Running
       THEN NoVideo ELSE started[id]]
  /\ UNCHANGED <<cards, task, held>>

-----------------------------------------------------------------------------
\* A fresh session: the shots of the storyboard but one, one card each
Init ==
  /\ \E order \in [1..(Cardinality(ShotIds) - 1) -> ShotIds] :
       /\ IsInjective(order)
       /\ cards = [i \in DOMAIN order |->
            [uuid |-> <<order[i]>>, shots |-> <<order[i]>>, parts |-> <<>>, kind |-> "single"]]
  /\ statuses = [id \in Uuids |-> Absent]
  /\ task = [t \in Tasks |-> NoTask]
  /\ polls = [id \in Uuids |-> NoVideo]
  /\ held = {}

CardSteps(i) ==
  \/ \E j \in DOMAIN cards : Merge(i, j)
  \/ Split(i) \/ \E k \in DOMAIN cards[i].parts : RemoveShot(i, k)
  \/ (i < Len(cards) /\ Link(i))
  \/ Unlink(i)
  \/ RemoveCard(i)

TaskSteps ==
  \/ \E list \in {cards} \cup held : \E i \in DOMAIN list, t \in Tasks : Run(list, i, t)
  \/ BatchStarts \/ BatchEnds
  \/ \E t \in Tasks : Ends(t)
  \/ \E id \in Uuids : Progress(id) \/ PollEnds(id)
  \/ \E segments \in BOOLEAN, byTaskId \in ByTaskId : History(segments, byTaskId)

Next ==
  \/ \E i \in DOMAIN cards : CardSteps(i)
  \/ \E i \in 0..Len(cards), shot \in ShotIds : Insert(i, shot)
  \/ TaskSteps

Spec == Init /\ [][Next]_vars

-----------------------------------------------------------------------------
\* Regrouping keeps the shots in their order (videoTaskMerge.ts:398, the original
\* sequence stays contiguous when one child leaves a merged card) and loses no video
\* from sight: what a card showed before it was merged, split or linked, one of the
\* cards shows after it, also what was generated in between (videoTaskMerge.ts:317-321,
\* all videos are immutable history); while no batch is run, which sets the cards back.
RegroupingKeepsVideos ==
  [][held = {} /\ ToSet(AllShots(cards')) = ToSet(AllShots(cards)) =>
       /\ AllShots(cards') = AllShots(cards)
       /\ cards' # cards => Shown \subseteq Shown']_vars

\* The result a card shows, which goes into the film, is one of the videos it shows,
\* after any sequence of regroupings, ends and histories (VideoPage.tsx:2652-2658, a
\* result whose video is gone is given up).
ResultIsShown ==
  \A id \in Ids : statuses[id].result \in {NoVideo} \cup statuses[id].videos

\* As long as no card is removed, no video goes out of sight (videoTaskMerge.ts:319-320,
\* all videos are immutable history).  No run checks this, as the code breaks it: a batch
\* that sets the cards back to a merged card takes what its split parts made out of sight.
VideosStay ==
  [][ToSet(AllShots(cards)) \subseteq ToSet(AllShots(cards')) => Shown \subseteq Shown']_vars

\* A task is polled for one card (docs/architecture/video-task-state-recovery.md:15-17,
\* a poll belongs to one card and one backend task incarnation, and only one status
\* request of it is in flight).  No run checks this, as the code breaks it: a merge hands
\* a running task on, and the history has it polled for the merged card as well.
OnePoll ==
  \A a, b \in Ids : polls[a] # NoVideo /\ polls[a] = polls[b] => a = b
=============================================================================
