------------------------- MODULE BrowserTasksProofs -------------------------
(***************************************************************************)
(* Proofs about BrowserTasks, for any number of tasks, of rows that link to *)
(* one, and of polls that overlap.                                          *)
(***************************************************************************)
EXTENDS BrowserTasks, TLAPS

-----------------------------------------------------------------------------
(* Tables of rows. *)

Final == {"completed", "cancelled"}

\* What the table says is over is so on the server srv.
Truthful(table, srv) ==
  \A id \in Ids : table[id] \in Final => srv[TaskOf(id)] = table[id]

\* A row that links to a task stands alone.
Alone(table) == \A l \in Locals : table[l] # "absent" => table[LinkOf[l]] = "absent"

Good(table, srv) == table \in [Ids -> Statuses] /\ Alone(table) /\ Truthful(table, srv)

\* What is shown as over in the one is shown so, or not at all, in the other.
Keeps(table, other) ==
  \A t \in Tasks : table[Get(table, t)] \in Final =>
    other[Get(other, t)] \in {"absent", table[Get(table, t)]}

\* What is shown as over in the one is shown so in the other.
Retains(table, other) ==
  \A t \in Tasks : table[Get(table, t)] \in Final =>
    other[Get(other, t)] = table[Get(table, t)]

\* An id is a task's or a linked row's, and stands for a task.
LEMMA IdFacts ==
  /\ Tasks \subseteq Ids /\ Locals \subseteq Ids
  /\ \A t \in Tasks : t \notin Locals /\ TaskOf(t) = t
  /\ \A l \in Locals : l \notin Tasks /\ LinkOf[l] \in Tasks /\ TaskOf(l) = LinkOf[l]
  /\ \A id \in Ids : id \in Tasks \/ id \in Locals
  /\ \A id \in Ids : TaskOf(id) \in Tasks
  /\ \A k, l \in Locals : LinkOf[k] = LinkOf[l] => k = l
BY RegistryAssumption DEF Ids, TaskOf

\* The statuses there are.
LEMMA StatusFacts ==
  /\ "absent" \in Statuses /\ "open" \in Statuses /\ "lost" \in Statuses
  /\ "completed" \in Statuses /\ "failed" \in Statuses /\ "cancelled" \in Statuses
  /\ Outcomes \subseteq Statuses /\ Reported \subseteq Statuses /\ Reported \subseteq Outcomes
  /\ Final \subseteq Statuses
  /\ "absent" \notin Outcomes /\ "absent" \notin Reported /\ "absent" \notin Final
  /\ "none" \notin Outcomes /\ "none" \notin Reported
BY DEF Statuses, Outcomes, Reported, Final

\* The row that stands for a task: the one that links to it, or its own.
LEMMA GetFacts ==
  ASSUME NEW table, NEW t \in Tasks
  PROVE  /\ Get(table, t) \in Ids /\ TaskOf(Get(table, t)) = t
         /\ \A l \in Locals : LinkOf[l] = t /\ table[l] # "absent" => Get(table, t) = l
         /\ (\A l \in Locals : LinkOf[l] = t => table[l] = "absent") => Get(table, t) = t
         /\ Get(table, t) \in Locals => table[Get(table, t)] # "absent"
<1>1. CASE Linked(table, t) = {}
  BY <1>1, IdFacts DEF Get, Linked
<1>2. CASE Linked(table, t) # {}
  <2>1. Get(table, t) \in Linked(table, t)
    BY <1>2 DEF Get
  <2>2. /\ Get(table, t) \in Locals /\ LinkOf[Get(table, t)] = t
        /\ table[Get(table, t)] # "absent"
    BY <2>1 DEF Linked
  <2> QED
    BY <2>2, IdFacts
<1> QED
  BY <1>1, <1>2

\* Each row is rewritten by itself: none goes, one comes only where no other
\* stands for its task, what is over stays so, and what is said is true.
LEMMA RowwiseIsGood ==
  ASSUME NEW a, NEW b, NEW srv, Good(a, srv), b \in [Ids -> Statuses],
         \A l \in Locals : a[l] = "absent" <=> b[l] = "absent",
         \A t \in Tasks : a[t] = "absent" /\ b[t] # "absent" => Get(a, t) = t,
         \A id \in Ids : a[id] \in Final => b[id] = a[id],
         Truthful(b, srv)
  PROVE  Good(b, srv) /\ Retains(a, b)
<1>1. Alone(b)
  <2> SUFFICES ASSUME NEW l \in Locals, b[l] # "absent", b[LinkOf[l]] # "absent" PROVE FALSE
    BY DEF Alone
  <2>1. a[l] # "absent" /\ a[LinkOf[l]] = "absent"
    BY DEF Good, Alone
  <2>2. Get(a, LinkOf[l]) = l
    BY <2>1, GetFacts, IdFacts
  <2> QED
    BY <2>1, <2>2, IdFacts
<1>2. Retains(a, b)
  <2> SUFFICES ASSUME NEW t \in Tasks, a[Get(a, t)] \in Final
               PROVE  b[Get(b, t)] = a[Get(a, t)]
    BY DEF Retains
  <2>1. Linked(a, t) = Linked(b, t)
    BY DEF Linked
  <2>2. Get(a, t) = Get(b, t)
    BY <2>1 DEF Get
  <2> QED
    BY <2>2, GetFacts
<1> QED
  BY <1>1, <1>2 DEF Good

\* Rows may go, but none comes.
LEMMA ShrinkingIsGood ==
  ASSUME NEW a, NEW b, NEW srv, Good(a, srv), b \in [Ids -> Statuses],
         \A id \in Ids : a[id] = "absent" => b[id] = "absent",
         \A id \in Ids : a[id] \in Final => b[id] \in {"absent", a[id]},
         Truthful(b, srv)
  PROVE  Good(b, srv) /\ Keeps(a, b)
<1>1. Alone(b)
  BY IdFacts DEF Alone, Good
<1>2. Keeps(a, b)
  <2> SUFFICES ASSUME NEW t \in Tasks, a[Get(a, t)] \in Final
               PROVE  b[Get(b, t)] \in {"absent", a[Get(a, t)]}
    BY DEF Keeps
  <2>1. CASE Get(b, t) = Get(a, t)
    BY <2>1, GetFacts
  <2>2. CASE Get(b, t) # Get(a, t)
    <3>1. Get(b, t) \notin Locals
      <4> SUFFICES ASSUME Get(b, t) \in Locals PROVE FALSE
        OBVIOUS
      <4>1. b[Get(b, t)] # "absent" /\ LinkOf[Get(b, t)] = t
        BY GetFacts, IdFacts
      <4>2. Get(a, t) = Get(b, t)
        BY <4>1, GetFacts, IdFacts
      <4> QED
        BY <2>2, <4>2
    <3>2. Get(b, t) = t
      BY <3>1, GetFacts, IdFacts
    <3>3. Get(a, t) \in Locals /\ LinkOf[Get(a, t)] = t /\ a[Get(a, t)] # "absent"
      BY <2>2, <3>2, GetFacts, IdFacts
    <3> QED
      BY <3>2, <3>3, IdFacts DEF Good, Alone
  <2> QED
    BY <2>1, <2>2
<1> QED
  BY <1>1, <1>2 DEF Good

\* A table without duplicates is collapsed.
LEMMA CollapsedIsSame ==
  ASSUME NEW a \in [Ids -> Statuses], Alone(a)
  PROVE  Collapsed(a) = a
<1>1. ASSUME NEW id \in Ids PROVE Collapsed(a)[id] = a[id]
  BY <1>1, IdFacts DEF Collapsed, Linked, Alone
<1>2. Collapsed(a) = [id \in Ids |-> Collapsed(a)[id]]
  BY DEF Collapsed
<1> QED
  BY <1>1, <1>2

\* And collapsing leaves none.
LEMMA CollapsedIsGood ==
  ASSUME NEW a \in [Ids -> Statuses], NEW srv, Truthful(a, srv)
  PROVE  Good(Collapsed(a), srv)
<1>1. Collapsed(a) \in [Ids -> Statuses]
  BY IdFacts, StatusFacts DEF Collapsed
<1>2. Alone(Collapsed(a))
  BY IdFacts DEF Collapsed, Alone, Linked
<1>3. Truthful(Collapsed(a), srv)
  BY IdFacts, StatusFacts DEF Collapsed, Truthful
<1> QED
  BY <1>1, <1>2, <1>3 DEF Good

-----------------------------------------------------------------------------
(* The operations of the registry. *)

\* News of one task, for the row that stands for it.
LEMMA UpdateIsGood ==
  ASSUME NEW a, NEW srv, Good(a, srv), NEW t \in Tasks, NEW s \in Statuses \ {"absent"},
         s \in Final => srv[t] = s
  PROVE  Good(Update(a, t, s), srv) /\ Retains(a, Update(a, t, s))
<1> DEFINE row == Get(a, t)
           b == Update(a, t, s)
<1>1. row \in Ids /\ TaskOf(row) = t /\ a \in [Ids -> Statuses]
  BY GetFacts DEF Good
<1>2. b = [a EXCEPT ![row] = Blend(a[row], s)]
  BY <1>1 DEF Update
<1>3. /\ Blend(a[row], s) \in Statuses
      /\ a[row] = "absent" <=> Blend(a[row], s) = "absent"
      /\ a[row] \in Final => Blend(a[row], s) = a[row]
      /\ Blend(a[row], s) \in {a[row], s}
  BY <1>1 DEF Blend, Final
<1>4. Truthful(b, srv)
  BY <1>1, <1>2, <1>3 DEF Truthful, Good
<1> HIDE DEF row, b
<1>5. /\ b \in [Ids -> Statuses]
      /\ \A id \in Ids : a[id] = "absent" <=> b[id] = "absent"
      /\ \A id \in Ids : a[id] \in Final => b[id] = a[id]
  BY <1>1, <1>2, <1>3
<1>6. Good(b, srv) /\ Retains(a, b)
  BY <1>4, <1>5, RowwiseIsGood, IdFacts
<1> QED
  BY <1>6 DEF b

\* A confirmed cancellation, whatever the row says.
LEMMA OverwriteIsGood ==
  ASSUME NEW a, NEW srv, Good(a, srv), NEW t \in Tasks, srv[t] = "cancelled"
  PROVE  Good(Overwrite(a, t), srv) /\ Retains(a, Overwrite(a, t))
<1> DEFINE row == Get(a, t)
           b == Overwrite(a, t)
<1>1. row \in Ids /\ TaskOf(row) = t /\ a \in [Ids -> Statuses]
  BY GetFacts DEF Good
<1>2. b = [a EXCEPT ![row] = IF a[row] = "absent" THEN a[row] ELSE "cancelled"]
  BY <1>1 DEF Overwrite
<1>3. a[row] \in Final => a[row] = "cancelled"
  BY <1>1 DEF Good, Truthful
<1>4. Truthful(b, srv)
  BY <1>1, <1>2 DEF Truthful, Good
<1> HIDE DEF row, b
<1>5. /\ b \in [Ids -> Statuses]
      /\ \A id \in Ids : a[id] = "absent" <=> b[id] = "absent"
      /\ \A id \in Ids : a[id] \in Final => b[id] = a[id]
  BY <1>1, <1>2, <1>3, StatusFacts
<1>6. Good(b, srv) /\ Retains(a, b)
  BY <1>4, <1>5, RowwiseIsGood, IdFacts
<1> QED
  BY <1>6 DEF b

\* The rows that stand for the tasks of an answer may be made or rewritten.
LEMMA AddressedIsGood ==
  ASSUME NEW a, NEW b, NEW srv, Good(a, srv), b \in [Ids -> Statuses],
         \A id \in Ids :
           \/ b[id] = a[id]
           \/ /\ id = Get(a, TaskOf(id)) /\ b[id] # "absent"
              /\ a[id] \in Final => b[id] = a[id]
              /\ b[id] \in Final => srv[TaskOf(id)] = b[id]
  PROVE  Good(b, srv) /\ Retains(a, b)
<1>1. Truthful(b, srv)
  BY DEF Truthful, Good
<1>2. ASSUME NEW l \in Locals PROVE a[l] = "absent" <=> b[l] = "absent"
  BY <1>2, GetFacts, IdFacts
<1>3. \A t \in Tasks : a[t] = "absent" /\ b[t] # "absent" => Get(a, t) = t
  BY IdFacts
<1> QED
  BY <1>1, <1>2, <1>3, RowwiseIsGood

\* A row is registered for a task at work.
LEMMA RegisterIsGood ==
  ASSUME NEW a, NEW srv, Good(a, srv), NEW t \in Tasks
  PROVE  Good(Register(a, t, "open"), srv) /\ Retains(a, Register(a, t, "open"))
<1> DEFINE row == Get(a, t)
           b == [a EXCEPT ![row] = IF a[row] = "absent" THEN "open" ELSE Blend(a[row], "open")]
<1>1. row \in Ids /\ TaskOf(row) = t /\ a \in [Ids -> Statuses]
  BY GetFacts DEF Good
<1>2. Register(a, t, "open") = Collapsed(b)
  BY <1>1 DEF Register
<1>3. /\ b \in [Ids -> Statuses]
      /\ \A id \in Ids : id # row => b[id] = a[id]
      /\ b[row] # "absent" /\ b[row] \in {a[row], "open"}
      /\ a[row] \in Final => b[row] = a[row]
  BY <1>1, StatusFacts DEF Blend, Final
<1> HIDE DEF b
<1>4. Good(b, srv) /\ Retains(a, b)
  <2>1. \A id \in Ids :
           \/ b[id] = a[id]
           \/ /\ id = Get(a, TaskOf(id)) /\ b[id] # "absent"
              /\ a[id] \in Final => b[id] = a[id]
              /\ b[id] \in Final => srv[TaskOf(id)] = b[id]
    BY <1>1, <1>3 DEF Final
  <2> QED
    BY <1>3, <2>1, AddressedIsGood
<1>5. Collapsed(b) = b
  BY <1>3, <1>4, CollapsedIsSame DEF Good
<1> QED
  BY <1>2, <1>4, <1>5

\* A row is removed.
LEMMA RemovedIsGood ==
  ASSUME NEW a, NEW srv, Good(a, srv), NEW t \in Tasks
  PROVE  Good(Removed(a, t), srv) /\ Keeps(a, Removed(a, t))
<1> DEFINE row == Get(a, t)
           b == Removed(a, t)
<1>1. row \in Ids /\ a \in [Ids -> Statuses]
  BY GetFacts DEF Good
<1>2. b = [a EXCEPT ![row] = "absent"]
  BY DEF Removed
<1> HIDE DEF row, b
<1>3. b \in [Ids -> Statuses] /\ \A id \in Ids : b[id] \in {"absent", a[id]}
  BY <1>1, <1>2, StatusFacts
<1>4. Truthful(b, srv)
  BY <1>3, StatusFacts DEF Good, Truthful
<1>5. Good(b, srv) /\ Keeps(a, b)
  BY <1>3, <1>4, ShrinkingIsGood
<1> QED
  BY <1>5 DEF b

\* A page restores the rows another one has stored.
LEMMA RehydratedIsGood ==
  ASSUME NEW a, NEW srv, Good(a, srv), NEW expired
  PROVE  Good(Rehydrated(a, expired), srv) /\ Keeps(a, Rehydrated(a, expired))
<1> DEFINE linked(id) == id \in Locals \/ Linked(a, id) # {}
           revived(id) == IF a[id] = "lost" THEN "open" ELSE a[id]
           b == [id \in Ids |->
             CASE revived(id) = "open" /\ id \in expired /\ ~ linked(id) -> "failed"
               [] revived(id) \in Outcomes /\ id \in expired -> "absent"
               [] OTHER -> revived(id)]
<1>1. Rehydrated(a, expired) = Collapsed(b)
  BY DEF Rehydrated
<1>2. ASSUME NEW id \in Ids
      PROVE  /\ b[id] \in Statuses
             /\ a[id] = "absent" => b[id] = "absent"
             /\ a[id] \in Final => b[id] \in {"absent", a[id]}
             /\ b[id] \in Final => b[id] = a[id]
  BY <1>2 DEF Good, Final, Outcomes, Statuses
<1>3. b \in [Ids -> Statuses]
  BY <1>2
<1> HIDE DEF b
<1>4. Truthful(b, srv)
  BY <1>2 DEF Good, Truthful
<1>5. Good(b, srv) /\ Keeps(a, b)
  BY <1>2, <1>3, <1>4, ShrinkingIsGood
<1>6. Collapsed(b) = b
  BY <1>3, <1>5, CollapsedIsSame DEF Good
<1> QED
  BY <1>1, <1>5, <1>6

-----------------------------------------------------------------------------
(* The inductive invariant. *)

ServerStatuses == {"none"} \cup Live \cup Outcomes
PollType ==
  [busy : BOOLEAN, baseline : BOOLEAN, started : SUBSET Tasks,
   active : {"wait", "here"}, live : [Tasks -> {"none", "open"}],
   report : {"wait", "failed", "ok"}, ended : [Tasks -> {"none"} \cup Reported]]
EventType == [kind : {"progress"} \cup Reported, task : Tasks]

\* What is on its way about an ended task is what the server says of it.
PollsTrue ==
  \A p \in PollSlots, t \in Tasks :
    polls[p].ended[t] # "none" => server[t] = polls[p].ended[t]
ListingTrue == \A t \in Tasks : listing[t] # "none" => server[t] = listing[t]
QueriesTrue == \A t \in Tasks : query[t] \in Outcomes => server[t] = query[t]
CancelsTrue == \A t \in cancelling : server[t] = "cancelled"

\* The stream tells of nothing that had ended when the page opened.
EventsTrue ==
  \A i \in DOMAIN events : events[i].kind \in Reported =>
    server[events[i].task] = events[i].kind /\ events[i].task \notin bygone

News == PollsTrue /\ ListingTrue /\ QueriesTrue /\ CancelsTrue /\ EventsTrue

\* A toast is remembered, and is not of bygone work.
ToastsRemembered ==
  \A t \in Tasks : toasts[t] <= 1 /\ (toasts[t] > 0 => t \in remembered /\ t \notin bygone)

\* Until a poll has succeeded every poll is a baseline, and is told of all that
\* ended before the page opened; then all of it is remembered.
BaselineFirst ==
  /\ ~ ready => /\ aged = {} /\ covered = {}
                /\ \A p \in PollSlots :
                     /\ polls[p].busy => polls[p].baseline
                     /\ polls[p].report = "ok" =>
                          \A t \in bygone : server[t] \in Reported => polls[p].ended[t] # "none"
  /\ ready => \A t \in bygone : server[t] \in Reported => t \in remembered

Toasts == bygone \subseteq Ended /\ ToastsRemembered /\ BaselineFirst

Inv == TypeOK /\ Good(rows, server) /\ News /\ Toasts

\* The server decides each task once.
Onward == \A t \in Tasks : server'[t] = server[t] \/ server[t] \notin Outcomes

\* What a poll is made of, and what it becomes.
LEMMA PollValues ==
  /\ Idle \in PollType
  /\ Idle.busy = FALSE /\ Idle.report = "wait" /\ Idle.ended = Nothing
  /\ Nothing \in [Tasks -> {"none"} \cup Reported] /\ \A t \in Tasks : Nothing[t] = "none"
  /\ \A poll \in PollType :
       /\ poll.busy \in BOOLEAN /\ poll.baseline \in BOOLEAN /\ poll.started \in SUBSET Tasks
       /\ poll.live \in [Tasks -> {"none", "open"}]
       /\ poll.report \in {"wait", "failed", "ok"}
       /\ poll.ended \in [Tasks -> {"none"} \cup Reported]
<1>1. /\ Nothing \in [Tasks -> {"none"} \cup Reported] /\ Nothing \in [Tasks -> {"none", "open"}]
      /\ \A t \in Tasks : Nothing[t] = "none"
  BY DEF Nothing
<1>2. /\ Idle \in PollType
      /\ Idle.busy = FALSE /\ Idle.report = "wait" /\ Idle.ended = Nothing
  BY <1>1 DEF Idle, PollType
<1> QED
  BY <1>1, <1>2 DEF PollType

LEMMA PollBegun ==
  ASSUME NEW b \in BOOLEAN, NEW S \in SUBSET Tasks, NEW new,
         new = [Idle EXCEPT !.busy = TRUE, !.baseline = b, !.started = S]
  PROVE  /\ new \in PollType /\ new.busy = TRUE /\ new.baseline = b
         /\ new.report = "wait" /\ new.ended = Nothing
<1>1. Nothing \in [Tasks -> {"none"} \cup Reported] /\ Nothing \in [Tasks -> {"none", "open"}]
  BY DEF Nothing
<1> QED
  BY <1>1 DEF Idle, PollType

\* Every variable has its type, by name.
LEMMA PollTypes ==
  TypeOK <=>
    /\ server \in [Tasks -> ServerStatuses] /\ rows \in [Ids -> Statuses]
    /\ polls \in [PollSlots -> PollType]
    /\ covered \in SUBSET Tasks /\ aged \in SUBSET Tasks
    /\ stream \in BOOLEAN /\ ready \in BOOLEAN /\ events \in Seq(EventType)
    /\ remembered \in SUBSET Tasks /\ bygone \in SUBSET Tasks
    /\ toasts \in [Tasks -> Nat] /\ listing \in [Tasks -> {"none"} \cup Reported]
    /\ watched \in SUBSET Tasks /\ asked \in SUBSET Tasks
    /\ query \in [Tasks -> Answers] /\ cancelling \in SUBSET Tasks
BY DEF TypeOK, ServerStatuses, PollType, EventType

LEMMA PollParts ==
  ASSUME TypeOK, NEW p \in PollSlots
  PROVE  /\ polls[p] \in PollType
         /\ polls[p].live \in [Tasks -> {"none", "open"}]
         /\ polls[p].ended \in [Tasks -> {"none"} \cup Reported]
         /\ polls[p].busy \in BOOLEAN /\ polls[p].baseline \in BOOLEAN
         /\ polls[p].started \in SUBSET Tasks
<1>1. polls[p] \in PollType
  BY PollTypes
<1> QED
  BY <1>1, PollValues

\* A table does not mind the server going on.
LEMMA GoodOnward ==
  ASSUME NEW a, NEW old, NEW new, Good(a, old),
         \A t \in Tasks : new[t] = old[t] \/ old[t] \notin Outcomes
  PROVE  Good(a, new)
BY IdFacts DEF Good, Truthful, Final, Outcomes

\* Nothing moves but the server, and what it tells of that.
LEMMA ServerMoves ==
  ASSUME Inv, Onward, server' \in [Tasks -> ServerStatuses], cancelling' \in SUBSET Tasks,
         CancelsTrue', events' \in Seq(EventType), EventsTrue',
         UNCHANGED <<rows, feedVars, stream, toastVars, queryVars, bygone, listing>>
  PROVE  Inv' /\ Keeps(rows, rows')
<1>1. TypeOK'
  BY DEF Inv, TypeOK, feedVars, toastVars, queryVars, ServerStatuses, EventType
<1>2. Good(rows, server)'
  BY GoodOnward DEF Inv, Onward
<1>3. News'
  <2>1. PollsTrue'
    <3>1. \A p \in PollSlots, t \in Tasks :
            polls[p].ended[t] # "none" => polls[p].ended[t] \in Outcomes
      BY PollParts, StatusFacts DEF Inv
    <3> QED
      BY <3>1 DEF Inv, News, PollsTrue, Onward, feedVars
  <2>2. ListingTrue'
    <3>1. \A t \in Tasks : listing[t] # "none" => listing[t] \in Outcomes
      BY StatusFacts DEF Inv, TypeOK
    <3> QED
      BY <3>1 DEF Inv, News, ListingTrue, Onward
  <2>3. QueriesTrue'
    BY DEF Inv, News, QueriesTrue, Onward, queryVars
  <2> QED
    BY <2>1, <2>2, <2>3 DEF News
<1>4. Toasts'
  <2>1. bygone' \subseteq Ended'
    BY DEF Inv, Toasts, Ended, Onward
  <2>2. ToastsRemembered'
    BY DEF Inv, Toasts, ToastsRemembered, toastVars
  <2>3. \A t \in bygone : server'[t] = server[t]
    BY DEF Inv, Toasts, Ended, Onward, TypeOK
  <2>4. BaselineFirst'
    BY <2>3 DEF Inv, Toasts, BaselineFirst, feedVars, toastVars
  <2> QED
    BY <2>1, <2>2, <2>4 DEF Toasts
<1>5. Keeps(rows, rows')
  BY DEF Keeps
<1> QED
  BY <1>1, <1>2, <1>3, <1>4, <1>5 DEF Inv

\* What the server publishes is true, and not of bygone work.
LEMMA PublishIsTrue ==
  ASSUME Inv, NEW t \in Tasks, NEW kind \in {"progress"} \cup Reported, Publish(kind, t),
         Onward, bygone' = bygone,
         kind \in Reported => server'[t] = kind /\ server[t] \notin Outcomes
  PROVE  events' \in Seq(EventType) /\ EventsTrue'
<1> DEFINE e == [kind |-> kind, task |-> t]
<1>1. e \in EventType /\ e.kind = kind /\ e.task = t
  BY DEF EventType
<1>2. events \in Seq(EventType)
  BY PollTypes DEF Inv
<1>3. events' = events \/ events' = Append(events, e)
  BY DEF Publish
<1> HIDE DEF e
<1>4. \A i \in DOMAIN events' :
        events'[i] = e \/ (i \in DOMAIN events /\ events'[i] = events[i])
  BY <1>1, <1>2, <1>3
<1>5. \A i \in DOMAIN events : events[i].kind \in Reported =>
        server'[events[i].task] = events[i].kind
  <2> SUFFICES ASSUME NEW i \in DOMAIN events, events[i].kind \in Reported
               PROVE  server'[events[i].task] = events[i].kind
    OBVIOUS
  <2>1. events[i] \in EventType
    BY <1>2
  <2>2. events[i].task \in Tasks
    BY <2>1 DEF EventType
  <2> QED
    BY <2>2, StatusFacts DEF Inv, News, EventsTrue, Onward
<1>6. kind \in Reported => t \notin bygone
  BY DEF Inv, Toasts, Ended
<1>7. EventsTrue'
  BY <1>1, <1>4, <1>5, <1>6 DEF Inv, News, EventsTrue
<1> QED
  BY <1>1, <1>2, <1>3, <1>7

\* The actions of the server, and the one by which the page makes it cancel.
LEMMA ServerStep ==
  ASSUME Inv, NEW t \in Tasks, ServerSteps(t) \/ CancelAnswered(t)
  PROVE  Inv' /\ Keeps(rows, rows') /\ Onward
<1> USE PollTypes DEF Inv
<1>t. /\ server \in [Tasks -> ServerStatuses] /\ cancelling \in SUBSET Tasks
      /\ events \in Seq(EventType) /\ EventsTrue /\ CancelsTrue
  BY DEF News
<1>s. /\ "queued" \in ServerStatuses /\ "running" \in ServerStatuses
      /\ "cancelled" \in ServerStatuses /\ Reported \subseteq ServerStatuses
      /\ Live \cap Outcomes = {} /\ "none" \notin Outcomes
  BY DEF ServerStatuses, Live, Outcomes, Reported
<1>1. CASE Submit(t)
  <2>1. Onward /\ server' \in [Tasks -> ServerStatuses]
    BY <1>1, <1>t, <1>s DEF Submit, Onward
  <2>2. EventsTrue' /\ events' = events /\ cancelling' = cancelling
    BY <1>1, <1>t, <2>1, StatusFacts
       DEF Submit, streamVars, pageVars, EventsTrue, EventType, Onward
  <2>3. CancelsTrue'
    BY <1>t, <2>1, <2>2 DEF CancelsTrue, Onward, Outcomes
  <2> QED
    BY <1>1, <1>t, <2>1, <2>2, <2>3, ServerMoves DEF Submit, streamVars, pageVars
<1>2. CASE Work(t)
  <2>1. Onward /\ server' \in [Tasks -> ServerStatuses]
    BY <1>2, <1>t, <1>s DEF Work, Onward, Live
  <2>2. bygone' = bygone /\ cancelling' = cancelling /\ Publish("progress", t)
    BY <1>2 DEF Work, pageVars
  <2>3. events' \in Seq(EventType) /\ EventsTrue'
    BY <2>1, <2>2, PublishIsTrue DEF Reported
  <2>4. CancelsTrue'
    BY <1>t, <2>1, <2>2 DEF CancelsTrue, Onward, Outcomes
  <2> QED
    BY <1>2, <1>t, <2>1, <2>2, <2>3, <2>4, ServerMoves DEF Work, pageVars
<1>3. ASSUME NEW outcome \in Reported, Finish(t, outcome)
      PROVE  Inv' /\ Keeps(rows, rows') /\ Onward
  <2>1. server[t] \notin Outcomes
    BY <1>3, <1>s DEF Finish, Live
  <2>2. Onward /\ server' \in [Tasks -> ServerStatuses] /\ server'[t] = outcome
    BY <1>3, <1>t, <1>s, <2>1 DEF Finish, Onward
  <2>3. bygone' = bygone /\ cancelling' = cancelling /\ Publish(outcome, t)
    BY <1>3 DEF Finish, pageVars
  <2>4. events' \in Seq(EventType) /\ EventsTrue'
    BY <1>3, <2>1, <2>2, <2>3, PublishIsTrue
  <2>5. CancelsTrue'
    BY <1>t, <2>2, <2>3 DEF CancelsTrue, Onward, Outcomes
  <2> QED
    BY <1>3, <1>t, <2>2, <2>3, <2>4, <2>5, ServerMoves DEF Finish, pageVars
<1>4. CASE CancelElsewhere(t)
  <2>1. Onward /\ server' \in [Tasks -> ServerStatuses]
    BY <1>4, <1>t, <1>s DEF CancelElsewhere, Onward, Live
  <2>2. EventsTrue' /\ events' = events /\ cancelling' = cancelling
    BY <1>4, <1>t, <2>1, StatusFacts
       DEF CancelElsewhere, streamVars, pageVars, EventsTrue, EventType, Onward
  <2>3. CancelsTrue'
    BY <1>t, <2>1, <2>2 DEF CancelsTrue, Onward, Outcomes
  <2> QED
    BY <1>4, <1>t, <2>1, <2>2, <2>3, ServerMoves DEF CancelElsewhere, streamVars, pageVars
<1>5. CASE CancelAnswered(t)
  <2>1. Onward /\ server' \in [Tasks -> ServerStatuses] /\ server'[t] = "cancelled"
    BY <1>5, <1>t, <1>s DEF CancelAnswered, Onward, Live
  <2>2. EventsTrue' /\ events' = events /\ cancelling' = cancelling \cup {t}
    BY <1>5, <1>t, <2>1, StatusFacts
       DEF CancelAnswered, streamVars, EventsTrue, EventType, Onward
  <2>3. CancelsTrue'
    BY <1>t, <2>1, <2>2 DEF CancelsTrue, Onward, Outcomes
  <2> QED
    BY <1>5, <1>t, <2>1, <2>2, <2>3, ServerMoves DEF CancelAnswered, streamVars
<1> QED
  BY <1>1, <1>2, <1>3, <1>4, <1>5 DEF ServerSteps

-----------------------------------------------------------------------------
(* The page: its table, and what is on its way to it. *)

\* The server, the polls and the toasts stay; the table takes true news.
LEMMA PageMoves ==
  ASSUME Inv, Good(rows', server), Keeps(rows, rows'),
         UNCHANGED <<server, feedVars, toastVars, bygone>>,
         stream' \in BOOLEAN, events' \in Seq(EventType), EventsTrue',
         listing' \in [Tasks -> {"none"} \cup Reported], ListingTrue',
         watched' \in SUBSET Tasks, asked' \in SUBSET Tasks,
         query' \in [Tasks -> Answers], QueriesTrue',
         cancelling' \in SUBSET cancelling
  PROVE  Inv' /\ Keeps(rows, rows') /\ Onward
<1>1. TypeOK'
  BY DEF Inv, Good, TypeOK, feedVars, toastVars, EventType
<1>2. Good(rows, server)'
  OBVIOUS
<1>3. News'
  BY DEF Inv, News, PollsTrue, CancelsTrue, feedVars
<1>4. Toasts'
  BY DEF Inv, Toasts, Ended, ToastsRemembered, BaselineFirst, feedVars, toastVars
<1>5. Onward
  BY DEF Onward
<1> QED
  BY <1>1, <1>2, <1>3, <1>4, <1>5 DEF Inv

\* The same when the table stays too.
LEMMA TableStays ==
  ASSUME Inv, UNCHANGED <<server, rows, feedVars, toastVars, bygone>>,
         stream' \in BOOLEAN, events' \in Seq(EventType), EventsTrue',
         listing' \in [Tasks -> {"none"} \cup Reported], ListingTrue',
         watched' \in SUBSET Tasks, asked' \in SUBSET Tasks,
         query' \in [Tasks -> Answers], QueriesTrue',
         cancelling' \in SUBSET cancelling
  PROVE  Inv' /\ Keeps(rows, rows') /\ Onward
<1>1. Good(rows', server) /\ Keeps(rows, rows')
  BY DEF Inv, Keeps
<1> QED
  BY <1>1, PageMoves

\* What is known of what is on its way, by the names of PageMoves.
LEMMA Carried ==
  ASSUME Inv
  PROVE  /\ rows \in [Ids -> Statuses] /\ Good(rows, server)
         /\ stream \in BOOLEAN /\ events \in Seq(EventType) /\ EventsTrue
         /\ listing \in [Tasks -> {"none"} \cup Reported] /\ ListingTrue
         /\ watched \in SUBSET Tasks /\ asked \in SUBSET Tasks
         /\ query \in [Tasks -> Answers] /\ QueriesTrue
         /\ cancelling \in SUBSET Tasks /\ CancelsTrue
         /\ server \in [Tasks -> ServerStatuses]
BY PollTypes DEF Inv, News

\* EventsTrue, ListingTrue and QueriesTrue are about what they name.
LEMMA NewsStay ==
  /\ EventsTrue /\ UNCHANGED <<server, events, bygone>> => EventsTrue'
  /\ ListingTrue /\ UNCHANGED <<server, listing>> => ListingTrue'
  /\ QueriesTrue /\ UNCHANGED <<server, query>> => QueriesTrue'
BY DEF EventsTrue, ListingTrue, QueriesTrue

\* The stream opens or breaks.
LEMMA StreamStep ==
  ASSUME Inv, StreamOpens \/ StreamBreaks
  PROVE  Inv' /\ Keeps(rows, rows') /\ Onward
<1> USE Carried, NewsStay
<1>1. CASE StreamOpens
  BY <1>1, TableStays DEF StreamOpens, queryVars, pageVars
<1>2. CASE StreamBreaks
  <2>1. events' \in Seq(EventType) /\ EventsTrue'
    BY <1>2 DEF StreamBreaks, EventsTrue
  <2> QED
    BY <1>2, <2>1, TableStays DEF StreamBreaks, queryVars, pageVars
<1> QED
  BY <1>1, <1>2

\* The list of notifications.
LEMMA ListStep ==
  ASSUME Inv, ListAnswered \/ ListEnds
  PROVE  Inv' /\ Keeps(rows, rows') /\ Onward
<1> USE Carried, NewsStay
<1>1. CASE ListAnswered
  <2>1. PICK S \in SUBSET Reportable : listing' = ReportOf(S)
    BY <1>1 DEF ListAnswered
  <2>2. listing' \in [Tasks -> {"none"} \cup Reported] /\ ListingTrue'
    BY <1>1, <2>1 DEF ListAnswered, ReportOf, Reportable, ListingTrue
  <2> QED
    BY <1>1, <2>2, TableStays DEF ListAnswered, streamVars, queryVars
<1>2. CASE ListEnds
  <2>1. rows' = [id \in Ids |->
           IF id \in Addressed(rows, listing)
           THEN Merged(rows[id], listing[TaskOf(id)]) ELSE rows[id]]
    BY <1>2 DEF ListEnds
  <2>2. ASSUME NEW id \in Ids
        PROVE  /\ rows'[id] \in Statuses
               /\ \/ rows'[id] = rows[id]
                  \/ /\ id = Get(rows, TaskOf(id)) /\ rows'[id] # "absent"
                     /\ rows[id] \in Final => rows'[id] = rows[id]
                     /\ rows'[id] \in Final => server[TaskOf(id)] = rows'[id]
    <3>1. CASE id \notin Addressed(rows, listing)
      BY <2>1, <2>2, <3>1
    <3>2. CASE id \in Addressed(rows, listing)
      <4>1. /\ id = Get(rows, TaskOf(id)) /\ TaskOf(id) \in Tasks
            /\ listing[TaskOf(id)] \in Reported /\ server[TaskOf(id)] = listing[TaskOf(id)]
        BY <2>2, <3>2, IdFacts DEF Addressed, ListingTrue
      <4>2. rows'[id] = Merged(rows[id], listing[TaskOf(id)])
        BY <2>1, <2>2, <3>2
      <4>3. rows[id] \in Statuses
        BY <2>2
      <4> QED
        BY <4>1, <4>2, <4>3 DEF Merged, Reported, Final, Statuses, Outcomes
    <3> QED
      BY <3>1, <3>2
  <2>3. rows' \in [Ids -> Statuses]
    BY <2>1, <2>2
  <2>4. Good(rows', server) /\ Retains(rows, rows')
    BY <2>2, <2>3, AddressedIsGood
  <2>5. listing' \in [Tasks -> {"none"} \cup Reported] /\ ListingTrue'
    BY <1>2 DEF ListEnds, ListingTrue, Nothing
  <2> QED
    BY <1>2, <2>4, <2>5, PageMoves DEF ListEnds, streamVars, queryVars, Retains, Keeps
<1> QED
  BY <1>1, <1>2

\* The end of a cancellation, and the removal of a row.
LEMMA RowStep ==
  ASSUME Inv, NEW t \in Tasks, CancelEnds(t) \/ RemoveRow(t)
  PROVE  Inv' /\ Keeps(rows, rows') /\ Onward
<1> USE Carried, NewsStay
<1>1. CASE CancelEnds(t)
  <2>1. server[t] = "cancelled" /\ rows' = Overwrite(rows, t)
    BY <1>1 DEF CancelEnds, CancelsTrue
  <2>2. Good(rows', server) /\ Retains(rows, rows')
    BY <2>1, OverwriteIsGood
  <2> QED
    BY <1>1, <2>2, PageMoves DEF CancelEnds, streamVars, queryVars, Retains, Keeps
<1>2. CASE RemoveRow(t)
  <2>1. Good(rows', server) /\ Keeps(rows, rows')
    BY <1>2, RemovedIsGood DEF RemoveRow
  <2>2. PICK late \in {"none", "missing"} :
          query' = IF t \in watched THEN query ELSE [query EXCEPT ![t] = late]
    BY <1>2 DEF RemoveRow
  <2>3. query' \in [Tasks -> Answers] /\ QueriesTrue'
    <3>1. late \in Answers /\ late \notin Outcomes
      BY DEF Answers, Outcomes
    <3>2. server' = server
      BY <1>2 DEF RemoveRow
    <3>3. QED
      BY <2>2, <3>1, <3>2 DEF QueriesTrue
  <2> QED
    BY <1>2, <2>1, <2>3, PageMoves DEF RemoveRow, streamVars, pageVars
<1> QED
  BY <1>1, <1>2

\* The queries about single tasks.
LEMMA QueryStep ==
  ASSUME Inv, NEW t \in Tasks, QuerySteps(t)
  PROVE  Inv' /\ Keeps(rows, rows') /\ Onward
<1> USE Carried, NewsStay
<1>1. CASE Watch(t)
  <2>1. Good(rows', server) /\ Retains(rows, rows')
    BY <1>1, RegisterIsGood DEF Watch
  <2> QED
    BY <1>1, <2>1, PageMoves DEF Watch, streamVars, pageVars, Retains, Keeps
<1>2. CASE Unwatch(t)
  <2>1. query' \in [Tasks -> Answers] /\ QueriesTrue'
    BY <1>2, StatusFacts DEF Unwatch, QueriesTrue, Answers
  <2> QED
    BY <1>2, <2>1, TableStays DEF Unwatch, streamVars, pageVars
<1>3. CASE QueryAnswered(t)
  <2>1. PICK answer \in {Mapped(server[t]), "missing"} :
          query' = [query EXCEPT ![t] = answer]
    BY <1>3 DEF QueryAnswered
  <2>2. answer \in Answers /\ (answer \in Outcomes => server[t] = answer)
    BY <2>1, StatusFacts DEF Mapped, ServerStatuses, Answers, Outcomes
  <2>3. query' \in [Tasks -> Answers] /\ QueriesTrue'
    BY <1>3, <2>1, <2>2 DEF QueryAnswered, QueriesTrue
  <2> QED
    BY <1>3, <2>3, TableStays DEF QueryAnswered, streamVars, pageVars
<1>4. CASE QueryEnds(t)
  <2>1. query[t] \in {"open", "missing"} \cup Outcomes
    BY <1>4 DEF QueryEnds, Answers
  <2>2. query[t] \in Outcomes => server[t] = query[t]
    BY DEF QueriesTrue
  <2>3. Good(rows', server) /\ Retains(rows, rows')
    <3>1. CASE t \in watched /\ query[t] = "cancelled"
      <4>1. rows' = Overwrite(rows, t) /\ server[t] = "cancelled"
        BY <1>4, <2>2, <3>1 DEF QueryEnds, Outcomes
      <4> QED
        BY <4>1, OverwriteIsGood
    <3>2. CASE ~ (t \in watched /\ query[t] = "cancelled")
      <4>1. rows' = Update(rows, t, Told(query[t]))
        BY <1>4, <3>2 DEF QueryEnds
      <4>2. /\ Told(query[t]) \in Statuses \ {"absent"}
            /\ Told(query[t]) \in Final => server[t] = Told(query[t])
        BY <2>1, <2>2 DEF Statuses, Outcomes, Final, Told
      <4> QED
        BY <4>1, <4>2, UpdateIsGood
    <3> QED
      BY <3>1, <3>2
  <2>4. query' \in [Tasks -> Answers] /\ QueriesTrue'
    BY <1>4, StatusFacts DEF QueryEnds, QueriesTrue, Answers
  <2> QED
    BY <1>4, <2>3, <2>4, PageMoves DEF QueryEnds, streamVars, pageVars, Retains, Keeps
<1>5. CASE RecoveryFails(t)
  BY <1>5, TableStays DEF RecoveryFails, streamVars, pageVars
<1> QED
  BY <1>1, <1>2, <1>3, <1>4, <1>5 DEF QuerySteps

-----------------------------------------------------------------------------
(* Polls and toasts. *)

\* Of the feed, one poll moves.
LEMMA PollMoves ==
  ASSUME Inv, NEW p \in PollSlots, NEW new \in PollType,
         polls' = [polls EXCEPT ![p] = new],
         \A t \in Tasks : new.ended[t] # "none" => server[t] = new.ended[t],
         ~ ready => /\ new.busy => new.baseline
                    /\ new.report = "ok" => \A t \in bygone :
                         server[t] \in Reported => new.ended[t] # "none",
         UNCHANGED <<server, rows, covered, aged, ready, streamVars, toastVars,
                     queryVars, pageVars>>
  PROVE  Inv' /\ Keeps(rows, rows') /\ Onward
<1>1. polls' \in [PollSlots -> PollType] /\ polls'[p] = new
      /\ \A q \in PollSlots : q # p => polls'[q] = polls[q]
  BY PollTypes DEF Inv
<1>2. TypeOK'
  BY <1>1 DEF Inv, TypeOK, PollType, streamVars, toastVars, queryVars, pageVars
<1>3. Good(rows, server)' /\ Keeps(rows, rows') /\ Onward
  BY DEF Inv, Keeps, Onward
<1>4. PollsTrue'
  BY <1>1 DEF Inv, News, PollsTrue
<1>5. News'
  BY <1>4 DEF Inv, News, ListingTrue, QueriesTrue, CancelsTrue, EventsTrue, streamVars,
              queryVars, pageVars
<1>6. bygone' = bygone /\ remembered' = remembered
  BY DEF toastVars, pageVars
<1>7. BaselineFirst'
  BY <1>1, <1>6 DEF Inv, Toasts, BaselineFirst
<1>8. Toasts'
  BY <1>7 DEF Inv, Toasts, Ended, ToastsRemembered, toastVars, pageVars
<1> QED
  BY <1>2, <1>3, <1>5, <1>8 DEF Inv

\* A poll starts, and its two answers come.
LEMMA PollAsks ==
  ASSUME Inv, NEW p \in PollSlots,
         \/ PollStarts(p) \/ ActiveAnswered(p)
         \/ \E result \in {"ok", "failed"} : ReportAnswered(p, result)
  PROVE  Inv' /\ Keeps(rows, rows') /\ Onward
<1>p. /\ polls[p] \in PollType /\ polls[p].ended \in [Tasks -> {"none"} \cup Reported]
      /\ polls[p].baseline \in BOOLEAN /\ polls[p].busy \in BOOLEAN
  BY PollParts DEF Inv
<1>r. ready \in BOOLEAN /\ server \in [Tasks -> ServerStatuses]
  BY PollTypes DEF Inv
<1>i. /\ \A t \in Tasks : polls[p].ended[t] # "none" => server[t] = polls[p].ended[t]
      /\ ~ ready => /\ polls[p].busy => polls[p].baseline
                    /\ polls[p].report = "ok" => \A t \in bygone :
                         server[t] \in Reported => polls[p].ended[t] # "none"
  BY DEF Inv, News, PollsTrue, Toasts, BaselineFirst
<1>1. CASE PollStarts(p)
  <2> DEFINE new == [Idle EXCEPT !.busy = TRUE, !.baseline = ~ ready, !.started = Ended]
  <2>1. Ended \in SUBSET Tasks
    BY DEF Ended
  <2>2. /\ new \in PollType /\ new.baseline = ~ ready /\ new.report = "wait"
        /\ new.ended = Nothing
    BY <1>r, <2>1, PollBegun
  <2>3. polls' = [polls EXCEPT ![p] = new]
    BY <1>1 DEF PollStarts
  <2> HIDE DEF new
  <2>4. \A t \in Tasks : new.ended[t] = "none"
    BY <2>2 DEF Nothing
  <2>5. UNCHANGED <<server, rows, covered, aged, ready, streamVars, toastVars,
                    queryVars, pageVars>>
    BY <1>1 DEF PollStarts
  <2> QED
    BY <2>2, <2>3, <2>4, <2>5, PollMoves
<1>2. CASE ActiveAnswered(p)
  <2>1. LiveNow \in [Tasks -> {"none", "open"}] /\ Nothing \in [Tasks -> {"none", "open"}]
    BY DEF LiveNow, Nothing
  <2>2. PICK live \in [Tasks -> {"none", "open"}] :
          polls' = [polls EXCEPT ![p].active = "here", ![p].live = live]
    BY <1>2, <2>1 DEF ActiveAnswered
  <2>n. PICK new : new = [polls[p] EXCEPT !.active = "here", !.live = live]
    OBVIOUS
  <2>3. polls' = [polls EXCEPT ![p] = new]
    BY <1>p, <2>2, <2>n
  <2>4. /\ new \in PollType /\ new.busy = polls[p].busy /\ new.baseline = polls[p].baseline
        /\ new.report = polls[p].report /\ new.ended = polls[p].ended
    BY <1>p, <2>2, <2>n DEF PollType
  <2>5. /\ \A t \in Tasks : new.ended[t] # "none" => server[t] = new.ended[t]
        /\ ~ ready => /\ new.busy => new.baseline
                      /\ new.report = "ok" => \A t \in bygone :
                           server[t] \in Reported => new.ended[t] # "none"
    BY <1>i, <2>4
  <2>6. UNCHANGED <<server, rows, covered, aged, ready, streamVars, toastVars,
                    queryVars, pageVars>>
    BY <1>2 DEF ActiveAnswered
  <2>7. new \in PollType
    BY <2>4
  <2> QED
    BY <2>3, <2>5, <2>6, <2>7, PollMoves
<1>3. ASSUME NEW result \in {"ok", "failed"}, ReportAnswered(p, result)
      PROVE  Inv' /\ Keeps(rows, rows') /\ Onward
  <2>1. PICK S \in SUBSET Reportable :
          /\ result = "ok" => Reportable \ aged \subseteq S
          /\ polls' = [polls EXCEPT ![p].report = result, ![p].ended = ReportOf(S)]
    BY <1>3 DEF ReportAnswered
  <2>2. /\ ReportOf(S) \in [Tasks -> {"none"} \cup Reported]
        /\ \A t \in Tasks : ReportOf(S)[t] = IF t \in S THEN server[t] ELSE "none"
        /\ \A t \in S : t \in Tasks /\ server[t] \in Reported
    BY DEF ReportOf, Reportable
  <2>n. PICK new : new = [polls[p] EXCEPT !.report = result, !.ended = ReportOf(S)]
    OBVIOUS
  <2>3. polls' = [polls EXCEPT ![p] = new]
    BY <1>p, <2>1, <2>n
  <2>4. /\ new \in PollType /\ new.busy = polls[p].busy /\ new.baseline = polls[p].baseline
        /\ new.report = result /\ new.ended = ReportOf(S)
    BY <1>p, <1>3, <2>2, <2>n DEF PollType
  <2>5. \A t \in Tasks : new.ended[t] # "none" => server[t] = new.ended[t]
    BY <2>2, <2>4
  <2>6. ASSUME ~ ready, result = "ok", NEW t \in bygone, server[t] \in Reported
        PROVE  new.ended[t] # "none"
    <3>1. t \in Tasks /\ aged = {}
      BY <2>6 DEF Inv, Toasts, BaselineFirst, Ended
    <3>2. t \in S
      BY <2>1, <2>6, <3>1 DEF Reportable
    <3> QED
      BY <2>2, <2>4, <2>6, <3>1, <3>2, StatusFacts
  <2> QED
    BY <1>3, <1>i, <2>3, <2>4, <2>5, <2>6, PollMoves DEF ReportAnswered
<1> QED
  BY <1>1, <1>2, <1>3

\* Time passes.
LEMMA AgesStep ==
  ASSUME Inv, NEW t \in Tasks, Ages(t)
  PROVE  Inv' /\ Keeps(rows, rows') /\ Onward
<1>1. t \in covered /\ aged' = aged \cup {t}
  BY DEF Ages
<1>2. TypeOK'
  BY <1>1 DEF Ages, Inv, TypeOK, streamVars, toastVars, queryVars, pageVars
<1>3. Good(rows, server)' /\ Keeps(rows, rows') /\ Onward
  BY DEF Ages, Inv, Keeps, Onward
<1>4. News'
  BY DEF Ages, Inv, News, PollsTrue, ListingTrue, QueriesTrue, CancelsTrue, EventsTrue,
         streamVars, queryVars, pageVars
<1>5. Toasts'
  BY <1>1 DEF Ages, Inv, Toasts, Ended, ToastsRemembered, BaselineFirst, toastVars, pageVars
<1> QED
  BY <1>2, <1>3, <1>4, <1>5 DEF Inv

\* Notifications of true news, none of them bygone or already told: the rows are
\* good, and each end is told once.
LEMMA NotifyIsGood ==
  ASSUME Inv, NEW S \in SUBSET Tasks, NEW news, NEW table, Good(table, server),
         \A t \in S : news[t] \in Reported /\ server[t] = news[t],
         \A t \in S : t \in remembered \/ t \notin bygone,
         Notify(S, news, table)
  PROVE  /\ Good(rows', server) /\ Retains(table, rows')
         /\ remembered' \in SUBSET Tasks /\ remembered \subseteq remembered'
         /\ S \subseteq remembered'
         /\ toasts' \in [Tasks -> Nat]
         /\ \A t \in Tasks : toasts'[t] <= 1 /\ (toasts'[t] > 0 => t \in remembered' /\ t \notin bygone)
<1> DEFINE fresh == [t \in Tasks |-> IF t \in S \ remembered THEN news[t] ELSE "none"]
<1>1. rows' = [id \in Ids |->
         IF id \notin Addressed(table, fresh) THEN table[id]
         ELSE IF table[id] = "absent" THEN fresh[TaskOf(id)]
         ELSE Conclude(table[id], fresh[TaskOf(id)])]
  BY DEF Notify
<1>2. \A t \in Tasks : fresh[t] # "none" => fresh[t] \in Reported /\ server[t] = fresh[t]
  OBVIOUS
<1> HIDE DEF fresh
<1>3. ASSUME NEW id \in Ids
      PROVE  /\ rows'[id] \in Statuses
             /\ \/ rows'[id] = table[id]
                \/ /\ id = Get(table, TaskOf(id)) /\ rows'[id] # "absent"
                   /\ table[id] \in Final => rows'[id] = table[id]
                   /\ rows'[id] \in Final => server[TaskOf(id)] = rows'[id]
  <2>0. table[id] \in Statuses
    BY <1>3 DEF Good
  <2>1. CASE id \notin Addressed(table, fresh)
    BY <1>1, <1>3, <2>0, <2>1
  <2>2. CASE id \in Addressed(table, fresh)
    <3>1. /\ id = Get(table, TaskOf(id)) /\ fresh[TaskOf(id)] \in Reported
          /\ server[TaskOf(id)] = fresh[TaskOf(id)]
      BY <1>2, <1>3, <2>2, IdFacts DEF Addressed
    <3>2. rows'[id] = IF table[id] = "absent" THEN fresh[TaskOf(id)]
                      ELSE Conclude(table[id], fresh[TaskOf(id)])
      BY <1>1, <1>3, <2>2
    <3> QED
      BY <2>0, <3>1, <3>2 DEF Conclude, Blend, Reported, Final, Statuses, Outcomes
  <2> QED
    BY <2>1, <2>2
<1>4. rows' \in [Ids -> Statuses]
  BY <1>1, <1>3
<1>5. Good(rows', server) /\ Retains(table, rows')
  BY <1>3, <1>4, AddressedIsGood
<1>6. remembered' = remembered \cup S
      /\ toasts' = [t \in Tasks |-> toasts[t] + IF t \in S \ remembered THEN 1 ELSE 0]
  BY DEF Notify
<1>7. remembered \in SUBSET Tasks /\ toasts \in [Tasks -> Nat] /\ ToastsRemembered
  BY PollTypes DEF Inv, Toasts
<1>8. toasts' \in [Tasks -> Nat]
  BY <1>6, <1>7
<1>9. ASSUME NEW t \in Tasks
      PROVE  toasts'[t] <= 1 /\ (toasts'[t] > 0 => t \in remembered' /\ t \notin bygone)
  <2>1. toasts[t] \in Nat /\ toasts[t] <= 1 /\ (toasts[t] > 0 => t \in remembered /\ t \notin bygone)
    BY <1>7, <1>9 DEF ToastsRemembered
  <2>2. CASE t \in S \ remembered
    BY <1>6, <1>9, <2>1, <2>2
  <2>3. CASE t \notin S \ remembered
    BY <1>6, <1>9, <2>1, <2>3
  <2> QED
    BY <2>2, <2>3
<1> QED
  BY <1>5, <1>6, <1>7, <1>8, <1>9

\* A message of the stream is handled.
LEMMA DeliversStep ==
  ASSUME Inv, StreamDelivers
  PROVE  Inv' /\ Keeps(rows, rows') /\ Onward
<1> DEFINE e == Head(events)
<1>e. /\ events \in Seq(EventType) /\ events # <<>> /\ events' = Tail(events)
      /\ UNCHANGED <<server, feedVars, stream, queryVars, pageVars>>
  BY Carried DEF StreamDelivers
<1>1. e \in EventType /\ events' \in Seq(EventType)
  BY <1>e
<1>2. e.task \in Tasks /\ e.kind \in {"progress"} \cup Reported
  BY <1>1 DEF EventType
<1>3. e.kind \in Reported => server[e.task] = e.kind /\ e.task \notin bygone
  <2>1. 1 \in DOMAIN events /\ e = events[1]
    BY <1>e
  <2> QED
    BY <2>1 DEF Inv, News, EventsTrue
<1>4. EventsTrue'
  <2>1. \A i \in DOMAIN events' : i + 1 \in DOMAIN events /\ events'[i] = events[i + 1]
    BY <1>e
  <2>2. server' = server /\ bygone' = bygone
    BY <1>e DEF pageVars
  <2> QED
    BY <2>1, <2>2 DEF Inv, News, EventsTrue
<1> HIDE DEF e
<1>5. CASE e.kind = "progress" /\ rows' = Update(rows, e.task, "open") /\ UNCHANGED toastVars
  <2>1. Good(rows', server) /\ Retains(rows, rows')
    BY <1>2, <1>5, Carried, UpdateIsGood, StatusFacts DEF Final
  <2> QED
    BY <1>e, <1>1, <1>4, <1>5, <2>1, PageMoves, Carried, NewsStay
       DEF queryVars, pageVars, Retains, Keeps
<1>6. CASE e.kind \in Reported /\ Notify({e.task}, [t \in Tasks |-> e.kind], rows)
  <2>1. /\ Good(rows', server) /\ Retains(rows, rows')
        /\ remembered' \in SUBSET Tasks /\ remembered \subseteq remembered'
        /\ toasts' \in [Tasks -> Nat]
        /\ \A t \in Tasks : toasts'[t] <= 1
             /\ (toasts'[t] > 0 => t \in remembered' /\ t \notin bygone)
    <3>1. {e.task} \in SUBSET Tasks
      BY <1>2
    <3>2. \A t \in {e.task} : /\ [u \in Tasks |-> e.kind][t] \in Reported
                              /\ server[t] = [u \in Tasks |-> e.kind][t]
                              /\ t \notin bygone
      BY <1>2, <1>3, <1>6
    <3> QED
      BY <1>6, <3>1, <3>2, NotifyIsGood, Carried
  <2>2. TypeOK'
    BY <1>e, <1>1, <2>1 DEF Inv, Good, TypeOK, EventType, feedVars, queryVars, pageVars
  <2>3. News'
    BY <1>e, <1>4 DEF Inv, News, PollsTrue, ListingTrue, QueriesTrue, CancelsTrue, feedVars,
                      queryVars, pageVars
  <2>4. Toasts'
    <3>1. ToastsRemembered'
      BY <1>e, <2>1 DEF ToastsRemembered, pageVars
    <3> QED
      BY <1>e, <2>1, <3>1 DEF Inv, Toasts, Ended, BaselineFirst, feedVars, pageVars
  <2>5. Good(rows, server)' /\ Keeps(rows, rows') /\ Onward
    BY <1>e, <2>1 DEF Onward, Retains, Keeps
  <2> QED
    BY <2>2, <2>3, <2>4, <2>5 DEF Inv
<1> QED
  BY <1>5, <1>6 DEF StreamDelivers, e

\* Retaining is transitive, and implies keeping.
LEMMA RetainsTwice ==
  ASSUME NEW a, NEW b, NEW c, Retains(a, b), Retains(b, c)
  PROVE  Retains(a, c) /\ Keeps(a, c)
BY DEF Retains, Keeps

\* The table a poll leaves: the tasks at work, then those that ended.
LEMMA PollTableIsGood ==
  ASSUME Inv, NEW p \in PollSlots, NEW found, NEW table,
         found = [id \in Ids |->
           IF id \notin Addressed(rows, polls[p].live) THEN rows[id]
           ELSE IF rows[id] = "absent" THEN "open" ELSE Blend(rows[id], "open")],
         table = [id \in Ids |->
           IF id \in Addressed(found, polls[p].ended)
           THEN Conclude(found[id], polls[p].ended[TaskOf(id)]) ELSE found[id]]
  PROVE  Good(table, server) /\ Retains(rows, table)
<1>1. Good(found, server) /\ Retains(rows, found)
  <2>1. ASSUME NEW id \in Ids
        PROVE  /\ found[id] \in Statuses
               /\ \/ found[id] = rows[id]
                  \/ /\ id = Get(rows, TaskOf(id)) /\ found[id] # "absent"
                     /\ rows[id] \in Final => found[id] = rows[id]
                     /\ found[id] \in Final => server[TaskOf(id)] = found[id]
    <3>1. rows[id] \in Statuses /\ (rows[id] \in Final => server[TaskOf(id)] = rows[id])
      BY <2>1 DEF Inv, Good, Truthful
    <3>2. CASE id \notin Addressed(rows, polls[p].live)
      BY <2>1, <3>1, <3>2
    <3>3. CASE id \in Addressed(rows, polls[p].live)
      <4>1. id = Get(rows, TaskOf(id))
        BY <3>3 DEF Addressed
      <4>2. found[id] = IF rows[id] = "absent" THEN "open" ELSE Blend(rows[id], "open")
        BY <2>1, <3>3
      <4> QED
        BY <3>1, <4>1, <4>2 DEF Blend, Final, Statuses, Outcomes
    <3> QED
      BY <3>2, <3>3
  <2>2. found \in [Ids -> Statuses]
    BY <2>1
  <2> QED
    BY <2>1, <2>2, AddressedIsGood DEF Inv
<1>2. Good(table, server) /\ Retains(found, table)
  <2>1. ASSUME NEW id \in Ids
        PROVE  /\ table[id] \in Statuses
               /\ \/ table[id] = found[id]
                  \/ /\ id = Get(found, TaskOf(id)) /\ table[id] # "absent"
                     /\ found[id] \in Final => table[id] = found[id]
                     /\ table[id] \in Final => server[TaskOf(id)] = table[id]
    <3>1. found[id] \in Statuses
      BY <1>1, <2>1 DEF Good
    <3>2. CASE id \notin Addressed(found, polls[p].ended)
      BY <2>1, <3>1, <3>2
    <3>3. CASE id \in Addressed(found, polls[p].ended)
      <4>1. /\ id = Get(found, TaskOf(id)) /\ polls[p].ended[TaskOf(id)] \in Reported
            /\ server[TaskOf(id)] = polls[p].ended[TaskOf(id)]
        BY <2>1, <3>3, IdFacts, PollParts DEF Addressed, Inv, News, PollsTrue
      <4>2. table[id] = Conclude(found[id], polls[p].ended[TaskOf(id)])
        BY <2>1, <3>3
      <4> QED
        BY <3>1, <4>1, <4>2 DEF Conclude, Blend, Reported, Final, Statuses, Outcomes
    <3> QED
      BY <3>2, <3>3
  <2>2. table \in [Ids -> Statuses]
    BY <2>1
  <2> QED
    BY <1>1, <2>1, <2>2, AddressedIsGood
<1> QED
  BY <1>1, <1>2, RetainsTwice

\* A poll ends.  The first that succeeds is a baseline and tells nothing; what it
\* was told is remembered, and with it all that is bygone.
LEMMA PollEndsStep ==
  ASSUME Inv, NEW p \in PollSlots, PollEnds(p)
  PROVE  Inv' /\ Keeps(rows, rows') /\ Onward
<1> DEFINE told == {t \in Tasks : polls[p].ended[t] # "none"}
           ok == polls[p].report = "ok"
<1>0. PICK found : found = [id \in Ids |->
           IF id \notin Addressed(rows, polls[p].live) THEN rows[id]
           ELSE IF rows[id] = "absent" THEN "open" ELSE Blend(rows[id], "open")]
  OBVIOUS
<1>1. PICK table : table = [id \in Ids |->
           IF id \in Addressed(found, polls[p].ended)
           THEN Conclude(found[id], polls[p].ended[TaskOf(id)]) ELSE found[id]]
  OBVIOUS
<1>2. Good(table, server) /\ Retains(rows, table)
  BY <1>0, <1>1, PollTableIsGood
<1>3. /\ polls[p].busy /\ polls' = [polls EXCEPT ![p] = Idle]
      /\ ready' = (ready \/ ok)
      /\ covered' = IF ok THEN polls[p].started ELSE covered
      /\ \/ ok /\ ~ stream /\ ~ polls[p].baseline /\ Notify(told, polls[p].ended, table)
         \/ /\ ~ (ok /\ ~ stream /\ ~ polls[p].baseline)
            /\ remembered' = IF ok /\ polls[p].baseline THEN remembered \cup told
                             ELSE remembered
            /\ rows' = table /\ UNCHANGED toasts
      /\ UNCHANGED <<server, aged, streamVars, queryVars, pageVars>>
  BY <1>0, <1>1, Zenon DEF PollEnds, Behind, Baseline
<1>p. /\ polls[p].ended \in [Tasks -> {"none"} \cup Reported]
      /\ polls[p].started \in SUBSET Tasks
      /\ polls \in [PollSlots -> PollType] /\ Idle \in PollType
      /\ Idle.report = "wait" /\ Idle.busy = FALSE /\ \A t \in Tasks : Idle.ended[t] = "none"
  BY PollParts, PollTypes, PollValues DEF Inv
<1>q. polls' \in [PollSlots -> PollType] /\ polls'[p] = Idle
      /\ \A q \in PollSlots : q # p => polls'[q] = polls[q]
  BY <1>3, <1>p
<1>b. /\ ready \in BOOLEAN /\ remembered \in SUBSET Tasks /\ bygone \subseteq Ended
      /\ ToastsRemembered /\ toasts \in [Tasks -> Nat] /\ BaselineFirst
  BY PollTypes DEF Inv, Toasts
<1>t. told \in SUBSET Tasks
      /\ \A t \in told : polls[p].ended[t] \in Reported /\ server[t] = polls[p].ended[t]
  BY <1>p DEF Inv, News, PollsTrue
<1>s. ~ ready /\ ok => polls[p].baseline /\ \A t \in bygone : server[t] \in Reported => t \in told
  <2> SUFFICES ASSUME ~ ready, ok
               PROVE  polls[p].baseline /\ \A t \in bygone : server[t] \in Reported => t \in told
    OBVIOUS
  <2>1. polls[p].baseline
    BY <1>3, <1>b DEF BaselineFirst
  <2>2. \A t \in bygone : t \in Tasks
    BY <1>b DEF Ended
  <2> QED
    BY <1>b, <2>1, <2>2 DEF BaselineFirst
<1> HIDE DEF told, ok
\* What each branch does to the table and the toasts
<1>4. /\ Good(rows', server) /\ Keeps(rows, rows')
      /\ remembered' \in SUBSET Tasks /\ remembered \subseteq remembered'
      /\ ok /\ ~ ready => told \subseteq remembered'
      /\ toasts' \in [Tasks -> Nat]
      /\ \A t \in Tasks : toasts'[t] <= 1
           /\ (toasts'[t] > 0 => t \in remembered' /\ t \notin bygone)
  <2>1. CASE ok /\ ~ stream /\ ~ polls[p].baseline /\ Notify(told, polls[p].ended, table)
    <3>1. \A t \in told : t \in remembered \/ t \notin bygone
      BY <1>t, <1>s, <1>b, <2>1 DEF BaselineFirst
    <3>2. /\ Good(rows', server) /\ Retains(table, rows')
          /\ remembered' \in SUBSET Tasks /\ remembered \subseteq remembered'
          /\ told \subseteq remembered'
          /\ toasts' \in [Tasks -> Nat]
          /\ \A t \in Tasks : toasts'[t] <= 1
               /\ (toasts'[t] > 0 => t \in remembered' /\ t \notin bygone)
      BY <1>2, <1>t, <2>1, <3>1, NotifyIsGood
    <3> QED
      BY <1>2, <3>2, RetainsTwice
  <2>2. CASE /\ ~ (ok /\ ~ stream /\ ~ polls[p].baseline)
             /\ remembered' = IF ok /\ polls[p].baseline THEN remembered \cup told
                              ELSE remembered
             /\ rows' = table /\ UNCHANGED toasts
    <3>1. remembered' \in SUBSET Tasks /\ remembered \subseteq remembered'
          /\ (ok /\ ~ ready => told \subseteq remembered')
      BY <1>b, <1>t, <1>s, <2>2
    <3>2. toasts' \in [Tasks -> Nat]
          /\ \A t \in Tasks : toasts'[t] <= 1
               /\ (toasts'[t] > 0 => t \in remembered' /\ t \notin bygone)
      BY <1>b, <2>2, <3>1 DEF ToastsRemembered
    <3> QED
      BY <1>2, <2>2, <3>1, <3>2 DEF Retains, Keeps
  <2> QED
    BY <1>3, <2>1, <2>2
<1>5. TypeOK'
  <2>1. covered' \in SUBSET Tasks /\ ready' \in BOOLEAN
    BY <1>3, <1>p, <1>b DEF Inv, TypeOK, ok
  <2> QED
    BY <1>3, <1>q, <1>4, <2>1 DEF Inv, Good, TypeOK, PollType, streamVars, queryVars, pageVars
<1>6. News'
  <2>1. PollsTrue'
    BY <1>3, <1>q, <1>p DEF Inv, News, PollsTrue
  <2> QED
    BY <1>3, <2>1 DEF Inv, News, ListingTrue, QueriesTrue, CancelsTrue, EventsTrue, streamVars,
                      queryVars, pageVars
<1>7. bygone' = bygone /\ server' = server /\ aged' = aged
  BY <1>3 DEF pageVars
<1>8. BaselineFirst'
  <2>1. CASE ready'
    <3>1. \A t \in bygone : server[t] \in Reported => t \in remembered'
      BY <1>3, <1>b, <1>s, <1>4, <2>1 DEF BaselineFirst
    <3> QED
      BY <1>7, <2>1, <3>1 DEF BaselineFirst
  <2>2. CASE ~ ready'
    <3>1. ~ ready /\ ~ ok
      BY <1>3, <2>2
    <3>2. aged' = {} /\ covered' = {}
      BY <1>3, <1>b, <1>7, <3>1 DEF BaselineFirst
    <3>3. ASSUME NEW q \in PollSlots
          PROVE  /\ polls'[q].busy => polls'[q].baseline
                 /\ polls'[q].report = "ok" => \A t \in bygone :
                      server[t] \in Reported => polls'[q].ended[t] # "none"
      BY <1>b, <1>p, <1>q, <3>1, <3>3 DEF BaselineFirst
    <3> QED
      BY <1>7, <2>2, <3>2, <3>3 DEF BaselineFirst
  <2> QED
    BY <2>1, <2>2
<1>9. Toasts'
  BY <1>4, <1>7, <1>8, <1>b DEF Toasts, Ended, ToastsRemembered
<1> QED
  BY <1>4, <1>5, <1>6, <1>7, <1>9 DEF Inv, Onward


-----------------------------------------------------------------------------
(* A page opens, for the first time or again. *)

\* Nothing is on its way to a new page, and it remembers nothing.
LEMMA NewPage ==
  /\ [p \in PollSlots |-> Idle] \in [PollSlots -> PollType]
  /\ Nothing \in [Tasks -> {"none"} \cup Reported]
  /\ Nothing \in [Tasks -> Answers]
  /\ [t \in Tasks |-> 0] \in [Tasks -> Nat]
  /\ <<>> \in Seq(EventType)
  /\ \A table : AskedFor(table) \in SUBSET Tasks
  /\ Ended \in SUBSET Tasks
<1>1. [p \in PollSlots |-> Idle] \in [PollSlots -> PollType]
  BY PollValues
<1>2. \A table : AskedFor(table) \in SUBSET Tasks
  BY DEF AskedFor
<1> QED
  BY <1>1, <1>2 DEF Nothing, Ended, Answers

LEMMA ReloadStep ==
  ASSUME Inv, Reload
  PROVE  Inv' /\ Keeps(rows, rows') /\ Onward
<1>1. PICK expired \in SUBSET Ids : rows' = Rehydrated(rows, expired)
  BY DEF Reload
<1>2. Good(rows', server) /\ Keeps(rows, rows')
  BY <1>1, RehydratedIsGood DEF Inv
<1>3. /\ asked' = AskedFor(rows') /\ polls' = [p \in PollSlots |-> Idle]
      /\ covered' = {} /\ aged' = {} /\ ready' = FALSE /\ stream' = FALSE
      /\ events' = <<>> /\ remembered' = {} /\ toasts' = [t \in Tasks |-> 0]
      /\ bygone' = Ended /\ listing' = Nothing /\ watched' = {}
      /\ query' = Nothing /\ cancelling' = {} /\ server' = server
  BY DEF Reload
<1>4. TypeOK'
  <2>1. /\ polls' \in [PollSlots -> PollType] /\ asked' \in SUBSET Tasks
        /\ listing' \in [Tasks -> {"none"} \cup Reported]
        /\ query' \in [Tasks -> Answers]
        /\ toasts' \in [Tasks -> Nat] /\ events' \in Seq(EventType)
        /\ bygone' \in SUBSET Tasks
    BY <1>3, NewPage
  <2>2. /\ server' \in [Tasks -> ServerStatuses] /\ rows' \in [Ids -> Statuses]
        /\ covered' \in SUBSET Tasks /\ aged' \in SUBSET Tasks
        /\ stream' \in BOOLEAN /\ ready' \in BOOLEAN
        /\ remembered' \in SUBSET Tasks /\ watched' \in SUBSET Tasks
        /\ cancelling' \in SUBSET Tasks
    BY <1>2, <1>3, Carried DEF Good
  <2> QED
    BY <2>1, <2>2 DEF TypeOK, ServerStatuses, PollType, EventType
<1>5. \A p \in PollSlots : /\ polls'[p].busy = FALSE /\ polls'[p].report = "wait"
                           /\ polls'[p].ended = Nothing
  BY <1>3, PollValues
<1>6. News'
  BY <1>3, <1>5, StatusFacts, PollValues
     DEF News, PollsTrue, ListingTrue, QueriesTrue, CancelsTrue, EventsTrue
<1>7. Toasts'
  BY <1>3, <1>5 DEF Toasts, Ended, ToastsRemembered, BaselineFirst
<1> QED
  BY <1>2, <1>3, <1>4, <1>6, <1>7 DEF Inv, Onward

\* What an earlier page left: rows at work, or of lost tasks.
LEMMA InitInv ==
  ASSUME Init
  PROVE  Inv
<1>1. PICK stored \in [Ids -> {"absent", "open", "lost"}] :
        /\ rows = Rehydrated(stored, {})
        /\ server = [t \in Tasks |->
             IF stored[t] = "absent" /\ Linked(stored, t) = {} THEN "none" ELSE "queued"]
  BY DEF Init
<1> DEFINE revived(id) == IF stored[id] = "lost" THEN "open" ELSE stored[id]
           linked(id) == id \in Locals \/ Linked(stored, id) # {}
           restored == [id \in Ids |->
             CASE revived(id) = "open" /\ id \in {} /\ ~ linked(id) -> "failed"
               [] revived(id) \in Outcomes /\ id \in {} -> "absent"
               [] OTHER -> revived(id)]
<1>2. rows = Collapsed(restored)
  BY <1>1 DEF Rehydrated
<1>3. ASSUME NEW id \in Ids PROVE restored[id] \in {"absent", "open"}
  BY <1>1, <1>3
<1>4. restored \in [Ids -> Statuses]
  BY <1>3, StatusFacts
<1> HIDE DEF restored
<1>5. Truthful(restored, server)
  BY <1>3 DEF Truthful, Final
<1>6. Good(rows, server)
  BY <1>2, <1>4, <1>5, CollapsedIsGood
<1>7. /\ asked = AskedFor(rows) /\ polls = [p \in PollSlots |-> Idle]
      /\ covered = {} /\ aged = {} /\ ready = FALSE /\ stream = FALSE
      /\ events = <<>> /\ remembered = {} /\ toasts = [t \in Tasks |-> 0]
      /\ bygone = {} /\ listing = Nothing /\ watched = {}
      /\ query = Nothing /\ cancelling = {}
  BY DEF Init
<1>8. TypeOK
  <2>1. server \in [Tasks -> ServerStatuses]
    BY <1>1 DEF ServerStatuses, Live
  <2>2. /\ polls \in [PollSlots -> PollType] /\ asked \in SUBSET Tasks
        /\ listing \in [Tasks -> {"none"} \cup Reported]
        /\ query \in [Tasks -> Answers]
        /\ toasts \in [Tasks -> Nat] /\ events \in Seq(EventType)
    BY <1>7, NewPage
  <2> QED
    BY <1>6, <1>7, <2>1, <2>2, PollTypes DEF Good
<1>9. \A p \in PollSlots : /\ polls[p].busy = FALSE /\ polls[p].report = "wait"
                           /\ polls[p].ended = Nothing
  BY <1>7, PollValues
<1>10. News
  BY <1>7, <1>9, StatusFacts, PollValues
     DEF News, PollsTrue, ListingTrue, QueriesTrue, CancelsTrue, EventsTrue
<1>11. Toasts
  BY <1>7, <1>9 DEF Toasts, Ended, ToastsRemembered, BaselineFirst
<1> QED
  BY <1>6, <1>8, <1>10, <1>11 DEF Inv

-----------------------------------------------------------------------------
(* Every step. *)

LEMMA InvStep ==
  ASSUME Inv, [Next]_vars
  PROVE  Inv' /\ Keeps(rows, rows') /\ Onward
<1>1. ASSUME NEW t \in Tasks, ServerSteps(t)
      PROVE  Inv' /\ Keeps(rows, rows') /\ Onward
  BY <1>1, ServerStep
<1>2. ASSUME NEW t \in Tasks, PageSteps(t)
      PROVE  Inv' /\ Keeps(rows, rows') /\ Onward
  BY <1>2, ServerStep, RowStep, AgesStep DEF PageSteps
<1>3. ASSUME NEW t \in Tasks, QuerySteps(t)
      PROVE  Inv' /\ Keeps(rows, rows') /\ Onward
  BY <1>3, QueryStep
<1>4. ASSUME NEW p \in PollSlots, PollSteps(p)
      PROVE  Inv' /\ Keeps(rows, rows') /\ Onward
  BY <1>4, PollAsks, PollEndsStep DEF PollSteps
<1>5. CASE StreamOpens \/ StreamBreaks \/ StreamDelivers
  BY <1>5, StreamStep, DeliversStep
<1>6. CASE ListAnswered \/ ListEnds
  BY <1>6, ListStep
<1>7. CASE Reload
  BY <1>7, ReloadStep
<1>8. CASE UNCHANGED vars
  <2>1. server' = server /\ rows' = rows
    BY <1>8 DEF vars
  <2>2. TypeOK'
    BY <1>8 DEF Inv, TypeOK, vars
  <2>3. News'
    BY <1>8 DEF Inv, News, PollsTrue, ListingTrue, QueriesTrue, CancelsTrue, EventsTrue, vars
  <2>4. Toasts'
    BY <1>8 DEF Inv, Toasts, Ended, ToastsRemembered, BaselineFirst, vars
  <2> QED
    BY <2>1, <2>2, <2>3, <2>4 DEF Inv, Keeps, Onward
<1> QED
  BY <1>1, <1>2, <1>3, <1>4, <1>5, <1>6, <1>7, <1>8 DEF Next

\* No step moves both the server and the table: news travel.
LEMMA NewsTravel ==
  ASSUME [Next]_vars
  PROVE  rows' = rows \/ server' = server
<1>1. ASSUME NEW t \in Tasks, ServerSteps(t) \/ PageSteps(t) \/ QuerySteps(t)
      PROVE  rows' = rows \/ server' = server
  BY <1>1 DEF ServerSteps, Submit, Work, CancelElsewhere, Finish, PageSteps, CancelAnswered,
       CancelEnds, RemoveRow, Ages, QuerySteps, Watch, Unwatch, QueryAnswered, QueryEnds,
       RecoveryFails
<1>2. ASSUME NEW p \in PollSlots, PollSteps(p)
      PROVE  server' = server
  BY <1>2, Zenon DEF PollSteps, PollStarts, ActiveAnswered, ReportAnswered, PollEnds
<1>3. CASE StreamOpens \/ StreamBreaks \/ StreamDelivers \/ ListAnswered \/ ListEnds \/ Reload
  BY <1>3, Zenon DEF StreamOpens, StreamBreaks, StreamDelivers, ListAnswered, ListEnds, Reload
<1>4. CASE UNCHANGED vars
  BY <1>4 DEF vars
<1> QED
  BY <1>1, <1>2, <1>3, <1>4 DEF Next

-----------------------------------------------------------------------------
(* The theorems. *)

\* What is on its way to the page is true, the table says nothing that is not,
\* and what was told is remembered, whatever is lost, late or repeated
\* (taskRegistry.ts, globalTaskManager.ts, TaskContext.tsx).
THEOREM BrowserInvariant == Spec => []Inv
<1>1. Init => Inv
  BY InitInv
<1>2. Inv /\ [Next]_vars => Inv'
  BY InvStep
<1> QED
  BY <1>1, <1>2, PTL DEF Spec

\* Every variable keeps its type: above all, a row never takes a status that
\* taskRegistry.ts has no word for.
THEOREM BrowserTypeCorrect == Spec => []TypeOK
<1>1. Inv => TypeOK
  BY DEF Inv
<1> QED
  BY <1>1, BrowserInvariant, PTL

\* A task has one row, for any number of earlier rows that link to tasks
\* (taskRegistry.ts, collapseBackendDuplicate).
THEOREM BrowserOneRowPerTask == Spec => []OneRowPerTask
<1>1. Inv => OneRowPerTask
  BY DEF Inv, Good, Alone, OneRowPerTask
<1> QED
  BY <1>1, BrowserInvariant, PTL

\* The user is told at most once of the end of a task, and never of one that
\* ended before the page opened, for any number of polls that overlap
\* (globalTaskManager.ts, the baseline poll).
THEOREM BrowserToldOnce == Spec => []ToldOnce
<1>1. Inv => ToldOnce
  <2> SUFFICES ASSUME Inv, NEW t \in Tasks
               PROVE  toasts[t] <= 1 /\ (t \in bygone => toasts[t] = 0)
    BY DEF ToldOnce
  <2>1. toasts[t] \in Nat
    BY PollTypes DEF Inv
  <2>2. toasts[t] <= 1 /\ (toasts[t] > 0 => t \notin bygone)
    BY DEF Inv, Toasts, ToastsRemembered
  <2> QED
    BY <2>1, <2>2
<1> QED
  BY <1>1, BrowserInvariant, PTL

\* What is shown of a task is what its row says.
LEMMA ShownFacts ==
  ASSUME NEW t \in Tasks, rows \in [Ids -> Statuses]
  PROVE  /\ rows[Get(rows, t)] \in Statuses
         /\ Shown[t] = IF rows[Get(rows, t)] = "lost" THEN "failed" ELSE rows[Get(rows, t)]
BY GetFacts DEF Shown

\* The registry implements the promise to the user of TaskView: nothing is shown
\* completed or cancelled that the server does not say is, and what is shown so
\* stays so until its row goes (taskRegistry.ts: completed/cancelled work must
\* never be resurrected).
THEOREM BrowserViewImplemented == Spec => ViewImplemented
<1>1. Init => View!ViewInit
  <2> SUFFICES ASSUME Init, NEW t \in Tasks, Shown[t] \in {"completed", "cancelled"}
               PROVE  Shown[t] = server[t]
    BY DEF View!ViewInit
  <2>1. Good(rows, server)
    BY InitInv DEF Inv
  <2>2. rows[Get(rows, t)] = Shown[t]
    BY <2>1, ShownFacts DEF Good
  <2> QED
    BY <2>1, <2>2, GetFacts DEF Good, Truthful, Final
<1>2. Inv /\ [Next]_vars => [View!ViewNext]_<<server, Shown>>
  <2> SUFFICES ASSUME Inv, [Next]_vars, NEW t \in Tasks
               PROVE  View!MayBecome(t, Shown'[t]) /\ View!Decides(t, server'[t])
    BY Zenon DEF View!ViewNext
  <2>1. Inv' /\ Keeps(rows, rows') /\ Onward
    BY InvStep
  <2>2. View!Decides(t, server'[t])
    BY <2>1 DEF View!Decides, Onward, Outcomes
  <2>3. /\ rows[Get(rows, t)] \in Statuses
        /\ Shown[t] = IF rows[Get(rows, t)] = "lost" THEN "failed" ELSE rows[Get(rows, t)]
    BY ShownFacts DEF Inv, Good
  <2>4. /\ rows'[Get(rows', t)] \in Statuses
        /\ Shown'[t] = IF rows'[Get(rows', t)] = "lost" THEN "failed" ELSE rows'[Get(rows', t)]
    BY <2>1, GetFacts DEF Inv, Good, Shown
  <2>5. rows[Get(rows, t)] \in Final => rows'[Get(rows', t)] \in {"absent", rows[Get(rows, t)]}
    BY <2>1 DEF Keeps
  <2>6. rows'[Get(rows', t)] \in Final => server'[t] = rows'[Get(rows', t)]
    BY <2>1, GetFacts DEF Inv, Good, Truthful
  <2>7. View!MayBecome(t, Shown'[t])
    <3>1. CASE rows' = rows
      BY <2>3, <2>4, <3>1 DEF View!MayBecome
    <3>2. CASE server' = server
      BY <2>3, <2>4, <2>5, <2>6, <3>2 DEF View!MayBecome, Final, Statuses, Outcomes
    <3> QED
      BY <3>1, <3>2, NewsTravel
  <2> QED
    BY <2>2, <2>7
<1> QED
  BY <1>1, <1>2, BrowserInvariant, PTL DEF Spec, ViewImplemented, View!ViewSpec
=============================================================================
