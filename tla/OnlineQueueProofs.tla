------------------------- MODULE OnlineQueueProofs -------------------------
(***************************************************************************)
(* OnlineQueue for any tasks, workers, prices and faults: a cancelled task  *)
(* was never paid for and stays cancelled; and until the first command      *)
(* fails, no task is lost, submitted again once the provider's id is known, *)
(* or left unsettled.                                                       *)
(***************************************************************************)
EXTENDS OnlineQueue, TLAPS

(***************************************************************************)
(* Types.  A worker has a task exactly while it is at work on one, and so   *)
(* has a cancellation.                                                      *)
(***************************************************************************)
Off == {"idle", "dead"}

Manned(w) ==
  IF worker[w].pc \in Off THEN worker[w].task = None ELSE worker[w].task \in Tasks

Assigned(c) ==
  \/ finisher[c] = Resting
  \/ finisher[c].pc # "idle" /\ finisher[c].task \in Tasks

TaskRecord ==
  [status : Statuses, dispatch : {"", "preparing", "submitted"}, retries : Nat,
   refund : {"", "pending", "completed"}]
TaskTypes == task \in [Tasks -> TaskRecord]
SetTypes == pending \subseteq Tasks /\ deferred \subseteq Tasks /\ cancelRefunds \subseteq Tasks
KindTypes == kind \in [Tasks -> Kinds] /\ elapsed \in [Tasks -> BOOLEAN]
MirrorTypes == mirror \in [Tasks -> (Statuses \ {"queued"}) \cup {"pending"}]
ClientTypes ==
  client \in [Tasks -> {"new", "save", "enqueue", "persist", "rollback", "accepted",
                        "rejected"}]
FinisherType ==
  [pc : {"idle", "cleanup", "mirror", "release", "mark", "forget"}, task : Tasks \cup {None}]
WorkerTypes ==
  worker \in [Workers -> WorkerType] /\ \A w \in Workers : Manned(w)
FinisherTypes ==
  finisher \in [Finishers -> FinisherType] /\ \A c \in Finishers : Assigned(c)
RuleTypes == price \in Prices /\ changes \in Nat
MoneyTypes ==
  /\ billed \in [Tasks -> Prices \cup {0}]
  /\ held \in [Tasks -> Prices \cup {0}] /\ charges \in [Tasks -> Nat]
PaidTypes == paid \in [Tasks -> Nat] /\ known \in [Tasks -> Nat]
FaultTypes == faults \in Nat

Types ==
  /\ TaskTypes /\ SetTypes /\ KindTypes /\ MirrorTypes /\ ClientTypes /\ WorkerTypes
  /\ FinisherTypes /\ RuleTypes /\ MoneyTypes /\ PaidTypes /\ FaultTypes

LEMMA TypesAreTypeOK == Types => TypeOK
BY DEF Types, TypeOK, TaskTypes, TaskRecord, SetTypes, KindTypes, MirrorTypes, ClientTypes, WorkerTypes,
       FinisherTypes, FinisherType, RuleTypes, MoneyTypes, PaidTypes, FaultTypes

\* What a step leaves alone keeps its type.
LEMMA TypesStay ==
  ASSUME Types
  PROVE  /\ UNCHANGED task => TaskTypes'
         /\ UNCHANGED <<pending, deferred, cancelRefunds>> => SetTypes'
         /\ UNCHANGED <<kind, elapsed>> => KindTypes'
         /\ UNCHANGED mirror => MirrorTypes'
         /\ UNCHANGED client => ClientTypes'
         /\ UNCHANGED worker => WorkerTypes'
         /\ UNCHANGED finisher => FinisherTypes'
         /\ UNCHANGED <<price, changes>> => RuleTypes'
         /\ UNCHANGED <<billed, held, charges>> => MoneyTypes'
         /\ UNCHANGED <<paid, known>> => PaidTypes'
         /\ UNCHANGED faults => FaultTypes'
BY DEF Types, TaskTypes, SetTypes, KindTypes, MirrorTypes, ClientTypes, WorkerTypes, Manned,
       FinisherTypes, Assigned, RuleTypes, MoneyTypes, PaidTypes, FaultTypes

LEMMA FaultStays == ASSUME Types, NEW o, Fault(o) PROVE FaultTypes'
BY DEF Types, FaultTypes, Fault

-----------------------------------------------------------------------------
(***************************************************************************)
(* The record, the row and the ledger.                                      *)
(***************************************************************************)
\* A step that writes one record.
LEMMA RecordWritten ==
  ASSUME Types, NEW t \in Tasks, NEW r \in TaskRecord, task' = [task EXCEPT ![t] = r]
  PROVE  TaskTypes' /\ task'[t] = r /\ \A i \in Tasks : i # t => task'[i] = task[i]
BY DEF Types, TaskTypes

LEMMA SavedFacts ==
  ASSUME Types, NEW t \in Tasks, NEW s \in Statuses, NEW n \in Nat, task' = Saved(t, s, n)
  PROVE  /\ TaskTypes'
         /\ \A i \in Tasks : i # t => task'[i] = task[i]
         /\ task'[t].dispatch = task[t].dispatch /\ task'[t].refund = task[t].refund
         /\ task'[t].status = IF task[t].status = "cancelled" THEN "cancelled" ELSE s
<1>1. CASE task[t].status = "cancelled"
  BY <1>1, TypesStay DEF Saved
<1>2. CASE task[t].status # "cancelled"
  <2> DEFINE r == [task[t] EXCEPT !.status = s, !.retries = n]
  <2>1. task[t] \in TaskRecord
    BY DEF Types, TaskTypes
  <2>2. r \in TaskRecord /\ r.dispatch = task[t].dispatch /\ r.refund = task[t].refund
        /\ r.status = s
    BY <2>1 DEF TaskRecord
  <2>3. task' = [task EXCEPT ![t] = r]
    BY <1>2 DEF Saved, Types, TaskTypes
  <2>4. QED
    BY <1>2, <2>2, <2>3, RecordWritten
<1>3. QED
  BY <1>1, <1>2

LEMMA MirroredFacts ==
  ASSUME Types, NEW t \in Tasks, NEW s \in {"completed", "failed", "cancelled"},
         mirror' = Mirrored(t, s)
  PROVE  /\ MirrorTypes'
         /\ \A i \in Tasks : i # t => mirror'[i] = mirror[i]
         /\ mirror'[t] = IF mirror[t] \in {"none", "cancelled"} THEN mirror[t] ELSE s
BY DEF Types, MirrorTypes, Mirrored, Statuses

LEMMA ReleasedFacts ==
  ASSUME Types, NEW t \in Tasks, Released(t) \/ UNCHANGED ledger, UNCHANGED billed
  PROVE  /\ MoneyTypes'
         /\ charges' = charges
         /\ \A i \in Tasks : i # t => held'[i] = held[i]
         /\ held'[t] \in {held[t], 0}
         /\ Released(t) => (held'[t] = IF billed[t] > 0 /\ held[t] > 0 THEN 0 ELSE held[t])
BY DEF Types, MoneyTypes, Released, ledger, Ledger!Release

-----------------------------------------------------------------------------
(***************************************************************************)
(* Control of a worker.                                                     *)
(***************************************************************************)
LEMMA WorkerIs ==
  ASSUME Types, NEW w \in Workers
  PROVE  worker[w] \in WorkerType /\ Manned(w)
BY DEF Types, WorkerTypes

LEMMA IdleType == Idle \in WorkerType /\ Idle.pc = "idle" /\ Idle.task = None
BY DEF Idle, WorkerType, Statuses

LEMMA RaisedFacts ==
  ASSUME NEW k \in WorkerType
  PROVE  /\ Raised(k) \in WorkerType
         /\ \/ Raised(k).pc = "dead" /\ Raised(k).task = None
            \/ Raised(k).pc = "fail" /\ Raised(k).task = k.task
<1>1. CASE k.depth = 3
  <2>1. Raised(k) = [pc |-> "dead", task |-> None, retries |-> 0, status |-> "none",
                     quote |-> 0, accepted |-> FALSE, retry |-> FALSE, depth |-> 0]
    BY <1>1 DEF Raised, Idle
  <2>2. QED
    BY <2>1 DEF WorkerType, Statuses
<1>2. CASE k.depth # 3
  <2>1. k.depth + 1 \in 0..3
    BY <1>2 DEF WorkerType
  <2>2. ((k.depth = 2) \/ ~ Accepted(k)) \in BOOLEAN
    OBVIOUS
  <2>3. QED
    BY <1>2, <2>1, <2>2 DEF Raised, WorkerType
<1>3. QED
  BY <1>1, <1>2

\* Worker w turns to k, and no other worker moves.
Turns(w, k) ==
  /\ worker'[w] = k
  /\ \A v \in Workers : v # w => worker'[v] = worker[v]

Moves(w, pc) == Turns(w, [worker[w] EXCEPT !.pc = pc])

LEMMA TurnsTypes ==
  ASSUME Types, NEW w \in Workers, NEW k \in WorkerType, worker' = [worker EXCEPT ![w] = k],
         IF k.pc \in Off THEN k.task = None ELSE k.task \in Tasks
  PROVE  WorkerTypes' /\ Turns(w, k)
BY DEF Types, WorkerTypes, Turns, Manned

LEMMA GotoFacts ==
  ASSUME Types, NEW w \in Workers, NEW pc, Goto(w, pc), worker[w].pc \notin Off, pc \notin Off,
         [worker[w] EXCEPT !.pc = pc] \in WorkerType
  PROVE  WorkerTypes' /\ Moves(w, pc)
<1>1. worker[w] \in WorkerType /\ worker[w].task \in Tasks
  BY WorkerIs DEF Manned
<1> DEFINE k == [worker[w] EXCEPT !.pc = pc]
<1>2. k.pc = pc /\ k.task = worker[w].task
  BY <1>1 DEF WorkerType
<1>3. worker' = [worker EXCEPT ![w] = k]
  BY DEF Goto, Types, WorkerTypes
<1>4. WorkerTypes' /\ Turns(w, k)
  BY <1>1, <1>2, <1>3, TurnsTypes
<1>5. QED
  BY <1>4 DEF Moves

LEMMA MovesFacts ==
  ASSUME Types, NEW w \in Workers, NEW pc, Moves(w, pc)
  PROVE  /\ worker'[w].pc = pc /\ worker'[w].task = worker[w].task
         /\ worker'[w].status = worker[w].status /\ worker'[w].quote = worker[w].quote
         /\ worker'[w].accepted = worker[w].accepted /\ worker'[w].retry = worker[w].retry
         /\ \A v \in Workers : v # w => worker'[v] = worker[v]
BY WorkerIs DEF Moves, Turns, WorkerType

LEMMA FinishFacts ==
  ASSUME Types, NEW w \in Workers, Finish(w)
  PROVE  WorkerTypes' /\ Turns(w, Idle)
BY IdleType, TurnsTypes DEF Finish, Off

Positions ==
  {"idle", "dead", "claim", "begin", "start", "call", "poll", "progress", "complete", "quote",
   "freeze", "confirm", "save_completed", "index_completed", "publish", "fail", "save_queued",
   "requeue", "save_failed", "unqueue", "release", "persist_failed"}

LEMMA MovedType ==
  ASSUME NEW k \in WorkerType, NEW pc \in Positions
  PROVE  /\ [k EXCEPT !.pc = pc] \in WorkerType
         /\ [k EXCEPT !.pc = pc].pc = pc /\ [k EXCEPT !.pc = pc].task = k.task
BY DEF WorkerType, Positions

LEMMA GoesTo ==
  ASSUME Types, NEW w \in Workers, NEW pc \in Positions, Goto(w, pc),
         worker[w].pc \notin Off, pc \notin Off
  PROVE  WorkerTypes' /\ Moves(w, pc)
BY WorkerIs, MovedType, GotoFacts

LEMMA ProceedFacts ==
  ASSUME Types, NEW w \in Workers, NEW o, NEW pc \in Positions, Proceed(w, o, pc),
         worker[w].pc \notin Off, pc # "dead"
  PROVE  /\ WorkerTypes' /\ FaultTypes'
         /\ \/ o # "ok" /\ Turns(w, Raised(worker[w]))
            \/ o = "ok" /\ pc = "idle" /\ Turns(w, Idle)
            \/ o = "ok" /\ pc # "idle" /\ Moves(w, pc)
<1>1. worker[w] \in WorkerType /\ worker[w].task \in Tasks
  BY WorkerIs DEF Manned
<1>2. FaultTypes'
  BY FaultStays DEF Proceed
<1>3. CASE o # "ok"
  <2>1. worker' = [worker EXCEPT ![w] = Raised(worker[w])]
    BY <1>3 DEF Proceed, Types, WorkerTypes
  <2>2. QED
    BY <1>1, <1>2, <1>3, <2>1, RaisedFacts, TurnsTypes DEF Off
<1>4. CASE o = "ok" /\ pc = "idle"
  <2>1. worker' = [worker EXCEPT ![w] = Idle]
    BY <1>4 DEF Proceed, Types, WorkerTypes
  <2>2. QED
    BY <1>2, <1>4, <2>1, FinishFacts DEF Finish
<1>5. CASE o = "ok" /\ pc # "idle"
  <2>1. worker' = [worker EXCEPT ![w].pc = pc]
    BY <1>5 DEF Proceed, Types, WorkerTypes
  <2>2. QED
    BY <1>2, <1>5, <2>1, GoesTo DEF Goto, Off
<1>6. QED
  BY <1>3, <1>4, <1>5

\* A worker at a position other than idle and dead is at work on a task.
LEMMA AtWork ==
  ASSUME Types, NEW w \in Workers, worker[w].pc \notin Off
  PROVE  /\ worker[w].task \in Tasks /\ task[worker[w].task] \in TaskRecord
         /\ worker[w] \in WorkerType
BY WorkerIs DEF Types, TaskTypes, Manned

-----------------------------------------------------------------------------
(***************************************************************************)
(* The steps of a worker, with their types.                                 *)
(***************************************************************************)
LEMMA ClaimingType ==
  ASSUME NEW t \in Tasks
  PROVE  LET k == [Idle EXCEPT !.pc = "claim", !.task = t] IN
         k \in WorkerType /\ k.pc = "claim" /\ k.task = t
<1>1. Idle \in WorkerType
  BY IdleType
<1>2. QED
  BY <1>1 DEF WorkerType

\* A worker at the queue and at the two scripts.
LEMMA DequeueFacts ==
  ASSUME Types, NEW w \in Workers, Dequeue(w)
  PROVE  /\ Types'
         /\ \E t \in Promoted : /\ pending' = Promoted \ {t}
                                /\ Turns(w, [Idle EXCEPT !.pc = "claim", !.task = t])
<1>1. Promoted \subseteq Tasks
  BY DEF Promoted, Ripe, Types, SetTypes
<1>2. PICK t \in Promoted : /\ pending' = Promoted \ {t}
                            /\ worker' = [worker EXCEPT ![w] = [Idle EXCEPT !.pc = "claim", !.task = t]]
  BY DEF Dequeue
<1> DEFINE k == [Idle EXCEPT !.pc = "claim", !.task = t]
<1>4. k \in WorkerType /\ k.pc = "claim" /\ k.task = t /\ t \in Tasks
  BY <1>1, ClaimingType
<1>5. WorkerTypes' /\ Turns(w, k)
  BY <1>2, <1>4, TurnsTypes DEF Off
<1>6. SetTypes'
  BY <1>1, <1>2 DEF Dequeue, Types, SetTypes
<1>7. Types'
  BY <1>5, <1>6, TypesStay DEF Dequeue, Types, ledger, rule, provider
<1>8. QED
  BY <1>2, <1>5, <1>7

LEMMA ClaimFacts ==
  ASSUME Types, NEW w \in Workers, NEW o \in Outcomes, ClaimForPreparation(w, o)
  PROVE  LET t == worker[w].task IN
         /\ Types'
         /\ t \in Tasks /\ worker[w].pc = "claim"
         /\ \A i \in Tasks : i # t => task'[i] = task[i]
         /\ \/ task' = task
            \/ /\ Claimable(t) /\ task'[t].status = "processing"
               /\ task'[t].dispatch = IF task[t].dispatch = "submitted" THEN "submitted"
                                      ELSE "preparing"
               /\ task'[t].refund = task[t].refund
         /\ \/ Turns(w, Idle) /\ (o = "ok" => ~ Claimable(t) /\ task' = task)
            \/ /\ Moves(w, "begin")
               /\ Claimable(t) /\ o = "ok" /\ task'[t].status = "processing"
<1> DEFINE t == worker[w].task
<1>1. /\ worker[w].pc = "claim" /\ worker[w].pc \notin Off /\ Fault(o)
  BY DEF ClaimForPreparation, At, Off
<1>2. t \in Tasks /\ task[t] \in TaskRecord
  BY <1>1, AtWork
<1> DEFINE r == [task[t] EXCEPT !.status = "processing",
                   !.dispatch = IF task[t].dispatch = "submitted" THEN "submitted"
                                ELSE "preparing"]
<1>3. /\ r \in TaskRecord /\ r.status = "processing" /\ r.refund = task[t].refund
      /\ r.dispatch = IF task[t].dispatch = "submitted" THEN "submitted" ELSE "preparing"
  BY <1>2 DEF TaskRecord, Statuses
<1>4. task' = task \/ (Claimable(t) /\ task' = [task EXCEPT ![t] = r])
  BY <1>2 DEF ClaimForPreparation, Types, TaskTypes
<1>5. /\ Claimable(t) /\ o = "ok" => task'[t].status = "processing"
      /\ ~ Claimable(t) => task' = task
  BY <1>2, <1>3, <1>4, RecordWritten DEF ClaimForPreparation, Types, TaskTypes, Applied
<1>6. /\ TaskTypes' /\ \A i \in Tasks : i # t => task'[i] = task[i]
      /\ task' = task \/ (Claimable(t) /\ task'[t] = r)
  BY <1>2, <1>3, <1>4, RecordWritten, TypesStay
<1>7. /\ WorkerTypes'
      /\ \/ Turns(w, Idle) /\ (Claimable(t) => o # "ok")
         \/ /\ Moves(w, "begin")
            /\ Claimable(t) /\ o = "ok"
  BY <1>1, GoesTo, FinishFacts DEF ClaimForPreparation, Positions, Off
<1>8. Types'
  BY <1>1, <1>6, <1>7, FaultStays, TypesStay
     DEF ClaimForPreparation, Types, ledger, rule, provider
<1>9. QED
  BY <1>1, <1>2, <1>3, <1>5, <1>6, <1>7, <1>8

LEMMA BeginFacts ==
  ASSUME Types, NEW w \in Workers, NEW o \in Outcomes, BeginSubmission(w, o)
  PROVE  LET t == worker[w].task IN
         /\ Types'
         /\ t \in Tasks /\ worker[w].pc = "begin"
         /\ \A i \in Tasks : i # t => task'[i] = task[i]
         /\ \/ task' = task
            \/ /\ Submittable(t)
               /\ task'[t].dispatch = "submitted" /\ task'[t].status = task[t].status
               /\ task'[t].refund = task[t].refund
         /\ \A v \in Workers : v # w => worker'[v] = worker[v]
         /\ \/ o # "ok" /\ worker'[w].pc = "fail" /\ worker'[w].task = t
            \/ o = "ok" /\ Turns(w, Idle) /\ task' = task /\ ~ Submittable(t)
            \/ /\ o = "ok" /\ Moves(w, "start")
               /\ Submittable(t) /\ task'[t].dispatch = "submitted"
<1> DEFINE t == worker[w].task
<1>1. worker[w].pc = "begin" /\ worker[w].pc \notin Off /\ Fault(o)
  BY DEF BeginSubmission, At, Off
<1>2. t \in Tasks /\ task[t] \in TaskRecord /\ worker[w] \in WorkerType
  BY <1>1, AtWork
<1> DEFINE r == [task[t] EXCEPT !.dispatch = "submitted"]
           k == [worker[w] EXCEPT !.depth = 2]
<1>3. /\ r \in TaskRecord /\ r.dispatch = "submitted" /\ r.status = task[t].status
      /\ r.refund = task[t].refund
  BY <1>2 DEF TaskRecord
<1>4. IF Submittable(t) /\ o # "unsent" THEN task' = [task EXCEPT ![t] = r] ELSE task' = task
  BY <1>2 DEF BeginSubmission, Types, TaskTypes, Applied
<1>5. /\ TaskTypes' /\ \A i \in Tasks : i # t => task'[i] = task[i]
      /\ IF Submittable(t) /\ o # "unsent" THEN task'[t] = r ELSE task' = task
  BY <1>2, <1>3, <1>4, RecordWritten, TypesStay
<1>6. /\ WorkerTypes' /\ \A v \in Workers : v # w => worker'[v] = worker[v]
      /\ \/ o # "ok" /\ worker'[w].pc = "fail" /\ worker'[w].task = t
         \/ o = "ok" /\ Turns(w, Idle) /\ ~ Submittable(t)
         \/ o = "ok" /\ Moves(w, "start") /\ Submittable(t)
  <2>1. CASE o # "ok"
    <3>1. k \in WorkerType /\ k.depth = 2 /\ k.task = t
      BY <1>2 DEF WorkerType
    <3>2. worker' = [worker EXCEPT ![w] = Raised(k)]
      BY <2>1 DEF BeginSubmission, Types, WorkerTypes
    <3>3. Raised(k).pc = "fail" /\ Raised(k).task = t /\ Raised(k) \in WorkerType
      <4>1. Raised(k).pc # "dead"
        BY <3>1 DEF Raised, WorkerType
      <4>2. QED
        BY <3>1, <4>1, RaisedFacts
    <3>4. QED
      BY <1>2, <2>1, <3>2, <3>3, TurnsTypes DEF Turns, Off
  <2>2. CASE o = "ok" /\ Submittable(t)
    <3>1. Goto(w, "start")
      BY <2>2 DEF BeginSubmission, Goto
    <3>2. QED
      BY <1>1, <2>2, <3>1, GoesTo, MovesFacts DEF Positions, Off
  <2>3. CASE o = "ok" /\ ~ Submittable(t)
    <3>1. Finish(w)
      BY <2>3 DEF BeginSubmission, Finish
    <3>2. QED
      BY <2>3, <3>1, FinishFacts DEF Turns
  <2>4. QED
    BY <2>1, <2>2, <2>3
<1>7. Types'
  BY <1>1, <1>5, <1>6, FaultStays, TypesStay
     DEF BeginSubmission, Types, ledger, rule, provider
<1>8. QED
  BY <1>1, <1>2, <1>3, <1>5, <1>6, <1>7

\* The handler, up to the end of the generation.
LEMMA StartFacts ==
  ASSUME Types, NEW w \in Workers, RecordTaskStart(w)
  PROVE  LET t == worker[w].task IN
         /\ Types'
         /\ t \in Tasks /\ worker[w].pc = "start"
         /\ \A i \in Tasks : i # t => mirror'[i] = mirror[i]
         /\ mirror'[t] = IF mirror[t] = "cancelled" THEN "cancelled" ELSE "processing"
         /\ Moves(w, "call")
<1> DEFINE t == worker[w].task
<1>1. worker[w].pc = "start" /\ worker[w].pc \notin Off
  BY DEF RecordTaskStart, At, Off
<1>2. t \in Tasks
  BY <1>1, AtWork
<1>3. WorkerTypes' /\ Moves(w, "call")
  BY <1>1, GoesTo DEF RecordTaskStart, Positions, Off
<1>4. /\ MirrorTypes' /\ \A i \in Tasks : i # t => mirror'[i] = mirror[i]
      /\ mirror'[t] = IF mirror[t] = "cancelled" THEN "cancelled" ELSE "processing"
  BY <1>2 DEF RecordTaskStart, Types, MirrorTypes, Statuses
<1>5. Types'
  BY <1>3, <1>4, TypesStay DEF RecordTaskStart, Types, redis, ledger, rule, provider
<1>6. QED
  BY <1>1, <1>2, <1>3, <1>4, <1>5

LEMMA CallFacts ==
  ASSUME Types, NEW w \in Workers, NEW o \in Outcomes, CallProvider(w, o)
  PROVE  LET t == worker[w].task IN
         /\ Types'
         /\ t \in Tasks /\ worker[w].pc = "call"
         /\ \A i \in Tasks : i # t => paid'[i] = paid[i] /\ known'[i] = known[i]
         /\ \A v \in Workers : v # w => worker'[v] = worker[v]
         /\ \/ o # "ok" /\ Turns(w, Raised(worker[w])) /\ known' = known
            \/ /\ o = "ok" /\ worker'[w].pc = "poll" /\ worker'[w].task = t
               /\ worker'[w].accepted = TRUE
<1> DEFINE t == worker[w].task
<1>1. worker[w].pc = "call" /\ worker[w].pc \notin Off /\ Fault(o)
  BY DEF CallProvider, At, Off
<1>2. t \in Tasks /\ worker[w] \in WorkerType
  BY <1>1, AtWork
<1> DEFINE k == [worker[w] EXCEPT !.pc = "poll", !.accepted = TRUE]
<1>3. k \in WorkerType /\ k.pc = "poll" /\ k.task = t /\ k.accepted = TRUE
  BY <1>2 DEF WorkerType
<1>4. /\ WorkerTypes'
      /\ \/ o # "ok" /\ Turns(w, Raised(worker[w]))
         \/ o = "ok" /\ Turns(w, k)
  <2>1. CASE o # "ok"
    <3>1. worker' = [worker EXCEPT ![w] = Raised(worker[w])]
      BY <2>1 DEF CallProvider, Types, WorkerTypes
    <3>2. QED
      BY <1>2, <2>1, <3>1, RaisedFacts, TurnsTypes DEF Off
  <2>2. CASE o = "ok"
    <3>1. worker' = [worker EXCEPT ![w] = k]
      BY <2>2 DEF CallProvider, Types, WorkerTypes
    <3>2. QED
      BY <1>2, <1>3, <2>2, <3>1, TurnsTypes DEF Off
  <2>3. QED
    BY <2>1, <2>2
<1>5. /\ PaidTypes' /\ \A i \in Tasks : i # t => paid'[i] = paid[i] /\ known'[i] = known[i]
      /\ o # "ok" => known' = known
  BY <1>2 DEF CallProvider, Types, PaidTypes
<1>6. Types'
  BY <1>1, <1>4, <1>5, FaultStays, TypesStay
     DEF CallProvider, Types, redis, ledger, rule
<1>7. QED
  BY <1>1, <1>2, <1>3, <1>4, <1>5, <1>6 DEF Turns

\* What a worker changes when only it moves.
Others ==
  <<kind, redis, elapsed, mirror, client, finisher, rule, billed, ledger, provider>>

LEMMA AloneTypes ==
  ASSUME Types, UNCHANGED Others, WorkerTypes', FaultTypes'
  PROVE  Types'
BY TypesStay DEF Types, Others, redis, rule, ledger, provider

LEMMA FailsFacts ==
  ASSUME Types, NEW w \in Workers, worker[w].pc \notin Off, NEW retry \in BOOLEAN,
         worker' = [worker EXCEPT ![w].pc = "fail", ![w].retry = retry, ![w].depth = 1]
  PROVE  /\ WorkerTypes'
         /\ worker'[w].pc = "fail" /\ worker'[w].retry = retry
         /\ worker'[w].task = worker[w].task /\ worker'[w].accepted = worker[w].accepted
         /\ \A v \in Workers : v # w => worker'[v] = worker[v]
<1> DEFINE k == [worker[w] EXCEPT !.pc = "fail", !.retry = retry, !.depth = 1]
<1>1. worker[w].task \in Tasks /\ worker[w] \in WorkerType
  BY AtWork
<1>2. /\ k \in WorkerType /\ k.pc = "fail" /\ k.task = worker[w].task /\ k.retry = retry
      /\ k.accepted = worker[w].accepted
  <2>1. 1 \in 0..3
    OBVIOUS
  <2>2. QED
    BY <1>1, <2>1 DEF WorkerType
<1>3. worker' = [worker EXCEPT ![w] = k]
  BY DEF Types, WorkerTypes
<1>4. WorkerTypes' /\ Turns(w, k)
  BY <1>1, <1>2, <1>3, TurnsTypes DEF Off
<1>5. QED
  BY <1>2, <1>4 DEF Turns

LEMMA GenerationFacts ==
  ASSUME Types, NEW w \in Workers, ProviderFails(w) \/ ProviderSucceeds(w)
  PROVE  /\ Types' /\ UNCHANGED Others /\ UNCHANGED faults
         /\ worker[w].pc \in {"call", "poll"} /\ worker[w].task \in Tasks
         /\ \/ worker[w].pc = "poll" /\ Moves(w, "complete")
            \/ \E retry \in {FALSE, ~ Accepted(worker[w])} :
                 /\ worker'[w].pc = "fail" /\ worker'[w].retry = retry
                 /\ worker'[w].task = worker[w].task
                 /\ worker'[w].accepted = worker[w].accepted
                 /\ \A v \in Workers : v # w => worker'[v] = worker[v]
<1>1. worker[w].pc \in {"call", "poll"} /\ worker[w].pc \notin Off
  BY DEF ProviderFails, ProviderSucceeds, At, Off
<1>2. worker[w].task \in Tasks /\ worker[w] \in WorkerType
  BY <1>1, AtWork
<1>3. UNCHANGED Others /\ UNCHANGED faults
  BY DEF ProviderFails, ProviderSucceeds, Others
<1>4. CASE ProviderSucceeds(w)
  <2>1. WorkerTypes' /\ Moves(w, "complete") /\ worker[w].pc = "poll"
    BY <1>1, <1>4, GoesTo DEF ProviderSucceeds, At, Positions, Off
  <2>2. QED
    BY <1>1, <1>2, <1>3, <2>1, AloneTypes, TypesStay
<1>5. CASE ProviderFails(w)
  <2>1. PICK retry \in {FALSE, ~ Accepted(worker[w])} :
          worker' = [worker EXCEPT ![w].pc = "fail", ![w].retry = retry, ![w].depth = 1]
    BY <1>5 DEF ProviderFails
  <2>2. retry \in BOOLEAN
    OBVIOUS
  <2>3. /\ WorkerTypes'
        /\ worker'[w].pc = "fail" /\ worker'[w].retry = retry
        /\ worker'[w].task = worker[w].task /\ worker'[w].accepted = worker[w].accepted
        /\ \A v \in Workers : v # w => worker'[v] = worker[v]
    BY <1>1, <2>1, <2>2, FailsFacts
  <2>4. QED
    BY <1>1, <1>2, <1>3, <2>3, AloneTypes, TypesStay
<1>6. QED
  BY <1>4, <1>5

LEMMA ProgressFacts ==
  ASSUME Types, NEW w \in Workers, ReadForProgress(w) \/ SaveProgress(w)
  PROVE  LET t == worker[w].task IN
         /\ Types' /\ t \in Tasks
         /\ \A v \in Workers : v # w => worker'[v] = worker[v]
         /\ worker'[w].task = t /\ worker'[w].accepted = worker[w].accepted
         /\ \/ /\ ReadForProgress(w) /\ UNCHANGED Others /\ UNCHANGED faults
               /\ worker[w].pc = "poll" /\ worker'[w].pc = "progress"
               /\ worker'[w].status = task[t].status /\ task[t].status # "none"
            \/ /\ SaveProgress(w)
               /\ worker[w].pc = "progress" /\ worker'[w].pc = "poll"
               /\ \A i \in Tasks : i # t => task'[i] = task[i]
               /\ task'[t].dispatch = task[t].dispatch /\ task'[t].refund = task[t].refund
               /\ task'[t].status = IF task[t].status = "cancelled" THEN "cancelled"
                                    ELSE worker[w].status
<1> DEFINE t == worker[w].task
<1>1. worker[w].pc \in {"poll", "progress"} /\ worker[w].pc \notin Off
  BY DEF ReadForProgress, SaveProgress, At, Off
<1>2. t \in Tasks /\ worker[w] \in WorkerType /\ task[t] \in TaskRecord
  BY <1>1, AtWork
<1>3. CASE ReadForProgress(w)
  <2> DEFINE k == [worker[w] EXCEPT !.pc = "progress", !.status = task[t].status,
                                    !.retries = task[t].retries]
  <2>1. /\ k \in WorkerType /\ k.pc = "progress" /\ k.task = t /\ k.status = task[t].status
        /\ k.accepted = worker[w].accepted
    BY <1>2 DEF WorkerType, TaskRecord
  <2>2. worker' = [worker EXCEPT ![w] = k]
    BY <1>3 DEF ReadForProgress, Types, WorkerTypes
  <2>3. WorkerTypes' /\ Turns(w, k)
    BY <1>2, <2>1, <2>2, TurnsTypes DEF Off
  <2>4. UNCHANGED Others /\ UNCHANGED faults
    BY <1>3 DEF ReadForProgress, Others
  <2>5. QED
    BY <1>2, <1>3, <2>1, <2>3, <2>4, AloneTypes, TypesStay DEF Turns, ReadForProgress, At
<1>4. CASE SaveProgress(w)
  <2> DEFINE k == [worker[w] EXCEPT !.pc = "poll", !.status = "none", !.retries = 0]
  <2>1. k \in WorkerType /\ k.pc = "poll" /\ k.task = t /\ k.accepted = worker[w].accepted
    BY <1>2 DEF WorkerType, Statuses
  <2>2. worker' = [worker EXCEPT ![w] = k]
    BY <1>4 DEF SaveProgress, Types, WorkerTypes
  <2>3. WorkerTypes' /\ Turns(w, k)
    BY <1>2, <2>1, <2>2, TurnsTypes DEF Off
  <2>4. worker[w].status \in Statuses /\ worker[w].retries \in Nat
    BY <1>2 DEF WorkerType
  <2>5. /\ TaskTypes'
        /\ \A i \in Tasks : i # t => task'[i] = task[i]
        /\ task'[t].dispatch = task[t].dispatch /\ task'[t].refund = task[t].refund
        /\ task'[t].status = IF task[t].status = "cancelled" THEN "cancelled"
                             ELSE worker[w].status
    BY <1>2, <1>4, <2>4, SavedFacts DEF SaveProgress
  <2>6. Types'
    BY <1>4, <2>3, <2>5, TypesStay DEF SaveProgress, Types, ledger, rule, provider
  <2>7. QED
    BY <1>2, <1>4, <2>1, <2>3, <2>5, <2>6 DEF Turns, SaveProgress, At
<1>5. QED
  BY <1>3, <1>4

\* complete_task.
LEMMA CompleteFacts ==
  ASSUME Types, NEW w \in Workers, NEW o \in Outcomes, CompleteTask(w, o)
  PROVE  LET t == worker[w].task IN
         /\ Types' /\ UNCHANGED Others /\ t \in Tasks /\ worker[w].pc = "complete"
         /\ \/ Turns(w, Idle) /\ (o # "ok" \/ task[t].status \in {"none", "cancelled"})
            \/ /\ o = "ok" /\ task[t].status \notin {"none", "cancelled"}
               /\ \A v \in Workers : v # w => worker'[v] = worker[v]
               /\ worker'[w].task = t /\ worker'[w].accepted = worker[w].accepted
               /\ worker'[w].pc = IF billed[t] > 0 THEN "quote" ELSE "save_completed"
<1> DEFINE t == worker[w].task
<1>1. worker[w].pc = "complete" /\ worker[w].pc \notin Off /\ Fault(o)
  BY DEF CompleteTask, At, Off
<1>2. t \in Tasks /\ worker[w] \in WorkerType /\ task[t] \in TaskRecord
  BY <1>1, AtWork
<1>3. UNCHANGED Others
  BY DEF CompleteTask, Others
<1>4. CASE o # "ok" \/ task[t].status \in {"none", "cancelled"}
  <2>1. Finish(w)
    BY <1>4 DEF CompleteTask
  <2>2. QED
    BY <1>1, <1>2, <1>3, <1>4, <2>1, FinishFacts, AloneTypes, FaultStays
<1>5. CASE ~ (o # "ok" \/ task[t].status \in {"none", "cancelled"})
  <2> DEFINE pc == IF billed[t] > 0 THEN "quote" ELSE "save_completed"
             k == [worker[w] EXCEPT !.pc = pc, !.retries = task[t].retries]
  <2>1. task[t].retries \in Nat
    BY <1>2 DEF TaskRecord
  <2>2. k \in WorkerType /\ k.pc = pc /\ k.task = t /\ k.accepted = worker[w].accepted
    BY <1>2, <2>1 DEF WorkerType
  <2>3. worker' = [worker EXCEPT ![w] = k]
    BY <1>5 DEF CompleteTask, Types, WorkerTypes
  <2>4. pc \notin Off
    BY DEF Off
  <2>5. WorkerTypes' /\ Turns(w, k)
    <3> HIDE DEF pc
    <3>1. QED
      BY <1>2, <2>2, <2>3, <2>4, TurnsTypes
  <2>6. QED
    BY <1>1, <1>2, <1>3, <1>5, <2>2, <2>5, AloneTypes, FaultStays DEF Turns
<1>6. QED
  BY <1>4, <1>5

LEMMA QuoteFacts ==
  ASSUME Types, NEW w \in Workers, QuoteUsage(w)
  PROVE  LET t == worker[w].task IN
         /\ Types' /\ UNCHANGED Others /\ UNCHANGED faults
         /\ t \in Tasks /\ worker[w].pc = "quote"
         /\ \A v \in Workers : v # w => worker'[v] = worker[v]
         /\ worker'[w].task = t /\ worker'[w].accepted = worker[w].accepted
         /\ \/ worker'[w].pc = "save_completed" /\ (charges[t] > 0 \/ price = 0)
            \/ /\ worker'[w].pc = "freeze" /\ worker'[w].quote = price
               /\ charges[t] = 0 /\ price > 0
<1> DEFINE t == worker[w].task
<1>1. worker[w].pc = "quote" /\ worker[w].pc \notin Off
  BY DEF QuoteUsage, At, Off
<1>2. t \in Tasks /\ worker[w] \in WorkerType
  BY <1>1, AtWork
<1>3. UNCHANGED Others /\ UNCHANGED faults
  BY DEF QuoteUsage, Others
<1> DEFINE free == AlreadyCharged(t) \/ price = 0
           pc == IF free THEN "save_completed" ELSE "freeze"
           n == IF free THEN 0 ELSE price
           k == [worker[w] EXCEPT !.pc = pc, !.quote = n]
<1>4. n \in Prices \cup {0} /\ pc \in {"save_completed", "freeze"}
  BY DEF Types, RuleTypes
<1>5. /\ k \in WorkerType /\ k.pc = pc /\ k.task = t /\ k.quote = n
      /\ k.accepted = worker[w].accepted
  <2> HIDE DEF n, pc
  <2>1. QED
    BY <1>2, <1>4 DEF WorkerType
<1>6. worker' = [worker EXCEPT ![w] = k]
  BY DEF QuoteUsage, Types, WorkerTypes
<1>7. WorkerTypes' /\ Turns(w, k)
  BY <1>2, <1>4, <1>5, <1>6, TurnsTypes DEF Off
<1>8. charges[t] \in Nat /\ price \in Nat
  BY <1>2, QueueAssumption DEF Types, RuleTypes, MoneyTypes
<1>9. \/ k.pc = "save_completed" /\ (charges[t] > 0 \/ price = 0)
      \/ k.pc = "freeze" /\ k.quote = price /\ charges[t] = 0 /\ price > 0
  <2>1. CASE free
    BY <1>5, <2>1 DEF AlreadyCharged
  <2>2. CASE ~ free
    BY <1>5, <1>8, <2>2 DEF AlreadyCharged
  <2>3. QED
    BY <2>1, <2>2
<1>10. QED
  BY <1>1, <1>2, <1>3, <1>5, <1>7, <1>9, AloneTypes, TypesStay DEF Turns

LEMMA FreezeFacts ==
  ASSUME Types, NEW w \in Workers, NEW o \in Outcomes, FreezeUsage(w, o)
  PROVE  LET t == worker[w].task IN
         /\ Types' /\ t \in Tasks /\ worker[w].pc = "freeze"
         /\ \A v \in Workers : v # w => worker'[v] = worker[v]
         /\ worker'[w].task = t /\ worker'[w].accepted = worker[w].accepted
         /\ charges' = charges /\ \A i \in Tasks : i # t => held'[i] = held[i]
         /\ held'[t] = held[t] \/ (held[t] = 0 /\ held'[t] = worker[w].quote)
         /\ \/ /\ worker'[w].pc = "confirm" /\ worker'[w].quote = worker[w].quote
               /\ held'[t] = worker[w].quote /\ o = "ok"
            \/ /\ worker'[w].pc = "save_completed"
               /\ o = "ok" => held' = held /\ held[t] # worker[w].quote
<1> DEFINE t == worker[w].task
<1>1. worker[w].pc = "freeze" /\ worker[w].pc \notin Off /\ Fault(o)
  BY DEF FreezeUsage, At, Off
<1>2. t \in Tasks /\ worker[w] \in WorkerType
  BY <1>1, AtWork
<1> DEFINE n == worker[w].quote
           k(pc) == [worker[w] EXCEPT !.pc = pc, !.quote = IF pc = "confirm" THEN @ ELSE 0]
<1>3. n \in Prices \cup {0}
  BY <1>2 DEF WorkerType
<1>4. /\ worker' = [worker EXCEPT ![w] = k("confirm")]
           \/ worker' = [worker EXCEPT ![w] = k("save_completed")]
      /\ \/ /\ worker' = [worker EXCEPT ![w] = k("confirm")] /\ o = "ok"
            /\ (held[t] = 0 /\ Ledger!Freeze(t, n)) \/ (held[t] = n /\ UNCHANGED ledger)
         \/ /\ worker' = [worker EXCEPT ![w] = k("save_completed")]
            /\ \/ o # "ok" /\ held[t] = 0 /\ Ledger!Freeze(t, n)
               \/ (o = "ok" => held[t] # n) /\ UNCHANGED ledger
  BY DEF FreezeUsage, Types, WorkerTypes, Applied
<1>5. ASSUME NEW pc \in {"confirm", "save_completed"}
      PROVE  /\ k(pc) \in WorkerType /\ k(pc).pc = pc /\ k(pc).task = t
             /\ k(pc).accepted = worker[w].accepted
             /\ pc = "confirm" => k(pc).quote = n
  BY <1>2 DEF WorkerType
<1>6. /\ WorkerTypes'
      /\ Turns(w, k("confirm")) \/ Turns(w, k("save_completed"))
      /\ worker' = [worker EXCEPT ![w] = k("confirm")] => Turns(w, k("confirm"))
      /\ worker' = [worker EXCEPT ![w] = k("save_completed")] => Turns(w, k("save_completed"))
  <2> HIDE DEF k
  <2>1. QED
    BY <1>2, <1>4, <1>5, TurnsTypes DEF Off
<1>7. /\ MoneyTypes' /\ charges' = charges
      /\ \A i \in Tasks : i # t => held'[i] = held[i]
      /\ \/ held' = held
         \/ held[t] = 0 /\ held'[t] = n
      /\ Ledger!Freeze(t, n) => held'[t] = n
  BY <1>2, <1>3, <1>4 DEF FreezeUsage, Ledger!Freeze, ledger, Types, MoneyTypes
<1>8. Types'
  BY <1>1, <1>6, <1>7, FaultStays, TypesStay
     DEF FreezeUsage, Types, redis, rule, provider
<1>9. \/ Turns(w, k("confirm")) /\ held'[t] = n /\ o = "ok"
      \/ Turns(w, k("save_completed")) /\ (o = "ok" => held' = held /\ held[t] # n)
  <2> HIDE DEF k, n
  <2>1. QED
    BY <1>2, <1>4, <1>6, <1>7 DEF ledger
<1>10. QED
  <2> HIDE DEF k, n
  <2>1. n = worker[w].quote
    BY DEF n
  <2>2. QED
    BY <1>1, <1>2, <1>5, <1>7, <1>8, <1>9, <2>1 DEF Turns

LEMMA ConfirmFacts ==
  ASSUME Types, NEW w \in Workers, NEW o \in Outcomes, ConfirmUsage(w, o)
  PROVE  LET t == worker[w].task IN
         /\ Types' /\ t \in Tasks /\ worker[w].pc = "confirm"
         /\ \A v \in Workers : v # w => worker'[v] = worker[v]
         /\ worker'[w].task = t /\ worker'[w].accepted = worker[w].accepted
         /\ worker'[w].pc = "save_completed"
         /\ \A i \in Tasks : i # t => held'[i] = held[i] /\ charges'[i] = charges[i]
         /\ \/ UNCHANGED ledger /\ (o = "ok" => ~ Confirmable(t, worker[w].quote))
            \/ /\ Confirmable(t, worker[w].quote)
               /\ held'[t] = 0 /\ charges'[t] = charges[t] + 1
<1> DEFINE t == worker[w].task
<1>1. worker[w].pc = "confirm" /\ worker[w].pc \notin Off /\ Fault(o)
  BY DEF ConfirmUsage, At, Off
<1>2. t \in Tasks /\ worker[w] \in WorkerType
  BY <1>1, AtWork
<1> DEFINE k == [worker[w] EXCEPT !.pc = "save_completed", !.quote = 0]
<1>3. k \in WorkerType /\ k.pc = "save_completed" /\ k.task = t
      /\ k.accepted = worker[w].accepted
  BY <1>2 DEF WorkerType
<1>4. worker' = [worker EXCEPT ![w] = k]
  BY DEF ConfirmUsage, Types, WorkerTypes
<1>5. WorkerTypes' /\ Turns(w, k)
  BY <1>2, <1>3, <1>4, TurnsTypes DEF Off
<1>6. \/ UNCHANGED ledger /\ (o = "ok" => ~ Confirmable(t, worker[w].quote))
      \/ Confirmable(t, worker[w].quote) /\ Ledger!Confirm(t, worker[w].quote)
  BY DEF ConfirmUsage, Applied
<1>7. /\ MoneyTypes'
      /\ \A i \in Tasks : i # t => held'[i] = held[i] /\ charges'[i] = charges[i]
      /\ \/ UNCHANGED ledger /\ (o = "ok" => ~ Confirmable(t, worker[w].quote))
         \/ Confirmable(t, worker[w].quote) /\ held'[t] = 0 /\ charges'[t] = charges[t] + 1
  BY <1>2, <1>6 DEF ConfirmUsage, Ledger!Confirm, ledger, Types, MoneyTypes
<1>8. Types'
  BY <1>1, <1>5, <1>7, FaultStays, TypesStay
     DEF ConfirmUsage, Types, redis, rule, provider
<1>9. QED
  BY <1>1, <1>2, <1>3, <1>5, <1>7, <1>8 DEF Turns

\* A command of worker w ended with outcome o, and it is at pc if all went well.
Commanded(w, o, pc) ==
  /\ worker[w].task \in Tasks
  /\ \/ o # "ok" /\ Turns(w, Raised(worker[w]))
     \/ o = "ok" /\ pc = "idle" /\ Turns(w, Idle)
     \/ o = "ok" /\ pc # "idle" /\ Moves(w, pc)

\* The three saves.
SavesStep(w, o) == SaveCompleted(w, o) \/ SaveQueued(w, o) \/ SaveFailed(w, o)

SavedStatus(pc) ==
  IF pc = "save_completed" THEN "completed"
  ELSE IF pc = "save_queued" THEN "queued" ELSE "failed"

AfterSave(pc) ==
  IF pc = "save_completed" THEN "index_completed"
  ELSE IF pc = "save_queued" THEN "requeue" ELSE "unqueue"

LEMMA SavesFacts ==
  ASSUME Types, NEW w \in Workers, NEW o \in Outcomes, SavesStep(w, o)
  PROVE  LET t == worker[w].task IN
         /\ Types' /\ t \in Tasks
         /\ worker[w].pc \in {"save_completed", "save_queued", "save_failed"}
         /\ Commanded(w, o, AfterSave(worker[w].pc))
         /\ \A i \in Tasks : i # t => task'[i] = task[i]
         /\ \/ task' = task /\ o = "unsent"
            \/ /\ task'[t].dispatch = task[t].dispatch /\ task'[t].refund = task[t].refund
               /\ task'[t].status = IF task[t].status = "cancelled" THEN "cancelled"
                                    ELSE SavedStatus(worker[w].pc)
<1> DEFINE t == worker[w].task
<1> DEFINE pc == worker[w].pc
<1>1. /\ pc \in {"save_completed", "save_queued", "save_failed"} /\ pc \notin Off
      /\ task' = IF Applied(o) THEN Saved(t, SavedStatus(pc), worker[w].retries) ELSE task
      /\ Proceed(w, o, AfterSave(pc))
  BY DEF SavesStep, SaveCompleted, SaveQueued, SaveFailed, At, Off, SavedStatus, AfterSave
<1>2. /\ t \in Tasks /\ worker[w].retries \in Nat /\ SavedStatus(pc) \in Statuses
      /\ AfterSave(pc) \in Positions /\ AfterSave(pc) # "dead"
  BY <1>1, AtWork DEF WorkerType, SavedStatus, AfterSave, Statuses, Positions
<1>3. WorkerTypes' /\ FaultTypes' /\ Commanded(w, o, AfterSave(pc))
  BY <1>1, <1>2, ProceedFacts DEF Commanded
<1>4. /\ TaskTypes' /\ \A i \in Tasks : i # t => task'[i] = task[i]
      /\ \/ task' = task /\ o = "unsent"
         \/ /\ task'[t].dispatch = task[t].dispatch /\ task'[t].refund = task[t].refund
            /\ task'[t].status = IF task[t].status = "cancelled" THEN "cancelled"
                                 ELSE SavedStatus(pc)
  BY <1>1, <1>2, SavedFacts, TypesStay DEF Applied
<1>5. Types'
  BY <1>3, <1>4, TypesStay
     DEF SavesStep, SaveCompleted, SaveQueued, SaveFailed, Types, ledger, rule, provider
<1>6. QED
  BY <1>1, <1>2, <1>3, <1>4, <1>5

\* Commands on the queue, on the row, and the last one.
LEMMA PersistCompletedFacts ==
  ASSUME Types, NEW w \in Workers, NEW o \in Outcomes, PersistCompleted(w, o)
  PROVE  LET t == worker[w].task IN
         /\ Types' /\ t \in Tasks /\ worker[w].pc = "index_completed"
         /\ Commanded(w, o, "publish")
         /\ \A i \in Tasks : i # t => mirror'[i] = mirror[i]
         /\ mirror'[t] = IF o # "ok" \/ mirror[t] \in {"none", "cancelled"} THEN mirror[t]
                         ELSE "completed"
<1> DEFINE t == worker[w].task
<1>1. worker[w].pc = "index_completed" /\ worker[w].pc \notin Off
  BY DEF PersistCompleted, At, Off
<1>2. t \in Tasks
  BY <1>1, AtWork
<1>3. WorkerTypes' /\ FaultTypes' /\ Commanded(w, o, "publish")
  BY <1>1, <1>2, ProceedFacts DEF PersistCompleted, Commanded, Positions
<1>4. /\ MirrorTypes' /\ \A i \in Tasks : i # t => mirror'[i] = mirror[i]
      /\ mirror'[t] = IF o # "ok" \/ mirror[t] \in {"none", "cancelled"} THEN mirror[t]
                      ELSE "completed"
  <2>1. CASE o = "ok"
    BY <1>2, <2>1, MirroredFacts DEF PersistCompleted
  <2>2. CASE o # "ok"
    BY <2>2, TypesStay DEF PersistCompleted
  <2>3. QED
    BY <2>1, <2>2
<1>5. Types'
  BY <1>3, <1>4, TypesStay DEF PersistCompleted, Types, redis, ledger, rule, provider
<1>6. QED
  BY <1>1, <1>2, <1>3, <1>4, <1>5

LEMMA PublishFacts ==
  ASSUME Types, NEW w \in Workers, NEW o \in Outcomes, Publish(w, o)
  PROVE  /\ Types' /\ UNCHANGED Others /\ worker[w].pc = "publish"
         /\ Commanded(w, o, "idle")
<1>1. worker[w].pc = "publish" /\ worker[w].pc \notin Off /\ UNCHANGED Others
  BY DEF Publish, At, Off, Others
<1>2. WorkerTypes' /\ FaultTypes' /\ Commanded(w, o, "idle")
  BY <1>1, AtWork, ProceedFacts DEF Publish, Commanded, Positions
<1>3. QED
  BY <1>1, <1>2, AloneTypes

LEMMA FailFacts ==
  ASSUME Types, NEW w \in Workers, NEW o \in Outcomes, FailTask(w, o)
  PROVE  LET t == worker[w].task IN
         /\ Types' /\ UNCHANGED Others /\ t \in Tasks /\ worker[w].pc = "fail"
         /\ \/ Turns(w, Idle) /\ (o # "ok" \/ task[t].status \in {"none", "cancelled"})
            \/ /\ o = "ok" /\ task[t].status \notin {"none", "cancelled"}
               /\ \A v \in Workers : v # w => worker'[v] = worker[v]
               /\ worker'[w].task = t /\ worker'[w].accepted = worker[w].accepted
               /\ worker'[w].pc \in {"save_queued", "save_failed"}
               /\ worker'[w].pc = "save_queued" => worker[w].retry
<1> DEFINE t == worker[w].task
<1>1. worker[w].pc = "fail" /\ worker[w].pc \notin Off /\ Fault(o)
  BY DEF FailTask, At, Off
<1>2. t \in Tasks /\ worker[w] \in WorkerType /\ task[t] \in TaskRecord
  BY <1>1, AtWork
<1>3. UNCHANGED Others
  BY DEF FailTask, Others
<1>4. CASE o # "ok" \/ task[t].status \in {"none", "cancelled"}
  <2>1. Finish(w)
    BY <1>4 DEF FailTask
  <2>2. QED
    BY <1>1, <1>2, <1>3, <1>4, <2>1, FinishFacts, AloneTypes, FaultStays
<1>5. CASE ~ (o # "ok" \/ task[t].status \in {"none", "cancelled"})
  <2> DEFINE n == task[t].retries + 1
             pc == IF worker[w].retry /\ MayRetry(n) THEN "save_queued" ELSE "save_failed"
             k == [worker[w] EXCEPT !.pc = pc, !.retries = n]
  <2>1. n \in Nat /\ pc \in {"save_queued", "save_failed"}
        /\ (pc = "save_queued" => worker[w].retry)
    <3>1. n \in Nat
      <4>1. task[t].retries \in Nat
        BY <1>2 DEF TaskRecord
      <4>2. QED
        BY <4>1
    <3>2. CASE worker[w].retry /\ MayRetry(n)
      BY <3>1, <3>2
    <3>3. CASE ~ (worker[w].retry /\ MayRetry(n))
      BY <3>1, <3>3
    <3>4. QED
      BY <3>2, <3>3
  <2>2. worker' = [worker EXCEPT ![w] = k]
    BY <1>5 DEF FailTask, Types, WorkerTypes
  <2> HIDE DEF n, pc
  <2>3. k \in WorkerType /\ k.pc = pc /\ k.task = t /\ k.accepted = worker[w].accepted
    BY <1>2, <2>1 DEF WorkerType
  <2>4. WorkerTypes' /\ Turns(w, k)
    BY <1>2, <2>1, <2>2, <2>3, TurnsTypes DEF Off
  <2>5. QED
    BY <1>1, <1>2, <1>3, <1>5, <2>1, <2>3, <2>4, AloneTypes, FaultStays DEF Turns
<1>6. QED
  BY <1>4, <1>5

LEMMA QueueingFacts ==
  ASSUME Types, NEW w \in Workers, NEW o \in Outcomes, Requeue(w, o) \/ UnqueueFailed(w, o)
  PROVE  LET t == worker[w].task IN
         /\ Types' /\ t \in Tasks
         /\ \/ /\ worker[w].pc = "requeue" /\ Commanded(w, o, "idle")
               /\ pending' = IF o = "unsent" THEN pending ELSE pending \cup {t}
            \/ /\ worker[w].pc = "unqueue" /\ Commanded(w, o, "release")
               /\ pending' = IF o = "unsent" THEN pending ELSE pending \ {t}
<1> DEFINE t == worker[w].task
<1>1. worker[w].pc \in {"requeue", "unqueue"} /\ worker[w].pc \notin Off
  BY DEF Requeue, UnqueueFailed, At, Off
<1>2. t \in Tasks
  BY <1>1, AtWork
<1>3. /\ WorkerTypes' /\ FaultTypes'
      /\ \/ /\ worker[w].pc = "requeue" /\ Commanded(w, o, "idle")
            /\ pending' = IF o = "unsent" THEN pending ELSE pending \cup {t}
         \/ /\ worker[w].pc = "unqueue" /\ Commanded(w, o, "release")
            /\ pending' = IF o = "unsent" THEN pending ELSE pending \ {t}
  <2>1. CASE Requeue(w, o)
    BY <1>1, <1>2, <2>1, ProceedFacts DEF Requeue, Commanded, Positions, At, Applied
  <2>2. CASE UnqueueFailed(w, o)
    BY <1>1, <1>2, <2>2, ProceedFacts DEF UnqueueFailed, Commanded, Positions, At, Applied
  <2>3. QED
    BY <2>1, <2>2
<1>4. SetTypes'
  BY <1>2, <1>3 DEF Types, SetTypes, Requeue, UnqueueFailed
<1>5. Types'
  BY <1>3, <1>4, TypesStay DEF Requeue, UnqueueFailed, Types, ledger, rule, provider
<1>6. QED
  BY <1>2, <1>3, <1>5

LEMMA RefundFacts ==
  ASSUME Types, NEW w \in Workers, NEW o \in Outcomes, ReleaseFailed(w, o)
  PROVE  LET t == worker[w].task IN
         /\ Types' /\ t \in Tasks /\ worker[w].pc = "release"
         /\ Moves(w, "persist_failed")
         /\ charges' = charges /\ \A i \in Tasks : i # t => held'[i] = held[i]
         /\ held'[t] \in {held[t], 0}
         /\ o = "ok" => held'[t] = IF billed[t] > 0 /\ held[t] > 0 THEN 0 ELSE held[t]
<1> DEFINE t == worker[w].task
<1>1. worker[w].pc = "release" /\ worker[w].pc \notin Off /\ Fault(o)
  BY DEF ReleaseFailed, At, Off
<1>2. t \in Tasks
  BY <1>1, AtWork
<1>3. WorkerTypes' /\ Moves(w, "persist_failed")
  BY <1>1, GoesTo DEF ReleaseFailed, Positions, Off
<1>4. Released(t) \/ UNCHANGED ledger
  BY DEF ReleaseFailed
<1>5. /\ MoneyTypes' /\ charges' = charges
      /\ \A i \in Tasks : i # t => held'[i] = held[i]
      /\ held'[t] \in {held[t], 0}
      /\ o = "ok" => held'[t] = IF billed[t] > 0 /\ held[t] > 0 THEN 0 ELSE held[t]
  BY <1>2, <1>4, ReleasedFacts DEF ReleaseFailed, Applied
<1>6. Types'
  BY <1>1, <1>3, <1>5, FaultStays, TypesStay
     DEF ReleaseFailed, Types, redis, rule, provider
<1>7. QED
  BY <1>1, <1>2, <1>3, <1>5, <1>6

LEMMA PersistFailedFacts ==
  ASSUME Types, NEW w \in Workers, PersistFailed(w)
  PROVE  LET t == worker[w].task IN
         /\ Types' /\ t \in Tasks /\ worker[w].pc = "persist_failed"
         /\ Moves(w, "publish")
         /\ \A i \in Tasks : i # t => mirror'[i] = mirror[i]
         /\ mirror'[t] = IF mirror[t] \in {"none", "cancelled"} THEN mirror[t] ELSE "failed"
<1> DEFINE t == worker[w].task
<1>1. worker[w].pc = "persist_failed" /\ worker[w].pc \notin Off
  BY DEF PersistFailed, At, Off
<1>2. t \in Tasks
  BY <1>1, AtWork
<1>3. WorkerTypes' /\ Moves(w, "publish")
  BY <1>1, GoesTo DEF PersistFailed, Positions, Off
<1>4. /\ MirrorTypes' /\ \A i \in Tasks : i # t => mirror'[i] = mirror[i]
      /\ mirror'[t] = IF mirror[t] \in {"none", "cancelled"} THEN mirror[t] ELSE "failed"
  BY <1>2, MirroredFacts DEF PersistFailed
<1>5. Types'
  BY <1>3, <1>4, TypesStay DEF PersistFailed, Types, redis, ledger, rule, provider
<1>6. QED
  BY <1>1, <1>2, <1>3, <1>4, <1>5

-----------------------------------------------------------------------------
(***************************************************************************)
(* The steps of a submission and of a cancellation, with their types.       *)
(***************************************************************************)
\* The submission of t is at pc.
Submits(t, pc) == client' = [client EXCEPT ![t] = pc]

LEMMA SubmitsFacts ==
  ASSUME Types, NEW t \in Tasks,
         NEW pc \in {"save", "enqueue", "persist", "rollback", "accepted", "rejected"},
         Submits(t, pc)
  PROVE  ClientTypes' /\ client'[t] = pc /\ \A i \in Tasks : i # t => client'[i] = client[i]
BY DEF Types, ClientTypes, Submits

LEMMA ReserveFacts ==
  ASSUME Types, NEW t \in Tasks, NEW o \in Outcomes, ReserveCredits(t, o)
  PROVE  /\ Types' /\ client[t] = "new"
         /\ client'[t] = (IF o = "ok" THEN "save" ELSE "rejected")
         /\ \A i \in Tasks : i # t => /\ client'[i] = client[i] /\ billed'[i] = billed[i]
                                      /\ held'[i] = held[i]
         /\ charges' = charges
         /\ billed'[t] = IF o = "ok" THEN price ELSE 0
         /\ held'[t] = IF price > 0 /\ o # "unsent" THEN price ELSE held[t]
<1>1. client[t] = "new" /\ Fault(o) /\ price \in Prices
  BY DEF ReserveCredits, Types, RuleTypes
<1>2. /\ ClientTypes' /\ client'[t] = (IF o = "ok" THEN "save" ELSE "rejected")
      /\ \A i \in Tasks : i # t => client'[i] = client[i]
  BY SubmitsFacts DEF ReserveCredits, Submits
<1>3. /\ billed' \in [Tasks -> Prices \cup {0}]
      /\ billed'[t] = IF o = "ok" THEN price ELSE 0
      /\ \A i \in Tasks : i # t => billed'[i] = billed[i]
  BY <1>1 DEF ReserveCredits, Types, MoneyTypes
<1>4. /\ held' \in [Tasks -> Prices \cup {0}] /\ charges' = charges
      /\ held'[t] = IF price > 0 /\ o # "unsent" THEN price ELSE held[t]
      /\ \A i \in Tasks : i # t => held'[i] = held[i]
  BY <1>1 DEF ReserveCredits, Ledger!Freeze, ledger, Applied, Types, MoneyTypes
<1>5. Types'
  <2>1. MoneyTypes'
    BY <1>3, <1>4 DEF Types, MoneyTypes
  <2>2. QED
    BY <1>1, <1>2, <2>1, FaultStays, TypesStay
       DEF ReserveCredits, Types, redis, rule, provider
<1>6. QED
  BY <1>1, <1>2, <1>3, <1>4, <1>5

LEMMA SaveNewFacts ==
  ASSUME Types, NEW t \in Tasks, NEW o \in Outcomes, SaveNewTask(t, o)
  PROVE  /\ Types' /\ client[t] = "save"
         /\ client'[t] = (IF o = "ok" THEN "enqueue" ELSE "rollback")
         /\ \A i \in Tasks : i # t => client'[i] = client[i] /\ task'[i] = task[i]
         /\ \/ task' = task /\ o = "unsent"
            \/ /\ task'[t].dispatch = task[t].dispatch /\ task'[t].refund = task[t].refund
               /\ task'[t].status = IF task[t].status = "cancelled" THEN "cancelled"
                                    ELSE "queued"
<1>1. client[t] = "save" /\ Fault(o)
  BY DEF SaveNewTask
<1>2. /\ ClientTypes' /\ client'[t] = (IF o = "ok" THEN "enqueue" ELSE "rollback")
      /\ \A i \in Tasks : i # t => client'[i] = client[i]
  BY SubmitsFacts DEF SaveNewTask, Submits
<1>3. /\ TaskTypes' /\ \A i \in Tasks : i # t => task'[i] = task[i]
      /\ \/ task' = task /\ o = "unsent"
         \/ /\ task'[t].dispatch = task[t].dispatch /\ task'[t].refund = task[t].refund
            /\ task'[t].status = IF task[t].status = "cancelled" THEN "cancelled"
                                 ELSE "queued"
  BY SavedFacts, TypesStay DEF SaveNewTask, Applied, Statuses
<1>4. Types'
  BY <1>1, <1>2, <1>3, FaultStays, TypesStay
     DEF SaveNewTask, Types, ledger, rule, provider
<1>5. QED
  BY <1>1, <1>2, <1>3, <1>4

LEMMA EnqueueFacts ==
  ASSUME Types, NEW t \in Tasks, NEW o \in Outcomes, EnqueueWithGrace(t, o)
  PROVE  /\ Types' /\ client[t] = "enqueue"
         /\ client'[t] = (IF o = "ok" THEN "persist" ELSE "rollback")
         /\ \A i \in Tasks : i # t => client'[i] = client[i]
<1>1. client[t] = "enqueue" /\ Fault(o)
  BY DEF EnqueueWithGrace
<1>2. /\ ClientTypes' /\ client'[t] = (IF o = "ok" THEN "persist" ELSE "rollback")
      /\ \A i \in Tasks : i # t => client'[i] = client[i]
  BY SubmitsFacts DEF EnqueueWithGrace, Submits
<1>3. SetTypes'
  BY DEF EnqueueWithGrace, Types, SetTypes
<1>4. Types'
  BY <1>1, <1>2, <1>3, FaultStays, TypesStay
     DEF EnqueueWithGrace, Types, ledger, rule, provider
<1>5. QED
  BY <1>1, <1>2, <1>4

LEMMA CreateFacts ==
  ASSUME Types, NEW t \in Tasks, NEW o \in Outcomes, PersistCreate(t, o)
  PROVE  /\ Types' /\ client[t] = "persist" /\ client'[t] = "accepted"
         /\ \A i \in Tasks : i # t => client'[i] = client[i] /\ mirror'[i] = mirror[i]
         /\ mirror'[t] \in {mirror[t], "pending"}
         /\ mirror'[t] # mirror[t] => mirror[t] = "none"
<1>1. client[t] = "persist" /\ Fault(o)
  BY DEF PersistCreate
<1>2. /\ ClientTypes' /\ client'[t] = "accepted"
      /\ \A i \in Tasks : i # t => client'[i] = client[i]
  BY SubmitsFacts DEF PersistCreate, Submits
<1>3. /\ MirrorTypes' /\ \A i \in Tasks : i # t => mirror'[i] = mirror[i]
      /\ mirror'[t] \in {mirror[t], "pending"}
      /\ mirror'[t] # mirror[t] => mirror[t] = "none"
  BY DEF PersistCreate, Types, MirrorTypes
<1>4. Types'
  BY <1>1, <1>2, <1>3, FaultStays, TypesStay
     DEF PersistCreate, Types, redis, ledger, rule, provider
<1>5. QED
  BY <1>1, <1>2, <1>3, <1>4

LEMMA RollBackFacts ==
  ASSUME Types, NEW t \in Tasks, NEW o \in Outcomes, RollBackSubmission(t, o)
  PROVE  /\ Types' /\ client[t] = "rollback" /\ client'[t] = "rejected"
         /\ charges' = charges
         /\ \A i \in Tasks : i # t => client'[i] = client[i] /\ held'[i] = held[i]
         /\ held'[t] \in {held[t], 0}
<1>1. client[t] = "rollback" /\ Fault(o) /\ (Released(t) \/ UNCHANGED ledger)
  BY DEF RollBackSubmission
<1>2. /\ ClientTypes' /\ client'[t] = "rejected"
      /\ \A i \in Tasks : i # t => client'[i] = client[i]
  BY SubmitsFacts DEF RollBackSubmission, Submits
<1>3. /\ MoneyTypes' /\ charges' = charges /\ held'[t] \in {held[t], 0}
      /\ \A i \in Tasks : i # t => held'[i] = held[i]
  BY <1>1, ReleasedFacts DEF RollBackSubmission
<1>4. Types'
  BY <1>1, <1>2, <1>3, FaultStays, TypesStay
     DEF RollBackSubmission, Types, redis, rule, provider
<1>5. QED
  BY <1>1, <1>2, <1>3, <1>4

LEMMA FinisherIs ==
  ASSUME Types, NEW c \in Finishers
  PROVE  finisher[c] \in FinisherType /\ Assigned(c)
BY DEF Types, FinisherTypes

\* Finisher c turns to k.
FinisherTurns(c, k) ==
  /\ finisher'[c] = k
  /\ \A d \in Finishers : d # c => finisher'[d] = finisher[d]

LEMMA FinisherTurnsTypes ==
  ASSUME Types, NEW c \in Finishers, NEW k \in FinisherType,
         finisher' = [finisher EXCEPT ![c] = k],
         k = Resting \/ (k.pc # "idle" /\ k.task \in Tasks)
  PROVE  FinisherTypes' /\ FinisherTurns(c, k)
BY DEF Types, FinisherTypes, FinisherTurns, Assigned

LEMMA StepFacts ==
  ASSUME Types, NEW c \in Finishers, NEW o, finisher[c].pc # "idle",
         NEW pc \in {"mirror", "release", "mark", "forget", "idle"}, Step(c, o, pc)
  PROVE  /\ FinisherTypes' /\ FaultTypes'
         /\ \/ (o # "ok" \/ pc = "idle") /\ FinisherTurns(c, Resting)
            \/ /\ o = "ok" /\ pc # "idle"
               /\ finisher'[c].pc = pc /\ finisher'[c].task = finisher[c].task
               /\ \A d \in Finishers : d # c => finisher'[d] = finisher[d]
<1>1. finisher[c] \in FinisherType /\ finisher[c].task \in Tasks
  BY FinisherIs DEF Assigned, Resting
<1>2. FaultTypes'
  BY FaultStays DEF Step
<1>3. CASE o # "ok" \/ pc = "idle"
  <2>1. finisher' = [finisher EXCEPT ![c] = Resting]
    BY <1>3 DEF Step, Types, FinisherTypes
  <2>2. Resting \in FinisherType
    BY DEF Resting, FinisherType
  <2>3. QED
    BY <1>2, <1>3, <2>1, <2>2, FinisherTurnsTypes
<1>4. CASE o = "ok" /\ pc # "idle"
  <2> DEFINE k == [finisher[c] EXCEPT !.pc = pc]
  <2>1. finisher' = [finisher EXCEPT ![c] = k]
    BY <1>4 DEF Step, Types, FinisherTypes
  <2>2. k \in FinisherType /\ k.pc = pc /\ k.task = finisher[c].task
    BY <1>1 DEF FinisherType
  <2>3. QED
    BY <1>1, <1>2, <1>4, <2>1, <2>2, FinisherTurnsTypes DEF FinisherTurns
<1>5. QED
  BY <1>3, <1>4

LEMMA CancelFacts ==
  ASSUME Types, NEW c \in Finishers, NEW t \in Tasks, NEW o \in Outcomes, CancelTask(c, t, o)
  PROVE  /\ Types'
         /\ \A i \in Tasks : i # t => task'[i] = task[i]
         /\ \/ task' = task /\ (task[t].status = "cancelled" \/ o = "unsent")
            \/ /\ Cancellable(t) /\ task'[t].status = "cancelled"
               /\ task'[t].dispatch = task[t].dispatch /\ task'[t].refund = "pending"
         /\ \/ finisher' = finisher
            \/ FinisherTurns(c, [pc |-> "cleanup", task |-> t]) /\ task'[t].status = "cancelled"
<1>1. finisher[c] = Resting /\ Fault(o)
  BY DEF CancelTask
<1>2. task[t] \in TaskRecord
  BY DEF Types, TaskTypes
<1> DEFINE r == [task[t] EXCEPT !.status = "cancelled", !.refund = "pending"]
<1>3. /\ r \in TaskRecord /\ r.status = "cancelled" /\ r.refund = "pending"
      /\ r.dispatch = task[t].dispatch
  BY <1>2 DEF TaskRecord, Statuses
<1>4. \/ task' = task /\ (task[t].status = "cancelled" \/ o = "unsent")
      \/ Cancellable(t) /\ task' = [task EXCEPT ![t] = r] /\ o # "unsent"
  BY DEF CancelTask, Applied, Types, TaskTypes
<1>5. /\ TaskTypes' /\ \A i \in Tasks : i # t => task'[i] = task[i]
      /\ \/ task' = task /\ (task[t].status = "cancelled" \/ o = "unsent")
         \/ Cancellable(t) /\ task'[t] = r /\ o # "unsent"
  BY <1>3, <1>4, RecordWritten, TypesStay
<1>6. cancelRefunds' \subseteq Tasks
  BY DEF CancelTask, RefundQueued, Types, SetTypes
<1>7. /\ FinisherTypes'
      /\ \/ finisher' = finisher
         \/ FinisherTurns(c, [pc |-> "cleanup", task |-> t]) /\ o = "ok"
  <2>1. CASE o = "ok"
    <3> DEFINE k == [pc |-> "cleanup", task |-> t]
    <3>1. finisher' = [finisher EXCEPT ![c] = k] /\ k \in FinisherType
      BY <2>1 DEF CancelTask, FinisherType
    <3>2. QED
      BY <2>1, <3>1, FinisherTurnsTypes
  <2>2. CASE o # "ok"
    BY <2>2, TypesStay DEF CancelTask
  <2>3. QED
    BY <2>1, <2>2
<1>8. Types'
  <2>1. SetTypes'
    BY <1>6 DEF CancelTask, Types, SetTypes
  <2>2. QED
    BY <1>1, <1>5, <1>7, <2>1, FaultStays, TypesStay
       DEF CancelTask, Types, ledger, rule, provider
<1>9. QED
  BY <1>3, <1>5, <1>7, <1>8

LEMMA RetryFacts ==
  ASSUME Types, NEW c \in Finishers, NEW t \in Tasks, RetryCancelledRefund(c, t)
  PROVE  /\ Types' /\ task[t].status = "cancelled"
         /\ FinisherTurns(c, [pc |-> "cleanup", task |-> t])
<1> DEFINE k == [pc |-> "cleanup", task |-> t]
<1>1. finisher' = [finisher EXCEPT ![c] = k] /\ k \in FinisherType
  BY DEF RetryCancelledRefund, FinisherType
<1>2. FinisherTypes' /\ FinisherTurns(c, k)
  BY <1>1, FinisherTurnsTypes
<1>3. QED
  BY <1>2, TypesStay DEF RetryCancelledRefund, Types, redis, ledger, rule, provider

\* A command of finisher c ended with outcome o, and it is at pc if all went well.
FinisherCommanded(c, o, pc) ==
  /\ finisher[c].task \in Tasks
  /\ \/ (o # "ok" \/ pc = "idle") /\ FinisherTurns(c, Resting)
     \/ /\ o = "ok" /\ pc # "idle"
        /\ finisher'[c].pc = pc /\ finisher'[c].task = finisher[c].task
        /\ \A d \in Finishers : d # c => finisher'[d] = finisher[d]

LEMMA FinishCommands ==
  ASSUME Types, NEW c \in Finishers, NEW o \in Outcomes, FinishStep(c, o)
  PROVE  /\ FinisherTypes' /\ FaultTypes'
         /\ \/ CleanUp(c, o) /\ FinisherCommanded(c, o, "mirror")
            \/ MirrorCancelled(c, o) /\ FinisherCommanded(c, o, "release")
            \/ ReleaseCancelled(c, o) /\ FinisherCommanded(c, o, "mark")
            \/ MarkRefunded(c, o) /\ FinisherCommanded(c, o, "forget")
            \/ ForgetRefund(c, o) /\ FinisherCommanded(c, o, "idle")
<1>1. finisher[c].pc # "idle"
  BY DEF FinishStep, CleanUp, MirrorCancelled, ReleaseCancelled, MarkRefunded, ForgetRefund,
         Finishing
<1>2. finisher[c].task \in Tasks
  BY <1>1, FinisherIs DEF Assigned, Resting
<1>3. CASE CleanUp(c, o)
  BY <1>1, <1>2, <1>3, StepFacts DEF CleanUp, FinisherCommanded
<1>4. CASE MirrorCancelled(c, o)
  BY <1>1, <1>2, <1>4, StepFacts DEF MirrorCancelled, FinisherCommanded
<1>5. CASE ReleaseCancelled(c, o)
  BY <1>1, <1>2, <1>5, StepFacts DEF ReleaseCancelled, FinisherCommanded
<1>6. CASE MarkRefunded(c, o)
  BY <1>1, <1>2, <1>6, StepFacts DEF MarkRefunded, FinisherCommanded
<1>7. CASE ForgetRefund(c, o)
  BY <1>1, <1>2, <1>7, StepFacts DEF ForgetRefund, FinisherCommanded
<1>8. QED
  BY <1>3, <1>4, <1>5, <1>6, <1>7 DEF FinishStep

LEMMA FinishFactsOf ==
  ASSUME Types, NEW c \in Finishers, NEW o \in Outcomes, FinishStep(c, o)
  PROVE  LET t == finisher[c].task IN
         /\ Types' /\ t \in Tasks /\ finisher[c].pc # "idle"
         /\ \/ /\ CleanUp(c, o) /\ FinisherCommanded(c, o, "mirror")
               /\ pending' = IF o = "unsent" THEN pending ELSE pending \ {t}
            \/ /\ MirrorCancelled(c, o) /\ FinisherCommanded(c, o, "release")
               /\ \A i \in Tasks : i # t => mirror'[i] = mirror[i]
               /\ mirror'[t] = IF o = "unsent" \/ mirror[t] \in {"none", "cancelled"}
                               THEN mirror[t] ELSE "cancelled"
            \/ /\ ReleaseCancelled(c, o) /\ FinisherCommanded(c, o, "mark")
               /\ charges' = charges /\ \A i \in Tasks : i # t => held'[i] = held[i]
               /\ held'[t] \in {held[t], 0}
               /\ o = "ok" => held'[t] = IF billed[t] > 0 /\ held[t] > 0 THEN 0 ELSE held[t]
            \/ /\ MarkRefunded(c, o) /\ FinisherCommanded(c, o, "forget")
               /\ finisher[c].pc = "mark"
               /\ \A i \in Tasks : i # t => task'[i] = task[i]
               /\ task'[t].status = task[t].status /\ task'[t].dispatch = task[t].dispatch
               /\ task'[t].refund \in {task[t].refund, "completed"}
               /\ task'[t].refund # task[t].refund => task[t].status # "none"
            \/ ForgetRefund(c, o) /\ FinisherCommanded(c, o, "idle")
<1> DEFINE t == finisher[c].task
<1>1. finisher[c].pc # "idle" /\ t \in Tasks
  BY FinishCommands, FinisherIs DEF FinisherCommanded, FinishStep, CleanUp, MirrorCancelled,
     ReleaseCancelled, MarkRefunded, ForgetRefund, Finishing
<1>2. FinisherTypes' /\ FaultTypes'
  BY FinishCommands
<1>3. CASE CleanUp(c, o) /\ FinisherCommanded(c, o, "mirror")
  <2>1. SetTypes' /\ pending' = IF o = "unsent" THEN pending ELSE pending \ {t}
    BY <1>3 DEF CleanUp, Types, SetTypes, Applied
  <2>2. Types'
    BY <1>2, <1>3, <2>1, TypesStay DEF CleanUp, Types, ledger, rule, provider
  <2>3. QED
    BY <1>1, <1>3, <2>1, <2>2
<1>4. CASE MirrorCancelled(c, o) /\ FinisherCommanded(c, o, "release")
  <2>1. /\ MirrorTypes' /\ \A i \in Tasks : i # t => mirror'[i] = mirror[i]
        /\ mirror'[t] = IF o = "unsent" \/ mirror[t] \in {"none", "cancelled"}
                        THEN mirror[t] ELSE "cancelled"
    BY <1>1, <1>4, MirroredFacts, TypesStay DEF MirrorCancelled, Applied
  <2>2. Types'
    BY <1>2, <1>4, <2>1, TypesStay DEF MirrorCancelled, Types, redis, ledger, rule, provider
  <2>3. QED
    BY <1>1, <1>4, <2>1, <2>2
<1>5. CASE ReleaseCancelled(c, o) /\ FinisherCommanded(c, o, "mark")
  <2>1. /\ MoneyTypes' /\ charges' = charges
        /\ \A i \in Tasks : i # t => held'[i] = held[i]
        /\ held'[t] \in {held[t], 0}
        /\ o = "ok" => held'[t] = IF billed[t] > 0 /\ held[t] > 0 THEN 0 ELSE held[t]
    BY <1>1, <1>5, ReleasedFacts DEF ReleaseCancelled, Applied
  <2>2. Types'
    BY <1>2, <1>5, <2>1, TypesStay DEF ReleaseCancelled, Types, redis, rule, provider
  <2>3. QED
    BY <1>1, <1>5, <2>1, <2>2
<1>6. CASE MarkRefunded(c, o) /\ FinisherCommanded(c, o, "forget")
  <2> DEFINE r == [task[t] EXCEPT !.refund = "completed"]
  <2>1. task[t] \in TaskRecord
    BY <1>1 DEF Types, TaskTypes
  <2>2. /\ r \in TaskRecord /\ r.refund = "completed" /\ r.status = task[t].status
        /\ r.dispatch = task[t].dispatch
    BY <2>1 DEF TaskRecord
  <2>3. \/ task' = task
        \/ task' = [task EXCEPT ![t] = r] /\ task[t].status # "none"
    BY <1>1, <1>6 DEF MarkRefunded, Types, TaskTypes
  <2>4. /\ TaskTypes' /\ \A i \in Tasks : i # t => task'[i] = task[i]
        /\ task' = task \/ (task'[t] = r /\ task[t].status # "none")
    BY <1>1, <2>2, <2>3, RecordWritten, TypesStay
  <2>5. Types'
    BY <1>2, <1>6, <2>4, TypesStay DEF MarkRefunded, Types, ledger, rule, provider
  <2>6. QED
    BY <1>1, <1>6, <2>2, <2>4, <2>5 DEF MarkRefunded, Finishing
<1>7. CASE ForgetRefund(c, o) /\ FinisherCommanded(c, o, "idle")
  <2>1. SetTypes'
    BY <1>7 DEF ForgetRefund, Types, SetTypes
  <2>2. Types'
    BY <1>2, <1>7, <2>1, TypesStay DEF ForgetRefund, Types, ledger, rule, provider
  <2>3. QED
    BY <1>1, <1>7, <2>2
<1>8. QED
  BY <1>3, <1>4, <1>5, <1>6, <1>7, FinishCommands

LEMMA RuleFacts == ASSUME Types, ChangeRule PROVE Types'
<1>1. RuleTypes'
  BY DEF ChangeRule, Types, RuleTypes
<1>2. QED
  BY <1>1, TypesStay DEF ChangeRule, Types, redis, ledger, provider

LEMMA DeadlineFacts ==
  ASSUME Types, NEW t \in Tasks, DeadlinePasses(t)
  PROVE  /\ Types' /\ client[t] # "new" /\ elapsed'[t] = TRUE
         /\ \A i \in Tasks : i # t => elapsed'[i] = elapsed[i]
<1>1. /\ KindTypes' /\ elapsed'[t] = TRUE
      /\ \A i \in Tasks : i # t => elapsed'[i] = elapsed[i]
  BY DEF DeadlinePasses, Types, KindTypes
<1>2. QED
  BY <1>1, TypesStay DEF DeadlinePasses, Types, redis, ledger, rule, provider

LEMMA DeleteFacts ==
  ASSUME Types, NEW t \in Tasks, DeleteTask(t)
  PROVE  /\ Types' /\ Deletable(t)
         /\ task'[t].status = "none" /\ task'[t].dispatch = "" /\ task'[t].refund = ""
         /\ mirror'[t] = "none"
         /\ \A i \in Tasks : i # t => task'[i] = task[i] /\ mirror'[i] = mirror[i]
<1>1. NoTask \in TaskRecord /\ NoTask.status = "none" /\ NoTask.dispatch = ""
      /\ NoTask.refund = ""
  BY DEF NoTask, TaskRecord, Statuses
<1>2. TaskTypes' /\ task'[t] = NoTask /\ \A i \in Tasks : i # t => task'[i] = task[i]
  BY <1>1, RecordWritten DEF DeleteTask
<1>3. MirrorTypes' /\ mirror'[t] = "none" /\ \A i \in Tasks : i # t => mirror'[i] = mirror[i]
  BY DEF DeleteTask, Types, MirrorTypes, Statuses
<1>4. SetTypes'
  BY DEF DeleteTask, Types, SetTypes
<1>5. QED
  BY <1>1, <1>2, <1>3, <1>4, TypesStay DEF DeleteTask, Types, ledger, rule, provider

LEMMA CrashFacts ==
  ASSUME Types, Crash
  PROVE  /\ Types' /\ faults' # 0
         /\ \A w \in Workers : worker'[w] = Idle
         /\ \A c \in Finishers : finisher'[c] = Resting
         /\ \A t \in Tasks :
              client'[t] = (IF client[t] \in {"new", "accepted"} THEN client[t] ELSE "rejected")
<1>1. WorkerTypes' /\ \A w \in Workers : worker'[w] = Idle
  BY IdleType DEF Crash, WorkerTypes, Manned, Off
<1>2. FinisherTypes' /\ \A c \in Finishers : finisher'[c] = Resting
  <2>1. Resting \in FinisherType
    BY DEF Resting, FinisherType
  <2>2. QED
    BY <2>1 DEF Crash, FinisherTypes, Assigned
<1>3. /\ ClientTypes'
      /\ \A t \in Tasks :
           client'[t] = (IF client[t] \in {"new", "accepted"} THEN client[t] ELSE "rejected")
  BY DEF Crash, Types, ClientTypes
<1>4. FaultTypes' /\ faults' # 0
  BY DEF Crash, Types, FaultTypes
<1>5. Types'
  BY <1>1, <1>2, <1>3, <1>4, TypesStay DEF Crash, Types, redis, ledger, rule, provider
<1>6. QED
  BY <1>1, <1>2, <1>3, <1>4, <1>5

-----------------------------------------------------------------------------
(***************************************************************************)
(* Every step keeps the types, and no step revives a cancelled task.        *)
(***************************************************************************)
StaysCancelled ==
  \A t \in Tasks : task[t].status = "cancelled" => task'[t].status \in {"cancelled", "none"}

LEMMA WorkerTypesKept ==
  ASSUME Types, NEW w \in Workers, NEW o \in Outcomes, WorkerStep(w, o)
  PROVE  Types' /\ StaysCancelled
<1>1. CASE Dequeue(w)
  BY <1>1, DequeueFacts DEF Dequeue, StaysCancelled
<1>2. CASE ClaimForPreparation(w, o)
  <2> DEFINE t == worker[w].task
  <2>1. /\ Types' /\ t \in Tasks /\ \A i \in Tasks : i # t => task'[i] = task[i]
        /\ task' = task \/ Claimable(t)
    BY <1>2, ClaimFacts
  <2>2. QED
    BY <2>1 DEF StaysCancelled, Claimable
<1>3. CASE BeginSubmission(w, o)
  BY <1>3, BeginFacts DEF StaysCancelled
<1>4. CASE HandlerStep(w, o)
  <2>1. CASE RecordTaskStart(w)
    BY <2>1, StartFacts DEF RecordTaskStart, redis, StaysCancelled
  <2>2. CASE CallProvider(w, o)
    BY <2>2, CallFacts DEF CallProvider, redis, StaysCancelled
  <2>3. CASE ProviderFails(w) \/ ProviderSucceeds(w)
    BY <2>3, GenerationFacts DEF Others, redis, StaysCancelled
  <2>4. CASE ReadForProgress(w) \/ SaveProgress(w)
    BY <2>4, ProgressFacts DEF Others, redis, StaysCancelled
  <2>5. QED
    BY <1>4, <2>1, <2>2, <2>3, <2>4 DEF HandlerStep
<1>5. CASE CompleteStep(w, o)
  <2>1. CASE CompleteTask(w, o)
    BY <2>1, CompleteFacts DEF Others, redis, StaysCancelled
  <2>2. CASE QuoteUsage(w)
    BY <2>2, QuoteFacts DEF Others, redis, StaysCancelled
  <2>3. CASE FreezeUsage(w, o)
    BY <2>3, FreezeFacts DEF FreezeUsage, redis, StaysCancelled
  <2>4. CASE ConfirmUsage(w, o)
    BY <2>4, ConfirmFacts DEF ConfirmUsage, redis, StaysCancelled
  <2>5. CASE SaveCompleted(w, o)
    BY <2>5, SavesFacts DEF SavesStep, StaysCancelled
  <2>6. CASE PersistCompleted(w, o)
    BY <2>6, PersistCompletedFacts DEF PersistCompleted, redis, StaysCancelled
  <2>7. CASE Publish(w, o)
    BY <2>7, PublishFacts DEF Others, redis, StaysCancelled
  <2>8. QED
    BY <1>5, <2>1, <2>2, <2>3, <2>4, <2>5, <2>6, <2>7 DEF CompleteStep
<1>6. CASE FailStep(w, o)
  <2>1. CASE FailTask(w, o)
    BY <2>1, FailFacts DEF Others, redis, StaysCancelled
  <2>2. CASE SaveQueued(w, o) \/ SaveFailed(w, o)
    BY <2>2, SavesFacts DEF SavesStep, StaysCancelled
  <2>3. CASE Requeue(w, o) \/ UnqueueFailed(w, o)
    BY <2>3, QueueingFacts DEF Requeue, UnqueueFailed, StaysCancelled
  <2>4. CASE ReleaseFailed(w, o)
    BY <2>4, RefundFacts DEF ReleaseFailed, redis, StaysCancelled
  <2>5. CASE PersistFailed(w)
    BY <2>5, PersistFailedFacts DEF PersistFailed, redis, StaysCancelled
  <2>6. QED
    BY <1>6, <2>1, <2>2, <2>3, <2>4, <2>5 DEF FailStep
<1>7. QED
  BY <1>1, <1>2, <1>3, <1>4, <1>5, <1>6 DEF WorkerStep

LEMMA SubmitTypesKept ==
  ASSUME Types, NEW t \in Tasks, NEW o \in Outcomes, SubmitStep(t, o)
  PROVE  Types' /\ StaysCancelled
<1>1. CASE ReserveCredits(t, o)
  BY <1>1, ReserveFacts DEF ReserveCredits, redis, StaysCancelled
<1>2. CASE SaveNewTask(t, o)
  BY <1>2, SaveNewFacts DEF StaysCancelled
<1>3. CASE EnqueueWithGrace(t, o)
  BY <1>3, EnqueueFacts DEF EnqueueWithGrace, StaysCancelled
<1>4. CASE PersistCreate(t, o)
  BY <1>4, CreateFacts DEF PersistCreate, redis, StaysCancelled
<1>5. CASE RollBackSubmission(t, o)
  BY <1>5, RollBackFacts DEF RollBackSubmission, redis, StaysCancelled
<1>6. QED
  BY <1>1, <1>2, <1>3, <1>4, <1>5 DEF SubmitStep

LEMMA NextTypesKept ==
  ASSUME Types, Next
  PROVE  Types' /\ StaysCancelled
<1>1. CASE ChangeRule
  BY <1>1, RuleFacts DEF ChangeRule, redis, StaysCancelled
<1>2. CASE Crash
  BY <1>2, CrashFacts DEF Crash, redis, StaysCancelled
<1>3. ASSUME NEW t \in Tasks, DeadlinePasses(t) PROVE Types' /\ StaysCancelled
  BY <1>3, DeadlineFacts DEF DeadlinePasses, redis, StaysCancelled
<1>4. ASSUME NEW t \in Tasks, DeleteTask(t) PROVE Types' /\ StaysCancelled
  BY <1>4, DeleteFacts DEF StaysCancelled
<1>5. ASSUME NEW c \in Finishers, NEW t \in Tasks, RetryCancelledRefund(c, t)
      PROVE  Types' /\ StaysCancelled
  BY <1>5, RetryFacts DEF RetryCancelledRefund, redis, StaysCancelled
<1>6. ASSUME NEW o \in Outcomes, NEW c \in Finishers, NEW t \in Tasks, CancelTask(c, t, o)
      PROVE  Types' /\ StaysCancelled
  BY <1>6, CancelFacts DEF StaysCancelled
<1>7. ASSUME NEW o \in Outcomes, NEW c \in Finishers, FinishStep(c, o)
      PROVE  Types' /\ StaysCancelled
  BY <1>7, FinishFactsOf DEF CleanUp, MirrorCancelled, ReleaseCancelled, ForgetRefund, redis,
     StaysCancelled
<1>8. QED
  BY <1>1, <1>2, <1>3, <1>4, <1>5, <1>6, <1>7, WorkerTypesKept, SubmitTypesKept DEF Next

LEMMA InitTypes == Init => Types
<1>1. SUFFICES ASSUME Init PROVE Types
  OBVIOUS
<1>2. TaskTypes /\ SetTypes
  BY <1>1 DEF Init, TaskTypes, TaskRecord, SetTypes, NoTask, Statuses
<1>3. KindTypes /\ MirrorTypes /\ ClientTypes
  BY <1>1 DEF Init, KindTypes, MirrorTypes, ClientTypes, Statuses
<1>4. WorkerTypes
  BY <1>1, IdleType DEF Init, WorkerTypes, Manned, Off
<1>5. FinisherTypes
  BY <1>1 DEF Init, FinisherTypes, FinisherType, Assigned, Resting
<1>6. RuleTypes /\ MoneyTypes /\ PaidTypes /\ FaultTypes
  BY <1>1 DEF Init, Ledger!Init, RuleTypes, MoneyTypes, PaidTypes, FaultTypes
<1>7. QED
  BY <1>2, <1>3, <1>4, <1>5, <1>6 DEF Types

LEMMA StutterTypes == ASSUME Types, UNCHANGED vars PROVE Types'
BY TypesStay DEF Types, vars, redis, rule, ledger, provider

LEMMA QueueTypes == Spec => []Types
<1>1. Types /\ [Next]_vars => Types'
  BY NextTypesKept, StutterTypes
<1>2. QED
  BY <1>1, InitTypes, PTL DEF Spec

\* Whatever fails and whoever crashes, a record keeps its shape, a worker at work has a
\* task, and no worker survives more than three failing fail_task calls.
THEOREM QueueTypeCorrect == Spec => []TypeOK
BY QueueTypes, TypesAreTypeOK, PTL

\* Cancelled is a final status: every save of a worker goes through the script that leaves
\* a cancelled record alone, so a cancelled record can only be deleted.
THEOREM QueueCancelIsFinal == Spec => CancelIsFinal
<1>1. Types /\ [Next]_vars =>
        [\A t \in Tasks : task[t].status = "cancelled" =>
           task'[t].status \in {"cancelled", "none"}]_vars
  BY NextTypesKept DEF StaysCancelled
<1>2. QED
  BY <1>1, QueueTypes, PTL DEF Spec, CancelIsFinal

-----------------------------------------------------------------------------
(***************************************************************************)
(* Why a cancelled task was never paid for.  The script that begins the     *)
(* submission marks the record as submitted, the script that cancels        *)
(* refuses a record so marked, and neither mark is ever taken back; only a  *)
(* marked record is paid for or charged.  Once its refund is reported, a    *)
(* cancelled task holds nothing, because nobody reserves for it again.      *)
(***************************************************************************)
Submitted == {"start", "call", "poll", "progress", "complete", "quote", "freeze", "confirm",
              "save_completed", "index_completed"}
Settling == {"quote", "freeze", "confirm"}
Early == {"idle", "dead", "claim"}

TaskGuarded(t) ==
  /\ task[t].status = "cancelled" => task[t].dispatch # "submitted"
  /\ paid[t] > 0 \/ charges[t] > 0 => task[t].dispatch = "submitted"
  /\ task[t].refund = "completed" => task[t].status = "cancelled" /\ held[t] = 0
  /\ client[t] \in {"new", "save"} => task[t].status = "none"
  /\ client[t] = "new" => held[t] = 0
  /\ client[t] = "save" \/ task[t].status # "none" => (held[t] > 0 => billed[t] > 0)

WorkerGuarded(w) ==
  LET k == worker[w] IN
  /\ k.pc \notin Early => task[k.task].status # "none"
  /\ k.pc \in Submitted => task[k.task].dispatch = "submitted"
  /\ k.pc = "progress" => k.status \notin {"none", "cancelled"}
  /\ k.pc \in Settling => billed[k.task] > 0

FinisherGuarded(c) ==
  LET k == finisher[c] IN
  /\ k.pc # "idle" => task[k.task].status = "cancelled"
  /\ k.pc \in {"mark", "forget"} => held[k.task] = 0

Guarded ==
  /\ \A t \in Tasks : TaskGuarded(t)
  /\ \A w \in Workers : WorkerGuarded(w)
  /\ \A c \in Finishers : FinisherGuarded(c)

\* What no step undoes, as long as nobody deletes records.
Ratchet(t) ==
  /\ task[t].status # "none" => task'[t].status # "none"
  /\ task[t].status = "cancelled" => task'[t].status = "cancelled"
  /\ task[t].dispatch = "submitted" => task'[t].dispatch = "submitted"
  /\ task[t].status # "none" => billed'[t] = billed[t]
  /\ task[t].status = "cancelled" /\ held[t] = 0 => held'[t] = 0

\* Nothing about the task changes.
SameTask(t) ==
  /\ task'[t].status = task[t].status /\ task'[t].dispatch = task[t].dispatch
  /\ task'[t].refund = task[t].refund
  /\ client'[t] = client[t] /\ billed'[t] = billed[t] /\ held'[t] = held[t]
  /\ charges'[t] = charges[t] /\ paid'[t] = paid[t]

LEMMA SameIsGuarded ==
  ASSUME NEW t \in Tasks, TaskGuarded(t), SameTask(t)
  PROVE  TaskGuarded(t)' /\ Ratchet(t)
BY DEF TaskGuarded, SameTask, Ratchet

LEMMA WorkerStays ==
  ASSUME Types, NEW w \in Workers, WorkerGuarded(w), worker'[w] = worker[w],
         \A t \in Tasks : Ratchet(t)
  PROVE  WorkerGuarded(w)'
<1>1. worker[w].pc \notin Off => worker[w].task \in Tasks
  BY WorkerIs DEF Manned
<1>2. CASE worker[w].pc \in Off
  BY <1>2 DEF WorkerGuarded, Off, Early, Submitted, Settling
<1>3. CASE worker[w].pc = "claim"
  BY <1>3 DEF WorkerGuarded, Early, Submitted, Settling
<1>4. CASE worker[w].pc \notin Early
  BY <1>1, <1>4 DEF WorkerGuarded, Ratchet, Off, Early
<1>5. QED
  BY <1>2, <1>3, <1>4 DEF Early, Off

LEMMA FinisherStays ==
  ASSUME Types, NEW c \in Finishers, FinisherGuarded(c), finisher'[c] = finisher[c],
         \A t \in Tasks : Ratchet(t)
  PROVE  FinisherGuarded(c)'
<1>1. CASE finisher[c] = Resting
  BY <1>1 DEF FinisherGuarded, Resting
<1>2. CASE finisher[c].pc # "idle" /\ finisher[c].task \in Tasks
  BY <1>2 DEF FinisherGuarded, Ratchet
<1>3. QED
  BY <1>1, <1>2, FinisherIs DEF Assigned

\* A step of worker w that concerns task t.
LEMMA GuardedByWorker ==
  ASSUME Types, Guarded, NEW w \in Workers, NEW t \in Tasks, UNCHANGED finisher,
         \A v \in Workers : v # w => worker'[v] = worker[v],
         \A i \in Tasks : i # t => SameTask(i),
         TaskGuarded(t)', Ratchet(t), WorkerGuarded(w)'
  PROVE  Guarded'
<1>1. \A i \in Tasks : TaskGuarded(i)' /\ Ratchet(i)
  BY SameIsGuarded DEF Guarded
<1>2. \A v \in Workers : WorkerGuarded(v)'
  BY <1>1, WorkerStays DEF Guarded
<1>3. \A c \in Finishers : FinisherGuarded(c)'
  BY <1>1, FinisherStays DEF Guarded
<1>4. QED
  BY <1>1, <1>2, <1>3 DEF Guarded

\* Where the step leaves the worker.
LEMMA LeavesGuarded ==
  ASSUME Types, NEW w \in Workers, WorkerGuarded(w), NEW t \in Tasks, t = worker[w].task,
         Ratchet(t),
         \/ worker'[w] = Idle
         \/ worker[w].pc \notin Early /\ Turns(w, Raised(worker[w]))
         \/ worker[w].pc \notin Early /\ worker'[w].pc = "fail" /\ worker'[w].task = t
  PROVE  WorkerGuarded(w)'
<1>1. CASE worker'[w].pc \in {"idle", "dead"}
  BY <1>1 DEF WorkerGuarded, Early, Submitted, Settling
<1>2. CASE worker[w].pc \notin Early /\ worker'[w].pc = "fail" /\ worker'[w].task = t
  BY <1>2 DEF WorkerGuarded, Submitted, Settling, Ratchet
<1>3. QED
  BY <1>1, <1>2, WorkerIs, RaisedFacts, IdleType DEF Turns

LEMMA MovesGuarded ==
  ASSUME Types, NEW w \in Workers, WorkerGuarded(w), NEW t \in Tasks, t = worker[w].task,
         Ratchet(t), worker[w].pc \notin Early, worker'[w].task = t,
         worker'[w].pc # "progress",
         worker'[w].pc \in Submitted => worker[w].pc \in Submitted,
         worker'[w].pc \in Settling => worker[w].pc \in Settling \/ billed[t] > 0
  PROVE  WorkerGuarded(w)'
BY DEF WorkerGuarded, Ratchet

LEMMA CommandedGuarded ==
  ASSUME Types, NEW w \in Workers, WorkerGuarded(w), NEW t \in Tasks, t = worker[w].task,
         Ratchet(t), worker[w].pc \notin Early, NEW o, NEW pc, Commanded(w, o, pc),
         pc \notin Settling, pc # "progress",
         pc \in Submitted => worker[w].pc \in Submitted
  PROVE  WorkerGuarded(w)' /\ \A v \in Workers : v # w => worker'[v] = worker[v]
<1>1. CASE o # "ok" /\ Turns(w, Raised(worker[w]))
  BY <1>1, LeavesGuarded DEF Turns
<1>2. CASE Turns(w, Idle)
  BY <1>2, LeavesGuarded DEF Turns
<1>3. CASE Moves(w, pc)
  BY <1>3, MovesFacts, MovesGuarded
<1>4. QED
  BY <1>1, <1>2, <1>3 DEF Commanded

LEMMA Points ==
  ASSUME Types, NEW t \in Tasks
  PROVE  /\ held[t] \in Nat /\ billed[t] \in Nat /\ charges[t] \in Nat /\ price \in Nat
         /\ paid[t] \in Nat /\ known[t] \in Nat
<1>1. held[t] \in Prices \cup {0} /\ billed[t] \in Prices \cup {0} /\ price \in Prices
  BY DEF Types, MoneyTypes, RuleTypes
<1>2. Prices \subseteq Nat
  BY QueueAssumption
<1>3. charges[t] \in Nat /\ paid[t] \in Nat /\ known[t] \in Nat
  BY DEF Types, MoneyTypes, PaidTypes
<1>4. \A n \in Prices \cup {0} : n \in Nat
  BY <1>2
<1>5. held[t] \in Nat /\ billed[t] \in Nat /\ price \in Nat
  BY <1>1, <1>4
<1>6. QED
  BY <1>3, <1>5

LEMMA NothingElse ==
  ASSUME UNCHANGED <<task, client, billed, held, charges, paid>>
  PROVE  \A i \in Tasks : SameTask(i)
BY DEF SameTask

LEMMA AloneGuarded ==
  ASSUME Types, Guarded, NEW w \in Workers, UNCHANGED <<task, client, billed, paid, finisher>>,
         UNCHANGED <<held, charges>>,
         \A v \in Workers : v # w => worker'[v] = worker[v], WorkerGuarded(w)'
  PROVE  Guarded'
<1>1. \A i \in Tasks : SameTask(i)
  BY NothingElse
<1>2. \A i \in Tasks : TaskGuarded(i)' /\ Ratchet(i)
  BY <1>1, SameIsGuarded DEF Guarded
<1>3. \A v \in Workers : WorkerGuarded(v)'
  BY <1>2, WorkerStays DEF Guarded
<1>4. \A c \in Finishers : FinisherGuarded(c)'
  BY <1>2, FinisherStays DEF Guarded
<1>5. QED
  BY <1>2, <1>3, <1>4 DEF Guarded

LEMMA ScriptsGuarded ==
  ASSUME Types, Guarded, NEW w \in Workers, NEW o \in Outcomes,
         Dequeue(w) \/ ClaimForPreparation(w, o) \/ BeginSubmission(w, o)
  PROVE  Guarded'
<1>0. PICK t : t = worker[w].task
  OBVIOUS
<1>1. WorkerGuarded(w) /\ \A i \in Tasks : TaskGuarded(i)
  BY DEF Guarded
<1>2. CASE Dequeue(w)
  <2>1. worker'[w].pc = "claim" /\ \A v \in Workers : v # w => worker'[v] = worker[v]
    <3>1. PICK i \in Promoted : Turns(w, [Idle EXCEPT !.pc = "claim", !.task = i])
      BY <1>0, <1>2, DequeueFacts
    <3>2. QED
      BY <3>1 DEF Turns, Idle
  <2>2. WorkerGuarded(w)'
    BY <2>1 DEF WorkerGuarded, Early, Submitted, Settling
  <2>3. QED
    BY <1>2, <2>1, <2>2, AloneGuarded DEF Dequeue, ledger, provider
<1>3. CASE ClaimForPreparation(w, o)
  <2>1. /\ t \in Tasks /\ worker[w].pc = "claim"
        /\ \A i \in Tasks : i # t => task'[i] = task[i]
        /\ \/ task' = task
           \/ /\ Claimable(t) /\ task'[t].status = "processing"
              /\ task'[t].dispatch = IF task[t].dispatch = "submitted" THEN "submitted"
                                     ELSE "preparing"
              /\ task'[t].refund = task[t].refund
        /\ \/ Turns(w, Idle)
           \/ Moves(w, "begin") /\ task'[t].status = "processing"
    BY <1>0, <1>3, ClaimFacts
  <2>2. /\ UNCHANGED <<client, billed, held, charges, paid, finisher>>
        /\ task' # task => task[t].status = "queued"
    BY <1>3, <2>1 DEF ClaimForPreparation, Claimable, ledger, provider
  <2>3. TaskGuarded(t)' /\ Ratchet(t)
    BY <1>1, <2>1, <2>2 DEF TaskGuarded, Ratchet
  <2>4. WorkerGuarded(w)' /\ \A v \in Workers : v # w => worker'[v] = worker[v]
    <3>1. CASE Turns(w, Idle)
      BY <1>0, <1>1, <2>1, <2>3, <3>1, LeavesGuarded DEF Turns
    <3>2. CASE Moves(w, "begin") /\ task'[t].status = "processing"
      BY <1>0, <3>2, MovesFacts DEF WorkerGuarded, Submitted, Settling
    <3>3. QED
      BY <2>1, <3>1, <3>2
  <2>5. \A i \in Tasks : i # t => SameTask(i)
    BY <2>1, <2>2 DEF SameTask
  <2>6. QED
    BY <2>1, <2>2, <2>3, <2>4, <2>5, GuardedByWorker
<1>4. CASE BeginSubmission(w, o)
  <2>1. /\ t \in Tasks /\ worker[w].pc = "begin"
        /\ \A i \in Tasks : i # t => task'[i] = task[i]
        /\ \/ task' = task
           \/ /\ Submittable(t)
              /\ task'[t].dispatch = "submitted" /\ task'[t].status = task[t].status
              /\ task'[t].refund = task[t].refund
        /\ \/ worker'[w].pc = "fail" /\ worker'[w].task = t
           \/ Turns(w, Idle)
           \/ Moves(w, "start") /\ task'[t].dispatch = "submitted"
        /\ \A v \in Workers : v # w => worker'[v] = worker[v]
    BY <1>0, <1>4, BeginFacts
  <2>2. /\ UNCHANGED <<client, billed, held, charges, paid, finisher>>
        /\ task' # task => task[t].status = "processing"
    BY <1>4, <2>1 DEF BeginSubmission, Submittable, ledger, provider
  <2>3. TaskGuarded(t)' /\ Ratchet(t)
    BY <1>1, <2>1, <2>2 DEF TaskGuarded, Ratchet
  <2>4. WorkerGuarded(w)'
    <3>1. CASE worker'[w] = Idle \/ (worker'[w].pc = "fail" /\ worker'[w].task = t)
      BY <1>0, <1>1, <2>1, <2>3, <3>1, LeavesGuarded DEF Early
    <3>2. CASE Moves(w, "start") /\ task'[t].dispatch = "submitted"
      BY <1>0, <1>1, <2>1, <2>3, <3>2, MovesFacts
         DEF WorkerGuarded, Submitted, Settling, Early, Ratchet
    <3>3. QED
      BY <2>1, <3>1, <3>2 DEF Turns
  <2>5. \A i \in Tasks : i # t => SameTask(i)
    BY <2>1, <2>2 DEF SameTask
  <2>6. QED
    BY <2>1, <2>2, <2>3, <2>4, <2>5, GuardedByWorker
<1>5. QED
  BY <1>2, <1>3, <1>4

LEMMA HandlerGuarded ==
  ASSUME Types, Guarded, NEW w \in Workers, NEW o \in Outcomes, HandlerStep(w, o)
  PROVE  Guarded'
<1>0. PICK t : t = worker[w].task
  OBVIOUS
<1>1. WorkerGuarded(w) /\ \A i \in Tasks : TaskGuarded(i)
  BY DEF Guarded
<1>2. CASE RecordTaskStart(w)
  <2>1. /\ worker[w].pc = "start" /\ t \in Tasks /\ Moves(w, "call")
    BY <1>0, <1>2, StartFacts
  <2>2. UNCHANGED <<task, client, billed, held, charges, paid, finisher>>
    BY <1>2 DEF RecordTaskStart, redis, ledger, provider
  <2>3. Ratchet(t)
    BY <2>2 DEF Ratchet
  <2>4. WorkerGuarded(w)' /\ \A v \in Workers : v # w => worker'[v] = worker[v]
    BY <1>0, <1>1, <2>1, <2>3, MovesFacts, MovesGuarded DEF Early, Submitted, Settling
  <2>5. QED
    BY <2>2, <2>4, AloneGuarded
<1>3. CASE CallProvider(w, o)
  <2>1. /\ t \in Tasks /\ worker[w].pc = "call"
        /\ \A i \in Tasks : i # t => paid'[i] = paid[i]
        /\ \A v \in Workers : v # w => worker'[v] = worker[v]
        /\ Turns(w, Raised(worker[w])) \/ (worker'[w].pc = "poll" /\ worker'[w].task = t)
    BY <1>0, <1>3, CallFacts
  <2>2. UNCHANGED <<task, client, billed, held, charges, finisher>>
    BY <1>3 DEF CallProvider, redis, ledger
  <2>3. task[t].dispatch = "submitted" /\ task[t].status # "none"
    BY <1>0, <1>1, <2>1 DEF WorkerGuarded, Submitted, Early
  <2>4. TaskGuarded(t)' /\ Ratchet(t)
    BY <1>1, <2>1, <2>2, <2>3 DEF TaskGuarded, Ratchet
  <2>5. WorkerGuarded(w)' /\ \A v \in Workers : v # w => worker'[v] = worker[v]
    <3>1. CASE Turns(w, Raised(worker[w]))
      BY <1>0, <1>1, <2>1, <2>4, <3>1, LeavesGuarded DEF Early, Turns
    <3>2. CASE worker'[w].pc = "poll" /\ worker'[w].task = t
      BY <1>0, <1>1, <2>1, <2>4, <3>2, MovesGuarded DEF Early, Submitted, Settling
    <3>3. QED
      BY <2>1, <3>1, <3>2
  <2>6. \A i \in Tasks : i # t => SameTask(i)
    BY <2>1, <2>2 DEF SameTask
  <2>7. QED
    BY <2>1, <2>2, <2>4, <2>5, <2>6, GuardedByWorker
<1>4. CASE ProviderFails(w) \/ ProviderSucceeds(w)
  <2>1. /\ worker[w].pc \in {"call", "poll"} /\ t \in Tasks /\ UNCHANGED Others
        /\ \/ worker[w].pc = "poll" /\ Moves(w, "complete")
           \/ /\ worker'[w].pc = "fail" /\ worker'[w].task = t
              /\ \A v \in Workers : v # w => worker'[v] = worker[v]
    BY <1>0, <1>4, GenerationFacts
  <2>2. UNCHANGED <<task, client, billed, held, charges, paid, finisher>>
    BY <2>1 DEF Others, redis, ledger, provider
  <2>3. Ratchet(t)
    BY <2>2 DEF Ratchet
  <2>4. WorkerGuarded(w)' /\ \A v \in Workers : v # w => worker'[v] = worker[v]
    BY <1>0, <1>1, <2>1, <2>3, MovesFacts, MovesGuarded DEF Early, Submitted, Settling
  <2>5. QED
    BY <2>2, <2>4, AloneGuarded
<1>5. CASE ReadForProgress(w) \/ SaveProgress(w)
  <2>1. /\ t \in Tasks /\ \A v \in Workers : v # w => worker'[v] = worker[v]
        /\ worker'[w].task = t
        /\ \/ /\ UNCHANGED Others
              /\ worker[w].pc = "poll" /\ worker'[w].pc = "progress"
              /\ worker'[w].status = task[t].status /\ task[t].status # "none"
           \/ /\ SaveProgress(w)
              /\ worker[w].pc = "progress" /\ worker'[w].pc = "poll"
              /\ \A i \in Tasks : i # t => task'[i] = task[i]
              /\ task'[t].dispatch = task[t].dispatch /\ task'[t].refund = task[t].refund
              /\ task'[t].status = IF task[t].status = "cancelled" THEN "cancelled"
                                   ELSE worker[w].status
    BY <1>0, <1>5, ProgressFacts
  <2>2. task[t].dispatch = "submitted" /\ task[t].status \notin {"none", "cancelled"}
    BY <1>0, <1>1, <2>1 DEF WorkerGuarded, TaskGuarded, Submitted, Early
  <2>3. CASE UNCHANGED Others /\ worker'[w].pc = "progress"
    <3>1. UNCHANGED <<task, client, billed, held, charges, paid, finisher>>
      BY <2>3 DEF Others, redis, ledger, provider
    <3>2. WorkerGuarded(w)'
      BY <1>0, <2>1, <2>2, <2>3, <3>1 DEF WorkerGuarded, Submitted, Settling
    <3>3. QED
      BY <2>1, <3>1, <3>2, AloneGuarded
  <2>4. CASE SaveProgress(w) /\ worker[w].pc = "progress" /\ worker'[w].pc = "poll"
    <3>1. /\ UNCHANGED <<client, billed, held, charges, paid, finisher>>
          /\ \A i \in Tasks : i # t => task'[i] = task[i]
          /\ task'[t].dispatch = task[t].dispatch /\ task'[t].refund = task[t].refund
          /\ task'[t].status = worker[w].status
      BY <2>1, <2>2, <2>4 DEF SaveProgress, ledger, provider
    <3>2. worker[w].status \notin {"none", "cancelled"}
      BY <1>0, <1>1, <2>4 DEF WorkerGuarded
    <3>3. TaskGuarded(t)' /\ Ratchet(t)
      BY <1>1, <2>1, <2>2, <3>1, <3>2 DEF TaskGuarded, Ratchet
    <3>4. WorkerGuarded(w)'
      BY <1>0, <1>1, <2>1, <2>4, <3>3, MovesGuarded DEF Early, Submitted, Settling
    <3>5. \A i \in Tasks : i # t => SameTask(i)
      BY <3>1 DEF SameTask
    <3>6. QED
      BY <2>1, <3>1, <3>3, <3>4, <3>5, GuardedByWorker
  <2>5. QED
    BY <2>1, <2>3, <2>4
<1>6. QED
  BY <1>2, <1>3, <1>4, <1>5 DEF HandlerStep

LEMMA SavesGuarded ==
  ASSUME Types, Guarded, NEW w \in Workers, NEW o \in Outcomes, SavesStep(w, o)
  PROVE  Guarded'
<1>0. PICK t : t = worker[w].task
  OBVIOUS
<1>1. WorkerGuarded(w) /\ \A i \in Tasks : TaskGuarded(i)
  BY DEF Guarded
<1>2. /\ t \in Tasks /\ worker[w].pc \in {"save_completed", "save_queued", "save_failed"}
      /\ Commanded(w, o, AfterSave(worker[w].pc))
      /\ \A i \in Tasks : i # t => task'[i] = task[i]
      /\ \/ task' = task
         \/ /\ task'[t].dispatch = task[t].dispatch /\ task'[t].refund = task[t].refund
            /\ task'[t].status = IF task[t].status = "cancelled" THEN "cancelled"
                                 ELSE SavedStatus(worker[w].pc)
  BY <1>0, SavesFacts
<1>3. UNCHANGED <<client, billed, held, charges, paid, finisher>>
  BY DEF SavesStep, SaveCompleted, SaveQueued, SaveFailed, ledger, provider
<1>4. task[t].status # "none" /\ SavedStatus(worker[w].pc) \notin {"none", "cancelled"}
  BY <1>0, <1>1, <1>2 DEF WorkerGuarded, Early, SavedStatus
<1>5. TaskGuarded(t)' /\ Ratchet(t)
  BY <1>1, <1>2, <1>3, <1>4 DEF TaskGuarded, Ratchet
<1>6. /\ AfterSave(worker[w].pc) \notin Settling /\ AfterSave(worker[w].pc) # "progress"
      /\ AfterSave(worker[w].pc) \in Submitted => worker[w].pc \in Submitted
      /\ worker[w].pc \notin Early
  BY <1>2 DEF AfterSave, Settling, Submitted, Early
<1>7. WorkerGuarded(w)' /\ \A v \in Workers : v # w => worker'[v] = worker[v]
  BY <1>0, <1>1, <1>2, <1>5, <1>6, CommandedGuarded
<1>8. \A i \in Tasks : i # t => SameTask(i)
  BY <1>2, <1>3 DEF SameTask
<1>9. QED
  BY <1>2, <1>3, <1>5, <1>7, <1>8, GuardedByWorker

LEMMA CompleteGuarded ==
  ASSUME Types, Guarded, NEW w \in Workers, NEW o \in Outcomes, CompleteStep(w, o)
  PROVE  Guarded'
<1>0. PICK t : t = worker[w].task
  OBVIOUS
<1>1. WorkerGuarded(w) /\ \A i \in Tasks : TaskGuarded(i)
  BY DEF Guarded
<1>2. CASE CompleteTask(w, o)
  <2>1. /\ UNCHANGED Others /\ t \in Tasks /\ worker[w].pc = "complete"
        /\ \/ Turns(w, Idle)
           \/ /\ \A v \in Workers : v # w => worker'[v] = worker[v]
              /\ worker'[w].task = t
              /\ worker'[w].pc = IF billed[t] > 0 THEN "quote" ELSE "save_completed"
    BY <1>0, <1>2, CompleteFacts
  <2>2. UNCHANGED <<task, client, billed, held, charges, paid, finisher>>
    BY <2>1 DEF Others, redis, ledger, provider
  <2>3. Ratchet(t)
    BY <2>2 DEF Ratchet
  <2>4. WorkerGuarded(w)' /\ \A v \in Workers : v # w => worker'[v] = worker[v]
    <3>1. CASE Turns(w, Idle)
      BY <1>0, <1>1, <2>1, <2>3, <3>1, LeavesGuarded DEF Turns
    <3>2. CASE /\ \A v \in Workers : v # w => worker'[v] = worker[v]
               /\ worker'[w].task = t
               /\ worker'[w].pc = IF billed[t] > 0 THEN "quote" ELSE "save_completed"
      BY <1>0, <1>1, <2>1, <2>3, <3>2, MovesGuarded DEF Early, Submitted, Settling
    <3>3. QED
      BY <2>1, <3>1, <3>2
  <2>5. QED
    BY <2>2, <2>4, AloneGuarded
<1>3. CASE QuoteUsage(w)
  <2>1. /\ UNCHANGED Others /\ t \in Tasks /\ worker[w].pc = "quote"
        /\ \A v \in Workers : v # w => worker'[v] = worker[v]
        /\ worker'[w].task = t /\ worker'[w].pc \in {"save_completed", "freeze"}
    BY <1>0, <1>3, QuoteFacts
  <2>2. UNCHANGED <<task, client, billed, held, charges, paid, finisher>>
    BY <2>1 DEF Others, redis, ledger, provider
  <2>3. Ratchet(t)
    BY <2>2 DEF Ratchet
  <2>4. WorkerGuarded(w)'
    BY <1>0, <1>1, <2>1, <2>3, MovesGuarded DEF Early, Submitted, Settling
  <2>5. QED
    BY <2>1, <2>2, <2>4, AloneGuarded
<1>4. CASE FreezeUsage(w, o)
  <2>1. /\ t \in Tasks /\ worker[w].pc = "freeze"
        /\ \A v \in Workers : v # w => worker'[v] = worker[v]
        /\ worker'[w].task = t /\ worker'[w].pc \in {"save_completed", "confirm"}
        /\ charges' = charges /\ \A i \in Tasks : i # t => held'[i] = held[i]
    BY <1>0, <1>4, FreezeFacts
  <2>2. UNCHANGED <<task, client, billed, paid, finisher>>
    BY <1>4 DEF FreezeUsage, redis, provider
  <2>3. /\ task[t].dispatch = "submitted" /\ task[t].status \notin {"none", "cancelled"}
        /\ billed[t] > 0
    BY <1>0, <1>1, <2>1 DEF WorkerGuarded, TaskGuarded, Submitted, Settling, Early
  <2>4. TaskGuarded(t)' /\ Ratchet(t)
    BY <1>1, <2>1, <2>2, <2>3 DEF TaskGuarded, Ratchet
  <2>5. WorkerGuarded(w)'
    BY <1>0, <1>1, <2>1, <2>4, MovesGuarded DEF Early, Submitted, Settling
  <2>6. \A i \in Tasks : i # t => SameTask(i)
    BY <2>1, <2>2 DEF SameTask
  <2>7. QED
    BY <2>1, <2>2, <2>4, <2>5, <2>6, GuardedByWorker
<1>5. CASE ConfirmUsage(w, o)
  <2>1. /\ t \in Tasks /\ worker[w].pc = "confirm"
        /\ \A v \in Workers : v # w => worker'[v] = worker[v]
        /\ worker'[w].task = t /\ worker'[w].pc = "save_completed"
        /\ \A i \in Tasks : i # t => held'[i] = held[i] /\ charges'[i] = charges[i]
    BY <1>0, <1>5, ConfirmFacts
  <2>2. UNCHANGED <<task, client, billed, paid, finisher>>
    BY <1>5 DEF ConfirmUsage, redis, provider
  <2>3. /\ task[t].dispatch = "submitted" /\ task[t].status \notin {"none", "cancelled"}
        /\ billed[t] > 0
    BY <1>0, <1>1, <2>1 DEF WorkerGuarded, TaskGuarded, Submitted, Settling, Early
  <2>4. TaskGuarded(t)' /\ Ratchet(t)
    BY <1>1, <2>1, <2>2, <2>3 DEF TaskGuarded, Ratchet
  <2>5. WorkerGuarded(w)'
    BY <1>0, <1>1, <2>1, <2>4, MovesGuarded DEF Early, Submitted, Settling
  <2>6. \A i \in Tasks : i # t => SameTask(i)
    BY <2>1, <2>2 DEF SameTask
  <2>7. QED
    BY <2>1, <2>2, <2>4, <2>5, <2>6, GuardedByWorker
<1>6. CASE PersistCompleted(w, o)
  <2>1. t \in Tasks /\ worker[w].pc = "index_completed" /\ Commanded(w, o, "publish")
    BY <1>0, <1>6, PersistCompletedFacts
  <2>2. UNCHANGED <<task, client, billed, held, charges, paid, finisher>>
    BY <1>6 DEF PersistCompleted, redis, ledger, provider
  <2>3. Ratchet(t)
    BY <2>2 DEF Ratchet
  <2>4. WorkerGuarded(w)' /\ \A v \in Workers : v # w => worker'[v] = worker[v]
    BY <1>0, <1>1, <2>1, <2>3, CommandedGuarded DEF Early, Submitted, Settling
  <2>5. QED
    BY <2>2, <2>4, AloneGuarded
<1>7. CASE Publish(w, o)
  <2>1. t \in Tasks /\ worker[w].pc = "publish" /\ Commanded(w, o, "idle") /\ UNCHANGED Others
    BY <1>0, <1>7, PublishFacts DEF Commanded
  <2>2. UNCHANGED <<task, client, billed, held, charges, paid, finisher>>
    BY <2>1 DEF Others, redis, ledger, provider
  <2>3. Ratchet(t)
    BY <2>2 DEF Ratchet
  <2>4. WorkerGuarded(w)' /\ \A v \in Workers : v # w => worker'[v] = worker[v]
    BY <1>0, <1>1, <2>1, <2>3, CommandedGuarded DEF Early, Submitted, Settling
  <2>5. QED
    BY <2>2, <2>4, AloneGuarded
<1>8. QED
  BY <1>2, <1>3, <1>4, <1>5, <1>6, <1>7, SavesGuarded DEF CompleteStep, SavesStep

LEMMA FailGuarded ==
  ASSUME Types, Guarded, NEW w \in Workers, NEW o \in Outcomes, FailStep(w, o)
  PROVE  Guarded'
<1>0. PICK t : t = worker[w].task
  OBVIOUS
<1>1. WorkerGuarded(w) /\ \A i \in Tasks : TaskGuarded(i)
  BY DEF Guarded
<1>2. CASE FailTask(w, o)
  <2>1. /\ UNCHANGED Others /\ t \in Tasks /\ worker[w].pc = "fail"
        /\ \/ Turns(w, Idle)
           \/ /\ \A v \in Workers : v # w => worker'[v] = worker[v]
              /\ worker'[w].task = t
              /\ worker'[w].pc \in {"save_queued", "save_failed"}
    BY <1>0, <1>2, FailFacts
  <2>2. UNCHANGED <<task, client, billed, held, charges, paid, finisher>>
    BY <2>1 DEF Others, redis, ledger, provider
  <2>3. Ratchet(t)
    BY <2>2 DEF Ratchet
  <2>4. WorkerGuarded(w)' /\ \A v \in Workers : v # w => worker'[v] = worker[v]
    <3>1. CASE Turns(w, Idle)
      BY <1>0, <1>1, <2>1, <2>3, <3>1, LeavesGuarded DEF Turns
    <3>2. CASE /\ \A v \in Workers : v # w => worker'[v] = worker[v]
               /\ worker'[w].task = t
               /\ worker'[w].pc \in {"save_queued", "save_failed"}
      BY <1>0, <1>1, <2>1, <2>3, <3>2, MovesGuarded DEF Early, Submitted, Settling
    <3>3. QED
      BY <2>1, <3>1, <3>2
  <2>5. QED
    BY <2>2, <2>4, AloneGuarded
<1>3. CASE Requeue(w, o) \/ UnqueueFailed(w, o)
  <2>1. /\ t \in Tasks
        /\ \/ worker[w].pc = "requeue" /\ Commanded(w, o, "idle")
           \/ worker[w].pc = "unqueue" /\ Commanded(w, o, "release")
    BY <1>0, <1>3, QueueingFacts
  <2>2. UNCHANGED <<task, client, billed, held, charges, paid, finisher>>
    BY <1>3 DEF Requeue, UnqueueFailed, ledger, provider
  <2>3. Ratchet(t)
    BY <2>2 DEF Ratchet
  <2>4. WorkerGuarded(w)' /\ \A v \in Workers : v # w => worker'[v] = worker[v]
    BY <1>0, <1>1, <2>1, <2>3, CommandedGuarded DEF Early, Submitted, Settling
  <2>5. QED
    BY <2>2, <2>4, AloneGuarded
<1>4. CASE ReleaseFailed(w, o)
  <2>1. /\ t \in Tasks /\ worker[w].pc = "release" /\ Moves(w, "persist_failed")
        /\ charges' = charges /\ \A i \in Tasks : i # t => held'[i] = held[i]
        /\ held'[t] \in {held[t], 0}
    BY <1>0, <1>4, RefundFacts
  <2>2. UNCHANGED <<task, client, billed, paid, finisher>>
    BY <1>4 DEF ReleaseFailed, redis, provider
  <2>3. held[t] \in Nat
    BY <2>1, Points
  <2>4. TaskGuarded(t)' /\ Ratchet(t)
    BY <1>1, <2>1, <2>2, <2>3 DEF TaskGuarded, Ratchet
  <2>5. WorkerGuarded(w)' /\ \A v \in Workers : v # w => worker'[v] = worker[v]
    BY <1>0, <1>1, <2>1, <2>4, MovesFacts, MovesGuarded DEF Early, Submitted, Settling
  <2>6. \A i \in Tasks : i # t => SameTask(i)
    BY <2>1, <2>2 DEF SameTask
  <2>7. QED
    BY <2>1, <2>2, <2>4, <2>5, <2>6, GuardedByWorker
<1>5. CASE PersistFailed(w)
  <2>1. t \in Tasks /\ worker[w].pc = "persist_failed" /\ Moves(w, "publish")
    BY <1>0, <1>5, PersistFailedFacts
  <2>2. UNCHANGED <<task, client, billed, held, charges, paid, finisher>>
    BY <1>5 DEF PersistFailed, redis, ledger, provider
  <2>3. Ratchet(t)
    BY <2>2 DEF Ratchet
  <2>4. WorkerGuarded(w)' /\ \A v \in Workers : v # w => worker'[v] = worker[v]
    BY <1>0, <1>1, <2>1, <2>3, MovesFacts, MovesGuarded DEF Early, Submitted, Settling
  <2>5. QED
    BY <2>2, <2>4, AloneGuarded
<1>6. QED
  BY <1>2, <1>3, <1>4, <1>5, SavesGuarded DEF FailStep, SavesStep

\* A step of a submission, or of a cancellation, that concerns task t.
LEMMA GuardedByTask ==
  ASSUME Types, Guarded, NEW t \in Tasks, UNCHANGED worker,
         \A i \in Tasks : i # t => SameTask(i),
         TaskGuarded(t)', Ratchet(t),
         \A c \in Finishers : finisher'[c] = finisher[c] \/ FinisherGuarded(c)'
  PROVE  Guarded'
<1>1. \A i \in Tasks : TaskGuarded(i)' /\ Ratchet(i)
  BY SameIsGuarded DEF Guarded
<1>2. \A v \in Workers : WorkerGuarded(v)'
  BY <1>1, WorkerStays DEF Guarded
<1>3. \A c \in Finishers : FinisherGuarded(c)'
  BY <1>1, FinisherStays DEF Guarded
<1>4. QED
  BY <1>1, <1>2, <1>3 DEF Guarded

LEMMA SubmitGuarded ==
  ASSUME Types, Guarded, NEW t \in Tasks, NEW o \in Outcomes, SubmitStep(t, o)
  PROVE  Guarded'
<1>1. TaskGuarded(t)
  BY DEF Guarded
<1>2. CASE ReserveCredits(t, o)
  <2>1. /\ client[t] = "new"
        /\ client'[t] = (IF o = "ok" THEN "save" ELSE "rejected")
        /\ \A i \in Tasks : i # t => /\ client'[i] = client[i] /\ billed'[i] = billed[i]
                                     /\ held'[i] = held[i]
        /\ charges' = charges
        /\ billed'[t] = IF o = "ok" THEN price ELSE 0
        /\ held'[t] = IF price > 0 /\ o # "unsent" THEN price ELSE held[t]
    BY <1>2, ReserveFacts
  <2>2. UNCHANGED <<task, paid, worker, finisher>>
    BY <1>2 DEF ReserveCredits, redis, provider
  <2>3. task[t].status = "none" /\ held[t] = 0
    BY <1>1, <2>1 DEF TaskGuarded
  <2>4. TaskGuarded(t)' /\ Ratchet(t)
    BY <1>1, <2>1, <2>2, <2>3 DEF TaskGuarded, Ratchet
  <2>5. \A i \in Tasks : i # t => SameTask(i)
    BY <2>1, <2>2 DEF SameTask
  <2>6. QED
    BY <2>2, <2>4, <2>5, GuardedByTask
<1>3. CASE SaveNewTask(t, o)
  <2>1. /\ client[t] = "save"
        /\ client'[t] = (IF o = "ok" THEN "enqueue" ELSE "rollback")
        /\ \A i \in Tasks : i # t => client'[i] = client[i] /\ task'[i] = task[i]
        /\ \/ task' = task
           \/ /\ task'[t].dispatch = task[t].dispatch /\ task'[t].refund = task[t].refund
              /\ task'[t].status = IF task[t].status = "cancelled" THEN "cancelled"
                                   ELSE "queued"
    BY <1>3, SaveNewFacts
  <2>2. UNCHANGED <<billed, held, charges, paid, worker, finisher>>
    BY <1>3 DEF SaveNewTask, ledger, provider
  <2>3. task[t].status = "none"
    BY <1>1, <2>1 DEF TaskGuarded
  <2>4. TaskGuarded(t)' /\ Ratchet(t)
    BY <1>1, <2>1, <2>2, <2>3 DEF TaskGuarded, Ratchet
  <2>5. \A i \in Tasks : i # t => SameTask(i)
    BY <2>1, <2>2 DEF SameTask
  <2>6. QED
    BY <2>2, <2>4, <2>5, GuardedByTask
<1>4. CASE EnqueueWithGrace(t, o) \/ PersistCreate(t, o)
  <2>1. /\ client[t] \in {"enqueue", "persist"} /\ client'[t] \notin {"new", "save"}
        /\ \A i \in Tasks : i # t => client'[i] = client[i]
    BY <1>4, EnqueueFacts, CreateFacts
  <2>2. UNCHANGED <<task, billed, held, charges, paid, worker, finisher>>
    BY <1>4 DEF EnqueueWithGrace, PersistCreate, redis, ledger, provider
  <2>3. TaskGuarded(t)' /\ Ratchet(t)
    BY <1>1, <2>1, <2>2 DEF TaskGuarded, Ratchet
  <2>4. \A i \in Tasks : i # t => SameTask(i)
    BY <2>1, <2>2 DEF SameTask
  <2>5. QED
    BY <2>2, <2>3, <2>4, GuardedByTask
<1>5. CASE RollBackSubmission(t, o)
  <2>1. /\ client[t] = "rollback" /\ client'[t] = "rejected" /\ charges' = charges
        /\ \A i \in Tasks : i # t => client'[i] = client[i] /\ held'[i] = held[i]
        /\ held'[t] \in {held[t], 0}
    BY <1>5, RollBackFacts
  <2>2. UNCHANGED <<task, billed, paid, worker, finisher>>
    BY <1>5 DEF RollBackSubmission, redis, provider
  <2>3. TaskGuarded(t)' /\ Ratchet(t)
    BY <1>1, <2>1, <2>2, Points DEF TaskGuarded, Ratchet
  <2>4. \A i \in Tasks : i # t => SameTask(i)
    BY <2>1, <2>2 DEF SameTask
  <2>5. QED
    BY <2>2, <2>3, <2>4, GuardedByTask
<1>6. QED
  BY <1>2, <1>3, <1>4, <1>5 DEF SubmitStep

LEMMA CancelGuarded ==
  ASSUME Types, Guarded, NEW c \in Finishers, NEW t \in Tasks,
         RetryCancelledRefund(c, t) \/ (\E o \in Outcomes : CancelTask(c, t, o))
  PROVE  Guarded'
<1>1. TaskGuarded(t)
  BY DEF Guarded
<1>2. CASE RetryCancelledRefund(c, t)
  <2>1. /\ task[t].status = "cancelled"
        /\ FinisherTurns(c, [pc |-> "cleanup", task |-> t])
    BY <1>2, RetryFacts
  <2>2. UNCHANGED <<task, client, billed, held, charges, paid, worker>>
    BY <1>2 DEF RetryCancelledRefund, redis, ledger, provider
  <2>3. \A i \in Tasks : SameTask(i)
    BY <2>2, NothingElse
  <2>4. TaskGuarded(t)' /\ Ratchet(t)
    BY <1>1, <2>3, SameIsGuarded
  <2>5. FinisherGuarded(c)'
    BY <2>1, <2>2 DEF FinisherGuarded, FinisherTurns
  <2>6. QED
    BY <2>1, <2>2, <2>3, <2>4, <2>5, GuardedByTask DEF FinisherTurns
<1>3. ASSUME NEW o \in Outcomes, CancelTask(c, t, o)
      PROVE  Guarded'
  <2>1. /\ \A i \in Tasks : i # t => task'[i] = task[i]
        /\ \/ task' = task
           \/ /\ Cancellable(t) /\ task'[t].status = "cancelled"
              /\ task'[t].dispatch = task[t].dispatch /\ task'[t].refund = "pending"
        /\ \/ finisher' = finisher
           \/ FinisherTurns(c, [pc |-> "cleanup", task |-> t]) /\ task'[t].status = "cancelled"
    BY <1>3, CancelFacts
  <2>2. UNCHANGED <<client, billed, held, charges, paid, worker>>
    BY <1>3 DEF CancelTask, ledger, provider
  <2>3. Cancellable(t) => task[t].dispatch # "submitted" /\ task[t].status # "none"
    BY DEF Cancellable
  <2>4. TaskGuarded(t)' /\ Ratchet(t)
    BY <1>1, <2>1, <2>2, <2>3 DEF TaskGuarded, Ratchet
  <2>5. \A d \in Finishers : finisher'[d] = finisher[d] \/ FinisherGuarded(d)'
    <3>1. CASE finisher' = finisher
      BY <3>1
    <3>2. CASE FinisherTurns(c, [pc |-> "cleanup", task |-> t])
                 /\ task'[t].status = "cancelled"
      BY <3>2 DEF FinisherGuarded, FinisherTurns
    <3>3. QED
      BY <2>1, <3>1, <3>2
  <2>6. \A i \in Tasks : i # t => SameTask(i)
    BY <2>1, <2>2 DEF SameTask
  <2>7. QED
    BY <2>2, <2>4, <2>5, <2>6, GuardedByTask
<1>4. QED
  BY <1>2, <1>3

LEMMA FinishGuarded ==
  ASSUME Types, Guarded, NEW c \in Finishers, NEW o \in Outcomes, FinishStep(c, o)
  PROVE  Guarded'
<1>0. PICK t : t = finisher[c].task
  OBVIOUS
<1>1. t \in Tasks /\ finisher[c].pc # "idle"
  BY <1>0, FinishFactsOf
<1>2. TaskGuarded(t) /\ FinisherGuarded(c)
  BY <1>1 DEF Guarded
<1>3. task[t].status = "cancelled"
  BY <1>0, <1>1, <1>2 DEF FinisherGuarded
<1>4. ASSUME NEW pc, FinisherCommanded(c, o, pc), Ratchet(t),
             o = "ok" /\ pc \in {"mark", "forget"} => held'[t] = 0
      PROVE  \A d \in Finishers : finisher'[d] = finisher[d] \/ FinisherGuarded(d)'
  <2>1. FinisherGuarded(c)'
    <3>1. CASE FinisherTurns(c, Resting)
      BY <3>1 DEF FinisherGuarded, FinisherTurns, Resting
    <3>2. CASE o = "ok" /\ finisher'[c].pc = pc /\ finisher'[c].task = t
      BY <1>3, <1>4, <3>2 DEF FinisherGuarded, Ratchet
    <3>3. QED
      BY <1>0, <1>4, <3>1, <3>2 DEF FinisherCommanded
  <2>2. QED
    BY <1>4, <2>1 DEF FinisherCommanded, FinisherTurns
<1>5. CASE CleanUp(c, o) /\ FinisherCommanded(c, o, "mirror")
  <2>1. UNCHANGED <<task, client, billed, held, charges, paid, worker>>
    BY <1>5 DEF CleanUp, ledger, provider
  <2>2. \A i \in Tasks : SameTask(i)
    BY <2>1, NothingElse
  <2>3. TaskGuarded(t)' /\ Ratchet(t)
    BY <1>1, <1>2, <2>2, SameIsGuarded
  <2>4. QED
    BY <1>1, <1>4, <1>5, <2>1, <2>2, <2>3, GuardedByTask
<1>6. CASE MirrorCancelled(c, o) /\ FinisherCommanded(c, o, "release")
  <2>1. UNCHANGED <<task, client, billed, held, charges, paid, worker>>
    BY <1>6 DEF MirrorCancelled, redis, ledger, provider
  <2>2. \A i \in Tasks : SameTask(i)
    BY <2>1, NothingElse
  <2>3. TaskGuarded(t)' /\ Ratchet(t)
    BY <1>1, <1>2, <2>2, SameIsGuarded
  <2>4. QED
    BY <1>1, <1>4, <1>6, <2>1, <2>2, <2>3, GuardedByTask
<1>7. CASE ReleaseCancelled(c, o) /\ FinisherCommanded(c, o, "mark")
  <2>1. /\ charges' = charges /\ \A i \in Tasks : i # t => held'[i] = held[i]
        /\ held'[t] \in {held[t], 0}
        /\ o = "ok" => held'[t] = IF billed[t] > 0 /\ held[t] > 0 THEN 0 ELSE held[t]
    BY <1>0, <1>7, FinishFactsOf DEF ReleaseCancelled, CleanUp, MirrorCancelled, MarkRefunded,
       ForgetRefund, Finishing
  <2>2. UNCHANGED <<task, client, billed, paid, worker>>
    BY <1>7 DEF ReleaseCancelled, redis, provider
  <2>3. TaskGuarded(t)' /\ Ratchet(t)
    BY <1>1, <1>2, <2>1, <2>2, Points DEF TaskGuarded, Ratchet
  <2>4. o = "ok" => held'[t] = 0
    BY <1>1, <1>2, <1>3, <2>1, Points DEF TaskGuarded
  <2>5. \A i \in Tasks : i # t => SameTask(i)
    BY <2>1, <2>2 DEF SameTask
  <2>6. QED
    BY <1>1, <1>4, <1>7, <2>2, <2>3, <2>4, <2>5, GuardedByTask
<1>8. CASE MarkRefunded(c, o) /\ FinisherCommanded(c, o, "forget")
  <2>1. /\ finisher[c].pc = "mark"
        /\ \A i \in Tasks : i # t => task'[i] = task[i]
        /\ task'[t].status = task[t].status /\ task'[t].dispatch = task[t].dispatch
        /\ task'[t].refund \in {task[t].refund, "completed"}
    BY <1>0, <1>8, FinishFactsOf DEF ReleaseCancelled, CleanUp, MirrorCancelled, MarkRefunded,
       ForgetRefund, Finishing
  <2>2. UNCHANGED <<client, billed, held, charges, paid, worker>>
    BY <1>8 DEF MarkRefunded, ledger, provider
  <2>3. held[t] = 0
    BY <1>0, <1>2, <2>1 DEF FinisherGuarded
  <2>4. TaskGuarded(t)' /\ Ratchet(t)
    BY <1>2, <1>3, <2>1, <2>2, <2>3 DEF TaskGuarded, Ratchet
  <2>5. \A i \in Tasks : i # t => SameTask(i)
    BY <2>1, <2>2 DEF SameTask
  <2>6. QED
    BY <1>1, <1>4, <1>8, <2>2, <2>3, <2>4, <2>5, GuardedByTask
<1>9. CASE ForgetRefund(c, o) /\ FinisherCommanded(c, o, "idle")
  <2>1. UNCHANGED <<task, client, billed, held, charges, paid, worker>>
    BY <1>9 DEF ForgetRefund, ledger, provider
  <2>2. \A i \in Tasks : SameTask(i)
    BY <2>1, NothingElse
  <2>3. TaskGuarded(t)' /\ Ratchet(t)
    BY <1>1, <1>2, <2>2, SameIsGuarded
  <2>4. QED
    BY <1>1, <1>4, <1>9, <2>1, <2>2, <2>3, GuardedByTask
<1>10. QED
  BY <1>5, <1>6, <1>7, <1>8, <1>9, FinishCommands

LEMMA OtherGuarded ==
  ASSUME Types, Guarded, ChangeRule \/ Crash \/ \E t \in Tasks : DeadlinePasses(t)
  PROVE  Guarded'
<1>1. CASE ChangeRule \/ \E t \in Tasks : DeadlinePasses(t)
  <2>1. UNCHANGED <<task, client, billed, held, charges, paid, worker, finisher>>
    BY <1>1 DEF ChangeRule, DeadlinePasses, redis, ledger, provider
  <2>2. \A i \in Tasks : TaskGuarded(i)' /\ Ratchet(i)
    BY <2>1, NothingElse, SameIsGuarded DEF Guarded
  <2>3. QED
    BY <2>1, <2>2, WorkerStays, FinisherStays DEF Guarded
<1>2. CASE Crash
  <2>1. UNCHANGED <<task, billed, held, charges, paid>>
    BY <1>2 DEF Crash, redis, ledger, provider
  <2>2. ASSUME NEW i \in Tasks PROVE TaskGuarded(i)'
    <3>1. /\ client'[i] \in {"new", "save"} => client'[i] = client[i]
          /\ client'[i] = "save" => FALSE
      BY <1>2, CrashFacts
    <3>2. QED
      BY <2>1, <3>1 DEF Guarded, TaskGuarded
  <2>3. \A w \in Workers : WorkerGuarded(w)'
    BY <1>2, CrashFacts, IdleType DEF WorkerGuarded, Early, Submitted, Settling
  <2>4. \A c \in Finishers : FinisherGuarded(c)'
    BY <1>2, CrashFacts DEF FinisherGuarded, Resting
  <2>5. QED
    BY <2>2, <2>3, <2>4 DEF Guarded
<1>3. QED
  BY <1>1, <1>2

LEMMA NextGuarded ==
  ASSUME ~ WithDeletion, Types, Guarded, [Next]_vars
  PROVE  Guarded'
<1>1. CASE UNCHANGED vars
  <2>1. UNCHANGED <<task, client, billed, held, charges, paid, worker, finisher>>
    BY <1>1 DEF vars, redis, ledger, provider
  <2>2. \A i \in Tasks : TaskGuarded(i)' /\ Ratchet(i)
    BY <2>1, NothingElse, SameIsGuarded DEF Guarded
  <2>3. QED
    BY <2>1, <2>2, WorkerStays, FinisherStays DEF Guarded
<1>2. ASSUME NEW o \in Outcomes, NEW w \in Workers, WorkerStep(w, o) PROVE Guarded'
  BY <1>2, ScriptsGuarded, HandlerGuarded, CompleteGuarded, FailGuarded DEF WorkerStep
<1>3. ~ \E t \in Tasks : DeleteTask(t)
  BY DEF DeleteTask
<1>4. CASE Next
  BY <1>2, <1>3, <1>4, OtherGuarded, SubmitGuarded, CancelGuarded, FinishGuarded DEF Next
<1>5. QED
  BY <1>1, <1>4

LEMMA InitGuarded == Init => Guarded
<1>1. SUFFICES ASSUME Init PROVE Guarded
  OBVIOUS
<1>2. ASSUME NEW t \in Tasks PROVE TaskGuarded(t)
  <2>1. /\ task[t].status = "none" /\ task[t].refund = ""
        /\ held[t] = 0 /\ charges[t] = 0 /\ paid[t] = 0
    BY <1>1 DEF Init, Ledger!Init, NoTask
  <2>2. \A n : n = 0 => ~ (n > 0)
    OBVIOUS
  <2>3. ~ (paid[t] > 0) /\ ~ (charges[t] > 0) /\ ~ (held[t] > 0)
    BY <2>1, <2>2
  <2>4. QED
    BY <2>1, <2>3 DEF TaskGuarded
<1>3. \A w \in Workers : WorkerGuarded(w)
  BY <1>1, IdleType DEF Init, WorkerGuarded, Early, Submitted, Settling
<1>4. \A c \in Finishers : FinisherGuarded(c)
  BY <1>1 DEF Init, FinisherGuarded, Resting
<1>5. QED
  BY <1>2, <1>3, <1>4 DEF Guarded

\* Nobody who works on a record is at odds with what its dispatch_state, its status and its
\* refund_status say, whichever commands fail and however often the process dies.
THEOREM QueueGuardInvariant ==
  ASSUME ~ WithDeletion
  PROVE  Spec => []Guarded
<1>1. Types /\ Guarded /\ [Next]_vars => Guarded'
  BY NextGuarded
<1>2. QED
  BY <1>1, InitGuarded, QueueTypes, PTL DEF Spec

\* "Only queued tasks that have not been submitted can be cancelled and refunded": a
\* cancelled task was never paid for or charged, and a refund reported as completed has
\* left nothing reserved.
THEOREM QueueCancelledUnpaid ==
  ASSUME ~ WithDeletion
  PROVE  Spec => []CancelledUnpaid
<1>1. Types /\ Guarded => CancelledUnpaid
  <2>1. SUFFICES ASSUME Types, Guarded, NEW t \in Tasks, task[t].status = "cancelled"
                 PROVE  /\ paid[t] = 0 /\ charges[t] = 0
                        /\ task[t].refund = "completed" => held[t] = 0
    BY DEF CancelledUnpaid
  <2>2. TaskGuarded(t)
    BY <2>1 DEF Guarded
  <2>3. QED
    BY <2>1, <2>2, Points DEF TaskGuarded
<1>2. QED
  BY <1>1, QueueTypes, QueueGuardInvariant, PTL
-----------------------------------------------------------------------------
(***************************************************************************)
(* Until the first command fails.  A task is in one pair of hands: its      *)
(* submission's, the queue's or one worker's; what its record, its row and  *)
(* its reservation say follows from whose they are.  Users may cancel and   *)
(* delete, and the rule may be edited.                                      *)
(***************************************************************************)
Busy == {"start", "call", "poll", "progress", "complete", "quote", "freeze", "confirm",
         "save_completed", "fail", "save_queued", "save_failed"}
Free(t) == \A w \in Workers : worker[w].task # t
Waits(t) == t \in pending \/ t \in deferred
Entering == {"new", "save", "enqueue"}

\* What the status of a task can be while a worker is at pc with it.
Fate(pc) ==
  IF pc \in Busy THEN {"processing"}
  ELSE IF pc = "claim" THEN {"queued", "cancelled", "none"}
  ELSE IF pc = "begin" THEN {"processing", "cancelled", "none"}
  ELSE IF pc = "requeue" THEN {"queued"}
  ELSE IF pc = "index_completed" THEN {"completed", "none"}
  ELSE IF pc = "publish" THEN {"completed", "failed", "none"}
  ELSE {"failed", "none"}

\* From here on the row is there and is not cancelled.
Shown == (Busy \ {"start"}) \cup {"requeue", "index_completed", "unqueue", "release",
                                  "persist_failed"}
Unknowing == {"claim", "begin", "start", "call", "save_queued", "requeue"}

Intact(t) == held[t] = billed[t] /\ charges[t] = 0
PaidUp(t) == held[t] = 0 /\ (billed[t] > 0 => charges[t] = 1)

Token(t) ==
  /\ client[t] \in Entering => Free(t) /\ ~ Waits(t) /\ paid[t] = 0 /\ known[t] = 0
  /\ client[t] \in {"new", "save"} => task[t].status = "none" /\ mirror[t] = "none"
  /\ client[t] = "enqueue" => task[t].status \in {"queued", "cancelled", "none"}
  /\ client[t] \notin {"rollback", "rejected"}
  /\ ~ (t \in pending /\ t \in deferred)
  /\ Waits(t) => Free(t) /\ task[t].status \in {"queued", "cancelled", "none"}
  /\ t \in pending => WindowClosed(t)
  /\ Free(t) => task[t].status # "processing"
  /\ Free(t) /\ task[t].status = "queued" => client[t] = "enqueue" \/ Waits(t)

Dues(t) ==
  /\ client[t] = "new" => billed[t] = 0
  /\ client[t] \in {"new", "save"} => Intact(t)
  /\ client[t] # "new" /\ changes = 0 => billed[t] = price
  /\ held[t] \in {0, billed[t]}
  /\ task[t].status = "queued" => Intact(t)
  /\ task[t].status = "completed" /\ changes = 0 => PaidUp(t)
  /\ task[t].status \in {"failed", "cancelled"} => charges[t] = 0
  /\ task[t].status = "failed" /\ Free(t) => held[t] = 0

Marks(t) ==
  /\ task[t].refund = "completed" => task[t].status = "cancelled" /\ held[t] = 0
  /\ task[t].status = "cancelled" => task[t].dispatch # "submitted"
  /\ paid[t] > 0 /\ task[t].status # "none" => task[t].dispatch = "submitted"

Row(t) ==
  /\ mirror[t] = "cancelled" => task[t].status \in {"cancelled", "none"}
  /\ task[t].status \in {"completed", "failed"} /\ Free(t) => mirror[t] = task[t].status

Kept(t) ==
  KeepsProviderId(t) /\ known[t] > 0 =>
    ~ Waits(t) /\ task[t].status \notin {"queued", "cancelled"}

TaskCalm(t) == Token(t) /\ Dues(t) /\ Marks(t) /\ Row(t) /\ Kept(t)

Placed(w) ==
  LET k == worker[w]
      s == task[k.task].status IN
  /\ s \in Fate(k.pc) /\ WindowClosed(k.task)
  /\ k.pc \in Busy \cup {"requeue"} => task[k.task].dispatch = "submitted"
  /\ k.pc = "progress" => k.status = "processing"
  /\ k.pc \in Shown /\ s # "none" => mirror[k.task] \notin {"none", "cancelled"}
  /\ k.pc = "publish" /\ s # "none" => mirror[k.task] = s

Purse(w) ==
  LET k == worker[w]
      t == k.task
      s == task[t].status IN
  /\ k.pc \in Busy \ {"save_completed"} \/ (k.pc = "begin" /\ s = "processing") => Intact(t)
  /\ k.pc = "save_completed" /\ changes = 0 => PaidUp(t)
  /\ k.pc \in Settling => billed[t] > 0
  /\ k.pc = "freeze" => k.quote > 0 /\ (changes = 0 => k.quote = billed[t])
  /\ k.pc = "confirm" => k.quote = held[t]
  /\ k.pc \in {"persist_failed", "publish"} /\ s = "failed" => held[t] = 0

Knows(w) ==
  LET k == worker[w] IN
  KeepsProviderId(k.task) /\ known[k.task] > 0 =>
    k.pc \notin Unknowing /\ k.accepted /\ (k.pc = "fail" => ~ k.retry)

WorkerCalm(w) ==
  worker[w].pc # "idle" => worker[w].pc # "dead" /\ Placed(w) /\ Purse(w) /\ Knows(w)

\* No two workers have the same task.
Sole ==
  \A v, w \in Workers : v # w /\ worker[v].task # None => worker[v].task # worker[w].task

FinisherCalm(c) ==
  LET t == finisher[c].task IN
  finisher[c].pc # "idle" =>
    /\ client[t] \notin {"new", "save"} /\ task[t].status \in {"cancelled", "none"}
    /\ finisher[c].pc \in {"mark", "forget"} => held[t] = 0

AllCalm ==
  /\ Sole
  /\ \A t \in Tasks : TaskCalm(t)
  /\ \A w \in Workers : WorkerCalm(w)
  /\ \A c \in Finishers : FinisherCalm(c)

\* Until the first command fails.
Calm == faults = 0 => AllCalm

\* A step leaves task i, and whoever has it, alone.
Untouched(i) ==
  /\ task'[i] = task[i] /\ mirror'[i] = mirror[i] /\ client'[i] = client[i]
  /\ billed'[i] = billed[i] /\ held'[i] = held[i] /\ charges'[i] = charges[i]
  /\ paid'[i] = paid[i] /\ known'[i] = known[i]
  /\ kind'[i] = kind[i] /\ elapsed'[i] = elapsed[i]
  /\ i \in pending' <=> i \in pending
  /\ i \in deferred' <=> i \in deferred
  /\ price' = price /\ changes' = changes

\* What a cancellation relies on.
Settled(i) ==
  client[i] \notin {"new", "save"} /\ task[i].status \in {"cancelled", "none"} =>
    /\ client'[i] \notin {"new", "save"} /\ task'[i].status \in {"cancelled", "none"}
    /\ held[i] = 0 => held'[i] = 0

LEMMA UntouchedTask ==
  ASSUME NEW i \in Tasks, TaskCalm(i), Untouched(i), Free(i)' <=> Free(i)
  PROVE  TaskCalm(i)' /\ Settled(i)
<1>1. Token(i)'
  BY DEF TaskCalm, Token, Untouched, Entering, Waits, WindowClosed, HasGrace
<1>2. Dues(i)' /\ Marks(i)'
  BY DEF TaskCalm, Dues, Marks, Untouched, Intact, PaidUp
<1>3. Row(i)' /\ Kept(i)'
  BY DEF TaskCalm, Row, Kept, Untouched, Waits, KeepsProviderId
<1>4. QED
  BY <1>1, <1>2, <1>3 DEF TaskCalm, Settled, Untouched

LEMMA UntouchedWorker ==
  ASSUME Types, NEW v \in Workers, WorkerCalm(v), worker'[v] = worker[v],
         \A i \in Tasks : i = worker[v].task => Untouched(i)
  PROVE  WorkerCalm(v)'
<1>0. PICK k : k = worker[v]
  OBVIOUS
<1>1. CASE k.pc = "idle"
  BY <1>0, <1>1 DEF WorkerCalm
<1>2. CASE k.pc # "idle"
  <2>1. k.pc \notin Off /\ Untouched(k.task)
    BY <1>0, <1>2, WorkerIs DEF WorkerCalm, Off, Manned
  <2>2. Placed(v)'
    BY <1>0, <1>2, <2>1 DEF WorkerCalm, Placed, Untouched, WindowClosed, HasGrace
  <2>3. Purse(v)'
    BY <1>0, <1>2, <2>1 DEF WorkerCalm, Purse, Untouched, Intact, PaidUp
  <2>4. Knows(v)'
    BY <1>0, <1>2, <2>1 DEF WorkerCalm, Knows, Untouched, KeepsProviderId
  <2>5. QED
    BY <1>0, <1>2, <2>2, <2>3, <2>4 DEF WorkerCalm
<1>3. QED
  BY <1>1, <1>2

LEMMA UntouchedFinisher ==
  ASSUME Types, NEW c \in Finishers, FinisherCalm(c), finisher'[c] = finisher[c],
         \A i \in Tasks : Settled(i)
  PROVE  FinisherCalm(c)'
<1>1. CASE finisher[c] = Resting
  BY <1>1 DEF FinisherCalm, Resting
<1>2. CASE finisher[c].pc # "idle" /\ finisher[c].task \in Tasks
  BY <1>2 DEF FinisherCalm, Settled
<1>3. QED
  BY <1>1, <1>2, FinisherIs DEF Assigned

\* A step of worker w concerns task t and nothing else.
Minds(w, t) ==
  /\ \A v \in Workers : v # w => worker'[v] = worker[v]
  /\ \A i \in Tasks : i # t => Untouched(i)
  /\ UNCHANGED finisher

LEMMA FreeElsewhere ==
  ASSUME NEW w \in Workers, NEW t, NEW i, i # t, worker[w].task \in {t, None},
         worker'[w].task \in {t, None}, i # None,
         \A v \in Workers : v # w => worker'[v] = worker[v]
  PROVE  Free(i)' <=> Free(i)
BY DEF Free

\* Worker w keeps its task, or is done with it.
LEMMA Hands ==
  ASSUME Types, AllCalm, NEW w \in Workers, NEW t \in Tasks, t = worker[w].task, Minds(w, t)
  PROVE  /\ ~ Free(t)
         /\ worker'[w].task = t => ~ Free(t)'
         /\ worker'[w] = Idle => Free(t)'
         /\ worker'[w].task \in {t, None} =>
              Sole' /\ \A i \in Tasks : i # t => TaskCalm(i)' /\ Settled(i)
<1>1. None \notin Tasks
  BY QueueAssumption
<1>2. ~ Free(t) /\ (worker'[w].task = t => ~ Free(t)')
  BY DEF Free
<1>3. \A v \in Workers : v # w => worker[v].task # t
  BY <1>1 DEF AllCalm, Sole
<1>4. worker'[w] = Idle => Free(t)'
  BY <1>1, <1>3, IdleType DEF Free, Minds
<1>5. ASSUME worker'[w].task \in {t, None}
      PROVE  Sole' /\ \A i \in Tasks : i # t => TaskCalm(i)' /\ Settled(i)
  <2>1. Sole'
    BY <1>1, <1>3, <1>5 DEF AllCalm, Sole, Minds
  <2>2. ASSUME NEW i \in Tasks, i # t PROVE TaskCalm(i)' /\ Settled(i)
    <3>1. Free(i)' <=> Free(i)
      BY <1>1, <1>5, <2>2, FreeElsewhere DEF Minds
    <3>2. QED
      BY <2>2, <3>1, UntouchedTask DEF AllCalm, Minds
  <2>3. QED
    BY <2>1, <2>2
<1>6. QED
  BY <1>2, <1>4, <1>5

LEMMA CalmByWorker ==
  ASSUME Types, AllCalm, NEW w \in Workers, NEW t \in Tasks, t = worker[w].task, Minds(w, t),
         worker'[w].task = t \/ worker'[w] = Idle,
         TaskCalm(t)', Settled(t), worker'[w].task = t => WorkerCalm(w)'
  PROVE  AllCalm'
<1>1. worker'[w].task \in {t, None}
  BY IdleType
<1>2. Sole' /\ \A i \in Tasks : TaskCalm(i)' /\ Settled(i)
  BY <1>1, Hands
<1>3. ASSUME NEW v \in Workers PROVE WorkerCalm(v)'
  <2>1. CASE v = w
    BY <2>1, IdleType DEF WorkerCalm
  <2>2. CASE v # w
    <3>1. \A i \in Tasks : i = worker[v].task => i # t
      BY <2>2, QueueAssumption DEF AllCalm, Sole
    <3>2. QED
      BY <2>2, <3>1, UntouchedWorker DEF AllCalm, Minds
  <2>3. QED
    BY <2>1, <2>2
<1>4. \A c \in Finishers : FinisherCalm(c)'
  BY <1>2, UntouchedFinisher DEF AllCalm, Minds
<1>5. QED
  BY <1>2, <1>3, <1>4 DEF AllCalm

LEMMA AtHand ==
  ASSUME Types, AllCalm, NEW w \in Workers, NEW t \in Tasks, t = worker[w].task
  PROVE  /\ worker[w].pc \notin Off
         /\ ~ Free(t) /\ ~ Waits(t) /\ client[t] \notin Entering
         /\ TaskCalm(t) /\ Placed(w) /\ Purse(w) /\ Knows(w)
<1>1. worker[w].pc \notin Off
  BY WorkerIs, QueueAssumption DEF Manned, Off
<1>2. ~ Free(t) /\ TaskCalm(t) /\ WorkerCalm(w)
  BY DEF Free, AllCalm
<1>3. QED
  BY <1>1, <1>2 DEF TaskCalm, Token, WorkerCalm, Off

\* The worker goes on with its task.
LEMMA HandsOn ==
  ASSUME Types, AllCalm, NEW w \in Workers, NEW t \in Tasks, t = worker[w].task, Minds(w, t),
         worker'[w].task = t, client'[t] = client[t],
         t \in pending' => t \in pending, t \in deferred' => t \in deferred
  PROVE  Token(t)' /\ ~ Free(t)'
<1>1. ~ Free(t)' /\ ~ Free(t) /\ ~ Waits(t) /\ client[t] \notin Entering /\ Token(t)
  BY Hands, AtHand DEF TaskCalm
<1>2. client'[t] \notin Entering /\ ~ Waits(t)'
  BY <1>1 DEF Waits
<1>3. QED
  BY <1>1, <1>2 DEF Token, Waits, Entering

\* The worker is done with it, and it is not queued.
LEMMA HandsOff ==
  ASSUME Types, AllCalm, NEW w \in Workers, NEW t \in Tasks, t = worker[w].task, Minds(w, t),
         worker'[w] = Idle, client'[t] = client[t], UNCHANGED <<pending, deferred>>,
         task'[t].status \notin {"queued", "processing"}
  PROVE  Token(t)' /\ Free(t)'
<1>1. Free(t)' /\ ~ Waits(t) /\ client[t] \notin Entering /\ Token(t)
  BY Hands, AtHand DEF TaskCalm
<1>2. client'[t] \notin Entering /\ ~ Waits(t)'
  BY <1>1 DEF Waits
<1>3. QED
  BY <1>1, <1>2 DEF Token, Waits, Entering

\* Nothing changes but the position of the worker.
Position(w, t) ==
  /\ UNCHANGED Others
  /\ \A v \in Workers : v # w => worker'[v] = worker[v]

LEMMA PositionMinds ==
  ASSUME NEW w \in Workers, NEW t, Position(w, t)
  PROVE  Minds(w, t) /\ \A i \in Tasks : Untouched(i)
BY DEF Position, Minds, Untouched, Others, redis, ledger, provider, rule

LEMMA PositionTask ==
  ASSUME Types, AllCalm, NEW w \in Workers, NEW t \in Tasks, t = worker[w].task,
         Position(w, t), worker'[w].task = t
  PROVE  TaskCalm(t)' /\ Settled(t)
<1>1. Untouched(t) /\ Minds(w, t)
  BY PositionMinds
<1>2. Free(t)' <=> Free(t)
  BY <1>1, Hands
<1>3. QED
  BY <1>1, <1>2, UntouchedTask DEF AllCalm

LEMMA PositionCalm ==
  ASSUME Types, AllCalm, NEW w \in Workers, NEW t \in Tasks, t = worker[w].task,
         Position(w, t), worker'[w].task = t, WorkerCalm(w)'
  PROVE  AllCalm'
BY PositionTask, PositionMinds, CalmByWorker

\* The worker lets a record go as it is.
LEMMA LetGoCalm ==
  ASSUME Types, AllCalm, NEW w \in Workers, NEW t \in Tasks, t = worker[w].task,
         Position(w, t), worker'[w] = Idle,
         task[t].status \notin {"queued", "processing"},
         task[t].status \in {"completed", "failed"} => mirror[t] = task[t].status,
         task[t].status = "failed" => held[t] = 0
  PROVE  AllCalm'
<1>1. Minds(w, t) /\ Untouched(t) /\ TaskCalm(t)
  BY PositionMinds DEF AllCalm
<1>2. task'[t].status = task[t].status /\ UNCHANGED <<client, pending, deferred>>
  BY <1>1 DEF Position, Others, redis, Untouched
<1>3. Token(t)' /\ Free(t)'
  BY <1>1, <1>2, HandsOff
<1>4. Dues(t)' /\ Marks(t)'
  BY <1>1 DEF TaskCalm, Dues, Marks, Untouched, Intact, PaidUp
<1>5. Row(t)' /\ Kept(t)'
  BY <1>1 DEF TaskCalm, Row, Kept, Untouched, Waits, KeepsProviderId
<1>6. Settled(t)
  BY <1>1 DEF Settled, Untouched
<1>7. TaskCalm(t)'
  BY <1>3, <1>4, <1>5 DEF TaskCalm
<1>8. worker'[w].task # t
  BY IdleType, QueueAssumption
<1>9. QED
  BY <1>1, <1>6, <1>7, <1>8, CalmByWorker

LEMMA ClaimCalm ==
  ASSUME Types, AllCalm, NEW w \in Workers, ClaimForPreparation(w, "ok")
  PROVE  AllCalm'
<1>0. PICK t : t = worker[w].task
  OBVIOUS
<1>1. "ok" \in Outcomes
  BY DEF Outcomes
<1>2. /\ t \in Tasks /\ worker[w].pc = "claim"
      /\ \A i \in Tasks : i # t => task'[i] = task[i]
      /\ \/ task' = task
         \/ /\ Claimable(t) /\ task'[t].status = "processing"
            /\ task'[t].refund = task[t].refund
            /\ task'[t].dispatch = IF task[t].dispatch = "submitted" THEN "submitted"
                                   ELSE "preparing"
      /\ \/ Turns(w, Idle) /\ ~ Claimable(t) /\ task' = task
         \/ Moves(w, "begin") /\ Claimable(t) /\ task'[t].status = "processing"
  BY <1>0, <1>1, ClaimFacts
<1>3. /\ UNCHANGED <<kind, pending, deferred, cancelRefunds, elapsed, mirror, client,
                     finisher, price, changes, billed, held, charges, paid, known>>
  BY DEF ClaimForPreparation, rule, ledger, provider
<1>4. ~ Free(t) /\ ~ Waits(t) /\ TaskCalm(t) /\ Placed(w) /\ Purse(w) /\ Knows(w)
  BY <1>0, <1>2, AtHand
<1>5. task[t].status \in {"queued", "cancelled", "none"} /\ WindowClosed(t)
  BY <1>0, <1>2, <1>4 DEF Placed, Fate, Busy
<1>6. CASE Turns(w, Idle) /\ ~ Claimable(t) /\ task' = task
  <2>1. task[t].status \notin {"queued", "processing"}
    BY <1>5, <1>6 DEF Claimable
  <2>2. Position(w, t)
    BY <1>3, <1>6 DEF Position, Others, redis, rule, ledger, provider, Turns
  <2>3. QED
    BY <1>0, <1>2, <1>5, <1>6, <2>1, <2>2, LetGoCalm DEF Turns
<1>7. CASE Moves(w, "begin") /\ Claimable(t) /\ task'[t].status = "processing"
  <2>1. /\ worker'[w].pc = "begin" /\ worker'[w].task = t
        /\ \A v \in Workers : v # w => worker'[v] = worker[v]
    BY <1>0, <1>7, MovesFacts
  <2>2. Minds(w, t)
    BY <1>2, <1>3, <2>1 DEF Minds, Untouched
  <2>3. task[t].status = "queued" /\ WindowClosed(t)' /\ task'[t].refund = task[t].refund
    BY <1>2, <1>3, <1>5, <1>7 DEF Claimable, WindowClosed, HasGrace
  <2>4. Token(t)' /\ ~ Free(t)'
    BY <1>0, <1>2, <1>3, <2>1, <2>2, HandsOn
  <2>5. Dues(t)' /\ Intact(t)'
    BY <1>2, <1>3, <1>4, <1>7, <2>3 DEF TaskCalm, Dues, Intact
  <2>6. Marks(t)'
    BY <1>2, <1>3, <1>4, <1>7, <2>3 DEF TaskCalm, Marks
  <2>7. Row(t)'
    BY <1>2, <1>3, <1>4, <1>7, <2>3, <2>4 DEF TaskCalm, Row
  <2>8. Kept(t)' /\ Knows(w)'
    BY <1>0, <1>2, <1>3, <1>4, <1>7, <2>1 DEF Knows, Kept, Waits, KeepsProviderId, Unknowing
  <2>9. Placed(w)'
    BY <1>7, <2>1, <2>3 DEF Placed, Fate, Busy, Shown
  <2>10. Purse(w)'
    BY <2>1, <2>5 DEF Purse, Busy, Settling
  <2>11. Settled(t)
    BY <2>3 DEF Settled
  <2>12. QED
    BY <1>0, <1>2, <2>1, <2>2, <2>4, <2>5, <2>6, <2>7, <2>8, <2>9, <2>10, <2>11, CalmByWorker
       DEF TaskCalm, WorkerCalm
<1>8. QED
  BY <1>2, <1>6, <1>7

LEMMA BeginCalm ==
  ASSUME Types, AllCalm, NEW w \in Workers, BeginSubmission(w, "ok")
  PROVE  AllCalm'
<1>0. PICK t : t = worker[w].task
  OBVIOUS
<1>1. "ok" \in Outcomes
  BY DEF Outcomes
<1>2. /\ t \in Tasks /\ worker[w].pc = "begin"
      /\ \A i \in Tasks : i # t => task'[i] = task[i]
      /\ \/ task' = task
         \/ /\ Submittable(t)
            /\ task'[t].dispatch = "submitted" /\ task'[t].status = task[t].status
            /\ task'[t].refund = task[t].refund
      /\ \/ Turns(w, Idle) /\ task' = task /\ ~ Submittable(t)
         \/ Moves(w, "start") /\ Submittable(t) /\ task'[t].dispatch = "submitted"
  BY <1>0, <1>1, BeginFacts
<1>3. /\ UNCHANGED <<kind, pending, deferred, cancelRefunds, elapsed, mirror, client,
                     finisher, price, changes, billed, held, charges, paid, known>>
  BY DEF BeginSubmission, rule, ledger, provider
<1>4. ~ Free(t) /\ ~ Waits(t) /\ TaskCalm(t) /\ Placed(w) /\ Purse(w) /\ Knows(w)
  BY <1>0, <1>2, AtHand
<1>5. task[t].status \in {"processing", "cancelled", "none"} /\ WindowClosed(t)
  BY <1>0, <1>2, <1>4 DEF Placed, Fate, Busy
<1>6. CASE Turns(w, Idle) /\ task' = task /\ ~ Submittable(t)
  <2>1. task[t].status \notin {"queued", "processing"}
    BY <1>5, <1>6 DEF Submittable
  <2>2. Position(w, t)
    BY <1>3, <1>6 DEF Position, Others, redis, rule, ledger, provider, Turns
  <2>3. QED
    BY <1>0, <1>2, <1>5, <1>6, <2>1, <2>2, LetGoCalm DEF Turns
<1>7. CASE Moves(w, "start") /\ Submittable(t) /\ task'[t].dispatch = "submitted"
  <2>1. /\ worker'[w].pc = "start" /\ worker'[w].task = t
        /\ \A v \in Workers : v # w => worker'[v] = worker[v]
    BY <1>0, <1>7, MovesFacts
  <2>2. Minds(w, t)
    BY <1>2, <1>3, <2>1 DEF Minds, Untouched
  <2>3. /\ task[t].status = "processing" /\ task'[t].status = "processing"
        /\ WindowClosed(t)' /\ task'[t].refund = task[t].refund
    BY <1>2, <1>3, <1>5, <1>7 DEF Submittable, WindowClosed, HasGrace
  <2>4. Token(t)' /\ ~ Free(t)'
    BY <1>0, <1>2, <1>3, <2>1, <2>2, HandsOn
  <2>5. Intact(t)
    BY <1>0, <1>2, <1>4, <2>3 DEF Purse
  <2>6. Dues(t)' /\ Intact(t)'
    BY <1>2, <1>3, <1>4, <2>3, <2>5 DEF TaskCalm, Dues, Intact
  <2>7. Marks(t)'
    BY <1>2, <1>3, <1>4, <1>7, <2>3 DEF TaskCalm, Marks
  <2>8. Row(t)'
    BY <1>2, <1>3, <1>4, <2>3, <2>4 DEF TaskCalm, Row
  <2>9. Kept(t)' /\ Knows(w)'
    BY <1>0, <1>2, <1>3, <1>4, <2>1, <2>3 DEF Knows, Kept, Waits, KeepsProviderId, Unknowing
  <2>10. Placed(w)'
    BY <1>7, <2>1, <2>3 DEF Placed, Fate, Busy, Shown
  <2>11. Purse(w)'
    BY <2>1, <2>6 DEF Purse, Busy, Settling
  <2>12. Settled(t)
    BY <2>3 DEF Settled
  <2>13. QED
    BY <1>0, <1>2, <2>1, <2>2, <2>4, <2>6, <2>7, <2>8, <2>9, <2>10, <2>11, <2>12, CalmByWorker
       DEF TaskCalm, WorkerCalm
<1>8. QED
  BY <1>2, <1>6, <1>7

LEMMA StartCalm ==
  ASSUME Types, AllCalm, NEW w \in Workers, RecordTaskStart(w)
  PROVE  AllCalm'
<1>0. PICK t : t = worker[w].task
  OBVIOUS
<1>1. /\ t \in Tasks /\ worker[w].pc = "start"
      /\ \A i \in Tasks : i # t => mirror'[i] = mirror[i]
      /\ mirror'[t] = IF mirror[t] = "cancelled" THEN "cancelled" ELSE "processing"
      /\ Moves(w, "call")
  BY <1>0, StartFacts
<1>2. /\ UNCHANGED <<kind, task, pending, deferred, cancelRefunds, elapsed, client,
                     finisher, price, changes, billed, held, charges, paid, known>>
  BY DEF RecordTaskStart, redis, rule, ledger, provider
<1>3. ~ Free(t) /\ ~ Waits(t) /\ TaskCalm(t) /\ Placed(w) /\ Purse(w) /\ Knows(w)
  BY <1>0, <1>1, AtHand
<1>4. /\ task[t].status = "processing" /\ WindowClosed(t) /\ Intact(t)
      /\ task[t].dispatch = "submitted"
  BY <1>0, <1>1, <1>3 DEF Placed, Purse, Fate, Busy
<1>5. mirror'[t] = "processing"
  BY <1>1, <1>3, <1>4 DEF TaskCalm, Row
<1>6. /\ worker'[w].pc = "call" /\ worker'[w].task = t
      /\ \A v \in Workers : v # w => worker'[v] = worker[v]
  BY <1>0, <1>1, MovesFacts
<1>7. Minds(w, t)
  BY <1>1, <1>2, <1>6 DEF Minds, Untouched
<1>8. Token(t)' /\ ~ Free(t)'
  BY <1>0, <1>1, <1>2, <1>6, <1>7, HandsOn
<1>9. Dues(t)' /\ Marks(t)' /\ Intact(t)'
  BY <1>2, <1>3, <1>4 DEF TaskCalm, Dues, Marks, Intact
<1>10. Row(t)' /\ Settled(t)
  BY <1>2, <1>4, <1>5 DEF Row, Settled
<1>11. Kept(t)' /\ Knows(w)'
  BY <1>0, <1>1, <1>2, <1>3, <1>6 DEF Knows, Kept, Waits, KeepsProviderId, Unknowing
<1>12. Placed(w)'
  BY <1>2, <1>4, <1>5, <1>6 DEF Placed, Fate, Busy, Shown, WindowClosed, HasGrace
<1>13. Purse(w)'
  BY <1>6, <1>9 DEF Purse, Settling
<1>14. QED
  BY <1>0, <1>1, <1>6, <1>7, <1>8, <1>9, <1>10, <1>11, <1>12, <1>13, CalmByWorker
     DEF TaskCalm, WorkerCalm

LEMMA CallCalm ==
  ASSUME Types, AllCalm, NEW w \in Workers, CallProvider(w, "ok")
  PROVE  AllCalm'
<1>0. PICK t : t = worker[w].task
  OBVIOUS
<1>1. "ok" \in Outcomes
  BY DEF Outcomes
<1>2. /\ t \in Tasks /\ worker[w].pc = "call"
      /\ \A i \in Tasks : i # t => paid'[i] = paid[i] /\ known'[i] = known[i]
      /\ \A v \in Workers : v # w => worker'[v] = worker[v]
      /\ worker'[w].pc = "poll" /\ worker'[w].task = t /\ worker'[w].accepted = TRUE
  BY <1>0, <1>1, CallFacts
<1>3. /\ UNCHANGED <<kind, task, pending, deferred, cancelRefunds, elapsed, mirror, client,
                     finisher, price, changes, billed, held, charges>>
  BY DEF CallProvider, redis, rule, ledger
<1>4. ~ Free(t) /\ ~ Waits(t) /\ TaskCalm(t) /\ Placed(w) /\ Purse(w)
  BY <1>0, <1>2, AtHand
<1>5. /\ task[t].status = "processing" /\ WindowClosed(t) /\ Intact(t)
      /\ task[t].dispatch = "submitted" /\ mirror[t] \notin {"none", "cancelled"}
  BY <1>0, <1>2, <1>4 DEF Placed, Purse, Fate, Busy, Shown
<1>6. Minds(w, t)
  BY <1>2, <1>3 DEF Minds, Untouched
<1>7. Token(t)' /\ ~ Free(t)'
  BY <1>0, <1>2, <1>3, <1>6, HandsOn
<1>8. Dues(t)' /\ Intact(t)'
  BY <1>3, <1>4, <1>5 DEF TaskCalm, Dues, Intact
<1>9. Marks(t)' /\ Row(t)' /\ Settled(t)
  BY <1>3, <1>4, <1>5 DEF TaskCalm, Marks, Row, Settled
<1>10. Kept(t)' /\ Knows(w)'
  BY <1>2, <1>3, <1>4, <1>5 DEF Knows, Kept, Waits, Unknowing
<1>11. Placed(w)'
  BY <1>2, <1>3, <1>5 DEF Placed, Fate, Busy, Shown, WindowClosed, HasGrace
<1>12. Purse(w)'
  BY <1>2, <1>8 DEF Purse, Settling
<1>13. QED
  BY <1>0, <1>2, <1>6, <1>7, <1>8, <1>9, <1>10, <1>11, <1>12, CalmByWorker
     DEF TaskCalm, WorkerCalm

\* From one step of the handler to the next, or to fail_task.
LEMMA BusyCalm ==
  ASSUME Types, AllCalm, NEW w \in Workers, NEW t \in Tasks, t = worker[w].task,
         Position(w, t), worker'[w].task = t, worker'[w].accepted = worker[w].accepted,
         worker[w].pc \in Busy \ {"start", "save_completed"},
         worker'[w].pc \in {"complete", "fail", "save_queued", "save_failed"},
         worker'[w].pc = "save_queued" => worker[w].pc = "fail" /\ worker[w].retry,
         worker'[w].pc = "fail" => worker'[w].retry \in {FALSE, ~ Accepted(worker[w])}
  PROVE  AllCalm'
<1>1. Placed(w) /\ Purse(w) /\ Knows(w) /\ Untouched(t)
  BY AtHand, PositionMinds
<1>2. Placed(w)'
  BY <1>1 DEF Placed, Fate, Busy, Shown, Untouched, WindowClosed, HasGrace
<1>3. Purse(w)'
  BY <1>1 DEF Purse, Busy, Untouched, Intact, Settling
<1>4. Knows(w)'
  <2>1. SUFFICES ASSUME KeepsProviderId(t)', known'[t] > 0
                 PROVE  /\ worker'[w].pc \notin Unknowing /\ worker'[w].accepted
                        /\ worker'[w].pc = "fail" => ~ worker'[w].retry
    BY DEF Knows
  <2>2. KeepsProviderId(t) /\ known[t] > 0
    BY <1>1, <2>1 DEF Untouched, KeepsProviderId
  <2>3. worker[w].accepted /\ (worker[w].pc = "fail" => ~ worker[w].retry)
    BY <1>1, <2>2 DEF Knows
  <2>4. Accepted(worker[w])
    BY <2>2, <2>3 DEF Accepted
  <2>5. worker'[w].pc = "fail" => ~ worker'[w].retry
    BY <2>4
  <2>6. worker'[w].pc \notin Unknowing
    BY <2>3 DEF Unknowing
  <2>7. QED
    BY <2>3, <2>5, <2>6
<1>5. QED
  BY <1>2, <1>3, <1>4, PositionCalm DEF WorkerCalm

LEMMA GenerationCalm ==
  ASSUME Types, AllCalm, NEW w \in Workers, ProviderFails(w) \/ ProviderSucceeds(w)
  PROVE  AllCalm'
<1>0. PICK t : t = worker[w].task
  OBVIOUS
<1>1. /\ UNCHANGED Others /\ worker[w].pc \in {"call", "poll"} /\ t \in Tasks
      /\ \/ worker[w].pc = "poll" /\ Moves(w, "complete")
         \/ \E retry \in {FALSE, ~ Accepted(worker[w])} :
              /\ worker'[w].pc = "fail" /\ worker'[w].retry = retry
              /\ worker'[w].task = t
              /\ worker'[w].accepted = worker[w].accepted
              /\ \A v \in Workers : v # w => worker'[v] = worker[v]
  BY <1>0, GenerationFacts
<1>2. /\ worker'[w].task = t /\ worker'[w].accepted = worker[w].accepted
      /\ \A v \in Workers : v # w => worker'[v] = worker[v]
      /\ worker'[w].pc \in {"complete", "fail"}
      /\ worker'[w].pc = "fail" => worker'[w].retry \in {FALSE, ~ Accepted(worker[w])}
  <2>1. CASE Moves(w, "complete")
    <3>1. /\ worker'[w].pc = "complete" /\ worker'[w].task = t
          /\ worker'[w].accepted = worker[w].accepted
          /\ \A v \in Workers : v # w => worker'[v] = worker[v]
      BY <1>0, <2>1, MovesFacts
    <3>2. QED
      BY <3>1
  <2>2. CASE \E retry \in {FALSE, ~ Accepted(worker[w])} :
               /\ worker'[w].pc = "fail" /\ worker'[w].retry = retry
               /\ worker'[w].task = t
               /\ worker'[w].accepted = worker[w].accepted
               /\ \A v \in Workers : v # w => worker'[v] = worker[v]
    BY <2>2
  <2>3. QED
    BY <1>1, <2>1, <2>2
<1>3. Position(w, t)
  BY <1>1, <1>2 DEF Position
<1>4. QED
  BY <1>0, <1>1, <1>2, <1>3, BusyCalm DEF Busy

LEMMA ProgressCalm ==
  ASSUME Types, AllCalm, NEW w \in Workers, ReadForProgress(w) \/ SaveProgress(w)
  PROVE  AllCalm'
<1>0. PICK t : t = worker[w].task
  OBVIOUS
<1>1. /\ t \in Tasks /\ \A v \in Workers : v # w => worker'[v] = worker[v]
      /\ worker'[w].task = t /\ worker'[w].accepted = worker[w].accepted
      /\ \/ /\ UNCHANGED Others
            /\ worker[w].pc = "poll" /\ worker'[w].pc = "progress"
            /\ worker'[w].status = task[t].status
         \/ /\ SaveProgress(w)
            /\ worker[w].pc = "progress" /\ worker'[w].pc = "poll"
            /\ \A i \in Tasks : i # t => task'[i] = task[i]
            /\ task'[t].dispatch = task[t].dispatch /\ task'[t].refund = task[t].refund
            /\ task'[t].status = IF task[t].status = "cancelled" THEN "cancelled"
                                 ELSE worker[w].status
  BY <1>0, ProgressFacts
<1>2. ~ Free(t) /\ ~ Waits(t) /\ TaskCalm(t) /\ Placed(w) /\ Purse(w) /\ Knows(w)
  BY <1>0, <1>1, AtHand
<1>3. /\ task[t].status = "processing" /\ WindowClosed(t) /\ Intact(t)
      /\ task[t].dispatch = "submitted" /\ mirror[t] \notin {"none", "cancelled"}
      /\ worker[w].pc = "progress" => worker[w].status = "processing"
  BY <1>0, <1>1, <1>2 DEF Placed, Purse, Fate, Busy, Shown
<1>4. CASE UNCHANGED Others /\ worker'[w].pc = "progress" /\ worker'[w].status = task[t].status
  <2>1. Position(w, t) /\ Untouched(t)
    BY <1>1, <1>4, PositionMinds DEF Position
  <2>2. Placed(w)'
    BY <1>1, <1>3, <1>4, <2>1
       DEF Placed, Fate, Busy, Shown, Untouched, WindowClosed, HasGrace
  <2>3. Purse(w)'
    BY <1>1, <1>3, <1>4, <2>1 DEF Purse, Untouched, Intact, Settling
  <2>4. Knows(w)'
    BY <1>0, <1>1, <1>2, <1>4, <2>1 DEF Knows, Untouched, KeepsProviderId, Unknowing
  <2>5. QED
    BY <1>0, <1>1, <1>4, <2>1, <2>2, <2>3, <2>4, PositionCalm DEF WorkerCalm
<1>5. CASE SaveProgress(w) /\ worker[w].pc = "progress" /\ worker'[w].pc = "poll"
  <2>1. /\ UNCHANGED <<kind, pending, deferred, cancelRefunds, elapsed, mirror, client,
                       finisher, price, changes, billed, held, charges, paid, known>>
    BY <1>5 DEF SaveProgress, rule, ledger, provider
  <2>2. /\ \A i \in Tasks : i # t => task'[i] = task[i]
        /\ task'[t].status = "processing" /\ task'[t].dispatch = "submitted"
        /\ task'[t].refund = task[t].refund
    BY <1>1, <1>3, <1>5
  <2>3. Minds(w, t)
    BY <1>1, <2>1, <2>2 DEF Minds, Untouched
  <2>4. Token(t)' /\ ~ Free(t)'
    BY <1>0, <1>1, <2>1, <2>3, HandsOn
  <2>5. Dues(t)' /\ Intact(t)'
    BY <1>2, <1>3, <2>1, <2>2 DEF TaskCalm, Dues, Intact
  <2>6. Marks(t)' /\ Row(t)' /\ Settled(t)
    BY <1>2, <1>3, <2>1, <2>2, <2>4 DEF TaskCalm, Marks, Row, Settled
  <2>7. Kept(t)' /\ Knows(w)'
    BY <1>0, <1>1, <1>2, <1>5, <2>1, <2>2 DEF Knows, Kept, Waits, KeepsProviderId, Unknowing
  <2>8. Placed(w)'
    BY <1>1, <1>3, <1>5, <2>1, <2>2 DEF Placed, Fate, Busy, Shown, WindowClosed, HasGrace
  <2>9. Purse(w)'
    BY <1>1, <1>5, <2>5 DEF Purse, Settling
  <2>10. QED
    BY <1>0, <1>1, <1>5, <2>3, <2>4, <2>5, <2>6, <2>7, <2>8, <2>9, CalmByWorker
       DEF TaskCalm, WorkerCalm
<1>6. QED
  BY <1>1, <1>4, <1>5

\* The settlement, up to the save.
LEMMA CompleteCalm ==
  ASSUME Types, AllCalm, NEW w \in Workers, CompleteTask(w, "ok") \/ QuoteUsage(w)
  PROVE  AllCalm'
<1>0. PICK t : t = worker[w].task
  OBVIOUS
<1>1. "ok" \in Outcomes
  BY DEF Outcomes
<1>2. /\ t \in Tasks /\ UNCHANGED Others
      /\ \/ /\ worker[w].pc = "complete"
            /\ \/ task[t].status \in {"none", "cancelled"}
               \/ /\ \A v \in Workers : v # w => worker'[v] = worker[v]
                  /\ worker'[w].task = t /\ worker'[w].accepted = worker[w].accepted
                  /\ worker'[w].pc = IF billed[t] > 0 THEN "quote" ELSE "save_completed"
         \/ /\ worker[w].pc = "quote"
            /\ \A v \in Workers : v # w => worker'[v] = worker[v]
            /\ worker'[w].task = t /\ worker'[w].accepted = worker[w].accepted
            /\ \/ worker'[w].pc = "save_completed" /\ (charges[t] > 0 \/ price = 0)
               \/ worker'[w].pc = "freeze" /\ worker'[w].quote = price /\ price > 0
  <2>1. CASE CompleteTask(w, "ok")
    BY <1>0, <1>1, <2>1, CompleteFacts
  <2>2. CASE QuoteUsage(w)
    BY <1>0, <2>2, QuoteFacts
  <2>3. QED
    BY <2>1, <2>2
<1>3. ~ Free(t) /\ TaskCalm(t) /\ Placed(w) /\ Purse(w) /\ Knows(w) /\ client[t] \notin Entering
  BY <1>0, <1>2, AtHand
<1>4. task[t].status = "processing"
  BY <1>0, <1>2, <1>3 DEF Placed, Fate, Busy
<1>5. /\ \A v \in Workers : v # w => worker'[v] = worker[v]
      /\ worker'[w].task = t /\ worker'[w].accepted = worker[w].accepted
      /\ worker'[w].pc \in {"quote", "save_completed", "freeze"}
      /\ worker[w].pc \in {"complete", "quote"}
  BY <1>2, <1>4
<1>6. Position(w, t) /\ Untouched(t)
  BY <1>2, <1>5, PositionMinds DEF Position
<1>7. Placed(w)'
  BY <1>0, <1>3, <1>5, <1>6 DEF Placed, Fate, Busy, Shown, Untouched, WindowClosed, HasGrace
<1>8. Knows(w)'
  BY <1>0, <1>3, <1>5, <1>6 DEF Knows, Untouched, KeepsProviderId, Unknowing
<1>9. Purse(w)'
  <2>1. Intact(t) /\ (worker[w].pc = "quote" => billed[t] > 0)
    BY <1>0, <1>3, <1>5 DEF Purse, Busy, Settling
  <2>2. changes = 0 => billed[t] = price
    BY <1>3 DEF TaskCalm, Dues, Entering
  <2>3. held[t] \in Nat /\ billed[t] \in Nat /\ charges[t] \in Nat /\ price \in Nat
    BY <1>2, Points
  <2>4. /\ worker'[w].pc = "save_completed" /\ changes = 0 => PaidUp(t)
        /\ worker'[w].pc \in {"quote", "freeze"} => billed[t] > 0
        /\ worker'[w].pc = "freeze" => /\ worker'[w].quote > 0
                                       /\ changes = 0 => worker'[w].quote = billed[t]
    BY <1>2, <1>4, <2>1, <2>2, <2>3 DEF PaidUp, Intact
  <2>5. QED
    BY <1>5, <1>6, <2>1, <2>4 DEF Purse, Untouched, Intact, PaidUp, Settling
<1>10. QED
  BY <1>0, <1>2, <1>5, <1>6, <1>7, <1>8, <1>9, PositionCalm DEF WorkerCalm

LEMMA FreezeCalm ==
  ASSUME Types, AllCalm, NEW w \in Workers, FreezeUsage(w, "ok")
  PROVE  AllCalm'
<1>0. PICK t : t = worker[w].task
  OBVIOUS
<1>1. "ok" \in Outcomes
  BY DEF Outcomes
<1>2. /\ t \in Tasks /\ worker[w].pc = "freeze"
      /\ \A v \in Workers : v # w => worker'[v] = worker[v]
      /\ worker'[w].task = t /\ worker'[w].accepted = worker[w].accepted
      /\ charges' = charges /\ \A i \in Tasks : i # t => held'[i] = held[i]
      /\ held'[t] = held[t] \/ (held[t] = 0 /\ held'[t] = worker[w].quote)
      /\ \/ /\ worker'[w].pc = "confirm" /\ worker'[w].quote = worker[w].quote
            /\ held'[t] = worker[w].quote
         \/ worker'[w].pc = "save_completed" /\ held' = held /\ held[t] # worker[w].quote
  BY <1>0, <1>1, FreezeFacts
<1>3. UNCHANGED <<kind, task, pending, deferred, cancelRefunds, elapsed, mirror, client,
                  finisher, price, changes, billed, paid, known>>
  BY DEF FreezeUsage, redis, rule, provider
<1>4. ~ Free(t) /\ TaskCalm(t) /\ Placed(w) /\ Purse(w) /\ Knows(w)
  BY <1>0, <1>2, AtHand
<1>5. /\ task[t].status = "processing" /\ WindowClosed(t) /\ Intact(t) /\ billed[t] > 0
      /\ task[t].dispatch = "submitted" /\ mirror[t] \notin {"none", "cancelled"}
      /\ changes = 0 => worker[w].quote = billed[t]
  BY <1>0, <1>2, <1>4 DEF Placed, Purse, Fate, Busy, Shown, Settling
<1>6. held[t] # 0 /\ held'[t] = held[t] /\ Intact(t)'
  <2>1. held[t] # 0
    BY <1>2, <1>5, Points DEF Intact
  <2>2. QED
    BY <1>2, <1>3, <1>5, <2>1 DEF Intact
<1>7. Minds(w, t) /\ Untouched(t)
  BY <1>2, <1>3, <1>6 DEF Minds, Untouched
<1>8. TaskCalm(t)' /\ Settled(t)
  <2>1. Free(t)' <=> Free(t)
    BY <1>0, <1>2, <1>4, <1>7, Hands
  <2>2. QED
    BY <1>2, <1>4, <1>7, <2>1, UntouchedTask
<1>9. Placed(w)'
  BY <1>2, <1>3, <1>5 DEF Placed, Fate, Busy, Shown, WindowClosed, HasGrace
<1>10. Knows(w)'
  BY <1>0, <1>2, <1>3, <1>4 DEF Knows, KeepsProviderId, Unknowing
<1>11. Purse(w)'
  <2>1. worker'[w].pc = "save_completed" => changes # 0
    BY <1>2, <1>5 DEF Intact
  <2>2. QED
    BY <1>2, <1>3, <1>5, <1>6, <2>1 DEF Purse, Busy, Settling
<1>12. QED
  BY <1>0, <1>2, <1>7, <1>8, <1>9, <1>10, <1>11, CalmByWorker DEF WorkerCalm

LEMMA ConfirmCalm ==
  ASSUME Types, AllCalm, NEW w \in Workers, ConfirmUsage(w, "ok")
  PROVE  AllCalm'
<1>0. PICK t : t = worker[w].task
  OBVIOUS
<1>1. "ok" \in Outcomes
  BY DEF Outcomes
<1>2. /\ t \in Tasks /\ worker[w].pc = "confirm"
      /\ \A v \in Workers : v # w => worker'[v] = worker[v]
      /\ worker'[w].task = t /\ worker'[w].accepted = worker[w].accepted
      /\ worker'[w].pc = "save_completed"
      /\ \A i \in Tasks : i # t => held'[i] = held[i] /\ charges'[i] = charges[i]
      /\ \/ ~ Confirmable(t, worker[w].quote)
         \/ held'[t] = 0 /\ charges'[t] = charges[t] + 1
  BY <1>0, <1>1, ConfirmFacts
<1>3. UNCHANGED <<kind, task, pending, deferred, cancelRefunds, elapsed, mirror, client,
                  finisher, price, changes, billed, paid, known>>
  BY DEF ConfirmUsage, redis, rule, provider
<1>4. ~ Free(t) /\ ~ Waits(t) /\ TaskCalm(t) /\ Placed(w) /\ Purse(w) /\ Knows(w)
  BY <1>0, <1>2, AtHand
<1>5. /\ task[t].status = "processing" /\ WindowClosed(t) /\ Intact(t) /\ billed[t] > 0
      /\ task[t].dispatch = "submitted" /\ mirror[t] \notin {"none", "cancelled"}
      /\ worker[w].quote = held[t]
  BY <1>0, <1>2, <1>4 DEF Placed, Purse, Fate, Busy, Shown, Settling
<1>6. held'[t] = 0 /\ charges'[t] = 1
  <2>1. Confirmable(t, worker[w].quote) /\ charges[t] = 0
    BY <1>2, <1>5, Points DEF Intact, Confirmable
  <2>2. QED
    BY <1>2, <2>1
<1>7. Minds(w, t)
  BY <1>2, <1>3 DEF Minds, Untouched
<1>8. Token(t)' /\ ~ Free(t)'
  BY <1>0, <1>2, <1>3, <1>7, HandsOn
<1>9. Dues(t)' /\ PaidUp(t)'
  <2>1. client[t] \notin Entering
    BY <1>0, <1>2, AtHand
  <2>2. QED
    BY <1>3, <1>4, <1>5, <1>6, <2>1 DEF TaskCalm, Dues, PaidUp, Entering
<1>10. Marks(t)' /\ Row(t)' /\ Settled(t)
  BY <1>3, <1>4, <1>5 DEF TaskCalm, Marks, Row, Settled
<1>11. Kept(t)' /\ Knows(w)'
  BY <1>0, <1>2, <1>3, <1>4, <1>5 DEF Knows, Kept, TaskCalm, Waits, KeepsProviderId, Unknowing
<1>12. Placed(w)'
  BY <1>2, <1>3, <1>5 DEF Placed, Fate, Busy, Shown, WindowClosed, HasGrace
<1>13. Purse(w)'
  BY <1>2, <1>9 DEF Purse, Settling
<1>14. QED
  BY <1>0, <1>2, <1>7, <1>8, <1>9, <1>10, <1>11, <1>12, <1>13, CalmByWorker
     DEF TaskCalm, WorkerCalm

LEMMA CommandedOk ==
  ASSUME Types, NEW w \in Workers, NEW pc \in Positions \ Off, Commanded(w, "ok", pc)
  PROVE  /\ worker'[w].pc = pc /\ worker'[w].task = worker[w].task
         /\ worker'[w].accepted = worker[w].accepted
         /\ \A v \in Workers : v # w => worker'[v] = worker[v]
BY MovesFacts DEF Commanded, Off

\* The three saves.
LEMMA SavesCalm ==
  ASSUME Types, AllCalm, NEW w \in Workers, SavesStep(w, "ok")
  PROVE  AllCalm'
<1>0. PICK t : t = worker[w].task
  OBVIOUS
<1>1. "ok" \in Outcomes
  BY DEF Outcomes
<1>2. /\ t \in Tasks /\ worker[w].pc \in {"save_completed", "save_queued", "save_failed"}
      /\ Commanded(w, "ok", AfterSave(worker[w].pc))
      /\ \A i \in Tasks : i # t => task'[i] = task[i]
      /\ task'[t].dispatch = task[t].dispatch /\ task'[t].refund = task[t].refund
      /\ task'[t].status = IF task[t].status = "cancelled" THEN "cancelled"
                           ELSE SavedStatus(worker[w].pc)
  BY <1>0, <1>1, SavesFacts
<1>3. UNCHANGED <<kind, pending, deferred, cancelRefunds, elapsed, mirror, client,
                  finisher, price, changes, billed, held, charges, paid, known>>
  BY DEF SavesStep, SaveCompleted, SaveQueued, SaveFailed, rule, ledger, provider
<1>4. ~ Free(t) /\ ~ Waits(t) /\ TaskCalm(t) /\ Placed(w) /\ Purse(w) /\ Knows(w)
  BY <1>0, <1>2, AtHand
<1>5. /\ task[t].status = "processing" /\ WindowClosed(t)
      /\ task[t].dispatch = "submitted" /\ mirror[t] \notin {"none", "cancelled"}
      /\ worker[w].pc # "save_completed" => Intact(t)
      /\ worker[w].pc = "save_completed" /\ changes = 0 => PaidUp(t)
  BY <1>0, <1>2, <1>4 DEF Placed, Purse, Fate, Busy, Shown
<1>6. /\ worker'[w].pc = AfterSave(worker[w].pc) /\ worker'[w].task = t
      /\ worker'[w].accepted = worker[w].accepted
      /\ \A v \in Workers : v # w => worker'[v] = worker[v]
  <2>1. AfterSave(worker[w].pc) \in Positions \ Off
    BY <1>2 DEF AfterSave, Positions, Off
  <2>2. QED
    BY <1>0, <1>2, <2>1, CommandedOk
<1>7. \/ /\ worker[w].pc = "save_completed" /\ worker'[w].pc = "index_completed"
         /\ task'[t].status = "completed"
      \/ /\ worker[w].pc = "save_queued" /\ worker'[w].pc = "requeue"
         /\ task'[t].status = "queued"
      \/ /\ worker[w].pc = "save_failed" /\ worker'[w].pc = "unqueue"
         /\ task'[t].status = "failed"
  BY <1>2, <1>5, <1>6 DEF AfterSave, SavedStatus
<1>8. Minds(w, t)
  BY <1>2, <1>3, <1>6 DEF Minds, Untouched
<1>9. Token(t)' /\ ~ Free(t)'
  BY <1>0, <1>2, <1>3, <1>6, <1>8, HandsOn
<1>10. Dues(t)'
  BY <1>3, <1>4, <1>5, <1>7, <1>9 DEF TaskCalm, Dues, Intact, PaidUp
<1>11. Marks(t)' /\ Row(t)' /\ Settled(t)
  BY <1>2, <1>3, <1>4, <1>5, <1>7, <1>9 DEF TaskCalm, Marks, Row, Settled
<1>12. Kept(t)' /\ Knows(w)'
  BY <1>0, <1>3, <1>4, <1>6, <1>7 DEF Knows, Kept, TaskCalm, Waits, KeepsProviderId, Unknowing
<1>13. Placed(w)'
  BY <1>2, <1>3, <1>5, <1>6, <1>7 DEF Placed, Fate, Busy, Shown, WindowClosed, HasGrace
<1>14. Purse(w)'
  BY <1>7 DEF Purse, Busy, Settling
<1>15. QED
  BY <1>0, <1>2, <1>6, <1>7, <1>8, <1>9, <1>10, <1>11, <1>12, <1>13, <1>14, CalmByWorker
     DEF TaskCalm, WorkerCalm

\* The row ends as the record does.
LEMMA RowCalm ==
  ASSUME Types, AllCalm, NEW w \in Workers, PersistCompleted(w, "ok") \/ PersistFailed(w)
  PROVE  AllCalm'
<1>0. PICK t : t = worker[w].task
  OBVIOUS
<1>1. "ok" \in Outcomes
  BY DEF Outcomes
<1>2. PICK s : \/ s = "completed" /\ worker[w].pc = "index_completed"
               \/ s = "failed" /\ worker[w].pc = "persist_failed"
  BY DEF PersistCompleted, PersistFailed, At
<1>3. /\ t \in Tasks
      /\ worker'[w].pc = "publish" /\ worker'[w].task = t
      /\ worker'[w].accepted = worker[w].accepted
      /\ \A v \in Workers : v # w => worker'[v] = worker[v]
      /\ \A i \in Tasks : i # t => mirror'[i] = mirror[i]
      /\ mirror'[t] = IF mirror[t] \in {"none", "cancelled"} THEN mirror[t] ELSE s
  <2>1. CASE PersistCompleted(w, "ok")
    <3>1. "publish" \in Positions \ Off
      BY DEF Positions, Off
    <3>2. /\ t \in Tasks /\ worker[w].pc = "index_completed" /\ Commanded(w, "ok", "publish")
          /\ \A i \in Tasks : i # t => mirror'[i] = mirror[i]
          /\ mirror'[t] = IF mirror[t] \in {"none", "cancelled"} THEN mirror[t]
                          ELSE "completed"
      BY <1>0, <1>1, <2>1, PersistCompletedFacts
    <3>3. QED
      BY <1>0, <1>2, <3>1, <3>2, CommandedOk
  <2>2. CASE PersistFailed(w)
    <3>1. /\ t \in Tasks /\ worker[w].pc = "persist_failed" /\ Moves(w, "publish")
          /\ \A i \in Tasks : i # t => mirror'[i] = mirror[i]
          /\ mirror'[t] = IF mirror[t] \in {"none", "cancelled"} THEN mirror[t] ELSE "failed"
      BY <1>0, <2>2, PersistFailedFacts
    <3>2. QED
      BY <1>0, <1>2, <3>1, MovesFacts
  <2>3. QED
    BY <2>1, <2>2
<1>4. UNCHANGED <<kind, task, pending, deferred, cancelRefunds, elapsed, client, finisher,
                  price, changes, billed, held, charges, paid, known>>
  BY DEF PersistCompleted, PersistFailed, redis, rule, ledger, provider
<1>5. ~ Free(t) /\ ~ Waits(t) /\ TaskCalm(t) /\ Placed(w) /\ Purse(w) /\ Knows(w)
  BY <1>0, <1>3, AtHand
<1>6. /\ task[t].status \in {s, "none"} /\ WindowClosed(t)
      /\ task[t].status # "none" => mirror[t] \notin {"none", "cancelled"}
      /\ task[t].status = "failed" => held[t] = 0
  BY <1>0, <1>2, <1>5 DEF Placed, Purse, Fate, Busy, Shown
<1>7. /\ task[t].status # "none" => mirror'[t] = task[t].status
      /\ mirror'[t] = "cancelled" => mirror[t] = "cancelled"
  BY <1>2, <1>3, <1>6
<1>8. Minds(w, t)
  BY <1>3, <1>4 DEF Minds, Untouched
<1>9. Token(t)' /\ ~ Free(t)'
  BY <1>0, <1>3, <1>4, <1>8, HandsOn
<1>10. Dues(t)' /\ Marks(t)'
  BY <1>4, <1>5, <1>9 DEF TaskCalm, Dues, Marks, Intact, PaidUp
<1>11. Row(t)' /\ Settled(t)
  BY <1>4, <1>5, <1>7, <1>9 DEF TaskCalm, Row, Settled
<1>12. Kept(t)' /\ Knows(w)'
  BY <1>0, <1>3, <1>4, <1>5 DEF Knows, Kept, TaskCalm, Waits, KeepsProviderId, Unknowing
<1>13. Placed(w)'
  BY <1>2, <1>3, <1>4, <1>6, <1>7 DEF Placed, Fate, Busy, Shown, WindowClosed, HasGrace
<1>14. Purse(w)'
  BY <1>3, <1>4, <1>6 DEF Purse, Busy, Settling
<1>15. QED
  BY <1>0, <1>3, <1>8, <1>9, <1>10, <1>11, <1>12, <1>13, <1>14, CalmByWorker
     DEF TaskCalm, WorkerCalm

LEMMA PublishCalm ==
  ASSUME Types, AllCalm, NEW w \in Workers, Publish(w, "ok")
  PROVE  AllCalm'
<1>0. PICK t : t = worker[w].task
  OBVIOUS
<1>1. "ok" \in Outcomes
  BY DEF Outcomes
<1>2. /\ t \in Tasks /\ worker[w].pc = "publish" /\ UNCHANGED Others /\ Turns(w, Idle)
  BY <1>0, <1>1, PublishFacts DEF Commanded
<1>3. Placed(w) /\ Purse(w)
  BY <1>0, <1>2, AtHand
<1>4. /\ task[t].status \in {"completed", "failed", "none"}
      /\ task[t].status # "none" => mirror[t] = task[t].status
      /\ task[t].status = "failed" => held[t] = 0
  BY <1>0, <1>2, <1>3 DEF Placed, Purse, Fate, Busy
<1>5. Position(w, t)
  BY <1>2 DEF Position, Turns
<1>6. QED
  BY <1>0, <1>2, <1>4, <1>5, LetGoCalm DEF Turns

LEMMA FailCalm ==
  ASSUME Types, AllCalm, NEW w \in Workers, FailTask(w, "ok")
  PROVE  AllCalm'
<1>0. PICK t : t = worker[w].task
  OBVIOUS
<1>1. "ok" \in Outcomes
  BY DEF Outcomes
<1>2. /\ t \in Tasks /\ worker[w].pc = "fail" /\ UNCHANGED Others
      /\ \/ task[t].status \in {"none", "cancelled"}
         \/ /\ \A v \in Workers : v # w => worker'[v] = worker[v]
            /\ worker'[w].task = t /\ worker'[w].accepted = worker[w].accepted
            /\ worker'[w].pc \in {"save_queued", "save_failed"}
            /\ worker'[w].pc = "save_queued" => worker[w].retry
  BY <1>0, <1>1, FailFacts
<1>3. Placed(w)
  BY <1>0, <1>2, AtHand
<1>4. task[t].status = "processing"
  BY <1>0, <1>2, <1>3 DEF Placed, Fate, Busy
<1>5. /\ \A v \in Workers : v # w => worker'[v] = worker[v]
      /\ worker'[w].task = t /\ worker'[w].accepted = worker[w].accepted
      /\ worker'[w].pc \in {"save_queued", "save_failed"}
      /\ worker'[w].pc = "save_queued" => worker[w].retry
  BY <1>2, <1>4
<1>6. Position(w, t)
  BY <1>2, <1>5 DEF Position
<1>7. QED
  BY <1>0, <1>2, <1>5, <1>6, BusyCalm DEF Busy

\* Back into the queue, or out of it.
LEMMA RequeueCalm ==
  ASSUME Types, AllCalm, NEW w \in Workers, Requeue(w, "ok")
  PROVE  AllCalm'
<1>0. PICK t : t = worker[w].task
  OBVIOUS
<1>1. "ok" \in Outcomes
  BY DEF Outcomes
<1>2. /\ t \in Tasks /\ worker[w].pc = "requeue" /\ Turns(w, Idle)
      /\ pending' = pending \cup {t}
  <2>1. worker[w].pc = "requeue"
    BY DEF Requeue, At
  <2>2. QED
    BY <1>0, <1>1, <2>1, QueueingFacts DEF Commanded
<1>3. /\ UNCHANGED <<kind, task, deferred, cancelRefunds, elapsed, mirror, client, finisher,
                     price, changes, billed, held, charges, paid, known>>
      /\ worker'[w] = Idle
  BY <1>2 DEF Requeue, rule, ledger, provider, Turns
<1>4. /\ ~ Free(t) /\ ~ Waits(t) /\ client[t] \notin Entering
      /\ TaskCalm(t) /\ Placed(w) /\ Knows(w)
  BY <1>0, <1>2, AtHand
<1>5. /\ task[t].status = "queued" /\ WindowClosed(t) /\ WindowClosed(t)'
      /\ KeepsProviderId(t) => ~ (known[t] > 0)
  BY <1>0, <1>2, <1>3, <1>4 DEF Placed, Knows, Fate, Busy, Unknowing, WindowClosed, HasGrace
<1>6. Minds(w, t)
  BY <1>2, <1>3 DEF Minds, Untouched, Turns
<1>7. Free(t)'
  BY <1>0, <1>2, <1>3, <1>6, Hands
<1>8. Token(t)'
  <2>1. client'[t] \notin Entering /\ t \in pending' /\ t \notin deferred'
    BY <1>2, <1>3, <1>4 DEF Waits
  <2>2. QED
    BY <1>3, <1>4, <1>5, <1>7, <2>1 DEF TaskCalm, Token, Waits, Entering
<1>9. Dues(t)' /\ Marks(t)'
  BY <1>3, <1>4, <1>5 DEF TaskCalm, Dues, Marks, Intact
<1>10. Row(t)' /\ Settled(t)
  BY <1>3, <1>4, <1>5 DEF TaskCalm, Row, Settled
<1>11. Kept(t)'
  BY <1>3, <1>5 DEF Kept, KeepsProviderId
<1>12. worker'[w].task # t
  BY <1>2, <1>3, IdleType, QueueAssumption
<1>13. QED
  BY <1>0, <1>2, <1>3, <1>6, <1>8, <1>9, <1>10, <1>11, <1>12, CalmByWorker DEF TaskCalm

LEMMA UnqueueCalm ==
  ASSUME Types, AllCalm, NEW w \in Workers, UnqueueFailed(w, "ok")
  PROVE  AllCalm'
<1>0. PICK t : t = worker[w].task
  OBVIOUS
<1>1. "ok" \in Outcomes
  BY DEF Outcomes
<1>2. /\ t \in Tasks /\ worker[w].pc = "unqueue" /\ Commanded(w, "ok", "release")
      /\ pending' = pending \ {t}
  <2>1. worker[w].pc = "unqueue"
    BY DEF UnqueueFailed, At
  <2>2. QED
    BY <1>0, <1>1, <2>1, QueueingFacts
<1>3. UNCHANGED <<kind, task, deferred, cancelRefunds, elapsed, mirror, client, finisher,
                  price, changes, billed, held, charges, paid, known>>
  BY DEF UnqueueFailed, rule, ledger, provider
<1>4. /\ worker'[w].pc = "release" /\ worker'[w].task = t
      /\ worker'[w].accepted = worker[w].accepted
      /\ \A v \in Workers : v # w => worker'[v] = worker[v]
  <2>1. "release" \in Positions \ Off
    BY DEF Positions, Off
  <2>2. QED
    BY <1>0, <1>2, <2>1, CommandedOk
<1>5. ~ Free(t) /\ ~ Waits(t) /\ TaskCalm(t) /\ Placed(w) /\ Knows(w)
  BY <1>0, <1>2, AtHand
<1>6. /\ Minds(w, t) /\ Untouched(t)
  BY <1>2, <1>3, <1>4, <1>5 DEF Minds, Untouched, Waits
<1>7. TaskCalm(t)' /\ Settled(t)
  <2>1. Free(t)' <=> Free(t)
    BY <1>0, <1>2, <1>4, <1>5, <1>6, Hands
  <2>2. QED
    BY <1>2, <1>5, <1>6, <2>1, UntouchedTask
<1>8. Placed(w)'
  BY <1>0, <1>2, <1>3, <1>4, <1>5 DEF Placed, Fate, Busy, Shown, WindowClosed, HasGrace
<1>9. Knows(w)'
  BY <1>0, <1>3, <1>4, <1>5 DEF Knows, KeepsProviderId, Unknowing
<1>10. Purse(w)'
  BY <1>4 DEF Purse, Busy, Settling
<1>11. QED
  BY <1>0, <1>2, <1>4, <1>6, <1>7, <1>8, <1>9, <1>10, CalmByWorker DEF WorkerCalm

LEMMA ReleaseCalm ==
  ASSUME Types, AllCalm, NEW w \in Workers, ReleaseFailed(w, "ok")
  PROVE  AllCalm'
<1>0. PICK t : t = worker[w].task
  OBVIOUS
<1>1. "ok" \in Outcomes
  BY DEF Outcomes
<1>2. /\ t \in Tasks /\ worker[w].pc = "release" /\ Moves(w, "persist_failed")
      /\ charges' = charges /\ \A i \in Tasks : i # t => held'[i] = held[i]
      /\ held'[t] = IF billed[t] > 0 /\ held[t] > 0 THEN 0 ELSE held[t]
  BY <1>0, <1>1, RefundFacts
<1>3. UNCHANGED <<kind, task, pending, deferred, cancelRefunds, elapsed, mirror, client,
                  finisher, price, changes, billed, paid, known>>
  BY DEF ReleaseFailed, redis, rule, provider
<1>4. /\ worker'[w].pc = "persist_failed" /\ worker'[w].task = t
      /\ worker'[w].accepted = worker[w].accepted
      /\ \A v \in Workers : v # w => worker'[v] = worker[v]
  BY <1>0, <1>2, MovesFacts
<1>5. /\ ~ Free(t) /\ ~ Waits(t) /\ client[t] \notin Entering
      /\ TaskCalm(t) /\ Placed(w) /\ Knows(w)
  BY <1>0, <1>2, AtHand
<1>6. /\ task[t].status \in {"failed", "none"} /\ WindowClosed(t)
      /\ task[t].status # "none" => mirror[t] \notin {"none", "cancelled"}
  BY <1>0, <1>2, <1>5 DEF Placed, Fate, Busy, Shown
<1>7. held'[t] = 0
  BY <1>2, <1>5, Points DEF TaskCalm, Dues
<1>8. Minds(w, t)
  BY <1>2, <1>3, <1>4 DEF Minds, Untouched
<1>9. Token(t)' /\ ~ Free(t)'
  BY <1>0, <1>2, <1>3, <1>4, <1>8, HandsOn
<1>10. Dues(t)'
  BY <1>2, <1>3, <1>5, <1>6, <1>7 DEF TaskCalm, Dues, Entering
<1>11. Marks(t)' /\ Row(t)' /\ Settled(t)
  BY <1>3, <1>5, <1>6, <1>7, <1>9 DEF TaskCalm, Marks, Row, Settled
<1>12. Kept(t)' /\ Knows(w)'
  BY <1>0, <1>3, <1>4, <1>5 DEF Knows, Kept, TaskCalm, Waits, KeepsProviderId, Unknowing
<1>13. Placed(w)'
  BY <1>3, <1>4, <1>6 DEF Placed, Fate, Busy, Shown, WindowClosed, HasGrace
<1>14. Purse(w)'
  BY <1>4, <1>7 DEF Purse, Busy, Settling
<1>15. QED
  BY <1>0, <1>2, <1>4, <1>8, <1>9, <1>10, <1>11, <1>12, <1>13, <1>14, CalmByWorker
     DEF TaskCalm, WorkerCalm

\* The queue.
LEMMA DequeueCalm ==
  ASSUME Types, AllCalm, NEW w \in Workers, Dequeue(w)
  PROVE  AllCalm'
<1>1. PICK t \in Promoted : /\ pending' = Promoted \ {t}
                            /\ Turns(w, [Idle EXCEPT !.pc = "claim", !.task = t])
  BY DequeueFacts
<1>2. t \in Tasks /\ None \notin Tasks
  BY QueueAssumption DEF Promoted, Ripe, Types, SetTypes
<1>3. /\ worker[w].task = None
      /\ worker'[w].pc = "claim" /\ worker'[w].task = t
      /\ \A v \in Workers : v # w => worker'[v] = worker[v]
  BY <1>1, <1>2, WorkerIs, ClaimingType DEF Dequeue, At, Manned, Off, Turns
<1>4. /\ UNCHANGED <<kind, task, cancelRefunds, elapsed, mirror, client, finisher, price,
                     changes, billed, held, charges, paid, known>>
      /\ deferred' = deferred \ Ripe
  BY DEF Dequeue, rule, ledger, provider
<1>5. Waits(t) /\ TaskCalm(t) /\ Free(t)
  BY <1>1, <1>2 DEF Promoted, Ripe, Waits, AllCalm, TaskCalm, Token
<1>6. /\ task[t].status \in {"queued", "cancelled", "none"} /\ WindowClosed(t)
      /\ KeepsProviderId(t) => ~ (known[t] > 0)
  <2>1. t \in pending \/ (t \in Ripe /\ task[t].status = "queued")
    BY <1>1 DEF Promoted
  <2>2. WindowClosed(t)
    BY <1>5, <2>1 DEF TaskCalm, Token, Ripe, WindowClosed
  <2>3. QED
    BY <1>5, <2>2 DEF TaskCalm, Token, Kept
<1>7. ~ Free(t)' /\ ~ Waits(t)' /\ client[t] \notin Entering
  <2>1. ~ Free(t)'
    BY <1>3 DEF Free
  <2>2. t \notin pending' /\ t \notin deferred'
    BY <1>1, <1>4, <1>5 DEF Promoted, TaskCalm, Token
  <2>3. QED
    BY <1>5, <2>1, <2>2 DEF Waits, TaskCalm, Token
<1>8. TaskCalm(t)'
  <2>1. Token(t)'
    BY <1>4, <1>5, <1>7 DEF TaskCalm, Token, Waits, Entering
  <2>2. Dues(t)' /\ Marks(t)'
    BY <1>4, <1>5, <1>7 DEF TaskCalm, Dues, Marks, Intact, PaidUp
  <2>3. Row(t)' /\ Kept(t)'
    BY <1>4, <1>5, <1>6, <1>7 DEF TaskCalm, Row, Kept, KeepsProviderId
  <2>4. QED
    BY <2>1, <2>2, <2>3 DEF TaskCalm
<1>9. ASSUME NEW i \in Tasks, i # t PROVE TaskCalm(i)'
  <2>1. Free(i)' <=> Free(i)
    BY <1>2, <1>3, <1>9, FreeElsewhere
  <2>2. TaskCalm(i)
    BY DEF AllCalm
  <2>3. /\ Waits(i)' => Waits(i)
        /\ i \in pending' => WindowClosed(i)
        /\ ~ (i \in pending' /\ i \in deferred')
        /\ Waits(i) /\ task[i].status = "queued" => Waits(i)'
    BY <1>1, <1>4, <1>9, <2>2
       DEF Promoted, Ripe, Waits, WindowClosed, TaskCalm, Token
  <2>4. Token(i)'
    <3>1. WindowClosed(i)' <=> WindowClosed(i)
      BY <1>4 DEF WindowClosed, HasGrace
    <3>2. QED
      BY <1>4, <2>1, <2>2, <2>3, <3>1 DEF TaskCalm, Token
  <2>5. Dues(i)' /\ Marks(i)'
    BY <1>4, <2>1, <2>2 DEF TaskCalm, Dues, Marks, Intact, PaidUp
  <2>6. Row(i)' /\ Kept(i)'
    BY <1>4, <2>1, <2>2, <2>3 DEF TaskCalm, Row, Kept, KeepsProviderId
  <2>7. QED
    BY <2>4, <2>5, <2>6 DEF TaskCalm
<1>10. Sole'
  BY <1>2, <1>3, <1>5 DEF AllCalm, Sole, Free
<1>11. WorkerCalm(w)'
  <2>1. Placed(w)'
    BY <1>3, <1>4, <1>6 DEF Placed, Fate, Busy, Shown, WindowClosed, HasGrace
  <2>2. Purse(w)' /\ Knows(w)'
    BY <1>3, <1>4, <1>6 DEF Purse, Busy, Settling, Knows, KeepsProviderId
  <2>3. QED
    BY <1>3, <2>1, <2>2 DEF WorkerCalm
<1>12. ASSUME NEW v \in Workers, v # w PROVE WorkerCalm(v)'
  <2>1. WorkerCalm(v) /\ worker'[v] = worker[v]
    BY <1>3, <1>12 DEF AllCalm
  <2>2. (worker[v].pc # "idle" => Placed(v)') /\ (worker[v].pc # "idle" => Purse(v)')
    BY <1>4, <2>1
       DEF WorkerCalm, Placed, Purse, Intact, PaidUp, WindowClosed, HasGrace
  <2>3. worker[v].pc # "idle" => Knows(v)'
    BY <1>4, <2>1 DEF WorkerCalm, Knows, KeepsProviderId
  <2>4. QED
    BY <2>1, <2>2, <2>3 DEF WorkerCalm
<1>13. \A c \in Finishers : FinisherCalm(c)'
  BY <1>4 DEF AllCalm, FinisherCalm
<1>14. QED
  BY <1>8, <1>9, <1>10, <1>11, <1>12, <1>13 DEF AllCalm

LEMMA WorkerStepCalm ==
  ASSUME Types, AllCalm, NEW w \in Workers, WorkerStep(w, "ok")
  PROVE  AllCalm'
BY ClaimCalm, BeginCalm, StartCalm, CallCalm, GenerationCalm, ProgressCalm, CompleteCalm,
   FreezeCalm, ConfirmCalm, SavesCalm, RowCalm, PublishCalm, FailCalm, RequeueCalm,
   UnqueueCalm, ReleaseCalm, DequeueCalm
   DEF WorkerStep, HandlerStep, CompleteStep, FailStep, SavesStep

\* A step of a submission, of a cancellation or of a user concerns task t.
LEMMA CalmByTask ==
  ASSUME Types, AllCalm, NEW t \in Tasks, UNCHANGED worker,
         \A i \in Tasks : i # t => Untouched(i),
         TaskCalm(t)', Settled(t),
         \A w \in Workers : worker[w].task = t => WorkerCalm(w)',
         \A c \in Finishers : finisher'[c] = finisher[c] \/ FinisherCalm(c)'
  PROVE  AllCalm'
<1>1. Sole'
  BY DEF AllCalm, Sole
<1>2. \A i \in Tasks : Free(i)' <=> Free(i)
  BY DEF Free
<1>3. \A i \in Tasks : TaskCalm(i)' /\ Settled(i)
  BY <1>2, UntouchedTask DEF AllCalm
<1>4. \A w \in Workers : WorkerCalm(w)'
  <2>1. TAKE w \in Workers
  <2>2. CASE worker[w].task = t
    BY <2>2
  <2>3. CASE worker[w].task # t
    BY <2>3, UntouchedWorker DEF AllCalm
  <2>4. QED
    BY <2>2, <2>3
<1>5. \A c \in Finishers : FinisherCalm(c)'
  BY <1>3, UntouchedFinisher DEF AllCalm
<1>6. QED
  BY <1>1, <1>3, <1>4, <1>5 DEF AllCalm

LEMMA Holder ==
  ASSUME Types, AllCalm, NEW t \in Tasks, NEW w \in Workers, worker[w].task = t
  PROVE  /\ worker[w].pc \notin Off /\ ~ Free(t)
         /\ Placed(w) /\ Purse(w) /\ Knows(w)
BY AtHand

LEMMA ReserveCalm ==
  ASSUME Types, AllCalm, NEW t \in Tasks, ReserveCredits(t, "ok")
  PROVE  AllCalm'
<1>1. "ok" \in Outcomes
  BY DEF Outcomes
<1>2. /\ client[t] = "new" /\ client'[t] = "save"
      /\ \A i \in Tasks : i # t => /\ client'[i] = client[i] /\ billed'[i] = billed[i]
                                   /\ held'[i] = held[i]
      /\ charges' = charges /\ billed'[t] = price
      /\ held'[t] = IF price > 0 THEN price ELSE held[t]
  BY <1>1, ReserveFacts
<1>3. UNCHANGED <<kind, task, pending, deferred, cancelRefunds, elapsed, mirror, worker,
                  finisher, price, changes, paid, known>>
  BY DEF ReserveCredits, redis, rule, provider
<1>4. TaskCalm(t)
  BY DEF AllCalm
<1>5. /\ Free(t) /\ ~ Waits(t) /\ paid[t] = 0 /\ known[t] = 0
      /\ task[t].status = "none" /\ mirror[t] = "none" /\ Intact(t) /\ billed[t] = 0
  BY <1>2, <1>4 DEF TaskCalm, Token, Dues, Entering
<1>6. Intact(t)'
  BY <1>2, <1>5, Points DEF Intact
<1>7. Token(t)'
  <2>1. Free(t)' /\ ~ Waits(t)'
    BY <1>3, <1>5 DEF Free, Waits
  <2>2. QED
    BY <1>2, <1>3, <1>5, <2>1 DEF Token, Waits
<1>8. Dues(t)'
  BY <1>2, <1>3, <1>5, <1>6 DEF Dues, Intact
<1>9. Marks(t)'
  BY <1>3, <1>4, <1>5 DEF TaskCalm, Marks
<1>10. Row(t)' /\ Kept(t)' /\ Settled(t)
  BY <1>2, <1>3, <1>5 DEF Row, Kept, Waits, Settled
<1>11. \A c \in Finishers : FinisherCalm(c)'
  <2>1. TAKE c \in Finishers
  <2>2. CASE finisher[c].pc = "idle"
    BY <1>3, <2>2 DEF FinisherCalm
  <2>3. CASE finisher[c].pc # "idle"
    <3>1. finisher[c].task # t /\ finisher[c].task \in Tasks
      BY <1>2, <2>3, FinisherIs DEF AllCalm, FinisherCalm, Assigned, Resting
    <3>2. QED
      BY <1>2, <1>3, <2>3, <3>1 DEF AllCalm, FinisherCalm
  <2>4. QED
    BY <2>2, <2>3
<1>12. \A w \in Workers : worker[w].task # t
  BY <1>5 DEF Free
<1>13. \A i \in Tasks : i # t => Untouched(i)
  BY <1>2, <1>3 DEF Untouched
<1>14. TaskCalm(t)'
  BY <1>7, <1>8, <1>9, <1>10 DEF TaskCalm
<1>15. QED
  BY <1>3, <1>10, <1>11, <1>12, <1>13, <1>14, CalmByTask

LEMMA SaveNewCalm ==
  ASSUME Types, AllCalm, NEW t \in Tasks, SaveNewTask(t, "ok")
  PROVE  AllCalm'
<1>1. "ok" \in Outcomes
  BY DEF Outcomes
<1>2. /\ client[t] = "save" /\ client'[t] = "enqueue"
      /\ \A i \in Tasks : i # t => client'[i] = client[i] /\ task'[i] = task[i]
      /\ task'[t].dispatch = task[t].dispatch /\ task'[t].refund = task[t].refund
      /\ task'[t].status = IF task[t].status = "cancelled" THEN "cancelled" ELSE "queued"
  BY <1>1, SaveNewFacts
<1>3. UNCHANGED <<kind, pending, deferred, cancelRefunds, elapsed, mirror, worker,
                  finisher, price, changes, billed, held, charges, paid, known>>
  BY DEF SaveNewTask, rule, ledger, provider
<1>4. TaskCalm(t)
  BY DEF AllCalm
<1>5. /\ Free(t) /\ ~ Waits(t) /\ paid[t] = 0 /\ known[t] = 0
      /\ task[t].status = "none" /\ mirror[t] = "none" /\ Intact(t)
  BY <1>2, <1>4 DEF TaskCalm, Token, Dues, Entering
<1>6. task'[t].status = "queued" /\ Free(t)' /\ ~ Waits(t)'
  BY <1>2, <1>3, <1>5 DEF Free, Waits
<1>7. Token(t)'
  BY <1>2, <1>3, <1>5, <1>6 DEF Token, Waits
<1>8. Dues(t)'
  BY <1>2, <1>3, <1>4, <1>5, <1>6 DEF TaskCalm, Dues, Intact
<1>9. Marks(t)'
  BY <1>2, <1>3, <1>4, <1>5, <1>6, Points DEF TaskCalm, Marks
<1>10. Row(t)' /\ Kept(t)'
  BY <1>3, <1>5, <1>6, Points DEF Row, Kept
<1>11. \A c \in Finishers : finisher[c].pc # "idle" => finisher[c].task # t
  BY <1>2 DEF AllCalm, FinisherCalm
<1>12. \A w \in Workers : worker[w].task # t
  BY <1>5 DEF Free
<1>13. \A i \in Tasks : i # t => Untouched(i)
  BY <1>2, <1>3 DEF Untouched
<1>14. TaskCalm(t)' /\ Settled(t)
  BY <1>2, <1>7, <1>8, <1>9, <1>10 DEF TaskCalm, Settled
<1>15. QED
  BY <1>3, <1>12, <1>13, <1>14, CalmByTask

LEMMA EnqueueCalm ==
  ASSUME Types, AllCalm, NEW t \in Tasks, EnqueueWithGrace(t, "ok")
  PROVE  AllCalm'
<1>1. "ok" \in Outcomes
  BY DEF Outcomes
<1>2. /\ client[t] = "enqueue" /\ client'[t] = "persist"
      /\ \A i \in Tasks : i # t => client'[i] = client[i]
  BY <1>1, EnqueueFacts
<1>3. /\ UNCHANGED <<kind, task, cancelRefunds, elapsed, mirror, worker,
                     finisher, price, changes, billed, held, charges, paid, known>>
      /\ deferred' = IF HasGrace(t) /\ task[t].status = "queued"
                     THEN deferred \cup {t} ELSE deferred
      /\ pending' = IF HasGrace(t) THEN pending ELSE pending \cup {t}
  BY DEF EnqueueWithGrace, rule, ledger, provider, Applied
<1>4. TaskCalm(t)
  BY DEF AllCalm
<1>5. /\ Free(t) /\ ~ Waits(t) /\ paid[t] = 0 /\ known[t] = 0
      /\ task[t].status \in {"queued", "cancelled", "none"}
  BY <1>2, <1>4 DEF TaskCalm, Token, Entering
<1>6. /\ Free(t)' /\ task[t].status = "queued" => Waits(t)'
      /\ ~ (t \in pending' /\ t \in deferred')
      /\ t \in pending' => WindowClosed(t)'
  BY <1>3, <1>5 DEF Free, Waits, WindowClosed, HasGrace
<1>7. Free(t)'
  BY <1>3, <1>5 DEF Free
<1>8. Token(t)'
  BY <1>2, <1>3, <1>5, <1>6, <1>7 DEF Token, Entering
<1>9. Dues(t)' /\ Marks(t)'
  BY <1>2, <1>3, <1>4, <1>5, <1>7 DEF TaskCalm, Dues, Marks, Intact
<1>10. Row(t)' /\ Kept(t)'
  BY <1>3, <1>4, <1>5, <1>7, Points DEF TaskCalm, Row, Kept
<1>11. Settled(t)
  BY <1>2, <1>3 DEF Settled
<1>12. \A w \in Workers : worker[w].task # t
  BY <1>5 DEF Free
<1>13. \A i \in Tasks : i # t => Untouched(i)
  BY <1>2, <1>3 DEF Untouched
<1>14. QED
  BY <1>3, <1>8, <1>9, <1>10, <1>11, <1>12, <1>13, CalmByTask DEF TaskCalm

LEMMA CreateCalm ==
  ASSUME Types, AllCalm, NEW t \in Tasks, PersistCreate(t, "ok")
  PROVE  AllCalm'
<1>1. "ok" \in Outcomes
  BY DEF Outcomes
<1>2. /\ client[t] = "persist" /\ client'[t] = "accepted"
      /\ \A i \in Tasks : i # t => client'[i] = client[i] /\ mirror'[i] = mirror[i]
      /\ mirror'[t] \in {mirror[t], "pending"}
      /\ mirror'[t] # mirror[t] => mirror[t] = "none"
  BY <1>1, CreateFacts
<1>3. UNCHANGED <<kind, task, pending, deferred, cancelRefunds, elapsed, worker,
                  finisher, price, changes, billed, held, charges, paid, known>>
  BY DEF PersistCreate, redis, rule, ledger, provider
<1>4. TaskCalm(t)
  BY DEF AllCalm
<1>5. Free(t)' <=> Free(t)
  BY <1>3 DEF Free
<1>6. Token(t)'
  BY <1>2, <1>3, <1>4, <1>5 DEF TaskCalm, Token, Waits, WindowClosed, HasGrace, Entering
<1>7. Dues(t)' /\ Marks(t)'
  BY <1>2, <1>3, <1>4, <1>5 DEF TaskCalm, Dues, Marks, Intact, PaidUp
<1>8. Row(t)'
  BY <1>2, <1>3, <1>4, <1>5 DEF TaskCalm, Row
<1>9. Kept(t)' /\ Settled(t)
  BY <1>2, <1>3, <1>4 DEF TaskCalm, Kept, Waits, KeepsProviderId, Settled
<1>10. ASSUME NEW w \in Workers, worker[w].task = t PROVE WorkerCalm(w)'
  <2>1. Placed(w) /\ Purse(w) /\ Knows(w) /\ WorkerCalm(w)
    BY <1>10, Holder DEF AllCalm
  <2>2. Placed(w)'
    BY <1>2, <1>3, <1>10, <2>1 DEF Placed, WindowClosed, HasGrace
  <2>3. Purse(w)' /\ Knows(w)'
    BY <1>3, <2>1 DEF Purse, Intact, PaidUp, Knows, KeepsProviderId
  <2>4. QED
    BY <1>3, <2>1, <2>2, <2>3 DEF WorkerCalm
<1>11. \A i \in Tasks : i # t => Untouched(i)
  BY <1>2, <1>3 DEF Untouched
<1>12. QED
  BY <1>3, <1>6, <1>7, <1>8, <1>9, <1>10, <1>11, CalmByTask DEF TaskCalm

LEMMA SubmitStepCalm ==
  ASSUME Types, AllCalm, NEW t \in Tasks, SubmitStep(t, "ok")
  PROVE  AllCalm'
<1>1. client[t] # "rollback"
  BY DEF AllCalm, TaskCalm, Token
<1>2. QED
  BY <1>1, ReserveCalm, SaveNewCalm, EnqueueCalm, CreateCalm DEF SubmitStep, RollBackSubmission

\* A cancellation reaches only what no worker has submitted.
LEMMA CancelCalm ==
  ASSUME Types, AllCalm, NEW c \in Finishers, NEW t \in Tasks, CancelTask(c, t, "ok")
  PROVE  AllCalm'
<1>1. "ok" \in Outcomes
  BY DEF Outcomes
<1>2. /\ \A i \in Tasks : i # t => task'[i] = task[i]
      /\ \/ task' = task /\ task[t].status = "cancelled"
         \/ /\ Cancellable(t) /\ task'[t].status = "cancelled"
            /\ task'[t].dispatch = task[t].dispatch /\ task'[t].refund = "pending"
  BY <1>1, CancelFacts
<1>3. /\ UNCHANGED <<kind, pending, deferred, elapsed, mirror, client, worker, price,
                     changes, billed, held, charges, paid, known>>
      /\ finisher' = [finisher EXCEPT ![c] = [pc |-> "cleanup", task |-> t]]
  BY DEF CancelTask, rule, ledger, provider
<1>4. task'[t].status = "cancelled"
  BY <1>2
<1>5. TaskCalm(t)
  BY DEF AllCalm
<1>6. /\ \A d \in Finishers : d # c => finisher'[d] = finisher[d]
      /\ finisher'[c] = [pc |-> "cleanup", task |-> t]
  BY <1>3 DEF Types, FinisherTypes
<1>7. FinisherCalm(c)'
  <2>1. client[t] \notin {"new", "save"}
    BY <1>2, <1>5 DEF TaskCalm, Token, Cancellable
  <2>2. QED
    BY <1>3, <1>4, <1>6, <2>1 DEF FinisherCalm
<1>8. \A i \in Tasks : i # t => Untouched(i)
  BY <1>2, <1>3 DEF Untouched
<1>9. Free(t)' <=> Free(t)
  BY <1>3 DEF Free
<1>10. CASE task' = task /\ task[t].status = "cancelled"
  <2>1. \A i \in Tasks : Untouched(i)
    BY <1>3, <1>8, <1>10 DEF Untouched
  <2>2. TaskCalm(t)' /\ Settled(t)
    BY <1>5, <1>9, <2>1, UntouchedTask
  <2>3. \A w \in Workers : WorkerCalm(w)'
    BY <1>3, <2>1, UntouchedWorker DEF AllCalm
  <2>4. QED
    BY <1>3, <1>6, <1>7, <2>1, <2>2, <2>3, CalmByTask
<1>11. CASE /\ Cancellable(t) /\ task'[t].status = "cancelled"
            /\ task'[t].dispatch = task[t].dispatch /\ task'[t].refund = "pending"
  <2>1. /\ task[t].status \in {"queued", "processing"} /\ task[t].dispatch # "submitted"
        /\ task[t].status = "processing" => task[t].dispatch = "preparing"
    BY <1>11 DEF Cancellable
  <2>2. ASSUME NEW w \in Workers, worker[w].task = t
        PROVE  /\ task[t].status = "queued" => worker[w].pc = "claim"
               /\ task[t].status = "processing" => worker[w].pc = "begin"
               /\ Placed(w) /\ Purse(w) /\ Knows(w)
    <3>1. Placed(w) /\ Purse(w) /\ Knows(w) /\ worker[w].pc \in Positions
      BY <2>2, Holder, WorkerIs DEF WorkerType, Positions
    <3>2. worker[w].pc \notin Busy \cup {"requeue"}
      BY <2>1, <2>2, <3>1 DEF Placed
    <3>3. task[t].status \in Fate(worker[w].pc)
      BY <2>2, <3>1 DEF Placed
    <3>4. QED
      BY <2>1, <3>1, <3>2, <3>3 DEF Fate
  <2>3. task[t].status = "processing" => \E w \in Workers : worker[w].task = t
    BY <1>5 DEF TaskCalm, Token, Free
  <2>4. charges[t] = 0 /\ (KeepsProviderId(t) => ~ (known[t] > 0))
    <3>1. CASE task[t].status = "queued"
      BY <1>5, <3>1 DEF TaskCalm, Dues, Intact, Kept
    <3>2. CASE task[t].status = "processing"
      <4>1. PICK w \in Workers : worker[w].task = t
        BY <2>3, <3>2
      <4>2. worker[w].pc = "begin" /\ Purse(w) /\ Knows(w)
        BY <2>2, <3>2, <4>1
      <4>3. QED
        BY <3>2, <4>1, <4>2 DEF Purse, Knows, Intact, Unknowing
    <3>3. QED
      BY <2>1, <3>1, <3>2
  <2>5. client[t] \notin {"new", "save"}
    BY <1>5, <2>1 DEF TaskCalm, Token
  <2>6. Token(t)'
    BY <1>3, <1>4, <1>5, <1>9, <2>5
       DEF TaskCalm, Token, Waits, WindowClosed, HasGrace, Entering
  <2>7. Dues(t)'
    BY <1>3, <1>4, <1>5, <2>4, <2>5 DEF TaskCalm, Dues
  <2>8. Marks(t)'
    BY <1>3, <1>5, <1>11, <2>1 DEF TaskCalm, Marks
  <2>9. Row(t)' /\ Kept(t)' /\ Settled(t)
    BY <1>3, <1>4, <2>1, <2>4 DEF Row, Kept, KeepsProviderId, Settled
  <2>10. ASSUME NEW w \in Workers, worker[w].task = t PROVE WorkerCalm(w)'
    <3>1. worker[w].pc \in {"claim", "begin"} /\ Placed(w) /\ Knows(w)
      BY <2>1, <2>2, <2>10
    <3>2. Placed(w)'
      BY <1>3, <1>4, <2>10, <3>1
         DEF Placed, Fate, Busy, Shown, WindowClosed, HasGrace
    <3>3. Purse(w)' /\ Knows(w)'
      BY <1>3, <1>4, <2>10, <3>1
         DEF Purse, Busy, Settling, Knows, KeepsProviderId
    <3>4. QED
      BY <1>3, <3>1, <3>2, <3>3 DEF WorkerCalm
  <2>11. QED
    BY <1>3, <1>6, <1>7, <1>8, <2>6, <2>7, <2>8, <2>9, <2>10, CalmByTask DEF TaskCalm
<1>12. QED
  BY <1>2, <1>10, <1>11

LEMMA RetryCalm ==
  ASSUME Types, AllCalm, NEW c \in Finishers, NEW t \in Tasks, RetryCancelledRefund(c, t)
  PROVE  AllCalm'
<1>1. /\ task[t].status = "cancelled" /\ finisher'[c] = [pc |-> "cleanup", task |-> t]
      /\ \A d \in Finishers : d # c => finisher'[d] = finisher[d]
  BY RetryFacts DEF FinisherTurns
<1>2. UNCHANGED <<kind, task, pending, deferred, elapsed, mirror, client, worker, price,
                  changes, billed, held, charges, paid, known>>
  BY DEF RetryCancelledRefund, redis, rule, ledger, provider
<1>3. \A i \in Tasks : Untouched(i) /\ (Free(i)' <=> Free(i))
  BY <1>2 DEF Untouched, Free
<1>4. FinisherCalm(c)'
  BY <1>1, <1>2 DEF FinisherCalm, AllCalm, TaskCalm, Token
<1>5. TaskCalm(t)' /\ Settled(t)
  BY <1>3, UntouchedTask DEF AllCalm
<1>6. \A w \in Workers : WorkerCalm(w)'
  BY <1>2, <1>3, UntouchedWorker DEF AllCalm
<1>7. QED
  BY <1>1, <1>2, <1>3, <1>4, <1>5, <1>6, CalmByTask

\* What a worker does with a task that was cancelled or deleted does not depend on its row,
\* on its reservation or on its place in the queue.
LEMMA CancelledHolder ==
  ASSUME Types, NEW t \in Tasks, NEW w \in Workers, worker[w].task = t, WorkerCalm(w),
         task[t].status \in {"cancelled", "none", "completed", "failed"},
         task'[t].status \in {task[t].status, "none"},
         task[t].status \in {"completed", "failed"} => task'[t].status = "none",
         UNCHANGED <<worker, kind, elapsed, known>>
  PROVE  WorkerCalm(w)'
<1>1. CASE worker[w].pc = "idle"
  BY <1>1 DEF WorkerCalm
<1>2. CASE worker[w].pc # "idle"
  <2>1. Placed(w) /\ Purse(w) /\ Knows(w) /\ worker[w].pc \in Positions \ Off
    BY <1>2, WorkerIs DEF WorkerCalm, WorkerType, Positions, Off
  <2>2. worker[w].pc \notin Busy \cup {"requeue"}
    BY <2>1 DEF Placed, Fate, Busy
  <2>3. /\ worker[w].pc \notin {"claim", "begin"} => task'[t].status = "none"
        /\ task'[t].status \in {"cancelled", "none"} /\ task[t].status \in Fate(worker[w].pc)
    BY <2>1, <2>2 DEF Placed, Fate
  <2>4. /\ worker[w].pc # "progress" /\ worker[w].pc # "save_completed"
        /\ worker[w].pc \notin {"quote", "freeze", "confirm"}
    BY <2>2 DEF Busy
  <2>5. task'[t].status \in Fate(worker[w].pc)
    BY <2>1, <2>2, <2>3 DEF Fate, Positions, Off
  <2>6. Placed(w)'
    BY <2>1, <2>2, <2>3, <2>4, <2>5 DEF Placed, Shown, WindowClosed, HasGrace
  <2>7. Purse(w)'
    BY <2>2, <2>3, <2>4 DEF Purse, Settling
  <2>8. Knows(w)'
    BY <2>1 DEF Knows, KeepsProviderId
  <2>9. QED
    BY <2>1, <2>6, <2>7, <2>8 DEF WorkerCalm, Off
<1>3. QED
  BY <1>1, <1>2

LEMMA FinishCalm ==
  ASSUME Types, AllCalm, NEW c \in Finishers, FinishStep(c, "ok")
  PROVE  AllCalm'
<1>0. PICK t : t = finisher[c].task
  OBVIOUS
<1>1. "ok" \in Outcomes
  BY DEF Outcomes
<1>2. /\ t \in Tasks /\ finisher[c].pc # "idle"
      /\ \/ /\ CleanUp(c, "ok") /\ FinisherCommanded(c, "ok", "mirror")
            /\ pending' = pending \ {t}
         \/ /\ MirrorCancelled(c, "ok") /\ FinisherCommanded(c, "ok", "release")
            /\ \A i \in Tasks : i # t => mirror'[i] = mirror[i]
            /\ mirror'[t] = IF mirror[t] \in {"none", "cancelled"} THEN mirror[t]
                            ELSE "cancelled"
         \/ /\ ReleaseCancelled(c, "ok") /\ FinisherCommanded(c, "ok", "mark")
            /\ charges' = charges /\ \A i \in Tasks : i # t => held'[i] = held[i]
            /\ held'[t] = IF billed[t] > 0 /\ held[t] > 0 THEN 0 ELSE held[t]
         \/ /\ MarkRefunded(c, "ok") /\ FinisherCommanded(c, "ok", "forget")
            /\ finisher[c].pc = "mark"
            /\ \A i \in Tasks : i # t => task'[i] = task[i]
            /\ task'[t].status = task[t].status /\ task'[t].dispatch = task[t].dispatch
            /\ task'[t].refund \in {task[t].refund, "completed"}
            /\ task'[t].refund # task[t].refund => task[t].status # "none"
         \/ ForgetRefund(c, "ok") /\ FinisherCommanded(c, "ok", "idle")
  BY <1>0, <1>1, FinishFactsOf
<1>3. /\ TaskCalm(t) /\ client[t] \notin {"new", "save"}
      /\ task[t].status \in {"cancelled", "none"}
      /\ finisher[c].pc \in {"mark", "forget"} => held[t] = 0
  BY <1>0, <1>2 DEF AllCalm, FinisherCalm
<1>4. UNCHANGED <<kind, deferred, elapsed, client, worker, price, changes, billed, charges,
                  paid, known>>
  BY <1>2 DEF CleanUp, MirrorCancelled, ReleaseCancelled, MarkRefunded, ForgetRefund, redis,
     rule, ledger, provider
<1>5. /\ \A i \in Tasks : i # t => /\ task'[i] = task[i] /\ mirror'[i] = mirror[i]
                                   /\ held'[i] = held[i]
                                   /\ i \in pending' <=> i \in pending
      /\ task'[t].status = task[t].status /\ task'[t].dispatch = task[t].dispatch
      /\ task'[t].refund = "completed" =>
           task[t].refund = "completed" \/ (task[t].status = "cancelled" /\ held'[t] = 0)
      /\ held[t] = 0 => held'[t] = 0
      /\ held'[t] \in {0, held[t]}
      /\ mirror'[t] \in {mirror[t], "cancelled"}
      /\ t \in pending' => t \in pending
  <2>1. CASE CleanUp(c, "ok") /\ pending' = pending \ {t}
    BY <2>1 DEF CleanUp, ledger
  <2>2. CASE /\ MirrorCancelled(c, "ok")
             /\ \A i \in Tasks : i # t => mirror'[i] = mirror[i]
             /\ mirror'[t] = IF mirror[t] \in {"none", "cancelled"} THEN mirror[t]
                             ELSE "cancelled"
    BY <2>2 DEF MirrorCancelled, redis, ledger
  <2>3. CASE /\ ReleaseCancelled(c, "ok")
             /\ \A i \in Tasks : i # t => held'[i] = held[i]
             /\ held'[t] = IF billed[t] > 0 /\ held[t] > 0 THEN 0 ELSE held[t]
    BY <2>3 DEF ReleaseCancelled, redis
  <2>4. CASE /\ MarkRefunded(c, "ok") /\ finisher[c].pc = "mark"
             /\ \A i \in Tasks : i # t => task'[i] = task[i]
             /\ task'[t].status = task[t].status /\ task'[t].dispatch = task[t].dispatch
             /\ task'[t].refund \in {task[t].refund, "completed"}
             /\ task'[t].refund # task[t].refund => task[t].status # "none"
    BY <1>3, <2>4 DEF MarkRefunded, ledger
  <2>5. CASE ForgetRefund(c, "ok")
    BY <2>5 DEF ForgetRefund, ledger
  <2>6. QED
    BY <1>2, <2>1, <2>2, <2>3, <2>4, <2>5
<1>6. FinisherCalm(c)'
  <2>1. finisher'[c] = Resting \/ finisher'[c].task = t
    BY <1>0, <1>2 DEF FinisherCommanded, FinisherTurns
  <2>2. finisher'[c].pc \in {"mark", "forget"} => held'[t] = 0
    <3>1. CASE ReleaseCancelled(c, "ok")
               /\ held'[t] = IF billed[t] > 0 /\ held[t] > 0 THEN 0 ELSE held[t]
      BY <1>2, <1>3, <3>1, Points DEF TaskCalm, Dues
    <3>2. CASE MarkRefunded(c, "ok") /\ finisher[c].pc = "mark"
      BY <1>3, <1>5, <3>2
    <3>3. CASE \/ FinisherCommanded(c, "ok", "mirror")
               \/ FinisherCommanded(c, "ok", "release")
               \/ FinisherCommanded(c, "ok", "idle")
      BY <3>3 DEF FinisherCommanded, FinisherTurns, Resting
    <3>4. QED
      BY <1>2, <3>1, <3>2, <3>3
  <2>3. QED
    BY <1>3, <1>4, <1>5, <2>1, <2>2 DEF FinisherCalm, Resting
<1>7. \A d \in Finishers : d # c => finisher'[d] = finisher[d]
  BY <1>2 DEF FinisherCommanded, FinisherTurns
<1>8. Free(t)' <=> Free(t)
  BY <1>4 DEF Free
<1>9. Token(t)'
  BY <1>3, <1>4, <1>5, <1>8
     DEF TaskCalm, Token, Waits, WindowClosed, HasGrace, Entering
<1>10. Dues(t)'
  BY <1>3, <1>4, <1>5 DEF TaskCalm, Dues
<1>11. Marks(t)'
  BY <1>3, <1>4, <1>5 DEF TaskCalm, Marks
<1>12. Row(t)' /\ Kept(t)' /\ Settled(t)
  BY <1>3, <1>4, <1>5 DEF TaskCalm, Row, Kept, Waits, KeepsProviderId, Settled
<1>13. \A w \in Workers : worker[w].task = t => WorkerCalm(w)'
  BY <1>2, <1>3, <1>4, <1>5, CancelledHolder DEF AllCalm
<1>14. \A i \in Tasks : i # t => Untouched(i)
  BY <1>4, <1>5 DEF Untouched
<1>15. QED
  BY <1>2, <1>4, <1>6, <1>7, <1>9, <1>10, <1>11, <1>12, <1>13, <1>14, CalmByTask DEF TaskCalm

LEMMA DeleteCalm ==
  ASSUME Types, AllCalm, NEW t \in Tasks, DeleteTask(t)
  PROVE  AllCalm'
<1>1. /\ task[t].status \in {"completed", "failed", "cancelled"}
      /\ task'[t].status = "none" /\ task'[t].dispatch = "" /\ task'[t].refund = ""
      /\ mirror'[t] = "none"
      /\ \A i \in Tasks : i # t => task'[i] = task[i] /\ mirror'[i] = mirror[i]
  BY DeleteFacts DEF Deletable
<1>2. /\ UNCHANGED <<kind, deferred, elapsed, client, worker, finisher, price, changes,
                     billed, held, charges, paid, known>>
      /\ pending' = pending \ {t}
  BY DEF DeleteTask, rule, ledger, provider
<1>3. TaskCalm(t)
  BY DEF AllCalm
<1>4. (Free(t)' <=> Free(t)) /\ client[t] \notin {"new", "save"}
  BY <1>1, <1>2, <1>3 DEF Free, TaskCalm, Token
<1>5. Token(t)'
  BY <1>1, <1>2, <1>3, <1>4 DEF TaskCalm, Token, Waits, WindowClosed, HasGrace, Entering
<1>6. Dues(t)' /\ Marks(t)'
  BY <1>1, <1>2, <1>3, <1>4 DEF TaskCalm, Dues, Marks
<1>7. Row(t)' /\ Kept(t)' /\ Settled(t)
  BY <1>1, <1>2, <1>3 DEF TaskCalm, Row, Kept, Waits, KeepsProviderId, Settled
<1>8. \A w \in Workers : worker[w].task = t => WorkerCalm(w)'
  BY <1>1, <1>2, CancelledHolder DEF AllCalm
<1>9. \A i \in Tasks : i # t => Untouched(i)
  BY <1>1, <1>2 DEF Untouched
<1>10. QED
  BY <1>2, <1>5, <1>6, <1>7, <1>8, <1>9, CalmByTask DEF TaskCalm

\* Time, and the administrator.
LEMMA DeadlineCalm ==
  ASSUME Types, AllCalm, NEW t \in Tasks, DeadlinePasses(t)
  PROVE  AllCalm'
<1>1. elapsed'[t] = TRUE /\ \A i \in Tasks : i # t => elapsed'[i] = elapsed[i]
  BY DeadlineFacts
<1>2. UNCHANGED <<kind, task, pending, deferred, mirror, client, worker, finisher, price,
                  changes, billed, held, charges, paid, known>>
  BY DEF DeadlinePasses, redis, rule, ledger, provider
<1>3. TaskCalm(t) /\ (Free(t)' <=> Free(t)) /\ WindowClosed(t)'
  BY <1>1, <1>2 DEF AllCalm, Free, WindowClosed
<1>4. Token(t)'
  BY <1>2, <1>3 DEF TaskCalm, Token, Waits
<1>5. Dues(t)' /\ Marks(t)'
  BY <1>2, <1>3 DEF TaskCalm, Dues, Marks, Intact, PaidUp
<1>6. Row(t)' /\ Kept(t)' /\ Settled(t)
  BY <1>2, <1>3 DEF TaskCalm, Row, Kept, Waits, KeepsProviderId, Settled
<1>7. ASSUME NEW w \in Workers, worker[w].task = t PROVE WorkerCalm(w)'
  <2>1. Placed(w) /\ Purse(w) /\ Knows(w) /\ WorkerCalm(w)
    BY <1>7, Holder DEF AllCalm
  <2>2. Placed(w)'
    BY <1>2, <1>3, <1>7, <2>1 DEF Placed
  <2>3. Purse(w)' /\ Knows(w)'
    BY <1>2, <2>1 DEF Purse, Intact, PaidUp, Knows, KeepsProviderId
  <2>4. QED
    BY <1>2, <2>1, <2>2, <2>3 DEF WorkerCalm
<1>8. \A i \in Tasks : i # t => Untouched(i)
  BY <1>1, <1>2 DEF Untouched
<1>9. QED
  BY <1>2, <1>4, <1>5, <1>6, <1>7, <1>8, CalmByTask DEF TaskCalm

LEMMA RuleCalm == ASSUME Types, AllCalm, ChangeRule PROVE AllCalm'
<1>1. UNCHANGED <<kind, task, pending, deferred, elapsed, mirror, client, worker, finisher,
                  billed, held, charges, paid, known>>
  BY DEF ChangeRule, redis, ledger, provider
<1>2. changes' # 0
  BY DEF ChangeRule, Types, RuleTypes
<1>3. ASSUME NEW i \in Tasks PROVE TaskCalm(i)'
  <2>1. TaskCalm(i) /\ (Free(i)' <=> Free(i))
    BY <1>1 DEF AllCalm, Free
  <2>2. Token(i)'
    BY <1>1, <2>1 DEF TaskCalm, Token, Waits, WindowClosed, HasGrace
  <2>3. Dues(i)' /\ Marks(i)'
    BY <1>1, <1>2, <2>1 DEF TaskCalm, Dues, Marks, Intact
  <2>4. Row(i)' /\ Kept(i)'
    BY <1>1, <2>1 DEF TaskCalm, Row, Kept, Waits, KeepsProviderId
  <2>5. QED
    BY <2>2, <2>3, <2>4 DEF TaskCalm
<1>4. ASSUME NEW w \in Workers PROVE WorkerCalm(w)'
  <2>1. WorkerCalm(w)
    BY DEF AllCalm
  <2>2. worker[w].pc # "idle" => Placed(w)' /\ Purse(w)'
    BY <1>1, <1>2, <2>1 DEF WorkerCalm, Placed, Purse, Intact, WindowClosed, HasGrace
  <2>3. worker[w].pc # "idle" => Knows(w)'
    BY <1>1, <2>1 DEF WorkerCalm, Knows, KeepsProviderId
  <2>4. QED
    BY <1>1, <2>1, <2>2, <2>3 DEF WorkerCalm
<1>5. Sole' /\ \A c \in Finishers : FinisherCalm(c)'
  BY <1>1 DEF AllCalm, Sole, FinisherCalm
<1>6. QED
  BY <1>3, <1>4, <1>5 DEF AllCalm

-----------------------------------------------------------------------------
\* As long as nothing has failed, every command had the outcome "ok".
Unfailing ==
  \/ ChangeRule
  \/ \E t \in Tasks : DeadlinePasses(t) \/ DeleteTask(t)
  \/ \E t \in Tasks : SubmitStep(t, "ok")
  \/ \E w \in Workers : WorkerStep(w, "ok")
  \/ \E c \in Finishers : FinishStep(c, "ok") \/ \E t \in Tasks : CancelTask(c, t, "ok")
  \/ \E c \in Finishers, t \in Tasks : RetryCancelledRefund(c, t)

LEMMA WorkerUnfailing ==
  ASSUME NEW w \in Workers, NEW o, WorkerStep(w, o), ~ Fault(o)
  PROVE  WorkerStep(w, "ok") /\ UNCHANGED faults
<1>1. \/ Dequeue(w) \/ RecordTaskStart(w) \/ ProviderFails(w) \/ ProviderSucceeds(w)
      \/ ReadForProgress(w) \/ SaveProgress(w) \/ QuoteUsage(w) \/ PersistFailed(w)
  BY DEF WorkerStep, HandlerStep, CompleteStep, FailStep, ClaimForPreparation,
         BeginSubmission, CallProvider, CompleteTask, FreezeUsage, ConfirmUsage,
         SaveCompleted, PersistCompleted, Publish, FailTask, SaveQueued, Requeue,
         SaveFailed, UnqueueFailed, ReleaseFailed, Proceed
<1>2. UNCHANGED faults
  BY <1>1
     DEF Dequeue, RecordTaskStart, ProviderFails, ProviderSucceeds, ReadForProgress,
         SaveProgress, QuoteUsage, PersistFailed
<1>3. WorkerStep(w, "ok")
  BY <1>1 DEF WorkerStep, HandlerStep, CompleteStep, FailStep
<1>4. QED
  BY <1>2, <1>3

\* A step fails with a fault, or it does what it would do unfailingly.
LEMMA NextFaults ==
  ASSUME Types, Next
  PROVE  \/ faults < MaxFaults /\ faults' = faults + 1
         \/ UNCHANGED faults /\ Unfailing
<1>1. CASE ChangeRule \/ \E t \in Tasks : DeadlinePasses(t) \/ DeleteTask(t)
  BY <1>1 DEF Unfailing, ChangeRule, DeadlinePasses, DeleteTask
<1>2. CASE \E c \in Finishers, t \in Tasks : RetryCancelledRefund(c, t)
  BY <1>2 DEF Unfailing, RetryCancelledRefund
<1>3. CASE Crash
  BY <1>3 DEF Crash
<1>4. ASSUME NEW o, Fault(o)
      PROVE  \/ faults < MaxFaults /\ faults' = faults + 1
             \/ o = "ok" /\ UNCHANGED faults
  <2>1. CASE o = "ok"
    BY <1>4, <2>1 DEF Fault
  <2>2. CASE o # "ok"
    BY <1>4, <2>2 DEF Fault
  <2>3. QED
    BY <2>1, <2>2
<1>5. ASSUME NEW o \in Outcomes, NEW w \in Workers, WorkerStep(w, o)
      PROVE  \/ faults < MaxFaults /\ faults' = faults + 1
             \/ UNCHANGED faults /\ Unfailing
  BY <1>4, <1>5, WorkerUnfailing DEF Unfailing
<1>6. ASSUME NEW o \in Outcomes, NEW t \in Tasks, SubmitStep(t, o)
      PROVE  \/ faults < MaxFaults /\ faults' = faults + 1
             \/ UNCHANGED faults /\ Unfailing
  <2>1. Fault(o)
    BY <1>6 DEF SubmitStep, ReserveCredits, SaveNewTask, EnqueueWithGrace, PersistCreate,
       RollBackSubmission
  <2>2. QED
    BY <1>4, <1>6, <2>1 DEF Unfailing
<1>7. ASSUME NEW o \in Outcomes, NEW c \in Finishers,
             FinishStep(c, o) \/ \E t \in Tasks : CancelTask(c, t, o)
      PROVE  \/ faults < MaxFaults /\ faults' = faults + 1
             \/ UNCHANGED faults /\ Unfailing
  <2>1. Fault(o)
    BY <1>7 DEF FinishStep, CleanUp, MirrorCancelled, ReleaseCancelled, MarkRefunded,
       ForgetRefund, Step, CancelTask
  <2>2. QED
    BY <1>4, <1>7, <2>1 DEF Unfailing
<1>8. QED
  BY <1>1, <1>2, <1>3, <1>5, <1>6, <1>7 DEF Next

LEMMA NextUnfailing ==
  ASSUME Types, Next, faults' = 0
  PROVE  Unfailing /\ faults = 0
BY NextFaults DEF Types, FaultTypes

LEMMA NextCalm ==
  ASSUME Types, Calm, [Next]_vars
  PROVE  Calm'
<1>1. SUFFICES ASSUME faults' = 0 PROVE AllCalm'
  BY DEF Calm
<1>2. CASE Next
  <2>1. Unfailing /\ AllCalm
    BY <1>1, <1>2, NextUnfailing DEF Calm
  <2>2. QED
    BY <2>1, RuleCalm, DeadlineCalm, DeleteCalm, SubmitStepCalm, WorkerStepCalm, FinishCalm,
       CancelCalm, RetryCalm DEF Unfailing
<1>3. CASE UNCHANGED vars
  <2>1. /\ AllCalm
        /\ UNCHANGED <<kind, task, pending, deferred, elapsed, mirror, client, worker,
                       finisher, price, changes, billed, held, charges, paid, known>>
    BY <1>1, <1>3 DEF Calm, vars, redis, rule, ledger, provider
  <2>2. ASSUME NEW i \in Tasks PROVE TaskCalm(i)' /\ Untouched(i) /\ Settled(i)
    <3>1. Untouched(i) /\ (Free(i)' <=> Free(i))
      BY <2>1 DEF Untouched, Free
    <3>2. QED
      BY <2>1, <3>1, UntouchedTask DEF AllCalm
  <2>3. \A w \in Workers : WorkerCalm(w)'
    BY <2>1, <2>2, UntouchedWorker DEF AllCalm
  <2>4. Sole' /\ \A c \in Finishers : FinisherCalm(c)'
    BY <2>1, <2>2, UntouchedFinisher DEF AllCalm, Sole
  <2>5. QED
    BY <2>2, <2>3, <2>4 DEF AllCalm
<1>4. QED
  BY <1>2, <1>3

LEMMA InitCalm == Init => Calm
<1>1. SUFFICES ASSUME Init PROVE AllCalm
  BY DEF Calm
<1>2. ASSUME NEW w \in Workers PROVE worker[w].pc = "idle" /\ worker[w].task = None
  BY <1>1, IdleType DEF Init
<1>3. ASSUME NEW t \in Tasks PROVE TaskCalm(t)
  <2>1. /\ task[t].status = "none" /\ task[t].refund = "" /\ mirror[t] = "none"
        /\ client[t] = "new" /\ t \notin pending /\ t \notin deferred
        /\ billed[t] = 0 /\ held[t] = 0 /\ charges[t] = 0 /\ paid[t] = 0 /\ known[t] = 0
    BY <1>1 DEF Init, Ledger!Init, NoTask
  <2>2. Free(t)
    BY <1>2, QueueAssumption DEF Free
  <2>3. ~ (paid[t] > 0) /\ ~ (known[t] > 0)
    <3>1. \A n : n = 0 => ~ (n > 0)
      OBVIOUS
    <3>2. QED
      BY <2>1, <3>1
  <2>4. Token(t)
    BY <2>1, <2>2 DEF Token, Waits
  <2>5. Dues(t) /\ Marks(t)
    BY <2>1, <2>3 DEF Dues, Marks, Intact
  <2>6. Row(t) /\ Kept(t)
    BY <2>1, <2>3 DEF Row, Kept
  <2>7. QED
    BY <2>4, <2>5, <2>6 DEF TaskCalm
<1>4. \A w \in Workers : WorkerCalm(w)
  BY <1>2 DEF WorkerCalm
<1>5. \A c \in Finishers : FinisherCalm(c)
  BY <1>1 DEF Init, FinisherCalm, Resting
<1>6. Sole
  BY <1>2 DEF Sole
<1>7. QED
  BY <1>3, <1>4, <1>5, <1>6 DEF AllCalm

\* Until the first command fails, a task is in the hands of its submission, of the queue or
\* of one worker, and its record, its row and its reservation agree with whose hands those
\* are, whatever users cancel and delete and however often the price is edited.
THEOREM QueueCalmInvariant == Spec => []Calm
<1>1. Types /\ Calm /\ [Next]_vars => Calm'
  BY NextCalm
<1>2. QED
  BY <1>1, InitCalm, QueueTypes, PTL DEF Spec

LEMMA QuietIsFree ==
  ASSUME NEW t \in Tasks, Quiet(t)
  PROVE  Free(t) /\ client[t] \in {"new", "accepted", "rejected"}
BY DEF Quiet, Free

\* A record that says queued is in the queue or in the undo window once its submission is
\* over, and a popped task is put back, until the first command fails.
THEOREM QueueNoLostTask == Spec => [](faults = 0 => NoLostTask)
<1>1. Types /\ Calm => (faults = 0 => NoLostTask)
  BY QuietIsFree DEF Calm, AllCalm, TaskCalm, Token, Waits, NoLostTask
<1>2. QED
  BY <1>1, QueueTypes, QueueCalmInvariant, PTL

\* A finished generation was charged once and holds nothing, unless the price was edited;
\* a failed one was refunded in full.
THEOREM QueueEndedIsSettled == Spec => [](faults = 0 => EndedIsSettled)
<1>1. Types /\ Calm => (faults = 0 => EndedIsSettled)
  BY QuietIsFree DEF Calm, AllCalm, TaskCalm, Dues, PaidUp, EndedIsSettled
<1>2. QED
  BY <1>1, QueueTypes, QueueCalmInvariant, PTL

\* When nobody works on a task that ended, its row says how it ended.
THEOREM QueueOutcomeMirrored == Spec => [](faults = 0 => OutcomeMirrored)
<1>1. Types /\ Calm => (faults = 0 => OutcomeMirrored)
  BY QuietIsFree DEF Calm, AllCalm, TaskCalm, Row, OutcomeMirrored
<1>2. QED
  BY <1>1, QueueTypes, QueueCalmInvariant, PTL

\* Deleting records does not break "only queued tasks that have not been submitted can be
\* cancelled and refunded" either, until the first command fails.
THEOREM QueueCancelledUnpaidEarly == Spec => [](faults = 0 => CancelledUnpaid)
<1>1. Types /\ Calm => (faults = 0 => CancelledUnpaid)
  <2>1. SUFFICES ASSUME Types, AllCalm, NEW t \in Tasks, task[t].status = "cancelled"
                 PROVE  /\ paid[t] = 0 /\ charges[t] = 0
                        /\ task[t].refund = "completed" => held[t] = 0
    BY DEF Calm, CancelledUnpaid
  <2>2. QED
    BY <2>1, Points DEF AllCalm, TaskCalm, Dues, Marks
<1>2. QED
  BY <1>1, QueueTypes, QueueCalmInvariant, PTL

\* Once the provider's id is known, an unfailing step does not ask for a second generation.
LEMMA KnownIsKept ==
  ASSUME Types, Calm, Next, faults' = 0, NEW t \in Tasks, KeepsProviderId(t), known[t] > 0
  PROVE  paid'[t] = paid[t]
<1>1. Unfailing /\ AllCalm
  BY NextUnfailing DEF Calm
<1>2. ASSUME NEW w \in Workers, CallProvider(w, "ok") PROVE paid'[t] = paid[t]
  <2>1. PICK i : i = worker[w].task
    OBVIOUS
  <2>2. /\ i \in Tasks /\ worker[w].pc = "call"
        /\ \A j \in Tasks : j # i => paid'[j] = paid[j]
    BY <1>2, <2>1, CallFacts DEF Outcomes
  <2>3. Knows(w)
    BY <1>1, <2>1, <2>2, AtHand
  <2>4. i # t
    BY <2>1, <2>2, <2>3 DEF Knows, Unknowing
  <2>5. QED
    BY <2>2, <2>4
<1>3. CASE \E w \in Workers : CallProvider(w, "ok")
  BY <1>2, <1>3
<1>4. CASE ~ \E w \in Workers : CallProvider(w, "ok")
  <2>1. UNCHANGED paid
    <3>1. CASE ChangeRule \/ \E i \in Tasks : DeadlinePasses(i) \/ DeleteTask(i)
      BY <3>1 DEF ChangeRule, DeadlinePasses, DeleteTask, provider
    <3>2. CASE \E i \in Tasks : SubmitStep(i, "ok")
      BY <3>2 DEF SubmitStep, ReserveCredits, SaveNewTask, EnqueueWithGrace, PersistCreate,
         RollBackSubmission, provider
    <3>3. ASSUME NEW w \in Workers, WorkerStep(w, "ok") PROVE UNCHANGED paid
      <4>1. CASE HandlerStep(w, "ok")
        BY <1>4, <4>1 DEF HandlerStep, RecordTaskStart, ProviderFails, ProviderSucceeds,
           ReadForProgress, SaveProgress, provider
      <4>2. CASE CompleteStep(w, "ok")
        BY <4>2 DEF CompleteStep, CompleteTask, QuoteUsage, FreezeUsage, ConfirmUsage,
           SaveCompleted, PersistCompleted, Publish, provider
      <4>3. CASE FailStep(w, "ok")
        BY <4>3 DEF FailStep, FailTask, SaveQueued, Requeue, SaveFailed, UnqueueFailed,
           ReleaseFailed, PersistFailed, provider
      <4>4. CASE Dequeue(w) \/ ClaimForPreparation(w, "ok") \/ BeginSubmission(w, "ok")
        BY <4>4 DEF Dequeue, ClaimForPreparation, BeginSubmission, provider
      <4>5. QED
        BY <3>3, <4>1, <4>2, <4>3, <4>4 DEF WorkerStep
    <3>4. CASE \E c \in Finishers :
                 FinishStep(c, "ok") \/ \E i \in Tasks : CancelTask(c, i, "ok")
      BY <3>4 DEF FinishStep, CleanUp, MirrorCancelled, ReleaseCancelled, MarkRefunded,
         ForgetRefund, CancelTask, provider
    <3>5. CASE \E c \in Finishers, i \in Tasks : RetryCancelledRefund(c, i)
      BY <3>5 DEF RetryCancelledRefund, provider
    <3>6. QED
      BY <1>1, <3>1, <3>2, <3>3, <3>4, <3>5 DEF Unfailing
  <2>2. QED
    BY <2>1
<1>5. QED
  BY <1>3, <1>4

\* With the provider's id in hand the task is never submitted again, by any step before the
\* first command fails (the retry of a command that failed may submit it again).
THEOREM QueueKnownNotResubmittedEarly ==
  Spec => [][faults' = 0 =>
               \A t \in Tasks : KeepsProviderId(t) /\ known[t] > 0 => paid'[t] = paid[t]]_vars
<1>1. Types /\ Calm /\ [Next]_vars =>
        [faults' = 0 =>
           \A t \in Tasks : KeepsProviderId(t) /\ known[t] > 0 => paid'[t] = paid[t]]_vars
  BY KnownIsKept
<1>2. QED
  BY <1>1, QueueTypes, QueueCalmInvariant, PTL DEF Spec

LEMMA NoFaults ==
  ASSUME MaxFaults = 0
  PROVE  Spec => [](faults = 0)
<1>1. Types /\ faults = 0 /\ [Next]_vars => (faults = 0)'
  <2>1. SUFFICES ASSUME Types, faults = 0, [Next]_vars PROVE faults' = 0
    OBVIOUS
  <2>2. CASE Next
    <3>1. ~ (faults < MaxFaults)
      BY <2>1
    <3>2. UNCHANGED faults
      BY <2>1, <2>2, <3>1, NextFaults
    <3>3. QED
      BY <2>1, <3>2
  <2>3. CASE UNCHANGED vars
    BY <2>1, <2>3 DEF vars
  <2>4. QED
    BY <2>1, <2>2, <2>3
<1>2. Init => faults = 0
  BY DEF Init
<1>3. QED
  BY <1>1, <1>2, QueueTypes, PTL DEF Spec

\* The same for every step of a system whose commands all succeed.
THEOREM QueueKnownNotResubmitted ==
  ASSUME MaxFaults = 0
  PROVE  Spec => KnownNotResubmitted
<1>1. (faults = 0)' /\ [faults' = 0 =>
         \A t \in Tasks : KeepsProviderId(t) /\ known[t] > 0 => paid'[t] = paid[t]]_vars
      => [\A t \in Tasks : KeepsProviderId(t) /\ known[t] > 0 => paid'[t] = paid[t]]_vars
  OBVIOUS
<1>2. QED
  BY <1>1, NoFaults, QueueKnownNotResubmittedEarly, PTL DEF KnownNotResubmitted
=============================================================================
