-------------------------- MODULE JimengJobProofs --------------------------
(***************************************************************************)
(* JimengJob for any tasks, workers and faults: no paid submission is made  *)
(* twice, one generation of the account is under way at a time, and the     *)
(* points follow the outcome.                                               *)
(***************************************************************************)
EXTENDS JimengJob, TLAPS

(***************************************************************************)
(* The inductive invariant.  First: who holds the account's lock, and what  *)
(* the holder knows of the stage of its job and of the generation.          *)
(***************************************************************************)
Enqueuing == {"row", "ensure", "save", "push", "abandon"}

OfWaiting == {"withdraw", "check", "begin", "intent", "reopen"}
OfSubmitting == {"submit", "answer", "identify", "unstarted"}
OfRefund == {"release", "fail_row", "fail", "save_failed", "end_failed"}
OfSettling == {"settle", "complete_row", "complete", "end_completed"}
OfGeneration == {"ask", "refund", "wait", "keep", "persist"}

Inside(k) ==
  \/ k.pc \in OfWaiting \cup OfSubmitting \cup OfRefund \cup OfSettling \cup OfGeneration
                \cup {"review"}
  \/ k.then = "ask"

\* What a stage says of the generation.
Fits(j) ==
  /\ accepted[j] <= 1
  /\ stage[j] \in {"none", "waiting"} => accepted[j] = 0 /\ generation[j] = "none"
  /\ stage[j] \in {"refund_pending", "failed"} => generation[j] \in {"none", "fail"}
  /\ stage[j] \in {"persisting", "settling", "completed"} => generation[j] = "success"

\* A runner has a job that exists, and one inside the transition holds the lock.
Manned(r) ==
  /\ runner[r].pc # "idle" => runner[r].job \in Jobs /\ stage[runner[r].job] # "none"
  /\ runner[r].then = "ask" => runner[r].pc \in {"progress", "save_progress"}
  /\ runner[r].pc = "save_progress" => runner[r].seen \in Statuses
  /\ Inside(runner[r]) => lock = r

\* The stage a runner is at, and what it relies on.
Placed(r) ==
  LET k == runner[r] IN
  /\ k.pc \in OfWaiting => stage[k.job] = "waiting"
  /\ k.pc \in OfSubmitting => stage[k.job] = "submitting"
  /\ k.pc \in {"submit", "unstarted"} => accepted[k.job] = 0 /\ generation[k.job] = "none"
  /\ k.pc \in {"begin", "intent", "submit"} =>
       \A i \in Jobs : i # k.job => stage[i] \notin BusyStages
  /\ k.pc \in OfRefund => stage[k.job] = "refund_pending"
  /\ k.pc \in OfSettling => stage[k.job] = "settling"
  /\ k.pc \in OfGeneration \/ k.then = "ask" => stage[k.job] \in {"submitted", "persisting"}
  /\ k.pc = "refund" => generation[k.job] = "fail"
  /\ k.pc \in {"keep", "persist"} => generation[k.job] = "success"

\* A submission holds the lock while the job is its own, and makes the job.
Submits(j) ==
  /\ client[j] \in Enqueuing => lock = j
  /\ client[j] \in {"new", "lock", "row", "ensure"} => stage[j] = "none"
  /\ client[j] \in {"save", "push", "abandon"} => stage[j] = "waiting"

StageInv ==
  /\ TypeOK
  /\ \A j \in Jobs : Fits(j) /\ Submits(j)
  /\ \A r \in Runners : Manned(r) /\ Placed(r)
  /\ OneAtJimeng

\* What is in the queue has a job.
Queued == \A j \in pending : stage[j] # "none"

-----------------------------------------------------------------------------
(***************************************************************************)
(* Second: where the points are.                                            *)
(***************************************************************************)
Kept(j) == held[j] > 0 \/ charges[j] > 0

\* A job that gets its points back stays on the way out.
Leaving == {"refund_pending", "failed", "review_required"}

\* Rows, records and cancellations of a job.
Recorded(j) ==
  /\ record[j].status # "none" \/ row[j] = "cancelled" \/ finisher[j] # "idle" =>
       stage[j] # "none"
  /\ client[j] \in {"new", "lock", "row"} => row[j] = "none"
  /\ finisher[j] # "idle" => record[j].status = "cancelled" \/ row[j] = "cancelled"
  /\ finisher[j] \in {"release", "report"} => row[j] = "cancelled"
  /\ row[j] = "cancelled" =>
       record[j].status = "cancelled" \/ (record[j].status = "none" /\ client[j] # "save")

\* A record a runner works on is there; one that has begun the submission cannot be
\* cancelled, and a recovery that finds none cannot have missed a generation.
Watched(r) ==
  LET k == runner[r] IN
  /\ k.pc \in {"intent", "submit", "answer", "identify", "unstarted", "reopen",
               "save_failed", "save_progress"} => record[k.job].status # "none"
  /\ k.pc \in {"intent", "submit"} /\ k.job \notin overwritten =>
       record[k.job].dispatch = "submitted" /\ record[k.job].status # "cancelled"
  /\ k.pc = "save_progress" =>
       k.seen # "none" /\ (k.seen = "cancelled" => record[k.job].status = "cancelled")
  /\ k.pc \in {"look", "rebuild"} /\ k.seen = "waiting" /\ k.job \notin overwritten
       /\ record[k.job].status = "none" => generation[k.job] = "none"
  /\ k.pc \in {"complete_row", "complete", "end_completed"} => charges[k.job] = 1 \/ repriced
  /\ k.pc \in {"fail_row", "fail", "save_failed", "end_failed"} => held[k.job] = 0

Balanced(j) ==
  /\ client[j] = "new" => held[j] = 0 /\ charges[j] = 0
  /\ charges[j] <= 1
  /\ charges[j] > 0 => generation[j] = "success"
  /\ stage[j] = "completed" => charges[j] = 1 \/ repriced
  /\ row[j] = "failed" => held[j] = 0 /\ stage[j] \in Leaving
  /\ generation[j] \in {"working", "success"} /\ j \notin overwritten =>
       /\ row[j] # "cancelled"
       /\ record[j].status = "none"
            \/ (record[j].dispatch = "submitted" /\ record[j].status # "cancelled")
  /\ client[j] \notin {"new", "rejected"} /\ ~ Kept(j) /\ j \notin overwritten =>
       generation[j] \in {"none", "fail"} /\ (row[j] = "cancelled" \/ stage[j] \in Leaving)

PointsInv ==
  /\ \A j \in Jobs : Recorded(j) /\ Balanced(j)
  /\ \A r \in Runners : Watched(r)

-----------------------------------------------------------------------------
(***************************************************************************)
(* Control of a runner.                                                     *)
(***************************************************************************)
Goes(r, pc) == lock' = lock /\ runner' = [runner EXCEPT ![r].pc = pc]

Stops(r) ==
  /\ lock' = IF lock = r THEN None ELSE lock
  /\ \/ runner' = [runner EXCEPT ![r] = Idle]
     \/ runner' = [runner EXCEPT ![r].pc = "report", ![r].then = "done"]

RunnerStates ==
  [pc : Positions, job : Jobs \cup {None}, seen : Statuses \cup Stages, then : {"done", "ask"}]

LEMMA RunnerType ==
  ASSUME TypeOK, NEW r \in Runners
  PROVE  runner[r] \in RunnerStates
BY DEF TypeOK, RunnerStates

LEMMA GoesFacts ==
  ASSUME TypeOK, NEW r \in Runners, NEW pc, Goes(r, pc)
  PROVE  /\ runner'[r] = [runner[r] EXCEPT !.pc = pc]
         /\ runner'[r].pc = pc /\ runner'[r].job = runner[r].job
         /\ runner'[r].then = runner[r].then /\ runner'[r].seen = runner[r].seen
         /\ lock' = lock
         /\ \A q \in Runners : q # r => runner'[q] = runner[q]
<1>1. /\ runner'[r] = [runner[r] EXCEPT !.pc = pc]
      /\ \A q \in Runners : q # r => runner'[q] = runner[q]
  BY DEF Goes, TypeOK
<1>2. QED
  BY <1>1, RunnerType DEF Goes, RunnerStates

LEMMA ThenGoesOrStops ==
  ASSUME NEW r, NEW o, NEW pc, Then(r, o, pc)
  PROVE  Stops(r) \/ (o = "ok" /\ pc # "done" /\ Goes(r, pc))
BY DEF Then, Goes, Stops, Goto, Leave, Raise, Unlocked

LEMMA StopsFacts ==
  ASSUME TypeOK, NEW r \in Runners, Stops(r)
  PROVE  /\ \/ runner'[r] = Idle
            \/ /\ runner'[r].pc = "report" /\ runner'[r].then = "done"
               /\ runner'[r].job = runner[r].job /\ runner'[r].seen = runner[r].seen
         /\ lock' = IF lock = r THEN None ELSE lock
         /\ \A q \in Runners : q # r => runner'[q] = runner[q]
<1>1. CASE runner' = [runner EXCEPT ![r] = Idle]
  BY <1>1 DEF TypeOK, Stops
<1>2. CASE runner' = [runner EXCEPT ![r].pc = "report", ![r].then = "done"]
  <2>1. /\ runner'[r] = [runner[r] EXCEPT !.pc = "report", !.then = "done"]
        /\ \A q \in Runners : q # r => runner'[q] = runner[q]
    BY <1>2 DEF TypeOK
  <2>2. QED
    BY <2>1, RunnerType DEF RunnerStates, Stops
<1>3. QED
  BY <1>1, <1>2 DEF Stops

LEMMA StopsIsSound ==
  ASSUME StageInv, NEW r \in Runners, Stops(r), runner[r].pc # "idle",
         \A i \in Jobs : stage'[i] = "none" => stage[i] = "none"
  PROVE  Manned(r)' /\ Placed(r)'
<1>1. TypeOK /\ Manned(r)
  BY DEF StageInv
<1>2. \/ runner'[r] = Idle
      \/ /\ runner'[r].pc = "report" /\ runner'[r].then = "done"
         /\ runner'[r].job = runner[r].job
  BY <1>1, StopsFacts
<1>3. QED
  BY <1>1, <1>2 DEF Idle, Manned, Placed, Inside, OfWaiting, OfSubmitting, OfRefund,
                    OfSettling, OfGeneration

-----------------------------------------------------------------------------
(***************************************************************************)
(* What a step under the lock, or without it, leaves alone.  h is the       *)
(* runner or the task whose submission makes the step.                      *)
(***************************************************************************)
\* Stages and generations change under the lock only, and only of a job that exists.
Minds(h) ==
  /\ lock' = lock \/ lock \in {None, h}
  /\ \A i \in Jobs : \/ stage'[i] = stage[i]
                     \/ lock = h /\ stage[i] # "none" /\ stage'[i] # "none"
                     \/ lock = h /\ i = h /\ stage'[i] # "none"
  /\ \A i \in Jobs : \/ accepted'[i] = accepted[i] /\ generation'[i] = generation[i]
                     \/ lock = h

LEMMA RunnersKeep ==
  ASSUME StageInv, NEW h, Minds(h), NEW q \in Runners, q # h, runner'[q] = runner[q]
  PROVE  Manned(q)' /\ Placed(q)'
<1>1. Manned(q) /\ Placed(q) /\ q # None
  BY JimengAssumption DEF StageInv
<1>2. \A i \in Jobs : stage[i] # "none" => stage'[i] # "none"
  BY DEF Minds
<1>3. CASE Inside(runner[q])
  <2>1. lock = q /\ lock' = q
    BY <1>1, <1>3 DEF Manned, Minds
  <2>2. \A i \in Jobs : /\ stage'[i] = stage[i] /\ accepted'[i] = accepted[i]
                        /\ generation'[i] = generation[i]
    BY <2>1 DEF Minds
  <2>3. runner[q].pc # "idle" /\ runner[q].job \in Jobs
    BY <1>1, <1>3 DEF Manned, Inside, OfWaiting, OfSubmitting, OfRefund, OfSettling,
                      OfGeneration
  <2>4. QED
    BY <1>1, <1>2, <2>1, <2>2, <2>3 DEF Manned, Placed
<1>4. CASE ~ Inside(runner[q])
  BY <1>1, <1>2, <1>4 DEF Manned, Placed, Inside, OfWaiting, OfSubmitting, OfRefund,
                          OfSettling, OfGeneration
<1>5. QED
  BY <1>3, <1>4

LEMMA ClientsKeep ==
  ASSUME StageInv, NEW h, Minds(h), NEW i \in Jobs, i # h, client'[i] = client[i]
  PROVE  Submits(i)'
<1>1. Submits(i) /\ i # None
  BY JimengAssumption DEF StageInv
<1>2. QED
  BY <1>1 DEF Submits, Minds, Enqueuing

\* A step of runner r.
LEMMA RunnerStep ==
  ASSUME StageInv, TypeOK', NEW r \in Runners, Minds(r), client' = client,
         \A q \in Runners : q # r => runner'[q] = runner[q],
         Manned(r)', Placed(r)', \A i \in Jobs : Fits(i)', OneAtJimeng'
  PROVE  StageInv'
<1>1. \A q \in Runners : Manned(q)' /\ Placed(q)'
  BY RunnersKeep
<1>2. \A i \in Jobs : Submits(i)'
  BY ClientsKeep, JimengAssumption
<1>3. QED
  BY <1>1, <1>2 DEF StageInv

\* One that leaves stages and generations alone.
LEMMA QuietStep ==
  ASSUME StageInv, TypeOK', NEW r \in Runners, UNCHANGED <<client, stage, jimeng>>,
         lock' = lock \/ lock \in {None, r},
         \A q \in Runners : q # r => runner'[q] = runner[q],
         Manned(r)', Placed(r)'
  PROVE  StageInv'
<1>1. Minds(r)
  BY DEF Minds, jimeng
<1>2. (\A i \in Jobs : Fits(i)') /\ OneAtJimeng'
  BY DEF StageInv, Fits, OneAtJimeng, jimeng
<1>3. QED
  BY <1>1, <1>2, RunnerStep

\* One that moves its job to stage s.
LEMMA StageStep ==
  ASSUME StageInv, TypeOK', NEW r \in Runners, lock = r, client' = client, UNCHANGED jimeng,
         NEW s \in Stages, s # "none",
         stage' = stage \/ stage' = [stage EXCEPT ![runner[r].job] = s],
         runner[r].job \in Jobs, stage[runner[r].job] # "none",
         \A q \in Runners : q # r => runner'[q] = runner[q],
         s = "waiting" => accepted[runner[r].job] = 0 /\ generation[runner[r].job] = "none",
         s \in {"refund_pending", "failed"} => generation[runner[r].job] \in {"none", "fail"},
         s \in {"persisting", "settling", "completed"} =>
           generation[runner[r].job] = "success",
         Manned(r)', Placed(r)'
  PROVE  StageInv'
<1> DEFINE j == runner[r].job
<1>1. stage \in [Jobs -> Stages]
  BY DEF StageInv, TypeOK
<1>2. stage'[j] \in {s, stage[j]} /\ \A i \in Jobs : i # j => stage'[i] = stage[i]
  BY <1>1
<1>3. Minds(r)
  BY <1>2 DEF Minds, jimeng
<1>4. \A i \in Jobs : Fits(i)'
  <2>1. \A i \in Jobs : Fits(i)
    BY DEF StageInv
  <2>2. QED
    BY <1>2, <2>1 DEF Fits, jimeng
<1>5. OneAtJimeng'
  BY DEF StageInv, OneAtJimeng, jimeng
<1>6. QED
  BY <1>3, <1>4, <1>5, RunnerStep

-----------------------------------------------------------------------------
(***************************************************************************)
(* Types.                                                                   *)
(***************************************************************************)
LockType == Runners \cup Jobs \cup {None}
ClientType ==
  client \in [Jobs -> {"new", "lock", "row", "ensure", "save", "push", "abandon",
                       "rollback", "accepted", "rejected", "failed"}]
RowType ==
  row \in [Jobs -> {"none", "pending", "processing", "completed", "failed", "cancelled"}]
StageType == stage \in [Jobs -> Stages]
Records == [status : Statuses, dispatch : {"", "preparing", "submitted"}]
RedisType == record \in [Jobs -> Records] /\ pending \subseteq Jobs /\ refunding \subseteq Jobs
FinisherType == finisher \in [Jobs -> {"idle", "mirror", "release", "report"}]
JimengType ==
  /\ generation \in [Jobs -> {"none", "working", "success", "fail"}]
  /\ accepted \in [Jobs -> 0..MaxAccepted]
LedgerType == held \in [Jobs -> 0..1] /\ charges \in [Jobs -> Nat]
HistoryType == repriced \in BOOLEAN /\ overwritten \subseteq Jobs
ControlType ==
  /\ runner \in [Runners -> RunnerStates] /\ lock \in LockType /\ faults \in 0..MaxFaults

Types ==
  /\ ClientType /\ RowType /\ StageType /\ RedisType /\ FinisherType /\ JimengType
  /\ LedgerType /\ HistoryType /\ ControlType

LEMMA TypeSplits == TypeOK <=> Types
BY DEF TypeOK, Types, ClientType, RowType, StageType, RedisType, Records, FinisherType,
       JimengType, LedgerType, HistoryType, ControlType, RunnerStates, LockType

LEMMA TypeJoins == Types' => TypeOK'
BY DEF TypeOK, Types, ClientType, RowType, StageType, RedisType, Records, FinisherType,
       JimengType, LedgerType, HistoryType, ControlType, RunnerStates, LockType

\* What a step leaves alone keeps its type.
LEMMA TypesStay ==
  ASSUME TypeOK
  PROVE  /\ UNCHANGED client => ClientType'
         /\ UNCHANGED row => RowType'
         /\ UNCHANGED stage => StageType'
         /\ UNCHANGED redis => RedisType'
         /\ UNCHANGED finisher => FinisherType'
         /\ UNCHANGED jimeng => JimengType'
         /\ UNCHANGED ledger => LedgerType'
         /\ UNCHANGED <<repriced, overwritten>> => HistoryType'
         /\ UNCHANGED <<runner, lock, faults>> => ControlType'
BY TypeSplits
   DEF Types, ClientType, RowType, StageType, RedisType, FinisherType, JimengType, LedgerType,
       HistoryType, ControlType, redis, jimeng, ledger

LEMMA FaultType ==
  ASSUME TypeOK, NEW o, Fault(o)
  PROVE  faults' \in 0..MaxFaults
<1>1. faults \in 0..MaxFaults /\ MaxFaults \in Nat
  BY JimengAssumption DEF TypeOK
<1>2. QED
  BY <1>1 DEF Fault

LEMMA GoesType ==
  ASSUME TypeOK, NEW r \in Runners, NEW pc \in Positions, Goes(r, pc)
  PROVE  runner' \in [Runners -> RunnerStates] /\ lock' \in LockType
<1>1. runner \in [Runners -> RunnerStates]
  BY DEF TypeOK, RunnerStates
<1>2. [runner[r] EXCEPT !.pc = pc] \in RunnerStates
  BY RunnerType DEF RunnerStates
<1>3. runner' = [runner EXCEPT ![r] = [runner[r] EXCEPT !.pc = pc]]
  BY <1>1 DEF Goes
<1>4. runner' \in [Runners -> RunnerStates]
  BY <1>1, <1>2, <1>3
<1>5. QED
  BY <1>4 DEF TypeOK, Goes, LockType

LEMMA StopsType ==
  ASSUME TypeOK, NEW r \in Runners, Stops(r)
  PROVE  runner' \in [Runners -> RunnerStates] /\ lock' \in LockType
<1>1. Idle \in RunnerStates
  BY DEF Idle, RunnerStates, Positions, Statuses
<1>2. runner \in [Runners -> RunnerStates]
  BY DEF TypeOK, RunnerStates
<1>3. CASE runner' = [runner EXCEPT ![r] = Idle]
  BY <1>1, <1>2, <1>3 DEF Stops, TypeOK, LockType
<1>4. CASE runner' = [runner EXCEPT ![r].pc = "report", ![r].then = "done"]
  <2>1. [runner[r] EXCEPT !.pc = "report", !.then = "done"] \in RunnerStates
    <3>1. runner[r] \in RunnerStates
      BY <1>2
    <3>2. "report" \in Positions
      BY DEF Positions
    <3>3. QED
      BY <3>1, <3>2 DEF RunnerStates
  <2>2. runner' = [runner EXCEPT ![r] = [runner[r] EXCEPT !.pc = "report", !.then = "done"]]
    BY <1>2, <1>4
  <2>3. QED
    BY <1>2, <2>1, <2>2 DEF Stops, TypeOK, LockType
<1>5. QED
  BY <1>3, <1>4 DEF Stops

LEMMA ThenType ==
  ASSUME TypeOK, NEW r \in Runners, NEW o, NEW pc \in Positions \cup {"done"}, Then(r, o, pc)
  PROVE  ControlType'
<1>1. faults' \in 0..MaxFaults
  BY FaultType DEF Then
<1>2. CASE o = "ok" /\ pc # "done" /\ Goes(r, pc)
  BY <1>1, <1>2, GoesType DEF ControlType
<1>3. CASE Stops(r)
  BY <1>1, <1>3, StopsType DEF ControlType
<1>4. QED
  BY <1>2, <1>3, ThenGoesOrStops

LEMMA SetStageType ==
  ASSUME StageType, NEW j \in Jobs, NEW s \in Stages, NEW o, SetStage(j, s, o)
  PROVE  StageType'
BY DEF StageType, SetStage

LEMMA SavedType ==
  ASSUME RedisType, NEW j \in Jobs, NEW s \in Statuses
  PROVE  Saved(j, s) \in [Jobs -> Records]
BY DEF RedisType, Saved, Records

LEMMA RestoredType ==
  ASSUME RedisType, NEW j \in Jobs, NEW d \in {"preparing", "submitted"}
  PROVE  Restored(j, d) \in [Jobs -> Records]
BY DEF RedisType, Restored, Records, Statuses

LEMMA ReleasedType ==
  ASSUME LedgerType, NEW j \in Jobs, Released(j)
  PROVE  LedgerType'
BY DEF LedgerType, Released, Ledger!Release, ledger

LEMMA ClientTypes ==
  ASSUME TypeOK, NEW j \in Jobs, ReserveCredits(j) \/ ClientStep(j)
  PROVE  TypeOK'
<1>1. Types
  BY TypeSplits
<1>2. CASE ReserveCredits(j)
  <2>1. ClientType'
    BY <1>1, <1>2 DEF ReserveCredits, Types, ClientType
  <2>2. LedgerType'
    BY <1>1, <1>2 DEF ReserveCredits, Ledger!Freeze, Types, LedgerType
  <2>3. UNCHANGED <<row, stage, redis, finisher, jimeng, repriced, overwritten, runner,
                    lock, faults>>
    BY <1>2 DEF ReserveCredits, ClientUnchanged, sql, redis, jimeng, ledger
  <2>4. QED
    BY <2>1, <2>2, <2>3, TypesStay, TypeJoins DEF Types
<1>3. CASE LockForEnqueue(j)
  <2>1. ClientType'
    BY <1>1, <1>3 DEF LockForEnqueue, Types, ClientType
  <2>2. ControlType'
    BY <1>1, <1>3 DEF LockForEnqueue, ClientUnchanged, LockType, Types, ControlType
  <2>3. UNCHANGED <<row, stage, redis, finisher, jimeng, ledger, repriced, overwritten>>
    BY <1>3 DEF LockForEnqueue, ClientUnchanged, sql, redis, jimeng, ledger
  <2>4. QED
    BY <2>1, <2>2, <2>3, TypesStay, TypeJoins DEF Types
<1>4. ASSUME NEW o \in Outcomes, CreateTask(j, o)
       PROVE  TypeOK'
  <2>1. ClientType'
    BY <1>1, <1>4 DEF CreateTask, Proceed, Types, ClientType
  <2>2. ControlType'
    BY <1>1, <1>4, FaultType DEF CreateTask, Proceed, LockType, ClientUnchanged, Types,
       ControlType
  <2>3. RowType'
    BY <1>1, <1>4 DEF CreateTask, Types, RowType
  <2>4. UNCHANGED <<stage, redis, finisher, jimeng, ledger, repriced, overwritten>>
    BY <1>4 DEF CreateTask, ClientUnchanged, sql, redis, jimeng, ledger
  <2>5. QED
    BY <2>1, <2>2, <2>3, <2>4, TypesStay, TypeJoins DEF Types
<1>5. ASSUME NEW o \in Outcomes, EnsureJob(j, o)
       PROVE  TypeOK'
  <2>1. ClientType'
    BY <1>1, <1>5 DEF EnsureJob, Proceed, Types, ClientType
  <2>2. ControlType'
    BY <1>1, <1>5, FaultType DEF EnsureJob, Proceed, LockType, ClientUnchanged, Types,
       ControlType
  <2>3. StageType'
    BY <1>1, <1>5, SetStageType DEF EnsureJob, Stages, Types, StageType
  <2>4. UNCHANGED <<row, redis, finisher, jimeng, ledger, repriced, overwritten>>
    BY <1>5 DEF EnsureJob, ClientUnchanged, sql, redis, jimeng, ledger
  <2>5. QED
    BY <2>1, <2>2, <2>3, <2>4, TypesStay, TypeJoins DEF Types
<1>6. ASSUME NEW o \in Outcomes, SaveNewTask(j, o)
       PROVE  TypeOK'
  <2>1. ClientType'
    BY <1>1, <1>6 DEF SaveNewTask, Proceed, Types, ClientType
  <2>2. ControlType'
    BY <1>1, <1>6, FaultType DEF SaveNewTask, Proceed, LockType, ClientUnchanged, Types,
       ControlType
  <2>3. RedisType'
    BY <1>1, <1>6, SavedType DEF SaveNewTask, Statuses, ClientUnchanged, Types, RedisType
  <2>4. UNCHANGED <<row, stage, finisher, jimeng, ledger, repriced, overwritten>>
    BY <1>6 DEF SaveNewTask, ClientUnchanged, sql, redis, jimeng, ledger
  <2>5. QED
    BY <2>1, <2>2, <2>3, <2>4, TypesStay, TypeJoins DEF Types
<1>7. ASSUME NEW o \in Outcomes, PushTask(j, o)
       PROVE  TypeOK'
  <2>1. ClientType'
    BY <1>1, <1>7 DEF PushTask, Proceed, Types, ClientType
  <2>2. ControlType'
    BY <1>1, <1>7, FaultType DEF PushTask, Proceed, LockType, ClientUnchanged, Types,
       ControlType
  <2>3. RedisType'
    BY <1>1, <1>7 DEF PushTask, ClientUnchanged, Types, RedisType
  <2>4. UNCHANGED <<row, stage, finisher, jimeng, ledger, repriced, overwritten>>
    BY <1>7 DEF PushTask, ClientUnchanged, sql, redis, jimeng, ledger
  <2>5. QED
    BY <2>1, <2>2, <2>3, <2>4, TypesStay, TypeJoins DEF Types
<1>8. ASSUME NEW o \in Outcomes, Abandon(j, o)
       PROVE  TypeOK'
  <2>1. ClientType'
    BY <1>1, <1>8 DEF Abandon, Proceed, Types, ClientType
  <2>2. ControlType'
    BY <1>1, <1>8, FaultType DEF Abandon, Proceed, LockType, ClientUnchanged, Types,
       ControlType
  <2>3. StageType'
    BY <1>1, <1>8, SetStageType DEF Abandon, Stages, Types, StageType
  <2>4. UNCHANGED <<row, redis, finisher, jimeng, ledger, repriced, overwritten>>
    BY <1>8 DEF Abandon, ClientUnchanged, sql, redis, jimeng, ledger
  <2>5. QED
    BY <2>1, <2>2, <2>3, <2>4, TypesStay, TypeJoins DEF Types
<1>9. ASSUME NEW o \in Outcomes, RollBackSubmission(j, o)
       PROVE  TypeOK'
  <2>1. ClientType'
    BY <1>1, <1>9 DEF RollBackSubmission, Types, ClientType
  <2>2. LedgerType'
    BY <1>1, <1>9, ReleasedType DEF RollBackSubmission, ledger, Types, LedgerType
  <2>3. ControlType'
    BY <1>1, <1>9, FaultType DEF RollBackSubmission, ClientUnchanged, Types, ControlType
  <2>4. UNCHANGED <<row, stage, redis, finisher, jimeng, repriced, overwritten>>
    BY <1>9 DEF RollBackSubmission, ClientUnchanged, sql, redis, jimeng, ledger
  <2>5. QED
    BY <2>1, <2>2, <2>3, <2>4, TypesStay, TypeJoins DEF Types
<1>10. QED
  BY <1>2, <1>3, <1>4, <1>5, <1>6, <1>7, <1>8, <1>9 DEF ClientStep

LEMMA ControlIs ==
  ASSUME NEW r, NEW pc
  PROVE  /\ Goto(r, pc) => Goes(r, pc)
         /\ Leave(r) \/ Raise(r) => Stops(r)
BY DEF Goto, Goes, Leave, Raise, Stops, Unlocked

LEMMA TransitionTo ==
  ASSUME TypeOK, NEW j \in Jobs, stage[j] \notin Ended \cup {"none"}
  PROVE  /\ Transition(j) \in {"check", "review", "release", "settle", "progress", "withdraw"}
         /\ Transition(j) \in {"check", "withdraw"} => stage[j] = "waiting"
         /\ Transition(j) = "release" => stage[j] = "refund_pending"
         /\ Transition(j) = "settle" => stage[j] = "settling"
         /\ Transition(j) = "progress" => stage[j] \in {"submitted", "persisting"}
<1>1. stage[j] \in {"waiting", "submitting", "submitted", "persisting", "settling",
                    "refund_pending"}
  <2>1. stage[j] \in Stages
    BY DEF TypeOK
  <2>2. QED
    BY <2>1 DEF Stages, Ended
<1>2. QED
  BY <1>1 DEF Transition, StepAt

LEMMA EnterFacts ==
  ASSUME TypeOK, NEW r \in Runners, runner[r].job \in Jobs, Enter(r)
  PROVE  \/ Stops(r)
         \/ /\ lock = None /\ lock' = r /\ stage[runner[r].job] \notin Ended \cup {"none"}
            /\ runner'[r].pc = Transition(runner[r].job)
            /\ runner'[r].job = runner[r].job
            /\ runner'[r].then = IF runner'[r].pc = "progress" THEN "ask" ELSE "done"
            /\ \A q \in Runners : q # r => runner'[q] = runner[q]
            /\ runner' \in [Runners -> RunnerStates]
<1> DEFINE j == runner[r].job
<1>1. CASE lock # None \/ stage[j] \in Ended \cup {"none"}
  BY <1>1, ControlIs DEF Enter
<1>2. CASE ~ (lock # None \/ stage[j] \in Ended \cup {"none"})
  <2> DEFINE new == [runner[r] EXCEPT !.pc = Transition(j),
                       !.then = IF Transition(j) = "progress" THEN "ask" ELSE "done"]
  <2>1. Transition(j) \in Positions
    BY <1>2, TransitionTo DEF Positions
  <2>2. runner \in [Runners -> RunnerStates] /\ runner[r] \in RunnerStates
    BY RunnerType DEF TypeOK, RunnerStates
  <2>3. runner' = [runner EXCEPT ![r] = new]
    BY <1>2, <2>2 DEF Enter
  <2>4. new \in RunnerStates
    BY <2>1, <2>2 DEF RunnerStates
  <2>5. /\ new.pc = Transition(j) /\ new.job = j
        /\ new.then = IF new.pc = "progress" THEN "ask" ELSE "done"
    BY <2>2 DEF RunnerStates
  <2>6. /\ runner'[r] = new /\ runner' \in [Runners -> RunnerStates]
        /\ \A q \in Runners : q # r => runner'[q] = runner[q]
    BY <2>2, <2>3, <2>4
  <2>7. QED
    BY <1>2, <2>5, <2>6 DEF Enter
<1>3. QED
  BY <1>1, <1>2

\* Runner r takes the state k.
Becomes(r, k) == runner' = [runner EXCEPT ![r] = k]

LEMMA BecomesFacts ==
  ASSUME TypeOK, NEW r \in Runners, NEW k \in RunnerStates, Becomes(r, k)
  PROVE  /\ runner'[r] = k /\ runner' \in [Runners -> RunnerStates]
         /\ \A q \in Runners : q # r => runner'[q] = runner[q]
<1>1. runner \in [Runners -> RunnerStates]
  BY DEF TypeOK, RunnerStates
<1>2. QED
  BY <1>1 DEF Becomes

\* update_progress goes on to the query of the generation.
Asks(r) ==
  /\ lock' = lock /\ runner[r].then = "ask"
  /\ runner'[r].pc = "ask" /\ runner'[r].job = runner[r].job /\ runner'[r].then = "done"

LEMMA ReadFacts ==
  ASSUME TypeOK, NEW r \in Runners, runner[r].job \in Jobs, ReadForProgress(r)
  PROVE  /\ \A q \in Runners : q # r => runner'[q] = runner[q]
         /\ runner' \in [Runners -> RunnerStates] /\ lock' \in LockType
         /\ \/ Stops(r)
            \/ /\ lock' = lock /\ runner'[r].pc = "save_progress"
               /\ runner'[r].job = runner[r].job /\ runner'[r].then = runner[r].then
               /\ runner'[r].seen = record[runner[r].job].status
               /\ record[runner[r].job].status # "none"
            \/ Asks(r)
<1> DEFINE k == runner[r]
           s == record[k.job].status
<1>1. k \in RunnerStates /\ s \in Statuses
  BY RunnerType DEF TypeOK
<1>2. CASE s # "none"
  <2>1. Becomes(r, [k EXCEPT !.pc = "save_progress", !.seen = s]) /\ lock' = lock
    BY <1>2 DEF ReadForProgress, Becomes
  <2>2. [k EXCEPT !.pc = "save_progress", !.seen = s] \in RunnerStates
    BY <1>1 DEF RunnerStates, Positions
  <2>3. /\ [k EXCEPT !.pc = "save_progress", !.seen = s].pc = "save_progress"
        /\ [k EXCEPT !.pc = "save_progress", !.seen = s].job = k.job
        /\ [k EXCEPT !.pc = "save_progress", !.seen = s].then = k.then
        /\ [k EXCEPT !.pc = "save_progress", !.seen = s].seen = s
    BY <1>1 DEF RunnerStates
  <2>4. lock' \in LockType
    BY <2>1 DEF TypeOK, LockType
  <2>5. QED
    BY <1>2, <2>1, <2>2, <2>3, <2>4, BecomesFacts
<1>3. CASE s = "none" /\ k.then = "ask"
  <2>1. Becomes(r, [k EXCEPT !.pc = "ask", !.then = "done"]) /\ lock' = lock
    BY <1>3 DEF ReadForProgress, Becomes
  <2>2. [k EXCEPT !.pc = "ask", !.then = "done"] \in RunnerStates
    BY <1>1 DEF RunnerStates, Positions
  <2>3. /\ [k EXCEPT !.pc = "ask", !.then = "done"].pc = "ask"
        /\ [k EXCEPT !.pc = "ask", !.then = "done"].job = k.job
        /\ [k EXCEPT !.pc = "ask", !.then = "done"].then = "done"
    BY <1>1 DEF RunnerStates
  <2>4. lock' \in LockType
    BY <2>1 DEF TypeOK, LockType
  <2>5. QED
    BY <1>3, <2>1, <2>2, <2>3, <2>4, BecomesFacts DEF Asks
<1>4. CASE s = "none" /\ k.then # "ask"
  <2>1. Stops(r)
    BY <1>4, ControlIs DEF ReadForProgress
  <2>2. QED
    BY <2>1, StopsType, StopsFacts
<1>5. QED
  BY <1>2, <1>3, <1>4

LEMMA SaveFacts ==
  ASSUME TypeOK, NEW r \in Runners, runner[r].job \in Jobs, NEW o, SaveProgress(r, o)
  PROVE  /\ \A q \in Runners : q # r => runner'[q] = runner[q]
         /\ runner' \in [Runners -> RunnerStates] /\ lock' \in LockType
         /\ Stops(r) \/ Asks(r)
<1> DEFINE k == runner[r]
           new == [k EXCEPT !.pc = "ask", !.then = "done", !.seen = "none"]
<1>1. k \in RunnerStates
  BY RunnerType
<1>2. CASE o = "ok" /\ k.then = "ask"
  <2>1. Becomes(r, new) /\ lock' = lock
    BY <1>2 DEF SaveProgress, Becomes
  <2>2. new \in RunnerStates
    BY <1>1 DEF RunnerStates, Positions, Statuses
  <2>3. new.pc = "ask" /\ new.job = k.job /\ new.then = "done"
    BY <1>1 DEF RunnerStates
  <2>4. lock' \in LockType
    BY <2>1 DEF TypeOK, LockType
  <2>5. QED
    BY <1>2, <2>1, <2>2, <2>3, <2>4, BecomesFacts DEF Asks
<1>3. CASE ~ (o = "ok" /\ k.then = "ask")
  <2>1. Stops(r)
    BY <1>3, ControlIs DEF SaveProgress
  <2>2. QED
    BY <2>1, StopsType, StopsFacts
<1>4. QED
  BY <1>2, <1>3

LEMMA TransitionTypes ==
  ASSUME TypeOK, NEW r \in Runners, runner[r].job \in Jobs,
         runner[r].pc = "save_progress" => runner[r].seen \in Statuses, TransitionStep(r)
  PROVE  TypeOK'
<1>1. Types
  BY TypeSplits
<1>2. CASE Enter(r)
  <2>1. ControlType'
    BY <1>1, <1>2, EnterFacts, StopsType DEF Enter, LockType, Types, ControlType
  <2>2. UNCHANGED <<client, row, stage, redis, finisher, jimeng, ledger, repriced,
                    overwritten>>
    BY <1>2 DEF Enter, sql, redis, jimeng, ledger
  <2>3. QED
    BY <2>1, <2>2, TypesStay, TypeJoins DEF Types
<1>3. CASE SubmitPaid(r)
  <2>1. JimengType'
    BY <1>1, <1>3 DEF SubmitPaid, jimeng, MaxAccepted, Types, JimengType
  <2>2. ControlType'
    BY <1>1, <1>3, ControlIs, GoesType, FaultType DEF SubmitPaid, Positions, At, Types,
       ControlType
  <2>3. UNCHANGED <<client, row, stage, redis, finisher, ledger, repriced, overwritten>>
    BY <1>3 DEF SubmitPaid, sql, redis, jimeng, ledger
  <2>4. QED
    BY <2>1, <2>2, <2>3, TypesStay, TypeJoins DEF Types
<1>4. CASE FailTask(r)
  <2>1. ControlType'
    BY <1>1, <1>4, ControlIs, GoesType, StopsType DEF FailTask, Positions, Types,
       ControlType
  <2>2. UNCHANGED <<client, row, stage, redis, finisher, jimeng, ledger, repriced,
                    overwritten>>
    BY <1>4 DEF FailTask, sql, redis, jimeng, ledger
  <2>3. QED
    BY <2>1, <2>2, TypesStay, TypeJoins DEF Types
<1>5. CASE ReadForProgress(r)
  <2>1. ControlType'
    BY <1>1, <1>5, ReadFacts DEF ReadForProgress, Types, ControlType
  <2>2. UNCHANGED <<client, row, stage, redis, finisher, jimeng, ledger, repriced,
                    overwritten>>
    BY <1>5 DEF ReadForProgress, sql, redis, jimeng, ledger
  <2>3. QED
    BY <2>1, <2>2, TypesStay, TypeJoins DEF Types
<1>6. ASSUME NEW o \in Outcomes, Withdraw(r, o)
       PROVE  TypeOK'
  <2>1. StageType'
    BY <1>1, <1>6, SetStageType DEF Withdraw, Move, Stages, Types, StageType
  <2>2. ControlType'
    BY <1>1, <1>6, ThenType DEF Withdraw, Move, Positions, Types, ControlType
  <2>3. UNCHANGED <<client, row, redis, finisher, jimeng, ledger, repriced, overwritten>>
    BY <1>6 DEF Withdraw, Move, sql, redis, jimeng, ledger
  <2>4. QED
    BY <2>1, <2>2, <2>3, TypesStay, TypeJoins DEF Types
<1>7. ASSUME NEW o \in Outcomes, Refuse(r, o)
       PROVE  TypeOK'
  <2>1. StageType'
    BY <1>1, <1>7, SetStageType DEF Refuse, Move, Stages, Types, StageType
  <2>2. ControlType'
    BY <1>1, <1>7, ThenType DEF Refuse, Move, Positions, Types, ControlType
  <2>3. UNCHANGED <<client, row, redis, finisher, jimeng, ledger, repriced, overwritten>>
    BY <1>7 DEF Refuse, Move, sql, redis, jimeng, ledger
  <2>4. QED
    BY <2>1, <2>2, <2>3, TypesStay, TypeJoins DEF Types
<1>8. ASSUME NEW o \in Outcomes, MarkSubmitting(r, o)
       PROVE  TypeOK'
  <2>1. StageType'
    BY <1>1, <1>8, SetStageType DEF MarkSubmitting, Move, Stages, Types, StageType
  <2>2. ControlType'
    BY <1>1, <1>8, ThenType DEF MarkSubmitting, Move, Positions, Types, ControlType
  <2>3. UNCHANGED <<client, row, redis, finisher, jimeng, ledger, repriced, overwritten>>
    BY <1>8 DEF MarkSubmitting, Move, sql, redis, jimeng, ledger
  <2>4. QED
    BY <2>1, <2>2, <2>3, TypesStay, TypeJoins DEF Types
<1>9. ASSUME NEW o \in Outcomes, Review(r, o)
       PROVE  TypeOK'
  <2>1. StageType'
    BY <1>1, <1>9, SetStageType DEF Review, Move, Stages, Types, StageType
  <2>2. ControlType'
    BY <1>1, <1>9, ThenType DEF Review, Move, Positions, Types, ControlType
  <2>3. UNCHANGED <<client, row, redis, finisher, jimeng, ledger, repriced, overwritten>>
    BY <1>9 DEF Review, Move, sql, redis, jimeng, ledger
  <2>4. QED
    BY <2>1, <2>2, <2>3, TypesStay, TypeJoins DEF Types
<1>10. ASSUME NEW o \in Outcomes, WaitAgain(r, o)
       PROVE  TypeOK'
  <2>1. StageType'
    BY <1>1, <1>10, SetStageType DEF WaitAgain, Move, Stages, Types, StageType
  <2>2. ControlType'
    BY <1>1, <1>10, ThenType DEF WaitAgain, Move, Positions, Types, ControlType
  <2>3. UNCHANGED <<client, row, redis, finisher, jimeng, ledger, repriced, overwritten>>
    BY <1>10 DEF WaitAgain, Move, sql, redis, jimeng, ledger
  <2>4. QED
    BY <2>1, <2>2, <2>3, TypesStay, TypeJoins DEF Types
<1>11. ASSUME NEW o \in Outcomes, EndFailed(r, o)
       PROVE  TypeOK'
  <2>1. StageType'
    BY <1>1, <1>11, SetStageType DEF EndFailed, Move, Stages, Types, StageType
  <2>2. ControlType'
    BY <1>1, <1>11, ThenType DEF EndFailed, Move, Positions, Types, ControlType
  <2>3. UNCHANGED <<client, row, redis, finisher, jimeng, ledger, repriced, overwritten>>
    BY <1>11 DEF EndFailed, Move, sql, redis, jimeng, ledger
  <2>4. QED
    BY <2>1, <2>2, <2>3, TypesStay, TypeJoins DEF Types
<1>12. ASSUME NEW o \in Outcomes, EndCompleted(r, o)
       PROVE  TypeOK'
  <2>1. StageType'
    BY <1>1, <1>12, SetStageType DEF EndCompleted, Move, Stages, Types, StageType
  <2>2. ControlType'
    BY <1>1, <1>12, ThenType DEF EndCompleted, Move, Positions, Types, ControlType
  <2>3. UNCHANGED <<client, row, redis, finisher, jimeng, ledger, repriced, overwritten>>
    BY <1>12 DEF EndCompleted, Move, sql, redis, jimeng, ledger
  <2>4. QED
    BY <2>1, <2>2, <2>3, TypesStay, TypeJoins DEF Types
<1>13. ASSUME NEW o \in Outcomes, FailedAtJimeng(r, o)
       PROVE  TypeOK'
  <2>1. StageType'
    BY <1>1, <1>13, SetStageType DEF FailedAtJimeng, Move, Stages, Types, StageType
  <2>2. ControlType'
    BY <1>1, <1>13, ThenType DEF FailedAtJimeng, Move, Positions, Types, ControlType
  <2>3. UNCHANGED <<client, row, redis, finisher, jimeng, ledger, repriced, overwritten>>
    BY <1>13 DEF FailedAtJimeng, Move, sql, redis, jimeng, ledger
  <2>4. QED
    BY <2>1, <2>2, <2>3, TypesStay, TypeJoins DEF Types
<1>14. ASSUME NEW o \in Outcomes, StillAtJimeng(r, o)
       PROVE  TypeOK'
  <2>1. StageType'
    BY <1>1, <1>14, SetStageType DEF StillAtJimeng, Move, Stages, Types, StageType
  <2>2. ControlType'
    BY <1>1, <1>14, ThenType DEF StillAtJimeng, Move, Positions, Types, ControlType
  <2>3. UNCHANGED <<client, row, redis, finisher, jimeng, ledger, repriced, overwritten>>
    BY <1>14 DEF StillAtJimeng, Move, sql, redis, jimeng, ledger
  <2>4. QED
    BY <2>1, <2>2, <2>3, TypesStay, TypeJoins DEF Types
<1>15. ASSUME NEW o \in Outcomes, FinishedAtJimeng(r, o)
       PROVE  TypeOK'
  <2>1. StageType'
    BY <1>1, <1>15, SetStageType DEF FinishedAtJimeng, Move, Stages, Types, StageType
  <2>2. ControlType'
    BY <1>1, <1>15, ThenType DEF FinishedAtJimeng, Move, Positions, Types, ControlType
  <2>3. UNCHANGED <<client, row, redis, finisher, jimeng, ledger, repriced, overwritten>>
    BY <1>15 DEF FinishedAtJimeng, Move, sql, redis, jimeng, ledger
  <2>4. QED
    BY <2>1, <2>2, <2>3, TypesStay, TypeJoins DEF Types
<1>16. ASSUME NEW o \in Outcomes, PersistResult(r, o)
       PROVE  TypeOK'
  <2>1. StageType'
    BY <1>1, <1>16, SetStageType DEF PersistResult, Move, Stages, Types, StageType
  <2>2. ControlType'
    BY <1>1, <1>16, ThenType DEF PersistResult, Move, Positions, Types, ControlType
  <2>3. UNCHANGED <<client, row, redis, finisher, jimeng, ledger, repriced, overwritten>>
    BY <1>16 DEF PersistResult, Move, sql, redis, jimeng, ledger
  <2>4. QED
    BY <2>1, <2>2, <2>3, TypesStay, TypeJoins DEF Types
<1>17. ASSUME NEW o \in Outcomes, CheckAccount(r, o)
       PROVE  TypeOK'
  <2>1. ControlType'
    BY <1>1, <1>17, ThenType DEF CheckAccount, Positions, Types, ControlType
  <2>2. UNCHANGED <<client, row, stage, redis, finisher, jimeng, ledger, repriced,
                    overwritten>>
    BY <1>17 DEF CheckAccount, sql, redis, jimeng, ledger
  <2>3. QED
    BY <2>1, <2>2, TypesStay, TypeJoins DEF Types
<1>18. ASSUME NEW o \in Outcomes, BeginSubmission(r, o)
       PROVE  TypeOK'
  <2>1. RedisType'
    BY <1>1, <1>18 DEF BeginSubmission, Records, redis, Types, RedisType
  <2>2. ControlType'
    BY <1>1, <1>18, ThenType DEF BeginSubmission, Positions, Types, ControlType
  <2>3. UNCHANGED <<client, row, stage, finisher, jimeng, ledger, repriced, overwritten>>
    BY <1>18 DEF BeginSubmission, sql, redis, jimeng, ledger
  <2>4. QED
    BY <2>1, <2>2, <2>3, TypesStay, TypeJoins DEF Types
<1>19. ASSUME NEW o \in Outcomes, ReceiveAnswer(r, o)
       PROVE  TypeOK'
  <2>1. ControlType'
    BY <1>1, <1>19, ControlIs, GoesType, FaultType DEF ReceiveAnswer, Positions, Types,
       ControlType
  <2>2. UNCHANGED <<client, row, stage, redis, finisher, jimeng, ledger, repriced,
                    overwritten>>
    BY <1>19 DEF ReceiveAnswer, sql, redis, jimeng, ledger
  <2>3. QED
    BY <2>1, <2>2, TypesStay, TypeJoins DEF Types
<1>20. ASSUME NEW o \in Outcomes, RecordSubmitId(r, o)
       PROVE  TypeOK'
  <2>1. StageType'
    BY <1>1, <1>20, SetStageType DEF RecordSubmitId, Stages, Types, StageType
  <2>2. ControlType'
    BY <1>1, <1>20, ControlIs, GoesType, FaultType DEF RecordSubmitId, Positions, Types,
       ControlType
  <2>3. UNCHANGED <<client, row, redis, finisher, jimeng, ledger, repriced, overwritten>>
    BY <1>20 DEF RecordSubmitId, sql, redis, jimeng, ledger
  <2>4. QED
    BY <2>1, <2>2, <2>3, TypesStay, TypeJoins DEF Types
<1>21. ASSUME NEW o \in Outcomes, Reopen(r, o)
       PROVE  TypeOK'
  <2>1. RedisType'
    BY <1>1, <1>21, RestoredType DEF Reopen, Types, RedisType
  <2>2. ControlType'
    BY <1>1, <1>21, ThenType DEF Reopen, Positions, Types, ControlType
  <2>3. UNCHANGED <<client, row, stage, finisher, jimeng, ledger, repriced, overwritten>>
    BY <1>21 DEF Reopen, sql, redis, jimeng, ledger
  <2>4. QED
    BY <2>1, <2>2, <2>3, TypesStay, TypeJoins DEF Types
<1>22. ASSUME NEW o \in Outcomes, ReleaseCredits(r, o)
       PROVE  TypeOK'
  <2>1. LedgerType'
    BY <1>1, <1>22, ReleasedType DEF ReleaseCredits, ledger, Types, LedgerType
  <2>2. ControlType'
    BY <1>1, <1>22, ThenType DEF ReleaseCredits, Positions, Types, ControlType
  <2>3. UNCHANGED <<client, row, stage, redis, finisher, jimeng, repriced, overwritten>>
    BY <1>22 DEF ReleaseCredits, sql, redis, jimeng, ledger
  <2>4. QED
    BY <2>1, <2>2, <2>3, TypesStay, TypeJoins DEF Types
<1>23. ASSUME NEW o \in Outcomes, MirrorFailure(r, o)
       PROVE  TypeOK'
  <2>1. RowType'
    BY <1>1, <1>23 DEF MirrorFailure, Mirrored, Types, RowType
  <2>2. ControlType'
    BY <1>1, <1>23, ThenType DEF MirrorFailure, Positions, Types, ControlType
  <2>3. UNCHANGED <<client, stage, redis, finisher, jimeng, ledger, repriced, overwritten>>
    BY <1>23 DEF MirrorFailure, sql, redis, jimeng, ledger
  <2>4. QED
    BY <2>1, <2>2, <2>3, TypesStay, TypeJoins DEF Types
<1>24. ASSUME NEW o \in Outcomes, SaveFailed(r, o)
       PROVE  TypeOK'
  <2>1. RedisType'
    BY <1>1, <1>24, SavedType DEF SaveFailed, Statuses, Types, RedisType
  <2>2. ControlType'
    BY <1>1, <1>24, ThenType DEF SaveFailed, Positions, Types, ControlType
  <2>3. UNCHANGED <<client, row, stage, finisher, jimeng, ledger, repriced, overwritten>>
    BY <1>24 DEF SaveFailed, sql, redis, jimeng, ledger
  <2>4. QED
    BY <2>1, <2>2, <2>3, TypesStay, TypeJoins DEF Types
<1>25. ASSUME NEW o \in Outcomes, SettleCredits(r, o)
       PROVE  TypeOK'
  <2>1. LedgerType'
    BY <1>1, <1>25 DEF SettleCredits, ledger, Ledger!Freeze, Ledger!Confirm, Types,
       LedgerType
  <2>2. ControlType'
    BY <1>1, <1>25, ControlIs, GoesType, StopsType, FaultType DEF SettleCredits,
       Positions, Types, ControlType
  <2>3. UNCHANGED <<client, row, stage, redis, finisher, jimeng, repriced, overwritten>>
    BY <1>25 DEF SettleCredits, sql, redis, jimeng, ledger
  <2>4. QED
    BY <2>1, <2>2, <2>3, TypesStay, TypeJoins DEF Types
<1>26. ASSUME NEW o \in Outcomes, MirrorCompletion(r, o)
       PROVE  TypeOK'
  <2>1. RowType'
    BY <1>1, <1>26 DEF MirrorCompletion, Mirrored, Types, RowType
  <2>2. ControlType'
    BY <1>1, <1>26, ThenType DEF MirrorCompletion, Positions, Types, ControlType
  <2>3. UNCHANGED <<client, stage, redis, finisher, jimeng, ledger, repriced, overwritten>>
    BY <1>26 DEF MirrorCompletion, sql, redis, jimeng, ledger
  <2>4. QED
    BY <2>1, <2>2, <2>3, TypesStay, TypeJoins DEF Types
<1>27. ASSUME NEW o \in Outcomes, CompleteTask(r, o)
       PROVE  TypeOK'
  <2>1. RedisType'
    BY <1>1, <1>27, SavedType DEF CompleteTask, Statuses, Types, RedisType
  <2>2. ControlType'
    BY <1>1, <1>27, ThenType DEF CompleteTask, Positions, Types, ControlType
  <2>3. UNCHANGED <<client, row, stage, finisher, jimeng, ledger, repriced, overwritten>>
    BY <1>27 DEF CompleteTask, sql, redis, jimeng, ledger
  <2>4. QED
    BY <2>1, <2>2, <2>3, TypesStay, TypeJoins DEF Types
<1>28. ASSUME NEW o \in Outcomes, AskJimeng(r, o)
       PROVE  TypeOK'
  <2>1. ControlType'
    BY <1>1, <1>28, ControlIs, GoesType, StopsType, FaultType DEF AskJimeng, Positions,
       Types, ControlType
  <2>2. UNCHANGED <<client, row, stage, redis, finisher, jimeng, ledger, repriced,
                    overwritten>>
    BY <1>28 DEF AskJimeng, sql, redis, jimeng, ledger
  <2>3. QED
    BY <2>1, <2>2, TypesStay, TypeJoins DEF Types
<1>29. ASSUME NEW o \in Outcomes, SaveProgress(r, o)
       PROVE  TypeOK'
  <2>1. RedisType'
    BY <1>1, <1>29, SavedType DEF SaveProgress, Types, RedisType
  <2>2. ControlType'
    BY <1>1, <1>29, SaveFacts, FaultType DEF SaveProgress, Types, ControlType
  <2>3. UNCHANGED <<client, row, stage, finisher, jimeng, ledger, repriced, overwritten>>
    BY <1>29 DEF SaveProgress, sql, redis, jimeng, ledger
  <2>4. QED
    BY <2>1, <2>2, <2>3, TypesStay, TypeJoins DEF Types
<1>30. QED
  BY <1>2, <1>3, <1>4, <1>5, <1>6, <1>7, <1>8, <1>9, <1>10, <1>11, <1>12, <1>13, <1>14,
     <1>15, <1>16, <1>17, <1>18, <1>19, <1>20, <1>21, <1>22, <1>23, <1>24, <1>25, <1>26,
     <1>27, <1>28, <1>29 DEF TransitionStep

LEMMA CancelTypes ==
  ASSUME TypeOK, NEW j \in Jobs, CancelStep(j)
  PROVE  TypeOK'
<1>1. Types
  BY TypeSplits
<1>2. CASE RetryRefund(j)
  <2>1. FinisherType'
    BY <1>1, <1>2 DEF RetryRefund, Types, FinisherType
  <2>2. UNCHANGED <<client, row, stage, redis, jimeng, ledger, repriced, overwritten,
                    runner, lock, faults>>
    BY <1>2 DEF RetryRefund, sql, redis, jimeng, ledger
  <2>3. QED
    BY <2>1, <2>2, TypesStay, TypeJoins DEF Types
<1>3. ASSUME NEW o \in Outcomes, CancelTask(j, o)
       PROVE  TypeOK'
  <2>1. RedisType'
    BY <1>1, <1>3 DEF CancelTask, Records, Statuses, Types, RedisType
  <2>2. FinisherType'
    BY <1>1, <1>3 DEF CancelTask, Types, FinisherType
  <2>3. ControlType'
    BY <1>1, <1>3, FaultType DEF CancelTask, Types, ControlType
  <2>4. UNCHANGED <<client, row, stage, jimeng, ledger, repriced, overwritten>>
    BY <1>3 DEF CancelTask, sql, redis, jimeng, ledger
  <2>5. QED
    BY <2>1, <2>2, <2>3, <2>4, TypesStay, TypeJoins DEF Types
<1>4. ASSUME NEW o \in Outcomes, MirrorCancellation(j, o)
       PROVE  TypeOK'
  <2>1. RowType'
    BY <1>1, <1>4 DEF MirrorCancellation, Types, RowType
  <2>2. RedisType'
    BY <1>1, <1>4 DEF MirrorCancellation, Types, RedisType
  <2>3. FinisherType'
    BY <1>1, <1>4 DEF MirrorCancellation, Finish, Types, FinisherType
  <2>4. ControlType'
    BY <1>1, <1>4, FaultType DEF MirrorCancellation, Finish, Types, ControlType
  <2>5. UNCHANGED <<client, stage, jimeng, ledger, repriced, overwritten>>
    BY <1>4 DEF MirrorCancellation, sql, redis, jimeng, ledger
  <2>6. QED
    BY <2>1, <2>2, <2>3, <2>4, <2>5, TypesStay, TypeJoins DEF Types
<1>5. ASSUME NEW o \in Outcomes, ReleaseCancelled(j, o)
       PROVE  TypeOK'
  <2>1. LedgerType'
    BY <1>1, <1>5, ReleasedType DEF ReleaseCancelled, ledger, Types, LedgerType
  <2>2. FinisherType'
    BY <1>1, <1>5 DEF ReleaseCancelled, Finish, Types, FinisherType
  <2>3. ControlType'
    BY <1>1, <1>5, FaultType DEF ReleaseCancelled, Finish, Types, ControlType
  <2>4. UNCHANGED <<client, row, stage, redis, jimeng, repriced, overwritten>>
    BY <1>5 DEF ReleaseCancelled, sql, redis, jimeng, ledger
  <2>5. QED
    BY <2>1, <2>2, <2>3, <2>4, TypesStay, TypeJoins DEF Types
<1>6. ASSUME NEW o \in Outcomes, ReportRefund(j, o)
       PROVE  TypeOK'
  <2>1. RedisType'
    BY <1>1, <1>6 DEF ReportRefund, Types, RedisType
  <2>2. FinisherType'
    BY <1>1, <1>6 DEF ReportRefund, Finish, Types, FinisherType
  <2>3. ControlType'
    BY <1>1, <1>6, FaultType DEF ReportRefund, Finish, Types, ControlType
  <2>4. UNCHANGED <<client, row, stage, jimeng, ledger, repriced, overwritten>>
    BY <1>6 DEF ReportRefund, sql, redis, jimeng, ledger
  <2>5. QED
    BY <2>1, <2>2, <2>3, <2>4, TypesStay, TypeJoins DEF Types
<1>7. QED
  BY <1>2, <1>3, <1>4, <1>5, <1>6 DEF CancelStep

LEMMA WorkerTypes ==
  ASSUME TypeOK, NEW w \in Runners, runner[w].job \in Jobs, WorkerStep(w)
  PROVE  TypeOK'
<1>1. Types
  BY TypeSplits
<1>2. CASE EndAgain(w)
  <2>1. RedisType'
    BY <1>1, <1>2, SavedType DEF EndAgain, Statuses, Types, RedisType
  <2>2. FinisherType'
    BY <1>1, <1>2 DEF EndAgain, Types, FinisherType
  <2>3. ControlType'
    BY <1>1, <1>2, ControlIs, StopsType DEF EndAgain, Types, ControlType
  <2>4. UNCHANGED <<client, row, stage, jimeng, ledger, repriced, overwritten>>
    BY <1>2 DEF EndAgain, sql, redis, jimeng, ledger
  <2>5. QED
    BY <2>1, <2>2, <2>3, <2>4, TypesStay, TypeJoins DEF Types
<1>3. ASSUME NEW o \in Outcomes, ClaimForPreparation(w, o)
       PROVE  TypeOK'
  <2>1. RedisType'
    <3> DEFINE k == record[runner[w].job]
               claimed == [k EXCEPT !.status = "processing",
                                    !.dispatch = IF @ = "submitted" THEN @ ELSE "preparing"]
    <3>1. /\ record \in [Jobs -> Records] /\ pending \subseteq Jobs /\ refunding \subseteq Jobs
          /\ pending' = pending /\ refunding' = refunding
      BY <1>1, <1>3 DEF ClaimForPreparation, Types, RedisType
    <3>2. CASE record' = record
      BY <3>1, <3>2 DEF RedisType
    <3>3. CASE record' = [record EXCEPT ![runner[w].job] = claimed]
      <4>1. runner[w].job \in Jobs => k \in Records
        BY <3>1
      <4>2. runner[w].job \in Jobs => claimed \in Records
        BY <4>1 DEF Records, Statuses
      <4>3. QED
        BY <3>1, <3>3, <4>2 DEF RedisType
    <3>4. record' = record \/ record' = [record EXCEPT ![runner[w].job] = claimed]
      BY <1>3, <3>1 DEF ClaimForPreparation
    <3>5. QED
      BY <3>2, <3>3, <3>4
  <2>2. ControlType'
    BY <1>1, <1>3, ControlIs, GoesType, StopsType, FaultType DEF ClaimForPreparation,
       Positions, Types, ControlType
  <2>3. UNCHANGED <<client, row, stage, finisher, jimeng, ledger, repriced, overwritten>>
    BY <1>3 DEF ClaimForPreparation, sql, redis, jimeng, ledger
  <2>4. QED
    BY <2>1, <2>2, <2>3, TypesStay, TypeJoins DEF Types
<1>4. ASSUME NEW o \in Outcomes, MarkProcessing(w, o)
       PROVE  TypeOK'
  <2>1. RowType'
    BY <1>1, <1>4 DEF MarkProcessing, Types, RowType
  <2>2. ControlType'
    BY <1>1, <1>4, ThenType DEF MarkProcessing, Positions, Types, ControlType
  <2>3. UNCHANGED <<client, stage, redis, finisher, jimeng, ledger, repriced, overwritten>>
    BY <1>4 DEF MarkProcessing, sql, redis, jimeng, ledger
  <2>4. QED
    BY <2>1, <2>2, <2>3, TypesStay, TypeJoins DEF Types
<1>5. QED
  BY <1>2, <1>3, <1>4 DEF WorkerStep

LEMMA RecoveryTypes ==
  ASSUME TypeOK, runner[Recovery].job \in Jobs, RecoveryStep
  PROVE  TypeOK'
<1>1. Types
  BY TypeSplits
<1>2. ASSUME NEW o \in Outcomes, LookForRecord(o)
       PROVE  TypeOK'
  <2>1. ControlType'
    BY <1>1, <1>2, ControlIs, GoesType, FaultType DEF LookForRecord, Positions, Runners,
       Types, ControlType
  <2>2. UNCHANGED <<client, row, stage, redis, finisher, jimeng, ledger, repriced,
                    overwritten>>
    BY <1>2 DEF LookForRecord, sql, redis, jimeng, ledger
  <2>3. QED
    BY <2>1, <2>2, TypesStay, TypeJoins DEF Types
<1>3. ASSUME NEW o \in Outcomes, RebuildRecord(o)
       PROVE  TypeOK'
  <2>1. RedisType'
    BY <1>1, <1>3, RestoredType DEF RebuildRecord, DispatchOf, Types, RedisType
  <2>2. HistoryType'
    BY <1>1, <1>3 DEF RebuildRecord, Types, HistoryType
  <2>3. ControlType'
    BY <1>1, <1>3, ControlIs, GoesType, StopsType, FaultType DEF RebuildRecord, Positions,
       Runners, Types, ControlType
  <2>4. UNCHANGED <<client, row, stage, finisher, jimeng, ledger>>
    BY <1>3 DEF RebuildRecord, sql, redis, jimeng, ledger
  <2>5. QED
    BY <2>1, <2>2, <2>3, <2>4, TypesStay, TypeJoins DEF Types
<1>4. QED
  BY <1>2, <1>3 DEF RecoveryStep

\* A runner takes up a job.
LEMMA DequeueFacts ==
  ASSUME TypeOK, NEW w \in Workers, NEW j \in Jobs, Dequeue(w, j)
  PROVE  /\ runner'[w].pc = "claim" /\ runner'[w].job = j /\ runner'[w].then = "done"
         /\ runner' \in [Runners -> RunnerStates]
         /\ \A q \in Runners : q # w => runner'[q] = runner[q]
<1> DEFINE k == [Idle EXCEPT !.pc = "claim", !.job = j]
<1>1. k \in RunnerStates /\ k.pc = "claim" /\ k.job = j /\ k.then = "done"
  BY DEF Idle, RunnerStates, Positions, Statuses
<1>2. w \in Runners /\ Becomes(w, k)
  BY DEF Runners, Becomes, Dequeue
<1>3. QED
  BY <1>1, <1>2, BecomesFacts

LEMMA DiscoverFacts ==
  ASSUME TypeOK, NEW j \in Jobs, Discover(j)
  PROVE  /\ runner'[Recovery].pc = "look" /\ runner'[Recovery].job = j
         /\ runner'[Recovery].then = "done" /\ runner'[Recovery].seen = stage[j]
         /\ stage[j] # "none"
         /\ runner' \in [Runners -> RunnerStates]
         /\ \A q \in Runners : q # Recovery => runner'[q] = runner[q]
<1> DEFINE k == [Idle EXCEPT !.pc = "look", !.job = j, !.seen = stage[j]]
<1>1. stage[j] \in Stages
  BY DEF TypeOK
<1>2. /\ k \in RunnerStates /\ k.pc = "look" /\ k.job = j /\ k.then = "done"
      /\ k.seen = stage[j]
  BY <1>1 DEF Idle, RunnerStates, Positions
<1>3. Recovery \in Runners /\ Becomes(Recovery, k)
  BY DEF Runners, Becomes, Discover
<1>4. stage[j] # "none"
  BY DEF Discover, Due
<1>5. QED
  BY <1>2, <1>3, <1>4, BecomesFacts

LEMMA OtherTypes ==
  ASSUME TypeOK, \/ \E j \in Jobs : Discover(j) \/ GenerationEnds(j) \/ \E w \in Workers : Dequeue(w, j)
         \/ EditPrice \/ \E redisLost \in BOOLEAN : Crash(redisLost)
  PROVE  TypeOK'
<1>1. Types
  BY TypeSplits
<1>2. ASSUME NEW j \in Jobs, Discover(j)
       PROVE  TypeOK'
  <2>1. ControlType'
    BY <1>1, <1>2, DiscoverFacts DEF Discover, Types, ControlType
  <2>2. UNCHANGED <<client, row, stage, redis, finisher, jimeng, ledger, repriced,
                    overwritten>>
    BY <1>2 DEF Discover, sql, redis, jimeng, ledger
  <2>3. QED
    BY <2>1, <2>2, TypesStay, TypeJoins DEF Types
<1>3. ASSUME NEW w \in Workers, NEW j \in Jobs, Dequeue(w, j)
       PROVE  TypeOK'
  <2>1. RedisType'
    BY <1>1, <1>3 DEF Dequeue, Types, RedisType
  <2>2. ControlType'
    BY <1>1, <1>3, DequeueFacts DEF Dequeue, Types, ControlType
  <2>3. UNCHANGED <<client, row, stage, finisher, jimeng, ledger, repriced, overwritten>>
    BY <1>3 DEF Dequeue, sql, redis, jimeng, ledger
  <2>4. QED
    BY <2>1, <2>2, <2>3, TypesStay, TypeJoins DEF Types
<1>4. ASSUME NEW j \in Jobs, GenerationEnds(j)
       PROVE  TypeOK'
  <2>1. JimengType'
    BY <1>1, <1>4 DEF GenerationEnds, Types, JimengType
  <2>2. UNCHANGED <<client, row, stage, redis, finisher, ledger, repriced, overwritten,
                    runner, lock, faults>>
    BY <1>4 DEF GenerationEnds, sql, redis, jimeng, ledger
  <2>3. QED
    BY <2>1, <2>2, TypesStay, TypeJoins DEF Types
<1>5. CASE EditPrice
  <2>1. HistoryType'
    BY <1>1, <1>5 DEF EditPrice, Types, HistoryType
  <2>2. UNCHANGED <<client, row, stage, redis, finisher, jimeng, ledger, runner, lock,
                    faults>>
    BY <1>5 DEF EditPrice, sql, redis, jimeng, ledger
  <2>3. QED
    BY <2>1, <2>2, TypesStay, TypeJoins DEF Types
<1>6. ASSUME NEW redisLost \in BOOLEAN, Crash(redisLost)
       PROVE  TypeOK'
  <2>1. ClientType'
    BY <1>1, <1>6 DEF Crash, Types, ClientType
  <2>2. RedisType'
    <3>1. NoRecord \in Records
      BY DEF NoRecord, Records, Statuses
    <3>2. CASE redisLost
      BY <3>1, <3>2, <1>6 DEF Crash, RedisType
    <3>3. CASE ~ redisLost
      BY <3>3, <1>1, <1>6 DEF Crash, redis, RedisType, Types
    <3>4. QED
      BY <3>2, <3>3
  <2>3. FinisherType'
    BY <1>1, <1>6 DEF Crash, Types, FinisherType
  <2>4. ControlType'
    BY <1>1, <1>6, JimengAssumption DEF Crash, Idle, RunnerStates, Positions, Statuses,
       LockType, Types, ControlType
  <2>5. UNCHANGED <<row, stage, jimeng, ledger, repriced, overwritten>>
    BY <1>6 DEF Crash, sql, redis, jimeng, ledger
  <2>6. QED
    BY <2>1, <2>2, <2>3, <2>4, <2>5, TypesStay, TypeJoins DEF Types
<1>7. QED
  BY <1>2, <1>3, <1>4, <1>5, <1>6

-----------------------------------------------------------------------------
(***************************************************************************)
(* The invariant, action by action.                                         *)
(***************************************************************************)
LEMMA BusyRunner ==
  ASSUME StageInv, NEW r \in Runners, runner[r].pc # "idle"
  PROVE  /\ runner[r].job \in Jobs /\ stage[runner[r].job] \in Stages \ {"none"}
         /\ Manned(r) /\ Placed(r) /\ runner[r] \in RunnerStates
BY RunnerType DEF StageInv, Manned, TypeOK

\* A step of a runner that leaves stages and generations alone: it stops or goes on.
LEMMA QuietMove ==
  ASSUME StageInv, TypeOK', NEW r \in Runners, UNCHANGED <<client, stage, jimeng>>,
         runner[r].pc # "idle",
         Stops(r) \/ \E pc : Goes(r, pc) /\ Manned(r)' /\ Placed(r)'
  PROVE  StageInv'
<1>1. TypeOK
  BY DEF StageInv
<1>2. CASE Stops(r)
  <2>1. Manned(r)' /\ Placed(r)'
    BY <1>2, StopsIsSound
  <2>2. /\ lock' = lock \/ lock \in {None, r}
        /\ \A q \in Runners : q # r => runner'[q] = runner[q]
    BY <1>1, <1>2, StopsFacts
  <2>3. QED
    BY <2>1, <2>2, QuietStep
<1>3. ASSUME NEW pc, Goes(r, pc), Manned(r)', Placed(r)'
      PROVE  StageInv'
  <2>1. lock' = lock /\ \A q \in Runners : q # r => runner'[q] = runner[q]
    BY <1>1, <1>3, GoesFacts
  <2>2. QED
    BY <1>3, <2>1, QuietStep
<1>4. QED
  BY <1>2, <1>3

\* One that moves its job to stage s under the lock.
LEMMA StageMove ==
  ASSUME StageInv, TypeOK', NEW r \in Runners, lock = r, client' = client, UNCHANGED jimeng,
         runner[r].pc # "idle", NEW o, NEW s \in Stages, s # "none",
         SetStage(runner[r].job, s, o),
         s = "waiting" => accepted[runner[r].job] = 0 /\ generation[runner[r].job] = "none",
         s \in {"refund_pending", "failed"} => generation[runner[r].job] \in {"none", "fail"},
         s \in {"persisting", "settling", "completed"} =>
           generation[runner[r].job] = "success",
         Stops(r) \/ \E pc : Goes(r, pc) /\ Manned(r)' /\ Placed(r)'
  PROVE  StageInv'
<1>1. TypeOK /\ runner[r].job \in Jobs /\ stage[runner[r].job] # "none"
  BY BusyRunner DEF StageInv
<1>2. stage' = stage \/ stage' = [stage EXCEPT ![runner[r].job] = s]
  BY DEF SetStage
<1>3. CASE Stops(r)
  <2>1. \A i \in Jobs : stage'[i] = "none" => stage[i] = "none"
    <3>1. stage \in [Jobs -> Stages] /\ s # "none"
      BY <1>1 DEF TypeOK
    <3>2. QED
      BY <1>2, <3>1
  <2>2. Manned(r)' /\ Placed(r)'
    BY <1>3, <2>1, StopsIsSound
  <2>3. \A q \in Runners : q # r => runner'[q] = runner[q]
    BY <1>1, <1>3, StopsFacts
  <2>4. QED
    BY <1>1, <1>2, <2>2, <2>3, StageStep
<1>4. ASSUME NEW pc, Goes(r, pc), Manned(r)', Placed(r)'
      PROVE  StageInv'
  <2>1. \A q \in Runners : q # r => runner'[q] = runner[q]
    BY <1>1, <1>4, GoesFacts
  <2>2. QED
    BY <1>1, <1>2, <1>4, <2>1, StageStep
<1>5. QED
  BY <1>3, <1>4

LEMMA EnterKeeps ==
  ASSUME StageInv, TypeOK', NEW r \in Runners, Enter(r)
  PROVE  StageInv'
<1> DEFINE j == runner[r].job
<1>1. /\ TypeOK /\ runner[r].pc = "enter" /\ UNCHANGED <<client, stage, jimeng>>
  BY DEF StageInv, Enter, At, sql
<1>2. j \in Jobs /\ stage[j] # "none"
  BY <1>1, BusyRunner
<1>3. CASE Stops(r)
  BY <1>1, <1>3, QuietMove
<1>4. CASE /\ lock = None /\ lock' = r /\ stage[j] \notin Ended \cup {"none"}
           /\ runner'[r].pc = Transition(j) /\ runner'[r].job = j
           /\ runner'[r].then = IF runner'[r].pc = "progress" THEN "ask" ELSE "done"
           /\ \A q \in Runners : q # r => runner'[q] = runner[q]
  <2>1. /\ Transition(j) \in {"check", "review", "release", "settle", "progress", "withdraw"}
        /\ Transition(j) \in {"check", "withdraw"} => stage[j] = "waiting"
        /\ Transition(j) = "release" => stage[j] = "refund_pending"
        /\ Transition(j) = "settle" => stage[j] = "settling"
        /\ Transition(j) = "progress" => stage[j] \in {"submitted", "persisting"}
    BY <1>1, <1>2, <1>4, TransitionTo
  <2>2. Manned(r)'
    BY <1>1, <1>2, <1>4, <2>1 DEF Manned
  <2>3. Placed(r)'
    BY <1>1, <1>4, <2>1 DEF Placed, OfWaiting, OfSubmitting, OfRefund, OfSettling,
                            OfGeneration
  <2>4. QED
    BY <1>1, <1>4, <2>2, <2>3, QuietStep
<1>5. QED
  BY <1>1, <1>2, <1>3, <1>4, EnterFacts

\* update_progress.
LEMMA ProgressKeeps ==
  ASSUME StageInv, TypeOK', NEW r \in Runners,
         ReadForProgress(r) \/ \E o \in Outcomes : SaveProgress(r, o)
  PROVE  StageInv'
<1> DEFINE j == runner[r].job
<1>1. /\ TypeOK /\ runner[r].pc \in {"progress", "report", "save_progress"}
      /\ UNCHANGED <<client, stage, jimeng>>
  BY DEF StageInv, ReadForProgress, SaveProgress, sql
<1>2. j \in Jobs /\ stage[j] # "none" /\ Manned(r) /\ Placed(r) /\ runner[r] \in RunnerStates
  BY <1>1, BusyRunner
<1>3. /\ \A q \in Runners : q # r => runner'[q] = runner[q]
      /\ \/ Stops(r)
         \/ /\ lock' = lock /\ runner'[r].pc = "save_progress"
            /\ runner'[r].job = j /\ runner'[r].then = runner[r].then
            /\ runner'[r].seen = record[j].status
         \/ Asks(r)
  BY <1>1, <1>2, ReadFacts, SaveFacts
<1>4. CASE Stops(r)
  BY <1>1, <1>4, QuietMove
<1>5. CASE /\ lock' = lock /\ runner'[r].pc = "save_progress"
           /\ runner'[r].job = j /\ runner'[r].then = runner[r].then
           /\ runner'[r].seen = record[j].status
  <2>1. record[j].status \in Statuses
    BY <1>1, <1>2 DEF TypeOK
  <2>2. Manned(r)' /\ Placed(r)'
    BY <1>1, <1>2, <1>5, <2>1 DEF Manned, Placed, Inside, OfWaiting, OfSubmitting, OfRefund,
                                 OfSettling, OfGeneration
  <2>3. QED
    BY <1>1, <1>3, <1>5, <2>2, QuietStep
<1>6. CASE Asks(r)
  <2>1. Manned(r)' /\ Placed(r)'
    BY <1>1, <1>2, <1>6 DEF Asks, Manned, Placed, Inside, OfWaiting, OfSubmitting, OfRefund,
                            OfSettling, OfGeneration
  <2>2. lock' = lock
    BY <1>6 DEF Asks
  <2>3. QED
    BY <1>1, <1>3, <2>1, <2>2, QuietStep
<1>7. QED
  BY <1>3, <1>4, <1>5, <1>6

\* The steps of the transition that leave stages and generations alone.
LEMMA QuietKeeps ==
  ASSUME StageInv, TypeOK', NEW r \in Runners, NEW o \in Outcomes,
         CheckAccount(r, o) \/ BeginSubmission(r, o) \/ ReceiveAnswer(r, o) \/
         Reopen(r, o) \/ ReleaseCredits(r, o) \/ MirrorFailure(r, o) \/ FailTask(r) \/
         SaveFailed(r, o) \/ SettleCredits(r, o) \/ MirrorCompletion(r, o) \/
         CompleteTask(r, o) \/ AskJimeng(r, o)
  PROVE  StageInv'
<1> DEFINE j == runner[r].job
<1>1. TypeOK
  BY DEF StageInv
<1>2. CASE CheckAccount(r, o)
  <2>1. runner[r].pc = "check" /\ UNCHANGED <<client, stage, jimeng>>
    BY <1>2 DEF CheckAccount, At, sql
  <2>2. j \in Jobs /\ stage[j] # "none" /\ Manned(r) /\ Placed(r) /\ runner[r] \in RunnerStates
    BY <2>1, BusyRunner
  <2>3. Stops(r) \/ (Goes(r, "begin") /\ ~ AccountBusy(j)) \/ Goes(r, "progress")
    BY <1>2, ThenGoesOrStops DEF CheckAccount
  <2>4. CASE Goes(r, "progress")
    <3>1. /\ runner'[r].pc = "progress" /\ runner'[r].job = j /\ lock' = lock
          /\ runner'[r].then = runner[r].then
      BY <1>1, <2>4, GoesFacts
    <3>2. Manned(r)' /\ Placed(r)'
      BY <2>1, <2>2, <2>4, <3>1
         DEF Manned, Placed, Inside, OfWaiting, OfSubmitting, OfRefund, OfSettling,
             OfGeneration, jimeng, AccountBusy
    <3>3. QED
      BY <2>1, <2>4, <3>2, QuietMove
  <2>5. CASE Goes(r, "begin") /\ ~ AccountBusy(j)
    <3>1. /\ runner'[r].pc = "begin" /\ runner'[r].job = j /\ lock' = lock
          /\ runner'[r].then = runner[r].then
      BY <1>1, <2>5, GoesFacts
    <3>2. Manned(r)' /\ Placed(r)'
      BY <2>1, <2>2, <2>5, <3>1
         DEF Manned, Placed, Inside, OfWaiting, OfSubmitting, OfRefund, OfSettling,
             OfGeneration, jimeng, AccountBusy
    <3>3. QED
      BY <2>1, <2>5, <3>2, QuietMove
  <2>6. QED
    BY <2>1, <2>3, <2>4, <2>5, QuietMove
<1>3. CASE BeginSubmission(r, o)
  <2>1. runner[r].pc = "begin" /\ UNCHANGED <<client, stage, jimeng>>
    BY <1>3 DEF BeginSubmission, At, sql
  <2>2. j \in Jobs /\ stage[j] # "none" /\ Manned(r) /\ Placed(r) /\ runner[r] \in RunnerStates
    BY <2>1, BusyRunner
  <2>3. Stops(r) \/ Goes(r, "intent")
    BY <1>3, ThenGoesOrStops DEF BeginSubmission
  <2>4. CASE Goes(r, "intent")
    <3>1. /\ runner'[r].pc = "intent" /\ runner'[r].job = j /\ lock' = lock
          /\ runner'[r].then = runner[r].then
      BY <1>1, <2>4, GoesFacts
    <3>2. Manned(r)' /\ Placed(r)'
      BY <2>1, <2>2, <2>4, <3>1
         DEF Manned, Placed, Inside, OfWaiting, OfSubmitting, OfRefund, OfSettling,
             OfGeneration, jimeng
    <3>3. QED
      BY <2>1, <2>4, <3>2, QuietMove
  <2>5. QED
    BY <2>1, <2>3, <2>4, QuietMove
<1>4. CASE ReceiveAnswer(r, o)
  <2>1. runner[r].pc = "answer" /\ UNCHANGED <<client, stage, jimeng>>
    BY <1>4 DEF ReceiveAnswer, At, sql
  <2>2. j \in Jobs /\ stage[j] # "none" /\ Manned(r) /\ Placed(r) /\ runner[r] \in RunnerStates
    BY <2>1, BusyRunner
  <2>3. Stops(r) \/ Goes(r, "identify") \/ Goes(r, "review")
    BY <1>4, ControlIs DEF ReceiveAnswer
  <2>4. CASE Goes(r, "identify")
    <3>1. /\ runner'[r].pc = "identify" /\ runner'[r].job = j /\ lock' = lock
          /\ runner'[r].then = runner[r].then
      BY <1>1, <2>4, GoesFacts
    <3>2. Manned(r)' /\ Placed(r)'
      BY <2>1, <2>2, <2>4, <3>1
         DEF Manned, Placed, Inside, OfWaiting, OfSubmitting, OfRefund, OfSettling,
             OfGeneration, jimeng
    <3>3. QED
      BY <2>1, <2>4, <3>2, QuietMove
  <2>5. CASE Goes(r, "review")
    <3>1. /\ runner'[r].pc = "review" /\ runner'[r].job = j /\ lock' = lock
          /\ runner'[r].then = runner[r].then
      BY <1>1, <2>5, GoesFacts
    <3>2. Manned(r)' /\ Placed(r)'
      BY <2>1, <2>2, <2>5, <3>1
         DEF Manned, Placed, Inside, OfWaiting, OfSubmitting, OfRefund, OfSettling,
             OfGeneration, jimeng
    <3>3. QED
      BY <2>1, <2>5, <3>2, QuietMove
  <2>6. QED
    BY <2>1, <2>3, <2>4, <2>5, QuietMove
<1>5. CASE Reopen(r, o)
  <2>1. runner[r].pc = "reopen" /\ UNCHANGED <<client, stage, jimeng>>
    BY <1>5 DEF Reopen, At, sql
  <2>2. j \in Jobs /\ stage[j] # "none" /\ Manned(r) /\ Placed(r) /\ runner[r] \in RunnerStates
    BY <2>1, BusyRunner
  <2>3. Stops(r)
    BY <1>5, ThenGoesOrStops DEF Reopen
  <2>4. QED
    BY <2>1, <2>3, QuietMove
<1>6. CASE ReleaseCredits(r, o)
  <2>1. runner[r].pc = "release" /\ UNCHANGED <<client, stage, jimeng>>
    BY <1>6 DEF ReleaseCredits, At, sql
  <2>2. j \in Jobs /\ stage[j] # "none" /\ Manned(r) /\ Placed(r) /\ runner[r] \in RunnerStates
    BY <2>1, BusyRunner
  <2>3. Stops(r) \/ Goes(r, "fail_row")
    BY <1>6, ThenGoesOrStops DEF ReleaseCredits
  <2>4. CASE Goes(r, "fail_row")
    <3>1. /\ runner'[r].pc = "fail_row" /\ runner'[r].job = j /\ lock' = lock
          /\ runner'[r].then = runner[r].then
      BY <1>1, <2>4, GoesFacts
    <3>2. Manned(r)' /\ Placed(r)'
      BY <2>1, <2>2, <2>4, <3>1
         DEF Manned, Placed, Inside, OfWaiting, OfSubmitting, OfRefund, OfSettling,
             OfGeneration, jimeng
    <3>3. QED
      BY <2>1, <2>4, <3>2, QuietMove
  <2>5. QED
    BY <2>1, <2>3, <2>4, QuietMove
<1>7. CASE MirrorFailure(r, o)
  <2>1. runner[r].pc = "fail_row" /\ UNCHANGED <<client, stage, jimeng>>
    BY <1>7 DEF MirrorFailure, At, sql
  <2>2. j \in Jobs /\ stage[j] # "none" /\ Manned(r) /\ Placed(r) /\ runner[r] \in RunnerStates
    BY <2>1, BusyRunner
  <2>3. Stops(r) \/ Goes(r, "fail")
    BY <1>7, ThenGoesOrStops DEF MirrorFailure
  <2>4. CASE Goes(r, "fail")
    <3>1. /\ runner'[r].pc = "fail" /\ runner'[r].job = j /\ lock' = lock
          /\ runner'[r].then = runner[r].then
      BY <1>1, <2>4, GoesFacts
    <3>2. Manned(r)' /\ Placed(r)'
      BY <2>1, <2>2, <2>4, <3>1
         DEF Manned, Placed, Inside, OfWaiting, OfSubmitting, OfRefund, OfSettling,
             OfGeneration, jimeng
    <3>3. QED
      BY <2>1, <2>4, <3>2, QuietMove
  <2>5. QED
    BY <2>1, <2>3, <2>4, QuietMove
<1>8. CASE FailTask(r)
  <2>1. runner[r].pc = "fail" /\ UNCHANGED <<client, stage, jimeng>>
    BY <1>8 DEF FailTask, At, sql
  <2>2. j \in Jobs /\ stage[j] # "none" /\ Manned(r) /\ Placed(r) /\ runner[r] \in RunnerStates
    BY <2>1, BusyRunner
  <2>3. Stops(r) \/ Goes(r, "save_failed")
    BY <1>8, ControlIs DEF FailTask
  <2>4. CASE Goes(r, "save_failed")
    <3>1. /\ runner'[r].pc = "save_failed" /\ runner'[r].job = j /\ lock' = lock
          /\ runner'[r].then = runner[r].then
      BY <1>1, <2>4, GoesFacts
    <3>2. Manned(r)' /\ Placed(r)'
      BY <2>1, <2>2, <2>4, <3>1
         DEF Manned, Placed, Inside, OfWaiting, OfSubmitting, OfRefund, OfSettling,
             OfGeneration, jimeng
    <3>3. QED
      BY <2>1, <2>4, <3>2, QuietMove
  <2>5. QED
    BY <2>1, <2>3, <2>4, QuietMove
<1>9. CASE SaveFailed(r, o)
  <2>1. runner[r].pc = "save_failed" /\ UNCHANGED <<client, stage, jimeng>>
    BY <1>9 DEF SaveFailed, At, sql
  <2>2. j \in Jobs /\ stage[j] # "none" /\ Manned(r) /\ Placed(r) /\ runner[r] \in RunnerStates
    BY <2>1, BusyRunner
  <2>3. Stops(r) \/ Goes(r, "end_failed")
    BY <1>9, ThenGoesOrStops DEF SaveFailed
  <2>4. CASE Goes(r, "end_failed")
    <3>1. /\ runner'[r].pc = "end_failed" /\ runner'[r].job = j /\ lock' = lock
          /\ runner'[r].then = runner[r].then
      BY <1>1, <2>4, GoesFacts
    <3>2. Manned(r)' /\ Placed(r)'
      BY <2>1, <2>2, <2>4, <3>1
         DEF Manned, Placed, Inside, OfWaiting, OfSubmitting, OfRefund, OfSettling,
             OfGeneration, jimeng
    <3>3. QED
      BY <2>1, <2>4, <3>2, QuietMove
  <2>5. QED
    BY <2>1, <2>3, <2>4, QuietMove
<1>10. CASE SettleCredits(r, o)
  <2>1. runner[r].pc = "settle" /\ UNCHANGED <<client, stage, jimeng>>
    BY <1>10 DEF SettleCredits, At, sql
  <2>2. j \in Jobs /\ stage[j] # "none" /\ Manned(r) /\ Placed(r) /\ runner[r] \in RunnerStates
    BY <2>1, BusyRunner
  <2>3. Stops(r) \/ Goes(r, "settle") \/ Goes(r, "complete_row")
    BY <1>10, ControlIs DEF SettleCredits
  <2>4. CASE Goes(r, "settle")
    <3>1. /\ runner'[r].pc = "settle" /\ runner'[r].job = j /\ lock' = lock
          /\ runner'[r].then = runner[r].then
      BY <1>1, <2>4, GoesFacts
    <3>2. Manned(r)' /\ Placed(r)'
      BY <2>1, <2>2, <2>4, <3>1
         DEF Manned, Placed, Inside, OfWaiting, OfSubmitting, OfRefund, OfSettling,
             OfGeneration, jimeng
    <3>3. QED
      BY <2>1, <2>4, <3>2, QuietMove
  <2>5. CASE Goes(r, "complete_row")
    <3>1. /\ runner'[r].pc = "complete_row" /\ runner'[r].job = j /\ lock' = lock
          /\ runner'[r].then = runner[r].then
      BY <1>1, <2>5, GoesFacts
    <3>2. Manned(r)' /\ Placed(r)'
      BY <2>1, <2>2, <2>5, <3>1
         DEF Manned, Placed, Inside, OfWaiting, OfSubmitting, OfRefund, OfSettling,
             OfGeneration, jimeng
    <3>3. QED
      BY <2>1, <2>5, <3>2, QuietMove
  <2>6. QED
    BY <2>1, <2>3, <2>4, <2>5, QuietMove
<1>11. CASE MirrorCompletion(r, o)
  <2>1. runner[r].pc = "complete_row" /\ UNCHANGED <<client, stage, jimeng>>
    BY <1>11 DEF MirrorCompletion, At, sql
  <2>2. j \in Jobs /\ stage[j] # "none" /\ Manned(r) /\ Placed(r) /\ runner[r] \in RunnerStates
    BY <2>1, BusyRunner
  <2>3. Stops(r) \/ Goes(r, "complete")
    BY <1>11, ThenGoesOrStops DEF MirrorCompletion
  <2>4. CASE Goes(r, "complete")
    <3>1. /\ runner'[r].pc = "complete" /\ runner'[r].job = j /\ lock' = lock
          /\ runner'[r].then = runner[r].then
      BY <1>1, <2>4, GoesFacts
    <3>2. Manned(r)' /\ Placed(r)'
      BY <2>1, <2>2, <2>4, <3>1
         DEF Manned, Placed, Inside, OfWaiting, OfSubmitting, OfRefund, OfSettling,
             OfGeneration, jimeng
    <3>3. QED
      BY <2>1, <2>4, <3>2, QuietMove
  <2>5. QED
    BY <2>1, <2>3, <2>4, QuietMove
<1>12. CASE CompleteTask(r, o)
  <2>1. runner[r].pc = "complete" /\ UNCHANGED <<client, stage, jimeng>>
    BY <1>12 DEF CompleteTask, At, sql
  <2>2. j \in Jobs /\ stage[j] # "none" /\ Manned(r) /\ Placed(r) /\ runner[r] \in RunnerStates
    BY <2>1, BusyRunner
  <2>3. Stops(r) \/ Goes(r, "end_completed")
    BY <1>12, ThenGoesOrStops DEF CompleteTask
  <2>4. CASE Goes(r, "end_completed")
    <3>1. /\ runner'[r].pc = "end_completed" /\ runner'[r].job = j /\ lock' = lock
          /\ runner'[r].then = runner[r].then
      BY <1>1, <2>4, GoesFacts
    <3>2. Manned(r)' /\ Placed(r)'
      BY <2>1, <2>2, <2>4, <3>1
         DEF Manned, Placed, Inside, OfWaiting, OfSubmitting, OfRefund, OfSettling,
             OfGeneration, jimeng
    <3>3. QED
      BY <2>1, <2>4, <3>2, QuietMove
  <2>5. QED
    BY <2>1, <2>3, <2>4, QuietMove
<1>13. CASE AskJimeng(r, o)
  <2>1. runner[r].pc = "ask" /\ UNCHANGED <<client, stage, jimeng>>
    BY <1>13 DEF AskJimeng, At, sql
  <2>2. j \in Jobs /\ stage[j] # "none" /\ Manned(r) /\ Placed(r) /\ runner[r] \in RunnerStates
    BY <2>1, BusyRunner
  <2>3. Stops(r) \/ Goes(r, "wait") \/ Goes(r, "review")
        \/ (Goes(r, "refund") /\ generation[j] = "fail")
        \/ (Goes(r, "keep") /\ generation[j] = "success")
    BY <1>13, ControlIs DEF AskJimeng
  <2>4. CASE Goes(r, "refund") /\ generation[j] = "fail"
    <3>1. /\ runner'[r].pc = "refund" /\ runner'[r].job = j /\ lock' = lock
          /\ runner'[r].then = runner[r].then
      BY <1>1, <2>4, GoesFacts
    <3>2. Manned(r)' /\ Placed(r)'
      BY <2>1, <2>2, <2>4, <3>1
         DEF Manned, Placed, Inside, OfWaiting, OfSubmitting, OfRefund, OfSettling,
             OfGeneration, jimeng
    <3>3. QED
      BY <2>1, <2>4, <3>2, QuietMove
  <2>5. CASE Goes(r, "keep") /\ generation[j] = "success"
    <3>1. /\ runner'[r].pc = "keep" /\ runner'[r].job = j /\ lock' = lock
          /\ runner'[r].then = runner[r].then
      BY <1>1, <2>5, GoesFacts
    <3>2. Manned(r)' /\ Placed(r)'
      BY <2>1, <2>2, <2>5, <3>1
         DEF Manned, Placed, Inside, OfWaiting, OfSubmitting, OfRefund, OfSettling,
             OfGeneration, jimeng
    <3>3. QED
      BY <2>1, <2>5, <3>2, QuietMove
  <2>6. CASE Goes(r, "wait")
    <3>1. /\ runner'[r].pc = "wait" /\ runner'[r].job = j /\ lock' = lock
          /\ runner'[r].then = runner[r].then
      BY <1>1, <2>6, GoesFacts
    <3>2. Manned(r)' /\ Placed(r)'
      BY <2>1, <2>2, <2>6, <3>1
         DEF Manned, Placed, Inside, OfWaiting, OfSubmitting, OfRefund, OfSettling,
             OfGeneration, jimeng
    <3>3. QED
      BY <2>1, <2>6, <3>2, QuietMove
  <2>7. CASE Goes(r, "review")
    <3>1. /\ runner'[r].pc = "review" /\ runner'[r].job = j /\ lock' = lock
          /\ runner'[r].then = runner[r].then
      BY <1>1, <2>7, GoesFacts
    <3>2. Manned(r)' /\ Placed(r)'
      BY <2>1, <2>2, <2>7, <3>1
         DEF Manned, Placed, Inside, OfWaiting, OfSubmitting, OfRefund, OfSettling,
             OfGeneration, jimeng
    <3>3. QED
      BY <2>1, <2>7, <3>2, QuietMove
  <2>8. QED
    BY <2>1, <2>3, <2>4, <2>5, <2>6, <2>7, QuietMove
<1>14. QED
  BY <1>2, <1>3, <1>4, <1>5, <1>6, <1>7, <1>8, <1>9, <1>10, <1>11, <1>12, <1>13

\* The steps that move the job to another stage.
LEMMA MovesKeep ==
  ASSUME StageInv, TypeOK', NEW r \in Runners, NEW o \in Outcomes,
         Withdraw(r, o) \/ Refuse(r, o) \/ MarkSubmitting(r, o) \/ RecordSubmitId(r, o)
         \/ Review(r, o) \/ WaitAgain(r, o) \/ EndFailed(r, o) \/ EndCompleted(r, o) \/
         FailedAtJimeng(r, o) \/ StillAtJimeng(r, o) \/ FinishedAtJimeng(r, o) \/
         PersistResult(r, o)
  PROVE  StageInv'
<1> DEFINE j == runner[r].job
<1>1. TypeOK /\ (\A i \in Jobs : Fits(i))
  BY DEF StageInv
<1>2. stage \in [Jobs -> Stages]
  BY <1>1 DEF TypeOK
<1>3. CASE Withdraw(r, o)
  <2>1. /\ runner[r].pc = "withdraw" /\ client' = client /\ UNCHANGED jimeng
        /\ SetStage(j, "failed", o)
    BY <1>3 DEF Withdraw, Move, At
  <2>2. j \in Jobs /\ stage[j] # "none" /\ Manned(r) /\ Placed(r) /\ runner[r] \in RunnerStates
    BY <2>1, BusyRunner
  <2>3. lock = r
    BY <2>1, <2>2 DEF Manned, Inside, OfWaiting, OfSubmitting, OfRefund, OfSettling,
                      OfGeneration
  <2>4. generation[j] \in {"none", "fail"}
    BY <1>1, <2>1, <2>2 DEF Placed, Fits, OfWaiting, OfSubmitting, OfRefund, OfSettling,
                            OfGeneration
  <2>5. Stops(r)
    BY <1>3, ThenGoesOrStops DEF Withdraw, Move
  <2>6. CASE Stops(r)
    BY <2>1, <2>2, <2>3, <2>4, <2>6, StageMove DEF Stages
  <2>7. QED
    BY <2>5, <2>6
<1>4. CASE Refuse(r, o)
  <2>1. /\ runner[r].pc = "check" /\ client' = client /\ UNCHANGED jimeng
        /\ SetStage(j, "refund_pending", o)
    BY <1>4 DEF Refuse, Move, At
  <2>2. j \in Jobs /\ stage[j] # "none" /\ Manned(r) /\ Placed(r) /\ runner[r] \in RunnerStates
    BY <2>1, BusyRunner
  <2>3. lock = r
    BY <2>1, <2>2 DEF Manned, Inside, OfWaiting, OfSubmitting, OfRefund, OfSettling,
                      OfGeneration
  <2>4. generation[j] \in {"none", "fail"}
    BY <1>1, <2>1, <2>2 DEF Placed, Fits, OfWaiting, OfSubmitting, OfRefund, OfSettling,
                            OfGeneration
  <2>5. Stops(r)
    BY <1>4, ThenGoesOrStops DEF Refuse, Move
  <2>6. CASE Stops(r)
    BY <2>1, <2>2, <2>3, <2>4, <2>6, StageMove DEF Stages
  <2>7. QED
    BY <2>5, <2>6
<1>5. CASE MarkSubmitting(r, o)
  <2>1. /\ runner[r].pc = "intent" /\ client' = client /\ UNCHANGED jimeng
        /\ SetStage(j, "submitting", o)
    BY <1>5 DEF MarkSubmitting, Move, At
  <2>2. j \in Jobs /\ stage[j] # "none" /\ Manned(r) /\ Placed(r) /\ runner[r] \in RunnerStates
    BY <2>1, BusyRunner
  <2>3. lock = r
    BY <2>1, <2>2 DEF Manned, Inside, OfWaiting, OfSubmitting, OfRefund, OfSettling,
                      OfGeneration
  <2>4. Stops(r) \/ (Goes(r, "submit") /\ o = "ok")
    BY <1>5, ThenGoesOrStops DEF MarkSubmitting, Move
  <2>5. CASE Goes(r, "submit") /\ o = "ok"
    <3>1. /\ runner'[r].pc = "submit" /\ runner'[r].job = j /\ lock' = lock
          /\ runner'[r].then = runner[r].then
      BY <1>1, <2>2, <2>5, GoesFacts
    <3>2. stage' = [stage EXCEPT ![j] = "submitting"]
      BY <2>1, <2>5 DEF SetStage, Applied
    <3>3. stage'[j] = "submitting" /\ \A i \in Jobs : i # j => stage'[i] = stage[i]
      BY <1>2, <2>2, <3>2
    <3>4. Manned(r)' /\ Placed(r)'
      BY <1>1, <2>1, <2>2, <2>3, <3>1, <3>3
         DEF Manned, Placed, Inside, OfWaiting, OfSubmitting, OfRefund, OfSettling,
             OfGeneration, jimeng, Fits
    <3>5. QED
      BY <2>1, <2>2, <2>3, <2>5, <3>4, StageMove DEF Stages
  <2>6. CASE Stops(r)
    BY <2>1, <2>2, <2>3, <2>6, StageMove DEF Stages
  <2>7. QED
    BY <2>4, <2>5, <2>6
<1>6. CASE RecordSubmitId(r, o)
  <2>1. /\ runner[r].pc = "identify" /\ client' = client /\ UNCHANGED jimeng
        /\ SetStage(j, "submitted", o)
    BY <1>6 DEF RecordSubmitId, At
  <2>2. j \in Jobs /\ stage[j] # "none" /\ Manned(r) /\ Placed(r) /\ runner[r] \in RunnerStates
    BY <2>1, BusyRunner
  <2>3. lock = r
    BY <2>1, <2>2 DEF Manned, Inside, OfWaiting, OfSubmitting, OfRefund, OfSettling,
                      OfGeneration
  <2>4. (Goes(r, "progress") /\ o = "ok") \/ Goes(r, "review")
    BY <1>6, ControlIs DEF RecordSubmitId
  <2>5. CASE Goes(r, "progress") /\ o = "ok"
    <3>1. /\ runner'[r].pc = "progress" /\ runner'[r].job = j /\ lock' = lock
          /\ runner'[r].then = runner[r].then
      BY <1>1, <2>2, <2>5, GoesFacts
    <3>2. stage' = [stage EXCEPT ![j] = "submitted"]
      BY <2>1, <2>5 DEF SetStage, Applied
    <3>3. stage'[j] = "submitted" /\ \A i \in Jobs : i # j => stage'[i] = stage[i]
      BY <1>2, <2>2, <3>2
    <3>4. Manned(r)' /\ Placed(r)'
      BY <1>1, <2>1, <2>2, <2>3, <3>1, <3>3
         DEF Manned, Placed, Inside, OfWaiting, OfSubmitting, OfRefund, OfSettling,
             OfGeneration, jimeng, Fits
    <3>5. QED
      BY <2>1, <2>2, <2>3, <2>5, <3>4, StageMove DEF Stages
  <2>6. CASE Goes(r, "review")
    <3>1. /\ runner'[r].pc = "review" /\ runner'[r].job = j /\ lock' = lock
          /\ runner'[r].then = runner[r].then
      BY <1>1, <2>2, <2>6, GoesFacts
    <3>2. stage' = stage \/ stage' = [stage EXCEPT ![j] = "submitted"]
      BY <2>1 DEF SetStage
    <3>3. stage'[j] # "none"
      BY <1>2, <2>2, <3>2
    <3>4. Manned(r)' /\ Placed(r)'
      BY <1>1, <2>1, <2>2, <2>3, <3>1, <3>3
         DEF Manned, Placed, Inside, OfWaiting, OfSubmitting, OfRefund, OfSettling,
             OfGeneration, jimeng, Fits
    <3>5. QED
      BY <2>1, <2>2, <2>3, <2>6, <3>4, StageMove DEF Stages
  <2>7. QED
    BY <2>4, <2>5, <2>6
<1>7. CASE Review(r, o)
  <2>1. /\ runner[r].pc = "review" /\ client' = client /\ UNCHANGED jimeng
        /\ SetStage(j, "review_required", o)
    BY <1>7 DEF Review, Move, At
  <2>2. j \in Jobs /\ stage[j] # "none" /\ Manned(r) /\ Placed(r) /\ runner[r] \in RunnerStates
    BY <2>1, BusyRunner
  <2>3. lock = r
    BY <2>1, <2>2 DEF Manned, Inside, OfWaiting, OfSubmitting, OfRefund, OfSettling,
                      OfGeneration
  <2>4. Stops(r) \/ (Goes(r, "progress") /\ o = "ok")
    BY <1>7, ThenGoesOrStops DEF Review, Move
  <2>5. CASE Goes(r, "progress") /\ o = "ok"
    <3>1. /\ runner'[r].pc = "progress" /\ runner'[r].job = j /\ lock' = lock
          /\ runner'[r].then = runner[r].then
      BY <1>1, <2>2, <2>5, GoesFacts
    <3>2. stage' = [stage EXCEPT ![j] = "review_required"]
      BY <2>1, <2>5 DEF SetStage, Applied
    <3>3. stage'[j] = "review_required" /\ \A i \in Jobs : i # j => stage'[i] = stage[i]
      BY <1>2, <2>2, <3>2
    <3>4. Manned(r)' /\ Placed(r)'
      BY <1>1, <2>1, <2>2, <2>3, <3>1, <3>3
         DEF Manned, Placed, Inside, OfWaiting, OfSubmitting, OfRefund, OfSettling,
             OfGeneration, jimeng, Fits
    <3>5. QED
      BY <2>1, <2>2, <2>3, <2>5, <3>4, StageMove DEF Stages
  <2>6. CASE Stops(r)
    BY <2>1, <2>2, <2>3, <2>6, StageMove DEF Stages
  <2>7. QED
    BY <2>4, <2>5, <2>6
<1>8. CASE WaitAgain(r, o)
  <2>1. /\ runner[r].pc = "unstarted" /\ client' = client /\ UNCHANGED jimeng
        /\ SetStage(j, "waiting", o)
    BY <1>8 DEF WaitAgain, Move, At
  <2>2. j \in Jobs /\ stage[j] # "none" /\ Manned(r) /\ Placed(r) /\ runner[r] \in RunnerStates
    BY <2>1, BusyRunner
  <2>3. lock = r
    BY <2>1, <2>2 DEF Manned, Inside, OfWaiting, OfSubmitting, OfRefund, OfSettling,
                      OfGeneration
  <2>4. accepted[j] = 0 /\ generation[j] = "none"
    BY <1>1, <2>1, <2>2 DEF Placed, Fits, OfWaiting, OfSubmitting, OfRefund, OfSettling,
                            OfGeneration
  <2>5. Stops(r) \/ (Goes(r, "reopen") /\ o = "ok")
    BY <1>8, ThenGoesOrStops DEF WaitAgain, Move
  <2>6. CASE Goes(r, "reopen") /\ o = "ok"
    <3>1. /\ runner'[r].pc = "reopen" /\ runner'[r].job = j /\ lock' = lock
          /\ runner'[r].then = runner[r].then
      BY <1>1, <2>2, <2>6, GoesFacts
    <3>2. stage' = [stage EXCEPT ![j] = "waiting"]
      BY <2>1, <2>6 DEF SetStage, Applied
    <3>3. stage'[j] = "waiting" /\ \A i \in Jobs : i # j => stage'[i] = stage[i]
      BY <1>2, <2>2, <3>2
    <3>4. Manned(r)' /\ Placed(r)'
      BY <1>1, <2>1, <2>2, <2>3, <2>4, <3>1, <3>3
         DEF Manned, Placed, Inside, OfWaiting, OfSubmitting, OfRefund, OfSettling,
             OfGeneration, jimeng, Fits
    <3>5. QED
      BY <2>1, <2>2, <2>3, <2>4, <2>6, <3>4, StageMove DEF Stages
  <2>7. CASE Stops(r)
    BY <2>1, <2>2, <2>3, <2>4, <2>7, StageMove DEF Stages
  <2>8. QED
    BY <2>5, <2>6, <2>7
<1>9. CASE EndFailed(r, o)
  <2>1. /\ runner[r].pc = "end_failed" /\ client' = client /\ UNCHANGED jimeng
        /\ SetStage(j, "failed", o)
    BY <1>9 DEF EndFailed, Move, At
  <2>2. j \in Jobs /\ stage[j] # "none" /\ Manned(r) /\ Placed(r) /\ runner[r] \in RunnerStates
    BY <2>1, BusyRunner
  <2>3. lock = r
    BY <2>1, <2>2 DEF Manned, Inside, OfWaiting, OfSubmitting, OfRefund, OfSettling,
                      OfGeneration
  <2>4. generation[j] \in {"none", "fail"}
    BY <1>1, <2>1, <2>2 DEF Placed, Fits, OfWaiting, OfSubmitting, OfRefund, OfSettling,
                            OfGeneration
  <2>5. Stops(r)
    BY <1>9, ThenGoesOrStops DEF EndFailed, Move
  <2>6. CASE Stops(r)
    BY <2>1, <2>2, <2>3, <2>4, <2>6, StageMove DEF Stages
  <2>7. QED
    BY <2>5, <2>6
<1>10. CASE EndCompleted(r, o)
  <2>1. /\ runner[r].pc = "end_completed" /\ client' = client /\ UNCHANGED jimeng
        /\ SetStage(j, "completed", o)
    BY <1>10 DEF EndCompleted, Move, At
  <2>2. j \in Jobs /\ stage[j] # "none" /\ Manned(r) /\ Placed(r) /\ runner[r] \in RunnerStates
    BY <2>1, BusyRunner
  <2>3. lock = r
    BY <2>1, <2>2 DEF Manned, Inside, OfWaiting, OfSubmitting, OfRefund, OfSettling,
                      OfGeneration
  <2>4. generation[j] = "success"
    BY <1>1, <2>1, <2>2 DEF Placed, Fits, OfWaiting, OfSubmitting, OfRefund, OfSettling,
                            OfGeneration
  <2>5. Stops(r)
    BY <1>10, ThenGoesOrStops DEF EndCompleted, Move
  <2>6. CASE Stops(r)
    BY <2>1, <2>2, <2>3, <2>4, <2>6, StageMove DEF Stages
  <2>7. QED
    BY <2>5, <2>6
<1>11. CASE FailedAtJimeng(r, o)
  <2>1. /\ runner[r].pc = "refund" /\ client' = client /\ UNCHANGED jimeng
        /\ SetStage(j, "refund_pending", o)
    BY <1>11 DEF FailedAtJimeng, Move, At
  <2>2. j \in Jobs /\ stage[j] # "none" /\ Manned(r) /\ Placed(r) /\ runner[r] \in RunnerStates
    BY <2>1, BusyRunner
  <2>3. lock = r
    BY <2>1, <2>2 DEF Manned, Inside, OfWaiting, OfSubmitting, OfRefund, OfSettling,
                      OfGeneration
  <2>4. generation[j] \in {"none", "fail"}
    BY <1>1, <2>1, <2>2 DEF Placed, Fits, OfWaiting, OfSubmitting, OfRefund, OfSettling,
                            OfGeneration
  <2>5. Stops(r)
    BY <1>11, ThenGoesOrStops DEF FailedAtJimeng, Move
  <2>6. CASE Stops(r)
    BY <2>1, <2>2, <2>3, <2>4, <2>6, StageMove DEF Stages
  <2>7. QED
    BY <2>5, <2>6
<1>12. CASE StillAtJimeng(r, o)
  <2>1. /\ runner[r].pc = "wait" /\ client' = client /\ UNCHANGED jimeng
        /\ SetStage(j, "submitted", o)
    BY <1>12 DEF StillAtJimeng, Move, At
  <2>2. j \in Jobs /\ stage[j] # "none" /\ Manned(r) /\ Placed(r) /\ runner[r] \in RunnerStates
    BY <2>1, BusyRunner
  <2>3. lock = r
    BY <2>1, <2>2 DEF Manned, Inside, OfWaiting, OfSubmitting, OfRefund, OfSettling,
                      OfGeneration
  <2>4. Stops(r)
    BY <1>12, ThenGoesOrStops DEF StillAtJimeng, Move
  <2>5. CASE Stops(r)
    BY <2>1, <2>2, <2>3, <2>5, StageMove DEF Stages
  <2>6. QED
    BY <2>4, <2>5
<1>13. CASE FinishedAtJimeng(r, o)
  <2>1. /\ runner[r].pc = "keep" /\ client' = client /\ UNCHANGED jimeng
        /\ SetStage(j, "persisting", o)
    BY <1>13 DEF FinishedAtJimeng, Move, At
  <2>2. j \in Jobs /\ stage[j] # "none" /\ Manned(r) /\ Placed(r) /\ runner[r] \in RunnerStates
    BY <2>1, BusyRunner
  <2>3. lock = r
    BY <2>1, <2>2 DEF Manned, Inside, OfWaiting, OfSubmitting, OfRefund, OfSettling,
                      OfGeneration
  <2>4. generation[j] = "success"
    BY <1>1, <2>1, <2>2 DEF Placed, Fits, OfWaiting, OfSubmitting, OfRefund, OfSettling,
                            OfGeneration
  <2>5. Stops(r) \/ (Goes(r, "persist") /\ o = "ok")
    BY <1>13, ThenGoesOrStops DEF FinishedAtJimeng, Move
  <2>6. CASE Goes(r, "persist") /\ o = "ok"
    <3>1. /\ runner'[r].pc = "persist" /\ runner'[r].job = j /\ lock' = lock
          /\ runner'[r].then = runner[r].then
      BY <1>1, <2>2, <2>6, GoesFacts
    <3>2. stage' = [stage EXCEPT ![j] = "persisting"]
      BY <2>1, <2>6 DEF SetStage, Applied
    <3>3. stage'[j] = "persisting" /\ \A i \in Jobs : i # j => stage'[i] = stage[i]
      BY <1>2, <2>2, <3>2
    <3>4. Manned(r)' /\ Placed(r)'
      BY <1>1, <2>1, <2>2, <2>3, <2>4, <3>1, <3>3
         DEF Manned, Placed, Inside, OfWaiting, OfSubmitting, OfRefund, OfSettling,
             OfGeneration, jimeng, Fits
    <3>5. QED
      BY <2>1, <2>2, <2>3, <2>4, <2>6, <3>4, StageMove DEF Stages
  <2>7. CASE Stops(r)
    BY <2>1, <2>2, <2>3, <2>4, <2>7, StageMove DEF Stages
  <2>8. QED
    BY <2>5, <2>6, <2>7
<1>14. CASE PersistResult(r, o)
  <2>1. /\ runner[r].pc = "persist" /\ client' = client /\ UNCHANGED jimeng
        /\ SetStage(j, "settling", o)
    BY <1>14 DEF PersistResult, Move, At
  <2>2. j \in Jobs /\ stage[j] # "none" /\ Manned(r) /\ Placed(r) /\ runner[r] \in RunnerStates
    BY <2>1, BusyRunner
  <2>3. lock = r
    BY <2>1, <2>2 DEF Manned, Inside, OfWaiting, OfSubmitting, OfRefund, OfSettling,
                      OfGeneration
  <2>4. generation[j] = "success"
    BY <1>1, <2>1, <2>2 DEF Placed, Fits, OfWaiting, OfSubmitting, OfRefund, OfSettling,
                            OfGeneration
  <2>5. Stops(r)
    BY <1>14, ThenGoesOrStops DEF PersistResult, Move
  <2>6. CASE Stops(r)
    BY <2>1, <2>2, <2>3, <2>4, <2>6, StageMove DEF Stages
  <2>7. QED
    BY <2>5, <2>6
<1>15. QED
  BY <1>3, <1>4, <1>5, <1>6, <1>7, <1>8, <1>9, <1>10, <1>11, <1>12, <1>13, <1>14

LEMMA WorkingIsBusy ==
  ASSUME StageInv, NEW j \in Jobs, generation[j] = "working"
  PROVE  stage[j] \in {"submitting", "submitted", "review_required"}
<1>1. Fits(j) /\ stage[j] \in Stages
  BY DEF StageInv, TypeOK
<1>2. QED
  BY <1>1 DEF Fits, Stages

\* The paid command: nobody else of the account is at Jimeng.
LEMMA SubmitKeeps ==
  ASSUME StageInv, TypeOK', NEW r \in Runners, SubmitPaid(r)
  PROVE  StageInv'
<1> DEFINE j == runner[r].job
<1>1. /\ TypeOK /\ runner[r].pc = "submit" /\ UNCHANGED <<client, stage>>
  BY DEF StageInv, SubmitPaid, At, sql
<1>2. j \in Jobs /\ Manned(r) /\ Placed(r) /\ runner[r] \in RunnerStates
  BY <1>1, BusyRunner
<1>3. /\ lock = r /\ stage[j] = "submitting" /\ accepted[j] = 0 /\ generation[j] = "none"
      /\ \A i \in Jobs : i # j => stage[i] \notin BusyStages
  BY <1>1, <1>2 DEF Manned, Placed, Inside, OfSubmitting
<1>4. \/ /\ Goes(r, "answer")
         /\ accepted' = [accepted EXCEPT ![j] = @ + 1]
         /\ generation' = [generation EXCEPT ![j] = "working"]
      \/ Goes(r, "review") /\ UNCHANGED jimeng
      \/ Goes(r, "unstarted") /\ UNCHANGED jimeng
  BY ControlIs DEF SubmitPaid
<1>5. CASE Goes(r, "review") /\ UNCHANGED jimeng
  <2>1. /\ runner'[r].pc = "review" /\ runner'[r].job = j /\ lock' = lock
        /\ runner'[r].then = runner[r].then
    BY <1>1, <1>5, GoesFacts
  <2>2. Manned(r)' /\ Placed(r)'
    BY <1>1, <1>2, <1>3, <2>1
       DEF Manned, Placed, Inside, OfWaiting, OfSubmitting, OfRefund, OfSettling,
           OfGeneration
  <2>3. QED
    BY <1>1, <1>5, <2>2, QuietMove
<1>6. CASE Goes(r, "unstarted") /\ UNCHANGED jimeng
  <2>1. /\ runner'[r].pc = "unstarted" /\ runner'[r].job = j /\ lock' = lock
        /\ runner'[r].then = runner[r].then
    BY <1>1, <1>6, GoesFacts
  <2>2. Manned(r)' /\ Placed(r)'
    BY <1>1, <1>2, <1>3, <1>6, <2>1
       DEF Manned, Placed, Inside, OfWaiting, OfSubmitting, OfRefund, OfSettling,
           OfGeneration, jimeng
  <2>3. QED
    BY <1>1, <1>6, <2>2, QuietMove
<1>7. CASE /\ Goes(r, "answer")
           /\ accepted' = [accepted EXCEPT ![j] = @ + 1]
           /\ generation' = [generation EXCEPT ![j] = "working"]
  <2>1. /\ runner'[r].pc = "answer" /\ runner'[r].job = j /\ lock' = lock
        /\ runner'[r].then = runner[r].then
        /\ \A q \in Runners : q # r => runner'[q] = runner[q]
    BY <1>1, <1>7, GoesFacts
  <2>2. Manned(r)' /\ Placed(r)'
    BY <1>1, <1>2, <1>3, <2>1
       DEF Manned, Placed, Inside, OfWaiting, OfSubmitting, OfRefund, OfSettling,
           OfGeneration
  <2>3. /\ accepted'[j] = 1 /\ generation'[j] = "working"
        /\ \A i \in Jobs : i # j =>
             accepted'[i] = accepted[i] /\ generation'[i] = generation[i]
    <3>1. DOMAIN accepted = Jobs /\ DOMAIN generation = Jobs
      BY <1>1 DEF TypeOK
    <3>2. accepted'[j] = 0 + 1
      BY <1>2, <1>3, <1>7, <3>1
    <3>3. QED
      BY <1>2, <1>7, <3>1, <3>2
  <2>4. \A i \in Jobs : Fits(i)'
    <3>1. \A i \in Jobs : Fits(i)
      BY DEF StageInv
    <3>2. QED
      BY <1>1, <1>3, <2>3, <3>1 DEF Fits
  <2>5. OneAtJimeng'
    <3>1. \A i \in Jobs : i # j => generation'[i] # "working"
      BY <1>3, <2>3, WorkingIsBusy DEF BusyStages
    <3>2. QED
      BY <3>1 DEF OneAtJimeng
  <2>6. Minds(r)
    BY <1>1, <1>3, <2>1 DEF Minds
  <2>7. QED
    BY <1>1, <2>1, <2>2, <2>4, <2>5, <2>6, RunnerStep
<1>8. QED
  BY <1>4, <1>5, <1>6, <1>7

LEMMA TransitionKeeps ==
  ASSUME StageInv, NEW r \in Runners, TransitionStep(r)
  PROVE  StageInv'
<1>1. runner[r].pc # "idle"
  BY DEF TransitionStep, Enter, SubmitPaid, FailTask, ReadForProgress, Withdraw, Refuse,
         CheckAccount, BeginSubmission, MarkSubmitting, ReceiveAnswer, RecordSubmitId, Review,
         WaitAgain, Reopen, ReleaseCredits, MirrorFailure, SaveFailed, EndFailed,
         SettleCredits, MirrorCompletion, CompleteTask, EndCompleted, AskJimeng,
         FailedAtJimeng, StillAtJimeng, FinishedAtJimeng, PersistResult, SaveProgress, Move, At
<1>2. TypeOK'
  BY <1>1, BusyRunner, TransitionTypes DEF StageInv, Manned
<1>3. QED
  BY <1>2, EnterKeeps, SubmitKeeps, ProgressKeeps, QuietKeeps, MovesKeep
     DEF TransitionStep, Outcomes

\* A step before the transition: of the worker's handler or the recovery loop.
LEMMA BeforeKeeps ==
  ASSUME StageInv, TypeOK', NEW r \in Runners, NEW o \in Outcomes,
         EndAgain(r) \/ ClaimForPreparation(r, o) \/ MarkProcessing(r, o)
           \/ (r = Recovery /\ (LookForRecord(o) \/ RebuildRecord(o)))
  PROVE  StageInv'
<1> DEFINE j == runner[r].job
<1>1. /\ TypeOK /\ runner[r].pc \in {"claim", "row", "look", "rebuild"}
      /\ UNCHANGED <<client, stage, jimeng>>
  BY DEF StageInv, EndAgain, ClaimForPreparation, MarkProcessing, LookForRecord,
     RebuildRecord,
         At, sql
<1>2. j \in Jobs /\ stage[j] # "none" /\ Manned(r) /\ Placed(r) /\ runner[r] \in RunnerStates
  BY <1>1, BusyRunner
<1>3. Stops(r) \/ \E pc \in {"row", "rebuild", "enter"} : Goes(r, pc)
  BY ControlIs, ThenGoesOrStops
     DEF EndAgain, ClaimForPreparation, MarkProcessing, LookForRecord, RebuildRecord
<1>4. CASE Stops(r)
  BY <1>1, <1>4, QuietMove
<1>5. ASSUME NEW pc \in {"row", "rebuild", "enter"}, Goes(r, pc)
      PROVE  StageInv'
  <2>1. /\ runner'[r].pc = pc /\ runner'[r].job = j /\ lock' = lock
        /\ runner'[r].then = runner[r].then
    BY <1>1, <1>5, GoesFacts
  <2>2. Manned(r)' /\ Placed(r)'
    BY <1>1, <1>2, <2>1
       DEF Manned, Placed, Inside, OfWaiting, OfSubmitting, OfRefund, OfSettling,
           OfGeneration
  <2>3. QED
    BY <1>1, <1>5, <2>2, QuietMove
<1>6. QED
  BY <1>3, <1>4, <1>5

LEMMA WorkersKeep ==
  ASSUME StageInv, (\E w \in Workers : WorkerStep(w)) \/ RecoveryStep
  PROVE  StageInv'
<1>1. ASSUME NEW w \in Workers, WorkerStep(w)
      PROVE  StageInv'
  <2>1. w \in Runners /\ runner[w].pc # "idle"
    BY <1>1 DEF Runners, WorkerStep, EndAgain, ClaimForPreparation, MarkProcessing, At
  <2>2. TypeOK'
    BY <1>1, <2>1, BusyRunner, WorkerTypes DEF StageInv
  <2>3. QED
    BY <1>1, <2>1, <2>2, BeforeKeeps DEF WorkerStep, Outcomes
<1>2. CASE RecoveryStep
  <2>1. Recovery \in Runners /\ runner[Recovery].pc # "idle"
    BY <1>2 DEF Runners, RecoveryStep, LookForRecord, RebuildRecord, At
  <2>2. TypeOK'
    BY <1>2, <2>1, BusyRunner, RecoveryTypes DEF StageInv
  <2>3. QED
    BY <1>2, <2>1, <2>2, BeforeKeeps DEF RecoveryStep
<1>3. QED
  BY <1>1, <1>2

\* A runner takes up a job.
LEMMA TakingUpKeeps ==
  ASSUME StageInv, TypeOK', NEW j \in Jobs,
         Discover(j) \/ \E w \in Workers : Dequeue(w, j) /\ stage[j] # "none"
  PROVE  StageInv'
<1>1. TypeOK /\ UNCHANGED <<client, stage, jimeng, lock>>
  BY DEF StageInv, Discover, Dequeue, sql
<1>2. CASE Discover(j)
  <2>1. /\ runner'[Recovery].pc = "look" /\ runner'[Recovery].job = j
        /\ runner'[Recovery].then = "done" /\ stage[j] # "none"
        /\ \A q \in Runners : q # Recovery => runner'[q] = runner[q]
    BY <1>1, <1>2, DiscoverFacts
  <2>2. Manned(Recovery)' /\ Placed(Recovery)'
    BY <1>1, <2>1 DEF Manned, Placed, Inside, OfWaiting, OfSubmitting, OfRefund, OfSettling,
                      OfGeneration
  <2>3. QED
    BY <1>1, <2>1, <2>2, QuietStep DEF Runners
<1>3. ASSUME NEW w \in Workers, Dequeue(w, j), stage[j] # "none"
      PROVE  StageInv'
  <2>1. /\ runner'[w].pc = "claim" /\ runner'[w].job = j /\ runner'[w].then = "done"
        /\ \A q \in Runners : q # w => runner'[q] = runner[q]
    BY <1>1, <1>3, DequeueFacts
  <2>2. Manned(w)' /\ Placed(w)'
    BY <1>1, <1>3, <2>1 DEF Manned, Placed, Inside, OfWaiting, OfSubmitting, OfRefund,
                            OfSettling, OfGeneration
  <2>3. QED
    BY <1>1, <2>1, <2>2, QuietStep DEF Runners
<1>4. QED
  BY <1>2, <1>3

\* A step of a submission.
LEMMA SubmissionStep ==
  ASSUME StageInv, TypeOK', NEW j \in Jobs, Minds(j), runner' = runner, UNCHANGED jimeng,
         \A i \in Jobs : i # j => client'[i] = client[i] /\ stage'[i] = stage[i],
         Submits(j)', Fits(j)'
  PROVE  StageInv'
<1>1. \A i \in Jobs : Submits(i)'
  BY ClientsKeep
<1>2. \A q \in Runners : Manned(q)' /\ Placed(q)'
  BY RunnersKeep, JimengAssumption
<1>3. \A i \in Jobs : Fits(i)'
  <2>1. \A i \in Jobs : Fits(i)
    BY DEF StageInv
  <2>2. QED
    BY <2>1 DEF Fits, jimeng
<1>4. OneAtJimeng'
  BY DEF StageInv, OneAtJimeng, jimeng
<1>5. QED
  BY <1>1, <1>2, <1>3, <1>4 DEF StageInv

\* What a command of a submission makes of the client and the lock.
LEMMA ProceedFacts ==
  ASSUME TypeOK, NEW j \in Jobs, NEW o \in Outcomes, NEW pc, NEW otherwise,
         Proceed(j, o, pc, otherwise)
  PROVE  /\ client'[j] = IF o = "ok" THEN pc ELSE otherwise
         /\ \A i \in Jobs : i # j => client'[i] = client[i]
         /\ lock' = IF client'[j] \in {"accepted", "rollback", "failed"} THEN None ELSE lock
<1>1. DOMAIN client = Jobs
  BY DEF TypeOK
<1>2. QED
  BY <1>1 DEF Proceed

LEMMA SubmissionKeeps ==
  ASSUME StageInv, NEW j \in Jobs, ReserveCredits(j) \/ ClientStep(j)
  PROVE  StageInv'
<1>1. /\ TypeOK /\ TypeOK' /\ Submits(j) /\ Fits(j)
      /\ stage \in [Jobs -> Stages] /\ DOMAIN client = Jobs
  BY ClientTypes DEF StageInv, TypeOK
<1>2. runner' = runner /\ UNCHANGED jimeng
  BY DEF ReserveCredits, ClientStep, LockForEnqueue, CreateTask, EnsureJob, SaveNewTask,
         PushTask, Abandon, RollBackSubmission, ClientUnchanged
<1>3. CASE ReserveCredits(j)
  <2>1. /\ client[j] = "new" /\ client'[j] = "lock" /\ lock' = lock /\ stage' = stage
        /\ \A i \in Jobs : i # j => client'[i] = client[i]
    BY <1>1, <1>3 DEF ReserveCredits, sql
  <2>2. Minds(j) /\ Submits(j)' /\ Fits(j)'
    BY <1>1, <1>2, <2>1 DEF Minds, Submits, Fits, jimeng, Enqueuing
  <2>3. QED
    BY <1>1, <1>2, <2>1, <2>2, SubmissionStep
<1>4. CASE LockForEnqueue(j)
  <2>1. /\ client[j] = "lock" /\ stage' = stage
        /\ \/ lock = None /\ lock' = j /\ client'[j] = "row"
           \/ lock' = lock /\ client'[j] = "rollback"
        /\ \A i \in Jobs : i # j => client'[i] = client[i]
    BY <1>1, <1>4 DEF LockForEnqueue, sql
  <2>2. Minds(j) /\ Submits(j)' /\ Fits(j)'
    BY <1>1, <1>2, <2>1 DEF Minds, Submits, Fits, jimeng, Enqueuing
  <2>3. QED
    BY <1>1, <1>2, <2>1, <2>2, SubmissionStep
<1>5. ASSUME NEW o \in Outcomes, CreateTask(j, o)
      PROVE  StageInv'
  <2>1. client[j] = "row" /\ stage' = stage /\ Proceed(j, o, "ensure", "rollback")
    BY <1>5 DEF CreateTask
  <2>2. lock = j
    BY <1>1, <2>1 DEF Submits, Enqueuing
  <2>3. /\ client'[j] \in {"ensure", "rollback"}
        /\ \A i \in Jobs : i # j => client'[i] = client[i]
        /\ lock' = IF client'[j] = "rollback" THEN None ELSE lock
    BY <1>1, <2>1, ProceedFacts
  <2>4. Minds(j) /\ Submits(j)' /\ Fits(j)'
    BY <1>1, <1>2, <2>1, <2>2, <2>3 DEF Minds, Submits, Fits, jimeng, Enqueuing
  <2>5. QED
    BY <1>1, <1>2, <2>1, <2>3, <2>4, SubmissionStep
<1>6. ASSUME NEW o \in Outcomes, EnsureJob(j, o)
      PROVE  StageInv'
  <2>1. /\ client[j] = "ensure" /\ SetStage(j, "waiting", o)
        /\ Proceed(j, o, "save", "rollback")
    BY <1>6 DEF EnsureJob
  <2>2. lock = j /\ stage[j] = "none"
    BY <1>1, <2>1 DEF Submits, Enqueuing
  <2>3. /\ client'[j] = IF o = "ok" THEN "save" ELSE "rollback"
        /\ \A i \in Jobs : i # j => client'[i] = client[i]
        /\ lock' = IF client'[j] = "rollback" THEN None ELSE lock
    BY <1>1, <2>1, ProceedFacts
  <2>4. /\ stage'[j] \in {"none", "waiting"} /\ (o = "ok" => stage'[j] = "waiting")
        /\ stage'[j] = "waiting" \/ stage' = stage
        /\ \A i \in Jobs : i # j => stage'[i] = stage[i]
    BY <1>1, <2>1, <2>2 DEF SetStage, Applied
  <2>5. Minds(j) /\ Submits(j)' /\ Fits(j)'
    BY <1>1, <1>2, <2>2, <2>3, <2>4 DEF Minds, Submits, Fits, jimeng, Enqueuing
  <2>6. QED
    BY <1>1, <1>2, <2>3, <2>4, <2>5, SubmissionStep
<1>7. ASSUME NEW o \in Outcomes, SaveNewTask(j, o) \/ PushTask(j, o)
      PROVE  StageInv'
  <2>1. /\ client[j] \in {"save", "push"} /\ stage' = stage
        /\ \/ Proceed(j, o, "push", "abandon")
           \/ Proceed(j, o, "accepted", "abandon")
    BY <1>7 DEF SaveNewTask, PushTask, sql
  <2>2. lock = j /\ stage[j] = "waiting"
    BY <1>1, <2>1 DEF Submits, Enqueuing
  <2>3. /\ client'[j] \in {"push", "accepted", "abandon"}
        /\ \A i \in Jobs : i # j => client'[i] = client[i]
        /\ lock' = IF client'[j] = "accepted" THEN None ELSE lock
    BY <1>1, <2>1, ProceedFacts
  <2>4. Minds(j) /\ Submits(j)' /\ Fits(j)'
    BY <1>1, <1>2, <2>1, <2>2, <2>3 DEF Minds, Submits, Fits, jimeng, Enqueuing
  <2>5. QED
    BY <1>1, <1>2, <2>1, <2>3, <2>4, SubmissionStep
<1>8. ASSUME NEW o \in Outcomes, Abandon(j, o)
      PROVE  StageInv'
  <2>1. /\ client[j] = "abandon" /\ SetStage(j, "refund_pending", o)
        /\ Proceed(j, o, "accepted", "failed")
    BY <1>8 DEF Abandon
  <2>2. lock = j /\ stage[j] = "waiting"
    BY <1>1, <2>1 DEF Submits, Enqueuing
  <2>3. /\ client'[j] \in {"accepted", "failed"} /\ lock' = None
        /\ \A i \in Jobs : i # j => client'[i] = client[i]
    BY <1>1, <2>1, ProceedFacts
  <2>4. /\ stage'[j] \in {"waiting", "refund_pending"}
        /\ \A i \in Jobs : i # j => stage'[i] = stage[i]
    BY <1>1, <2>1, <2>2 DEF SetStage
  <2>5. Minds(j) /\ Submits(j)' /\ Fits(j)'
    BY <1>1, <1>2, <2>2, <2>3, <2>4 DEF Minds, Submits, Fits, jimeng, Enqueuing
  <2>6. QED
    BY <1>1, <1>2, <2>3, <2>4, <2>5, SubmissionStep
<1>9. ASSUME NEW o \in Outcomes, RollBackSubmission(j, o)
      PROVE  StageInv'
  <2>1. /\ client[j] = "rollback" /\ client'[j] = "rejected" /\ lock' = lock /\ stage' = stage
        /\ \A i \in Jobs : i # j => client'[i] = client[i]
    BY <1>1, <1>9 DEF RollBackSubmission, sql
  <2>2. Minds(j) /\ Submits(j)' /\ Fits(j)'
    BY <1>1, <1>2, <2>1 DEF Minds, Submits, Fits, jimeng, Enqueuing
  <2>3. QED
    BY <1>1, <1>2, <2>1, <2>2, SubmissionStep
<1>10. QED
  BY <1>3, <1>4, <1>5, <1>6, <1>7, <1>8, <1>9 DEF ClientStep

\* Cancellations touch neither runners nor jobs.
LEMMA CancelKeeps ==
  ASSUME StageInv, (\E j \in Jobs : CancelStep(j)) \/ EditPrice
  PROVE  StageInv'
<1>1. TypeOK'
  BY CancelTypes, OtherTypes DEF StageInv
<1>2. UNCHANGED <<client, stage, lock, runner, jimeng>>
  BY DEF CancelStep, RetryRefund, CancelTask, MirrorCancellation, ReleaseCancelled,
         ReportRefund, EditPrice, sql
<1>3. QED
  BY <1>1, <1>2 DEF StageInv, Fits, Submits, Manned, Placed, OneAtJimeng, jimeng

LEMMA GenerationKeeps ==
  ASSUME StageInv, NEW j \in Jobs, GenerationEnds(j)
  PROVE  StageInv'
<1>1. TypeOK'
  BY OtherTypes DEF StageInv
<1>2. UNCHANGED <<client, stage, lock, runner, accepted>> /\ generation[j] = "working"
  BY DEF GenerationEnds, sql
<1>3. /\ generation'[j] \in {"success", "fail"}
      /\ \A i \in Jobs : i # j => generation'[i] = generation[i]
  <2>1. DOMAIN generation = Jobs
    BY DEF StageInv, TypeOK
  <2>2. QED
    BY <2>1 DEF GenerationEnds
<1>4. stage[j] \in {"submitting", "submitted", "review_required"}
  BY <1>2, WorkingIsBusy
<1>5. \A i \in Jobs : Fits(i)' /\ Submits(i)'
  <2>1. \A i \in Jobs : Fits(i) /\ Submits(i)
    BY DEF StageInv
  <2>2. QED
    BY <1>2, <1>3, <1>4, <2>1 DEF Fits, Submits
<1>6. \A r \in Runners : Manned(r)' /\ Placed(r)'
  <2>1. \A r \in Runners : Manned(r) /\ Placed(r)
    BY DEF StageInv
  <2>2. \A r \in Runners : Manned(r)'
    BY <1>2, <2>1 DEF Manned
  <2>3. ASSUME NEW r \in Runners
        PROVE  Placed(r)'
    <3>1. CASE runner[r].pc \in {"submit", "unstarted", "refund", "keep", "persist"}
      <4>1. runner[r].job \in Jobs /\ runner[r].job # j
        BY <1>2, <2>1, <3>1 DEF Manned, Placed
      <4>2. QED
        BY <1>2, <1>3, <2>1, <4>1 DEF Placed
    <3>2. CASE runner[r].pc \notin {"submit", "unstarted", "refund", "keep", "persist"}
      BY <1>2, <2>1, <3>2 DEF Placed
    <3>3. QED
      BY <3>1, <3>2
  <2>4. QED
    BY <2>2, <2>3
<1>7. OneAtJimeng'
  BY <1>3 DEF StageInv, OneAtJimeng
<1>8. QED
  BY <1>1, <1>5, <1>6, <1>7 DEF StageInv

LEMMA CrashKeeps ==
  ASSUME StageInv, NEW redisLost \in BOOLEAN, Crash(redisLost)
  PROVE  StageInv'
<1>1. TypeOK'
  BY OtherTypes DEF StageInv
<1>2. /\ UNCHANGED <<stage, jimeng>> /\ \A r \in Runners : runner'[r] = Idle
      /\ \A j \in Jobs : client'[j] \in {"new", "accepted", "rejected", "failed"}
                         /\ (client'[j] = "new" => client[j] = "new")
  BY DEF Crash, sql
<1>3. \A j \in Jobs : Fits(j)' /\ Submits(j)'
  BY <1>2 DEF StageInv, Fits, Submits, Enqueuing, jimeng
<1>4. \A r \in Runners : Manned(r)' /\ Placed(r)'
  BY <1>2 DEF Manned, Placed, Idle, Inside, OfWaiting, OfSubmitting, OfRefund, OfSettling,
              OfGeneration
<1>5. OneAtJimeng'
  BY <1>2 DEF StageInv, OneAtJimeng, jimeng
<1>6. QED
  BY <1>1, <1>3, <1>4, <1>5 DEF StageInv

\* A job stays a job.
LEMMA JobsStay ==
  ASSUME StageInv, [Next]_vars
  PROVE  \A j \in Jobs : stage[j] # "none" => stage'[j] # "none"
<1>1. stage \in [Jobs -> Stages]
  BY DEF StageInv, TypeOK
<1>2. ASSUME NEW i, NEW s, s # "none", NEW o, SetStage(i, s, o)
      PROVE  \A j \in Jobs : stage[j] # "none" => stage'[j] # "none"
  BY <1>1, <1>2 DEF SetStage
<1>3. ASSUME NEW i \in Jobs, ReserveCredits(i) \/ ClientStep(i)
      PROVE  \A j \in Jobs : stage[j] # "none" => stage'[j] # "none"
  BY <1>2, <1>3 DEF ReserveCredits, ClientStep, LockForEnqueue, CreateTask, EnsureJob,
                    SaveNewTask, PushTask, Abandon, RollBackSubmission, sql
<1>4. ASSUME NEW r \in Runners, TransitionStep(r)
      PROVE  \A j \in Jobs : stage[j] # "none" => stage'[j] # "none"
  <2>1. \/ stage' = stage
        \/ \E s \in Stages \ {"none"}, o \in Outcomes : SetStage(runner[r].job, s, o)
    BY <1>4 DEF TransitionStep, Enter, SubmitPaid, FailTask, ReadForProgress, Withdraw,
       Refuse,
         CheckAccount, BeginSubmission, MarkSubmitting, ReceiveAnswer, RecordSubmitId, Review,
         WaitAgain, Reopen, ReleaseCredits, MirrorFailure, SaveFailed, EndFailed,
         SettleCredits, MirrorCompletion, CompleteTask, EndCompleted, AskJimeng,
         FailedAtJimeng, StillAtJimeng, FinishedAtJimeng, PersistResult, SaveProgress, Move,
         sql, Stages
  <2>2. QED
    BY <1>2, <2>1
<1>5. CASE \/ \E i \in Jobs : CancelStep(i) \/ Discover(i) \/ GenerationEnds(i)
           \/ \E w \in Workers : WorkerStep(w) \/ \E i \in Jobs : Dequeue(w, i)
           \/ RecoveryStep \/ EditPrice \/ \E redisLost \in BOOLEAN : Crash(redisLost)
  <2>1. stage' = stage
    BY <1>5 DEF CancelStep, RetryRefund, CancelTask, MirrorCancellation, ReleaseCancelled,
         ReportRefund, Discover, GenerationEnds, WorkerStep, EndAgain, ClaimForPreparation,
         MarkProcessing, Dequeue, RecoveryStep, LookForRecord, RebuildRecord, EditPrice, Crash,
         sql
  <2>2. QED
    BY <2>1
<1>6. CASE UNCHANGED vars
  BY <1>6 DEF vars, sql
<1>7. QED
  BY <1>3, <1>4, <1>5, <1>6 DEF Next

LEMMA QueuedKeeps ==
  ASSUME StageInv, Queued, [Next]_vars
  PROVE  Queued'
<1>1. \A j \in Jobs : stage[j] # "none" => stage'[j] # "none"
  BY JobsStay
<1>2. pending \subseteq Jobs
  BY DEF StageInv, TypeOK
<1>3. CASE pending' \subseteq pending
  BY <1>1, <1>2, <1>3 DEF Queued
<1>4. ASSUME NEW j \in Jobs, NEW o \in Outcomes, PushTask(j, o)
      PROVE  Queued'
  <2>1. Submits(j)
    BY DEF StageInv
  <2>2. stage[j] # "none"
    BY <1>4, <2>1 DEF PushTask, Submits
  <2>3. pending' \subseteq pending \cup {j}
    BY <1>4 DEF PushTask
  <2>4. QED
    BY <1>1, <1>2, <2>2, <2>3 DEF Queued
<1>5. CASE ~ \E j \in Jobs, o \in Outcomes : PushTask(j, o)
  <2>1. ASSUME NEW j \in Jobs, ReserveCredits(j) \/ ClientStep(j)
        PROVE  pending' \subseteq pending
    BY <1>5, <2>1 DEF ReserveCredits, ClientStep, LockForEnqueue, CreateTask, EnsureJob,
                      SaveNewTask, Abandon, RollBackSubmission
  <2>2. ASSUME NEW r \in Runners, TransitionStep(r)
        PROVE  pending' \subseteq pending
    BY <2>2 DEF TransitionStep, Enter, SubmitPaid, FailTask, ReadForProgress, Withdraw,
       Refuse,
         CheckAccount, BeginSubmission, MarkSubmitting, ReceiveAnswer, RecordSubmitId, Review,
         WaitAgain, Reopen, ReleaseCredits, MirrorFailure, SaveFailed, EndFailed,
         SettleCredits, MirrorCompletion, CompleteTask, EndCompleted, AskJimeng,
         FailedAtJimeng, StillAtJimeng, FinishedAtJimeng, PersistResult, SaveProgress, Move,
         redis
  <2>3. ASSUME \/ \E i \in Jobs : CancelStep(i) \/ Discover(i) \/ GenerationEnds(i)
               \/ \E w \in Workers : WorkerStep(w) \/ \E i \in Jobs : Dequeue(w, i)
               \/ RecoveryStep \/ EditPrice \/ \E redisLost \in BOOLEAN : Crash(redisLost)
        PROVE  pending' \subseteq pending
    BY <2>3 DEF CancelStep, RetryRefund, CancelTask, MirrorCancellation, ReleaseCancelled,
         ReportRefund, Discover, GenerationEnds, WorkerStep, EndAgain, ClaimForPreparation,
         MarkProcessing, Dequeue, RecoveryStep, LookForRecord, RebuildRecord, EditPrice, Crash,
         redis
  <2>4. ASSUME UNCHANGED vars
        PROVE  pending' \subseteq pending
    BY <2>4 DEF vars, redis
  <2>5. QED
    BY <1>3, <2>1, <2>2, <2>3, <2>4 DEF Next
<1>6. QED
  BY <1>4, <1>5

LEMMA NextKeeps ==
  ASSUME StageInv, Queued, [Next]_vars
  PROVE  StageInv' /\ Queued'
<1>1. TypeOK
  BY DEF StageInv
<1>2. ASSUME NEW j \in Jobs, ReserveCredits(j) \/ ClientStep(j) \/ CancelStep(j)
                               \/ Discover(j) \/ GenerationEnds(j)
      PROVE  StageInv'
  <2>1. CASE Discover(j)
    BY <1>1, <2>1, OtherTypes, TakingUpKeeps
  <2>2. QED
    BY <1>2, <2>1, SubmissionKeeps, CancelKeeps, GenerationKeeps
<1>3. ASSUME NEW w \in Workers, NEW j \in Jobs, Dequeue(w, j)
      PROVE  StageInv'
  <2>1. stage[j] # "none"
    BY <1>3 DEF Dequeue, Queued
  <2>2. QED
    BY <1>1, <1>3, <2>1, OtherTypes, TakingUpKeeps
<1>4. ASSUME UNCHANGED vars
      PROVE  StageInv'
  <2>1. TypeOK'
    BY <1>1, <1>4, TypeSplits, TypeJoins, TypesStay DEF vars, sql, Types
  <2>2. UNCHANGED <<client, stage, lock, runner, jimeng>>
    BY <1>4 DEF vars, sql
  <2>3. QED
    BY <2>1, <2>2 DEF StageInv, Fits, Submits, Manned, Placed, OneAtJimeng, jimeng
<1>5. QED
  BY <1>2, <1>3, <1>4, TransitionKeeps, WorkersKeep, CancelKeeps, CrashKeeps, QueuedKeeps
     DEF Next

LEMMA InitHolds ==
  ASSUME Init
  PROVE  StageInv /\ Queued
<1>1. PICK s \in EarlierStages : InitEarlier(s)
  BY DEF Init
<1>2. s \in {"submitted", "review_required", "completed"}
  BY <1>1, JimengAssumption
<1>3. \A j \in Jobs : j \notin Earlier =>
        /\ client[j] = "new" /\ stage[j] = "none" /\ accepted[j] = 0 /\ generation[j] = "none"
  BY <1>1 DEF Init, InitEarlier, If
<1>4. \A j \in Jobs : j \in Earlier =>
        /\ client[j] = "accepted" /\ stage[j] = s /\ accepted[j] = 1
        /\ generation[j] = IF s = "completed" THEN "success" ELSE "working"
  BY <1>1 DEF Init, InitEarlier, If
<1>5. pending = {} /\ \A r \in Runners : runner[r] = Idle
  BY DEF Init
<1>6. Types
  <2>1. ClientType /\ FinisherType /\ HistoryType
    BY DEF Init, If, ClientType, FinisherType, HistoryType
  <2>2. RowType
    BY <1>1 DEF InitEarlier, If, RowType
  <2>3. StageType
    BY <1>1, <1>2 DEF InitEarlier, If, StageType, Stages
  <2>4. RedisType
    BY <1>1 DEF Init, InitEarlier, If, RedisType, Records, Statuses, NoRecord
  <2>5. JimengType
    BY <1>1 DEF Init, InitEarlier, If, JimengType, MaxAccepted
  <2>6. LedgerType
    BY <1>1 DEF InitEarlier, If, LedgerType
  <2>7. ControlType
    BY JimengAssumption DEF Init, ControlType, Idle, RunnerStates, Positions, Statuses,
                            LockType
  <2>8. QED
    BY <2>1, <2>2, <2>3, <2>4, <2>5, <2>6, <2>7 DEF Types
<1>7. TypeOK
  BY <1>6, TypeSplits
<1>8. \A j \in Jobs : Fits(j) /\ Submits(j)
  BY <1>2, <1>3, <1>4 DEF Fits, Submits, Enqueuing
<1>9. \A r \in Runners : Manned(r) /\ Placed(r)
  BY <1>5 DEF Manned, Placed, Idle, Inside, OfWaiting, OfSubmitting, OfRefund, OfSettling,
              OfGeneration
<1>10. OneAtJimeng
  BY <1>3, JimengAssumption DEF OneAtJimeng
<1>11. QED
  BY <1>5, <1>7, <1>8, <1>9, <1>10 DEF StageInv, Queued

\* Whatever fails or dies where, the lock has one holder, the holder knows the stage
\* of its job, and the stage tells what there is of a generation (TypeOK among it).
THEOREM JimengInvariant == Spec => [](StageInv /\ Queued)
<1>1. Init => StageInv /\ Queued
  BY InitHolds
<1>2. (StageInv /\ Queued) /\ [Next]_vars => (StageInv /\ Queued)'
  BY NextKeeps
<1>3. QED
  BY <1>1, <1>2, PTL DEF Spec

\* The types of the variables.
THEOREM JimengTypeCorrect == Spec => []TypeOK
<1>1. StageInv => TypeOK
  BY DEF StageInv
<1>2. QED
  BY <1>1, JimengInvariant, PTL

\* Jimeng accepts at most one generation of a task: an uncertain paid submission is
\* never replayed (services/jimeng_task_service.py:1).
THEOREM JimengPaidOnce == Spec => []PaidOnce
<1>1. StageInv => PaidOnce
  BY DEF StageInv, Fits, PaidOnce
<1>2. QED
  BY <1>1, JimengInvariant, PTL

\* The account has at most one generation at work (JimengJobDAO.account_busy).
THEOREM JimengOneAtJimeng == Spec => []OneAtJimeng
<1>1. StageInv => OneAtJimeng
  BY DEF StageInv
<1>2. QED
  BY <1>1, JimengInvariant, PTL

-----------------------------------------------------------------------------
(***************************************************************************)
(* The points.  What a step of h may do to the records and the accounts of  *)
(* a job others work on, and that everything else stays as it was.          *)
(***************************************************************************)
Gentle(h) ==
  /\ \A i \in Jobs :
       /\ record[i].status # "none" => record'[i].status # "none"
       /\ record[i].status = "cancelled" => record'[i].status = "cancelled"
       /\ i \in overwritten => i \in overwritten'
       /\ record[i].dispatch = "submitted" /\ record[i].status \notin {"none", "cancelled"} =>
            \/ record'[i].dispatch = "submitted" /\ record'[i].status # "cancelled"
            \/ lock = h \/ i \in overwritten'
       /\ record[i].status = "none" /\ generation[i] = "none" => generation'[i] = "none"
       /\ charges[i] = 1 => charges'[i] = 1
       /\ held[i] = 0 => held'[i] = 0 \/ lock = h \/ stage[i] = "none"
  /\ repriced => repriced'

LEMMA WatchersKeep ==
  ASSUME StageInv, PointsInv, NEW h, Gentle(h), NEW q \in Runners, q # h,
         runner'[q] = runner[q]
  PROVE  Watched(q)'
<1> DEFINE k == runner[q]
           i == k.job
<1>1. Watched(q) /\ Manned(q) /\ Placed(q)
  BY DEF StageInv, PointsInv
<1>2. CASE k.pc \in {"intent", "submit", "answer", "identify", "unstarted", "reopen",
                     "save_failed", "save_progress", "look", "rebuild", "complete_row",
                     "complete", "end_completed", "fail_row", "fail", "end_failed"}
  <2>1. i \in Jobs
    BY <1>1, <1>2 DEF Manned
  <2>2. k.pc \notin {"look", "rebuild", "save_progress"} => lock = q
    BY <1>1, <1>2 DEF Manned, Inside, OfWaiting, OfSubmitting, OfRefund, OfSettling
  <2>3. k.pc \in {"fail_row", "fail", "save_failed", "end_failed"} => stage[i] # "none"
    BY <1>1 DEF Manned
  <2>4. QED
    BY <1>1, <2>1, <2>2, <2>3 DEF Gentle, Watched
<1>3. CASE k.pc \notin {"intent", "submit", "answer", "identify", "unstarted", "reopen",
                        "save_failed", "save_progress", "look", "rebuild", "complete_row",
                        "complete", "end_completed", "fail_row", "fail", "end_failed"}
  BY <1>3 DEF Watched
<1>4. QED
  BY <1>2, <1>3

\* Nothing happens to job i.
Same(i) ==
  /\ client'[i] = client[i] /\ row'[i] = row[i] /\ stage'[i] = stage[i]
  /\ record'[i] = record[i] /\ finisher'[i] = finisher[i] /\ generation'[i] = generation[i]
  /\ held'[i] = held[i] /\ charges'[i] = charges[i]
  /\ i \in overwritten <=> i \in overwritten'

LEMMA SameKeeps ==
  ASSUME PointsInv, NEW i \in Jobs, Same(i), repriced => repriced'
  PROVE  Recorded(i)' /\ Balanced(i)'
<1>1. Recorded(i) /\ Balanced(i)
  BY DEF PointsInv
<1>2. QED
  BY <1>1 DEF Same, Recorded, Balanced, Kept

\* A step of runner r with job j.
LEMMA PointsStep ==
  ASSUME StageInv, PointsInv, NEW r \in Runners, NEW j \in Jobs, Gentle(r),
         \A q \in Runners : q # r => runner'[q] = runner[q],
         \A i \in Jobs : i # j => Same(i),
         Recorded(j)', Balanced(j)', Watched(r)'
  PROVE  PointsInv'
<1>1. \A i \in Jobs : Recorded(i)' /\ Balanced(i)'
  BY SameKeeps DEF Gentle
<1>2. \A q \in Runners : Watched(q)'
  BY WatchersKeep
<1>3. QED
  BY <1>1, <1>2 DEF PointsInv

\* A step of nobody's, of a submission or a cancellation.
LEMMA PointsOfJob ==
  ASSUME StageInv, PointsInv, NEW j \in Jobs, Gentle(j), runner' = runner,
         \A i \in Jobs : i # j => Same(i), Recorded(j)', Balanced(j)'
  PROVE  PointsInv'
<1>1. \A i \in Jobs : Recorded(i)' /\ Balanced(i)'
  BY SameKeeps DEF Gentle
<1>2. \A q \in Runners : Watched(q)'
  BY WatchersKeep, JimengAssumption
<1>3. QED
  BY <1>1, <1>2 DEF PointsInv

LEMMA StopsIsWatched ==
  ASSUME TypeOK, NEW r \in Runners, Stops(r)
  PROVE  Watched(r)'
<1>1. runner'[r].pc \in {"idle", "report"}
  BY StopsFacts DEF Idle
<1>2. QED
  BY <1>1 DEF Watched

\* A step that leaves records, rows and accounts alone; a job that is leaving leaves.
LEMMA PointsStay ==
  ASSUME StageInv, PointsInv, NEW r \in Runners,
         UNCHANGED <<client, row, record, finisher, jimeng, ledger, repriced, overwritten>>,
         \A i \in Jobs : \/ stage'[i] = stage[i]
                         \/ /\ stage'[i] # "none" /\ (stage[i] \in Leaving => stage'[i] \in Leaving)
                            /\ stage'[i] = "completed" => charges[i] = 1 \/ repriced,
         \A q \in Runners : q # r => runner'[q] = runner[q],
         Watched(r)'
  PROVE  PointsInv'
<1>1. Gentle(r)
  BY DEF Gentle, jimeng, ledger
<1>2. \A i \in Jobs : Recorded(i)' /\ Balanced(i)'
  <2>1. \A i \in Jobs : Recorded(i) /\ Balanced(i)
    BY DEF PointsInv
  <2>2. QED
    BY <2>1 DEF Recorded, Balanced, Kept, jimeng, ledger
<1>3. \A q \in Runners : Watched(q)'
  BY <1>1, WatchersKeep
<1>4. QED
  BY <1>2, <1>3 DEF PointsInv

LEMMA QuietPoints ==
  ASSUME StageInv, PointsInv, NEW r \in Runners, NEW o \in Outcomes,
         CheckAccount(r, o) \/ ReceiveAnswer(r, o) \/ FailTask(r) \/ AskJimeng(r, o) \/
         (r = Recovery /\ LookForRecord(o))
  PROVE  PointsInv'
<1> DEFINE j == runner[r].job
<1>1. TypeOK
  BY DEF StageInv
<1>2. CASE CheckAccount(r, o)
  <2>1. runner[r].pc = "check" /\ UNCHANGED <<client, row, record, finisher, jimeng, ledger,
                                              repriced, overwritten>>
    BY <1>2 DEF CheckAccount, At, sql, redis
  <2>2. stage' = stage /\ Watched(r)
    BY <1>2 DEF CheckAccount, sql, PointsInv
  <2>3. Stops(r) \/ \E pc \in {"progress", "begin"} : Goes(r, pc)
    BY <1>2, ThenGoesOrStops DEF CheckAccount
  <2>4. CASE Stops(r)
    BY <1>1, <2>1, <2>2, <2>4, StopsFacts, StopsIsWatched, PointsStay
  <2>5. ASSUME NEW pc \in {"progress", "begin"}, Goes(r, pc)
        PROVE  PointsInv'
    <3>1. /\ runner'[r].pc = pc /\ runner'[r].job = j /\ runner'[r].seen = runner[r].seen
          /\ \A q \in Runners : q # r => runner'[q] = runner[q]
      BY <1>1, <2>5, GoesFacts
    <3>2. Watched(r)'
      BY <2>1, <2>2, <2>5, <3>1 DEF Watched, jimeng, ledger
    <3>3. QED
      BY <2>1, <2>2, <3>1, <3>2, PointsStay
  <2>6. QED
    BY <2>3, <2>4, <2>5
<1>3. CASE ReceiveAnswer(r, o)
  <2>1. runner[r].pc = "answer" /\ UNCHANGED <<client, row, record, finisher, jimeng,
                                               ledger, repriced, overwritten>>
    BY <1>3 DEF ReceiveAnswer, At, sql, redis
  <2>2. stage' = stage /\ Watched(r)
    BY <1>3 DEF ReceiveAnswer, sql, PointsInv
  <2>3. Stops(r) \/ \E pc \in {"identify", "review"} : Goes(r, pc)
    BY <1>3, ControlIs DEF ReceiveAnswer
  <2>4. CASE Stops(r)
    BY <1>1, <2>1, <2>2, <2>4, StopsFacts, StopsIsWatched, PointsStay
  <2>5. ASSUME NEW pc \in {"identify", "review"}, Goes(r, pc)
        PROVE  PointsInv'
    <3>1. /\ runner'[r].pc = pc /\ runner'[r].job = j /\ runner'[r].seen = runner[r].seen
          /\ \A q \in Runners : q # r => runner'[q] = runner[q]
      BY <1>1, <2>5, GoesFacts
    <3>2. Watched(r)'
      BY <2>1, <2>2, <2>5, <3>1 DEF Watched, jimeng, ledger
    <3>3. QED
      BY <2>1, <2>2, <3>1, <3>2, PointsStay
  <2>6. QED
    BY <2>3, <2>4, <2>5
<1>4. CASE FailTask(r)
  <2>1. runner[r].pc = "fail" /\ UNCHANGED <<client, row, record, finisher, jimeng, ledger,
                                             repriced, overwritten>>
    BY <1>4 DEF FailTask, At, sql, redis
  <2>2. stage' = stage /\ Watched(r)
    BY <1>4 DEF FailTask, sql, PointsInv
  <2>3. Stops(r) \/ \E pc \in {"save_failed"} : Goes(r, pc) /\ record[j].status # "none"
    BY <1>4, ControlIs DEF FailTask
  <2>4. CASE Stops(r)
    BY <1>1, <2>1, <2>2, <2>4, StopsFacts, StopsIsWatched, PointsStay
  <2>5. ASSUME NEW pc \in {"save_failed"}, Goes(r, pc) /\ record[j].status # "none"
        PROVE  PointsInv'
    <3>1. /\ runner'[r].pc = pc /\ runner'[r].job = j /\ runner'[r].seen = runner[r].seen
          /\ \A q \in Runners : q # r => runner'[q] = runner[q]
      BY <1>1, <2>5, GoesFacts
    <3>2. Watched(r)'
      BY <2>1, <2>2, <2>5, <3>1 DEF Watched, jimeng, ledger
    <3>3. QED
      BY <2>1, <2>2, <3>1, <3>2, PointsStay
  <2>6. QED
    BY <2>3, <2>4, <2>5
<1>5. CASE AskJimeng(r, o)
  <2>1. runner[r].pc = "ask" /\ UNCHANGED <<client, row, record, finisher, jimeng, ledger,
                                            repriced, overwritten>>
    BY <1>5 DEF AskJimeng, At, sql, redis
  <2>2. stage' = stage /\ Watched(r)
    BY <1>5 DEF AskJimeng, sql, PointsInv
  <2>3. Stops(r) \/ \E pc \in {"refund", "keep", "wait", "review"} : Goes(r, pc)
    BY <1>5, ControlIs DEF AskJimeng
  <2>4. CASE Stops(r)
    BY <1>1, <2>1, <2>2, <2>4, StopsFacts, StopsIsWatched, PointsStay
  <2>5. ASSUME NEW pc \in {"refund", "keep", "wait", "review"}, Goes(r, pc)
        PROVE  PointsInv'
    <3>1. /\ runner'[r].pc = pc /\ runner'[r].job = j /\ runner'[r].seen = runner[r].seen
          /\ \A q \in Runners : q # r => runner'[q] = runner[q]
      BY <1>1, <2>5, GoesFacts
    <3>2. Watched(r)'
      BY <2>1, <2>2, <2>5, <3>1 DEF Watched, jimeng, ledger
    <3>3. QED
      BY <2>1, <2>2, <3>1, <3>2, PointsStay
  <2>6. QED
    BY <2>3, <2>4, <2>5
<1>6. CASE r = Recovery /\ LookForRecord(o)
  <2>1. runner[r].pc = "look" /\ UNCHANGED <<client, row, record, finisher, jimeng, ledger,
                                             repriced, overwritten>>
    BY <1>6 DEF LookForRecord, At, sql, redis
  <2>2. stage' = stage /\ Watched(r)
    BY <1>6 DEF LookForRecord, sql, PointsInv
  <2>3. Stops(r) \/ \E pc \in {"rebuild", "enter"} : Goes(r, pc)
    BY <1>6, ControlIs DEF LookForRecord
  <2>4. CASE Stops(r)
    BY <1>1, <2>1, <2>2, <2>4, StopsFacts, StopsIsWatched, PointsStay
  <2>5. ASSUME NEW pc \in {"rebuild", "enter"}, Goes(r, pc)
        PROVE  PointsInv'
    <3>1. /\ runner'[r].pc = pc /\ runner'[r].job = j /\ runner'[r].seen = runner[r].seen
          /\ \A q \in Runners : q # r => runner'[q] = runner[q]
      BY <1>1, <2>5, GoesFacts
    <3>2. Watched(r)'
      BY <2>1, <2>2, <2>5, <3>1 DEF Watched, jimeng, ledger
    <3>3. QED
      BY <2>1, <2>2, <3>1, <3>2, PointsStay
  <2>6. QED
    BY <2>3, <2>4, <2>5
<1>7. QED
  BY <1>2, <1>3, <1>4, <1>5, <1>6

LEMMA MovePoints ==
  ASSUME StageInv, PointsInv, NEW r \in Runners, NEW o \in Outcomes,
         Withdraw(r, o) \/ Refuse(r, o) \/ MarkSubmitting(r, o) \/ RecordSubmitId(r, o)
         \/ Review(r, o) \/ WaitAgain(r, o) \/ EndFailed(r, o) \/ EndCompleted(r, o) \/
         FailedAtJimeng(r, o) \/ StillAtJimeng(r, o) \/ FinishedAtJimeng(r, o) \/
         PersistResult(r, o)
  PROVE  PointsInv'
<1> DEFINE j == runner[r].job
<1>1. TypeOK /\ Watched(r)
  BY DEF StageInv, PointsInv
<1>2. stage \in [Jobs -> Stages]
  BY <1>1 DEF TypeOK
<1>3. CASE Withdraw(r, o)
  <2>1. runner[r].pc = "withdraw" /\ UNCHANGED <<client, row, record, finisher, jimeng,
                                                 ledger, repriced, overwritten>>
    BY <1>3 DEF Withdraw, Move, At, redis
  <2>2. j \in Jobs /\ Placed(r)
    BY <2>1, BusyRunner
  <2>3. stage' = stage \/ stage' = [stage EXCEPT ![j] = "failed"]
    BY <1>3 DEF Withdraw, Move, SetStage
  <2>4. \A i \in Jobs :
          \/ stage'[i] = stage[i]
          \/ /\ stage'[i] # "none" /\ (stage[i] \in Leaving => stage'[i] \in Leaving)
             /\ stage'[i] = "completed" => charges[i] = 1 \/ repriced
    BY <1>1, <1>2, <2>1, <2>2, <2>3 DEF Leaving, Placed, Watched, OfWaiting, OfSubmitting,
                                        OfRefund, OfSettling, OfGeneration
  <2>5. Stops(r)
    BY <1>3, ThenGoesOrStops DEF Withdraw, Move
  <2>6. CASE Stops(r)
    BY <1>1, <2>1, <2>4, <2>6, StopsFacts, StopsIsWatched, PointsStay
  <2>7. QED
    BY <2>5, <2>6
<1>4. CASE Refuse(r, o)
  <2>1. runner[r].pc = "check" /\ UNCHANGED <<client, row, record, finisher, jimeng, ledger,
                                              repriced, overwritten>>
    BY <1>4 DEF Refuse, Move, At, redis
  <2>2. j \in Jobs /\ Placed(r)
    BY <2>1, BusyRunner
  <2>3. stage' = stage \/ stage' = [stage EXCEPT ![j] = "refund_pending"]
    BY <1>4 DEF Refuse, Move, SetStage
  <2>4. \A i \in Jobs :
          \/ stage'[i] = stage[i]
          \/ /\ stage'[i] # "none" /\ (stage[i] \in Leaving => stage'[i] \in Leaving)
             /\ stage'[i] = "completed" => charges[i] = 1 \/ repriced
    BY <1>1, <1>2, <2>1, <2>2, <2>3 DEF Leaving, Placed, Watched, OfWaiting, OfSubmitting,
                                        OfRefund, OfSettling, OfGeneration
  <2>5. Stops(r)
    BY <1>4, ThenGoesOrStops DEF Refuse, Move
  <2>6. CASE Stops(r)
    BY <1>1, <2>1, <2>4, <2>6, StopsFacts, StopsIsWatched, PointsStay
  <2>7. QED
    BY <2>5, <2>6
<1>5. CASE MarkSubmitting(r, o)
  <2>1. runner[r].pc = "intent" /\ UNCHANGED <<client, row, record, finisher, jimeng,
                                               ledger, repriced, overwritten>>
    BY <1>5 DEF MarkSubmitting, Move, At, redis
  <2>2. j \in Jobs /\ Placed(r)
    BY <2>1, BusyRunner
  <2>3. stage' = stage \/ stage' = [stage EXCEPT ![j] = "submitting"]
    BY <1>5 DEF MarkSubmitting, Move, SetStage
  <2>4. \A i \in Jobs :
          \/ stage'[i] = stage[i]
          \/ /\ stage'[i] # "none" /\ (stage[i] \in Leaving => stage'[i] \in Leaving)
             /\ stage'[i] = "completed" => charges[i] = 1 \/ repriced
    BY <1>1, <1>2, <2>1, <2>2, <2>3 DEF Leaving, Placed, Watched, OfWaiting, OfSubmitting,
                                        OfRefund, OfSettling, OfGeneration
  <2>5. Stops(r) \/ \E pc \in {"submit"} : Goes(r, pc)
    BY <1>5, ThenGoesOrStops DEF MarkSubmitting, Move
  <2>6. CASE Stops(r)
    BY <1>1, <2>1, <2>4, <2>6, StopsFacts, StopsIsWatched, PointsStay
  <2>7. ASSUME NEW pc \in {"submit"}, Goes(r, pc)
        PROVE  PointsInv'
    <3>1. /\ runner'[r].pc = pc /\ runner'[r].job = j
          /\ \A q \in Runners : q # r => runner'[q] = runner[q]
      BY <1>1, <2>7, GoesFacts
    <3>2. Watched(r)'
      BY <1>1, <2>1, <2>7, <3>1 DEF Watched, jimeng, ledger
    <3>3. QED
      BY <2>1, <2>4, <3>1, <3>2, PointsStay
  <2>8. QED
    BY <2>5, <2>6, <2>7
<1>6. CASE RecordSubmitId(r, o)
  <2>1. runner[r].pc = "identify" /\ UNCHANGED <<client, row, record, finisher, jimeng,
                                                 ledger, repriced, overwritten>>
    BY <1>6 DEF RecordSubmitId, At, redis
  <2>2. j \in Jobs /\ Placed(r)
    BY <2>1, BusyRunner
  <2>3. stage' = stage \/ stage' = [stage EXCEPT ![j] = "submitted"]
    BY <1>6 DEF RecordSubmitId, SetStage
  <2>4. \A i \in Jobs :
          \/ stage'[i] = stage[i]
          \/ /\ stage'[i] # "none" /\ (stage[i] \in Leaving => stage'[i] \in Leaving)
             /\ stage'[i] = "completed" => charges[i] = 1 \/ repriced
    BY <1>1, <1>2, <2>1, <2>2, <2>3 DEF Leaving, Placed, Watched, OfWaiting, OfSubmitting,
                                        OfRefund, OfSettling, OfGeneration
  <2>5. Stops(r) \/ \E pc \in {"progress", "review"} : Goes(r, pc)
    BY <1>6, ControlIs DEF RecordSubmitId
  <2>6. CASE Stops(r)
    BY <1>1, <2>1, <2>4, <2>6, StopsFacts, StopsIsWatched, PointsStay
  <2>7. ASSUME NEW pc \in {"progress", "review"}, Goes(r, pc)
        PROVE  PointsInv'
    <3>1. /\ runner'[r].pc = pc /\ runner'[r].job = j
          /\ \A q \in Runners : q # r => runner'[q] = runner[q]
      BY <1>1, <2>7, GoesFacts
    <3>2. Watched(r)'
      BY <1>1, <2>1, <2>7, <3>1 DEF Watched, jimeng, ledger
    <3>3. QED
      BY <2>1, <2>4, <3>1, <3>2, PointsStay
  <2>8. QED
    BY <2>5, <2>6, <2>7
<1>7. CASE Review(r, o)
  <2>1. runner[r].pc = "review" /\ UNCHANGED <<client, row, record, finisher, jimeng,
                                               ledger, repriced, overwritten>>
    BY <1>7 DEF Review, Move, At, redis
  <2>2. j \in Jobs /\ Placed(r)
    BY <2>1, BusyRunner
  <2>3. stage' = stage \/ stage' = [stage EXCEPT ![j] = "review_required"]
    BY <1>7 DEF Review, Move, SetStage
  <2>4. \A i \in Jobs :
          \/ stage'[i] = stage[i]
          \/ /\ stage'[i] # "none" /\ (stage[i] \in Leaving => stage'[i] \in Leaving)
             /\ stage'[i] = "completed" => charges[i] = 1 \/ repriced
    BY <1>1, <1>2, <2>1, <2>2, <2>3 DEF Leaving, Placed, Watched, OfWaiting, OfSubmitting,
                                        OfRefund, OfSettling, OfGeneration
  <2>5. Stops(r) \/ \E pc \in {"progress"} : Goes(r, pc)
    BY <1>7, ThenGoesOrStops DEF Review, Move
  <2>6. CASE Stops(r)
    BY <1>1, <2>1, <2>4, <2>6, StopsFacts, StopsIsWatched, PointsStay
  <2>7. ASSUME NEW pc \in {"progress"}, Goes(r, pc)
        PROVE  PointsInv'
    <3>1. /\ runner'[r].pc = pc /\ runner'[r].job = j
          /\ \A q \in Runners : q # r => runner'[q] = runner[q]
      BY <1>1, <2>7, GoesFacts
    <3>2. Watched(r)'
      BY <1>1, <2>1, <2>7, <3>1 DEF Watched, jimeng, ledger
    <3>3. QED
      BY <2>1, <2>4, <3>1, <3>2, PointsStay
  <2>8. QED
    BY <2>5, <2>6, <2>7
<1>8. CASE WaitAgain(r, o)
  <2>1. runner[r].pc = "unstarted" /\ UNCHANGED <<client, row, record, finisher, jimeng,
                                                  ledger, repriced, overwritten>>
    BY <1>8 DEF WaitAgain, Move, At, redis
  <2>2. j \in Jobs /\ Placed(r)
    BY <2>1, BusyRunner
  <2>3. stage' = stage \/ stage' = [stage EXCEPT ![j] = "waiting"]
    BY <1>8 DEF WaitAgain, Move, SetStage
  <2>4. \A i \in Jobs :
          \/ stage'[i] = stage[i]
          \/ /\ stage'[i] # "none" /\ (stage[i] \in Leaving => stage'[i] \in Leaving)
             /\ stage'[i] = "completed" => charges[i] = 1 \/ repriced
    BY <1>1, <1>2, <2>1, <2>2, <2>3 DEF Leaving, Placed, Watched, OfWaiting, OfSubmitting,
                                        OfRefund, OfSettling, OfGeneration
  <2>5. Stops(r) \/ \E pc \in {"reopen"} : Goes(r, pc)
    BY <1>8, ThenGoesOrStops DEF WaitAgain, Move
  <2>6. CASE Stops(r)
    BY <1>1, <2>1, <2>4, <2>6, StopsFacts, StopsIsWatched, PointsStay
  <2>7. ASSUME NEW pc \in {"reopen"}, Goes(r, pc)
        PROVE  PointsInv'
    <3>1. /\ runner'[r].pc = pc /\ runner'[r].job = j
          /\ \A q \in Runners : q # r => runner'[q] = runner[q]
      BY <1>1, <2>7, GoesFacts
    <3>2. Watched(r)'
      BY <1>1, <2>1, <2>7, <3>1 DEF Watched, jimeng, ledger
    <3>3. QED
      BY <2>1, <2>4, <3>1, <3>2, PointsStay
  <2>8. QED
    BY <2>5, <2>6, <2>7
<1>9. CASE EndFailed(r, o)
  <2>1. runner[r].pc = "end_failed" /\ UNCHANGED <<client, row, record, finisher, jimeng,
                                                   ledger, repriced, overwritten>>
    BY <1>9 DEF EndFailed, Move, At, redis
  <2>2. j \in Jobs /\ Placed(r)
    BY <2>1, BusyRunner
  <2>3. stage' = stage \/ stage' = [stage EXCEPT ![j] = "failed"]
    BY <1>9 DEF EndFailed, Move, SetStage
  <2>4. \A i \in Jobs :
          \/ stage'[i] = stage[i]
          \/ /\ stage'[i] # "none" /\ (stage[i] \in Leaving => stage'[i] \in Leaving)
             /\ stage'[i] = "completed" => charges[i] = 1 \/ repriced
    BY <1>1, <1>2, <2>1, <2>2, <2>3 DEF Leaving, Placed, Watched, OfWaiting, OfSubmitting,
                                        OfRefund, OfSettling, OfGeneration
  <2>5. Stops(r)
    BY <1>9, ThenGoesOrStops DEF EndFailed, Move
  <2>6. CASE Stops(r)
    BY <1>1, <2>1, <2>4, <2>6, StopsFacts, StopsIsWatched, PointsStay
  <2>7. QED
    BY <2>5, <2>6
<1>10. CASE EndCompleted(r, o)
  <2>1. runner[r].pc = "end_completed" /\ UNCHANGED <<client, row, record, finisher, jimeng,
                                                      ledger, repriced, overwritten>>
    BY <1>10 DEF EndCompleted, Move, At, redis
  <2>2. j \in Jobs /\ Placed(r)
    BY <2>1, BusyRunner
  <2>3. stage' = stage \/ stage' = [stage EXCEPT ![j] = "completed"]
    BY <1>10 DEF EndCompleted, Move, SetStage
  <2>4. \A i \in Jobs :
          \/ stage'[i] = stage[i]
          \/ /\ stage'[i] # "none" /\ (stage[i] \in Leaving => stage'[i] \in Leaving)
             /\ stage'[i] = "completed" => charges[i] = 1 \/ repriced
    BY <1>1, <1>2, <2>1, <2>2, <2>3 DEF Leaving, Placed, Watched, OfWaiting, OfSubmitting,
                                        OfRefund, OfSettling, OfGeneration
  <2>5. Stops(r)
    BY <1>10, ThenGoesOrStops DEF EndCompleted, Move
  <2>6. CASE Stops(r)
    BY <1>1, <2>1, <2>4, <2>6, StopsFacts, StopsIsWatched, PointsStay
  <2>7. QED
    BY <2>5, <2>6
<1>11. CASE FailedAtJimeng(r, o)
  <2>1. runner[r].pc = "refund" /\ UNCHANGED <<client, row, record, finisher, jimeng,
                                               ledger, repriced, overwritten>>
    BY <1>11 DEF FailedAtJimeng, Move, At, redis
  <2>2. j \in Jobs /\ Placed(r)
    BY <2>1, BusyRunner
  <2>3. stage' = stage \/ stage' = [stage EXCEPT ![j] = "refund_pending"]
    BY <1>11 DEF FailedAtJimeng, Move, SetStage
  <2>4. \A i \in Jobs :
          \/ stage'[i] = stage[i]
          \/ /\ stage'[i] # "none" /\ (stage[i] \in Leaving => stage'[i] \in Leaving)
             /\ stage'[i] = "completed" => charges[i] = 1 \/ repriced
    BY <1>1, <1>2, <2>1, <2>2, <2>3 DEF Leaving, Placed, Watched, OfWaiting, OfSubmitting,
                                        OfRefund, OfSettling, OfGeneration
  <2>5. Stops(r)
    BY <1>11, ThenGoesOrStops DEF FailedAtJimeng, Move
  <2>6. CASE Stops(r)
    BY <1>1, <2>1, <2>4, <2>6, StopsFacts, StopsIsWatched, PointsStay
  <2>7. QED
    BY <2>5, <2>6
<1>12. CASE StillAtJimeng(r, o)
  <2>1. runner[r].pc = "wait" /\ UNCHANGED <<client, row, record, finisher, jimeng, ledger,
                                             repriced, overwritten>>
    BY <1>12 DEF StillAtJimeng, Move, At, redis
  <2>2. j \in Jobs /\ Placed(r)
    BY <2>1, BusyRunner
  <2>3. stage' = stage \/ stage' = [stage EXCEPT ![j] = "submitted"]
    BY <1>12 DEF StillAtJimeng, Move, SetStage
  <2>4. \A i \in Jobs :
          \/ stage'[i] = stage[i]
          \/ /\ stage'[i] # "none" /\ (stage[i] \in Leaving => stage'[i] \in Leaving)
             /\ stage'[i] = "completed" => charges[i] = 1 \/ repriced
    BY <1>1, <1>2, <2>1, <2>2, <2>3 DEF Leaving, Placed, Watched, OfWaiting, OfSubmitting,
                                        OfRefund, OfSettling, OfGeneration
  <2>5. Stops(r)
    BY <1>12, ThenGoesOrStops DEF StillAtJimeng, Move
  <2>6. CASE Stops(r)
    BY <1>1, <2>1, <2>4, <2>6, StopsFacts, StopsIsWatched, PointsStay
  <2>7. QED
    BY <2>5, <2>6
<1>13. CASE FinishedAtJimeng(r, o)
  <2>1. runner[r].pc = "keep" /\ UNCHANGED <<client, row, record, finisher, jimeng, ledger,
                                             repriced, overwritten>>
    BY <1>13 DEF FinishedAtJimeng, Move, At, redis
  <2>2. j \in Jobs /\ Placed(r)
    BY <2>1, BusyRunner
  <2>3. stage' = stage \/ stage' = [stage EXCEPT ![j] = "persisting"]
    BY <1>13 DEF FinishedAtJimeng, Move, SetStage
  <2>4. \A i \in Jobs :
          \/ stage'[i] = stage[i]
          \/ /\ stage'[i] # "none" /\ (stage[i] \in Leaving => stage'[i] \in Leaving)
             /\ stage'[i] = "completed" => charges[i] = 1 \/ repriced
    BY <1>1, <1>2, <2>1, <2>2, <2>3 DEF Leaving, Placed, Watched, OfWaiting, OfSubmitting,
                                        OfRefund, OfSettling, OfGeneration
  <2>5. Stops(r) \/ \E pc \in {"persist"} : Goes(r, pc)
    BY <1>13, ThenGoesOrStops DEF FinishedAtJimeng, Move
  <2>6. CASE Stops(r)
    BY <1>1, <2>1, <2>4, <2>6, StopsFacts, StopsIsWatched, PointsStay
  <2>7. ASSUME NEW pc \in {"persist"}, Goes(r, pc)
        PROVE  PointsInv'
    <3>1. /\ runner'[r].pc = pc /\ runner'[r].job = j
          /\ \A q \in Runners : q # r => runner'[q] = runner[q]
      BY <1>1, <2>7, GoesFacts
    <3>2. Watched(r)'
      BY <1>1, <2>1, <2>7, <3>1 DEF Watched, jimeng, ledger
    <3>3. QED
      BY <2>1, <2>4, <3>1, <3>2, PointsStay
  <2>8. QED
    BY <2>5, <2>6, <2>7
<1>14. CASE PersistResult(r, o)
  <2>1. runner[r].pc = "persist" /\ UNCHANGED <<client, row, record, finisher, jimeng,
                                                ledger, repriced, overwritten>>
    BY <1>14 DEF PersistResult, Move, At, redis
  <2>2. j \in Jobs /\ Placed(r)
    BY <2>1, BusyRunner
  <2>3. stage' = stage \/ stage' = [stage EXCEPT ![j] = "settling"]
    BY <1>14 DEF PersistResult, Move, SetStage
  <2>4. \A i \in Jobs :
          \/ stage'[i] = stage[i]
          \/ /\ stage'[i] # "none" /\ (stage[i] \in Leaving => stage'[i] \in Leaving)
             /\ stage'[i] = "completed" => charges[i] = 1 \/ repriced
    BY <1>1, <1>2, <2>1, <2>2, <2>3 DEF Leaving, Placed, Watched, OfWaiting, OfSubmitting,
                                        OfRefund, OfSettling, OfGeneration
  <2>5. Stops(r)
    BY <1>14, ThenGoesOrStops DEF PersistResult, Move
  <2>6. CASE Stops(r)
    BY <1>1, <2>1, <2>4, <2>6, StopsFacts, StopsIsWatched, PointsStay
  <2>7. QED
    BY <2>5, <2>6
<1>15. QED
  BY <1>3, <1>4, <1>5, <1>6, <1>7, <1>8, <1>9, <1>10, <1>11, <1>12, <1>13, <1>14

\* A runner enters the transition, reads the progress or takes up a job.
LEMMA ControlPoints ==
  ASSUME StageInv, PointsInv, NEW r \in Runners,
         \/ Enter(r) \/ ReadForProgress(r)
         \/ r \in Workers /\ \E j \in Jobs : Dequeue(r, j)
         \/ r = Recovery /\ \E j \in Jobs : Discover(j)
  PROVE  PointsInv'
<1>1. TypeOK
  BY DEF StageInv
<1>2. /\ UNCHANGED <<client, row, record, finisher, jimeng, ledger, repriced, overwritten>>
      /\ stage' = stage
  BY DEF Enter, ReadForProgress, Dequeue, Discover, sql, redis
<1>3. CASE Enter(r)
  <2>1. runner[r].job \in Jobs
    BY <1>3, BusyRunner DEF Enter, At
  <2>2. \/ Stops(r)
        \/ /\ lock = None /\ stage[runner[r].job] \notin Ended \cup {"none"}
           /\ runner'[r].pc = Transition(runner[r].job)
           /\ \A q \in Runners : q # r => runner'[q] = runner[q]
    BY <1>1, <1>3, <2>1, EnterFacts
  <2>3. CASE Stops(r)
    BY <1>1, <1>2, <2>3, StopsFacts, StopsIsWatched, PointsStay
  <2>4. CASE /\ lock = None /\ stage[runner[r].job] \notin Ended \cup {"none"}
             /\ runner'[r].pc = Transition(runner[r].job)
             /\ \A q \in Runners : q # r => runner'[q] = runner[q]
    <3>1. runner'[r].pc \in {"check", "review", "release", "settle", "progress", "withdraw"}
      BY <1>1, <2>1, <2>4, TransitionTo
    <3>2. Watched(r)'
      BY <3>1 DEF Watched
    <3>3. QED
      BY <1>2, <2>4, <3>2, PointsStay
  <2>5. QED
    BY <2>2, <2>3, <2>4
<1>4. CASE ReadForProgress(r)
  <2>1. runner[r].job \in Jobs
    BY <1>4, BusyRunner DEF ReadForProgress
  <2>2. /\ \A q \in Runners : q # r => runner'[q] = runner[q]
        /\ \/ Stops(r)
           \/ /\ runner'[r].pc = "save_progress" /\ runner'[r].job = runner[r].job
              /\ runner'[r].seen = record[runner[r].job].status
              /\ record[runner[r].job].status # "none"
           \/ Asks(r)
    BY <1>1, <1>4, <2>1, ReadFacts
  <2>3. Watched(r)'
    <3>1. CASE Stops(r)
      BY <1>1, <3>1, StopsIsWatched
    <3>2. CASE ~ Stops(r)
      BY <1>2, <2>2, <3>2 DEF Asks, Watched
    <3>3. QED
      BY <3>1, <3>2
  <2>4. QED
    BY <1>2, <2>2, <2>3, PointsStay
<1>5. ASSUME NEW j \in Jobs, Dequeue(r, j), r \in Workers
      PROVE  PointsInv'
  <2>1. /\ runner'[r].pc = "claim" /\ \A q \in Runners : q # r => runner'[q] = runner[q]
    BY <1>1, <1>5, DequeueFacts
  <2>2. Watched(r)'
    BY <2>1 DEF Watched
  <2>3. QED
    BY <1>2, <2>1, <2>2, PointsStay
<1>6. ASSUME NEW j \in Jobs, Discover(j), r = Recovery
      PROVE  PointsInv'
  <2>1. /\ runner'[r].pc = "look" /\ runner'[r].job = j /\ runner'[r].seen = stage[j]
        /\ \A q \in Runners : q # r => runner'[q] = runner[q]
    BY <1>1, <1>6, DiscoverFacts
  <2>2. stage[j] = "waiting" => generation[j] = "none"
    BY DEF StageInv, Fits
  <2>3. Watched(r)'
    BY <1>2, <2>1, <2>2 DEF Watched, jimeng
  <2>4. QED
    BY <1>2, <2>1, <2>3, PointsStay
<1>7. QED
  BY <1>3, <1>4, <1>5, <1>6

\* A runner writes the record of its job, which exists, or restores it.
Written(j) ==
  /\ record[j].status \notin {"none", "cancelled"}
  /\ record'[j].status \notin {"none", "cancelled"}
  /\ overwritten' = overwritten

RecordOf(r, j) ==
  \/ record'[j] = record[j] /\ overwritten' = overwritten
  \/ Written(j) /\ (record[j].dispatch = "submitted" => record'[j].dispatch = "submitted")
  \/ Written(j) /\ lock = r /\ generation[j] = "none"
  \/ /\ record[j].status # "cancelled" /\ record'[j].status \notin {"none", "cancelled"}
     /\ row[j] # "cancelled"
     /\ \/ overwritten' = overwritten \cup {j}
        \/ /\ overwritten' = overwritten /\ record[j].status = "none"
           /\ generation[j] = "none" \/ j \in overwritten \/ record'[j].dispatch = "submitted"

LEMMA RecordPoints ==
  ASSUME StageInv, PointsInv, NEW r \in Runners, NEW j \in Jobs, stage[j] # "none",
         UNCHANGED <<client, row, stage, jimeng, ledger, repriced>>,
         \A i \in Jobs : i # j => record'[i] = record[i] /\ finisher'[i] = finisher[i],
         RecordOf(r, j),
         \/ finisher'[j] = finisher[j]
         \/ row[j] = "cancelled" /\ finisher'[j] = "mirror",
         \A q \in Runners : q # r => runner'[q] = runner[q],
         Watched(r)'
  PROVE  PointsInv'
<1>1. Recorded(j) /\ Balanced(j)
  BY DEF PointsInv
<1>2. \A i \in Jobs : i # j => Same(i)
  BY DEF Same, jimeng, ledger, RecordOf, Written
<1>3. Gentle(r)
  <2>1. ASSUME NEW i \in Jobs
        PROVE  /\ record[i].status # "none" => record'[i].status # "none"
               /\ record[i].status = "cancelled" => record'[i].status = "cancelled"
               /\ i \in overwritten => i \in overwritten'
               /\ record[i].dispatch = "submitted" /\ record[i].status \notin {"none", "cancelled"} =>
                    \/ record'[i].dispatch = "submitted" /\ record'[i].status # "cancelled"
                    \/ lock = r \/ i \in overwritten'
    BY <1>1, <2>1 DEF RecordOf, Written
  <2>2. QED
    BY <2>1 DEF Gentle, jimeng, ledger
<1>4. Recorded(j)'
  BY <1>1 DEF Recorded, RecordOf, Written
<1>5. Balanced(j)'
  BY <1>1 DEF Balanced, RecordOf, Written, Kept, jimeng, ledger
<1>6. QED
  BY <1>1, <1>2, <1>3, <1>4, <1>5, PointsStep

LEMMA SavedFacts ==
  ASSUME TypeOK, NEW j \in Jobs, NEW s, NEW rec, rec = Saved(j, s)
  PROVE  /\ \A i \in Jobs : i # j => rec[i] = record[i]
         /\ record[j].status = "cancelled" => rec = record
         /\ record[j].status # "cancelled" =>
              rec[j].status = s /\ rec[j].dispatch = record[j].dispatch
<1>1. record \in [Jobs -> Records]
  BY DEF TypeOK, Records
<1>2. CASE record[j].status # "cancelled"
  <2>1. rec = [record EXCEPT ![j] = [record[j] EXCEPT !.status = s]]
    BY <1>1, <1>2 DEF Saved
  <2>2. rec[j] = [record[j] EXCEPT !.status = s] /\ \A i \in Jobs : i # j => rec[i] = record[i]
    BY <1>1, <2>1
  <2>3. record[j] \in Records
    BY <1>1
  <2>4. rec[j].status = s /\ rec[j].dispatch = record[j].dispatch
    BY <2>2, <2>3 DEF Records
  <2>5. QED
    BY <1>2, <2>2, <2>4
<1>3. CASE record[j].status = "cancelled"
  BY <1>3 DEF Saved
<1>4. QED
  BY <1>2, <1>3

LEMMA RestoredFacts ==
  ASSUME TypeOK, NEW j \in Jobs, NEW d, NEW rec, rec = Restored(j, d)
  PROVE  /\ \A i \in Jobs : i # j => rec[i] = record[i]
         /\ record[j].status = "cancelled" => rec = record
         /\ record[j].status # "cancelled" => rec[j].status = "processing" /\ rec[j].dispatch = d
BY DEF TypeOK, Restored

\* What a runner does at pc to the record of its job.
LEMMA SavingPoints ==
  ASSUME StageInv, PointsInv, NEW r \in Runners, NEW o \in Outcomes,
         BeginSubmission(r, o) \/ Reopen(r, o) \/ SaveFailed(r, o) \/ CompleteTask(r, o)
           \/ SaveProgress(r, o)
  PROVE  PointsInv'
<1> DEFINE j == runner[r].job
<1>1. TypeOK /\ Watched(r)
  BY DEF StageInv, PointsInv
<1>2. /\ runner[r].pc \in {"begin", "reopen", "save_failed", "complete", "save_progress"}
      /\ UNCHANGED <<client, row, stage, jimeng, ledger, repriced, finisher, overwritten>>
  BY DEF BeginSubmission, Reopen, SaveFailed, CompleteTask, SaveProgress, At, sql
<1>3. /\ j \in Jobs /\ stage[j] # "none" /\ Manned(r) /\ Placed(r)
      /\ runner[r] \in RunnerStates /\ record \in [Jobs -> Records]
  BY <1>1, <1>2, BusyRunner DEF TypeOK, Records
<1>4. CASE BeginSubmission(r, o)
  <2>1. /\ \A i \in Jobs : i # j => record'[i] = record[i]
        /\ \/ record'[j] = record[j]
           \/ /\ record[j].status = "processing" /\ record'[j].status = "processing"
              /\ record'[j].dispatch = "submitted"
        /\ record[j].status = "processing" /\ o = "ok" =>
             record'[j].status = "processing" /\ record'[j].dispatch = "submitted"
    <3>1. CASE record[j].status = "processing" /\ Applied(o)
      <4>1. record' = [record EXCEPT ![j] = [record[j] EXCEPT !.dispatch = "submitted"]]
        BY <1>3, <1>4, <3>1 DEF BeginSubmission
      <4>2. /\ record'[j] = [record[j] EXCEPT !.dispatch = "submitted"]
            /\ \A i \in Jobs : i # j => record'[i] = record[i]
        BY <1>3, <4>1
      <4>3. record[j] \in Records
        BY <1>3
      <4>4. record'[j].status = record[j].status /\ record'[j].dispatch = "submitted"
        BY <4>2, <4>3 DEF Records
      <4>5. QED
        BY <3>1, <4>2, <4>4
    <3>2. CASE ~ (record[j].status = "processing" /\ Applied(o))
      BY <1>4, <3>2 DEF BeginSubmission, Applied
    <3>3. QED
      BY <3>1, <3>2
  <2>2. RecordOf(r, j)
    BY <1>2, <2>1 DEF RecordOf, Written
  <2>3. Stops(r) \/ (Goes(r, "intent") /\ record[j].status = "processing" /\ o = "ok")
    BY <1>4, ThenGoesOrStops DEF BeginSubmission
  <2>4. CASE Stops(r)
    BY <1>1, <1>2, <1>3, <2>1, <2>2, <2>4, StopsFacts, StopsIsWatched, RecordPoints
  <2>5. CASE Goes(r, "intent") /\ record[j].status = "processing" /\ o = "ok"
    <3>1. /\ runner'[r].pc = "intent" /\ runner'[r].job = j
          /\ \A q \in Runners : q # r => runner'[q] = runner[q]
      BY <1>1, <2>5, GoesFacts
    <3>2. Watched(r)'
      BY <2>1, <2>5, <3>1 DEF Watched
    <3>3. QED
      BY <1>2, <1>3, <2>1, <2>2, <3>1, <3>2, RecordPoints
  <2>6. QED
    BY <2>3, <2>4, <2>5
<1>5. CASE Reopen(r, o)
  <2>1. /\ runner[r].pc = "reopen" /\ record[j].status # "none"
        /\ record' = record \/ record' = Restored(j, "preparing")
    BY <1>1, <1>5 DEF Reopen, At, Watched
  <2>2. lock = r /\ generation[j] = "none"
    <3>1. stage[j] = "waiting" /\ Fits(j)
      BY <1>3, <2>1 DEF Placed, OfWaiting, StageInv
    <3>2. QED
      BY <1>3, <2>1, <3>1 DEF Manned, Inside, OfWaiting, Fits
  <2>3. RecordOf(r, j) /\ \A i \in Jobs : i # j => record'[i] = record[i]
    BY <1>1, <1>2, <1>3, <2>1, <2>2, RestoredFacts DEF RecordOf, Written
  <2>4. Stops(r)
    BY <1>5, ThenGoesOrStops DEF Reopen
  <2>5. QED
    BY <1>1, <1>2, <1>3, <2>3, <2>4, StopsFacts, StopsIsWatched, RecordPoints
<1>6. CASE SaveFailed(r, o)
  <2>1. /\ runner[r].pc = "save_failed" /\ record[j].status # "none" /\ held[j] = 0
        /\ record' = record \/ record' = Saved(j, "failed")
    BY <1>1, <1>6 DEF SaveFailed, At, Watched
  <2>2. RecordOf(r, j) /\ \A i \in Jobs : i # j => record'[i] = record[i]
    BY <1>1, <1>2, <1>3, <2>1, SavedFacts DEF RecordOf, Written
  <2>3. Stops(r) \/ Goes(r, "end_failed")
    BY <1>6, ThenGoesOrStops DEF SaveFailed
  <2>4. CASE Stops(r)
    BY <1>1, <1>2, <1>3, <2>2, <2>4, StopsFacts, StopsIsWatched, RecordPoints
  <2>5. CASE Goes(r, "end_failed")
    <3>1. /\ runner'[r].pc = "end_failed" /\ runner'[r].job = j
          /\ \A q \in Runners : q # r => runner'[q] = runner[q]
      BY <1>1, <2>5, GoesFacts
    <3>2. Watched(r)'
      BY <1>2, <2>1, <3>1 DEF Watched, ledger
    <3>3. QED
      BY <1>2, <1>3, <2>2, <3>1, <3>2, RecordPoints
  <2>6. QED
    BY <2>3, <2>4, <2>5
<1>7. CASE CompleteTask(r, o)
  <2>1. /\ runner[r].pc = "complete" /\ (charges[j] = 1 \/ repriced)
        /\ \/ record' = record
           \/ record' = Saved(j, "completed") /\ record[j].status \notin {"none", "cancelled"}
    BY <1>1, <1>7 DEF CompleteTask, At, Watched
  <2>2. RecordOf(r, j) /\ \A i \in Jobs : i # j => record'[i] = record[i]
    BY <1>1, <1>2, <1>3, <2>1, SavedFacts DEF RecordOf, Written
  <2>3. Stops(r) \/ Goes(r, "end_completed")
    BY <1>7, ThenGoesOrStops DEF CompleteTask
  <2>4. CASE Stops(r)
    BY <1>1, <1>2, <1>3, <2>2, <2>4, StopsFacts, StopsIsWatched, RecordPoints
  <2>5. CASE Goes(r, "end_completed")
    <3>1. /\ runner'[r].pc = "end_completed" /\ runner'[r].job = j
          /\ \A q \in Runners : q # r => runner'[q] = runner[q]
      BY <1>1, <2>5, GoesFacts
    <3>2. Watched(r)'
      BY <1>2, <2>1, <3>1 DEF Watched, ledger
    <3>3. QED
      BY <1>2, <1>3, <2>2, <3>1, <3>2, RecordPoints
  <2>6. QED
    BY <2>3, <2>4, <2>5
<1>8. CASE SaveProgress(r, o)
  <2>1. /\ runner[r].pc = "save_progress" /\ record[j].status # "none"
        /\ runner[r].seen # "none"
        /\ runner[r].seen = "cancelled" => record[j].status = "cancelled"
        /\ record' = record \/ record' = Saved(j, runner[r].seen)
    BY <1>1, <1>8 DEF SaveProgress, Watched
  <2>2. RecordOf(r, j) /\ \A i \in Jobs : i # j => record'[i] = record[i]
    <3>1. CASE record' = record \/ record[j].status = "cancelled"
      BY <1>1, <1>2, <1>3, <2>1, <3>1, SavedFacts DEF RecordOf
    <3>2. CASE record' = Saved(j, runner[r].seen) /\ record[j].status # "cancelled"
      <4>1. /\ \A i \in Jobs : i # j => record'[i] = record[i]
            /\ record'[j].status = runner[r].seen
            /\ record'[j].dispatch = record[j].dispatch
        BY <1>1, <1>3, <3>2, SavedFacts
      <4>2. QED
        BY <1>2, <2>1, <3>2, <4>1 DEF RecordOf, Written
    <3>3. QED
      BY <2>1, <3>1, <3>2
  <2>3. (\A q \in Runners : q # r => runner'[q] = runner[q]) /\ (Stops(r) \/ Asks(r))
    BY <1>1, <1>3, <1>8, SaveFacts
  <2>4. Watched(r)'
    BY <1>1, <2>3, StopsIsWatched DEF Asks, Watched
  <2>5. QED
    BY <1>2, <1>3, <2>2, <2>3, <2>4, RecordPoints
<1>9. QED
  BY <1>4, <1>5, <1>6, <1>7, <1>8

\* A runner writes the row of its job.
LEMMA RowPoints ==
  ASSUME StageInv, PointsInv, NEW r \in Runners, NEW j \in Jobs, stage[j] # "none",
         UNCHANGED <<client, stage, record, finisher, jimeng, ledger, repriced,
                     overwritten>>,
         \A i \in Jobs : i # j => row'[i] = row[i],
         \/ row'[j] = row[j]
         \/ row[j] # "cancelled" /\ row'[j] \notin {"cancelled", "failed"}
         \/ row[j] # "cancelled" /\ row'[j] = "failed" /\ held[j] = 0 /\ stage[j] \in Leaving,
         \A q \in Runners : q # r => runner'[q] = runner[q],
         Watched(r)'
  PROVE  PointsInv'
<1>1. Recorded(j) /\ Balanced(j) /\ Submits(j)
  BY DEF PointsInv, StageInv
<1>2. \A i \in Jobs : i # j => Same(i)
  BY DEF Same, jimeng, ledger
<1>3. Gentle(r)
  BY DEF Gentle, jimeng, ledger
<1>4. Recorded(j)'
  BY <1>1 DEF Recorded, Submits
<1>5. Balanced(j)'
  BY <1>1 DEF Balanced, Kept, jimeng, ledger
<1>6. QED
  BY <1>2, <1>3, <1>4, <1>5, PointsStep

\* A runner under the lock settles or releases the points of its job.
LEMMA MoneyPoints ==
  ASSUME StageInv, PointsInv, NEW r \in Runners, NEW j \in Jobs, stage[j] # "none", lock = r,
         UNCHANGED <<client, row, stage, record, finisher, jimeng, repriced, overwritten>>,
         \A i \in Jobs : i # j => held'[i] = held[i] /\ charges'[i] = charges[i],
         \/ held'[j] = held[j] /\ charges'[j] = charges[j]
         \/ held'[j] = 0 /\ charges'[j] = charges[j] /\ stage[j] = "refund_pending"
         \/ /\ held'[j] = 1 /\ charges[j] = 0 /\ charges'[j] = 0 /\ stage[j] = "settling"
         \/ /\ held'[j] = 0 /\ charges[j] = 0 /\ charges'[j] = 1 /\ stage[j] = "settling",
         \A q \in Runners : q # r => runner'[q] = runner[q],
         Watched(r)'
  PROVE  PointsInv'
<1>1. Recorded(j) /\ Balanced(j) /\ Submits(j) /\ Fits(j)
  BY DEF PointsInv, StageInv
<1>2. \A i \in Jobs : i # j => Same(i)
  BY DEF Same, jimeng
<1>3. Gentle(r)
  BY DEF Gentle, jimeng
<1>4. Recorded(j)'
  BY <1>1 DEF Recorded
<1>5. Balanced(j)'
  <2>1. client[j] # "new"
    BY <1>1 DEF Submits
  <2>2. CASE held'[j] = held[j] /\ charges'[j] = charges[j]
    BY <1>1, <2>2 DEF Balanced, Kept, jimeng
  <2>3. CASE held'[j] = 0 /\ charges'[j] = charges[j] /\ stage[j] = "refund_pending"
    BY <1>1, <2>1, <2>3 DEF Balanced, Kept, jimeng, Fits, Leaving
  <2>4. CASE stage[j] = "settling" /\ ((held'[j] = 1 /\ charges'[j] = 0) \/ charges'[j] = 1)
    BY <1>1, <2>1, <2>4 DEF Balanced, Kept, jimeng, Fits, Leaving
  <2>5. QED
    BY <2>2, <2>3, <2>4
<1>6. QED
  BY <1>2, <1>3, <1>4, <1>5, PointsStep

LEMMA ReleasedFacts ==
  ASSUME TypeOK, NEW j \in Jobs, Released(j)
  PROVE  /\ held'[j] = 0 /\ charges'[j] = charges[j]
         /\ \A i \in Jobs : i # j => held'[i] = held[i] /\ charges'[i] = charges[i]
<1>1. held \in [Jobs -> 0..1]
  BY DEF TypeOK
<1>2. CASE held[j] > 0
  BY <1>1, <1>2 DEF Released, Ledger!Release
<1>3. CASE ~ (held[j] > 0)
  <2>1. held[j] = 0
    BY <1>1, <1>3
  <2>2. QED
    BY <1>3, <2>1 DEF Released, ledger
<1>4. QED
  BY <1>2, <1>3

\* The steps of the transition that write the row or the ledger.
LEMMA AccountPoints ==
  ASSUME StageInv, PointsInv, NEW r \in Runners, NEW o \in Outcomes,
         MirrorFailure(r, o) \/ MirrorCompletion(r, o) \/ ReleaseCredits(r, o)
           \/ SettleCredits(r, o)
  PROVE  PointsInv'
<1>0. PICK j : j = runner[r].job
  OBVIOUS
<1>1. TypeOK /\ Watched(r)
  BY DEF StageInv, PointsInv
<1>2. /\ runner[r].pc \in {"fail_row", "complete_row", "release", "settle"}
      /\ UNCHANGED <<client, stage, record, finisher, jimeng, repriced, overwritten>>
  BY DEF MirrorFailure, MirrorCompletion, ReleaseCredits, SettleCredits, At, sql, redis
<1>3. /\ j \in Jobs /\ stage[j] # "none" /\ Manned(r) /\ Placed(r)
      /\ row \in [Jobs -> {"none", "pending", "processing", "completed", "failed",
                           "cancelled"}]
      /\ held \in [Jobs -> 0..1] /\ charges \in [Jobs -> Nat] /\ Balanced(j)
  BY <1>0, <1>1, <1>2, BusyRunner DEF TypeOK, PointsInv
<1>4. lock = r
  BY <1>2, <1>3 DEF Manned, Inside, OfRefund, OfSettling
<1>5. CASE MirrorFailure(r, o)
  <2>1. runner[r].pc = "fail_row" /\ held[j] = 0 /\ stage[j] = "refund_pending"
    BY <1>0, <1>1, <1>3, <1>5 DEF MirrorFailure, At, Watched, Placed, OfRefund
  <2>2. /\ UNCHANGED ledger
        /\ row' = row \/ (row' = [row EXCEPT ![j] = "failed"] /\ row[j] # "cancelled")
    <3>1. UNCHANGED ledger /\ (row' = row \/ row' = Mirrored(j, "failed"))
      BY <1>0, <1>5 DEF MirrorFailure
    <3>2. QED
      BY <3>1 DEF Mirrored
  <2>3. /\ \A i \in Jobs : i # j => row'[i] = row[i]
        /\ \/ row'[j] = row[j]
           \/ row[j] # "cancelled" /\ row'[j] = "failed" /\ held[j] = 0 /\ stage[j] \in Leaving
    BY <1>3, <2>1, <2>2 DEF Leaving
  <2>4. Stops(r) \/ Goes(r, "fail")
    BY <1>5, ThenGoesOrStops DEF MirrorFailure
  <2>5. CASE Stops(r)
    BY <1>1, <1>2, <1>3, <2>2, <2>3, <2>5, StopsFacts, StopsIsWatched, RowPoints
  <2>6. CASE Goes(r, "fail")
    <3>1. /\ runner'[r].pc = "fail" /\ runner'[r].job = j
          /\ \A q \in Runners : q # r => runner'[q] = runner[q]
      BY <1>0, <1>1, <2>6, GoesFacts
    <3>2. Watched(r)'
      BY <2>1, <2>2, <3>1 DEF Watched, ledger
    <3>3. QED
      BY <1>2, <1>3, <2>2, <2>3, <3>1, <3>2, RowPoints
  <2>7. QED
    BY <2>4, <2>5, <2>6
<1>6. CASE MirrorCompletion(r, o)
  <2>1. runner[r].pc = "complete_row" /\ (charges[j] = 1 \/ repriced)
    BY <1>0, <1>1, <1>6 DEF MirrorCompletion, At, Watched
  <2>2. /\ UNCHANGED ledger
        /\ row' = row \/ (row' = [row EXCEPT ![j] = "completed"] /\ row[j] # "cancelled")
    <3>1. UNCHANGED ledger /\ (row' = row \/ row' = Mirrored(j, "completed"))
      BY <1>0, <1>6 DEF MirrorCompletion
    <3>2. QED
      BY <3>1 DEF Mirrored
  <2>3. /\ \A i \in Jobs : i # j => row'[i] = row[i]
        /\ \/ row'[j] = row[j]
           \/ row[j] # "cancelled" /\ row'[j] \notin {"cancelled", "failed"}
    BY <1>3, <2>1, <2>2
  <2>4. Stops(r) \/ Goes(r, "complete")
    BY <1>6, ThenGoesOrStops DEF MirrorCompletion
  <2>5. CASE Stops(r)
    BY <1>1, <1>2, <1>3, <2>2, <2>3, <2>5, StopsFacts, StopsIsWatched, RowPoints
  <2>6. CASE Goes(r, "complete")
    <3>1. /\ runner'[r].pc = "complete" /\ runner'[r].job = j
          /\ \A q \in Runners : q # r => runner'[q] = runner[q]
      BY <1>0, <1>1, <2>6, GoesFacts
    <3>2. Watched(r)'
      BY <1>2, <2>1, <2>2, <3>1 DEF Watched, ledger
    <3>3. QED
      BY <1>2, <1>3, <2>2, <2>3, <3>1, <3>2, RowPoints
  <2>7. QED
    BY <2>4, <2>5, <2>6
<1>7. CASE ReleaseCredits(r, o)
  <2>1. runner[r].pc = "release" /\ stage[j] = "refund_pending"
    BY <1>0, <1>3, <1>7 DEF ReleaseCredits, At, Placed, OfRefund
  <2>2. /\ row' = row /\ (Released(j) \/ UNCHANGED ledger) /\ (o = "ok" => Released(j))
    BY <1>0, <1>7 DEF ReleaseCredits, sql, Applied
  <2>3. /\ \A i \in Jobs : i # j => held'[i] = held[i] /\ charges'[i] = charges[i]
        /\ \/ held'[j] = held[j] /\ charges'[j] = charges[j]
           \/ held'[j] = 0 /\ charges'[j] = charges[j]
        /\ o = "ok" => held'[j] = 0
    BY <1>1, <1>3, <2>2, ReleasedFacts DEF ledger
  <2>4. Stops(r) \/ (o = "ok" /\ Goes(r, "fail_row"))
    BY <1>7, ThenGoesOrStops DEF ReleaseCredits
  <2>5. CASE Stops(r)
    BY <1>1, <1>2, <1>3, <1>4, <2>1, <2>2, <2>3, <2>5, StopsFacts, StopsIsWatched,
       MoneyPoints
  <2>6. CASE o = "ok" /\ Goes(r, "fail_row")
    <3>1. /\ runner'[r].pc = "fail_row" /\ runner'[r].job = j
          /\ \A q \in Runners : q # r => runner'[q] = runner[q]
      BY <1>0, <1>1, <2>6, GoesFacts
    <3>2. Watched(r)'
      BY <2>3, <2>6, <3>1 DEF Watched
    <3>3. QED
      BY <1>2, <1>3, <1>4, <2>1, <2>2, <2>3, <3>1, <3>2, MoneyPoints
  <2>7. QED
    BY <2>4, <2>5, <2>6
<1>8. CASE SettleCredits(r, o)
  <2>1. runner[r].pc = "settle" /\ stage[j] = "settling" /\ row' = row
    BY <1>0, <1>3, <1>8 DEF SettleCredits, At, Placed, OfSettling, sql
  <2>2. /\ \/ UNCHANGED ledger
           \/ charges[j] = 0 /\ held[j] = 0 /\ Ledger!Freeze(j, 1)
           \/ charges[j] = 0 /\ Ledger!Confirm(j, 1)
        /\ Stops(r) \/ Goes(r, "settle") \/ Goes(r, "complete_row")
        /\ Stops(r) \/ Goes(r, "settle") \/ repriced \/ charges[j] > 0
             \/ (charges[j] = 0 /\ Ledger!Confirm(j, 1))
    BY <1>0, <1>3, <1>8, ControlIs DEF SettleCredits, Applied
  <2>3. /\ \A i \in Jobs : i # j => held'[i] = held[i] /\ charges'[i] = charges[i]
        /\ \/ held'[j] = held[j] /\ charges'[j] = charges[j]
           \/ held'[j] = 1 /\ charges[j] = 0 /\ charges'[j] = 0
           \/ held'[j] = 0 /\ charges[j] = 0 /\ charges'[j] = 1
        /\ charges[j] > 0 => charges'[j] = charges[j]
        /\ Ledger!Confirm(j, 1) /\ charges[j] = 0 => charges'[j] = 1
    BY <1>3, <2>2 DEF ledger, Ledger!Freeze, Ledger!Confirm
  <2>4. charges[j] <= 1
    BY <1>3 DEF Balanced
  <2>5. (\A q \in Runners : q # r => runner'[q] = runner[q]) /\ Watched(r)'
    <3>1. CASE Stops(r)
      BY <1>1, <3>1, StopsFacts, StopsIsWatched
    <3>2. CASE Goes(r, "settle")
      <4>1. runner'[r].pc = "settle" /\ \A q \in Runners : q # r => runner'[q] = runner[q]
        BY <1>1, <3>2, GoesFacts
      <4>2. QED
        BY <4>1 DEF Watched
    <3>3. CASE Goes(r, "complete_row") /\ ~ Stops(r)
      <4>1. /\ runner'[r].pc = "complete_row" /\ runner'[r].job = j
            /\ \A q \in Runners : q # r => runner'[q] = runner[q]
        BY <1>0, <1>1, <3>3, GoesFacts
      <4>2. repriced \/ charges'[j] = 1
        <5>1. CASE Goes(r, "settle")
          <6>1. runner'[r].pc = "settle"
            BY <1>1, <5>1, GoesFacts
          <6>2. QED
            BY <4>1, <6>1
        <5>2. CASE ~ Goes(r, "settle")
          BY <1>3, <2>2, <2>3, <2>4, <3>3, <5>2
        <5>3. QED
          BY <5>1, <5>2
      <4>3. QED
        BY <1>2, <4>1, <4>2 DEF Watched
    <3>4. QED
      BY <2>2, <3>1, <3>2, <3>3
  <2>6. QED
    BY <1>2, <1>3, <1>4, <2>1, <2>3, <2>5, MoneyPoints
<1>9. QED
  BY <1>5, <1>6, <1>7, <1>8

\* The paid command finds the points reserved and the record beyond cancellation.
LEMMA SubmitPoints ==
  ASSUME StageInv, PointsInv, NEW r \in Runners, SubmitPaid(r)
  PROVE  PointsInv'
<1>0. PICK j : j = runner[r].job
  OBVIOUS
<1>1. TypeOK /\ Watched(r)
  BY DEF StageInv, PointsInv
<1>2. /\ runner[r].pc = "submit"
      /\ UNCHANGED <<client, row, stage, record, finisher, ledger, repriced, overwritten>>
  BY DEF SubmitPaid, At, sql, redis
<1>3. /\ j \in Jobs /\ Placed(r) /\ Recorded(j) /\ Balanced(j) /\ Fits(j) /\ Submits(j)
      /\ generation \in [Jobs -> {"none", "working", "success", "fail"}]
  BY <1>0, <1>1, <1>2, BusyRunner DEF TypeOK, PointsInv, StageInv
<1>4. /\ stage[j] = "submitting" /\ generation[j] = "none" /\ record[j].status # "none"
      /\ j \notin overwritten =>
           record[j].dispatch = "submitted" /\ record[j].status # "cancelled"
  BY <1>0, <1>1, <1>2, <1>3 DEF Placed, Watched, OfSubmitting
<1>5. /\ \/ generation' = generation
         \/ generation' = [generation EXCEPT ![j] = "working"]
      /\ \E pc \in {"answer", "review", "unstarted"} : Goes(r, pc)
  BY <1>0, ControlIs DEF SubmitPaid, jimeng
<1>6. /\ \A i \in Jobs : i # j => generation'[i] = generation[i]
      /\ generation'[j] \in {"none", "working"}
  BY <1>3, <1>4, <1>5
<1>7. PICK pc \in {"answer", "review", "unstarted"} : Goes(r, pc)
  BY <1>5
<1>8. /\ runner'[r].pc = pc /\ runner'[r].job = j
      /\ \A q \in Runners : q # r => runner'[q] = runner[q]
  BY <1>0, <1>1, <1>7, GoesFacts
<1>9. Watched(r)'
  BY <1>2, <1>4, <1>7, <1>8 DEF Watched
<1>10. \A i \in Jobs : i # j => Same(i)
  BY <1>2, <1>6 DEF Same, ledger
<1>11. Gentle(r)
  BY <1>2, <1>4, <1>6 DEF Gentle, ledger
<1>12. Recorded(j)'
  BY <1>2, <1>3 DEF Recorded
<1>13. Balanced(j)'
  <2>1. charges[j] = 0
    <3>1. charges[j] \in Nat
      BY <1>1, <1>3 DEF TypeOK
    <3>2. QED
      BY <1>3, <1>4, <3>1 DEF Balanced
  <2>2. j \notin overwritten => row[j] # "cancelled"
    BY <1>3, <1>4 DEF Recorded
  <2>3. client[j] # "new"
    BY <1>3, <1>4 DEF Submits
  <2>4. QED
    BY <1>2, <1>3, <1>4, <1>6, <2>1, <2>2, <2>3 DEF Balanced, Kept, ledger, Leaving
<1>14. QED
  BY <1>3, <1>8, <1>9, <1>10, <1>11, <1>12, <1>13, PointsStep

LEMMA TransitionPoints ==
  ASSUME StageInv, PointsInv, NEW r \in Runners, TransitionStep(r)
  PROVE  PointsInv'
BY ControlPoints, QuietPoints, MovePoints, SavingPoints, AccountPoints, SubmitPoints
   DEF TransitionStep, Outcomes

\* The steps before the transition.
LEMMA BeforePoints ==
  ASSUME StageInv, PointsInv, NEW r \in Runners, NEW o \in Outcomes,
         EndAgain(r) \/ ClaimForPreparation(r, o) \/ MarkProcessing(r, o)
           \/ (r = Recovery /\ RebuildRecord(o))
  PROVE  PointsInv'
<1>0. PICK j : j = runner[r].job
  OBVIOUS
<1>1. TypeOK /\ Watched(r)
  BY DEF StageInv, PointsInv
<1>2. /\ runner[r].pc \in {"claim", "row", "rebuild"}
      /\ UNCHANGED <<client, stage, jimeng, ledger, repriced>>
  BY DEF EndAgain, ClaimForPreparation, MarkProcessing, RebuildRecord, At, sql
<1>3. /\ j \in Jobs /\ stage[j] # "none" /\ Recorded(j) /\ Balanced(j)
      /\ record \in [Jobs -> Records]
      /\ row \in [Jobs -> {"none", "pending", "processing", "completed", "failed",
                           "cancelled"}]
  BY <1>0, <1>1, <1>2, BusyRunner DEF TypeOK, Records, PointsInv
<1>4. (\A q \in Runners : q # r => runner'[q] = runner[q]) /\ Watched(r)'
  <2>1. Stops(r) \/ \E pc \in {"row", "enter"} : Goes(r, pc)
    BY ControlIs, ThenGoesOrStops
       DEF EndAgain, ClaimForPreparation, MarkProcessing, RebuildRecord
  <2>2. CASE Stops(r)
    BY <1>1, <2>2, StopsFacts, StopsIsWatched
  <2>3. ASSUME NEW pc \in {"row", "enter"}, Goes(r, pc)
        PROVE  (\A q \in Runners : q # r => runner'[q] = runner[q]) /\ Watched(r)'
    <3>1. runner'[r].pc = pc /\ \A q \in Runners : q # r => runner'[q] = runner[q]
      BY <1>1, <2>3, GoesFacts
    <3>2. QED
      BY <3>1 DEF Watched
  <2>4. QED
    BY <2>1, <2>2, <2>3
<1>5. CASE EndAgain(r)
  <2>1. UNCHANGED <<row, overwritten>>
    BY <1>5 DEF EndAgain, sql
  <2>2. /\ record' = record
           \/ (record' = Saved(j, row[j]) /\ row[j] \in {"completed", "failed"}
               /\ record[j].status # "none")
        /\ finisher' = finisher
           \/ (row[j] = "cancelled" /\ finisher' = [finisher EXCEPT ![j] = "mirror"])
    BY <1>0, <1>5 DEF EndAgain
  <2>3. /\ \A i \in Jobs : i # j => finisher'[i] = finisher[i]
        /\ finisher'[j] = finisher[j] \/ (row[j] = "cancelled" /\ finisher'[j] = "mirror")
    BY <1>1, <1>3, <2>2 DEF TypeOK
  <2>4. RecordOf(r, j) /\ \A i \in Jobs : i # j => record'[i] = record[i]
    <3>1. CASE record' = record \/ record[j].status = "cancelled"
      BY <1>1, <1>3, <2>1, <2>2, <3>1, SavedFacts DEF RecordOf
    <3>2. CASE /\ record[j].status \notin {"none", "cancelled"}
               /\ record' = Saved(j, row[j]) /\ row[j] \in {"completed", "failed"}
      <4>1. /\ \A i \in Jobs : i # j => record'[i] = record[i]
            /\ record'[j].status = row[j] /\ record'[j].dispatch = record[j].dispatch
        BY <1>1, <1>3, <3>2, SavedFacts
      <4>2. QED
        BY <2>1, <3>2, <4>1 DEF RecordOf, Written
    <3>3. QED
      BY <2>2, <3>1, <3>2
  <2>5. QED
    BY <1>2, <1>3, <1>4, <2>1, <2>3, <2>4, RecordPoints
<1>6. CASE ClaimForPreparation(r, o)
  <2>1. UNCHANGED <<row, finisher, overwritten>>
    BY <1>6 DEF ClaimForPreparation, sql
  <2>2. RecordOf(r, j) /\ \A i \in Jobs : i # j => record'[i] = record[i]
    <3>1. CASE record[j].status = "queued" /\ Applied(o)
      <4>1. /\ \A i \in Jobs : i # j => record'[i] = record[i]
            /\ record'[j].status = "processing"
            /\ record[j].dispatch = "submitted" => record'[j].dispatch = "submitted"
        BY <1>0, <1>3, <1>6, <3>1 DEF ClaimForPreparation, Records
      <4>2. QED
        BY <2>1, <3>1, <4>1 DEF RecordOf, Written
    <3>2. CASE ~ (record[j].status = "queued" /\ Applied(o))
      BY <1>0, <1>6, <2>1, <3>2 DEF ClaimForPreparation, RecordOf
    <3>3. QED
      BY <3>1, <3>2
  <2>3. QED
    BY <1>2, <1>3, <1>4, <2>1, <2>2, RecordPoints
<1>7. CASE MarkProcessing(r, o)
  <2>1. /\ UNCHANGED <<record, finisher, overwritten>> /\ row[j] \in {"pending",
                       "processing"}
        /\ row' = row \/ row' = [row EXCEPT ![j] = "processing"]
    BY <1>0, <1>7 DEF MarkProcessing, redis
  <2>2. /\ \A i \in Jobs : i # j => row'[i] = row[i]
        /\ row'[j] = row[j] \/ (row[j] # "cancelled" /\ row'[j] \notin {"cancelled", "failed"})
    BY <1>3, <2>1
  <2>3. QED
    BY <1>2, <1>3, <1>4, <2>1, <2>2, RowPoints
<1>8. CASE r = Recovery /\ RebuildRecord(o)
  <2>1. /\ runner[r].pc = "rebuild" /\ UNCHANGED <<row, finisher>>
        /\ \/ record' = record
           \/ row[j] # "cancelled" /\ record' = Restored(j, DispatchOf(runner[r].seen))
        /\ overwritten' = IF record' # record /\ record[j].status # "none"
                          THEN overwritten \cup {j} ELSE overwritten
    BY <1>0, <1>8 DEF RebuildRecord, At, sql
  <2>2. RecordOf(r, j) /\ \A i \in Jobs : i # j => record'[i] = record[i]
    <3>1. CASE record' = record
      BY <2>1, <3>1 DEF RecordOf
    <3>2. CASE record' # record
      <4>1. row[j] # "cancelled" /\ record' = Restored(j, DispatchOf(runner[r].seen))
        BY <2>1, <3>2
      <4>2. /\ \A i \in Jobs : i # j => record'[i] = record[i]
            /\ record[j].status # "cancelled" /\ record'[j].status = "processing"
            /\ record'[j].dispatch = DispatchOf(runner[r].seen)
        BY <1>1, <1>3, <3>2, <4>1, RestoredFacts
      <4>3. CASE record[j].status # "none"
        BY <2>1, <3>2, <4>1, <4>2, <4>3 DEF RecordOf
      <4>4. CASE record[j].status = "none"
        <5>1. generation[j] = "none" \/ j \in overwritten \/ record'[j].dispatch = "submitted"
          BY <1>0, <1>1, <2>1, <4>2, <4>4 DEF Watched, DispatchOf
        <5>2. QED
          BY <2>1, <4>1, <4>2, <4>4, <5>1 DEF RecordOf
      <4>5. QED
        BY <4>3, <4>4
    <3>3. QED
      BY <3>1, <3>2
  <2>3. QED
    BY <1>2, <1>3, <1>4, <2>1, <2>2, RecordPoints
<1>9. QED
  BY <1>5, <1>6, <1>7, <1>8

LEMMA SubmissionPoints ==
  ASSUME StageInv, PointsInv, NEW j \in Jobs, ReserveCredits(j) \/ ClientStep(j)
  PROVE  PointsInv'
<1>1. /\ TypeOK /\ Submits(j) /\ Fits(j) /\ Recorded(j) /\ Balanced(j)
      /\ client[j] \in {"new", "lock", "row", "ensure", "save", "push", "abandon",
                        "rollback", "accepted", "rejected", "failed"}
      /\ DOMAIN client = Jobs /\ DOMAIN row = Jobs /\ DOMAIN stage = Jobs
      /\ held \in [Jobs -> 0..1]
  BY DEF StageInv, PointsInv, TypeOK
<1>2. runner' = runner /\ UNCHANGED <<finisher, jimeng, repriced, overwritten>>
  BY DEF ReserveCredits, ClientStep, LockForEnqueue, CreateTask, EnsureJob, SaveNewTask,
         PushTask, Abandon, RollBackSubmission, ClientUnchanged
<1>3. CASE ReserveCredits(j)
  <2>1. /\ client[j] = "new" /\ client'[j] = "lock" /\ UNCHANGED <<row, stage, record>>
        /\ held'[j] = 1 /\ charges' = charges
        /\ \A i \in Jobs : i # j => client'[i] = client[i] /\ held'[i] = held[i]
    BY <1>1, <1>3 DEF ReserveCredits, sql, Ledger!Freeze
  <2>2. (\A i \in Jobs : i # j => Same(i)) /\ Gentle(j)
    BY <1>1, <1>2, <2>1 DEF Same, Gentle, jimeng, Submits
  <2>3. Recorded(j)' /\ Balanced(j)'
    BY <1>1, <1>2, <2>1 DEF Recorded, Balanced, Kept, jimeng
  <2>4. QED
    BY <1>2, <2>2, <2>3, PointsOfJob
<1>4. CASE LockForEnqueue(j)
  <2>1. /\ client[j] = "lock" /\ client'[j] \in {"row", "rollback"}
        /\ UNCHANGED <<row, stage, record, ledger>>
        /\ \A i \in Jobs : i # j => client'[i] = client[i]
    BY <1>1, <1>4 DEF LockForEnqueue, sql
  <2>2. (\A i \in Jobs : i # j => Same(i)) /\ Gentle(j)
    BY <1>1, <1>2, <2>1 DEF Same, Gentle, jimeng, ledger
  <2>3. Recorded(j)' /\ Balanced(j)'
    BY <1>1, <1>2, <2>1 DEF Recorded, Balanced, Kept, jimeng, ledger
  <2>4. QED
    BY <1>2, <2>2, <2>3, PointsOfJob
<1>5. ASSUME NEW o \in Outcomes, CreateTask(j, o)
      PROVE  PointsInv'
  <2>1. /\ client[j] = "row" /\ UNCHANGED <<stage, record, ledger>>
        /\ row' = row \/ row' = [row EXCEPT ![j] = "pending"]
        /\ Proceed(j, o, "ensure", "rollback")
    BY <1>5 DEF CreateTask
  <2>2. /\ client'[j] \in {"ensure", "rollback"} /\ row'[j] \in {row[j], "pending"}
        /\ \A i \in Jobs : i # j => client'[i] = client[i] /\ row'[i] = row[i]
    BY <1>1, <2>1, ProceedFacts
  <2>3. (\A i \in Jobs : i # j => Same(i)) /\ Gentle(j)
    BY <1>1, <1>2, <2>1, <2>2 DEF Same, Gentle, jimeng, ledger
  <2>4. stage[j] = "none" /\ row[j] = "none"
    BY <1>1, <2>1 DEF Submits, Recorded
  <2>5. Recorded(j)' /\ Balanced(j)'
    BY <1>1, <1>2, <2>1, <2>2, <2>4 DEF Recorded, Balanced, Kept, jimeng, ledger, Leaving
  <2>6. QED
    BY <1>2, <2>3, <2>5, PointsOfJob
<1>6. ASSUME NEW o \in Outcomes, EnsureJob(j, o)
      PROVE  PointsInv'
  <2>1. /\ client[j] = "ensure" /\ UNCHANGED <<row, record, ledger>>
        /\ stage' = stage \/ stage' = [stage EXCEPT ![j] = "waiting"]
        /\ Proceed(j, o, "save", "rollback")
    BY <1>6 DEF EnsureJob, SetStage
  <2>2. /\ client'[j] \in {"save", "rollback"} /\ stage'[j] \in {stage[j], "waiting"}
        /\ \A i \in Jobs : i # j => client'[i] = client[i] /\ stage'[i] = stage[i]
    BY <1>1, <2>1, ProceedFacts
  <2>3. (\A i \in Jobs : i # j => Same(i)) /\ Gentle(j)
    BY <1>1, <1>2, <2>1, <2>2 DEF Same, Gentle, jimeng, ledger
  <2>4. stage[j] = "none"
    BY <1>1, <2>1 DEF Submits
  <2>5. Recorded(j)' /\ Balanced(j)'
    BY <1>1, <1>2, <2>1, <2>2, <2>4 DEF Recorded, Balanced, Kept, jimeng, ledger, Leaving
  <2>6. QED
    BY <1>2, <2>3, <2>5, PointsOfJob
<1>7. ASSUME NEW o \in Outcomes, SaveNewTask(j, o)
      PROVE  PointsInv'
  <2>1. /\ client[j] = "save" /\ UNCHANGED <<row, stage, ledger>>
        /\ record' = record \/ record' = Saved(j, "queued")
        /\ Proceed(j, o, "push", "abandon")
    BY <1>7 DEF SaveNewTask, sql
  <2>2. /\ client'[j] \in {"push", "abandon"}
        /\ \A i \in Jobs : i # j => client'[i] = client[i] /\ record'[i] = record[i]
    BY <1>1, <2>1, ProceedFacts, SavedFacts
  <2>3. /\ record'[j] = record[j]
           \/ (record[j].status # "cancelled" /\ record'[j].status = "queued"
               /\ record'[j].dispatch = record[j].dispatch)
    BY <1>1, <2>1, SavedFacts
  <2>4. (\A i \in Jobs : i # j => Same(i)) /\ Gentle(j)
    BY <1>1, <1>2, <2>1, <2>2, <2>3 DEF Same, Gentle, jimeng, ledger
  <2>5. stage[j] = "waiting" /\ generation[j] = "none"
    BY <1>1, <2>1 DEF Submits, Fits
  <2>6. Recorded(j)' /\ Balanced(j)'
    BY <1>1, <1>2, <2>1, <2>2, <2>3, <2>5 DEF Recorded, Balanced, Kept, jimeng, ledger
  <2>7. QED
    BY <1>2, <2>4, <2>6, PointsOfJob
<1>8. ASSUME NEW o \in Outcomes, PushTask(j, o) \/ Abandon(j, o)
      PROVE  PointsInv'
  <2>1. /\ client[j] \in {"push", "abandon"} /\ UNCHANGED <<row, record, ledger>>
        /\ stage' = stage \/ stage' = [stage EXCEPT ![j] = "refund_pending"]
        /\ Proceed(j, o, "accepted", "abandon") \/ Proceed(j, o, "accepted", "failed")
    BY <1>8 DEF PushTask, Abandon, SetStage, sql
  <2>2. /\ client'[j] \in {"accepted", "abandon", "failed"}
        /\ stage'[j] \in {stage[j], "refund_pending"}
        /\ \A i \in Jobs : i # j => client'[i] = client[i] /\ stage'[i] = stage[i]
    BY <1>1, <2>1, ProceedFacts
  <2>3. (\A i \in Jobs : i # j => Same(i)) /\ Gentle(j)
    BY <1>1, <1>2, <2>1, <2>2 DEF Same, Gentle, jimeng, ledger
  <2>4. stage[j] = "waiting" /\ generation[j] = "none"
    BY <1>1, <2>1 DEF Submits, Fits
  <2>5. Recorded(j)' /\ Balanced(j)'
    BY <1>1, <1>2, <2>1, <2>2, <2>4 DEF Recorded, Balanced, Kept, jimeng, ledger, Leaving
  <2>6. QED
    BY <1>2, <2>3, <2>5, PointsOfJob
<1>9. ASSUME NEW o \in Outcomes, RollBackSubmission(j, o)
      PROVE  PointsInv'
  <2>1. /\ client[j] = "rollback" /\ client'[j] = "rejected"
        /\ UNCHANGED <<row, stage, record>> /\ (Released(j) \/ UNCHANGED ledger)
        /\ \A i \in Jobs : i # j => client'[i] = client[i]
    BY <1>1, <1>9 DEF RollBackSubmission, sql
  <2>2. /\ held'[j] \in {0, held[j]} /\ charges'[j] = charges[j]
        /\ \A i \in Jobs : i # j => held'[i] = held[i] /\ charges'[i] = charges[i]
    BY <1>1, <2>1, ReleasedFacts DEF ledger
  <2>3. (\A i \in Jobs : i # j => Same(i)) /\ Gentle(j)
    <3>1. \A i \in Jobs : i # j => Same(i)
      BY <1>2, <2>1, <2>2 DEF Same, jimeng
    <3>2. \A i \in Jobs : charges'[i] = charges[i] /\ (held[i] = 0 => held'[i] = 0)
      BY <2>2
    <3>3. QED
      BY <1>2, <2>1, <3>1, <3>2 DEF Gentle, jimeng
  <2>4. Recorded(j)' /\ Balanced(j)'
    BY <1>1, <1>2, <2>1, <2>2 DEF Recorded, Balanced, Kept, jimeng
  <2>5. QED
    BY <1>2, <2>3, <2>4, PointsOfJob
<1>10. QED
  BY <1>3, <1>4, <1>5, <1>6, <1>7, <1>8, <1>9 DEF ClientStep

LEMMA CancelPoints ==
  ASSUME StageInv, PointsInv, NEW j \in Jobs, CancelStep(j)
  PROVE  PointsInv'
<1>1. /\ TypeOK /\ Submits(j) /\ Fits(j) /\ Recorded(j) /\ Balanced(j)
      /\ record \in [Jobs -> Records] /\ DOMAIN row = Jobs /\ DOMAIN finisher = Jobs
      /\ held \in [Jobs -> 0..1] /\ charges[j] \in Nat
      /\ generation[j] \in {"none", "working", "success", "fail"}
  BY DEF StageInv, PointsInv, TypeOK, Records
<1>2. runner' = runner /\ UNCHANGED <<client, stage, jimeng, repriced, overwritten>>
  BY DEF CancelStep, RetryRefund, CancelTask, MirrorCancellation, ReleaseCancelled,
         ReportRefund, sql
<1>3. ASSUME NEW o \in Outcomes, CancelTask(j, o)
      PROVE  PointsInv'
  <2>1. /\ Cancellable(j) /\ UNCHANGED <<row, ledger>>
        /\ record' = [record EXCEPT ![j] = [record[j] EXCEPT !.status = "cancelled"]]
        /\ finisher' = [finisher EXCEPT ![j] = IF o = "ok" THEN "mirror" ELSE finisher[j]]
    BY <1>1, <1>3 DEF CancelTask, sql
  <2>2. /\ record'[j] = [record[j] EXCEPT !.status = "cancelled"]
        /\ finisher'[j] \in {"mirror", finisher[j]}
        /\ \A i \in Jobs : i # j => record'[i] = record[i] /\ finisher'[i] = finisher[i]
    BY <1>1, <2>1
  <2>3. record'[j].status = "cancelled"
    BY <1>1, <2>2 DEF Records
  <2>4. record[j].dispatch # "submitted" /\ record[j].status \in {"queued", "processing"}
    BY <2>1 DEF Cancellable
  <2>5. (\A i \in Jobs : i # j => Same(i)) /\ Gentle(j)
    BY <1>1, <1>2, <2>1, <2>2, <2>3, <2>4 DEF Same, Gentle, jimeng, ledger
  <2>6. Recorded(j)' /\ Balanced(j)'
    BY <1>1, <1>2, <2>1, <2>2, <2>3, <2>4 DEF Recorded, Balanced, Kept, jimeng, ledger
  <2>7. QED
    BY <1>2, <2>5, <2>6, PointsOfJob
<1>4. ASSUME NEW o \in Outcomes, RetryRefund(j) \/ ReportRefund(j, o)
      PROVE  PointsInv'
  <2>1. /\ UNCHANGED <<row, record, ledger>>
        /\ \/ finisher' = [finisher EXCEPT ![j] = "idle"]
           \/ finisher[j] = "report" /\ finisher' = finisher
           \/ record[j].status = "cancelled" /\ finisher' = [finisher EXCEPT ![j] = "mirror"]
    BY <1>4 DEF RetryRefund, ReportRefund, Finish, sql, redis
  <2>2. /\ \A i \in Jobs : i # j => finisher'[i] = finisher[i]
        /\ \/ finisher'[j] = "idle" \/ finisher'[j] = finisher[j]
           \/ record[j].status = "cancelled" /\ finisher'[j] = "mirror"
    BY <1>1, <2>1
  <2>3. (\A i \in Jobs : i # j => Same(i)) /\ Gentle(j)
    BY <1>1, <1>2, <2>1, <2>2 DEF Same, Gentle, jimeng, ledger
  <2>4. Recorded(j)' /\ Balanced(j)'
    BY <1>1, <1>2, <2>1, <2>2 DEF Recorded, Balanced, Kept, jimeng, ledger
  <2>5. QED
    BY <1>2, <2>3, <2>4, PointsOfJob
<1>5. ASSUME NEW o \in Outcomes, MirrorCancellation(j, o)
      PROVE  PointsInv'
  <2>1. /\ finisher[j] = "mirror" /\ UNCHANGED <<record, ledger>>
        /\ row' = IF Applied(o) THEN [row EXCEPT ![j] = "cancelled"] ELSE row
        /\ finisher' = [finisher EXCEPT ![j] = IF o = "ok" THEN "release" ELSE "idle"]
    BY <1>5 DEF MirrorCancellation, Finish
  <2>2. /\ row'[j] \in {"cancelled", row[j]}
        /\ finisher'[j] = "idle" \/ (finisher'[j] = "release" /\ row'[j] = "cancelled")
        /\ \A i \in Jobs : i # j => row'[i] = row[i] /\ finisher'[i] = finisher[i]
    BY <1>1, <2>1 DEF Applied
  <2>3. (\A i \in Jobs : i # j => Same(i)) /\ Gentle(j)
    BY <1>1, <1>2, <2>1, <2>2 DEF Same, Gentle, jimeng, ledger
  <2>4. /\ stage[j] # "none" /\ client[j] \notin {"new", "lock", "row"}
        /\ record[j].status = "cancelled" \/ row[j] = "cancelled"
    BY <1>1, <2>1 DEF Recorded, Submits
  <2>5. Recorded(j)' /\ Balanced(j)'
    BY <1>1, <1>2, <2>1, <2>2, <2>4 DEF Recorded, Balanced, Kept, jimeng, ledger
  <2>6. QED
    BY <1>2, <2>3, <2>5, PointsOfJob
<1>6. ASSUME NEW o \in Outcomes, ReleaseCancelled(j, o)
      PROVE  PointsInv'
  <2>1. /\ finisher[j] = "release" /\ UNCHANGED <<row, record>>
        /\ Released(j) \/ UNCHANGED ledger
        /\ finisher' = [finisher EXCEPT ![j] = IF o = "ok" THEN "report" ELSE "idle"]
    BY <1>6 DEF ReleaseCancelled, Finish, sql, redis
  <2>2. /\ finisher'[j] \in {"report", "idle"}
        /\ \A i \in Jobs : i # j => finisher'[i] = finisher[i]
    BY <1>1, <2>1
  <2>3. /\ held'[j] \in {0, held[j]} /\ charges'[j] = charges[j]
        /\ \A i \in Jobs : i # j => held'[i] = held[i] /\ charges'[i] = charges[i]
    BY <1>1, <2>1, ReleasedFacts DEF ledger
  <2>4. (\A i \in Jobs : i # j => Same(i)) /\ Gentle(j)
    <3>1. \A i \in Jobs : i # j => Same(i)
      BY <1>2, <2>1, <2>2, <2>3 DEF Same, jimeng
    <3>2. \A i \in Jobs : charges'[i] = charges[i] /\ (held[i] = 0 => held'[i] = 0)
      BY <2>3
    <3>3. QED
      BY <1>2, <2>1, <3>1, <3>2 DEF Gentle, jimeng
  <2>5. row[j] = "cancelled" /\ stage[j] # "none" /\ client[j] # "new"
    BY <1>1, <2>1 DEF Recorded, Submits
  <2>6. Recorded(j)' /\ Balanced(j)'
    BY <1>1, <1>2, <2>1, <2>2, <2>3, <2>5 DEF Recorded, Balanced, Kept, jimeng
  <2>7. QED
    BY <1>2, <2>4, <2>6, PointsOfJob
<1>7. QED
  BY <1>3, <1>4, <1>5, <1>6 DEF CancelStep, Outcomes

\* Jimeng finishes a generation; an administrator edits the price.
LEMMA OutsidePoints ==
  ASSUME StageInv, PointsInv, (\E j \in Jobs : GenerationEnds(j)) \/ EditPrice
  PROVE  PointsInv'
<1>1. ASSUME NEW j \in Jobs, GenerationEnds(j)
      PROVE  PointsInv'
  <2>1. /\ Recorded(j) /\ Balanced(j) /\ DOMAIN generation = Jobs /\ charges[j] \in Nat
    BY DEF StageInv, PointsInv, TypeOK
  <2>2. /\ UNCHANGED <<client, row, stage, record, finisher, ledger, repriced, overwritten>>
        /\ runner' = runner /\ generation[j] = "working"
    BY <1>1 DEF GenerationEnds, sql, redis
  <2>3. /\ generation'[j] \in {"success", "fail"}
        /\ \A i \in Jobs : i # j => generation'[i] = generation[i]
    BY <1>1, <2>1 DEF GenerationEnds
  <2>4. (\A i \in Jobs : i # j => Same(i)) /\ Gentle(j)
    BY <2>2, <2>3 DEF Same, Gentle, ledger
  <2>5. Recorded(j)' /\ Balanced(j)'
    BY <2>1, <2>2, <2>3 DEF Recorded, Balanced, Kept, ledger
  <2>6. QED
    BY <2>2, <2>4, <2>5, PointsOfJob
<1>2. CASE EditPrice
  <2>1. /\ UNCHANGED <<client, row, stage, record, finisher, jimeng, ledger, overwritten>>
        /\ runner' = runner /\ repriced' = TRUE
    BY <1>2 DEF EditPrice, sql, redis
  <2>2. \A i \in Jobs : Recorded(i)' /\ Balanced(i)'
    BY <2>1, SameKeeps DEF Same, jimeng, ledger
  <2>3. \A r \in Runners : Watched(r)'
    BY <2>1 DEF PointsInv, Watched, jimeng, ledger
  <2>4. QED
    BY <2>2, <2>3 DEF PointsInv
<1>3. QED
  BY <1>1, <1>2

LEMMA NoRecordIsNone == NoRecord.status = "none"
BY Zenon DEF NoRecord

LEMMA CrashPoints ==
  ASSUME StageInv, PointsInv, NEW redisLost \in BOOLEAN, Crash(redisLost)
  PROVE  PointsInv'
<1>1. /\ UNCHANGED <<row, stage, jimeng, ledger, repriced, overwritten>>
      /\ \A r \in Runners : runner'[r] = Idle
      /\ \A i \in Jobs : finisher'[i] = "idle"
      /\ \A i \in Jobs : /\ client'[i] \in {"new", "accepted", "rejected", "failed"}
                         /\ client'[i] \in {"new", "rejected"} <=> client[i] \in {"new", "rejected"}
                         /\ client'[i] = "new" <=> client[i] = "new"
  BY DEF Crash, sql
<1>2. \A i \in Jobs : record'[i] = record[i] \/ record'[i] = NoRecord
  BY DEF Crash, redis
<1>3. \A r \in Runners : Watched(r)'
  BY <1>1 DEF Watched, Idle
<1>4. ASSUME NEW i \in Jobs
      PROVE  Recorded(i)' /\ Balanced(i)'
  <2>1. Recorded(i) /\ Balanced(i)
    BY DEF PointsInv
  <2>2. record'[i] = record[i] \/ record'[i].status = "none"
    BY <1>2, NoRecordIsNone
  <2>3. Recorded(i)'
    BY <1>1, <2>1, <2>2 DEF Recorded
  <2>4. Balanced(i)'
    BY <1>1, <2>1, <2>2 DEF Balanced, Kept, jimeng, ledger
  <2>5. QED
    BY <2>3, <2>4
<1>5. QED
  BY <1>3, <1>4 DEF PointsInv

LEMMA NextPoints ==
  ASSUME StageInv, PointsInv, [Next]_vars
  PROVE  PointsInv'
<1>1. ASSUME NEW j \in Jobs, Discover(j)
      PROVE  PointsInv'
  BY <1>1, ControlPoints DEF Runners
<1>2. ASSUME NEW w \in Workers, WorkerStep(w)
      PROVE  PointsInv'
  <2>1. w \in Runners
    BY DEF Runners
  <2>2. QED
    BY <1>2, <2>1, BeforePoints DEF WorkerStep, Outcomes
<1>3. ASSUME NEW w \in Workers, NEW j \in Jobs, Dequeue(w, j)
      PROVE  PointsInv'
  <2>1. w \in Runners /\ w \in Workers
    BY DEF Runners
  <2>2. QED
    BY <1>3, <2>1, ControlPoints
<1>4. CASE RecoveryStep
  <2>1. Recovery \in Runners
    BY DEF Runners
  <2>2. QED
    BY <1>4, <2>1, QuietPoints, BeforePoints DEF RecoveryStep
<1>5. CASE UNCHANGED vars
  <2>1. /\ UNCHANGED <<client, row, stage, record, finisher, jimeng, ledger, repriced,
                       overwritten>>
        /\ runner' = runner
    BY <1>5 DEF vars, sql, redis
  <2>2. \A i \in Jobs : Recorded(i)' /\ Balanced(i)'
    BY <2>1, SameKeeps DEF Same, jimeng, ledger
  <2>3. \A r \in Runners : Watched(r)'
    BY <2>1 DEF PointsInv, Watched, jimeng, ledger
  <2>4. QED
    BY <2>2, <2>3 DEF PointsInv
<1>6. QED
  BY <1>1, <1>2, <1>3, <1>4, <1>5, SubmissionPoints, CancelPoints, OutsidePoints,
     TransitionPoints,
     CrashPoints DEF Next

LEMMA InitPoints ==
  ASSUME Init
  PROVE  PointsInv
<1>1. PICK s \in EarlierStages : InitEarlier(s)
  BY DEF Init
<1>2. s \in {"submitted", "review_required", "completed"}
  BY <1>1, JimengAssumption
<1>3. ASSUME NEW j \in Jobs
      PROVE  Recorded(j) /\ Balanced(j)
  <2>1. CASE j \notin Earlier
    <3>1. /\ client[j] = "new" /\ stage[j] = "none" /\ row[j] = "none" /\ record[j] = NoRecord
          /\ generation[j] = "none" /\ held[j] = 0 /\ charges[j] = 0 /\ finisher[j] = "idle"
      BY <1>1, <1>3, <2>1 DEF Init, InitEarlier, If
    <3>2. record[j].status = "none"
      BY <3>1, NoRecordIsNone
    <3>3. Recorded(j)
      BY <3>1, <3>2 DEF Recorded
    <3>4. Balanced(j)
      BY <3>1, <3>2 DEF Balanced
    <3>5. QED
      BY <3>3, <3>4
  <2>2. CASE j \in Earlier
    <3>1. /\ client[j] = "accepted" /\ stage[j] = s /\ finisher[j] = "idle"
          /\ row[j] = IF s = "completed" THEN "completed" ELSE "processing"
          /\ record[j].status = row[j] /\ record[j].dispatch = "submitted"
          /\ generation[j] = IF s = "completed" THEN "success" ELSE "working"
          /\ held[j] = IF s = "completed" THEN 0 ELSE 1
          /\ charges[j] = IF s = "completed" THEN 1 ELSE 0
      BY <1>1, <1>3, <2>2 DEF Init, InitEarlier, If
    <3>2. QED
      BY <1>2, <3>1 DEF Recorded, Balanced, Kept
  <2>3. QED
    BY <2>1, <2>2
<1>4. \A r \in Runners : Watched(r)
  BY DEF Init, Watched, Idle
<1>5. QED
  BY <1>3, <1>4 DEF PointsInv

\* Where the points of a job are, and what its row and its record say of that.
THEOREM JimengPointsInvariant == Spec => []PointsInv
<1>1. Init => PointsInv
  BY InitPoints
<1>2. StageInv /\ PointsInv /\ [Next]_vars => PointsInv'
  BY NextPoints
<1>3. QED
  BY <1>1, <1>2, JimengInvariant, PTL DEF Spec

\* The points follow the generation: returned only if there was none or it failed, and
\* kept only for a success, except for submissions that were refused although their job
\* was committed, and records the recovery overwrote.
THEOREM JimengPointsFollowOutcome == Spec => []PointsFollowOutcome
<1>1. StageInv /\ PointsInv => PointsFollowOutcome
  <2>1. SUFFICES ASSUME StageInv, PointsInv, NEW j \in Jobs, client[j] # "rejected"
                 PROVE  /\ GaveBack(j) /\ j \notin overwritten => generation[j] \in {"none", "fail"}
                        /\ charges[j] > 0 => generation[j] = "success"
                        /\ stage[j] = "completed" => charges[j] = 1 \/ repriced
                        /\ row[j] = "failed" => held[j] = 0
    BY DEF PointsFollowOutcome
  <2>2. Balanced(j)
    BY <2>1 DEF PointsInv
  <2>3. QED
    BY <2>1, <2>2 DEF Balanced, GaveBack, Kept
<1>2. QED
  BY <1>1, JimengInvariant, JimengPointsInvariant, PTL
=============================================================================
