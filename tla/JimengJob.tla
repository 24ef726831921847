----------------------------- MODULE JimengJob -----------------------------
(***************************************************************************)
(* Durable Jimeng jobs of one bound account: the submission                 *)
(* (services/jimeng_submission_service.py), the job table and the account   *)
(* lock (dao/business/jimeng_job.py), the worker's handler, the recovery    *)
(* loop and the transition they share (services/jimeng_task_service.py),    *)
(* with the parts of the Redis queue (core/online_provider_queue.py) and    *)
(* the cancellation scripts (core/task_dispatch_guard.py) they call.        *)
(*                                                                          *)
(* A command of Redis, SQL or the CLI may fail before it took effect        *)
(* ("unsent") or after it ("lost"), and the process may die between any     *)
(* two, with or without Redis; all of these count against MaxFaults.        *)
(***************************************************************************)
EXTENDS Naturals, FiniteSets

CONSTANTS
  Jobs,        \* task ids
  Earlier,     \* one of them, or none, that an earlier process has submitted
  EarlierStages, \* how far it may have come
  Workers,     \* online-provider workers, coroutines of one process
  Recovery,    \* jimeng_recovery_loop, another one
  None,        \* nobody
  MaxFaults    \* bound: failed commands and crashes

Runners == Workers \cup {Recovery}

ASSUME JimengAssumption ==
  /\ MaxFaults \in Nat
  /\ Earlier \subseteq Jobs /\ \A i, j \in Earlier : i = j
  /\ EarlierStages \subseteq {"submitted", "review_required", "completed"}
  /\ Recovery \notin Workers
  /\ Runners \cap Jobs = {}
  /\ None \notin Runners \cup Jobs

VARIABLES
  client,      \* where the submission of a task stands
  row,         \* tasks.status
  stage,       \* jimeng_jobs.stage
  lock,        \* holder of the account's advisory lock
  record,      \* TASK_PREFIX + id
  pending,     \* PENDING_KEY
  refunding,   \* TASK_PREFIX + 'cancel_refunds'
  finisher,    \* where finish_cancellation of a task stands
  runner,      \* where each worker and the recovery loop stand
  generation,  \* what became of the generation at Jimeng
  accepted,    \* generations Jimeng accepted for the task (history)
  held, charges, \* the ledger's reservation and settlements of the task
  repriced,    \* the price rule was edited since the submissions
  overwritten, \* tasks whose record the recovery rebuilt over a newer one (history)
  faults

sql == <<row, stage>>
redis == <<record, pending, refunding>>
jimeng == <<generation, accepted>>
ledger == <<held, charges>>
vars == <<client, sql, lock, redis, finisher, runner, jimeng, ledger, repriced,
          overwritten, faults>>

Ledger == INSTANCE Reservation WITH Tasks <- Jobs, Amounts <- {1}

-----------------------------------------------------------------------------
Statuses == {"none", "queued", "processing", "completed", "failed", "cancelled"}
NoRecord == [status |-> "none", dispatch |-> ""]

Stages == {"none", "waiting", "submitting", "submitted", "persisting", "settling",
           "refund_pending", "completed", "failed", "review_required"}
Ended == {"completed", "failed", "review_required"}

\* Bound: generations Jimeng accepts for a task; PaidOnce says one is enough.
MaxAccepted == 2

Idle == [pc |-> "idle", job |-> None, seen |-> "none", then |-> "done"]

Outcomes == {"ok", "lost", "unsent"}
Applied(o) == o # "unsent"
Fault(o) ==
  /\ o # "ok" => faults < MaxFaults
  /\ faults' = IF o = "ok" THEN faults ELSE faults + 1

\* JimengJobDAO.update, committed or not.
SetStage(j, s, o) == stage' = IF Applied(o) THEN [stage EXCEPT ![j] = s] ELSE stage

\* TaskDAO.update_task_status: a cancelled row stays.
Mirrored(j, s) == IF row[j] = "cancelled" THEN row ELSE [row EXCEPT ![j] = s]

\* save_task_unless_cancelled; dispatch_state is no field of to_dict().
Saved(j, s) ==
  IF record[j].status = "cancelled" THEN record ELSE [record EXCEPT ![j].status = s]

\* release_task_credits: a no-op without an active reservation.
Released(j) == IF held[j] > 0 THEN Ledger!Release(j) ELSE UNCHANGED ledger

\* account_busy: another job of the account is under way or unexplained.
BusyStages == {"submitting", "submitted", "persisting", "settling", "refund_pending",
               "review_required"}

\* Faulty: a job an operator has to explain does not block the account.
BusyIfRunning(j) ==
  \E k \in Jobs \ {j} : stage[k] \in BusyStages \ {"review_required"}

AccountBusy(j) == \E k \in Jobs \ {j} : stage[k] \in BusyStages

\* Jobs are new, except one that an earlier process has submitted: Jimeng works on
\* it, known or not, or it is completed.
If(E, x, y) == [j \in Jobs |-> IF j \in E THEN x ELSE y]

InitEarlier(s) ==
  LET status == IF s = "completed" THEN "completed" ELSE "processing" IN
  /\ stage = If(Earlier, s, "none")
  /\ row = If(Earlier, status, "none")
  /\ record = If(Earlier, [status |-> status, dispatch |-> "submitted"], NoRecord)
  /\ generation = If(Earlier, IF s = "completed" THEN "success" ELSE "working", "none")
  /\ held = If(Earlier, IF s = "completed" THEN 0 ELSE 1, 0)
  /\ charges = If(Earlier, IF s = "completed" THEN 1 ELSE 0, 0)

Init ==
  /\ \E s \in EarlierStages : InitEarlier(s)
  /\ client = If(Earlier, "accepted", "new")
  /\ accepted = If(Earlier, 1, 0)
  /\ lock = None /\ pending = {} /\ refunding = {}
  /\ finisher = [j \in Jobs |-> "idle"]
  /\ runner = [r \in Runners |-> Idle]
  /\ repriced = FALSE /\ overwritten = {} /\ faults = 0

-----------------------------------------------------------------------------
(***************************************************************************)
(* enqueue_jimeng_task.  Until the job row is known to exist an exception   *)
(* releases the reservation; from then on the job owns the outcome.         *)
(***************************************************************************)
ClientUnchanged ==
  UNCHANGED <<refunding, finisher, runner, jimeng, repriced, overwritten>>

ReserveCredits(j) ==
  /\ client[j] = "new"
  /\ Ledger!Freeze(j, 1)
  /\ client' = [client EXCEPT ![j] = "lock"]
  /\ UNCHANGED <<sql, lock, record, pending, faults>> /\ ClientUnchanged

LockForEnqueue(j) ==
  /\ client[j] = "lock"
  /\ IF lock = None
     THEN lock' = j /\ client' = [client EXCEPT ![j] = "row"]
     ELSE client' = [client EXCEPT ![j] = "rollback"] /\ UNCHANGED lock
  /\ UNCHANGED <<sql, record, pending, ledger, faults>> /\ ClientUnchanged

\* The command of the submission had outcome o: go on at pc, or undo.
Proceed(j, o, pc, otherwise) ==
  /\ Fault(o)
  /\ client' = [client EXCEPT ![j] = IF o = "ok" THEN pc ELSE otherwise]
  /\ lock' = IF client'[j] \in {"accepted", "rollback", "failed"} THEN None ELSE lock

CreateTask(j, o) ==
  /\ client[j] = "row"
  /\ row' = IF Applied(o) THEN [row EXCEPT ![j] = "pending"] ELSE row
  /\ Proceed(j, o, "ensure", "rollback")
  /\ UNCHANGED <<stage, record, pending, ledger>> /\ ClientUnchanged

EnsureJob(j, o) ==
  /\ client[j] = "ensure"
  /\ SetStage(j, "waiting", o)
  /\ Proceed(j, o, "save", "rollback")
  /\ UNCHANGED <<row, record, pending, ledger>> /\ ClientUnchanged

\* OnlineProviderQueue.enqueue; its own INSERT finds the row and does nothing.
SaveNewTask(j, o) ==
  /\ client[j] = "save"
  /\ record' = IF Applied(o) THEN Saved(j, "queued") ELSE record
  /\ Proceed(j, o, "push", "abandon")
  /\ UNCHANGED <<sql, pending, ledger>> /\ ClientUnchanged

PushTask(j, o) ==
  /\ client[j] = "push"
  /\ pending' = IF Applied(o) THEN pending \cup {j} ELSE pending
  /\ Proceed(j, o, "accepted", "abandon")
  /\ UNCHANGED <<sql, record, ledger>> /\ ClientUnchanged

Abandon(j, o) ==
  /\ client[j] = "abandon"
  /\ SetStage(j, "refund_pending", o)
  /\ Proceed(j, o, "accepted", "failed")
  /\ UNCHANGED <<row, record, pending, ledger>> /\ ClientUnchanged

RollBackSubmission(j, o) ==
  /\ client[j] = "rollback"
  /\ Fault(o)
  /\ IF Applied(o) THEN Released(j) ELSE UNCHANGED ledger
  /\ client' = [client EXCEPT ![j] = "rejected"]
  /\ UNCHANGED <<sql, lock, record, pending>> /\ ClientUnchanged

-----------------------------------------------------------------------------
(***************************************************************************)
(* Control of a runner.  Leaving the transition frees the account; an       *)
(* exception does so too and is answered with update_progress.              *)
(***************************************************************************)
At(r, pc) == runner[r].pc = pc
Unlocked(r) == lock' = IF lock = r THEN None ELSE lock
Leave(r) == Unlocked(r) /\ runner' = [runner EXCEPT ![r] = Idle]
Raise(r) ==
  /\ Unlocked(r)
  /\ runner' = [runner EXCEPT ![r].pc = "report", ![r].then = "done"]
Goto(r, pc) == runner' = [runner EXCEPT ![r].pc = pc] /\ UNCHANGED lock

\* The command of runner r had outcome o: go on at pc, or raise.
Then(r, o, pc) ==
  /\ Fault(o)
  /\ IF o # "ok" THEN Raise(r) ELSE IF pc = "done" THEN Leave(r) ELSE Goto(r, pc)

\* OnlineProviderQueue.dequeue: zpopmin, then the claim; its errors are swallowed.
Dequeue(w, j) ==
  /\ At(w, "idle") /\ j \in pending
  /\ pending' = pending \ {j}
  /\ runner' = [runner EXCEPT ![w] = [Idle EXCEPT !.pc = "claim", !.job = j]]
  /\ UNCHANGED <<client, sql, lock, record, refunding, finisher, jimeng, ledger,
                 repriced, overwritten, faults>>

ClaimForPreparation(w, o) ==
  LET j == runner[w].job
      claimed == record[j].status = "queued" IN
  /\ At(w, "claim")
  /\ Fault(o)
  /\ record' = IF claimed /\ Applied(o)
               THEN [record EXCEPT ![j].status = "processing",
                                   ![j].dispatch = IF @ = "submitted" THEN @ ELSE "preparing"]
               ELSE record
  /\ IF claimed /\ o = "ok" THEN Goto(w, "row") ELSE Leave(w)
  /\ UNCHANGED <<client, sql, pending, refunding, finisher, jimeng, ledger, repriced,
                 overwritten>>

(***************************************************************************)
(* process_jimeng reads the row.  A task that has ended is only ended again *)
(* in Redis; the row and the job exist before the task reaches the queue.   *)
(***************************************************************************)
EndAgain(w) ==
  LET j == runner[w].job IN
  /\ At(w, "row")
  /\ row[j] \in {"completed", "failed", "cancelled"}
  /\ record' = IF row[j] = "cancelled" \/ record[j].status = "none"
               THEN record ELSE Saved(j, row[j])
  /\ finisher' = IF row[j] = "cancelled" /\ finisher[j] = "idle"
                 THEN [finisher EXCEPT ![j] = "mirror"] ELSE finisher
  /\ Leave(w)
  /\ UNCHANGED <<client, sql, pending, refunding, jimeng, ledger, repriced, overwritten,
                 faults>>

MarkProcessing(w, o) ==
  LET j == runner[w].job IN
  /\ At(w, "row")
  /\ row[j] \in {"pending", "processing"}
  /\ row' = IF Applied(o) THEN [row EXCEPT ![j] = "processing"] ELSE row
  /\ Then(w, o, "enter")
  /\ UNCHANGED <<client, stage, redis, finisher, jimeng, ledger, repriced, overwritten>>

(***************************************************************************)
(* jimeng_recovery_loop takes a list of due jobs and works through it: what *)
(* it knows of a job's stage is old when it looks at its record.  A record  *)
(* that cannot be read counts as missing.                                   *)
(***************************************************************************)
\* Faulty: a job is due only while its generation is.
DueAtJimeng == {j \in Jobs : stage[j] \in {"waiting", "submitting", "submitted", "persisting"}}

Due == {j \in Jobs : stage[j] \notin Ended \cup {"none"}}

Discover(j) ==
  /\ At(Recovery, "idle") /\ j \in Due
  /\ runner' = [runner EXCEPT ![Recovery] =
                  [Idle EXCEPT !.pc = "look", !.job = j, !.seen = stage[j]]]
  /\ UNCHANGED <<client, sql, lock, redis, finisher, jimeng, ledger, repriced, overwritten,
                 faults>>

LookForRecord(o) ==
  LET j == runner[Recovery].job IN
  /\ At(Recovery, "look")
  /\ o # "lost" /\ Fault(o)
  /\ IF o # "ok" \/ record[j].status = "none" THEN Goto(Recovery, "rebuild")
     ELSE Goto(Recovery, "enter")
  /\ UNCHANGED <<client, sql, redis, finisher, jimeng, ledger, repriced, overwritten>>

\* Faulty: a job that may have been paid can be cancelled again.
DispatchForgotten(s) == "preparing"

\* Faulty: the stage is taken for the dispatch state.
DispatchIsStage(s) == s

DispatchOf(s) == IF s = "waiting" THEN "preparing" ELSE "submitted"

\* restore_queue_task
Restored(j, dispatch) ==
  IF record[j].status = "cancelled" THEN record
  ELSE [record EXCEPT ![j] = [status |-> "processing", dispatch |-> dispatch]]

RebuildRecord(o) ==
  LET j == runner[Recovery].job
      wanted == row[j] \notin {"none", "cancelled"} IN
  /\ At(Recovery, "rebuild")
  /\ Fault(o)
  /\ record' = IF wanted /\ Applied(o)
               THEN Restored(j, DispatchOf(runner[Recovery].seen)) ELSE record
  /\ overwritten' = IF record' # record /\ record[j].status # "none"
                    THEN overwritten \cup {j} ELSE overwritten
  /\ IF wanted /\ o = "ok" THEN Goto(Recovery, "enter") ELSE Leave(Recovery)
  /\ UNCHANGED <<client, sql, pending, refunding, finisher, jimeng, ledger, repriced>>

-----------------------------------------------------------------------------
(***************************************************************************)
(* advance: one bounded transition of a job, under the account lock.        *)
(***************************************************************************)
\* Faulty: a submission whose outcome is unknown is tried again.
StepReplayed(s) ==
  CASE s \in {"waiting", "submitting"}   -> "check"
    [] s = "refund_pending"             -> "release"
    [] s = "settling"                   -> "settle"
    [] s \in {"submitted", "persisting"} -> "progress"

StepAt(s) ==
  CASE s = "waiting"                    -> "check"
    [] s = "submitting"                 -> "review"
    [] s = "refund_pending"             -> "release"
    [] s = "settling"                   -> "settle"
    [] s \in {"submitted", "persisting"} -> "progress"

\* A cancelled task is withdrawn if it waits, and reviewed if not.
Transition(j) ==
  IF record[j].status # "cancelled" THEN StepAt(stage[j])
  ELSE IF stage[j] = "waiting" THEN "withdraw" ELSE "review"

Enter(r) ==
  LET j == runner[r].job IN
  /\ At(r, "enter")
  /\ IF lock # None \/ stage[j] \in Ended \cup {"none"} THEN Leave(r)
     ELSE /\ lock' = r
          /\ runner' = [runner EXCEPT
               ![r].pc = Transition(j),
               ![r].then = IF Transition(j) = "progress" THEN "ask" ELSE "done"]
  /\ UNCHANGED <<client, sql, redis, finisher, jimeng, ledger, repriced, overwritten, faults>>

\* Transitions that do nothing but move the job to a stage.
Move(r, pc, s, o, next) ==
  /\ At(r, pc)
  /\ SetStage(runner[r].job, s, o)
  /\ Then(r, o, next)
  /\ UNCHANGED <<client, row, redis, finisher, jimeng, ledger, repriced, overwritten>>

\* A user cancelled before the submission.
Withdraw(r, o) == Move(r, "withdraw", "failed", o, "done")

\* Access, role or material have changed: nothing is submitted.
Refuse(r, o) == Move(r, "check", "refund_pending", o, "done")

CheckAccount(r, o) ==
  LET j == runner[r].job IN
  /\ At(r, "check")
  /\ o # "lost"
  /\ Then(r, o, IF AccountBusy(j) THEN "progress" ELSE "begin")
  /\ UNCHANGED <<client, sql, redis, finisher, jimeng, ledger, repriced, overwritten>>

BeginSubmission(r, o) ==
  LET j == runner[r].job
      begun == record[j].status = "processing" IN
  /\ At(r, "begin")
  /\ record' = IF begun /\ Applied(o) THEN [record EXCEPT ![j].dispatch = "submitted"]
               ELSE record
  /\ Then(r, o, IF begun THEN "intent" ELSE "done")
  /\ UNCHANGED <<client, sql, pending, refunding, finisher, jimeng, ledger, repriced,
                 overwritten>>

MarkSubmitting(r, o) == Move(r, "intent", "submitting", o, "submit")

(***************************************************************************)
(* The paid command: Jimeng accepts; or the CLI fails and nothing is known; *)
(* or its state lock was taken and no process started.                      *)
(***************************************************************************)
SubmitPaid(r) ==
  LET j == runner[r].job IN
  /\ At(r, "submit")
  /\ \/ /\ accepted[j] < MaxAccepted
        /\ accepted' = [accepted EXCEPT ![j] = @ + 1]
        /\ generation' = [generation EXCEPT ![j] = "working"]
        /\ Goto(r, "answer") /\ UNCHANGED faults
     \/ Fault("unsent") /\ Goto(r, "review") /\ UNCHANGED jimeng
     \/ Goto(r, "unstarted") /\ UNCHANGED <<jimeng, faults>>
  /\ UNCHANGED <<client, sql, redis, finisher, ledger, repriced, overwritten>>

ReceiveAnswer(r, o) ==
  /\ At(r, "answer")
  /\ Fault(o)
  /\ Goto(r, IF o = "ok" THEN "identify" ELSE "review")
  /\ UNCHANGED <<client, sql, redis, finisher, jimeng, ledger, repriced, overwritten>>

\* The id is committed; a failing commit is an unknown outcome, too.
RecordSubmitId(r, o) ==
  /\ At(r, "identify")
  /\ Fault(o)
  /\ SetStage(runner[r].job, "submitted", o)
  /\ Goto(r, IF o = "ok" THEN "progress" ELSE "review")
  /\ UNCHANGED <<client, row, redis, finisher, jimeng, ledger, repriced, overwritten>>

Review(r, o) == Move(r, "review", "review_required", o, "progress")

WaitAgain(r, o) == Move(r, "unstarted", "waiting", o, "reopen")

\* restore_jimeng_task: the task can be cancelled again.
Reopen(r, o) ==
  /\ At(r, "reopen")
  /\ record' = IF Applied(o) THEN Restored(runner[r].job, "preparing") ELSE record
  /\ Then(r, o, "done")
  /\ UNCHANGED <<client, sql, pending, refunding, finisher, jimeng, ledger, repriced,
                 overwritten>>

-----------------------------------------------------------------------------
\* refund_pending: release, row, fail_task, job.
ReleaseCredits(r, o) ==
  /\ At(r, "release")
  /\ IF Applied(o) THEN Released(runner[r].job) ELSE UNCHANGED ledger
  /\ Then(r, o, "fail_row")
  /\ UNCHANGED <<client, sql, redis, finisher, jimeng, repriced, overwritten>>

MirrorFailure(r, o) ==
  /\ At(r, "fail_row")
  /\ row' = IF Applied(o) THEN Mirrored(runner[r].job, "failed") ELSE row
  /\ Then(r, o, "fail")
  /\ UNCHANGED <<client, stage, redis, finisher, jimeng, ledger, repriced, overwritten>>

\* fail_task gives up on a missing or cancelled record, before its save only.
FailTask(r) ==
  /\ At(r, "fail")
  /\ IF record[runner[r].job].status \in {"none", "cancelled"}
     THEN Leave(r) ELSE Goto(r, "save_failed")
  /\ UNCHANGED <<client, sql, redis, finisher, jimeng, ledger, repriced, overwritten, faults>>

SaveFailed(r, o) ==
  LET j == runner[r].job IN
  /\ At(r, "save_failed")
  /\ record' = IF Applied(o) THEN Saved(j, "failed") ELSE record
  /\ pending' = IF o = "ok" THEN pending \ {j} ELSE pending
  /\ Then(r, o, "end_failed")
  /\ UNCHANGED <<client, sql, refunding, finisher, jimeng, ledger, repriced, overwritten>>

EndFailed(r, o) == Move(r, "end_failed", "failed", o, "done")

(***************************************************************************)
(* settling: settle, row, complete_task, job.  The settlement asks for the  *)
(* price of today: another one conflicts with the reservation, and a rule   *)
(* switched off charges nothing.  Without a reservation a new one is made.  *)
(***************************************************************************)
SettleCredits(r, o) ==
  LET j == runner[r].job IN
  /\ At(r, "settle")
  /\ Fault(o)
  /\ \/ /\ charges[j] > 0 \/ repriced \/ ~Applied(o)
        /\ UNCHANGED ledger
        /\ IF o = "ok" THEN Goto(r, "complete_row") ELSE Raise(r)
     \/ /\ charges[j] = 0 /\ repriced /\ o = "ok"
        /\ UNCHANGED ledger /\ Raise(r)
     \/ /\ charges[j] = 0 /\ ~repriced /\ Applied(o)
        /\ IF held[j] = 0 THEN Ledger!Freeze(j, 1) ELSE Ledger!Confirm(j, 1)
        /\ IF o # "ok" THEN Raise(r)
           ELSE Goto(r, IF held[j] = 0 THEN "settle" ELSE "complete_row")
  /\ UNCHANGED <<client, sql, redis, finisher, jimeng, repriced, overwritten>>

MirrorCompletion(r, o) ==
  /\ At(r, "complete_row")
  /\ row' = IF Applied(o) THEN Mirrored(runner[r].job, "completed") ELSE row
  /\ Then(r, o, "complete")
  /\ UNCHANGED <<client, stage, redis, finisher, jimeng, ledger, repriced, overwritten>>

CompleteTask(r, o) ==
  LET j == runner[r].job
      gone == record[j].status \in {"none", "cancelled"} IN
  /\ At(r, "complete")
  /\ record' = IF Applied(o) /\ ~gone THEN Saved(j, "completed") ELSE record
  /\ Then(r, o, IF gone THEN "done" ELSE "end_completed")
  /\ UNCHANGED <<client, sql, pending, refunding, finisher, jimeng, ledger, repriced,
                 overwritten>>

EndCompleted(r, o) == Move(r, "end_completed", "completed", o, "done")

-----------------------------------------------------------------------------
\* submitted, persisting: the original generation is asked for, never a new one.
AskJimeng(r, o) ==
  LET found == generation[runner[r].job] IN
  /\ At(r, "ask")
  /\ Fault(o)
  /\ CASE o # "ok"                       -> Raise(r) \/ Goto(r, "review")
       [] o = "ok" /\ found = "fail"     -> Goto(r, "refund")
       [] o = "ok" /\ found = "success"  -> Goto(r, "keep")
       [] o = "ok" /\ found \notin {"fail", "success"} -> Goto(r, "wait")
  /\ UNCHANGED <<client, sql, redis, finisher, jimeng, ledger, repriced, overwritten>>

FailedAtJimeng(r, o) == Move(r, "refund", "refund_pending", o, "done")
StillAtJimeng(r, o) == Move(r, "wait", "submitted", o, "done")
FinishedAtJimeng(r, o) == Move(r, "keep", "persisting", o, "persist")

\* The file is checked and stored, which may fail, and the stage moves on.
PersistResult(r, o) == Move(r, "persist", "settling", o, "done")

\* update_progress writes back the status it read one await earlier.
ReadForProgress(r) ==
  LET k == runner[r] IN
  /\ k.pc \in {"progress", "report"}
  /\ IF record[k.job].status # "none"
     THEN /\ runner' = [runner EXCEPT ![r].pc = "save_progress",
                                      ![r].seen = record[k.job].status]
          /\ UNCHANGED lock
     ELSE IF k.then = "ask"
     THEN /\ runner' = [runner EXCEPT ![r].pc = "ask", ![r].then = "done"]
          /\ UNCHANGED lock
     ELSE Leave(r)
  /\ UNCHANGED <<client, sql, redis, finisher, jimeng, ledger, repriced, overwritten, faults>>

SaveProgress(r, o) ==
  LET k == runner[r] IN
  /\ k.pc = "save_progress"
  /\ record' = IF Applied(o) THEN Saved(k.job, k.seen) ELSE record
  /\ Fault(o)
  /\ IF o = "ok" /\ k.then = "ask"
     THEN /\ runner' = [runner EXCEPT ![r].pc = "ask", ![r].then = "done",
                                      ![r].seen = "none"]
          /\ UNCHANGED lock
     ELSE Leave(r)
  /\ UNCHANGED <<client, sql, pending, refunding, finisher, jimeng, ledger, repriced,
                 overwritten>>

-----------------------------------------------------------------------------
\* cancel_before_submission
Cancellable(j) ==
  /\ record[j].dispatch # "submitted"
  /\ \/ record[j].status = "queued"
     \/ record[j].status = "processing" /\ record[j].dispatch = "preparing"

CancelTask(j, o) ==
  /\ Cancellable(j)
  /\ Applied(o) /\ Fault(o)
  /\ record' = [record EXCEPT ![j].status = "cancelled"]
  /\ refunding' = refunding \cup {j}
  /\ finisher' = [finisher EXCEPT ![j] = IF o = "ok" THEN "mirror" ELSE @]
  /\ UNCHANGED <<client, sql, lock, pending, runner, jimeng, ledger, repriced, overwritten>>

\* retry_cancelled_refunds
RetryRefund(j) ==
  /\ j \in refunding /\ finisher[j] = "idle" /\ record[j].status = "cancelled"
  /\ finisher' = [finisher EXCEPT ![j] = "mirror"]
  /\ UNCHANGED <<client, sql, lock, redis, runner, jimeng, ledger, repriced, overwritten,
                 faults>>

\* finish_cancellation, which stops at the first error.
Finish(j, o, next) ==
  /\ Fault(o)
  /\ finisher' = [finisher EXCEPT ![j] = IF o = "ok" THEN next ELSE "idle"]

MirrorCancellation(j, o) ==
  /\ finisher[j] = "mirror"
  /\ pending' = pending \ {j}
  /\ row' = IF Applied(o) THEN [row EXCEPT ![j] = "cancelled"] ELSE row
  /\ Finish(j, o, "release")
  /\ UNCHANGED <<client, stage, lock, record, refunding, runner, jimeng, ledger, repriced,
                 overwritten>>

ReleaseCancelled(j, o) ==
  /\ finisher[j] = "release"
  /\ IF Applied(o) THEN Released(j) ELSE UNCHANGED ledger
  /\ Finish(j, o, "report")
  /\ UNCHANGED <<client, sql, lock, redis, runner, jimeng, repriced, overwritten>>

ReportRefund(j, o) ==
  /\ finisher[j] = "report"
  /\ refunding' = IF Applied(o) THEN refunding \ {j} ELSE refunding
  /\ Finish(j, o, "idle")
  /\ UNCHANGED <<client, sql, lock, record, pending, runner, jimeng, ledger, repriced,
                 overwritten>>

-----------------------------------------------------------------------------
\* Jimeng finishes a generation.
GenerationEnds(j) ==
  /\ generation[j] = "working"
  /\ \E s \in {"success", "fail"} : generation' = [generation EXCEPT ![j] = s]
  /\ UNCHANGED <<client, sql, lock, redis, finisher, runner, accepted, ledger, repriced,
                 overwritten, faults>>

\* An administrator edits the price of videos or switches it off; only a
\* settlement that is due can tell.
EditPrice ==
  /\ ~repriced
  /\ \E j \in Jobs : stage[j] = "settling"
  /\ repriced' = TRUE
  /\ UNCHANGED <<client, sql, lock, redis, finisher, runner, jimeng, ledger, overwritten,
                 faults>>

\* The process dies, and PostgreSQL frees its lock; Redis may go down with it.
Crash(redisLost) ==
  /\ faults < MaxFaults
  /\ faults' = faults + 1
  /\ client' = [j \in Jobs |->
                  IF client[j] \in {"new", "accepted", "rejected"} THEN client[j]
                  ELSE "failed"]
  /\ lock' = None
  /\ finisher' = [j \in Jobs |-> "idle"]
  /\ runner' = [r \in Runners |-> Idle]
  /\ IF redisLost
     THEN /\ record' = [j \in Jobs |-> NoRecord]
          /\ pending' = {} /\ refunding' = {}
     ELSE UNCHANGED redis
  /\ UNCHANGED <<sql, jimeng, ledger, repriced, overwritten>>

-----------------------------------------------------------------------------
ClientStep(j) ==
  \/ LockForEnqueue(j)
  \/ \E o \in Outcomes : \/ CreateTask(j, o) \/ EnsureJob(j, o) \/ SaveNewTask(j, o)
                         \/ PushTask(j, o) \/ Abandon(j, o) \/ RollBackSubmission(j, o)

TransitionStep(r) ==
  \/ Enter(r) \/ SubmitPaid(r) \/ FailTask(r) \/ ReadForProgress(r)
  \/ \E o \in Outcomes :
       \/ Withdraw(r, o) \/ Refuse(r, o) \/ CheckAccount(r, o) \/ BeginSubmission(r, o)
       \/ MarkSubmitting(r, o) \/ ReceiveAnswer(r, o) \/ RecordSubmitId(r, o)
       \/ Review(r, o) \/ WaitAgain(r, o) \/ Reopen(r, o)
       \/ ReleaseCredits(r, o) \/ MirrorFailure(r, o) \/ SaveFailed(r, o)
       \/ EndFailed(r, o) \/ SettleCredits(r, o) \/ MirrorCompletion(r, o)
       \/ CompleteTask(r, o) \/ EndCompleted(r, o) \/ AskJimeng(r, o)
       \/ FailedAtJimeng(r, o) \/ StillAtJimeng(r, o) \/ FinishedAtJimeng(r, o)
       \/ PersistResult(r, o) \/ SaveProgress(r, o)

WorkerStep(w) ==
  \/ EndAgain(w)
  \/ \E o \in Outcomes : ClaimForPreparation(w, o) \/ MarkProcessing(w, o)

RecoveryStep == \E o \in Outcomes : LookForRecord(o) \/ RebuildRecord(o)

CancelStep(j) ==
  \/ RetryRefund(j)
  \/ \E o \in Outcomes : \/ CancelTask(j, o) \/ MirrorCancellation(j, o)
                         \/ ReleaseCancelled(j, o) \/ ReportRefund(j, o)

Next ==
  \/ \E j \in Jobs : \/ ReserveCredits(j) \/ ClientStep(j) \/ CancelStep(j)
                     \/ Discover(j) \/ GenerationEnds(j)
  \/ \E w \in Workers : WorkerStep(w) \/ \E j \in Jobs : Dequeue(w, j)
  \/ \E r \in Runners : TransitionStep(r)
  \/ RecoveryStep
  \/ EditPrice
  \/ \E redisLost \in BOOLEAN : Crash(redisLost)

Spec == Init /\ [][Next]_vars

(***************************************************************************)
(* Coroutines go on, requests end, Jimeng finishes what it accepted, and    *)
(* the recovery loop comes back to every job that is due: it lists those    *)
(* with a reservation or a generation at stake first.                       *)
(***************************************************************************)
FairSpec ==
  /\ Spec
  /\ \A j \in Jobs : /\ WF_vars(ClientStep(j)) /\ WF_vars(GenerationEnds(j))
                     /\ SF_vars(Discover(j))
  /\ \A w \in Workers : WF_vars(TransitionStep(w) \/ WorkerStep(w))
  /\ WF_vars(TransitionStep(Recovery) \/ RecoveryStep)

-----------------------------------------------------------------------------
Positions ==
  {"idle", "claim", "row", "look", "rebuild", "enter", "withdraw", "check", "begin",
   "intent", "submit", "answer", "identify", "review", "unstarted", "reopen", "release",
   "fail_row", "fail", "save_failed", "end_failed", "settle", "complete_row", "complete",
   "end_completed", "ask", "refund", "wait", "keep", "persist", "progress", "report",
   "save_progress"}

\* The types of the variables.
TypeOK ==
  /\ client \in [Jobs -> {"new", "lock", "row", "ensure", "save", "push", "abandon",
                          "rollback", "accepted", "rejected", "failed"}]
  /\ row \in [Jobs -> {"none", "pending", "processing", "completed", "failed",
                       "cancelled"}]
  /\ stage \in [Jobs -> Stages]
  /\ lock \in Runners \cup Jobs \cup {None}
  /\ record \in [Jobs -> [status : Statuses, dispatch : {"", "preparing", "submitted"}]]
  /\ pending \subseteq Jobs /\ refunding \subseteq Jobs /\ overwritten \subseteq Jobs
  /\ finisher \in [Jobs -> {"idle", "mirror", "release", "report"}]
  /\ runner \in [Runners -> [pc : Positions, job : Jobs \cup {None},
                            seen : Statuses \cup Stages, then : {"done", "ask"}]]
  /\ generation \in [Jobs -> {"none", "working", "success", "fail"}]
  /\ accepted \in [Jobs -> 0..MaxAccepted]
  /\ held \in [Jobs -> 0..1] /\ charges \in [Jobs -> Nat]
  /\ repriced \in BOOLEAN /\ faults \in 0..MaxFaults

\* "An uncertain paid submit is never replayed" (jimeng_task_service.py:1):
\* whatever fails or dies where, Jimeng accepts one generation of a task.
PaidOnce == \A j \in Jobs : accepted[j] <= 1

\* The account works on one generation at a time, also when nobody knows what
\* became of the one before (account_busy).
OneAtJimeng ==
  \A i, j \in Jobs : generation[i] = "working" /\ generation[j] = "working" => i = j

GaveBack(j) == client[j] # "new" /\ held[j] = 0 /\ charges[j] = 0

\* The points follow the generation: they are returned only if there was none or
\* it failed, and kept only for a success. Excepted are tasks that were refused
\* although their job was committed, and those whose record was overwritten.
PointsFollowOutcome ==
  \A j \in Jobs : client[j] # "rejected" =>
    /\ GaveBack(j) /\ j \notin overwritten => generation[j] \in {"none", "fail"}
    /\ charges[j] > 0 => generation[j] = "success"
    /\ stage[j] = "completed" => charges[j] = 1 \/ repriced
    /\ row[j] = "failed" => held[j] = 0

\* A job at stake comes to an end or back to where it waited, whatever fails or
\* dies: the recovery loop needs neither Redis nor the queue. Excepted are an edit
\* of the price, which no settlement survives, and tasks the user cancelled.
JobsEnd ==
  \A j \in Jobs :
    stage[j] \in BusyStages
      ~> stage[j] \in Ended \cup {"waiting"} \/ repriced \/ row[j] = "cancelled"
=============================================================================
