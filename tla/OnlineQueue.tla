---------------------------- MODULE OnlineQueue ----------------------------
(***************************************************************************)
(* The life of an online-provider task: submission                          *)
(* (services/online_provider_task_service.py), the Redis queue              *)
(* (core/online_provider_queue.py), the atomic dispatch and cancellation    *)
(* scripts (core/task_dispatch_guard.py, core/video_submission_grace.py),   *)
(* the worker loop and the common shape of its handlers                     *)
(* (core/online_provider_worker.py, core/online_provider_tasks.py), and the *)
(* billing calls each of them makes                                         *)
(* (services/task_credit_billing_service.py, services/credit_service.py).   *)
(*                                                                          *)
(* One action is one await: one Redis command or script, one SQL            *)
(* transaction, or one provider call.  A command may fail with an           *)
(* exception, either before it reached the server ("unsent") or after it    *)
(* took effect ("lost"); MaxFaults bounds how often, and process crashes    *)
(* count as faults.  The index sets PROCESSING, COMPLETED and FAILED and    *)
(* the user index decide nothing and are left out, and so are priorities:   *)
(* any pending task may be popped.                                          *)
(***************************************************************************)
EXTENDS Naturals, FiniteSets

CONSTANTS
  Tasks,           \* task ids
  Workers,         \* online-provider workers, coroutines of one process
  Finishers,       \* executions of finish_cancellation
  None,            \* no task
  Prices,          \* costs a credit rule may quote; 0 is a disabled rule
  RetryLimit,      \* ONLINE_PROVIDER_TASK_MAX_RETRIES
  MaxRuleChanges,  \* bound: edits of the credit rule
  MaxFaults,       \* bound: failed commands and crashes
  MaxCalls,        \* bound: generations the provider accepts for a task
  WithDeletion     \* bound: whether users delete records

ASSUME QueueAssumption ==
  /\ Prices \subseteq Nat
  /\ RetryLimit \in Nat \ {0}
  /\ MaxRuleChanges \in Nat
  /\ MaxFaults \in Nat
  /\ MaxCalls \in Nat
  /\ WithDeletion \in BOOLEAN
  /\ None \notin Tasks

VARIABLES
  kind,            \* the task type, of three that stand for all of them
  task,            \* TASK_PREFIX + id: the fields that decide something
  pending,         \* PENDING_KEY
  deferred,        \* PENDING_KEY + ':deferred'
  cancelRefunds,   \* TASK_PREFIX + 'cancel_refunds'
  elapsed,         \* the cancel_deadline of the task has passed
  mirror,          \* tasks.status in PostgreSQL
  client,          \* where the submission of the task stands
  worker,          \* where each worker stands
  finisher,        \* where each cancellation stands
  price,           \* what the credit rule quotes now
  billed,          \* task.data['_credit_billing']['amount'], 0 if absent
  held, charges,   \* the ledger's reservation and settlements of the task
  paid,            \* generations the provider accepted for the task
  known,           \* those whose id reached the handler (history)
  changes, faults  \* counters of the bounded events

redis == <<task, pending, deferred, cancelRefunds>>
ledger == <<held, charges>>
rule == <<price, changes>>
provider == <<paid, known>>
vars == <<kind, redis, elapsed, mirror, client, worker, finisher, rule, billed,
          ledger, provider, faults>>

Ledger == INSTANCE Reservation WITH Amounts <- Prices \ {0}

-----------------------------------------------------------------------------
(***************************************************************************)
(* seedance: a video with an undo window whose handler keeps the provider's *)
(* id; minimax: a video whose handler does not; tts: no undo window.        *)
(***************************************************************************)
Kinds == {"seedance", "minimax", "tts"}
HasGrace(t) == kind[t] \in {"seedance", "minimax"}
KeepsProviderId(t) == kind[t] = "seedance"

Statuses == {"none", "queued", "processing", "completed", "failed", "cancelled"}

NoTask == [status |-> "none", dispatch |-> "", retries |-> 0, refund |-> ""]

Idle ==
  [pc |-> "idle", task |-> None, retries |-> 0, status |-> "none", quote |-> 0,
   accepted |-> FALSE, retry |-> FALSE, depth |-> 0]

Resting == [pc |-> "idle", task |-> None]

\* What can happen to a command, and its cost.
Outcomes == {"ok", "lost", "unsent"}
Applied(o) == o # "unsent"
Fault(o) ==
  /\ o # "ok" => faults < MaxFaults
  /\ faults' = IF o = "ok" THEN faults ELSE faults + 1

(***************************************************************************)
(* save_task_unless_cancelled: a whole-record save, except that a cancelled *)
(* record is left alone.  dispatch_state and refund_status are not fields   *)
(* of to_dict() and survive every save.                                     *)
(***************************************************************************)
\* Faulty: a plain HSET.
SavedAlways(t, status, retries) ==
  [task EXCEPT ![t].status = status, ![t].retries = retries]

Saved(t, status, retries) ==
  IF task[t].status = "cancelled" THEN task
  ELSE [task EXCEPT ![t].status = status, ![t].retries = retries]

\* Faulty: only a cancellation releases.
ReleasedIfCancelled(t) ==
  IF billed[t] > 0 /\ held[t] > 0 /\ task[t].status = "cancelled"
  THEN Ledger!Release(t) ELSE UNCHANGED ledger

\* release_task_credits: nothing without billing metadata; a no-op when the
\* ledger has no active reservation.
Released(t) ==
  IF billed[t] > 0 /\ held[t] > 0 THEN Ledger!Release(t) ELSE UNCHANGED ledger

\* Faulty: only a row nobody has started is updated.
MirroredOnce(t, status) ==
  IF mirror[t] # "pending" THEN mirror ELSE [mirror EXCEPT ![t] = status]

\* TaskDAO.update_task_status: no row, no update; a cancelled row stays.
Mirrored(t, status) ==
  IF mirror[t] \in {"none", "cancelled"} THEN mirror
  ELSE [mirror EXCEPT ![t] = status]

-----------------------------------------------------------------------------
Init ==
  /\ kind \in [Tasks -> Kinds]
  /\ task = [t \in Tasks |-> NoTask]
  /\ pending = {} /\ deferred = {} /\ cancelRefunds = {}
  /\ elapsed = [t \in Tasks |-> FALSE]
  /\ mirror = [t \in Tasks |-> "none"]
  /\ client = [t \in Tasks |-> "new"]
  /\ worker = [w \in Workers |-> Idle]
  /\ finisher = [c \in Finishers |-> Resting]
  /\ price \in Prices
  /\ billed = [t \in Tasks |-> 0]
  /\ Ledger!Init
  /\ paid = [t \in Tasks |-> 0] /\ known = [t \in Tasks |-> 0]
  /\ changes = 0 /\ faults = 0

\* An administrator edits or disables the credit rule.
ChangeRule ==
  /\ changes < MaxRuleChanges
  /\ price' \in Prices \ {price}
  /\ changes' = changes + 1
  /\ UNCHANGED <<kind, redis, elapsed, mirror, client, worker, finisher, billed,
                 ledger, provider, faults>>

\* Ten seconds after the submission the undo window closes.
DeadlinePasses(t) ==
  /\ HasGrace(t) /\ ~elapsed[t] /\ client[t] # "new"
  /\ elapsed' = [elapsed EXCEPT ![t] = TRUE]
  /\ UNCHANGED <<kind, redis, mirror, client, worker, finisher, rule, billed,
                 ledger, provider, faults>>

-----------------------------------------------------------------------------
(***************************************************************************)
(* OnlineProviderTaskService.submit.  An exception after the reservation    *)
(* was recorded releases it; if the reservation itself was committed but    *)
(* not acknowledged, nothing does.                                          *)
(***************************************************************************)
ReserveCredits(t, o) ==
  /\ client[t] = "new"
  /\ Fault(o)
  /\ IF price > 0 /\ Applied(o) THEN Ledger!Freeze(t, price) ELSE UNCHANGED ledger
  /\ billed' = [billed EXCEPT ![t] = IF o = "ok" THEN price ELSE 0]
  /\ client' = [client EXCEPT ![t] = IF o = "ok" THEN "save" ELSE "rejected"]
  /\ UNCHANGED <<kind, redis, elapsed, mirror, worker, finisher, rule, provider>>

\* OnlineProviderQueue.enqueue: the record, then the queue entry, then SQL.
SaveNewTask(t, o) ==
  /\ client[t] = "save"
  /\ Fault(o)
  /\ task' = IF Applied(o) THEN Saved(t, "queued", 0) ELSE task
  /\ client' = [client EXCEPT ![t] = IF o = "ok" THEN "enqueue" ELSE "rollback"]
  /\ UNCHANGED <<kind, pending, deferred, cancelRefunds, elapsed, mirror, worker,
                 finisher, rule, billed, ledger, provider>>

EnqueueWithGrace(t, o) ==
  /\ client[t] = "enqueue"
  /\ Fault(o)
  /\ deferred' = IF Applied(o) /\ HasGrace(t) /\ task[t].status = "queued"
                 THEN deferred \cup {t} ELSE deferred
  /\ pending' = IF Applied(o) /\ ~HasGrace(t) THEN pending \cup {t} ELSE pending
  /\ client' = [client EXCEPT ![t] = IF o = "ok" THEN "persist" ELSE "rollback"]
  /\ UNCHANGED <<kind, task, cancelRefunds, elapsed, mirror, worker, finisher, rule,
                 billed, ledger, provider>>

\* _persist_create inserts the row and swallows every error.
PersistCreate(t, o) ==
  /\ client[t] = "persist"
  /\ Fault(o)
  /\ mirror' = IF Applied(o) /\ mirror[t] = "none"
               THEN [mirror EXCEPT ![t] = "pending"] ELSE mirror
  /\ client' = [client EXCEPT ![t] = "accepted"]
  /\ UNCHANGED <<kind, redis, elapsed, worker, finisher, rule, billed, ledger, provider>>

RollBackSubmission(t, o) ==
  /\ client[t] = "rollback"
  /\ Fault(o)
  /\ IF Applied(o) THEN Released(t) ELSE UNCHANGED ledger
  /\ client' = [client EXCEPT ![t] = "rejected"]
  /\ UNCHANGED <<kind, redis, elapsed, mirror, worker, finisher, rule, billed, provider>>

-----------------------------------------------------------------------------
(***************************************************************************)
(* Control of a worker.  An exception in a handler calls fail_task; one in  *)
(* that call makes the handler call it again; one in that call reaches the  *)
(* worker loop, which calls it a last time; one there ends the worker.      *)
(* Only the handler knows whether the provider has accepted the task: the   *)
(* loop's call always asks for a retry.                                     *)
(***************************************************************************)
\* Faulty: the handler forgets the provider's id in its except clause.
NeverAccepted(k) == FALSE

Accepted(k) == KeepsProviderId(k.task) /\ k.accepted

\* Faulty: the worker loop survives any number of exceptions.
RaisedForever(k) ==
  [k EXCEPT !.pc = "fail", !.retry = (k.depth >= 2) \/ ~Accepted(k),
            !.depth = k.depth + 1]

Raised(k) ==
  IF k.depth = 3 THEN [Idle EXCEPT !.pc = "dead"]
  ELSE [k EXCEPT !.pc = "fail",
                 !.retry = (k.depth = 2) \/ ~Accepted(k),
                 !.depth = k.depth + 1]

Goto(w, pc) == worker' = [worker EXCEPT ![w].pc = pc]
Finish(w) == worker' = [worker EXCEPT ![w] = Idle]

\* The command of worker w had outcome o: go on at pc, or raise.
Proceed(w, o, pc) ==
  /\ Fault(o)
  /\ worker' = [worker EXCEPT ![w] =
                  IF o # "ok" THEN Raised(@)
                  ELSE IF pc = "idle" THEN Idle ELSE [@ EXCEPT !.pc = pc]]

At(w, pc) == worker[w].pc = pc

(***************************************************************************)
(* OnlineProviderQueue.dequeue: promote_ready, then zpopmin.  promote_ready *)
(* drops the deferred ids whose record is no longer queued.                 *)
(***************************************************************************)
\* Faulty: the score of a deferred id is not compared with the clock.
RipeAtOnce == deferred

Ripe == {t \in deferred : elapsed[t]}

Promoted == pending \cup {t \in Ripe : task[t].status = "queued"}

Dequeue(w) ==
  /\ At(w, "idle")
  /\ deferred' = deferred \ Ripe
  /\ \E t \in Promoted :
       /\ pending' = Promoted \ {t}
       /\ worker' = [worker EXCEPT ![w] = [Idle EXCEPT !.pc = "claim", !.task = t]]
  /\ UNCHANGED <<kind, task, cancelRefunds, elapsed, mirror, client, finisher, rule,
                 billed, ledger, provider, faults>>

\* The undo window of the task is over.
WindowClosed(t) == HasGrace(t) => elapsed[t]

\* Faulty: a task without an undo window waits for one to close.
ClaimableAfterDeadline(t) == task[t].status = "queued" /\ elapsed[t]

Claimable(t) == task[t].status = "queued" /\ WindowClosed(t)

\* Faulty: the script does not look at the status again.
SubmittableUnchecked(t) == WindowClosed(t)

Submittable(t) == task[t].status = "processing" /\ WindowClosed(t)

\* claim_for_preparation.  An exception is swallowed and the popped id is gone.
ClaimForPreparation(w, o) ==
  LET t == worker[w].task
      claimed == Claimable(t) IN
  /\ At(w, "claim")
  /\ Fault(o)
  /\ task' = IF claimed /\ Applied(o)
             THEN [task EXCEPT ![t].status = "processing",
                               ![t].dispatch = IF @ = "submitted" THEN @ ELSE "preparing"]
             ELSE task
  /\ IF claimed /\ o = "ok" THEN Goto(w, "begin") ELSE Finish(w)
  /\ UNCHANGED <<kind, pending, deferred, cancelRefunds, elapsed, mirror, client,
                 finisher, rule, billed, ledger, provider>>

\* begin_submission.  An exception here goes to the worker loop.
BeginSubmission(w, o) ==
  LET t == worker[w].task
      begun == Submittable(t) IN
  /\ At(w, "begin")
  /\ Fault(o)
  /\ task' = IF begun /\ Applied(o) THEN [task EXCEPT ![t].dispatch = "submitted"]
             ELSE task
  /\ worker' = [worker EXCEPT ![w] =
                  IF o # "ok" THEN Raised([@ EXCEPT !.depth = 2])
                  ELSE IF begun THEN [@ EXCEPT !.pc = "start"] ELSE Idle]
  /\ UNCHANGED <<kind, pending, deferred, cancelRefunds, elapsed, mirror, client,
                 finisher, rule, billed, ledger, provider>>

\* _record_task_start: the row is created if missing; errors are swallowed.
RecordTaskStart(w) ==
  LET t == worker[w].task IN
  /\ At(w, "start")
  /\ mirror' = IF mirror[t] = "cancelled" THEN mirror
               ELSE [mirror EXCEPT ![t] = "processing"]
  /\ Goto(w, "call")
  /\ UNCHANGED <<kind, redis, elapsed, client, finisher, rule, billed, ledger, provider,
                 faults>>

\* The paid request.  A lost answer is a generation nobody knows the id of.
CallProvider(w, o) ==
  LET t == worker[w].task IN
  /\ At(w, "call")
  /\ paid[t] < MaxCalls
  /\ Fault(o)
  /\ paid' = IF Applied(o) THEN [paid EXCEPT ![t] = @ + 1] ELSE paid
  /\ known' = IF o = "ok" THEN [known EXCEPT ![t] = @ + 1] ELSE known
  /\ worker' = [worker EXCEPT ![w] =
                  IF o = "ok" THEN [@ EXCEPT !.pc = "poll", !.accepted = TRUE]
                  ELSE Raised(@)]
  /\ UNCHANGED <<kind, redis, elapsed, mirror, client, finisher, rule, billed, ledger>>

\* The provider rejects the request, the generation fails or times out, or its
\* result cannot be downloaded.  Some errors are classified as non-retryable.
ProviderFails(w) ==
  /\ worker[w].pc \in {"call", "poll"}
  /\ \E retry \in {FALSE, ~Accepted(worker[w])} :
       worker' = [worker EXCEPT ![w].pc = "fail", ![w].retry = retry, ![w].depth = 1]
  /\ UNCHANGED <<kind, redis, elapsed, mirror, client, finisher, rule, billed, ledger,
                 provider, faults>>

ProviderSucceeds(w) ==
  /\ At(w, "poll")
  /\ Goto(w, "complete")
  /\ UNCHANGED <<kind, redis, elapsed, mirror, client, finisher, rule, billed, ledger,
                 provider, faults>>

(***************************************************************************)
(* update_progress writes back the whole record it read one await earlier.  *)
(* An exception is caught by the poll loop.                                 *)
(***************************************************************************)
ReadForProgress(w) ==
  LET t == worker[w].task IN
  /\ At(w, "poll")
  /\ task[t].status # "none"
  /\ worker' = [worker EXCEPT ![w].pc = "progress",
                              ![w].status = task[t].status,
                              ![w].retries = task[t].retries]
  /\ UNCHANGED <<kind, redis, elapsed, mirror, client, finisher, rule, billed, ledger,
                 provider, faults>>

SaveProgress(w) ==
  LET k == worker[w] IN
  /\ At(w, "progress")
  /\ task' = Saved(k.task, k.status, k.retries)
  /\ worker' = [worker EXCEPT ![w].pc = "poll", ![w].status = "none", ![w].retries = 0]
  /\ UNCHANGED <<kind, pending, deferred, cancelRefunds, elapsed, mirror, client,
                 finisher, rule, billed, ledger, provider, faults>>

-----------------------------------------------------------------------------
(***************************************************************************)
(* complete_task.  It reads the record, settles, and saves what it read     *)
(* with the new status; errors of the settlement are only logged, and a     *)
(* record that cannot be read counts as deleted.                            *)
(***************************************************************************)
CompleteTask(w, o) ==
  LET t == worker[w].task IN
  /\ At(w, "complete")
  /\ Fault(o)
  /\ IF o # "ok" \/ task[t].status \in {"none", "cancelled"} THEN Finish(w)
     ELSE worker' = [worker EXCEPT
            ![w].pc = IF billed[t] > 0 THEN "quote" ELSE "save_completed",
            ![w].retries = task[t].retries]
  /\ UNCHANGED <<kind, redis, elapsed, mirror, client, finisher, rule, billed, ledger,
                 provider>>

AlreadyCharged(t) == charges[t] > 0

\* consume_usage looks for an earlier consumption and prices the usage at the
\* rule of today.
QuoteUsage(w) ==
  LET free == AlreadyCharged(worker[w].task) \/ price = 0 IN
  /\ At(w, "quote")
  /\ worker' = [worker EXCEPT ![w].pc = IF free THEN "save_completed" ELSE "freeze",
                              ![w].quote = IF free THEN 0 ELSE price]
  /\ UNCHANGED <<kind, redis, elapsed, mirror, client, finisher, rule, billed, ledger,
                 provider, faults>>

\* A reservation of the same amount is found, one of another amount is a
\* conflict, and with none a new one is made if the balance allows.
FreezeUsage(w, o) ==
  LET t == worker[w].task
      n == worker[w].quote
      next(pc) == worker' = [worker EXCEPT ![w].pc = pc,
                               ![w].quote = IF pc = "confirm" THEN @ ELSE 0] IN
  /\ At(w, "freeze")
  /\ Fault(o)
  /\ \/ /\ Applied(o) /\ held[t] = 0
        /\ Ledger!Freeze(t, n)
        /\ next(IF o = "ok" THEN "confirm" ELSE "save_completed")
     \/ /\ o = "ok" /\ held[t] = n
        /\ next("confirm")
        /\ UNCHANGED ledger
     \/ /\ o = "ok" => held[t] # n
        /\ next("save_completed")
        /\ UNCHANGED ledger
  /\ UNCHANGED <<kind, redis, elapsed, mirror, client, finisher, rule, billed, provider>>

Confirmable(t, n) == held[t] > 0 /\ n <= held[t]

\* confirm_task_freeze.  Any error is followed by another look for an earlier
\* consumption; both ways end in the save.
ConfirmUsage(w, o) ==
  LET t == worker[w].task
      n == worker[w].quote IN
  /\ At(w, "confirm")
  /\ Fault(o)
  /\ IF Applied(o) /\ Confirmable(t, n)
     THEN Ledger!Confirm(t, n) ELSE UNCHANGED ledger
  /\ worker' = [worker EXCEPT ![w].pc = "save_completed", ![w].quote = 0]
  /\ UNCHANGED <<kind, redis, elapsed, mirror, client, finisher, rule, billed, provider>>

SaveCompleted(w, o) ==
  LET k == worker[w] IN
  /\ At(w, "save_completed")
  /\ task' = IF Applied(o) THEN Saved(k.task, "completed", k.retries) ELSE task
  /\ Proceed(w, o, "index_completed")
  /\ UNCHANGED <<kind, pending, deferred, cancelRefunds, elapsed, mirror, client,
                 finisher, rule, billed, ledger, provider>>

\* o is the outcome of the two index commands; SQL errors are swallowed.
PersistCompleted(w, o) ==
  /\ At(w, "index_completed")
  /\ mirror' = IF o = "ok" THEN Mirrored(worker[w].task, "completed") ELSE mirror
  /\ Proceed(w, o, "publish")
  /\ UNCHANGED <<kind, redis, elapsed, client, finisher, rule, billed, ledger, provider>>

\* Telling the user is the last command of complete_task and of fail_task.
Publish(w, o) ==
  /\ At(w, "publish")
  /\ Proceed(w, o, "idle")
  /\ UNCHANGED <<kind, redis, elapsed, mirror, client, finisher, rule, billed, ledger,
                 provider>>

-----------------------------------------------------------------------------
MayRetry(retries) == retries < RetryLimit

(***************************************************************************)
(* fail_task: read, then either requeue after a delay or fail for good.  A  *)
(* record that cannot be read counts as deleted.                            *)
(***************************************************************************)
FailTask(w, o) ==
  LET k == worker[w]
      retries == task[k.task].retries + 1 IN
  /\ At(w, "fail")
  /\ Fault(o)
  /\ IF o # "ok" \/ task[k.task].status \in {"none", "cancelled"} THEN Finish(w)
     ELSE worker' = [worker EXCEPT
            ![w].pc = IF k.retry /\ MayRetry(retries) THEN "save_queued"
                      ELSE "save_failed",
            ![w].retries = retries]
  /\ UNCHANGED <<kind, redis, elapsed, mirror, client, finisher, rule, billed, ledger,
                 provider>>

SaveQueued(w, o) ==
  LET k == worker[w] IN
  /\ At(w, "save_queued")
  /\ task' = IF Applied(o) THEN Saved(k.task, "queued", k.retries) ELSE task
  /\ Proceed(w, o, "requeue")
  /\ UNCHANGED <<kind, pending, deferred, cancelRefunds, elapsed, mirror, client,
                 finisher, rule, billed, ledger, provider>>

\* After the delay, whatever has become of the record.
Requeue(w, o) ==
  /\ At(w, "requeue")
  /\ pending' = IF Applied(o) THEN pending \cup {worker[w].task} ELSE pending
  /\ Proceed(w, o, "idle")
  /\ UNCHANGED <<kind, task, deferred, cancelRefunds, elapsed, mirror, client, finisher,
                 rule, billed, ledger, provider>>

SaveFailed(w, o) ==
  LET k == worker[w] IN
  /\ At(w, "save_failed")
  /\ task' = IF Applied(o) THEN Saved(k.task, "failed", k.retries) ELSE task
  /\ Proceed(w, o, "unqueue")
  /\ UNCHANGED <<kind, pending, deferred, cancelRefunds, elapsed, mirror, client,
                 finisher, rule, billed, ledger, provider>>

UnqueueFailed(w, o) ==
  /\ At(w, "unqueue")
  /\ pending' = IF Applied(o) THEN pending \ {worker[w].task} ELSE pending
  /\ Proceed(w, o, "release")
  /\ UNCHANGED <<kind, task, deferred, cancelRefunds, elapsed, mirror, client, finisher,
                 rule, billed, ledger, provider>>

\* The release of fail_task; errors are only logged.
ReleaseFailed(w, o) ==
  /\ At(w, "release")
  /\ Fault(o)
  /\ IF Applied(o) THEN Released(worker[w].task) ELSE UNCHANGED ledger
  /\ Goto(w, "persist_failed")
  /\ UNCHANGED <<kind, redis, elapsed, mirror, client, finisher, rule, billed, provider>>

PersistFailed(w) ==
  /\ At(w, "persist_failed")
  /\ mirror' = Mirrored(worker[w].task, "failed")
  /\ Goto(w, "publish")
  /\ UNCHANGED <<kind, redis, elapsed, client, finisher, rule, billed, ledger, provider,
                 faults>>

-----------------------------------------------------------------------------
(***************************************************************************)
(* cancel_task: the script cancel_before_submission, then                   *)
(* finish_cancellation.  Any exception on the way leaves the task in        *)
(* cancel_refunds, and retry_cancelled_refunds, which every dequeue calls,  *)
(* runs finish_cancellation again.                                          *)
(***************************************************************************)
Cancellable(t) ==
  /\ HasGrace(t) => ~elapsed[t]
  /\ task[t].dispatch # "submitted"
  /\ \/ task[t].status = "queued"
     \/ task[t].status = "processing" /\ task[t].dispatch = "preparing"

\* Faulty: the refund is left to the request that cancels.
RefundNotQueued(t) == cancelRefunds

RefundQueued(t) == cancelRefunds \cup {t}

CancelTask(c, t, o) ==
  /\ finisher[c] = Resting
  /\ Fault(o)
  /\ \/ /\ Cancellable(t)
        /\ task' = IF Applied(o) THEN [task EXCEPT ![t].status = "cancelled",
                                                   ![t].refund = "pending"]
                   ELSE task
        /\ cancelRefunds' = IF Applied(o) THEN RefundQueued(t) ELSE cancelRefunds
     \/ /\ task[t].status = "cancelled"
        /\ UNCHANGED <<task, cancelRefunds>>
  /\ finisher' = IF o = "ok" THEN [finisher EXCEPT ![c] = [pc |-> "cleanup", task |-> t]]
                 ELSE finisher
  /\ UNCHANGED <<kind, pending, deferred, elapsed, mirror, client, worker, rule, billed,
                 ledger, provider>>

RetryCancelledRefund(c, t) ==
  /\ finisher[c] = Resting
  /\ t \in cancelRefunds /\ task[t].status = "cancelled"
  /\ \E w \in Workers : At(w, "idle")
  /\ finisher' = [finisher EXCEPT ![c] = [pc |-> "cleanup", task |-> t]]
  /\ UNCHANGED <<kind, redis, elapsed, mirror, client, worker, rule, billed, ledger,
                 provider, faults>>

Finishing(c, pc) == finisher[c].pc = pc

\* The next command of finish_cancellation, or its except clause.
Step(c, o, pc) ==
  /\ Fault(o)
  /\ finisher' = [finisher EXCEPT ![c] =
                    IF o = "ok" /\ pc # "idle" THEN [@ EXCEPT !.pc = pc] ELSE Resting]

CleanUp(c, o) ==
  /\ Finishing(c, "cleanup")
  /\ pending' = IF Applied(o) THEN pending \ {finisher[c].task} ELSE pending
  /\ Step(c, o, "mirror")
  /\ UNCHANGED <<kind, task, deferred, cancelRefunds, elapsed, mirror, client, worker,
                 rule, billed, ledger, provider>>

MirrorCancelled(c, o) ==
  /\ Finishing(c, "mirror")
  /\ mirror' = IF Applied(o) THEN Mirrored(finisher[c].task, "cancelled") ELSE mirror
  /\ Step(c, o, "release")
  /\ UNCHANGED <<kind, redis, elapsed, client, worker, rule, billed, ledger, provider>>

ReleaseCancelled(c, o) ==
  /\ Finishing(c, "release")
  /\ IF Applied(o) THEN Released(finisher[c].task) ELSE UNCHANGED ledger
  /\ Step(c, o, "mark")
  /\ UNCHANGED <<kind, redis, elapsed, mirror, client, worker, rule, billed, provider>>

\* An HSET on a deleted record makes a hash no reader takes for a task.
MarkRefunded(c, o) ==
  LET t == finisher[c].task IN
  /\ Finishing(c, "mark")
  /\ task' = IF Applied(o) /\ task[t].status # "none"
             THEN [task EXCEPT ![t].refund = "completed"] ELSE task
  /\ Step(c, o, "forget")
  /\ UNCHANGED <<kind, pending, deferred, cancelRefunds, elapsed, mirror, client, worker,
                 rule, billed, ledger, provider>>

ForgetRefund(c, o) ==
  /\ Finishing(c, "forget")
  /\ cancelRefunds' = IF Applied(o) THEN cancelRefunds \ {finisher[c].task}
                      ELSE cancelRefunds
  /\ Step(c, o, "idle")
  /\ UNCHANGED <<kind, task, pending, deferred, elapsed, mirror, client, worker, rule,
                 billed, ledger, provider>>

-----------------------------------------------------------------------------
Deletable(t) ==
  /\ task[t].status \in {"completed", "failed", "cancelled"}
  /\ task[t].refund # "pending"

\* DELETE /api/task/{id}/delete: the row, the queue entry and the record.
DeleteTask(t) ==
  /\ WithDeletion
  /\ Deletable(t)
  /\ task' = [task EXCEPT ![t] = NoTask]
  /\ pending' = pending \ {t}
  /\ mirror' = [mirror EXCEPT ![t] = "none"]
  /\ UNCHANGED <<kind, deferred, cancelRefunds, elapsed, client, worker, finisher, rule,
                 billed, ledger, provider, faults>>

\* The process dies and is started again: every coroutine is gone, Redis and
\* PostgreSQL are not.
Crash ==
  /\ faults < MaxFaults
  /\ faults' = faults + 1
  /\ worker' = [w \in Workers |-> Idle]
  /\ finisher' = [c \in Finishers |-> Resting]
  /\ client' = [t \in Tasks |->
                  IF client[t] \in {"new", "accepted"} THEN client[t] ELSE "rejected"]
  /\ UNCHANGED <<kind, redis, elapsed, mirror, rule, billed, ledger, provider>>

-----------------------------------------------------------------------------
SubmitStep(t, o) ==
  \/ ReserveCredits(t, o)
  \/ SaveNewTask(t, o)
  \/ EnqueueWithGrace(t, o)
  \/ PersistCreate(t, o)
  \/ RollBackSubmission(t, o)

HandlerStep(w, o) ==
  \/ RecordTaskStart(w)
  \/ CallProvider(w, o)
  \/ ProviderFails(w)
  \/ ProviderSucceeds(w)
  \/ ReadForProgress(w)
  \/ SaveProgress(w)

CompleteStep(w, o) ==
  \/ CompleteTask(w, o)
  \/ QuoteUsage(w)
  \/ FreezeUsage(w, o)
  \/ ConfirmUsage(w, o)
  \/ SaveCompleted(w, o)
  \/ PersistCompleted(w, o)
  \/ Publish(w, o)

FailStep(w, o) ==
  \/ FailTask(w, o)
  \/ SaveQueued(w, o)
  \/ Requeue(w, o)
  \/ SaveFailed(w, o)
  \/ UnqueueFailed(w, o)
  \/ ReleaseFailed(w, o)
  \/ PersistFailed(w)

WorkerStep(w, o) ==
  \/ Dequeue(w)
  \/ ClaimForPreparation(w, o)
  \/ BeginSubmission(w, o)
  \/ HandlerStep(w, o)
  \/ CompleteStep(w, o)
  \/ FailStep(w, o)

FinishStep(c, o) ==
  \/ CleanUp(c, o)
  \/ MirrorCancelled(c, o)
  \/ ReleaseCancelled(c, o)
  \/ MarkRefunded(c, o)
  \/ ForgetRefund(c, o)

Next ==
  \/ ChangeRule
  \/ Crash
  \/ \E t \in Tasks : DeadlinePasses(t) \/ DeleteTask(t)
  \/ \E o \in Outcomes :
       \/ \E t \in Tasks : SubmitStep(t, o)
       \/ \E w \in Workers : WorkerStep(w, o)
       \/ \E c \in Finishers :
            \/ FinishStep(c, o)
            \/ \E t \in Tasks : CancelTask(c, t, o)
  \/ \E c \in Finishers, t \in Tasks : RetryCancelledRefund(c, t)

Spec == Init /\ [][Next]_vars

-----------------------------------------------------------------------------
(***************************************************************************)
(* Properties.                                                              *)
(***************************************************************************)
WorkerType ==
  [pc : {"idle", "dead", "claim", "begin", "start", "call", "poll", "progress",
         "complete", "quote", "freeze", "confirm", "save_completed",
         "index_completed", "publish", "fail", "save_queued", "requeue",
         "save_failed", "unqueue", "release", "persist_failed"},
   task : Tasks \cup {None}, retries : Nat, status : Statuses,
   quote : Prices \cup {0}, accepted : BOOLEAN, retry : BOOLEAN, depth : 0..3]

\* The shape of every record; a task is retried fewer times than the limit.
TypeOK ==
  /\ kind \in [Tasks -> Kinds]
  /\ task \in [Tasks -> [status : Statuses, dispatch : {"", "preparing", "submitted"},
                         retries : Nat, refund : {"", "pending", "completed"}]]
  /\ pending \subseteq Tasks /\ deferred \subseteq Tasks /\ cancelRefunds \subseteq Tasks
  /\ elapsed \in [Tasks -> BOOLEAN]
  /\ mirror \in [Tasks -> (Statuses \ {"queued"}) \cup {"pending"}]
  /\ client \in [Tasks -> {"new", "save", "enqueue", "persist", "rollback", "accepted",
                           "rejected"}]
  /\ worker \in [Workers -> WorkerType]
  /\ finisher \in [Finishers ->
       [pc : {"idle", "cleanup", "mirror", "release", "mark", "forget"},
        task : Tasks \cup {None}]]
  /\ price \in Prices
  /\ billed \in [Tasks -> Prices \cup {0}]
  /\ held \in [Tasks -> Prices \cup {0}] /\ charges \in [Tasks -> Nat]
  /\ paid \in [Tasks -> Nat] /\ known \in [Tasks -> Nat]
  /\ changes \in Nat /\ faults \in Nat

\* Nobody is in the middle of anything with the task.
Quiet(t) ==
  /\ client[t] \in {"new", "accepted", "rejected"}
  /\ \A w \in Workers : worker[w].task # t
  /\ \A c \in Finishers : finisher[c].task # t

\* "Only queued tasks that have not been submitted can be cancelled and
\* refunded": the provider was never called for a cancelled task, however
\* workers, retries and failing commands interleave with the cancellation; and once
\* its refund is reported as completed nothing stays reserved.
CancelledUnpaid ==
  \A t \in Tasks : task[t].status = "cancelled" =>
    /\ paid[t] = 0 /\ charges[t] = 0
    /\ task[t].refund = "completed" => held[t] = 0

\* No late save of a worker brings a cancelled task back to life.
CancelIsFinal ==
  [][\A t \in Tasks : task[t].status = "cancelled" =>
       task'[t].status \in {"cancelled", "none"}]_vars

\* settle_task_credits settles a task once, also when it is completed again.
ChargedOnce == \A t \in Tasks : charges[t] <= 1

\* A queued record is where a worker will find it: in the queue, in the undo
\* window, or in the hands of somebody who will put it there.
NoLostTask ==
  \A t \in Tasks :
    task[t].status = "queued" /\ Quiet(t) /\ client[t] = "accepted" =>
      t \in pending \cup deferred

\* A task that ended holds no points: a finished generation has been charged
\* once, one that failed for good has been refunded in full.  (An edit of the
\* price between the reservation and the settlement makes them disagree, and
\* the points then stay frozen.)
EndedIsSettled ==
  \A t \in Tasks :
    /\ task[t].status = "completed" /\ Quiet(t) /\ changes = 0 =>
         held[t] = 0 /\ (billed[t] > 0 => charges[t] = 1)
    /\ task[t].status = "failed" /\ Quiet(t) => held[t] = 0 /\ charges[t] = 0

\* The row in PostgreSQL ends as the record does.
OutcomeMirrored ==
  \A t \in Tasks :
    task[t].status \in {"completed", "failed"} /\ Quiet(t) =>
      mirror[t] = task[t].status

\* With the provider's id in hand the task is never submitted again.
KnownNotResubmitted ==
  [][\A t \in Tasks : KeepsProviderId(t) /\ known[t] > 0 => paid'[t] = paid[t]]_vars

-----------------------------------------------------------------------------
(***************************************************************************)
(* Liveness.  Every started coroutine goes on, the undo window closes, and  *)
(* a generation ends: each handler polls for at most max_wait seconds,      *)
(* however often it reports progress in between (hence SF).  Nothing is     *)
(* assumed of users and administrators, and no command has to fail.         *)
(***************************************************************************)
GoOnSubmitting(t) == client[t] # "new" /\ SubmitStep(t, "ok")
GenerationEnds(w) == ProviderFails(w) \/ ProviderSucceeds(w)
RefundRetried(t) == \E c \in Finishers : RetryCancelledRefund(c, t)

Fairness ==
  /\ \A t \in Tasks : /\ WF_vars(GoOnSubmitting(t))
                      /\ WF_vars(DeadlinePasses(t))
                      /\ WF_vars(RefundRetried(t))
  /\ \A w \in Workers : WF_vars(WorkerStep(w, "ok")) /\ SF_vars(GenerationEnds(w))
  /\ \A c \in Finishers : WF_vars(FinishStep(c, "ok"))

FairSpec == Spec /\ Fairness

\* An accepted task ends, unless its user deletes it.
AcceptedEnds ==
  \A t \in Tasks :
    client[t] = "accepted" ~>
      task[t].status \in {"completed", "failed", "cancelled", "none"}

\* A cancelled task gets its points back, whichever command of the
\* cancellation fails first, and the refund does not stay pending.
RefundsComplete ==
  \A t \in Tasks :
    task[t].status = "cancelled" ~> held[t] = 0 /\ task[t].refund # "pending"
=============================================================================
