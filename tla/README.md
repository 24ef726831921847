# SceneGo: formal models

TLA+ models of the parts of SceneGo (创剧) where money, queues, retries and late
answers meet. On the server: the creation-point ledger, the online-provider task
queue with its workers and cancellations, the durable Jimeng jobs, the WeChat recharge
orders. In the browser: how the page learns what became of its tasks, the cards of the video
page and their regrouping, the autosave of the canvas. TLC checks them on small
instances; TLAPS proves their safety properties and the two refinements for every value
of their constants, those of the online queue within the limits section 7 states.
Paths below are
relative to `src/`; `new_html` stands for `deploy/new_html`.

- [1. The system](#1-the-system)
- [2. Modules](#2-modules)
- [3. Code and model, part by part](#3-code-and-model-part-by-part)
- [4. Runs](#4-runs)
- [5. Findings and stated limits](#5-findings-and-stated-limits)
- [6. Fairness](#6-fairness)
- [7. Proofs](#7-proofs)
- [8. What is left out](#8-what-is-left-out)
- [9. Plan](#9-plan)

To run: `tlc -config MCOnlineQueue.cfg MCOnlineQueue`, `tlapm CreditLedgerProofs.tla`.

## 1. The system

SceneGo turns scripts into storyboards, images and videos. A FastAPI backend
(`deploy/`) keeps its data in PostgreSQL and its task queue in Redis; a React
front end (`deploy/new_html/`) and a canvas (`studio/`) talk to it over HTTP
and server-sent events. `deploy/public_main.py` starts, in one process, the
routers, `ONLINE_PROVIDER_WORKERS_COUNT` (4) online-provider workers, the email
outbox loop, the recharge expiry loop (each minute), the Jimeng recovery loop
and the provider health monitor.

```
 browser ──HTTP──> routers ──> OnlineProviderTaskService.submit
                      │             │ reserve                 │ enqueue
                      │             v                         v
                      │       creation-point ledger     Redis queue <──> workers ──> providers
                      │       (PostgreSQL, row locks)   (records, ZSETs,     │ settle / release
                      │             ^     ^              Lua scripts)        │
                      │             │     └──────────────────────────────────┘
                      └──> WeChat recharge ──> credits the ledger     └──> tasks table (mirror)
```

| Component | State | Operations | What is hard | What makes it correct |
|---|---|---|---|---|
| **Creation-point ledger** `dao/business/credit.py` | `credit_accounts` (five balances), `credit_freezes`, `credit_transactions`, daily grants | reserve, settle, release, daily gift, expiry, adjustment, recharge | every statement writes each bucket by an expression of its own; two methods decide before they hold the account lock | buckets add up, frozen = reserved, nothing overdrawn, the log explains the balances, a reservation is resolved once |
| **Billing of tasks** `services/task_credit_billing_service.py`, `credit_service.py` | `_credit_billing` in the task's data; the rules table | estimate, reserve, settle, release | prices the usage twice; a failing settlement is only logged | a completed task is settled once, a failed or cancelled one refunded |
| **Online queue** `core/online_provider_queue.py`, `task_dispatch_guard.py`, `video_submission_grace.py` | record hash, `pending`, `deferred`, `cancel_refunds`, index sets | enqueue, promote, pop, claim, begin submission, complete, fail, requeue, cancel, delete | each await can interleave with every other; whole-record saves of stale reads; lost answers | no task is lost, a cancellation is final and never paid, each accepted task ends |
| **Workers and handlers** `core/online_provider_worker.py`, `online_provider_tasks.py` | a coroutine's position, the provider's id | call provider, poll, progress, complete, fail | exceptions of exception handlers; the provider has no idempotency key | bounded tries, no second paid request for a known id |
| **WeChat recharge** `services/wechat_recharge_service.py`, `dao/business/wechat_recharge.py` | `wechat_creation_point_orders`, WeChat's order | create, reuse, poll, callback, expire, sweep, settle | callbacks lost, late or repeated; a local timeout against a late payment; a row read before a slow call | credited exactly when paid, once; final states stay final; a payment is never refused |
| **Jimeng jobs** `services/jimeng_task_service.py`, `jimeng_submission_service.py`, `dao/business/jimeng_job.py` | `jimeng_jobs` (stage ledger), the account's advisory lock, the queue's record | enqueue, claim, submit, poll, persist, settle, refund, review, recover, cancel | a crash or an error between a paid submit and its record; a recovery loop that works beside the workers and without Redis | "An uncertain paid submit is never replayed"; one generation at a time; the points follow the generation; every job at stake ends |
| **Video reverse** `services/video_reverse_service.py` | attempts of an analysis, its published result | start, publish, cancel, retry, settle | an old attempt finishing after its successor started | only the current attempt publishes; settlement is repeated until it holds |
| **Content workflow** `services/content_workflow_service.py` | takes, selections with revisions, stale events | select, mark stale, resolve | idempotency key without a revision: A, B, A again | each selection change reaches what depends on it |
| **Browser task table** `new_html/services/taskRegistry.ts`, `globalTaskManager.ts`, `taskRegistryRecovery.ts`, `contexts/TaskContext.tsx` | the table of tasks in memory and session storage, polls and stream messages on their way, remembered notifications | poll, receive an event, list notifications, query, cancel, remove, restore | polls overlap; a broken stream loses messages; answers are late, and contradict each other; an earlier page's rows come back | an end once shown stays and is true; each end is told once; rows of ended tasks close |
| **Video cards** `new_html/components/VideoPage.tsx`, `services/videoTaskPoller.ts`, `videoTaskReconciliation.ts` | per card: status, videos, poller, submission, history, restore timer, saved session | submit, poll, fetch the history, cancel, save, leave, reload, open, load | every answer may come after the card has moved on; the poller outlives the page; a page loads while its timers run | a card at work stays followed, is never turned back to an older task, and shows the end |
| **Regrouping of cards** `new_html/utils/videoTaskMerge.ts` | cards with the snapshots they were merged from, their videos and results, a poll per uuid | merge, split, link, unlink, remove a shot, insert, run in a batch | tasks end, and histories come, between a merge and its split; a merge hands tasks on; a batch runs with old cards | shots keep their order, a regrouping takes no video out of sight, a result is among the videos |
| **Canvas autosave** `new_html/hooks/useWorkspaceSave.ts`, `components/WorkspaceLoadBoundary.tsx`, `studio/platform/studioSnapshotStore.ts` | the snapshot, what was acknowledged, the chain of writes, the load in progress, the record on the server | load, retry, edit, debounced save, save and leave, close | writes that fail after taking effect, undo to an older value, loads that time out | "saved" is true; the next visit opens with the work |
| **Daily quota** `core/daily_task_quota.py` | a Redis set per user, type and day, seeded from SQL | reserve, release | seeding races with reservations | never above the limit, nothing leaked |
| **Accounts and sessions** `services/*auth*`, `verification_code_service.py` | codes, sessions, versions | send, consume, revoke | single use under concurrency | a code is used once |
| **Email outbox** `dao/email_outbox.py` | leased rows | claim, send, retry | lease expiry against a slow send | every message is sent, bounded retries |
| **The rest** projects, storyboards, assets, files, script versions, episode composition, AI proxies, provider configuration, administration, the canvas nodes, UI | tables and files | CRUD, pipelines, HTTP adapters | mostly I/O | — |

`PROJECT.json` lists every component with its files and status, and each
hazard at its line.

## 2. Modules

| Module | What it is |
|---|---|
| `Sums` | sums of a function over `1..n`, as a recursive function so that TLAPS can use it |
| `Reservation` | abstract: what the ledger promises of one task: reserve, then settle or release |
| `CreditLedger` | the tables and DAO methods of the ledger |
| `CreditLedgerContract` | the refinement mapping: `CreditLedger` implements `Reservation` |
| `CreditLedgerProofs` | the inductive invariant of the ledger and its consequences; the transaction log explains every balance; one active row per task, rows resolved once, no expired gift reserved; the refinement to `Reservation` |
| `OnlineQueue` | submission, queue, dispatch, workers, handlers, cancellation, deletion, crashes; uses `Reservation` for billing (`INSTANCE`) |
| `OnlineQueueProofs` | the two inductive invariants of the queue, under faults and until the first one, and their consequences |
| `Recharge` | recharge orders, the requests that work on them, WeChat |
| `RechargeProofs` | the inductive invariant of recharge orders and its consequences |
| `JimengJob` | the jobs of one Jimeng account: submission, workers, paid submission, recovery, settlement, refund, cancellation, crashes; uses `Reservation` |
| `JimengJobProofs` | the inductive invariants of the stages and of the points, and their consequences |
| `TaskRegistry` | the operations of the browser's table of tasks, as functions from table to table |
| `TaskView` | abstract: what a user may rely on when looking at a task |
| `BrowserTasks` | the table with all that feeds it: polls, stream, list, queries, cancellations, page loads; implements `TaskView` |
| `BrowserTasksProofs` | the inductive invariant of the task table, and the refinement to `TaskView` |
| `VideoCard` | one card of the video page, its tasks, and the page opened again and again |
| `VideoCardProofs` | the inductive invariant of a card and its consequences |
| `VideoRegroup` | merging, splitting and linking cards while their tasks run, are polled and come in with histories |
| `VideoRegroupProofs` | what flattening a sequence of sequences gives, the inductive invariant of the cards, and its consequences |
| `CanvasAutosave` | load boundary, snapshot store and save hook of the canvas, over several visits |
| `CanvasAutosaveProofs` | the inductive invariant of the canvas and its consequences |
| `MC...` | one per component: sets, functions and symmetry for TLC; the `.cfg` files give the constants |

`OnlineQueue` does not carry the tables of the ledger: it uses the abstract
contract, and `ImplementsReservation` is the evidence that the tables keep it.
That is what makes it possible to check the whole queue together with its
billing. The browser modules take the server as they see it: a task is queued, runs
and ends once (which is what `OnlineQueue` checks of the server), and its end is
reported by the routes they call.

Operators whose comment begins with "Faulty:" belong to no behaviour of a
model. Each is a plausible bug in the operator that follows it, and shows that
a property can fail: with the faulty operator in its place, TLC finds the
property violated.

## 3. Code and model, part by part

### CreditLedger

`accounts`, `freezes`, `txns`, `grants` are the tables `credit_accounts`,
`credit_freezes`, `credit_transactions` (summed by `change_type`) and
`daily_creation_point_grants`; `now` is the clock. Every DAO method is one
PostgreSQL transaction that takes the account row `FOR UPDATE` before computing
with it, so it is one action. Two are not: `confirm_task_freeze` and
`release_task_freeze` lock the freeze row, compare the expiry of its gift points
with the clock, and only then wait for the account row. Each is a `...Begin` and a
`...Commit`; `pending[i]` is the open transaction in between, and `Rollback` is a
connection lost before the commit. `freeze_credits` holds an advisory lock on the
task id, which makes its search for an active freeze and its `INSERT` one step.

| Action | Code |
|---|---|
| `ExpireAvailableGifts` | `CreationPointDAO.expire_available_gifts`, run by balance reads |
| `GrantDailyGift` | `grant_daily_gift`: the caller reads the clock before it waits, so the gift of a day may commit later |
| `FreezeCredits` | `CreditLedgerDAO.freeze_credits`: expiry pass, gift points first |
| `ConfirmTaskFreezeBegin/Commit` | `confirm_task_freeze` up to and from the account lock |
| `ReleaseTaskFreezeBegin/Commit` | `release_task_freeze`, likewise |
| `AdminAdjustAccount` | `admin_adjust_account`: permanent points only |
| `CreditRecharge` | the account half of `WechatRechargeDAO.settle_order` |

A day has two readings of the clock: while gifts are granted, and its last ten
seconds, when the gift has expired. An idempotent or failing call changes
nothing and is a stuttering step.

### OnlineQueue

One action is one await: a Redis command or Lua script, an SQL transaction, or
a provider call. Its outcome `o` is `"ok"`, `"unsent"` (exception, no effect) or
`"lost"` (effect, then an exception). `worker[w].pc` is where a worker's coroutine
stands, `worker[w].depth` how many exception handlers have already run
(`Raised`): a handler calls `fail_task`, an exception in that call makes the
handler call it again, the next reaches the worker loop, which calls it a last
time, and one more ends the worker (`"dead"`).

| Actions | Code |
|---|---|
| `ReserveCredits`, `SaveNewTask`, `EnqueueWithGrace`, `PersistCreate`, `RollBackSubmission` | `OnlineProviderTaskService.submit`, `OnlineProviderQueue.enqueue`, `enqueue_with_grace`, `_persist_create` |
| `DeadlinePasses` | the ten seconds of the undo window |
| `Dequeue`, `ClaimForPreparation`, `BeginSubmission`, `RecordTaskStart` | `promote_ready` + `zpopmin`, the two dispatch scripts, the worker loop |
| `CallProvider`, `ProviderFails`, `ProviderSucceeds`, `ReadForProgress`, `SaveProgress` | the handlers; `update_progress` saves a record it read one await earlier |
| `CompleteTask` … `Publish` | `complete_task` with `consume_usage` opened up: look for a charge and price, freeze, confirm, save, index, mirror, publish |
| `FailTask` … `PersistFailed` | `fail_task`: requeue after a delay, or fail for good, release, mirror |
| `CancelTask`, `RetryCancelledRefund`, `CleanUp`, `MirrorCancelled`, `ReleaseCancelled`, `MarkRefunded`, `ForgetRefund` | `cancel_task`, `cancel_before_submission`, `finish_cancellation`, `retry_cancelled_refunds` |
| `DeleteTask` | the delete route |
| `ChangeRule` | an edit of the price rule |
| `Crash` | the process dies and restarts; Redis and PostgreSQL stay |

Three task kinds stand for all: *seedance* (undo window, keeps the provider's id),
*minimax* (undo window, does not), *tts* (no undo window).
`save_task_unless_cancelled` is `Saved`: a whole-record save that leaves a
cancelled record alone and never touches `dispatch_state` and `refund_status`,
which are not fields of `to_dict()`.

### Recharge

`order` is the row, `native` the order at WeChat, `credits` the rows of
`credit_transactions` with the order's id, `shown` the orders whose QR code the user
has seen. Each `UPDATE ... WHERE status ...` of `WechatRechargeDAO` is an operator
(`FailedOverdue`, `Failed`, `ProviderState`, `Expired`); `SettleOrder` is one
transaction. `create_recharge_order` and `get_recharge_order` are sequences of
actions with a `pc`; `get_recharge_order` reads the row once and closes and
expires the order on the strength of that reading. An order is valid, lapsed
(`expires_at`) or overdue (12 hours).

### JimengJob

As in `OnlineQueue`, one action is one await with an outcome `o`. A *runner* is a worker
or the recovery loop; `runner[r].pc` says at which command of `process_jimeng`,
`jimeng_recovery_loop` or `advance` it stands, `runner[r].then` what follows an
`update_progress` (which reads the record and saves what it read one await later).
`lock` is the PostgreSQL advisory lock of the account, which `advance` and
`enqueue_jimeng_task` only try to take. `stage` is `jimeng_jobs.stage`, `row` is
`tasks.status`, `record` the status and dispatch state of the task in Redis.

| Actions | Code |
|---|---|
| `ReserveCredits`, `LockForEnqueue`, `CreateTask`, `EnsureJob`, `SaveNewTask`, `PushTask`, `Abandon`, `RollBackSubmission` | `OnlineProviderTaskService.submit` and `enqueue_jimeng_task`: until the job exists an error releases the reservation, afterwards it leaves `refund_pending` |
| `Dequeue`, `ClaimForPreparation`, `EndAgain`, `MarkProcessing` | `dequeue` and `process_jimeng` |
| `Discover`, `LookForRecord`, `RebuildRecord` | `jimeng_recovery_loop`: the stage it listed is old when it looks for the record; a missing record is rebuilt (`restore_queue_task`) |
| `Enter`, `Transition` | `advance`: take the lock, read stage and record, choose one transition |
| `Refuse`, `CheckAccount`, `BeginSubmission`, `MarkSubmitting`, `SubmitPaid`, `ReceiveAnswer`, `RecordSubmitId`, `Review`, `WaitAgain`, `Reopen` | the transition of a waiting job up to the paid command and what is done with its answer |
| `AskJimeng`, `FailedAtJimeng`, `StillAtJimeng`, `FinishedAtJimeng`, `PersistResult` | the query of a submitted job |
| `ReleaseCredits` … `EndFailed`, `SettleCredits` … `EndCompleted` | refund and settlement, each four commands that are repeated from the first if one fails |
| `Withdraw`, `Review`, `CancelTask`, `RetryRefund`, `MirrorCancellation`, `ReleaseCancelled`, `ReportRefund` | cancellation, before the submission and after |
| `GenerationEnds`, `EditPrice`, `Crash` | Jimeng, an administrator, and a death of the process, with or without the data of Redis |

`accepted` counts the generations Jimeng has accepted for a task, whether or not
anybody learned of it. A job may begin as an earlier process left it (`Earlier`). An
exception anywhere frees the lock and is answered by `update_progress` (`Raise`).

### BrowserTasks, TaskRegistry, TaskView

`TaskRegistry` has the methods of the class as functions of a table `rows`: `update`
(`Update`, `Blend`), `register`, `complete`/`fail`/`cancel` (`Conclude`, `Overwrite`),
`mergeFromServer` (`Merged`), `remove`, `rehydrate` and `collapseBackendDuplicate`
(`Collapsed`). A row is known by the id it was registered under; a row of an
earlier version of the page carries the id of the server's task in its metadata
and hides the row of that id. Every method persists before it returns, so the
stored table is the table.

| Actions | Code |
|---|---|
| `PollStarts`, `ActiveAnswered`, `ReportAnswered`, `PollEnds` | `GlobalTaskManager.poll`: the time it began, the two requests, and what is done when both are answered: the handlers of `tasks_updated` and `tasks_terminal`, the baseline, the notifications |
| `StreamOpens`, `StreamBreaks`, `StreamDelivers` | `trySSE`, `onerror`, `handleSSEMessage` |
| `ListAnswered`, `ListEnds` | `refreshNotifications` with `mapNotificationToTask` and `mergeFromServer` |
| `CancelAnswered`, `CancelEnds`, `RemoveRow` | `cancelTask`, `removeTask` of `TaskContext` |
| `Watch`, `Unwatch`, `QueryAnswered`, `QueryEnds` | `startVideoPoll`, `stopVideoPoll`, `buildPollFn`, also when the task does not exist any more (`TASK_NOT_FOUND`) |
| `AskedFor`, `RecoveryFails` (with `QueryAnswered`, `QueryEnds`) | `recoverSubmittedRegistryTasks` |
| `Reload` | a new page: `rehydrate`, with any set of rows that are past their age |
| `Ages` | 60 seconds, the reach of a poll behind the last one, have passed |

`TaskView` is the promise the detailed module is shown to keep, with `view` mapped
to what the table shows of each task.

### VideoCard

The status of one card (`tasksStatus[uuid]`), its videos, and everything that is
on its way for it. React's effects are part of the action that changes the cards:
`CardsChange` attaches the poller's callbacks and asks for a new history. A
submission is `Submit` (cards are set), `Saved`/`NotSaved` (the session is saved
first), `Reaches` (the server creates the task), then `Accepted`, `Refused` (too
few points: the card is put back as it was) or `Errs`. `HistoryEnds` is
`reconcileActiveVideoTasks` with the effect that stops or resumes pollers. A poller lives
outside the page: `Leave` unmounts the page and leaves it running, unheard;
`Reload` loses it. It stops at the end of its task, or when a query is answered
`TASK_NOT_FOUND`, which may be said of a task that lives (a record was deleted, or one
store does not have it and the other could not be read); the card then counts as failed.
`loadSession` is two actions, as it awaits `getProjectVideoTasks`: `Open` reads the session and sets the
restore timer, `Loaded` shows the cards; `loading` is true in between, in which
`RestoreTimer` finds no card and does nothing.

### VideoRegroup

`cards` is `taskGroups`: each card has its uuid (the sequence of shots it was
first made of), its shots, and the snapshots (`parts`) of the cards it was made of,
with the status each had then. `Merge`, `Split`, `RemoveShot`, `Link`, `Unlink`, `Insert`,
`RemoveCard` are the page's operations of those names (`mergeWithNext`,
`splitMergedCard`, …); `Combined`, `Delta`, `Partitioned` the functions of
`videoTaskMerge.ts`. A task knows the uuid it was submitted under, whatever has become
of the card, and so does its poll: `polls` has the task polled under each uuid, and
`Attached` is the effect that, whenever the cards change, has each poll name its task in the status of
its uuid, be there a card or not. `Run` is a submission that was answered, `Progress` and `PollEnds` are the
callbacks. `History` is `reconcileActiveVideoTasks` over all cards, with the polls it stops
and resumes. `MatchedTo` says whose a task is: the card's of its uuid; if there is none,
of the card whose first shot has its video segment (if the segments could be read); and else of the card that
names it (`groupByTaskId`), which need not be the one it was made for, since a merge hands
on the first status there is with its task. Therefore a video may be shown by another card than the one that
asked for it, and no property says otherwise.

A submission sets `taskGroups` to the list it was called with. For a batch (`runAllSelected`,
`runAllPending`) that is the list of the moment the batch was started: `held`, which
`Run` writes back over whatever was regrouped since.

### CanvasAutosave

`stored` is what the server has of an episode: no board, a board without a state record,
an empty record, a snapshot, or something that cannot be read. `load` is the request
`loadSnapshot` waits for (list, create board, detail, create record, read), each with
its failure, after which it may have taken effect or not. `page` is what `WorkspaceLoadBoundary`
shows; its timer may give up on a load that goes on. Of `useWorkspaceSave`:
`queue` is the chain of `saveTail`, its last element `pending.current`; `Persist` is
`persist`; `SaveNow` is `saveNow`, whose wait for the writes is the field `awaited`.
`work` is an auxiliary variable: the values the user may expect to find again.

## 4. Runs

`CHECK_DEADLOCK FALSE` everywhere: the systems really may stop. A task ends and
its user does nothing more, orders run out, the bounded clock stands still. That
tasks and payments do not stop too early is what the liveness properties say.

| Run | Instance | States | What it shows |
|---|---|---|---|
| `credit_ledger` | 1 account, 2 tasks, amounts 1–2, 2 freezes, 1 top-up, 4 readings of the clock | 125,707 | `BucketsAddUp`, `FrozenIsReserved`, `NoOverdraft`, `LedgerReconciles`, and the refinement `ImplementsReservation` |
| `queue_calm` | 1 task of any kind, 2 workers, 2 cancellations, prices 0–2 with an edit, 3 tries, deletion, no faults, fair | 116,302 | `NoLostTask`, `EndedIsSettled`, `OutcomeMirrored`, `KnownNotResubmitted`, `AcceptedEnds` |
| `queue_faults` | the same, prices 0–1, any 2 faults, 2 tries, no deletion, fair | 347,785 | `CancelledUnpaid`, `CancelIsFinal`, `RefundsComplete` under failing commands, lost answers and crashes |
| `recharge` | 1 order, 2 creating and 2 polling requests, 2 faults, fair | 357,493 | `CreditedIffPaid`, `OutcomeIsFinal`; `PaidIsCredited` by polling alone |
| `jimeng_jobs` | 2 jobs, one of them left by an earlier process, completed or in review, 1 worker and the recovery loop, any 2 faults or crashes, fair | 197,865 | `PaidOnce`, `OneAtJimeng`, `PointsFollowOutcome`; `JobsEnd` |
| `browser_tasks` | 1 task, 1 row of an earlier page, 1 poll, fair | 76,642 | `OneRowPerTask`, `ToldOnce`, the refinement `ViewImplemented`; `OpenRowsClose` |
| `video_cards` | 1 card, 2 tasks | 2,060,393 | `StaysFollowed`, `NeverTurnsBack`, `OutcomeShown` |
| `video_regroup` | 2 shots, one of them inserted later, 2 tasks, pairs and batches | 332,921 | `ResultIsShown`, `RegroupingKeepsVideos` |
| `canvas_autosave` | 3 visits, 4 edits, 2 failing requests, values with and without `data:` URLs, fair | 435,987 | `SavedIsStored`, `ReopenShowsWork`, `SaveSettles` |
| `gift_expiry_race`, `queue_double_charge`, `video_late_cancel` | | | violations, section 5 |

Why the bounds are enough:

- **Ledger.** The account is the unit of locking, so one account with two tasks
  has every conflict there is; two freezes let one task reserve again after a
  settlement while the other task's transaction is open. Four readings of the
  clock give two gift days, so that points reserved on one day are refunded
  on the next. The theorems of section 7 lift all bounds for the invariants
  they cover.
- **Queue.** Records of different tasks share no key, only workers, so one task
  with two workers shows the races on a record; a second task would only keep
  workers busy. Two workers are needed for a task that is taken twice, two
  finishers for a cancelling request against the retry loop. Three tries are the
  default of the code; under faults two show a first and a repeated one.
  `MaxCalls` caps the generations of a task: with a lost acknowledgement two workers
  can undo each other's retry counter without end (section 5).
- **Recharge.** Orders meet only where a request looks for a reusable one; one order
  with two creators, two pollers, callback and sweep has the reuse (the second
  creator finds the first one's order) and the races on a row. The theorems hold
  for any number of orders.
- **Jimeng.** The account's lock admits one transition at a time, so one worker beside the
  recovery loop and the cancelling user has every race on a job. Of the second job only
  whether it blocks the account matters to the first: one in review does, and may still be
  generating, a completed one does not. Two faults let a command fail and the process die
  over it, or die twice. The theorems hold for any number of jobs at any stage, workers and
  faults. `MaxAccepted` lets Jimeng accept one generation more than `PaidOnce` allows.
- **Browser tasks.** The table treats each task by itself, and the polls carry
  answers about all; one task, with and without a row of an earlier page, has every
  order of answers. One poll on its way leaves room for the stream, the list, the
  query and the cancellation to overtake it; that polls may overtake each other is
  part of the theorems of section 7, which hold for any number of them.
- **Video cards.** Two tasks are needed for an answer about the one to come when the
  card follows the other. The theorems hold for any number.
- **Regrouping.** Two shots can be merged, linked and taken apart in either order, and the second
  may come later. Two tasks can run under two cards, or one before a merge and one after, or
  be handed on by it. That a shot in the middle of a merged card is removed, or a merged card
  merged again, needs a third shot, which with its tasks and pairs is beyond the time of a run: the theorems
  cover it, for any storyboard. A batch is over with the last task there is.
- **Canvas.** A write, an undo to the value before it and a second write of that value
  take three edits; a fourth happens while the user waits to leave. The third visit
  opens what the second left when the first had failed.

### The properties

- `BucketsAddUp`, `FrozenIsReserved`, `NoOverdraft`: no column has a `CHECK`, and
  no statement recomputes a balance from its parts.
- `LedgerReconciles`: the transaction log explains every balance, expired
  refunds included.
- `ImplementsReservation`: what the tables reserve for a task behaves as `Reservation`
  says, although a settlement waits for the account with a row it has read before.
- `CancelledUnpaid`: a worker that popped the task before the cancellation is
  stopped by the submission script, and a cancellation after that script is
  refused; a completed refund leaves nothing reserved.
- `CancelIsFinal`: no late save of a worker brings the task back.
- `RefundsComplete`: `refund_status` gets there, whichever command of a cancellation fails.
- `NoLostTask`, `EndedIsSettled`, `OutcomeMirrored`: stated of moments at which
  nobody is in the middle of anything with the task (`Quiet`).
- `CreditedIffPaid`, `OutcomeIsFinal`, `PaidIsCredited`: a lapsed order is not
  queried again until the sweep has marked it as timed out, which is the only thing
  that makes a lost callback harmless.
- `PaidOnce`: between the commit of the intent and the commit of the id nobody knows
  whether Jimeng was paid, and whoever finds the job there afterwards, worker or recovery, with
  or without a record in Redis, must leave it to an operator. `OneAtJimeng`: also when
  nobody knows what became of the generation before.
- `PointsFollowOutcome`: relates the reservation to what Jimeng did, across refusal, cancellation,
  refund, settlement and review. `JobsEnd`: a job at stake comes to an end without
  Redis, without a worker and after any fault.
- `ViewImplemented`: completed and cancelled work is shown only when it is true, and
  is never resurrected by an answer given earlier. `OneRowPerTask`: whatever speaks of
  a task first after a page load. `ToldOnce`: also when the first poll, which tells
  nothing, fails or overlaps with the second.
- `OpenRowsClose`: a row that is open when its task ends does not stay open, though the
  stream loses messages; the polls, which reach back 60 seconds, must find it. The poller
  of a card stops with it.
- `StaysFollowed`, `NeverTurnsBack`, `OutcomeShown`: together they say that a card
  at work that is followed will show the end of its newest task, or that it is gone; that the poller gets its answer is the
  browser's timer. `StaysFollowed` excepts one step, the one in which a page that
  was slower than its restore timer shows its cards (section 5).
- `RegroupingKeepsVideos`: what was generated between a merge and a split has to go
  somewhere, whatever task ended or history came in between; the shots keep their order.
  `ResultIsShown`: the chosen result, which goes into the film, may belong to a part that
  leaves, be handed on by a merge, or be set by a poll that knows only a uuid.
- `SavedIsStored`: a failed write may have taken effect, which is why a new write
  withdraws the acknowledgement. `ReopenShowsWork`: leaving waits for the newest value,
  not for the one that was clicked on. `SaveSettles`: a change ends saved or as an error.

## 5. Findings and stated limits

Each run below ends with a counterexample; `PROJECT.json` quotes the line the
code disagrees with.

| Run | Property | What happens |
|---|---|---|
| `gift_expiry_race` | `GiftPointsExpire` | A settlement judges the expiry of its gift points before the expiry instant, then waits for the account row; meanwhile another request expires the account's gift and clears `gift_expires_at`. The refund puts gift points in a bucket without expiry. |
| `queue_double_charge` | `ChargedOnce` | A lost acknowledgement of the `ZADD` in `fail_task`: the second `fail_task` writes *queued* over the record of a worker that has already claimed the task; two workers run and settle it. |
| `video_late_cancel` | `CancelSparesReplacement` | The server cancels a task, the history tells the page so before the answer comes, the user submits again; the late answer then stops the poller of the new task and blanks its card. |

What a passing run shows and what it does not:

- **Queue under faults.** `NoLostTask`, `EndedIsSettled` and `KnownNotResubmitted` are about runs
  without failing commands. With one: a crash between `ZPOPMIN` and the claim
  leaves a record that says *queued* in no queue (`deploy/core/online_provider_queue.py:117`;
  `deploy/core/video_submission_grace.py:43` says a recreated worker "resumes the same
  records"). If both `fail_task` calls of a handler raise, the worker loop's call
  requeues a task whose provider id is known (`online_provider_worker.py:140`, against
  `online_provider_tasks.py:330`: "must not enqueue a new paid generation"). A
  settlement that fails is only logged (`online_provider_queue.py:155`), and if a
  command after it raises, the completed record becomes a failed one that is charged.
- **Edited prices.** The settlement prices the usage again (`credit_service.py:397`). If a
  rule is edited or disabled while its task is queued, the second price conflicts with the
  reservation or settles nothing, the error is logged, and the points of a completed task
  stay frozen. `docs/architecture/admin-billing-contract.md:26` says that price changes do
  not alter existing reservations. `EndedIsSettled` excepts tasks whose price was edited.
- **Cancellation before the row exists.** A task cancelled before `_persist_create` has
  inserted its row updates no row (`task_dispatch_guard.py:103`), counts as completely
  cancelled, and its row later says *pending*. `OutcomeMirrored` is about completed and
  failed tasks.
- **Deletion under faults.** If an ended record is deleted between the read and the save of the
  `fail_task` that follows a lost answer, the save brings it back without `dispatch_state`, and a submitted
  task can be cancelled; `queue_faults` runs without deletion.
- **Retries.** After a lost acknowledgement two workers can share a task; each
  `update_progress` writes back the retry counter it read, so that the limit on tries
  no longer bounds the number of paid requests.
- **Recharge.** If `mark_order_ready` commits and its answer is lost, another request may hand
  the stored code to the user before `mark_order_failed` runs; that payment can never be
  settled (`wechat_recharge_service.py:268`). `PaidIsCredited` excepts orders that failed
  in this way. No text of the repository promises otherwise.
- **Jimeng records rebuilt too late.** The recovery loop lists a waiting job, finds no
  record (it was lost with Redis, or could not be read, or the submission has not yet written it), and rebuilds it as
  *preparing* by the stage it had listed, outside the account lock (`jimeng_task_service.py:234`,
  `:237`). If a worker has begun the submission meanwhile, the rebuilt record can be
  cancelled, and the points of a paid generation are returned; the job itself goes to review.
  `routers/online_provider_tasks.py:183` tells the user that a submitted task cannot be
  cancelled. `PointsFollowOutcome` excepts such tasks (`overwritten`); for every other rebuilt
  record it holds.
- **Jimeng jobs that stay.** A waiting job whose record says *queued* and is in no queue
  (a crash between `zpopmin` and the claim, or an `update_progress` that writes back *queued*) is
  refused by `begin_submission` for ever: its points stay reserved, nothing was paid, and
  the user can cancel it; `JobsEnd` is about jobs at stake. If a price is edited between reservation and
  settlement, the job stays at `settling` and keeps the account busy; if a refund was
  due when the user cancelled, the job goes to review though nothing was submitted, or,
  if Redis is lost in addition, is skipped for ever. `JobsEnd` excepts both.
- **Jimeng jobs refused although committed.** If `ensure` commits and its answer is lost, the
  submission releases the points and the recovery generates all the same;
  `PointsFollowOutcome` excepts tasks whose submission was answered with an error.
- **Tasks cancelled in another page.** The feed of ended tasks names only completed and failed
  ones (`deploy/dao/business/task.py:307`), though `new_html/__tests__/services/globalTaskManager.test.ts:32`
  expects it to name cancelled ones. A row that no poller follows stays open until the
  page is loaded again and finds it too old; `OpenRowsClose` is about completed and failed tasks.
- **Late answers on a card.** `video_cards` and the theorems assume `~ LateAnswers`. It excludes two
  answers: the refusal of a submission for lack of points, when the card was at work or
  has found a poller meanwhile (it would put an old status over what the poller follows),
  and the answer to a cancellation when the poller has moved on (the finding above).
- **A page slower than its timer.** `loadSession` sets the 500 ms restore timer
  (`new_html/components/VideoPage.tsx:1398`) before it awaits `getProjectVideoTasks` (`:1423`) and
  shows the restored cards after it. If the answer takes longer, the timer finds no card and
  returns (`:1404`), and the card is then shown at work with neither poller nor timer. Only a
  history that is answered and names the task repairs it. `docs/architecture/video-task-state-recovery.md:5`
  says that reloading must reconcile the snapshot with the task API. `VideoCard` reaches this, `StaysFollowed` excepts it;
  `RestoredIsReconciled`, in place of the invariants of `MCVideoCard.cfg`, shows it. A page whose
  session cannot be read stays at `loading`.
- **One task, two polls.** A merge of a card without a status and one at work hands the task on
  to the uuid of the first (`new_html/utils/videoTaskMerge.ts:328`), the history matches the
  task there by its id and polls it there, beside the poll under the second uuid
  (`VideoPage.tsx:3589`). After a split both cards are at work on it, and the
  first shows a video made for the second; or a history that gives the ended task to one of them
  stops both polls, and the other stays at work.
  `docs/architecture/video-task-state-recovery.md:15` says that a poll belongs to one card. `OnePoll`, in
  place of the invariants of `MCVideoRegroup.cfg`, shows it.
- **A batch over old cards.** `executeTask` sets `taskGroups` to the list of the render its batch was started in
  (`VideoPage.tsx:3007`), as does a single run whose video segment is slow. A merged card that
  was split meanwhile comes back, and what its parts have made since is out of sight, though
  `videoTaskMerge.ts:319` says that all videos are immutable history. `VideosStay`, in
  place of the properties of `MCVideoRegroup.cfg`, shows it;
  `RegroupingKeepsVideos` is about the time in which no batch goes on.
- **A card saved in the middle of a submission** comes back as pending without a task,
  until a history names the task; a card that failed by a lost answer whose task lives
  stays failed until then.
- **Deleting a video** (`new_html/components/VideoPage.tsx:2606`) takes the video's position before it
  awaits the server, and the history brings a video back that the server still has; `VideoRegroup`
  keeps videos as sets and does not model it.
- **Canvas.** After a failed save nothing is tried again until the next edit or until the user
  leaves. Two tabs can each create a board or record, or overwrite each other's snapshots:
  the store refuses two records when it reads, nothing prevents them.

## 6. Fairness

- `OnlineQueue!FairSpec`: weak fairness of each submission that has begun, of each
  worker's next step and each cancellation's next command (coroutines of a
  running event loop are scheduled again), of the closing of the undo window (a
  clock), and of the refund retry (each `dequeue` of an idle worker calls
  `retry_cancelled_refunds`, and workers call it in a loop). Strong fairness that a
  generation ends: handlers poll until a `max_wait`, however many progress
  reports interrupt them. Fairness is stated of the outcome `"ok"` only: no
  command is forced to fail, and none has to succeed more often than the faults
  allow it to fail. Users, administrators and crashes are not fair.
- `Recharge!FairSpec`: time passes, the sweep runs each minute, a request that has
  begun goes on. Strong fairness of asking and being answered, by whichever request,
  stands for a user interface that polls the order and a provider that can be
  reached again and again. Callback and payment are not fair.
- `JimengJob!FairSpec`: weak fairness of each submission that has begun and of each runner's
  next command (coroutines go on, and the lock is only tried, never waited for), and
  that Jimeng ends what it accepted. Strong fairness that the recovery loop comes to each job
  that is due: it lists ten of them every 30 seconds, and those that are not waiting
  first (`JimengJobDAO.due`). Workers need not take anything from the queue, and users and
  administrators are not fair; faults are bounded.
- `BrowserTasks!Spec`: weak fairness of a poll's start (an interval timer), of each answer being
  applied, of status queries (an interval timer each), and of the end of a cancellation that was
  answered. Strong fairness that the report of ended tasks succeeds: it is asked for again and
  again, and the network is not down for ever. `OpenRowsClose` speaks of behaviours in which the
  page is not reloaded for ever. Users, the stream and the server's tasks are not fair.
- `CanvasAutosave!Spec`: weak fairness of the debounce timer and of a request's being
  answered, well or badly. Users are not fair.
- `VideoCard` and `VideoRegroup` state no liveness and no fairness: what a card needs, a
  poller that is heard or a timer that will start one, is the action property `StaysFollowed`.

## 7. Proofs

All proofs are checked by `tlapm` with no step left open. They assume the `ASSUME`s
of the modules: amounts are positive naturals, bounds are naturals, `None` is no
order; for the canvas, that stripping and opening a snapshot are idempotent, that a stripped
one stays stripped when it is opened, and that neither changes the default workspace; for the task table, that `Tasks` and `Locals` are
disjoint and that at most one row links to a task; for the cards, in the theorems that
name it, `~ LateAnswers` (section 5); for their regrouping, that the storyboard has finitely
many shots. Nothing else: accounts, tasks, features, orders and requests are any
sets, and the numbers of rows, faults and clock readings are any numbers. The theorems about the
queue say in their statements what more they need: `~ WithDeletion`, `faults = 0` or
`MaxFaults = 0`, explained there.

**CreditLedgerProofs.** `Sum(f, n)` is a recursive function. By induction on `n`
(`IntervalInduction`: the induction predicate is given as a set, since the
theorems that take an operator are out of the provers' reach): a sum of naturals is a natural, each summand is at
most the sum, and changing one summand changes the sum by the difference.

The invariant of interest is not inductive: that a
settlement leaves no bucket negative needs to know that the account's frozen
buckets contain what the row reserves. `LedgerInv` is `TypeOK`, `BucketsAddUp`,
`FrozenIsReserved`, `NoOverdraft`, `OpenTransactionsAreCurrent` and `RowsAddUp`
(a row is the sum of its parts, on an account that exists). The key step is
`FrozenIsReserved`: a sum over rows of which one changes (`HeldUpdate`), from
which `HeldBounds` gives the non-negativity. There is one lemma per action;
`RowChange` (actions that leave the freezes alone), `ReservationChange`
(actions that touch one freeze), `PendingChange` (locking and rollback) and
`ResolveStep` (both commits) carry what they share.

The log explains the balances: `LedgerReconciles` says of each account that its
balance is what its log adds up to (`Explains`). `LedgerInv /\ LedgerReconciles` is
inductive: a settlement reconciles only because the row it settles is active,
is the sum of its parts and covers the final amount, which is `LedgerInv`. `Entry`
carries what all operations share (one account and its log change); each
operation that writes a balance has one lemma that compares the two.

| Theorem | Says |
|---|---|
| `LedgerInvariant` | `Spec => []LedgerInv` |
| `LedgerTypeCorrect`, `LedgerBucketsAddUp`, `LedgerFrozenIsReserved`, `LedgerNoOverdraft`, `LedgerOpenTransactionsAreCurrent` | its parts, invariants of the run `credit_ledger` and the currency of open transactions |
| `LedgerLogReconciles` | `Spec => []LedgerReconciles` |

Last, the refinement. `StepOfRows` reduces the eleven actions to what they do to
`credit_freezes`: nothing, one row inserted (`Reserves`), or one active row resolved
(`Resolves`). `ContractInv` adds to `LedgerInv` that a task has one active row, that an active row
reserves something for some task, and that a row not inserted yet is empty. The
refinement maps `held[t]` to the sum over the active rows of `t`; with one active
row that sum is its amount (`HoldsOneRow`), without one it is 0 (`HoldsNothing`), and when
one row changes the sums change by its part (`SummandUpdate`).

| Theorem | Says |
|---|---|
| `LedgerOneActiveFreezePerTask` | `Spec => []OneActiveFreezePerTask` |
| `LedgerResolvedOnce`, `LedgerNoExpiredGiftReserved` | two action properties: a row is resolved once, and no reservation takes gift points past their expiry |
| `LedgerImplementsReservation` | `Spec => ImplementsReservation`, the refinement `OnlineQueue` relies on |

**OnlineQueueProofs.** Two invariants, since two things are true of the queue. (Before they were
proved, TLC checked both on one task, two workers, two finishers, prices 0 to 2, three tries and
an edit of the rule: without faults and with deletion, 59,506 states; with two faults and without
deletion, 513,814.)

`Guarded` holds under any number of faults and crashes. It says that nobody who works on a record is at
odds with its marks: the script that begins a submission marks the record as submitted, the one that
cancels refuses a record so marked, only a marked record is paid for or charged, and a worker past the
mark has a record that bears it. Marks are never taken back (`Ratchet`) as long as records are not
deleted, hence `~ WithDeletion`: a deletion takes the mark away, and
after a fault the late save of a worker can bring the record back without it (section 5). One lemma per group of actions shows that a step is a
ratchet, one per actor that a ratchet by others leaves that actor in its place.

`Calm` is the invariant of a run until its first failing command, with deletions and edits of the
price. `Token` says that a task is in exactly one pair of hands: those of its submission, of the pending or the
deferred set, or of one worker (`Sole`); being `Free` of all of them, it is at rest. What the hands are doing then fixes what record, row
and reservation must say: `Dues` (what is held and charged at each status), `Marks`, `Row` (the mirror in SQL),
`Kept` (a known id is in nobody's way who might submit again), and for a worker `Placed`, `Purse` and `Knows`. None of
the three properties of `queue_calm` is inductive without this: `NoLostTask` needs that
a popped task is put back by the one worker that has it, `EndedIsSettled` that what was quoted is what was reserved,
`OutcomeMirrored` that a row is written by the hands that ended the task. `faults = 0` is the limit of what the
code promises, not of the proof: a failing command loses a task between two of them, leaves a row unwritten, or has
a retry submit again (section 5), and a crash counts as a fault.

| Theorem | Says |
|---|---|
| `QueueTypeCorrect`, `QueueCancelIsFinal` | under any faults, with deletion: the shapes, and that no step turns a cancelled task into anything else |
| `QueueGuardInvariant`, `QueueCancelledUnpaid` | under any faults, `~ WithDeletion`: `Spec => []Guarded` and `Spec => []CancelledUnpaid` |
| `QueueCalmInvariant` | `Spec => []Calm` |
| `QueueNoLostTask`, `QueueEndedIsSettled`, `QueueOutcomeMirrored`, `QueueCancelledUnpaidEarly` | `Spec => [](faults = 0 => ...)`, with deletion: the properties of the run `queue_calm` in any run until its first fault |
| `QueueKnownNotResubmittedEarly`, `QueueKnownNotResubmitted` | no step before the first fault submits a task whose id is known; with `MaxFaults = 0`, the action property as the run states it |

**RechargeProofs.** The inductive invariant is `TypeOK`, `CreditedIffPaid` and
`Named` (a request that is working on an order names one). One lemma shows that
each guarded `UPDATE` leaves paid and other final orders alone
(`StatementsAreHarmless`), one that a settlement credits exactly once
(`SettleIsSound`).

| Theorem | Says |
|---|---|
| `CreditInvariant` | the inductive invariant holds, for any number of orders, requests and faults |
| `RechargeTypeCorrect`, `RechargeCreditedIffPaid`, `RechargeOutcomeIsFinal` | the safety properties of the run `recharge` |

**JimengJobProofs.** None of the properties is inductive. `StageInv` relates the stage of a job, the
generation at Jimeng and the one coroutine that may be working on it: whoever holds the account
stands inside a transition of the job (`Manned`, `Placed`), each stage fits what Jimeng has of the
task (`Fits`: a waiting job has no generation, a refunded one none that succeeds or still works,
a settled one a success), a coroutine about to pay stands there with the lock, the intent committed,
nothing accepted and no other job of the account at stake (`Placed`), and a submission holds the
lock while its job is its own (`Submits`). `PaidOnce` follows since only such a coroutine pays and leaves the stage
behind, `OneAtJimeng` because it has found the account idle and still holds the lock. `Queued` says that what is in
the queue has a job. `PointsInv` adds the reservation: what record, row and finisher of a cancelled task
say agrees (`Recorded`); whoever is about to pay has a record that can no longer be cancelled, and a
recovery that finds none has not missed a generation (`Watched`); and while a generation works or
has succeeded its task cannot be cancelled and keeps its points, which only a cancelled row or a
stage on the way out gives back (`Balanced`, `Kept`, `Leaving`). Frame lemmas say what a step that touches one
job, one runner or one record leaves alone; then there is one lemma per group of actions.

| Theorem | Says |
|---|---|
| `JimengInvariant`, `JimengPointsInvariant` | the two inductive invariants, for any jobs, workers, faults and crashes |
| `JimengTypeCorrect`, `JimengPaidOnce`, `JimengOneAtJimeng`, `JimengPointsFollowOutcome` | the safety properties of the run `jimeng_jobs` |

**BrowserTasksProofs.** One lemma per operation of the registry says that it leaves a good
table (`Good`: `Alone`, no duplicate of a linked row; `Truthful`, completed and cancelled
rows are so on the server) and keeps what is shown as over (`Keeps`). `RowwiseIsGood`, `AddressedIsGood` and
`ShrinkingIsGood` carry what the operations share. They need that the news are true, which is the
second part of the invariant: everything on its way about the end of a task, in a poll, a
message, a list, a query or a cancellation, is what the server says (`News`); it stays true because
the server decides once. The third part is about toasts: one that was shown is remembered, and until a poll
has succeeded every poll is a baseline that is told of all bygone ends (`BaselineFirst`); this is what makes
overlapping first polls harmless. The refinement then follows step by step, since no step
moves both the server and the table (`NewsTravel`).

| Theorem | Says |
|---|---|
| `BrowserInvariant`, `BrowserTypeCorrect` | the invariant holds, for any tasks, linked rows and polls |
| `BrowserOneRowPerTask`, `BrowserToldOnce` | safety properties of the run `browser_tasks`, also for polls that overlap |
| `BrowserViewImplemented` | `Spec => ViewImplemented`, the refinement to `TaskView` |

**VideoCardProofs.** That a card stays followed does not follow from its being so now. The invariant adds what
makes it so: how the card, the poller, the submission and the session name tasks the
server knows (`PollerKnown`, `SubmissionKnown`, `TasksKnown`, `Numbered`), that an answer
in hand and a history agree with the server's final word (`HistoryKnown`), that an
open page hears its poller, a closed one has nothing on its way, and one that loads waits for no history,
submission or cancellation (`PageClosed`), that the
card never names a task older than the one its poller follows (`CardLeads`), and that a history
that has come in covers the task the poller follows, unless the card is at work on it and no
submission is on its way (`HistoryFresh`). One lemma per group of actions, one step per conjunct.

| Theorem | Says |
|---|---|
| `CardInvariant`, `CardTypeCorrect` | the invariant holds, for any number of tasks |
| `CardStaysFollowed`, `CardNeverTurnsBack`, `CardOutcomeShown` | the properties of the run `video_cards` |

**VideoRegroupProofs.** That a result is among the videos beside it is not inductive: a split
gives each part the status it had when it was merged, with what was generated since for the first, and a batch may
bring back cards of long ago. `RegroupInv` says what makes that right. The shots of all cards together
repeat nothing. Every card is `Whole`: a single card is its uuid; any other has the shots of its parts, in order,
each part a shot known by it whose result is among its own videos (`PartFit`), and a uuid that begins with its first shot, so that uuids
of different cards differ. The lists of cards a batch may bring back (`held`) are as sound as the cards themselves. And the status
of every uuid, whether a card bears it or not, has its result among its videos (`Picked`), since a card may come back
under it.

The library has no theorem about `FlattenSeq`; the module proves what it
needs by induction over sequences (type, concatenation, where each element goes). Then one
lemma, `RegroupStep`, covers any replacement of neighbouring cards by whole ones that have the same shots in the same
order and keep the videos in sight, whatever polls run (`AttachedFacts`). `JoinStep` shows that merging and linking are such a replacement, `ApartStep` that splitting
and unlinking are, `RemoveShotStep` that taking one shot out of a merged card is; `CardByCard` treats insertion
and removal of cards, `SoundCards` the tasks, batches and callbacks, `HistoryStep` the reconciliation for any
matching of tasks to cards.

| Theorem | Says |
|---|---|
| `RegroupInvariant`, `RegroupTypeCorrect` | the invariant holds, for any storyboard, any number of tasks and any limit of images |
| `RegroupResultShown`, `RegroupKeepsVideos` | the properties of the run `video_regroup` |

**CanvasAutosaveProofs.** The invariant is `TypeOK`; that an editor holds a value and a closed page
nothing (`EditorMounted`); that a load creates only what is missing (`MakesWhatIsMissing`); that while
a write is queued nothing is acknowledged, and that what is acknowledged is stored
(`AckIsLast`); and that the server holds, stripped, a value the user may expect (`Expected`).
`AckIsLast` is the heart: it holds because a new write withdraws the acknowledgement, so
that a failed write of unknown effect leaves none.

| Theorem | Says |
|---|---|
| `CanvasInvariant`, `CanvasTypeCorrect` | the invariant holds, for any values, visits, edits and failures |
| `CanvasSavedIsStored`, `CanvasReopenShowsWork` | the safety properties of the run `canvas_autosave` |

Every safety property of the passing runs is proved, and so are the two refinements. Only
model-checked: the liveness properties (`AcceptedEnds`, `RefundsComplete`,
`PaidIsCredited`, `JobsEnd`, `OpenRowsClose`, `SaveSettles`), which need fairness and
`ENABLED` and are outside what the installed provers do.

## 8. What is left out

Within the modelled parts:

- prices: a price is a number that an edit of the rule may change; the
  arithmetic of `credit_service.estimate` and of recharge quotes is not modelled;
- in the queue: priorities (any pending task may be popped), the index sets and
  the user index (they decide nothing), daily quotas, the texts of errors, a second
  process on the same Redis, tasks of the Jimeng type (`JimengJob`);
- the failure of an SQL write whose error the code swallows is modelled where the
  row is created and cancelled, not where it is marked as processing or ended:
  `OutcomeMirrored` is about runs without faults;
- in recharge: quotes, signatures, the eight-second limit on queries (as a free
  choice), failing commands of polling requests and callbacks (a request that
  fails is a request that stops, which a crash covers);
- PostgreSQL's locks and Redis' scripts are atomic, as the code relies on;
- in `JimengJob`: the account's binding and its change, what is checked before the submission
  (a free choice to refuse), the CLI process and its files, a paid command that outlives
  the server and is accepted after its restart, the loss of the lock's connection alone, a second server process, retries and deletion of ended records;
- in `BrowserTasks`: the pollers of the image and audio pages (`taskRecovery.ts`,
  `ttsTaskPoller.ts`; `apiTaskQueue.ts` is imported by no module), rows dismissed or cleared in bulk, the limits of 20 and 50
  on reported tasks, the limit of 300 on remembered notifications
  (`globalTaskManager.ts:304`: what is forgotten could be told again if a poll still reached back to it), and the text and progress of a row.
  A poller and a recovery of one task share the query that is on its way;
- in `VideoCard`: batches (`VideoRegroup` has them); the fallback that reads
  single tasks when the history is missing some; which of the videos a session had saved
  (any); a page left while a submission or a cancellation is on its way; the deletion of a task's record,
  which stays in the histories although a query says it is missing. The two late answers of section 5 are in the
  model, but not in the run and theorems of its properties;
- in `VideoRegroup`: the limit of 12 videos, the deletion of a video, texts, images and models (and the guards on them), old
  pairs without the field that says what they were made of, pairs made twice of the same shots beyond
  their having one uuid, the merge dialog's selection going stale, the choice of a card (which makes an empty status),
  the session, submissions that are refused or fail (in a batch they too set the cards back), histories that are older than the tasks or cut off. Shots have one video
  segment each, and their pictures and texts do not change;
- in `CanvasAutosave`: two pages at once, requests that take effect after the page is gone or
  after an error was answered, deletion of the board by others, nodes, groups and undo as
  data (any change leads to any value).

Not modelled: video reverse, content workflow, daily quota, accounts, the email outbox
(section 9). Not planned: the CRUD and I/O
parts listed in `PROJECT.json`, and the stale-task reaper
(`services/task_stale_reaper.py`), which nothing in the public runtime calls. Most of
the repository's lines are pages, forms and adapters of these kinds.

## 9. Plan

Done, in this order: `CreditLedger` and its invariant with proof; `Reservation` and
the refinement, also proved; `OnlineQueue` on top of `Reservation`; `Recharge` with proofs;
`TaskRegistry`, `BrowserTasks` and `TaskView` with proofs; `VideoCard` with proofs; `VideoRegroup`; `CanvasAutosave`
with proofs; `JimengJob` on top of `Reservation`, with proofs; then the proofs of
`OnlineQueue` and of `VideoRegroup`; then the loading page and `TASK_NOT_FOUND` in the card, and polls, matching by
task id and batches in the regrouping, with their proofs.

Next, modelling:

1. `VideoReverse`: attempts, publication under `FOR UPDATE`, cancellation and retry.
   Properties: only the current attempt publishes; its reservation is settled
   or released exactly once, by reads and redeliveries if not at once.
   Composed with `Reservation`.
2. `ContentWorkflow`: takes, selection revisions, stale events and their
   idempotency keys. Property: after a change of a selection what depends on it
   is marked stale; the sequence A, B, A is the interesting one.
3. `DailyQuota`: the seeded Redis set as a part of the submission.
4. `CanvasTabs`: two pages on one episode, composed of two `CanvasAutosave`.
5. `RechargeQuote`: the arithmetic of price tiers as a pure operator against a
   reference definition (a tier's floor may cost less than the amount below it).

Next, proofs:

1. That a fault of the queue does no more harm than it must: after it, `Sole` and the guards
   on the reservation still hold for the tasks it did not touch (`Calm` task by task).
2. The safety properties of `VideoReverse`.

Next, runs: two tasks on one ledger through the queue (composition of `OnlineQueue`
and `CreditLedger` without the abstraction) on a small instance.
