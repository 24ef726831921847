------------------------------ MODULE Recharge ------------------------------
(***************************************************************************)
(* The life of a WeChat recharge order (services/wechat_recharge_service.py *)
(* and dao/business/wechat_recharge.py): requests that create or reuse an   *)
(* order, requests that look at one and reconcile it with the provider, the *)
(* signed callback, and the sweep of overdue orders.                        *)
(*                                                                          *)
(* All orders are of one user and one amount, the ones that compete.  One   *)
(* action is one SQL statement or transaction, or one call of the provider. *)
(* A command of the creating request may fail before it reached the server  *)
(* ("unsent") or after it took effect ("lost"); MaxFaults bounds how often. *)
(***************************************************************************)
EXTENDS Naturals

CONSTANTS
  Orders,     \* rows of wechat_creation_point_orders
  Creators,   \* executions of create_recharge_order
  Pollers,    \* executions of get_recharge_order
  None,       \* no order
  MaxFaults   \* bound: failed commands and crashes

ASSUME RechargeAssumption ==
  /\ None \notin Orders
  /\ MaxFaults \in Nat

VARIABLES
  order,      \* status, failure_reason and code_url of each row
  age,        \* how old the order is
  credits,    \* rows of credit_transactions with its payment_order_id
  native,     \* the order at the provider
  shown,      \* orders whose code_url was returned to the user
  creator,    \* where each creating request stands
  poller,     \* where each reconciling request stands
  faults      \* number of failed commands and crashes

vars == <<order, age, credits, native, shown, creator, poller, faults>>

-----------------------------------------------------------------------------
\* failure_reason: the local timeout is told from every other reason.
Reasons == {"", "timeout", "other"}
Statuses == {"none", "pending", "paid", "closed", "expired", "failed"}

\* 0: the QR code is valid; 1: expires_at has passed; 2: and 12 hours have.
Ages == 0..2
Lapsed(o) == age[o] >= 1
Overdue(o) == age[o] >= 2

\* The provider's trade states: NOTPAY, SUCCESS, CLOSED, REVOKED or PAYERROR.
NativeStates == {"none", "open", "paid", "closed", "refused"}

NoOrder == [status |-> "none", reason |-> "", code |-> FALSE]
Idle == [pc |-> "idle", order |-> None]
NotPolling ==
  [pc |-> "idle", order |-> None, status |-> "none", lapsed |-> FALSE, answer |-> "none"]

Outcomes == {"ok", "lost", "unsent"}
Applied(f) == f # "unsent"
Fault(f) ==
  /\ f # "ok" => faults < MaxFaults
  /\ faults' = IF f = "ok" THEN faults ELSE faults + 1

Set(o, status, reason) ==
  [order EXCEPT ![o].status = status, ![o].reason = reason]

Unpaid(o) == order[o].status \in {"pending", "expired"}

(***************************************************************************)
(* The statements of WechatRechargeDAO: each is one UPDATE with a guard.    *)
(***************************************************************************)
\* Faulty: an order whose QR code expired is not claimed.
FailedOverduePending(o) ==
  IF order[o].status = "pending" /\ Overdue(o) /\ credits[o] = 0
  THEN Set(o, "failed", "timeout") ELSE order

\* fail_overdue_orders: never an order with an entry in the credit ledger.
FailedOverdue(o) ==
  IF Unpaid(o) /\ Overdue(o) /\ credits[o] = 0 THEN Set(o, "failed", "timeout")
  ELSE order

\* Faulty: the row is updated whatever it has become.
FailedAlways(o) == Set(o, "failed", "other")

\* mark_order_failed
Failed(o) == IF Unpaid(o) THEN Set(o, "failed", "other") ELSE order

\* Faulty: the provider's word is stored as the status.
ProviderStateRaw(o, state) == IF Unpaid(o) THEN Set(o, state, "other") ELSE order

\* update_provider_state
ProviderState(o, state) ==
  IF ~Unpaid(o) THEN order
  ELSE IF state = "closed" THEN Set(o, "closed", "other") ELSE Set(o, "failed", "other")

\* Faulty: an order that somebody else has settled meanwhile is overwritten.
ExpiredAlways(o) == Set(o, "expired", "other")

\* mark_expired
Expired(o) ==
  IF order[o].status = "pending" THEN Set(o, "expired", "other") ELSE order

TimedOut(o) == order[o].status = "failed" /\ order[o].reason = "timeout"
Settleable(o) == Unpaid(o) \/ TimedOut(o)

(***************************************************************************)
(* settle_order: an order already paid is returned as it is, any other      *)
(* state is an error, and both leave the tables alone.  A unique index on   *)
(* credit_transactions(payment_order_id) refuses a second credit.           *)
(***************************************************************************)
SettleOrder(o) ==
  IF Settleable(o) /\ credits[o] = 0
  THEN /\ order' = Set(o, "paid", "")
       /\ credits' = [credits EXCEPT ![o] = @ + 1]
  ELSE UNCHANGED <<order, credits>>

-----------------------------------------------------------------------------
Init ==
  /\ order = [o \in Orders |-> NoOrder]
  /\ age = [o \in Orders |-> 0]
  /\ credits = [o \in Orders |-> 0]
  /\ native = [o \in Orders |-> "none"]
  /\ shown = {}
  /\ creator = [c \in Creators |-> Idle]
  /\ poller = [p \in Pollers |-> NotPolling]
  /\ faults = 0

GrowsOlder(o) ==
  /\ order[o].status # "none" /\ age[o] < 2
  /\ age' = [age EXCEPT ![o] = @ + 1]
  /\ UNCHANGED <<order, credits, native, shown, creator, poller, faults>>

-----------------------------------------------------------------------------
(***************************************************************************)
(* create_recharge_order.                                                   *)
(***************************************************************************)
\* find_reusable_order
Reusable(o) == order[o].status = "pending" /\ ~Lapsed(o) /\ order[o].code

ReuseOrder(c) ==
  /\ creator[c] = Idle
  /\ \E o \in Orders : Reusable(o) /\ shown' = shown \cup {o}
  /\ UNCHANGED <<order, age, credits, native, creator, poller, faults>>

FindNoReusable(c) ==
  /\ creator[c] = Idle
  /\ ~\E o \in Orders : Reusable(o)
  /\ creator' = [creator EXCEPT ![c].pc = "insert"]
  /\ UNCHANGED <<order, age, credits, native, shown, poller, faults>>

CreateOrder(c) ==
  /\ creator[c].pc = "insert"
  /\ \E o \in Orders :
       /\ order[o] = NoOrder
       /\ order' = Set(o, "pending", "")
       /\ creator' = [creator EXCEPT ![c] = [pc |-> "native", order |-> o]]
  /\ UNCHANGED <<age, credits, native, shown, poller, faults>>

CreateNativeOrder(c, f) ==
  LET o == creator[c].order IN
  /\ creator[c].pc = "native"
  /\ Fault(f)
  /\ native' = IF Applied(f) THEN [native EXCEPT ![o] = "open"] ELSE native
  /\ creator' = [creator EXCEPT ![c].pc = IF f = "ok" THEN "ready" ELSE "fail"]
  /\ UNCHANGED <<order, age, credits, shown, poller>>

\* The code is stored whatever the status of the row, and then returned.
MarkOrderReady(c, f) ==
  LET o == creator[c].order IN
  /\ creator[c].pc = "ready"
  /\ Fault(f)
  /\ order' = IF Applied(f) THEN [order EXCEPT ![o].code = TRUE] ELSE order
  /\ shown' = IF f = "ok" THEN shown \cup {o} ELSE shown
  /\ creator' = [creator EXCEPT ![c] = IF f = "ok" THEN Idle ELSE [@ EXCEPT !.pc = "fail"]]
  /\ UNCHANGED <<age, credits, native, poller>>

MarkOrderFailed(c, f) ==
  /\ creator[c].pc = "fail"
  /\ Fault(f)
  /\ order' = IF Applied(f) THEN Failed(creator[c].order) ELSE order
  /\ creator' = [creator EXCEPT ![c] = Idle]
  /\ UNCHANGED <<age, credits, native, shown, poller>>

-----------------------------------------------------------------------------
(***************************************************************************)
(* The provider.  A user who was shown the code may pay while the order is  *)
(* open; an open order is closed some time after it lapsed, and may be      *)
(* revoked or refused before.                                               *)
(***************************************************************************)
Moves(o, from, to) ==
  /\ native[o] = from
  /\ native' = [native EXCEPT ![o] = to]
  /\ UNCHANGED <<order, age, credits, shown, creator, poller, faults>>

Pay(o) == o \in shown /\ Moves(o, "open", "paid")
ProviderCloses(o) == Lapsed(o) /\ Moves(o, "open", "closed")
ProviderRefuses(o) == Moves(o, "open", "refused")

\* handle_wechat_notification: sent again and again, and late.
Notify(o) ==
  /\ native[o] = "paid"
  /\ SettleOrder(o)
  /\ UNCHANGED <<age, native, shown, creator, poller, faults>>

\* recharge_order_expiry_loop, for one of the rows it claims.
Sweep(o) ==
  /\ order' = FailedOverdue(o)
  /\ order' # order
  /\ UNCHANGED <<age, credits, native, shown, creator, poller, faults>>

-----------------------------------------------------------------------------
(***************************************************************************)
(* get_recharge_order.  The row is read once; the decision to close and to  *)
(* expire it uses that reading, or the row the reconciliation returned.     *)
(***************************************************************************)
PollSweep(p, o) ==
  /\ poller[p] = NotPolling
  /\ order[o].status # "none"
  /\ order' = FailedOverdue(o)
  /\ poller' = [poller EXCEPT ![p] = [NotPolling EXCEPT !.pc = "read", !.order = o]]
  /\ UNCHANGED <<age, credits, native, shown, creator, faults>>

\* The provider is not asked again within eight seconds.
PollRead(p) ==
  LET o == poller[p].order
      wanted == order[o].status = "pending" \/ TimedOut(o) IN
  /\ poller[p].pc = "read"
  /\ \E pc \in {"close"} \cup (IF wanted THEN {"query"} ELSE {}) :
       poller' = [poller EXCEPT ![p] =
                    [@ EXCEPT !.pc = pc, !.status = order[o].status, !.lapsed = Lapsed(o)]]
  /\ UNCHANGED <<order, age, credits, native, shown, creator, faults>>

\* A failed query leaves the order for the next poll.
PollQuery(p) ==
  /\ poller[p].pc = "query"
  /\ \/ /\ native[poller[p].order] # "none"
        /\ poller' = [poller EXCEPT ![p].pc = "apply",
                                    ![p].answer = native[poller[p].order]]
     \/ poller' = [poller EXCEPT ![p].pc = "close"]
  /\ UNCHANGED <<order, age, credits, native, shown, creator, faults>>

PollSettle(p) ==
  LET o == poller[p].order IN
  /\ poller[p].pc = "apply" /\ poller[p].answer = "paid"
  /\ SettleOrder(o)
  /\ poller' = [poller EXCEPT ![p] =
                  IF order'[o].status = "paid" THEN NotPolling ELSE [@ EXCEPT !.pc = "close"]]
  /\ UNCHANGED <<age, native, shown, creator, faults>>

\* update_provider_state or mark_checked; both return the row as it is now.
PollUpdate(p) ==
  LET o == poller[p].order
      answer == poller[p].answer IN
  /\ poller[p].pc = "apply" /\ answer # "paid"
  /\ order' = IF answer \in {"closed", "refused"} THEN ProviderState(o, answer) ELSE order
  /\ poller' = [poller EXCEPT ![p].pc = "close", ![p].status = order'[o].status]
  /\ UNCHANGED <<age, credits, native, shown, creator, faults>>

PollClose(p) ==
  LET o == poller[p].order IN
  /\ poller[p].pc = "close"
  /\ IF poller[p].status = "pending" /\ poller[p].lapsed
     THEN /\ native' \in {native, [native EXCEPT ![o] = IF @ = "open" THEN "closed" ELSE @]}
          /\ poller' = [poller EXCEPT ![p].pc = "expire"]
     ELSE /\ poller' = [poller EXCEPT ![p] = NotPolling]
          /\ UNCHANGED native
  /\ UNCHANGED <<order, age, credits, shown, creator, faults>>

PollExpire(p) ==
  /\ poller[p].pc = "expire"
  /\ order' = Expired(poller[p].order)
  /\ poller' = [poller EXCEPT ![p] = NotPolling]
  /\ UNCHANGED <<age, credits, native, shown, creator, faults>>

\* The process dies; the requests in progress are gone.
Crash ==
  /\ faults < MaxFaults
  /\ faults' = faults + 1
  /\ creator' = [c \in Creators |-> Idle]
  /\ poller' = [p \in Pollers |-> NotPolling]
  /\ UNCHANGED <<order, age, credits, native, shown>>

PollStep(p) ==
  PollRead(p) \/ PollQuery(p) \/ PollSettle(p) \/ PollUpdate(p) \/ PollClose(p) \/ PollExpire(p)

CreateStep(c, f) ==
  CreateNativeOrder(c, f) \/ MarkOrderReady(c, f) \/ MarkOrderFailed(c, f)

Next ==
  \/ Crash
  \/ \E c \in Creators :
       \/ ReuseOrder(c)
       \/ FindNoReusable(c)
       \/ CreateOrder(c)
       \/ \E f \in Outcomes : CreateStep(c, f)
  \/ \E p \in Pollers : PollStep(p) \/ (\E o \in Orders : PollSweep(p, o))
  \/ \E o \in Orders :
       GrowsOlder(o) \/ Pay(o) \/ ProviderCloses(o) \/ ProviderRefuses(o) \/ Notify(o) \/ Sweep(o)

Spec == Init /\ [][Next]_vars

-----------------------------------------------------------------------------
(***************************************************************************)
(* Properties.                                                              *)
(***************************************************************************)
\* The shape of every row and of every request.
TypeOK ==
  /\ order \in [Orders -> [status : Statuses, reason : Reasons, code : BOOLEAN]]
  /\ age \in [Orders -> Ages]
  /\ credits \in [Orders -> Nat]
  /\ native \in [Orders -> NativeStates]
  /\ shown \subseteq Orders
  /\ creator \in [Creators -> [pc : {"idle", "insert", "native", "ready", "fail"},
                               order : Orders \cup {None}]]
  /\ poller \in [Pollers -> [pc : {"idle", "read", "query", "apply", "close", "expire"},
                             order : Orders \cup {None}, status : Statuses,
                             lapsed : BOOLEAN, answer : NativeStates]]
  /\ faults \in Nat

\* The ledger and the order agree: an order is paid exactly when the account
\* was credited for it, once, whatever callbacks, polls, sweeps and failing
\* creations commit in between.
CreditedIffPaid ==
  \A o \in Orders : credits[o] = IF order[o].status = "paid" THEN 1 ELSE 0

\* "Stale query responses and create failures must not overwrite a
\* concurrently settled order", and "a closed order is not reopened": paid,
\* closed and refused orders stay what they are.
OutcomeIsFinal ==
  [][\A o \in Orders :
       \/ order[o].status \in {"paid", "closed"}
       \/ order[o].status = "failed" /\ ~TimedOut(o)
       => order'[o].status = order[o].status]_vars

-----------------------------------------------------------------------------
(***************************************************************************)
(* Liveness, without the callback.  Time passes, the sweep runs each        *)
(* minute, requests go on, and somebody keeps looking at the order, so that *)
(* the provider is asked, and answers, again and again.                     *)
(***************************************************************************)
Asked(p, o) == poller[p].order = o /\ PollRead(p) /\ poller'[p].pc = "query"
Answered(p, o) == poller[p].order = o /\ PollQuery(p) /\ poller'[p].pc = "apply"

Fairness ==
  /\ \A o \in Orders : WF_vars(GrowsOlder(o)) /\ WF_vars(Sweep(o))
  /\ \A p \in Pollers : WF_vars(PollStep(p))
  /\ \A o \in Orders :
       /\ SF_vars(\E p \in Pollers : PollSweep(p, o))
       /\ SF_vars(\E p \in Pollers : Asked(p, o))
       /\ SF_vars(\E p \in Pollers : Answered(p, o))

FairSpec == Spec /\ Fairness

\* A payment whose callback never arrives is credited in the end: an order
\* that lapsed is not queried until it is overdue, and then it is.  (A creation
\* that lost its own answer may fail an order whose code another request has
\* handed out; the payment of that code is refused.)
PaidIsCredited ==
  \A o \in Orders :
    native[o] = "paid" ~>
      credits[o] = 1 \/ (order[o].status = "failed" /\ ~TimedOut(o))
=============================================================================
