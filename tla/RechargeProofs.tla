--------------------------- MODULE RechargeProofs ---------------------------
(***************************************************************************)
(* Theorems about Recharge for any number of orders, requests and faults:   *)
(* an order is paid exactly when it was credited, once, and a final order   *)
(* stays final.                                                             *)
(***************************************************************************)
EXTENDS Recharge, TLAPS

CreditInv == TypeOK /\ CreditedIffPaid

OrderRows == [Orders -> [status : Statuses, reason : Reasons, code : BOOLEAN]]

\* The rows rows differ from the present ones in nothing that was credited and
\* in no outcome that is final.
Final(o) == \/ order[o].status \in {"paid", "closed"}
            \/ order[o].status = "failed" /\ ~TimedOut(o)

Harmless(rows) ==
  /\ rows \in OrderRows
  /\ \A o \in Orders :
       /\ (rows[o].status = "paid") <=> (order[o].status = "paid")
       /\ Final(o) => rows[o].status = order[o].status

-----------------------------------------------------------------------------
\* A statement that moves an open row to a status other than paid is harmless:
\* what the guards of the UPDATE statements of WechatRechargeDAO are for.
LEMMA SetIsHarmless ==
  ASSUME TypeOK, NEW o \in Orders, ~Final(o),
         NEW s \in Statuses \ {"paid"}, NEW r \in Reasons
  PROVE  Harmless(Set(o, s, r))
<1>1. order \in OrderRows
  BY DEF TypeOK, OrderRows
<1>2. Set(o, s, r) \in OrderRows
  BY <1>1 DEF Set, OrderRows
<1>3. Set(o, s, r)[o].status = s
  BY <1>1 DEF Set, OrderRows
<1>4. \A q \in Orders \ {o} : Set(o, s, r)[q] = order[q]
  BY <1>1 DEF Set, OrderRows
<1>5. order[o].status # "paid"
  BY DEF Final
<1> QED
  BY <1>2, <1>3, <1>4, <1>5 DEF Harmless

\* The row as it is is harmless.
LEMMA SameIsHarmless ==
  ASSUME TypeOK
  PROVE  Harmless(order)
BY DEF TypeOK, Harmless, OrderRows

\* The guarded statements: fail_overdue_orders, mark_order_failed,
\* update_provider_state and mark_expired.
LEMMA StatementsAreHarmless ==
  ASSUME TypeOK, NEW o \in Orders
  PROVE  /\ Harmless(FailedOverdue(o))
         /\ Harmless(Failed(o))
         /\ Harmless(Expired(o))
         /\ \A state \in NativeStates : Harmless(ProviderState(o, state))
<1>1. Unpaid(o) => ~Final(o)
  BY DEF Unpaid, Final
<1>2. order[o].status = "pending" => ~Final(o)
  BY DEF Final
<1>3. Harmless(order)
  BY SameIsHarmless
<1>4. Unpaid(o) => /\ Harmless(Set(o, "failed", "timeout"))
                   /\ Harmless(Set(o, "failed", "other"))
                   /\ Harmless(Set(o, "closed", "other"))
  BY <1>1, SetIsHarmless DEF Statuses, Reasons
<1>5. order[o].status = "pending" => Harmless(Set(o, "expired", "other"))
  BY <1>2, SetIsHarmless DEF Statuses, Reasons
<1>6. Harmless(FailedOverdue(o))
  BY <1>3, <1>4 DEF FailedOverdue
<1>7. Harmless(Failed(o))
  BY <1>3, <1>4 DEF Failed
<1>8. Harmless(Expired(o))
  BY <1>3, <1>5 DEF Expired
<1>9. \A state \in NativeStates : Harmless(ProviderState(o, state))
  BY <1>3, <1>4 DEF ProviderState
<1> QED
  BY <1>6, <1>7, <1>8, <1>9

\* mark_order_ready changes no status.
LEMMA CodeIsHarmless ==
  ASSUME TypeOK, NEW o \in Orders
  PROVE  Harmless([order EXCEPT ![o].code = TRUE])
<1>1. order \in OrderRows
  BY DEF TypeOK, OrderRows
<1> DEFINE rows == [order EXCEPT ![o].code = TRUE]
<1>2. rows \in OrderRows
  BY <1>1 DEF OrderRows
<1>3. \A q \in Orders : rows[q].status = order[q].status
  BY <1>1 DEF OrderRows
<1> HIDE DEF rows
<1>4. Harmless(rows)
  BY <1>2, <1>3 DEF Harmless
<1> QED
  BY <1>4 DEF rows

\* settle_order credits the order it marks as paid, and no final order.
LEMMA SettleIsSound ==
  ASSUME CreditInv, NEW o \in Orders, SettleOrder(o)
  PROVE  /\ order' \in OrderRows
         /\ credits' \in [Orders -> Nat]
         /\ \A q \in Orders : credits'[q] = IF order'[q].status = "paid" THEN 1 ELSE 0
         /\ \A q \in Orders : Final(q) => order'[q].status = order[q].status
<1>1. order \in OrderRows /\ credits \in [Orders -> Nat]
  BY DEF CreditInv, TypeOK, OrderRows
<1>2. \A q \in Orders : credits[q] = IF order[q].status = "paid" THEN 1 ELSE 0
  BY DEF CreditInv, CreditedIffPaid
<1>3. CASE Settleable(o) /\ credits[o] = 0
  <2>1. order' = Set(o, "paid", "") /\ credits' = [credits EXCEPT ![o] = @ + 1]
    BY <1>3 DEF SettleOrder
  <2>2. order' \in OrderRows
    BY ZenonT(60), <2>1, <1>1 DEF Set, OrderRows, Statuses, Reasons
  <2>3. credits' = [credits EXCEPT ![o] = 1]
    <3>1. credits[o] + 1 = 1
      BY <1>3
    <3> QED
      BY <2>1, <3>1
  <2>4. credits' \in [Orders -> Nat] /\ credits'[o] = 1
    BY <2>3, <1>1
  <2>5. order'[o].status = "paid"
    BY <2>1, <1>1 DEF Set, OrderRows
  <2>6. \A q \in Orders \ {o} : order'[q] = order[q] /\ credits'[q] = credits[q]
    BY <2>1, <2>3, <1>1 DEF Set, OrderRows
  <2>7. ~Final(o)
    BY <1>3, <1>2 DEF Settleable, Unpaid, TimedOut, Final
  <2> QED
    BY <2>2, <2>4, <2>5, <2>6, <2>7, <1>2
<1>4. CASE ~(Settleable(o) /\ credits[o] = 0)
  BY <1>1, <1>2, <1>4 DEF SettleOrder
<1> QED
  BY <1>3, <1>4

\* What a step does to the rows and to the ledger.
Sound ==
  /\ order' \in OrderRows
  /\ credits' \in [Orders -> Nat]
  /\ \A o \in Orders : credits'[o] = IF order'[o].status = "paid" THEN 1 ELSE 0
  /\ \A o \in Orders : Final(o) => order'[o].status = order[o].status

LEMMA HarmlessIsSound ==
  ASSUME CreditInv, Harmless(order'), credits' = credits
  PROVE  Sound
BY DEF CreditInv, TypeOK, CreditedIffPaid, Harmless, Sound

-----------------------------------------------------------------------------
\* A row is inserted in place of no row.
LEMMA CreateIsSound ==
  ASSUME CreditInv, NEW c \in Creators, CreateOrder(c)
  PROVE  Sound
<1>1. PICK o \in Orders : order[o] = NoOrder /\ order' = Set(o, "pending", "")
  BY DEF CreateOrder
<1>2. ~Final(o)
  <2>1. NoOrder.status = "none"
    BY DEF NoOrder
  <2>2. order[o] = NoOrder
    BY <1>1
  <2>3. order[o].status = "none"
    BY <2>1, <2>2
  <2> QED
    BY <2>3 DEF Final
<1>3. Harmless(order')
  BY <1>1, <1>2, SetIsHarmless DEF CreditInv, Statuses, Reasons
<1> QED
  BY <1>3, HarmlessIsSound DEF CreateOrder

\* The requests in progress name an order that exists when they touch it.
Named ==
  /\ \A c \in Creators : creator[c].pc \in {"native", "ready", "fail"} =>
                           creator[c].order \in Orders
  /\ \A p \in Pollers : poller[p].pc # "idle" => poller[p].order \in Orders

\* The inductive invariant.
IInv == CreditInv /\ Named

LEMMA InitInv == Init => IInv
<1> SUFFICES ASSUME Init PROVE IInv
  OBVIOUS
<1>1. order \in OrderRows /\ credits \in [Orders -> Nat]
  BY DEF Init, OrderRows, NoOrder, Statuses, Reasons
<1>2. creator \in [Creators -> [pc : {"idle", "insert", "native", "ready", "fail"},
                              order : Orders \cup {None}]]
  BY DEF Init, Idle
<1>3. poller \in [Pollers -> [pc : {"idle", "read", "query", "apply", "close", "expire"},
                             order : Orders \cup {None}, status : Statuses,
                             lapsed : BOOLEAN, answer : NativeStates]]
  BY DEF Init, NotPolling, Statuses, NativeStates
<1>4. age \in [Orders -> Ages] /\ native \in [Orders -> NativeStates]
  BY DEF Init, Ages, NativeStates
<1>5. TypeOK
  BY <1>1, <1>2, <1>3, <1>4 DEF Init, TypeOK, OrderRows
<1>6. CreditedIffPaid
  BY DEF Init, CreditedIffPaid, NoOrder
<1>7. Named
  BY DEF Init, Named, Idle, NotPolling
<1> QED
  BY <1>5, <1>6, <1>7 DEF IInv, CreditInv

\* No step credits twice, or a row that is not paid, or changes a final row.
LEMMA StepIsSound ==
  ASSUME IInv, [Next]_vars
  PROVE  Sound
<1> USE DEF IInv
<1>0. TypeOK /\ Harmless(order)
  BY SameIsHarmless DEF CreditInv
<1>1. CASE order' = order /\ credits' = credits
  BY <1>0, <1>1, HarmlessIsSound
<1>2. ASSUME NEW c \in Creators, CreateOrder(c) PROVE Sound
  BY <1>2, CreateIsSound
<1>3. ASSUME NEW c \in Creators, NEW f \in Outcomes, MarkOrderReady(c, f) PROVE Sound
  <2>1. creator[c].order \in Orders
    BY <1>3 DEF MarkOrderReady, Named
  <2>2. Harmless(order')
    BY <2>1, <1>3, <1>0, CodeIsHarmless DEF MarkOrderReady
  <2> QED
    BY <2>2, <1>3, HarmlessIsSound DEF MarkOrderReady
<1>4. ASSUME NEW c \in Creators, NEW f \in Outcomes, MarkOrderFailed(c, f) PROVE Sound
  <2>1. creator[c].order \in Orders
    BY <1>4 DEF MarkOrderFailed, Named
  <2>2. Harmless(order')
    BY <2>1, <1>4, <1>0, StatementsAreHarmless DEF MarkOrderFailed
  <2> QED
    BY <2>2, <1>4, HarmlessIsSound DEF MarkOrderFailed
<1>5. ASSUME NEW o \in Orders, Notify(o) PROVE Sound
  BY <1>5, SettleIsSound DEF Notify, Sound
<1>6. ASSUME NEW o \in Orders, Sweep(o) PROVE Sound
  BY <1>6, <1>0, StatementsAreHarmless, HarmlessIsSound DEF Sweep
<1>7. ASSUME NEW p \in Pollers, NEW o \in Orders, PollSweep(p, o) PROVE Sound
  BY <1>7, <1>0, StatementsAreHarmless, HarmlessIsSound DEF PollSweep
<1>8. ASSUME NEW p \in Pollers, PollSettle(p) PROVE Sound
  <2>1. poller[p].order \in Orders
    BY <1>8 DEF PollSettle, Named
  <2> QED
    BY <2>1, <1>8, SettleIsSound DEF PollSettle, Sound
<1>9. ASSUME NEW p \in Pollers, PollUpdate(p) PROVE Sound
  <2>1. poller[p].order \in Orders
    BY <1>9 DEF PollUpdate, Named
  <2>2. poller[p].answer \in NativeStates
    BY <1>0 DEF TypeOK
  <2>3. Harmless(order')
    BY <2>1, <2>2, <1>9, <1>0, StatementsAreHarmless DEF PollUpdate
  <2> QED
    BY <2>3, <1>9, HarmlessIsSound DEF PollUpdate
<1>10. ASSUME NEW p \in Pollers, PollExpire(p) PROVE Sound
  <2>1. poller[p].order \in Orders
    BY <1>10 DEF PollExpire, Named
  <2>2. Harmless(order')
    BY <2>1, <1>10, <1>0, StatementsAreHarmless DEF PollExpire
  <2> QED
    BY <2>2, <1>10, HarmlessIsSound DEF PollExpire
<1>11. CASE \/ Crash
            \/ \E c \in Creators : \/ ReuseOrder(c)
                                   \/ FindNoReusable(c)
                                   \/ \E f \in Outcomes : CreateNativeOrder(c, f)
            \/ \E p \in Pollers : PollRead(p) \/ PollQuery(p) \/ PollClose(p)
            \/ \E o \in Orders : \/ GrowsOlder(o) \/ Pay(o)
                                 \/ ProviderCloses(o) \/ ProviderRefuses(o)
            \/ UNCHANGED vars
  <2>1. order' = order /\ credits' = credits
    BY <1>11 DEF Crash, ReuseOrder, FindNoReusable, CreateNativeOrder, PollRead, PollQuery,
                 PollClose, GrowsOlder, Pay, ProviderCloses, ProviderRefuses, Moves, vars
  <2> QED
    BY <2>1, <1>1
<1> QED
  BY <1>2, <1>3, <1>4, <1>5, <1>6, <1>7, <1>8, <1>9, <1>10, <1>11
  DEF Next, PollStep, CreateStep

-----------------------------------------------------------------------------
CreatorType ==
  [Creators -> [pc : {"idle", "insert", "native", "ready", "fail"},
                order : Orders \cup {None}]]

PollerType ==
  [Pollers -> [pc : {"idle", "read", "query", "apply", "close", "expire"},
               order : Orders \cup {None}, status : Statuses,
               lapsed : BOOLEAN, answer : NativeStates]]

\* The creating requests keep their shape and name the row they inserted.
LEMMA CreatorStep ==
  ASSUME IInv, [Next]_vars
  PROVE  /\ creator' \in CreatorType
         /\ \A c \in Creators : creator'[c].pc \in {"native", "ready", "fail"} =>
                                creator'[c].order \in Orders
<1>1. /\ creator \in CreatorType
      /\ \A c \in Creators : creator[c].pc \in {"native", "ready", "fail"} =>
                             creator[c].order \in Orders
  BY DEF IInv, CreditInv, TypeOK, CreatorType, Named
<1>2. CASE creator' = creator
  BY <1>1, <1>2
<1>3. CASE Crash
  BY <1>3 DEF Crash, Idle, CreatorType
<1>4. ASSUME NEW c \in Creators, FindNoReusable(c) PROVE creator' = [creator EXCEPT ![c].pc = "insert"]
  BY <1>4 DEF FindNoReusable
<1>5. ASSUME NEW c \in Creators, CreateOrder(c)
      PROVE  \E o \in Orders : creator' = [creator EXCEPT ![c] = [pc |-> "native", order |-> o]]
  BY <1>5 DEF CreateOrder
<1>6. ASSUME NEW c \in Creators, NEW f \in Outcomes, CreateStep(c, f)
      PROVE  \/ creator' = [creator EXCEPT ![c] = Idle]
             \/ /\ creator[c].pc \in {"native", "ready"}
                /\ \E pc \in {"ready", "fail"} : creator' = [creator EXCEPT ![c].pc = pc]
  BY <1>6 DEF CreateStep, CreateNativeOrder, MarkOrderReady, MarkOrderFailed
<1>7. ASSUME NEW c \in Creators, FindNoReusable(c)
      PROVE  /\ creator' \in CreatorType
             /\ \A d \in Creators : creator'[d].pc \in {"native", "ready", "fail"} =>
                                    creator'[d].order \in Orders
  BY <1>1, <1>4, <1>7 DEF CreatorType
<1>8. ASSUME NEW c \in Creators, CreateOrder(c)
      PROVE  /\ creator' \in CreatorType
             /\ \A d \in Creators : creator'[d].pc \in {"native", "ready", "fail"} =>
                                    creator'[d].order \in Orders
  BY <1>1, <1>5, <1>8 DEF CreatorType
<1>9. ASSUME NEW c \in Creators, NEW f \in Outcomes, CreateStep(c, f)
      PROVE  /\ creator' \in CreatorType
             /\ \A d \in Creators : creator'[d].pc \in {"native", "ready", "fail"} =>
                                    creator'[d].order \in Orders
  BY <1>1, <1>6, <1>9 DEF CreatorType, Idle
<1>10. CASE \/ \E c \in Creators : ReuseOrder(c)
            \/ \E p \in Pollers : PollStep(p) \/ \E o \in Orders : PollSweep(p, o)
            \/ \E o \in Orders : \/ GrowsOlder(o) \/ Pay(o) \/ ProviderCloses(o)
                                 \/ ProviderRefuses(o) \/ Notify(o) \/ Sweep(o)
            \/ UNCHANGED vars
  <2>1. creator' = creator
    BY <1>10 DEF ReuseOrder, PollStep, PollRead, PollQuery, PollSettle, PollUpdate, PollClose,
                 PollExpire, PollSweep, GrowsOlder, Pay, ProviderCloses, ProviderRefuses,
                 Moves, Notify, Sweep, vars
  <2> QED
    BY <2>1, <1>2
<1> QED
  BY <1>3, <1>7, <1>8, <1>9, <1>10 DEF Next

\* The reconciling requests keep their shape and name a row.
LEMMA PollerStep ==
  ASSUME IInv, [Next]_vars
  PROVE  /\ poller' \in PollerType
         /\ \A p \in Pollers : poller'[p].pc # "idle" => poller'[p].order \in Orders
<1> DEFINE Good(f) == /\ f \in PollerType
                      /\ \A p \in Pollers : f[p].pc # "idle" => f[p].order \in Orders
<1>1. Good(poller) /\ order \in OrderRows /\ native \in [Orders -> NativeStates]
  BY DEF IInv, CreditInv, TypeOK, PollerType, Named, OrderRows
<1>2. Sound
  BY StepIsSound
<1>3. CASE Crash
  BY <1>3 DEF Crash, NotPolling, PollerType, Statuses, NativeStates
<1>4. ASSUME NEW p \in Pollers, poller' = [poller EXCEPT ![p] = NotPolling]
      PROVE  Good(poller')
  BY <1>1, <1>4 DEF NotPolling, PollerType, Statuses, NativeStates
<1>5. ASSUME NEW p \in Pollers, poller[p].pc # "idle",
             NEW pc \in {"close", "expire", "apply", "query"},
             poller' = [poller EXCEPT ![p].pc = pc]
      PROVE  Good(poller')
  BY <1>1, <1>5 DEF PollerType
<1>6. ASSUME NEW p \in Pollers, NEW o \in Orders, PollSweep(p, o)
      PROVE  Good(poller')
  BY <1>1, <1>6 DEF PollSweep, NotPolling, PollerType, Statuses, NativeStates
<1>7. ASSUME NEW p \in Pollers, PollRead(p) PROVE Good(poller')
  <2>1. poller[p].order \in Orders /\ poller[p].pc # "idle"
    BY <1>1, <1>7 DEF PollRead
  <2>2. order[poller[p].order].status \in Statuses
    BY <2>1, <1>1 DEF OrderRows
  <2>3. PICK pc \in {"close", "query"} :
          poller' = [poller EXCEPT ![p] =
                       [@ EXCEPT !.pc = pc, !.status = order[poller[p].order].status,
                                 !.lapsed = Lapsed(poller[p].order)]]
    BY <1>7 DEF PollRead
  <2>4. Lapsed(poller[p].order) \in BOOLEAN
    BY DEF Lapsed
  <2>5. PICK l \in BOOLEAN : l = Lapsed(poller[p].order)
    BY <2>4
  <2>6. PICK st \in Statuses : st = order[poller[p].order].status
    BY <2>2
  <2>7. poller' = [poller EXCEPT ![p] = [@ EXCEPT !.pc = pc, !.status = st, !.lapsed = l]]
    BY <2>3, <2>5, <2>6
  <2> QED
    BY ZenonT(60), <2>1, <2>7, <1>1 DEF PollerType
<1>8. ASSUME NEW p \in Pollers, PollQuery(p) PROVE Good(poller')
  <2>1. poller[p].order \in Orders /\ poller[p].pc # "idle"
    BY <1>1, <1>8 DEF PollQuery
  <2>2. native[poller[p].order] \in NativeStates
    BY <2>1, <1>1
  <2>3. \/ poller' = [poller EXCEPT ![p].pc = "apply", ![p].answer = native[poller[p].order]]
        \/ poller' = [poller EXCEPT ![p].pc = "close"]
    BY <1>8 DEF PollQuery
  <2> QED
    BY <2>1, <2>2, <2>3, <1>1 DEF PollerType
<1>9. ASSUME NEW p \in Pollers, PollSettle(p) PROVE Good(poller')
  <2>1. poller[p].pc # "idle"
    BY <1>9 DEF PollSettle
  <2>2. \/ poller' = [poller EXCEPT ![p] = NotPolling]
        \/ poller' = [poller EXCEPT ![p].pc = "close"]
    BY <1>9 DEF PollSettle
  <2> QED
    BY <2>1, <2>2, <1>4, <1>5
<1>10. ASSUME NEW p \in Pollers, PollUpdate(p) PROVE Good(poller')
  <2>1. poller[p].order \in Orders /\ poller[p].pc # "idle"
    BY <1>1, <1>10 DEF PollUpdate
  <2>2. order'[poller[p].order].status \in Statuses
    BY <2>1, <1>2 DEF Sound, OrderRows
  <2>3. poller' = [poller EXCEPT ![p].pc = "close",
                                 ![p].status = order'[poller[p].order].status]
    BY <1>10 DEF PollUpdate
  <2> QED
    BY ZenonT(60), <2>1, <2>2, <2>3, <1>1 DEF PollerType
<1>11. ASSUME NEW p \in Pollers, PollClose(p) PROVE Good(poller')
  <2>1. poller[p].pc # "idle"
    BY <1>11 DEF PollClose
  <2>2. \/ poller' = [poller EXCEPT ![p] = NotPolling]
        \/ poller' = [poller EXCEPT ![p].pc = "expire"]
    BY <1>11 DEF PollClose
  <2> QED
    BY <2>1, <2>2, <1>4, <1>5
<1>12. ASSUME NEW p \in Pollers, PollExpire(p) PROVE Good(poller')
  BY <1>12, <1>4 DEF PollExpire
<1>13. CASE \/ \E c \in Creators : \/ ReuseOrder(c)
                                   \/ FindNoReusable(c)
                                   \/ CreateOrder(c)
                                   \/ \E f \in Outcomes : CreateStep(c, f)
            \/ \E o \in Orders : \/ GrowsOlder(o) \/ Pay(o) \/ ProviderCloses(o)
                                 \/ ProviderRefuses(o) \/ Notify(o) \/ Sweep(o)
            \/ UNCHANGED vars
  <2>1. poller' = poller
    BY <1>13 DEF ReuseOrder, FindNoReusable, CreateOrder, CreateStep, CreateNativeOrder,
                 MarkOrderReady, MarkOrderFailed, GrowsOlder, Pay, ProviderCloses,
                 ProviderRefuses, Moves, Notify, Sweep, vars
  <2> QED
    BY <2>1, <1>1
<1> QED
  BY <1>3, <1>6, <1>7, <1>8, <1>9, <1>10, <1>11, <1>12, <1>13 DEF Next, PollStep

\* The clock, the provider, the user and the fault counter keep their types.
LEMMA WorldStep ==
  ASSUME IInv, [Next]_vars
  PROVE  /\ age' \in [Orders -> Ages]
         /\ native' \in [Orders -> NativeStates]
         /\ shown' \subseteq Orders
         /\ faults' \in Nat
<1>1. /\ age \in [Orders -> Ages] /\ native \in [Orders -> NativeStates]
      /\ shown \subseteq Orders /\ faults \in Nat
  BY DEF IInv, CreditInv, TypeOK
<1>2. age' \in [Orders -> Ages]
  <2>1. CASE age' = age
    BY <2>1, <1>1
  <2>2. ASSUME NEW o \in Orders, GrowsOlder(o) PROVE age' \in [Orders -> Ages]
    <3>1. age[o] + 1 \in Ages
      BY <2>2, <1>1 DEF GrowsOlder, Ages
    <3> QED
      BY <3>1, <2>2, <1>1 DEF GrowsOlder
  <2> QED
    BY <2>1, <2>2 DEF Next, Crash, ReuseOrder, FindNoReusable, CreateOrder, CreateStep,
       CreateNativeOrder, MarkOrderReady, MarkOrderFailed, PollStep, PollRead, PollQuery,
       PollSettle, PollUpdate, PollClose, PollExpire, PollSweep, Pay, ProviderCloses,
       ProviderRefuses, Moves, Notify, Sweep, vars
<1>3. \/ native' = native
      \/ \E o \in Orders, s \in NativeStates : native' = [native EXCEPT ![o] = s]
  <2>1. ASSUME NEW c \in Creators, NEW f \in Outcomes, CreateNativeOrder(c, f)
        PROVE  \/ native' = native
               \/ \E o \in Orders, s \in NativeStates : native' = [native EXCEPT ![o] = s]
    <3>1. creator[c].order \in Orders
      BY <2>1 DEF CreateNativeOrder, IInv, Named
    <3> QED
      BY <3>1, <2>1 DEF CreateNativeOrder, NativeStates
  <2>2. ASSUME NEW p \in Pollers, PollClose(p)
        PROVE  \/ native' = native
               \/ \E o \in Orders, s \in NativeStates : native' = [native EXCEPT ![o] = s]
    <3>1. poller[p].order \in Orders
      BY <2>2 DEF PollClose, IInv, Named
    <3>2. CASE native[poller[p].order] = "open"
      BY <3>1, <3>2, <2>2 DEF PollClose, NativeStates
    <3>3. CASE native[poller[p].order] # "open"
      BY <3>1, <3>3, <2>2, <1>1 DEF PollClose
    <3> QED
      BY <3>2, <3>3
  <2>3. ASSUME NEW o \in Orders, Pay(o) \/ ProviderCloses(o) \/ ProviderRefuses(o)
        PROVE  \E s \in NativeStates : native' = [native EXCEPT ![o] = s]
    BY <2>3 DEF Pay, ProviderCloses, ProviderRefuses, Moves, NativeStates
  <2> QED
    BY <2>1, <2>2, <2>3 DEF Next, Crash, ReuseOrder, FindNoReusable, CreateOrder, CreateStep,
       MarkOrderReady, MarkOrderFailed, PollStep, PollRead, PollQuery,
       PollSettle, PollUpdate, PollExpire, PollSweep, GrowsOlder, Notify, Sweep, vars
<1>4. native' \in [Orders -> NativeStates]
  BY <1>1, <1>3
<1>5. shown' \subseteq Orders
  <2>1. ASSUME NEW c \in Creators, NEW f \in Outcomes, MarkOrderReady(c, f)
        PROVE  shown' \subseteq Orders
    BY <2>1, <1>1 DEF MarkOrderReady, IInv, Named
  <2>2. ASSUME NEW c \in Creators, ReuseOrder(c) PROVE shown' \subseteq Orders
    BY <2>2, <1>1 DEF ReuseOrder
  <2>3. CASE shown' = shown
    BY <2>3, <1>1
  <2> QED
    BY <2>1, <2>2, <2>3 DEF Next, Crash, FindNoReusable, CreateOrder, CreateStep,
       CreateNativeOrder, MarkOrderFailed, PollStep, PollRead, PollQuery,
       PollSettle, PollUpdate, PollClose, PollExpire, PollSweep, GrowsOlder, Pay,
       ProviderCloses, ProviderRefuses, Moves, Notify, Sweep, vars
<1>6. faults' \in {faults, faults + 1}
  BY DEF Next, Crash, ReuseOrder, FindNoReusable, CreateOrder, CreateStep, Fault,
       CreateNativeOrder, MarkOrderReady, MarkOrderFailed, PollStep, PollRead, PollQuery,
       PollSettle, PollUpdate, PollClose, PollExpire, PollSweep, GrowsOlder, Pay,
       ProviderCloses, ProviderRefuses, Moves, Notify, Sweep, vars
<1> QED
  BY <1>1, <1>2, <1>4, <1>5, <1>6

-----------------------------------------------------------------------------
\* The inductive invariant holds in every reachable state, for any number of
\* orders, requests and faults.
THEOREM CreditInvariant == Spec => []IInv
<1>1. IInv /\ [Next]_vars => IInv'
  <2> SUFFICES ASSUME IInv, [Next]_vars PROVE IInv'
    OBVIOUS
  <2>1. TypeOK'
    BY StepIsSound, CreatorStep, PollerStep, WorldStep
    DEF TypeOK, Sound, OrderRows, CreatorType, PollerType
  <2>2. CreditedIffPaid'
    BY StepIsSound DEF Sound, CreditedIffPaid
  <2>3. Named'
    BY CreatorStep, PollerStep DEF Named
  <2> QED
    BY <2>1, <2>2, <2>3 DEF IInv, CreditInv
<1> QED
  BY InitInv, <1>1, PTL DEF Spec

\* Every row, every request and the provider keep the shape TypeOK gives them.
THEOREM RechargeTypeCorrect == Spec => []TypeOK
<1>1. IInv => TypeOK
  BY DEF IInv, CreditInv
<1> QED
  BY CreditInvariant, <1>1, PTL

\* settle_order credits an order once, and exactly the orders it marks as paid;
\* no timeout, failed creation or stale query undoes the status of a credit.
THEOREM RechargeCreditedIffPaid == Spec => []CreditedIffPaid
<1>1. IInv => CreditedIffPaid
  BY DEF IInv, CreditInv
<1> QED
  BY CreditInvariant, <1>1, PTL

\* A paid, closed or refused order is never overwritten and never reopened.
THEOREM RechargeOutcomeIsFinal == Spec => OutcomeIsFinal
<1> DEFINE Keeps == \A o \in Orders :
      (\/ order[o].status \in {"paid", "closed"}
       \/ order[o].status = "failed" /\ ~TimedOut(o))
       => order'[o].status = order[o].status
<1>1. IInv /\ [Next]_vars => [Keeps]_vars
  BY StepIsSound DEF Sound, Final
<1> QED
  BY CreditInvariant, <1>1, PTL DEF Spec, OutcomeIsFinal
=============================================================================
