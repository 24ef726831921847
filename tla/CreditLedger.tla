---------------------------- MODULE CreditLedger ----------------------------
(***************************************************************************)
(* The creation-point ledger: dao/business/credit.py and the recharge       *)
(* credit of dao/business/wechat_recharge.py, over the tables               *)
(* credit_accounts, credit_freezes, credit_transactions and                 *)
(* daily_creation_point_grants.                                             *)
(*                                                                          *)
(* Every DAO method runs in one PostgreSQL transaction and takes the        *)
(* account row FOR UPDATE before it computes with it, so its effect is one  *)
(* action.  The two exceptions are confirm_task_freeze and                  *)
(* release_task_freeze: they lock the freeze row, decide from the clock     *)
(* whether the reserved gift points have expired, and only then wait for    *)
(* the account row.  Each is two actions here, and other transactions may   *)
(* run on the account between them.                                         *)
(*                                                                          *)
(* An error return rolls the transaction back and an idempotent return      *)
(* changes nothing: both are stuttering steps.                              *)
(***************************************************************************)
EXTENDS Sums

CONSTANTS
  Accounts,       \* rows of credit_accounts
  Tasks,          \* values of credit_freezes.task_id
  Features,       \* values of feature_key
  None,           \* the account, task and feature of a row not inserted yet
  FreezeAmounts,  \* amounts a task may reserve
  GiftAmounts,    \* amounts a daily gift may have
  TopUps,         \* sizes of a recharge or of an admin adjustment
  SignupPoints,   \* permanent points of a phone-verified registration
  MaxFreezes,     \* bound: rows of credit_freezes
  MaxTopUps,      \* bound: recharges and admin adjustments
  MaxTime         \* bound: readings of the clock

ASSUME LedgerAssumption ==
  /\ FreezeAmounts \subseteq Nat \ {0}
  /\ GiftAmounts \subseteq Nat \ {0}
  /\ TopUps \subseteq Nat \ {0}
  /\ SignupPoints \in Nat
  /\ MaxFreezes \in Nat
  /\ MaxTopUps \in Nat
  /\ MaxTime \in Nat

VARIABLES
  accounts,   \* credit_accounts: the balance row of each account
  freezes,    \* credit_freezes, by id
  pending,    \* by freeze id, the open transaction that holds the row lock
  txns,       \* credit_transactions: the total of each change_type
  grants,     \* daily_creation_point_grants: pairs of account and day
  now,        \* datetime.now(timezone.utc)
  topUps      \* number of recharges and adjustments so far

vars == <<accounts, freezes, pending, txns, grants, now, topUps>>

-----------------------------------------------------------------------------
(***************************************************************************)
(* Time.  A day has two readings: its grant window, and the last ten        *)
(* seconds after 23:59:50, when the gift of the day has expired and no      *)
(* gift is granted.  Never is the NULL of gift_expires_at.                  *)
(***************************************************************************)
Days == 0..MaxTime
Never == 0
DayStart(d) == 2 * d
GiftExpiry(d) == 2 * d + 1

FreezeIds == 1..MaxFreezes

NoFreeze ==
  [account |-> None, task |-> None, feature |-> None, amount |-> 0,
   account_amount |-> 0, gift_amount |-> 0, gift_expires_at |-> Never,
   status |-> "none"]

Idle == [op |-> "idle", final_amount |-> 0, expired |-> FALSE]

Balance ==
  [available_credits : Int, frozen_credits : Int, total_used_credits : Int,
   account_credits : Int, gift_credits : Int,
   frozen_account_credits : Int, frozen_gift_credits : Int,
   gift_expires_at : Nat]

Freeze ==
  [account : Accounts \cup {None}, task : Tasks \cup {None},
   feature : Features \cup {None}, amount : Nat,
   account_amount : Nat, gift_amount : Nat, gift_expires_at : Nat,
   status : {"none", "frozen", "settled", "released"}]

Pending ==
  [op : {"idle", "confirm", "release"}, final_amount : Nat, expired : BOOLEAN]

Totals ==
  [signup_grant : Nat, gift : Nat, recharge : Nat, admin_credit : Nat,
   admin_debit : Nat, freeze : Nat, release : Nat, consume : Nat, expire : Nat]

NoTotals ==
  [signup_grant |-> 0, gift |-> 0, recharge |-> 0, admin_credit |-> 0,
   admin_debit |-> 0, freeze |-> 0, release |-> 0, consume |-> 0, expire |-> 0]

OpeningBalance(points) ==
  [available_credits |-> points, frozen_credits |-> 0, total_used_credits |-> 0,
   account_credits |-> points, gift_credits |-> 0,
   frozen_account_credits |-> 0, frozen_gift_credits |-> 0,
   gift_expires_at |-> Never]

-----------------------------------------------------------------------------
(***************************************************************************)
(* CreationPointDAO._is_expired and _expire_locked, on a locked row.        *)
(***************************************************************************)
IsExpired(row) ==
  /\ row.gift_expires_at # Never
  /\ row.gift_credits > 0
  /\ row.gift_expires_at <= now

\* Faulty: the expiry is not written to credit_transactions.
ExpiredGiftUnlogged(row) == 0

ExpiredGift(row) == IF IsExpired(row) THEN row.gift_credits ELSE 0

\* Faulty: the gift bucket is emptied, the balance keeps the points.
ExpireLockedBucketOnly(row) ==
  IF IsExpired(row) THEN [row EXCEPT !.gift_credits = 0, !.gift_expires_at = Never]
  ELSE row

ExpireLocked(row) ==
  IF IsExpired(row)
  THEN [row EXCEPT !.available_credits = @ - row.gift_credits,
                   !.gift_credits = 0,
                   !.gift_expires_at = Never]
  ELSE row

Active(i) == freezes[i].status = "frozen"

\* Faulty: the row is found by task_id alone, whatever its status.
AnyFreezes(t) == {i \in FreezeIds : freezes[i].task = t}

ActiveFreezes(t) == {i \in FreezeIds : Active(i) /\ freezes[i].task = t}

\* ORDER BY created_at DESC LIMIT 1
Newest(i, t) ==
  /\ i \in ActiveFreezes(t)
  /\ \A j \in ActiveFreezes(t) : j <= i

\* The id the next INSERT takes.
NextId(i) ==
  /\ freezes[i].status = "none"
  /\ \A j \in FreezeIds : freezes[j].status = "none" => i <= j

\* Faulty: an active reservation of the task is not looked for.
NeverReserved(t) == FALSE

\* The advisory lock on the task id makes the look-up and the INSERT one step.
HasActiveFreeze(t) == ActiveFreezes(t) # {}

Greater(m, n) == IF m >= n THEN m ELSE n  \* faulty min()
Lesser(m, n) == IF m <= n THEN m ELSE n

-----------------------------------------------------------------------------
Init ==
  /\ \E verified \in SUBSET Accounts :
       LET opening(a) == IF a \in verified THEN SignupPoints ELSE 0
       IN  /\ accounts = [a \in Accounts |-> OpeningBalance(opening(a))]
           /\ txns = [a \in Accounts |->
                        [NoTotals EXCEPT !.signup_grant = opening(a)]]
  /\ freezes = [i \in FreezeIds |-> NoFreeze]
  /\ pending = [i \in FreezeIds |-> Idle]
  /\ grants = {}
  /\ now = 0
  /\ topUps = 0

Tick ==
  /\ now < MaxTime
  /\ now' = now + 1
  /\ UNCHANGED <<accounts, freezes, pending, txns, grants, topUps>>

\* CreationPointDAO.expire_available_gifts, run by every balance read.
ExpireAvailableGifts(a) ==
  /\ IsExpired(accounts[a])
  /\ accounts' = [accounts EXCEPT ![a] = ExpireLocked(@)]
  /\ txns' = [txns EXCEPT ![a].expire = @ + ExpiredGift(accounts[a])]
  /\ UNCHANGED <<freezes, pending, grants, now, topUps>>

(***************************************************************************)
(* CreationPointDAO.grant_daily_gift.  The caller reads the clock before it *)
(* waits for the locks, so a gift of day d may commit at any time after the *)
(* window of d opened.  A second grant of the day inserts no row.           *)
(***************************************************************************)
GrantDailyGift(a, d, n) ==
  LET row == ExpireLocked(accounts[a]) IN
  /\ DayStart(d) <= now
  /\ <<a, d>> \notin grants
  /\ grants' = grants \cup {<<a, d>>}
  /\ accounts' = [accounts EXCEPT ![a] =
                    [row EXCEPT !.available_credits = @ + n,
                                !.gift_credits = @ + n,
                                !.gift_expires_at = GiftExpiry(d)]]
  /\ txns' = [txns EXCEPT ![a].gift = @ + n,
                          ![a].expire = @ + ExpiredGift(accounts[a])]
  /\ UNCHANGED <<freezes, pending, now, topUps>>

(***************************************************************************)
(* CreditLedgerDAO.freeze_credits.  With an active freeze of the task the   *)
(* call is idempotent (same owner, feature and amount) or a conflict; both  *)
(* leave the tables alone.  Gift points are reserved first.                 *)
(***************************************************************************)
FreezeCredits(a, t, f, n) ==
  LET row == ExpireLocked(accounts[a])
      gift == Lesser(row.gift_credits, n)
  IN
  /\ ~HasActiveFreeze(t)
  /\ row.available_credits >= n
  /\ \E i \in FreezeIds :
       /\ NextId(i)
       /\ freezes' = [freezes EXCEPT ![i] =
                        [account |-> a, task |-> t, feature |-> f, amount |-> n,
                         account_amount |-> n - gift, gift_amount |-> gift,
                         gift_expires_at |-> row.gift_expires_at,
                         status |-> "frozen"]]
  /\ accounts' = [accounts EXCEPT ![a] =
                    [row EXCEPT !.available_credits = @ - n,
                                !.frozen_credits = @ + n,
                                !.account_credits = @ - (n - gift),
                                !.gift_credits = @ - gift,
                                !.frozen_account_credits = @ + (n - gift),
                                !.frozen_gift_credits = @ + gift]]
  /\ txns' = [txns EXCEPT ![a].freeze = @ + n,
                          ![a].expire = @ + ExpiredGift(accounts[a])]
  /\ UNCHANGED <<pending, grants, now, topUps>>

-----------------------------------------------------------------------------
(***************************************************************************)
(* confirm_task_freeze and release_task_freeze.  The first half locks the   *)
(* freeze row and reads the clock; the second half locks the account row,   *)
(* writes and commits.                                                      *)
(***************************************************************************)
GiftConsumed(fz, final) == Lesser(fz.gift_amount, final)
GiftRefund(fz, final) == fz.gift_amount - GiftConsumed(fz, final)
AccountRefund(fz, final) ==
  fz.account_amount - (final - GiftConsumed(fz, final))

RefundExpired(fz, final) ==
  /\ GiftRefund(fz, final) > 0
  /\ fz.gift_expires_at # Never
  /\ fz.gift_expires_at <= now

Covers(fz, final) == final <= fz.amount

ConfirmTaskFreezeBegin(t, final) ==
  \E i \in FreezeIds :
    /\ Newest(i, t)
    /\ pending[i] = Idle
    /\ Covers(freezes[i], final)
    /\ pending' = [pending EXCEPT ![i] =
                     [op |-> "confirm", final_amount |-> final,
                      expired |-> RefundExpired(freezes[i], final)]]
    /\ UNCHANGED <<accounts, freezes, txns, grants, now, topUps>>

ConfirmTaskFreezeCommit(i) ==
  LET fz == freezes[i]
      a == fz.account
      row == accounts[a]
      final == pending[i].final_amount
      giftRefund == GiftRefund(fz, final)
      validGiftRefund == IF pending[i].expired THEN 0 ELSE giftRefund
      restored == AccountRefund(fz, final) + validGiftRefund
  IN
  /\ pending[i].op = "confirm"
  /\ accounts' = [accounts EXCEPT ![a] =
                    [row EXCEPT !.available_credits = @ + restored,
                                !.frozen_credits = @ - fz.amount,
                                !.total_used_credits = @ + final,
                                !.account_credits = @ + AccountRefund(fz, final),
                                !.gift_credits = @ + validGiftRefund,
                                !.frozen_account_credits = @ - fz.account_amount,
                                !.frozen_gift_credits = @ - fz.gift_amount]]
  /\ freezes' = [freezes EXCEPT ![i].status = "settled"]
  /\ pending' = [pending EXCEPT ![i] = Idle]
  /\ txns' = [txns EXCEPT ![a].release = @ + restored,
                          ![a].consume = @ + final,
                          ![a].expire = @ + (giftRefund - validGiftRefund)]
  /\ UNCHANGED <<grants, now, topUps>>

ReleaseTaskFreezeBegin(t) ==
  \E i \in FreezeIds :
    /\ Newest(i, t)
    /\ pending[i] = Idle
    /\ pending' = [pending EXCEPT ![i] =
                     [op |-> "release", final_amount |-> 0,
                      expired |-> RefundExpired(freezes[i], 0)]]
    /\ UNCHANGED <<accounts, freezes, txns, grants, now, topUps>>

ReleaseTaskFreezeCommit(i) ==
  LET fz == freezes[i]
      a == fz.account
      row == accounts[a]
      restoredGift == IF pending[i].expired THEN 0 ELSE fz.gift_amount
      restored == fz.account_amount + restoredGift
  IN
  /\ pending[i].op = "release"
  /\ accounts' = [accounts EXCEPT ![a] =
                    [row EXCEPT !.available_credits = @ + restored,
                                !.frozen_credits = @ - fz.amount,
                                !.account_credits = @ + fz.account_amount,
                                !.gift_credits = @ + restoredGift,
                                !.frozen_account_credits = @ - fz.account_amount,
                                !.frozen_gift_credits = @ - fz.gift_amount]]
  /\ freezes' = [freezes EXCEPT ![i].status = "released"]
  /\ pending' = [pending EXCEPT ![i] = Idle]
  /\ txns' = [txns EXCEPT ![a].release = @ + restored,
                          ![a].expire = @ + (fz.gift_amount - restoredGift)]
  /\ UNCHANGED <<grants, now, topUps>>

\* The connection is lost before the commit: PostgreSQL drops the row lock.
Rollback(i) ==
  /\ pending[i] # Idle
  /\ pending' = [pending EXCEPT ![i] = Idle]
  /\ UNCHANGED <<accounts, freezes, txns, grants, now, topUps>>

-----------------------------------------------------------------------------
\* Faulty: only the whole balance is protected, not the permanent bucket.
AdjustableBalance(row, n) == row.available_credits + n >= 0

Adjustable(row, n) ==
  /\ row.available_credits + n >= 0
  /\ row.account_credits + n >= 0

\* CreditLedgerDAO.admin_adjust_account: permanent points only, no expiry pass.
AdminAdjustAccount(a, n) ==
  LET row == accounts[a] IN
  /\ topUps < MaxTopUps
  /\ Adjustable(row, n)
  /\ accounts' = [accounts EXCEPT ![a] =
                    [row EXCEPT !.available_credits = @ + n,
                                !.account_credits = @ + n]]
  /\ txns' = IF n > 0
             THEN [txns EXCEPT ![a].admin_credit = @ + n]
             ELSE [txns EXCEPT ![a].admin_debit = @ - n]
  /\ topUps' = topUps + 1
  /\ UNCHANGED <<freezes, pending, grants, now>>

\* The account half of WechatRechargeDAO.settle_order.
CreditRecharge(a, n) ==
  LET row == ExpireLocked(accounts[a]) IN
  /\ topUps < MaxTopUps
  /\ accounts' = [accounts EXCEPT ![a] =
                    [row EXCEPT !.available_credits = @ + n,
                                !.account_credits = @ + n]]
  /\ txns' = [txns EXCEPT ![a].recharge = @ + n,
                          ![a].expire = @ + ExpiredGift(accounts[a])]
  /\ topUps' = topUps + 1
  /\ UNCHANGED <<freezes, pending, grants, now>>

Next ==
  \/ Tick
  \/ \E a \in Accounts :
       \/ ExpireAvailableGifts(a)
       \/ \E d \in Days, n \in GiftAmounts : GrantDailyGift(a, d, n)
       \/ \E t \in Tasks, f \in Features, n \in FreezeAmounts :
            FreezeCredits(a, t, f, n)
       \/ \E n \in TopUps :
            \/ AdminAdjustAccount(a, n)
            \/ AdminAdjustAccount(a, -n)
            \/ CreditRecharge(a, n)
  \/ \E t \in Tasks :
       \/ \E final \in FreezeAmounts \cup {0} : ConfirmTaskFreezeBegin(t, final)
       \/ ReleaseTaskFreezeBegin(t)
  \/ \E i \in FreezeIds :
       \/ ConfirmTaskFreezeCommit(i)
       \/ ReleaseTaskFreezeCommit(i)
       \/ Rollback(i)

Spec == Init /\ [][Next]_vars

-----------------------------------------------------------------------------
(***************************************************************************)
(* Properties.                                                              *)
(***************************************************************************)

\* The shape of every table row and of every open transaction.
TypeOK ==
  /\ accounts \in [Accounts -> Balance]
  /\ freezes \in [FreezeIds -> Freeze]
  /\ pending \in [FreezeIds -> Pending]
  /\ txns \in [Accounts -> Totals]
  /\ grants \subseteq Accounts \X Days
  /\ now \in Nat
  /\ topUps \in Nat

\* available_credits and frozen_credits are updated by expressions of their
\* own in every statement, yet always equal the sum of their two buckets.
BucketsAddUp ==
  \A a \in Accounts :
    /\ accounts[a].available_credits =
         accounts[a].account_credits + accounts[a].gift_credits
    /\ accounts[a].frozen_credits =
         accounts[a].frozen_account_credits + accounts[a].frozen_gift_credits

HeldOf(a, i) == Active(i) /\ freezes[i].account = a

AccountPart(a) ==
  [i \in FreezeIds |-> IF HeldOf(a, i) THEN freezes[i].account_amount ELSE 0]
GiftPart(a) ==
  [i \in FreezeIds |-> IF HeldOf(a, i) THEN freezes[i].gift_amount ELSE 0]

HeldAccountPoints(a) == Sum(AccountPart(a), MaxFreezes)
HeldGiftPoints(a) == Sum(GiftPart(a), MaxFreezes)

\* The frozen buckets of an account are exactly what its active freezes
\* reserve, whatever order freezes, settlements, releases and expiries of
\* several tasks commit in.
FrozenIsReserved ==
  \A a \in Accounts :
    /\ accounts[a].frozen_account_credits = HeldAccountPoints(a)
    /\ accounts[a].frozen_gift_credits = HeldGiftPoints(a)

\* No bucket is ever overdrawn (the columns have no CHECK constraint).
NoOverdraft ==
  \A a \in Accounts :
    /\ accounts[a].account_credits >= 0
    /\ accounts[a].gift_credits >= 0
    /\ accounts[a].frozen_account_credits >= 0
    /\ accounts[a].frozen_gift_credits >= 0

\* The transaction log reconciles with the balances: points are neither
\* created nor lost without a row of credit_transactions that says so.
LedgerReconciles ==
  \A a \in Accounts :
    LET log == txns[a] IN
    /\ accounts[a].available_credits + accounts[a].frozen_credits =
         log.signup_grant + log.gift + log.recharge + log.admin_credit
           - log.admin_debit - log.consume - log.expire
    /\ accounts[a].total_used_credits = log.consume

\* A task holds at most one reservation at a time: freeze_credits is
\* idempotent for a task whose reservation is active.
OneActiveFreezePerTask ==
  \A i, j \in FreezeIds :
    Active(i) /\ Active(j) /\ freezes[i].task = freezes[j].task => i = j

\* A transaction that holds a freeze row's lock holds it on an active row and
\* settles no more than the row reserves, although the row was read before the
\* account lock was obtained.
OpenTransactionsAreCurrent ==
  \A i \in FreezeIds :
    pending[i] # Idle =>
      /\ Active(i)
      /\ pending[i].final_amount <= freezes[i].amount

\* Every reservation is the sum of its two parts, on an account that exists.
RowsAddUp ==
  \A i \in FreezeIds :
    /\ freezes[i].amount = freezes[i].account_amount + freezes[i].gift_amount
    /\ Active(i) => freezes[i].account \in Accounts

\* The inductive invariant of CreditLedgerProofs.
LedgerInv ==
  /\ TypeOK
  /\ BucketsAddUp
  /\ FrozenIsReserved
  /\ NoOverdraft
  /\ RowsAddUp
  /\ OpenTransactionsAreCurrent

\* A reservation is resolved once: a settled or released row never changes
\* again, and an active one changes only its status.
ResolvedOnce ==
  [][\A i \in FreezeIds :
       /\ freezes[i].status \in {"settled", "released"} =>
            freezes'[i] = freezes[i]
       /\ Active(i) =>
            freezes'[i] = [freezes[i] EXCEPT !.status = freezes'[i].status]]_vars

\* A task never reserves gift points that have already expired: the expiry
\* pass and the reservation see the same locked row.
NoExpiredGiftReserved ==
  [][\A i \in FreezeIds :
       freezes[i].status = "none" /\ freezes'[i].gift_amount > 0 =>
         freezes'[i].gift_expires_at = Never \/ freezes'[i].gift_expires_at > now]_vars

\* What the class comment of CreationPointDAO says: gift points expire at a
\* fixed instant, so a non-empty gift bucket always has an expiry.
GiftPointsExpire ==
  \A a \in Accounts :
    accounts[a].gift_credits > 0 => accounts[a].gift_expires_at # Never
=============================================================================
