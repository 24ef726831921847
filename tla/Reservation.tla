---------------------------- MODULE Reservation ----------------------------
(***************************************************************************)
(* What the credit ledger promises the rest of the program, task by task:   *)
(* the contract of CreditLedgerDAO.freeze_credits, confirm_task_freeze and  *)
(* release_task_freeze.  CreditLedger implements it; OnlineQueue uses it.   *)
(***************************************************************************)
EXTENDS Naturals

CONSTANTS
  Tasks,    \* values of credit_freezes.task_id
  Amounts   \* amounts a task may reserve

VARIABLES
  held,     \* held[t]: points the active reservation of t holds, 0 if none
  charges   \* charges[t]: number of settlements of t

Init ==
  /\ held = [t \in Tasks |-> 0]
  /\ charges = [t \in Tasks |-> 0]

Freeze(t, n) ==
  /\ held[t] = 0
  /\ held' = [held EXCEPT ![t] = n]
  /\ UNCHANGED charges

Confirm(t, n) ==
  /\ held[t] > 0
  /\ n <= held[t]
  /\ held' = [held EXCEPT ![t] = 0]
  /\ charges' = [charges EXCEPT ![t] = @ + 1]

Release(t) ==
  /\ held[t] > 0
  /\ held' = [held EXCEPT ![t] = 0]
  /\ UNCHANGED charges

Next ==
  \E t \in Tasks :
    \/ \E n \in Amounts : Freeze(t, n)
    \/ \E n \in 0..held[t] : Confirm(t, n)
    \/ Release(t)

Spec == Init /\ [][Next]_<<held, charges>>
=============================================================================
