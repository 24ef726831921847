------------------------ MODULE CreditLedgerContract ------------------------
(***************************************************************************)
(* CreditLedger implements Reservation: seen task by task, the rows of      *)
(* credit_freezes behave as one reservation that is made, and then either   *)
(* settled or released.                                                     *)
(***************************************************************************)
EXTENDS CreditLedger

\* What the active rows of task t reserve, and how many rows were settled.
HeldBy(t) ==
  Sum([i \in FreezeIds |-> IF i \in ActiveFreezes(t) THEN freezes[i].amount ELSE 0],
      MaxFreezes)

SettledBy(t) ==
  Sum([i \in FreezeIds |->
         IF freezes[i].status = "settled" /\ freezes[i].task = t THEN 1 ELSE 0],
      MaxFreezes)

Contract ==
  INSTANCE Reservation
    WITH Amounts <- FreezeAmounts,
         held    <- [t \in Tasks |-> HeldBy(t)],
         charges <- [t \in Tasks |-> SettledBy(t)]

\* Every step of the ledger is, for every task, a step of its reservation or
\* no step at all: callers of freeze_credits, confirm_task_freeze and
\* release_task_freeze need know nothing of buckets, expiries and row locks.
ImplementsReservation == Contract!Spec
=============================================================================
