--------------------------- MODULE MCCreditLedger ---------------------------
(***************************************************************************)
(* CreditLedger for TLC: the tasks are interchangeable.                     *)
(***************************************************************************)
EXTENDS CreditLedgerContract, TLC

Symmetry == Permutations(Tasks)
=============================================================================
