-------------------------------- MODULE Sums --------------------------------
(***************************************************************************)
(* The sum f[1] + ... + f[n] of a function on 1..n.  It is written with a   *)
(* recursive function so that facts about it can be proved (SumsProofs);    *)
(* the ledger uses it for SQL's sum() over the rows of a table.             *)
(***************************************************************************)
EXTENDS Integers

PartialSums(f, n) ==
  LET s[k \in 0..n] == IF k = 0 THEN 0 ELSE s[k - 1] + f[k]
  IN  s

Sum(f, n) == PartialSums(f, n)[n]
=============================================================================
