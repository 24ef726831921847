CONSTANTS
  None = None
  Tasks = {t1}
  Workers = {w1, w2}
  Finishers = {c1, c2}
  Prices = {0, 1}
  RetryLimit = 2
  MaxRuleChanges = 0
  MaxCalls = 2
  MaxFaults = 2
  WithDeletion = FALSE
SPECIFICATION FairSpec
INVARIANTS TypeOK CancelledUnpaid
PROPERTIES CancelIsFinal RefundsComplete
CHECK_DEADLOCK FALSE
