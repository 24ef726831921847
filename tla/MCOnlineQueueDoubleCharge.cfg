CONSTANTS
  None = None
  Tasks = {t1}
  Workers = {w1, w2}
  Finishers = {c1, c2}
  Prices = {1}
  RetryLimit = 3
  MaxRuleChanges = 0
  MaxCalls = 3
  MaxFaults = 1
  WithDeletion = FALSE
SYMMETRY Symmetry
SPECIFICATION Spec
INVARIANTS
  ChargedOnce
CHECK_DEADLOCK FALSE
