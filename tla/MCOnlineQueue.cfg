CONSTANTS
  None = None
  Tasks = {t1}
  Workers = {w1, w2}
  Finishers = {c1, c2}
  Prices = {0, 1, 2}
  RetryLimit = 3
  MaxRuleChanges = 1
  MaxCalls = 4
  MaxFaults = 0
  WithDeletion = TRUE
SPECIFICATION FairSpec
INVARIANTS NoLostTask EndedIsSettled OutcomeMirrored
PROPERTIES KnownNotResubmitted AcceptedEnds
CHECK_DEADLOCK FALSE
