CONSTANTS
  Jobs = {j1, j2}
  Earlier = {j2}
  EarlierStages = {"review_required", "completed"}
  Workers = {w1}
  Recovery = recovery
  None = None
  MaxFaults = 2
SPECIFICATION FairSpec
INVARIANTS TypeOK PaidOnce OneAtJimeng PointsFollowOutcome
PROPERTIES JobsEnd
CHECK_DEADLOCK FALSE
