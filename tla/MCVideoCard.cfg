CONSTANTS
  MaxTasks = 2
  LateAnswers = FALSE
SPECIFICATION Spec
INVARIANTS TypeOK
PROPERTIES StaysFollowed NeverTurnsBack OutcomeShown
CHECK_DEADLOCK FALSE
