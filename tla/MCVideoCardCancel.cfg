CONSTANTS
  MaxTasks = 2
  LateAnswers = TRUE
SPECIFICATION Spec
PROPERTIES CancelSparesReplacement
CHECK_DEADLOCK FALSE
