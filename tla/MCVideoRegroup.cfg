CONSTANTS
  ShotIds = {s1, s2}
  MaxTasks = 2
  MaxImages = 3
  SameModel = TRUE
  Batches = TRUE
SPECIFICATION Spec
INVARIANTS TypeOK 
PROPERTIES RegroupingKeepsVideos
CHECK_DEADLOCK FALSE
SYMMETRY Symmetry
