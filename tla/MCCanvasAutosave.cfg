CONSTANTS
  blank = blank
  scene = scene
  sceneWithImage = sceneWithImage
  sceneOfOld = sceneOfOld
  Values <- MCValues
  Default = blank
  Strip <- MCStrip
  Opened <- MCOpened
  None = None
  MaxVisits = 3
  MaxEdits = 4
  MaxFailures = 2
SPECIFICATION Spec
INVARIANTS TypeOK SavedIsStored
PROPERTIES ReopenShowsWork SaveSettles
CHECK_DEADLOCK FALSE
