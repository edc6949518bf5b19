SPECIFICATION Spec
CONSTANTS
  MaxPid = 3
  Helper = Helper
  NoTask = NoTask
  Tasks <- AllTasks
  Prio <- UrgentChild
  Creators = {0, 2}
  MaxTries = 2
  MaxLives = 3
  MaxKids = 2
  MaxSignals = 1
  MaxStops = 1
  Handlers = {2}
INVARIANTS
  NobodyLeftBehind
  ChildrenDieFirst
PROPERTIES
  OwnRequest
CHECK_DEADLOCK FALSE
