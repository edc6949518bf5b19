SPECIFICATION FairSpec
CONSTANTS
  MaxPid = 3
  Helper = Helper
  NoTask = NoTask
  Tasks <- AllTasks
  Prio <- LazyHelper
  Creators = {0, 1, 2}
  MaxTries = 14
  MaxLives = 3
  MaxKids = 2
  MaxSignals = 0
  MaxStops = 0
  Handlers = {}
PROPERTIES
  KillCompletes
CHECK_DEADLOCK FALSE
