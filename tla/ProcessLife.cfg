SPECIFICATION FairSpec
CONSTANTS
  MaxPid = 3
  Helper = Helper
  NoTask = NoTask
  Tasks <- AllTasks
  Prio <- LazyHelper
  Creators = {0, 1, 2}
  MaxTries = 14
  MaxLives = 3
  MaxKids = 1
  MaxSignals = 1
  MaxStops = 0
  Handlers = {}
INVARIANTS
  ArgvFreedOnce
PROPERTIES
  KillCompletes
  WaitersReturn
CHECK_DEADLOCK FALSE
