SPECIFICATION Spec
CONSTANTS
  Helper = Helper
  Thread1 = Thread1
  Thread2 = Thread2
  Thread3 = Thread3
  NoTask = NoTask
  Tasks = {Helper, Thread1, Thread2, Thread3}
  Prio <- UrgentHelper
  MaxCond = 1
  Owners = {Helper, Thread1}
  Waiters = {Thread1, Thread2, Thread3}
  WakeOps <- HelperWakesOne
  MaxDrift = 2
INVARIANTS
  CounterExact
  NoInventedWake
  FreeSlotsUsable
PROPERTIES
  WakeAllReachesAll
CHECK_DEADLOCK FALSE
