SPECIFICATION FairMemSpec
CONSTANTS
  Main = Main
  Thread = Thread
  Tasks = {Main, Thread}
  Users = {Main, Thread}
  NoTask = NoTask
  Prio <- MainAndThread
  MaxDrift = 2
  MaxInodes = 3
  MaxAddr = 2
  MaxCalls = 3
  MaxKills = 2
INVARIANTS
  FreedOnce
  ListExact
  DeathFreesAll
  DeathFollowsBlocks
PROPERTIES
  DeathGetsThrough
CHECK_DEADLOCK FALSE
