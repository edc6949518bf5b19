SPECIFICATION FairSpec
CONSTANTS
  Main = Main
  MaxThreads = 2
  Killer1 = Killer1
  Killers = {Killer1}
  NoTask = NoTask
  Tasks <- AllTasks
  Prio <- EqualPrio
  Jobs = {"use", "create", "destroy", "exit"}
  Users <- FirstTwo
  MaxCreates = 2
  MaxFails = 1
  MaxKills = 2
  MaxLocks = 2
INVARIANTS
  NoThreadSurvives
PROPERTIES
  KillSparesMain
  KillCompletes
CHECK_DEADLOCK FALSE
