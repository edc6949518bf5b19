SPECIFICATION FairSpec
CONSTANTS
  Process1 = Process1
  Process2 = Process2
  Tasks = {Process1, Process2}
  NoTask = NoTask
  Prio <- EqualPrio
  MaxSockets = 2
  Talkers = {Process1}
  MaxFds = 1
  Numbers = {1, 2}
  MaxWakes = 1
  MaxMessages = 1
INVARIANTS
  NoDanglingRequest
  TablesAgree
  ClosesOwn
  DeathClosesAll
PROPERTIES
  
  KillCompletes
CHECK_DEADLOCK FALSE
