SPECIFICATION Spec
CONSTANTS
  Main = Main
  Thread1 = Thread1
  Thread2 = Thread2
  Thread3 = Thread3
  Tasks = {Main, Thread1}
  Users = {Main, Thread1}
  NoTask = NoTask
  Prio <- MainAndThreads
  MaxDrift = 2
INVARIANTS
  MutualExclusion
