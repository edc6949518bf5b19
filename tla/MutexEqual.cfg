SPECIFICATION FairSpec
CONSTANTS
  Main = Main
  Thread1 = Thread1
  Thread2 = Thread2
  Thread3 = Thread3
  Tasks = {Main, Thread1, Thread2, Thread3}
  Users = {Thread1, Thread2, Thread3}
  NoTask = NoTask
  Prio <- MainAndThreads
  MaxDrift = 3
INVARIANTS
  TypeOK
  MutualExclusion
  CounterExact
  DestroyDismisses
PROPERTIES
  WaiterServed
  ImplementsLock
