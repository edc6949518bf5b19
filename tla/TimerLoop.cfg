SPECIFICATION FairSpec
CONSTANTS
  MaxTimers = 2
  QueueSize = 2
  MaxSended = 2
  MaxKills = 1
INVARIANTS
  NoStrayTimer
  EventsWhole
PROPERTIES
  NoCallbackAfterStop
  QuitEnds
CHECK_DEADLOCK FALSE
