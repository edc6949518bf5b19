SPECIFICATION Spec
CONSTANTS
  Process1 = Process1
  Process2 = Process2
  Callers = {Process1, Process2}
  Blocks = {1, 2, 3, 4, 5}
  Functions <- AsyncShowAndMelody
  MaxCalls = 2
  MaxLost = 1
INVARIANTS
  BlocksKept
  OwnResult
PROPERTIES
  WaitEnds
CHECK_DEADLOCK FALSE
