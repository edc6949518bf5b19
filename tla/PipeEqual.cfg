SPECIFICATION PipeSpec
CONSTANTS
  Writer = Writer
  Reader = Reader
  Owner = Owner
  NoTask = NoTask
  Tasks = {Writer, Reader, Owner}
  Prio <- EqualPrio
  Size = 2
  Flags = {"read", "write"}
  Writers = {Writer}
  Readers = {Reader}
  Watchers = {Owner}
  Owners = {Owner}
  Watched = {"flushed", "empty"}
  MaxBytes = 3
  MaxDrift = 2
INVARIANTS
  NoStandoff
  NobodyStranded
PROPERTIES
  ImplementsStream
CHECK_DEADLOCK FALSE
