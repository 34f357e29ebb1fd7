SPECIFICATION Spec
CONSTANTS
  Senders = {s1}
  MaxCommands = 2
  MaxConnects = 2
INVARIANTS
  BufferIsBeingWritten
CHECK_DEADLOCK FALSE
