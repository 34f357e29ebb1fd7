SPECIFICATION Spec
CONSTANTS
  MaxLines = 2
  MaxCalls = 2
INVARIANTS
  DestructionIsLast
CHECK_DEADLOCK FALSE
