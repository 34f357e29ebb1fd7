SPECIFICATION ClientSpec
CONSTANTS
  NumPlayers = 3
  X = 5
  Y = 5
  StartLength = 3
  MaxTurns = 5
INVARIANTS
  NoOverlap
CHECK_DEADLOCK FALSE
