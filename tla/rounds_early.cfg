SPECIFICATION Spec
CONSTANTS
  NumPlayers = 2
  MaxTurns = 2
  MaxSends = 2
  Ahead = 0
INVARIANTS
  NoAnswerIsPassedOver
CHECK_DEADLOCK FALSE
