SPECIFICATION Spec
CONSTANTS
  NumPlayers = 2
  MaxTurns = 2
  MaxSends = 2
  Ahead = 0
INVARIANTS
  MatchSurvivesItsPlayers
CHECK_DEADLOCK FALSE
