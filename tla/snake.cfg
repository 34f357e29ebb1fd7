SPECIFICATION ClientSpec
CONSTANTS
  NumPlayers = 3
  X = 5
  Y = 5
  StartLength = 3
  MaxTurns = 4
INVARIANTS
  TypeOK
  NoGhosts
  MarksExactUntilADeath
  LivingInside
  HeadsApart
  SnakesAreChains
  ClientCanFollow
  DeathsAreVisible
PROPERTIES
  DeathsAreReported
CHECK_DEADLOCK FALSE
