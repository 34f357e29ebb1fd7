SPECIFICATION FairSpec
CONSTANTS
  MaxPlayers = 3
  MaxMatches = 2
  Sizes <- MCSizes
PROPERTIES
  FinishedMatchIsRecycled
CHECK_DEADLOCK FALSE
