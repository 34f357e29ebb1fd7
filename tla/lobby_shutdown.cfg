SPECIFICATION FairSpec
CONSTANTS
  MaxPlayers = 3
  MaxMatches = 2
  Sizes <- MCSizes
PROPERTIES
  JoinsWithAllThreads
CHECK_DEADLOCK FALSE
