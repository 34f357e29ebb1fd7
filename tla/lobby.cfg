SPECIFICATION FairSpec
CONSTANTS
  MaxPlayers = 3
  MaxMatches = 3
  Sizes <- MCSizes
INVARIANTS
  TypeOK
  OneQueuedMatchPerSize
  EveryPlayerHasOnePlace
  StartedIffFull
  PlayedMatchIsAlive
  NoDeafPlayer
  OneMapWriter
PROPERTIES
  RosterFrozen
  ImplementsMatchmaking
  RecycledUnlessStuck
CHECK_DEADLOCK FALSE
