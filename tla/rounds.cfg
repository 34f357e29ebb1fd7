SPECIFICATION FairSpec
CONSTANTS
  NumPlayers = 2
  MaxTurns = 2
  MaxSends = 2
  Ahead = 2
INVARIANTS
  TypeOK
  TurnUsesItsAnswers
  MissedMeansLate
  UnansweredStayOpen
PROPERTIES
  FirstAnswerCounts
  MatchEnds
CHECK_DEADLOCK FALSE
