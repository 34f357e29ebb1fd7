SPECIFICATION FairSpec
CONSTANTS
  MaxLines = 3
  MaxCalls = 3
INVARIANTS
  TypeOK
  NotifiedDestructionIsLast
  NoMessageBesideObserver
  InOrderExactlyOnce
PROPERTIES
  StopsAfterOneMoreLine
  NoLineStalls
  DestructorReturns
CHECK_DEADLOCK FALSE
