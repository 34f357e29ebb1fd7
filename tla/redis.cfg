SPECIFICATION FairSpec
CONSTANTS
  Senders = {s1, s2}
  MaxCommands = 2
  MaxConnects = 2
  SomeReplies <- MCReplies
INVARIANTS
  ClientTypeOK
  WritesStayInBuffer
  CallbacksMeetTheirReplies
  NoCallbackSurvives
  RepliesAreCutIndependent
PROPERTIES
  ReturnsUnlessWakeupLost
  CommandsAreAnswered
  EndOfStreamIsNoticed
CHECK_DEADLOCK FALSE
