CONSTANTS
  Queries = {q1, q2}
  MaxConns = 2
  MaxLength = 2
  NoLimit = NoLimit
  Asks <- EachCase
SPECIFICATION FairSpec
CHECK_DEADLOCK FALSE
INVARIANTS
  NewestWithinLimit
  CallerIsHeardOnce
PROPERTIES
  AnswerIsFinal
  WaitingEnds
