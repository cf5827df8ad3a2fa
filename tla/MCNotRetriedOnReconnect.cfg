CONSTANTS
  Queries = {q1}
  MaxConns = 2
  MaxLength = 1
  NoLimit = NoLimit
  Asks <- EachCase
SPECIFICATION FairSpec
CHECK_DEADLOCK FALSE
INVARIANT NotRetriedOnReconnect
