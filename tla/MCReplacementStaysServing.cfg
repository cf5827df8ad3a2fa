SPECIFICATION FairSpec
CONSTANTS
  Runs = {r1}
  NoRun = NoRun
  MaxConns = 2
  MaxOffers = 2
  Events = 1
  Capacity = 1
INVARIANT ReplacementStaysServing
CHECK_DEADLOCK FALSE
