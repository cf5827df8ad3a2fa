CONSTANTS
  Runs = {r1, r2}
  NoRun = NoRun
  MaxConns = 2
  MaxOffers = 2
  MaxRuns = 1
SPECIFICATION FairSpec
CHECK_DEADLOCK FALSE
INVARIANTS
  CancelFindsTheRun
PROPERTIES
  EndsOnItsSocket
  ServedAgain
