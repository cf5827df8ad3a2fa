SPECIFICATION Spec
CONSTANTS
  Runs = {r1, r2}
  NoRun = NoRun
  MaxConns = 2
  MaxOffers = 2
  Events = 1
  Capacity = 1
INVARIANTS
  TypeOK
  WelcomeFirst
  NoOrphanedWaiter
  ServedByLiveLink
  ClaimIsBacked
  OutcomeIsReported
  EventRecordedOnce
SYMMETRY Symmetry
CHECK_DEADLOCK FALSE
