CONSTANTS
  MaxDrops = 2
SPECIFICATION FairSpec
CHECK_DEADLOCK FALSE
INVARIANTS
  DeletedStaysDeleted
PROPERTIES
  ExitEnds
  EnterEnds
