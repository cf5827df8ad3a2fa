CONSTANTS
  MaxDrops = 2
SPECIFICATION FairSpec
CHECK_DEADLOCK FALSE
PROPERTY ExitAlwaysEnds
