CONSTANTS
  Names <- TwoNames
  Keys = {k1, k2}
  NoKey = NoKey
  MaxLosses = 2
SPECIFICATION FairSpec
INVARIANTS
  ServedByThePinned
  WelcomeMeansAttached
PROPERTIES
  ListedNameKeepsSocket
  HandshakeEnds
  InvisibleIsRepaired
