CONSTANTS
  p = p
  q = q
  Providers = {p, q}
  Fingerprint <- Prints
  Unsaid = Unsaid
  Label <- Labels
  Says <- Texts
  WordLength <- Lengths
  Listable <- Offers
  Asked <- TheChef
  Kinds = {"sdk", "page"}
  MaxTurns = 3
  Deltas <- OneWithContent
  MaxDeltas = 1
  MaxRestarts = 1
SPECIFICATION Spec
CHECK_DEADLOCK FALSE
INVARIANT ShortWordsAreDropped
