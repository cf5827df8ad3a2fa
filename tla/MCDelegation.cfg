CONSTANTS
  p = p
  q = q
  twin = twin
  Providers = {p, q, twin}
  Fingerprint <- Prints
  Unsaid = Unsaid
  r1 = r1
  r2 = r2
  t1 = t1
  t2 = t2
  Assignments <- OneOrTwo
  Runs = {r1, r2}
  Threads = {t1, t2}
  MaxCalls = 2
  NoRun = NoRun
  MaxUpdates = 1
  Configs <- Written
  Others = {q}
SPECIFICATION FairSpec
CHECK_DEADLOCK FALSE
INVARIANTS
  ProgressIsSeen
  FollowsUp
  ConversationsApart
  ResolvedToTheMeant
PROPERTIES
  StreamEnds
