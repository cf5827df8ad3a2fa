SPECIFICATION FairSpec
CONSTANTS
  Reqs = {q1}
  NoReq = NoReq
  MaxConns = 2
  Chunks = 2
  ChunkKinds = {"ok", "invalid"}
  MaxStrays = 1
PROPERTIES
  KeepsPromise
  DeadSocketEndsCompletion
CHECK_DEADLOCK FALSE
