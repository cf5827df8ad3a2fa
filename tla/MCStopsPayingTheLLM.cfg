SPECIFICATION FairSpec
CONSTANTS
  Reqs = {q1}
  NoReq = NoReq
  MaxConns = 2
  Chunks = 1
  ChunkKinds = {"ok"}
  MaxStrays = 0
INVARIANT StopsPayingTheLLM
CHECK_DEADLOCK FALSE
