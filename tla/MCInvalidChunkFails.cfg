SPECIFICATION FairSpec
CONSTANTS
  Reqs = {q1}
  NoReq = NoReq
  MaxConns = 2
  Chunks = 1
  ChunkKinds = {"ok", "invalid", "shapeless"}
  MaxStrays = 0
INVARIANT InvalidChunkFails
CHECK_DEADLOCK FALSE
