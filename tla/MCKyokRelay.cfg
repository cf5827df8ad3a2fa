SPECIFICATION Spec
CONSTANTS
  Reqs = {q1, q2}
  NoReq = NoReq
  MaxConns = 2
  Chunks = 1
  ChunkKinds = {"ok"}
  MaxStrays = 1
INVARIANTS
  AnsweredWhereDelivered
  NoTruncatedCompletion
SYMMETRY Symmetry
CHECK_DEADLOCK FALSE
