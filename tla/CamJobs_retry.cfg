\* STREAMON fails once and is retried: two requests for one buffer.
CONSTANTS
  b1 = b1
  b2 = b2
  b3 = b3
  r1 = r1
  r2 = r2
  r3 = r3
  Bufs <- Bufs1
  Reqs <- Reqs2
  NoBuf = NoBuf
  NoReq = NoReq
  MaxRunning = 1
  CqCount = 1
  MaxSeq = 3
  FaultSets = {{"start"}}
SPECIFICATION Spec
INVARIANTS
  CompletedOnce
