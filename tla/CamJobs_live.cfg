\* No faults, weak fairness: buffers come back and ioctls return.
CONSTANTS
  b1 = b1
  b2 = b2
  b3 = b3
  r1 = r1
  r2 = r2
  r3 = r3
  Bufs <- Bufs2
  Reqs <- Reqs2
  NoBuf = NoBuf
  NoReq = NoReq
  MaxRunning = 1
  CqCount = 1
  MaxSeq = 3
  FaultSets = {{}}
SPECIFICATION FairSpec
PROPERTIES
  BufferReturned
  IoctlReturns
