\* Three buffers, two jobs in hardware, one kind of fault per behaviour.
CONSTANTS
  b1 = b1
  b2 = b2
  b3 = b3
  r1 = r1
  r2 = r2
  r3 = r3
  Bufs <- Bufs3
  Reqs <- Reqs3
  NoBuf = NoBuf
  NoReq = NoReq
  MaxRunning = 2
  CqCount = 2
  MaxSeq = 3
  FaultSets <- SingleFaults
SYMMETRY Symmetry3
SPECIFICATION Spec
INVARIANTS
  CamJobsTypeOK
  JobsBounded
  ListsAgree
  CompletedOnceInOrder
  NoUseAfterFree
  DoneIsReal
  DeliveredInOrder
