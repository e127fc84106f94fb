CHECK_DEADLOCK FALSE
CONSTANTS
  BufSets <- SomeBufSets
  NoBuf = NoBuf
  MaxSeq = 3
  MaxFrames = 1
  FaultSets <- SingleFaults
SPECIFICATION Spec
INVARIANTS
  DoneIsFilled
PROPERTIES
  MetaReturned
