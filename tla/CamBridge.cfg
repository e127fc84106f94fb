CHECK_DEADLOCK FALSE
CONSTANTS
  BufSets <- SomeBufSets
  Reqs = {r1, r2}
  NoReq = NoReq
  MaxRunning = 2
  MaxSeq = 3
  FaultSets <- SingleFaults
  Clients = {"any", "bridge"}
SPECIFICATION Spec
INVARIANTS
  ListedAlive
  WrittenBeforeReturned
  BridgeLeavesNothing
PROPERTIES
  RequestCompletes
  BridgeDelivers
