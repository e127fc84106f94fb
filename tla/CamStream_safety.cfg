CONSTANTS
  main = main
  bin = bin
  meta1 = meta1
  meta2 = meta2
  Nodes <- Nodes4
  Main = main
  NoNode = NoNode
  MaxRefs = 2
  FaultSets <- FiveFaults
SYMMETRY OtherNodes4
SPECIFICATION Spec
INVARIANTS
  CountAgrees
  DevicesTogether
  HwReadyInOrder
  HwReleased
  ViewFinder
  UnboundIsNoticed
PROPERTIES
  ImplementsLife
