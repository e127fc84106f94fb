CONSTANTS
  main = main
  bin = bin
  meta1 = meta1
  meta2 = meta2
  Nodes <- Nodes2
  Main = main
  NoNode = NoNode
  MaxRefs = 3
  FaultSets = {{"restart"}}
SPECIFICATION Spec
INVARIANTS
  HwReady
