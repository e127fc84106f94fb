\* Three drivers, two sensors, two video nodes, every combination of faults.
CONSTANTS
  front = front
  back = back
  Sensors <- Sensors2
  NumNodes = 2
  MaxLinks = 2
  FaultSets <- AllFaultSets
SYMMETRY SensorSymmetry
SPECIFICATION Spec
INVARIANTS
  ParentsOutlive
  RemoveReleasesAll
  OneLink
