CHECK_DEADLOCK FALSE
CONSTANTS
  Threads = {t1, t2}
  Swapchains = {s1, s2}
  None = None
  Second = 2
  Cap = 2
  Scenarios <- MCScenarios
SPECIFICATION Spec
INVARIANTS
  TurnIsOwn
PROPERTIES
  FrameComplete
  PacedApart
  PresentArrives
