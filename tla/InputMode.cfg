CHECK_DEADLOCK FALSE
CONSTANTS
  Toggles = {t1, t2}
  AutoCmd = AutoCmd
  NoCmd = NoCmd
  MaxChanges = 3
  FaultSets <- SingleFaults
SPECIFICATION Spec
INVARIANTS
  UiAgrees
PROPERTIES
  ManualKept
  FollowsTablet
