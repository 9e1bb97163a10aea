CONSTANTS
  MaxPositions = 3
  MaxInspections = 1
SPECIFICATION Spec
INVARIANT EveryPositionInspected
CHECK_DEADLOCK FALSE
