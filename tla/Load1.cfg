CONSTANTS
  MaxPositions = 3
  MaxInspections = 3
SPECIFICATION Spec
INVARIANTS TypeOK MeasuredInPlace ScansCompareTheRightPlaces
PROPERTIES XYOnlyAtSafeZ RunsEnd
CHECK_DEADLOCK FALSE
