\* Two threads and three tasks; Start, Stop and the destructor at every point.
\* A stopped scheduler may stay so.
SPECIFICATION FairSpec
CONSTANTS
  Workers = {w1, w2}
  MaxTasks = 3
INVARIANTS
  TypeOK
  StopDrains
PROPERTIES
  WorkEnds
CHECK_DEADLOCK FALSE
