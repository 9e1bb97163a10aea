\* The dialog's one thread; restarts and stops at every point of three sequences.
\* A restart may hang, so the system may stop.
SPECIFICATION FairSpec
CONSTANTS
  UIThreads = {ui}
  MaxEngines = 3
INVARIANTS
  TypeOK
  NoOrphanThread
  PostsInOrder
PROPERTY StopReturns
CHECK_DEADLOCK FALSE
