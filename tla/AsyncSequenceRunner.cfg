\* One controller, as the engine adapter uses the runner, and anyone for Stop;
\* three runs over two contexts, so that a context is reused.
SPECIFICATION FairSpec
CONSTANTS
  Controllers = {c1}
  Contexts = {x1, x2}
  MaxRuns = 3
INVARIANTS
  TypeOK
  SequenceOutlivesThread
  NoticesInOrder
  QuietAfterWait
PROPERTIES
  StopEndsRun
CHECK_DEADLOCK FALSE
