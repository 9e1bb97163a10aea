\* A second start while the first sequence still has something to post.
SPECIFICATION FairSpec
CONSTANTS
  UIThreads = {ui}
  MaxEngines = 2
PROPERTY StartReturns
CHECK_DEADLOCK FALSE
