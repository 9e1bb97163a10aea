\* Three saves: one of each kind, or several of one, in one batch or in three,
\* with every position of the destructor among them.
SPECIFICATION Spec
CONSTANTS
  MaxItems = 3
  MaxRetries = 2
INVARIANTS
  TypeOK
  StatusAfterItsData
  NoSleepOverWork
PROPERTIES
  ImplementsPromise
CHECK_DEADLOCK FALSE
