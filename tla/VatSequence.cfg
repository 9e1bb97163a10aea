\* Three entries, each a task or an empty pointer: PREV crosses an empty entry,
\* NEXT leaves the last one, and the list grows while the loop runs.
SPECIFICATION FairSpec
CONSTANT MaxTasks = 3
INVARIANTS
  TypeOK
  AtMostOneLateBody
  TrueMeansPassed
  AbortWakesSleeper
PROPERTIES
  RequestEndsExecute
CHECK_DEADLOCK FALSE
