\* Three saves of any kind, each statement and file operation failing or not (a
\* write of an image unnoticed), with a shutdown or a crash between any two steps.
SPECIFICATION Spec
CONSTANT MaxCalls = 3
INVARIANTS
  TypeOK
  AnsweredIsDurable
  FailedResultsAbsent
  NothingHalfDone
CHECK_DEADLOCK FALSE
