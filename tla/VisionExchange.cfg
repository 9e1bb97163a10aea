\* Three requests in up to two runs, so that an answer can come late for a
\* request of the same run and of the run before.  All requests may be spent.
SPECIFICATION FairSpec
CONSTANTS
  MaxRequests = 3
  MaxRuns = 2
INVARIANTS
  TypeOK
  AnswerFits
PROPERTIES
  AnswerTaken
  StopHeard
CHECK_DEADLOCK FALSE
