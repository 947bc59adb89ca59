\* Two requests, answers of up to two chunks, one rate limit, one loss.
CONSTANTS
  Requests = {q1, q2}
  MaxChunks = 2
  MaxLimits = 1
  MaxLosses = 1
SPECIFICATION FairSpec
INVARIANTS
  TypeOK
  JoinedIsComplete
  ResumedOnce
  TableIsClean
PROPERTIES
  Completes
CHECK_DEADLOCK FALSE
