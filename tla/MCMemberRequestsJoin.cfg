\* One request answered by one chunk.
CONSTANTS
  Requests = {q1}
  MaxChunks = 1
  MaxLimits = 0
  MaxLosses = 0
SPECIFICATION FairSpec
PROPERTY JoinReturns
CHECK_DEADLOCK FALSE
