\* Two threads at one endpoint, two rate limits, retries enough to reach the cap.
CONSTANTS
  r1 = r1
  r2 = r2
  channel = channel
  Requests = {r1, r2}
  Endpoints = {channel}
  Target <- MCTarget
  RetryAmount = 7
  MaxLimits = 2
SPECIFICATION FairSpec
INVARIANTS
  TypeOK
  LimitsHaveOwners
  LimitIsWaitedOut
  
  StopCutsRetries
PROPERTIES
  RequestsReturn
CHECK_DEADLOCK FALSE
