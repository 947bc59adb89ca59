SPECIFICATION Spec
CONSTANTS
  RetryAmount = 2
  CloseCodes <- MCCloseCodes
  MaxSeq = 2
  MaxFaults = 1
INVARIANT ReadyIsCurrent
CHECK_DEADLOCK FALSE
