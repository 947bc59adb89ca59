SPECIFICATION Spec
CHECK_DEADLOCK FALSE
CONSTANTS
  Callers = {c1, c2}
  RetryAmount = 0
  MaxCalls = 2
INVARIANT AnswersAreTrue
