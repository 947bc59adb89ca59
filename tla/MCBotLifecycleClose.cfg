\* One shard is enough for the wakeup to be lost.
CONSTANTS
  NumShards = 1
  MaxConc = 1
SPECIFICATION FairSpec
PROPERTY CloseStopsRun
CHECK_DEADLOCK FALSE
