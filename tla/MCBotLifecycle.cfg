\* Six shards: room for a first stretch of three and a second one that could be
\* three too.
CONSTANTS
  NumShards = 6
  MaxConc = 2
SPECIFICATION FairSpec
INVARIANTS
  TypeOK
  NoThreadOutlivesShard
  StartWindow
PROPERTIES
  DestructorEnds
  StopWakesRun
CHECK_DEADLOCK FALSE
