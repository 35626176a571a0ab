SPECIFICATION FairSpec
CONSTANTS
  Producers = {p1}
  BatchSize = 2
  MaxBatchSize = 5
  MaxQueueDb = 1
  MaxQueueFile = 3
  JoinTimesOut = TRUE
  MaxItems = 3
  MaxFails = 1
  MaxEnds = 2
INVARIANT NothingLost
INVARIANT StoredRight
PROPERTY Durable
CHECK_DEADLOCK FALSE
