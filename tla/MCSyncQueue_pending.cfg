SPECIFICATION FairSpec
CONSTANTS
  Txid = {t1}
  MaxAlive <- NoManual
  Posts <- RawPosts
  Concurrency = 1
  NumOfAttempts = 2
  SerialPolicy = FALSE
  MaxSaves = 2
  MaxResyncs = 0
  MaxManuals = 0
  MaxCrashes = 1
INVARIANT FailureIsDeadLettered
PROPERTY PendingResolved
PROPERTY ImplementsFairTaskQueue
