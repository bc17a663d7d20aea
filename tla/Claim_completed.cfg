SPECIFICATION Spec
CONSTANTS
  Txid = {t1}
  MaxAlive <- NoManual
  Posts <- RawPosts
  Concurrency = 3
  NumOfAttempts = 1
  SerialPolicy = FALSE
  MaxSaves = 1
  MaxResyncs = 1
  MaxManuals = 0
  MaxCrashes = 0
INVARIANT SyncedIsCompleted
