SPECIFICATION Spec
CONSTANTS
  Txid = {t1}
  MaxAlive <- TwoManual
  Posts <- NosyncPosts
  Concurrency = 3
  NumOfAttempts = 1
  SerialPolicy = TRUE
  MaxSaves = 2
  MaxResyncs = 0
  MaxManuals = 3
  MaxCrashes = 2
INVARIANT BlockStatusCompletes
