SPECIFICATION FairSpec
CONSTANTS
  Txid = {t1, t2, t3}
  First = {f1, f2}
  Retry = {r1}
  Concurrency = 1
  NumOfAttempts = 2
INVARIANT TypeOK
INVARIANT NothingLost
PROPERTY JobStarts
PROPERTY TaskLeaves
