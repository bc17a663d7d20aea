SPECIFICATION FairSpec
CONSTANTS
  N = 3
  SendPolicy = "ALL_FIRST_PRIORITY_SUCCESS"
  Logging = TRUE
INVARIANT TypeOK
INVARIANT BackupsWait
INVARIANT AsksAreLogged
PROPERTY RequestEnds
PROPERTY ImplementsMinerRequest
CHECK_DEADLOCK FALSE
