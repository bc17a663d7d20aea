SPECIFICATION Spec
CONSTANTS
  inserts = inserts
  address = address
  x1 = x1
  Channel = {inserts, address}
  Explicit = {inserts}
  Client = {x1}
  Subscribes <- Listens
  CheckLimit = 2
  TruncateMax = 1
  Ids = {1, 2}
  MaxEvents = 4
  MaxConns = 2
PROPERTY MissedAreReplayed
