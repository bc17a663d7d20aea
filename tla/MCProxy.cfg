SPECIFICATION Spec
CONSTANTS
  x1 = x1
  ch1 = ch1
  ch2 = ch2
  address = address
  hash = hash
  Tx = {x1}
  Channel = {ch1, ch2}
  Group = {g1}
  ScriptId = {address, hash}
  Client = {c1, c2}
  ScriptIds <- SameScript
  Lists <- AddressOnly
  UpdateLog = TRUE
  Requests <- AllRequests
  Logging = TRUE
INVARIANT TypeOK
PROPERTY CommittedIsKept
INVARIANT SavedIsVouched
INVARIANT NewIsAnnounced
INVARIANT GroupsHear
INVARIANT RequestMovesOn
SYMMETRY Symmetric
CHECK_DEADLOCK FALSE
