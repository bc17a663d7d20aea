SPECIFICATION Spec
CONSTANTS
  x1 = x1
  ch1 = ch1
  ch2 = ch2
  address = address
  hash = hash
  Tx = {x1}
  Channel = {ch1}
  Group = {}
  ScriptId = {address, hash}
  Client = {c1}
  ScriptIds <- SameScript
  Lists <- AddressOnly
  UpdateLog = TRUE
  Requests <- CheckedPush
  Logging = TRUE
INVARIANT SavedIsCommitted
CHECK_DEADLOCK FALSE
