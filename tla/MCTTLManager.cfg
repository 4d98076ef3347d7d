CONSTANTS
  Clients = {c1, c2}
  Keys = {k1, k2}
  NoValue = NoValue
  TTLs = {0, 1, 2}
  NumShards = 2
  KeyShard <- MCKeyShard
  Epoch = 5
  MaxTime = 8
  MaxOps = 2
  Started = TRUE
SPECIFICATION Spec
PROPERTY NoEarlyExpiry
CHECK_DEADLOCK FALSE
