CONSTANTS
  k1 = k1
  k2 = k2
  k3 = k3
  Keys = {k1, k2, k3}
  KeyHash <- MCKeyHash
  Clients = {c1, c2}
  InitBuckets = 2
  LockNum <- MCLockNum
  ProbeEvery = 2
  ProbeCap = 1
  MaxOps = 2
  MaxEntries = 1
  NoC = NoC
SPECIFICATION Spec
SYMMETRY MCClientSymmetry
INVARIANT TypeOK EveryKeyFindable EntriesCountsTable CapOvershootBounded
PROPERTY ImplementsKeySet ShardCountIsLeastPowerOfTwo
CHECK_DEADLOCK FALSE
