CONSTANTS
  NoValue = NoValue
  NonNumeric = NonNumeric
  Keys = {k1}
  SetVals <- MCSetVals
  Amounts <- MCAmounts
  Clients = {c1}
  OpKinds = {"set", "del"}
  MaxOps = 7
  MaxEntries = 1
  ChanCap = 2
  IntBits = 3
  CompactFails = TRUE
SPECIFICATION Spec
INVARIANT ClosedIsDurable
CHECK_DEADLOCK FALSE
