CONSTANTS
  NoValue = NoValue
  NonNumeric = NonNumeric
  Keys = {k1}
  SetVals <- MCSetVals
  Amounts <- MCAmounts
  Clients = {c1, c2}
  OpKinds = {"set"}
  MaxOps = 1
  MaxEntries = 1
  ChanCap = 2
  IntBits = 3
  CompactFails = FALSE
SPECIFICATION Spec
INVARIANT ReplayMatchesTable
CHECK_DEADLOCK FALSE
