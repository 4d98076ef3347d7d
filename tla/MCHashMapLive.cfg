CONSTANTS
  NoValue = NoValue
  NonNumeric = NonNumeric
  Keys = {k1}
  SetVals <- MCSetVals
  Amounts <- MCAmounts
  Clients = {c1}
  OpKinds = {"set", "incr", "del"}
  MaxOps = 6
  MaxEntries = 1
  ChanCap = 2
  IntBits = 3
  CompactFails = TRUE
SPECIFICATION Spec
PROPERTY CloseCompletes
CHECK_DEADLOCK FALSE
