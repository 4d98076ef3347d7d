CONSTANTS
  NoValue = NoValue
  NonNumeric = NonNumeric
  Keys = {k1}
  SetVals <- MCSetVals
  Amounts <- MCAmounts
  Clients = {c1, c2}
  OpKinds = {"set", "incr", "del"}
  MaxOps = 3
  MaxEntries = 1
  ChanCap = 2
  IntBits = 3
  CompactFails = FALSE
SPECIFICATION Spec
INVARIANT TypeOK
INVARIANT ClosedIsDurable
SYMMETRY ClientSymmetry
CHECK_DEADLOCK FALSE
