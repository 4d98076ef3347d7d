CONSTANTS
  Goroutines = {g1, g2}
  Main = Main
  Loader = Loader
  NoG = NoG
  Names = {n1}
  Stored = {n1}
  ReqKinds = {"set", "one", "create", "delete"}
  Fronts = {"http", "grpc"}
  Limit = 1
  MaxReqs = 2
  ApiKeys = FALSE
SPECIFICATION Spec
INVARIANT TypeOK NoUseAfterDelete
SYMMETRY GoroutineSymmetry
CHECK_DEADLOCK FALSE
