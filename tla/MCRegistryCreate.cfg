CONSTANTS
  Goroutines = {g1}
  Main = Main
  Loader = Loader
  NoG = NoG
  Names = {n1}
  Stored = {n1}
  ReqKinds = {"create"}
  Fronts = {"http", "grpc"}
  Limit = 1
  MaxReqs = 1
  ApiKeys = FALSE
SPECIFICATION Spec
INVARIANT OneInstancePerName
CHECK_DEADLOCK FALSE
