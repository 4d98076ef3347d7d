CONSTANTS
  Goroutines = {g1, g2}
  Main = Main
  Loader = Loader
  NoG = NoG
  Names = {n1}
  Stored = {}
  ReqKinds = {"one", "create", "delete", "rotate"}
  Fronts = {"http", "grpc"}
  Limit = 1
  MaxReqs = 2
  ApiKeys = TRUE
SPECIFICATION Spec
PROPERTY RequestsComplete ShutdownCompletes
CHECK_DEADLOCK FALSE
