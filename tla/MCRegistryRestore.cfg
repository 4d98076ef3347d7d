CONSTANTS
  Goroutines = {g1}
  Main = Main
  Loader = Loader
  NoG = NoG
  Names = {n1}
  Stored = {n1}
  ReqKinds = {"one"}
  Fronts = {"http"}
  Limit = 1
  MaxReqs = 1
  ApiKeys = TRUE
SPECIFICATION Spec
PROPERTY KeysSurviveRestart
CHECK_DEADLOCK FALSE
