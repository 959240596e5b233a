SPECIFICATION Spec
CONSTANTS
  Ids = {a, b}
  NoId = NoId
  MaxConns = 2
  MaxReqs = 2
  Cap = 1
  OutCap = 1
  ClientCmds = {"Ping"}
SYMMETRY IdSymmetry
PROPERTIES PingAssociates
CHECK_DEADLOCK FALSE
