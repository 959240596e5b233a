SPECIFICATION RSpec
CONSTANTS
  Ids = {a, b, x}
  NoId = NoId
  MaxConns = 4
  MaxReqs = 5
  Cap = 1
  OutCap = 1
  ClientCmds = {"Ping", "Isync", "Rsync"}
  Listeners = {a, x}
  Connectors = {b}
  PendCap = 1
CONSTRAINT ListenersStay
INVARIANTS ReachesTarget
CHECK_DEADLOCK FALSE
