SPECIFICATION RSpec
CONSTANTS
  Ids = {a, b}
  NoId = NoId
  MaxConns = 4
  MaxReqs = 10
  Cap = 1
  OutCap = 1
  ClientCmds = {"Ping", "Isync", "Rsync"}
  Listeners = {a, b}
  Connectors = {a, b}
  PendCap = 1
CONSTRAINT Facing
INVARIANTS NoDeadlock
CHECK_DEADLOCK FALSE
