SPECIFICATION RLiveSpec
CONSTANTS
  Ids = {a, b}
  NoId = NoId
  MaxConns = 3
  MaxReqs = 4
  Cap = 1
  OutCap = 1
  ClientCmds = {"Ping", "Isync", "Rsync"}
  Listeners = {a}
  Connectors = {b}
  PendCap = 1
INVARIANTS RTypeOK AnsweredBeforeRedirect NoCircularWait
PROPERTIES ImplementsRendezvous ConnectReturns
CHECK_DEADLOCK FALSE
