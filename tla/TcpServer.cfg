SPECIFICATION Spec
CONSTANTS
  Ids = {a, b}
  NoId = NoId
  MaxConns = 2
  MaxReqs = 3
  Cap = 1
  OutCap = 1
  ClientCmds = {"Ping", "Isync", "Rsync", "Fsync", "Bye", "None", "Bad"}
SYMMETRY IdSymmetry
INVARIANTS TypeOK RegistrySound AddressOfPeer
PROPERTIES OnlyOwnerLeaves
CHECK_DEADLOCK FALSE
