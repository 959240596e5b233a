SPECIFICATION Spec
CONSTANTS
  a = a
  b = b
  a1 = a1
  a2 = a2
  b1 = b1
  Ids = {a, b}
  Addrs = {a1, a2, b1}
  NoAddr = NoAddr
  Owner <- OwnerDef
  ByeIds = {a}
  ReadTimeout = 1
  GcPeriod = 2
  Expire = 2
  MaxTime = 8
INVARIANTS TypeOK StaleForgotten SourceKnown AddressOfPeer
PROPERTIES FreshKept
CHECK_DEADLOCK FALSE
