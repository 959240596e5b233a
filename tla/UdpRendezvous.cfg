SPECIFICATION USpec
CONSTANTS
  a = a
  b = b
  a1 = a1
  b1 = b1
  b2 = b2
  o = o
  Ids = {a, b}
  Addrs = {a1, b1, b2}
  NoAddr = NoAddr
  Owner <- OwnerDef
  ByeIds = {}
  ReadTimeout = 1
  GcPeriod = 0
  Expire = 1
  MaxTime = 1
  Listeners = {a}
  Connectors = {b}
  Others = {o}
  Main = Main
  Rounds = 2
VIEW WithoutHistory
SYMMETRY AddrSymmetry
INVARIANTS UTypeOK AnsweredBeforeRedirect
PROPERTIES ImplementsRendezvous
CHECK_DEADLOCK FALSE
