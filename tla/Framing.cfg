SPECIFICATION Spec
CONSTANTS
  Base = 104
  Wrap = 200
  MaxMsg = 104
  Strings <- StringsDef
  Addr <- AddrDef
  MaxSent = 2
  MaxCut = 4
INVARIANTS TypeOK NeverMisread FittingAccepted NeverStarves AnswerAccepted DatagramReceived
CHECK_DEADLOCK FALSE
