SPECIFICATION LiveSpec
CONSTANTS
  MaxGens = 3
  Chan = 2
  Spurious = TRUE
INVARIANTS TypeOK OneConnection
PROPERTIES ShutdownStops
CHECK_DEADLOCK FALSE
