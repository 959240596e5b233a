SPECIFICATION LiveSpec
CONSTANTS
  MaxGens = 2
  Chan = 2
  Spurious = FALSE
CONSTRAINT NobodyCalls
PROPERTIES AutoReconnect
CHECK_DEADLOCK FALSE
