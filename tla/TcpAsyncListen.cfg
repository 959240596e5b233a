SPECIFICATION LiveSpec
CONSTANTS
  MaxGens = 3
  Chan = 2
INVARIANTS TypeOK OneConnection
PROPERTIES LoopsEndTogether
CHECK_DEADLOCK FALSE
