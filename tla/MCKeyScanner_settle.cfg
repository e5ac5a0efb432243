SPECIFICATION Spec
CONSTANTS
  KEYS = 1
  Cycles = {5}
  COUNT_BITS = 2
  IDLE_WAIT_COUNT = 1
  BUFFER_SIZE = 2
  MAX_MOVES = 6
INVARIANTS RestsReported
CHECK_DEADLOCK FALSE
