SPECIFICATION FairSpec
CONSTANTS
  KEYS = 2
  Cycles = {1, 2, 5, 9}
  COUNT_BITS = 2
  IDLE_WAIT_COUNT = 1
  BUFFER_SIZE = 1
  MAX_MOVES = 7
INVARIANTS ReportedInState RestsClean
PROPERTIES Debounced Alternates ComesToRest
CHECK_DEADLOCK FALSE
