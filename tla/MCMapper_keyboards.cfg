SPECIFICATION FairSpec
CONSTANTS
  REPORT_BUFFER_SIZE = 5
  Keyboards <- AllKeyboards
  DUAL_ACTION_TIMEOUT = 2
  DUAL_ACTION_TIMEOUT2 = 1
  TAPDANCE_TAP_TIMEOUT = 2
  MOUSE_REPORT_TIME = 1
  FREE_WORDS = 60
  MAX_CALLS = 60
  SCANNER_BUFFER_SIZE = 2
  Boards = {"dual", "slow_host", "two_duals", "tap_dance", "layer_modifiers", "modifier_macros", "macros", "mouse", "clear_all"}
INVARIANTS NothingSticks CountsBalanced PressesInOrder ModifiersAgree MouseFollowsKeys DeadlineArmed MacrosComplete
PROPERTIES EveryPressShown WakesAsPromised
CHECK_DEADLOCK FALSE
