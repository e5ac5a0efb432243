SPECIFICATION Spec
CONSTANTS
  ROWS = 2
  COLS = 6
  LAYOUT_MAX = 90
  PACKET = 8
  Projects <- AllProjects
  BuiltIn <- BuiltInWords
INVARIANTS KeysAsWritten LoadEstablishes BodiesInside FittingLoads FailedLoadRecovers SettingsAsWritten
PROPERTIES LoadsAsPromised
CHECK_DEADLOCK FALSE
