SPECIFICATION Spec
CONSTANTS
  SIZE = 48
  DIR_SIZE = 8
  ERASE_SIZE = 8
  PAGE_SIZE = 4
  MAX_FILES = 3
  FREE = 65535
  HEADER = 21845
  END_PAGE = 16320
  Lengths = {5, 10, 36}
  CHUNK = 6
  Windows = {"idle", "recycle"}
PROPERTY NewestKept
CHECK_DEADLOCK FALSE
