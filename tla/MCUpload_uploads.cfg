SPECIFICATION Spec
CONSTANTS
  Lengths = {2, 3, 5, 7, 8}
  PACKET = 3
  SIZE = 8
  MAX_UPLOADS = 3
  MAX_FILES = 2
INVARIANTS Locks UploadStored ActiveNewest
PROPERTIES StoreIsLog
CHECK_DEADLOCK FALSE
