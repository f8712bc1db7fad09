SPECIFICATION FileSpec
CONSTANTS
  None = None
  MaxSaves = 5
  MaxFileFaults = 2
INVARIANT LoadIsLatest
CHECK_DEADLOCK FALSE
