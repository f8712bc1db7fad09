\* A failed write and a stop of the daemon.
SPECIFICATION ScenesSpec
CONSTANTS
  Jobs = {j1}
  AdminOps = {"put", "drop", "pause", "resume", "cancel", "erase"}
  Managed = {"drop", "pause", "resume", "cancel", "erase"}
  None = None
  MaxApprovals = 2
  MaxAudits = 4
  MaxFaults = 1
  MaxCrashes = 1
  MaxTroubles = 2
INVARIANTS
  ApprovalSpentOnce
  PauseHolds
  
PROPERTIES
  
  DenyOverrides
CHECK_DEADLOCK FALSE
