\* One job that may be asked for twice; cancelling, pausing and resuming are
\* allowed by managed rules; one lost call, or one failed write or stop.
SPECIFICATION OneTroubleSpec
CONSTANTS
  Jobs = {j1}
  AdminOps = {"pause", "resume", "cancel"}
  Managed = {"pause", "resume", "cancel"}
  None = None
  MaxApprovals = 2
  MaxAudits = 2
  MaxFaults = 1
  MaxCrashes = 1
  MaxTroubles = 1
  MaxLosses = 1
INVARIANTS
  NothingLeftRunning
  SucceededIsReal
  AtWorkIsWorkedOn
PROPERTIES
  ExecutionsEnd
CHECK_DEADLOCK FALSE
