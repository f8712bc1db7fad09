\* Records of two kinds over three days, segments of two frames; an artifact of two chunks;
\* three clients queue for two devices.
SPECIFICATION StoresSpec
CONSTANTS
  None = None
  Tags = {t1, t2}
  KeepDays = 1
  SegmentSize = 2
  MaxDay = 2
  MaxSeq = 4
  MaxSegment = 8
  MaxAuditFaults = 1
  MaxAuditCrashes = 1
  MaxTroubles = 2
  StoreJobs = {j1, j2}
  StoreActors = {a1}
  MaxBody = 4
  MaxWrites = 2
  MaxDamage = 1
  MaxSaves = 5
  MaxFileFaults = 1
  Size = 2
  MaxAttempts = 3
  MaxArtifactFaults = 2
  Owners = {o1, o2}
  FileChunks = {1, 2}
  MaxStoreFaults = 2
  Devices = {d1, d2}
  Clients = {q1, q2, q3}
  Agents = {g1}
  Hosts = {h1}
  Jobs = {}
  Runs = {}
  Mutating = {}
  DeviceOf <- MCDeviceOf
  RunHost <- MCRunHost
  MaxLeases = 3
  MaxFaults = 0
  MaxCrashes = 1
  Managers = {m1, m2}
  Sessions = {w1}
  Writers = {c1, c2}
  Nobody = Nobody
  Nothing = nothing
  MaxUploads = 2
  MaxStops = 2
INVARIANTS
  
  ReadIsWritten
  LoadIsLatest
  UploadsArePublished
  WorkspaceHasOneWriter
  WaitersBehindHolder
  GrantKept
PROPERTIES
  NoOvertaking
SYMMETRY ClientSymmetry
CHECK_DEADLOCK FALSE
