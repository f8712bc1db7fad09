\* A reader of the journal falls behind after two events; a third activity rotates it.
SPECIFICATION RuntimeSpec
CONSTANTS
  Capacity = 2
  PageSize = 1
  MaxSubscribers = 1
  Activities = {a1, a2, a3}
  Local = {a1, a2}
  None = None
  App = app
  Cli = cli
  MaxEvents = 3
  MaxFaults = 1
  MaxStops = 1
  MaxChunks = 2
  Actors = {u1, u2}
  Simulators = {s1}
  Phones = {i1}
  Backends = {b1}
  MaxLeases = 2
  MaxGrants = 1
  Requests = {r1, r2}
  Keys = {k1, k2}
  Operations <- MCOperations
  MaxJobs = 2
  MaxProgress = 1
  MaxSubmits = 3
  Workers = {w1, w2}
  Nothing = nothing
  p1 = p1
  d1 = d1
  Principals = {p1, p2}
  Devices = {d1}
  Resources = {"read", "debugger"}
  HighRisk = {"debugger"}
  Bundles <- MCBundles
  Puts <- MCPuts
  MaxRules = 2
  MaxRevision = 2
  Programs = {q1, q2}
  Peers = {e1, e2}
  MaxMade = 2
  MaxCodes = 2
  MaxBreaks = 2
  Assertions = {x1, x2}
  Consumers = {n1, n2}
  MaxEntries = 2
  MaxLifetime = 2
  MaxClock = 4
  MaxCutOffs = 1
  MaxAttempts = 3
  Tags = {"job", "policy"}
  PageLimit = 1
  MaxRecords = 3
  MaxReads = 3
  MaxWall = 3
  Registry = registry
  AgentPeers = {e2}
  Calls = {h1, h2}
  Lifetime = 1
  MaxAhead = 1
  MaxNow = 3
INVARIANTS
  
  StreamIsComplete
  DevicesAreExclusive
  JobRunsOnce
  PanicIsKept
  PolicyDecides
  IdentityIsKept
  AcceptedOnce
  PagesAreComplete
  TimesAreAccepted
SYMMETRY Symmetry
CHECK_DEADLOCK FALSE
