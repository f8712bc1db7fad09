\* Contend: two jobs on one device under two leases, lost replies, late requests.
\* Owners: two agents report the device, one job, a registry crash.
CONSTANTS
  d1 = d1
  h1 = h1
  h2 = h2
  a1 = a1
  j1 = j1
  None = None
  Devices = {d1}
  Clients = {c1}
  Jobs = {j1, j2}
  Agents = {a1, a2}
  Hosts = {h1, h2}
  Runs = {}
  Mutating = {j1, j2}
  MaxLeases = 2
  MaxFaults = 0
  MaxCrashes = 0
  Lossy = TRUE
  MaxAgentCrashes = 0
  Inventories <- Steady
  DeviceOf <- MCDeviceOf
  RunHost <- MCRunHost
  HostOf <- MCHostOf
SPECIFICATION DeviceSpec
INVARIANTS
  DeferredHasWriter
  ExecutingIsOwned
PROPERTIES
  ToolsAreExclusive
VIEW NoGrants
SYMMETRY JobSymmetry
CHECK_DEADLOCK FALSE
