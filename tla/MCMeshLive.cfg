\* A mutating job ends; lost replies, late requests, a registry crash.
CONSTANTS
  d1 = d1
  h1 = h1
  h2 = h2
  a1 = a1
  j1 = j1
  None = None
  Devices = {d1}
  Clients = {c1}
  Jobs = {j1}
  Agents = {a1}
  Hosts = {h1}
  Runs = {}
  Mutating = {j1}
  MaxLeases = 1
  MaxFaults = 0
  MaxCrashes = 1
  Lossy = TRUE
  MaxAgentCrashes = 0
  Inventories <- Steady
  DeviceOf <- MCDeviceOf
  RunHost <- MCRunHost
  HostOf <- MCHostOf
SPECIFICATION FairCalm
PROPERTIES JobsEnd
CHECK_DEADLOCK FALSE
