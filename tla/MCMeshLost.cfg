\* A manifest job and an Apple job that reads share a host: is it completed?
CONSTANTS
  d1 = d1
  h1 = h1
  h2 = h2
  a1 = a1
  j1 = j1
  None = None
  Devices = {d1}
  Clients = {c1}
  Jobs = {j1}
  Agents = {a1}
  Hosts = {h1}
  Runs = {r1}
  Mutating = {}
  MaxLeases = 0
  MaxFaults = 0
  MaxCrashes = 0
  Lossy = FALSE
  MaxAgentCrashes = 0
  Inventories <- Steady
  DeviceOf <- MCDeviceOf
  RunHost <- MCRunHost
  HostOf <- MCHostOf
SPECIFICATION FairWhole
PROPERTIES RunsEnd
CHECK_DEADLOCK FALSE
