\* One job.  Files: a manifest job as well, a failed write and a registry crash.
\* Network: lost replies, late requests, a flapping device, a crash of the agent.
CONSTANTS
  d1 = d1
  h1 = h1
  h2 = h2
  a1 = a1
  j1 = j1
  None = None
  Devices = {d1}
  Clients = {c1}
  Jobs = {j1}
  Agents = {a1}
  Hosts = {h1}
  Runs = {r1}
  Mutating = {j1}
  MaxLeases = 1
  MaxFaults = 1
  MaxCrashes = 1
  Lossy = FALSE
  MaxAgentCrashes = 0
  Inventories <- Steady
  DeviceOf <- MCDeviceOf
  RunHost <- MCRunHost
  HostOf <- MCHostOf
SPECIFICATION TroubleSpec
INVARIANTS
  TypeOK
  WriterHoldsLease
  AcceptedIsDurable
  ExecutingIsFenced
  EndIsDurable
  EventsInOrder
VIEW NoGrants
CHECK_DEADLOCK FALSE
