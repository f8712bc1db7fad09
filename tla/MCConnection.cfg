\* The setting changes twice; the table of hosts is full with three.
SPECIFICATION Spec
CONSTANTS
  me = me
  h1 = h1
  r1 = r1
  r2 = r2
  Me = me
  Peers = {r1, r2}
  LeaseIds = {l1}
  MaxHosts = 3
  MaxTracked = 1
  None = None
  Inventories <- MCInventories
  MaxTime = 3
  MaxChanges = 2
INVARIANTS
  ShownAsReported
  AuthorizedIsReported
PROPERTIES
  ActiveIsOnDisk
