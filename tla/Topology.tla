------------------------------ MODULE Topology ------------------------------
(***************************************************************************)
(* TopologyProjector (src/src/dashboard/topology.rs): what the dashboard   *)
(* shows of hosts, devices and leases.  A projector is a value here and    *)
(* its methods are operators; a method that may return an error has a      *)
(* predicate that says when.  A host is shown with at most one device.     *)
(***************************************************************************)
EXTENDS Naturals, FiniteSetsExt, Functions

CONSTANTS
  Me,          \* the local host
  LeaseIds,
  MaxHosts,    \* MAX_COLLECTION_ITEMS, of hosts
  MaxTracked,  \* MAX_COLLECTION_ITEMS, of leases
  None

ASSUME TopologyAssumption ==
  {MaxHosts, MaxTracked} \subseteq Nat \ {0} /\ IsFiniteSet(LeaseIds)

Presences == {"online", "busy", "offline"}

\* A device or host as it is shown: its presence, its freshness and when it
\* was seen last.
Shown(presence, freshness, at) ==
  [presence |-> presence, seen |-> at,
   freshness |-> IF presence = "offline" THEN "stale" ELSE freshness]

NoDevice == Shown("offline", "stale", 0)

Host(kind, shown, device) ==
  [kind |-> kind, device |-> device,
   presence |-> shown.presence, seen |-> shown.seen, freshness |-> shown.freshness]

\* Entries inserted into a map.
Inserted(new, old) ==
  [h \in DOMAIN new \cup DOMAIN old |-> IF h \in DOMAIN new THEN new[h] ELSE old[h]]

\* Host ids and registry peer ids are drawn from one set of names.
Projector(at) ==
  [hosts |-> [h \in {Me} |-> Host("local", Shown("online", "unknown", at), NoDevice)],
   leases |-> <<>>, authenticated |-> FALSE, registry |-> None, revision |-> 0]

Of(t, kind) == {h \in DOMAIN t.hosts : t.hosts[h].kind = kind}

IsStale(thing) == thing.freshness = "stale"

-----------------------------------------------------------------------------
(* mark_host_stale.                                                        *)

DeviceWithHost(host) ==
  IF host.device = NoDevice THEN NoDevice
  ELSE Shown("offline", "stale", IF IsStale(host.device) THEN host.device.seen ELSE host.seen)

HostStale(host) ==
  [host EXCEPT !.presence = "offline", !.freshness = "stale", !.device = DeviceWithHost(host)]

Uncertain(lease) ==
  [lease EXCEPT !.state = IF @ = "active" THEN "uncertain" ELSE @]

MarkedStale(t, hosts) ==
  [t EXCEPT !.hosts = [h \in DOMAIN @ |-> IF h \in hosts THEN HostStale(@[h]) ELSE @[h]],
            !.leases = [l \in DOMAIN @ |-> IF @[l].owner \in hosts THEN Uncertain(@[l])
                                          ELSE @[l]]]

-----------------------------------------------------------------------------
(* connect_registry and disconnect_registry.                               *)

\* The epoch of a session is the time of the observation; it must not go
\* back, and it must advance with another registry.
ConnectFails(t, peer, epoch) ==
  /\ t.registry # None
  /\ IF t.registry.peer = peer THEN epoch < t.registry.epoch ELSE epoch <= t.registry.epoch

\* What the registry before has told says nothing about this one.
Retired(t) ==
  LET stale == MarkedStale(t, DOMAIN t.hosts \ {Me})
  IN [stale EXCEPT !.hosts = Restrict(@, DOMAIN @ \ Of(t, "controller"))]

Connected(t, peer, epoch) ==
  LET old == IF t.registry = None THEN [peer |-> peer, epoch |-> 0] ELSE t.registry
      base == IF old.peer = peer THEN t ELSE Retired(t)
  IN IF peer = old.peer /\ epoch = old.epoch THEN [t EXCEPT !.authenticated = TRUE]
     ELSE [base EXCEPT !.authenticated = TRUE, !.revision = 0,
                       !.registry = [peer |-> peer, epoch |-> epoch]]

Disconnected(t) ==
  [MarkedStale(t, DOMAIN t.hosts \ {Me}) EXCEPT !.authenticated = FALSE]

-----------------------------------------------------------------------------
(* observe_controller and observe_registry.                                *)

\* A host is only live when it was known before.
FreshnessOf(t, h) == IF h \in DOMAIN t.hosts THEN "live" ELSE "unknown"

ControllerFails(t, peer) ==
  peer # Me /\ Cardinality(DOMAIN t.hosts \cup {peer}) > MaxHosts

WithController(t, peer, at) ==
  IF peer = Me THEN t
  ELSE LET shown == Shown("online", FreshnessOf(t, peer), at)
       IN [t EXCEPT !.hosts = Inserted([h \in {peer} |-> Host("controller", shown, NoDevice)], @)]

\* The local host and the controller are not what the inventory says they are.
Considered(t, inventory) ==
  DOMAIN inventory \ ({Me} \cup Of(t, "controller"))

InventoryFails(t, rev, inventory) ==
  /\ rev > t.revision
  /\ Cardinality(Considered(t, inventory)) + Cardinality(Of(t, "local") \cup Of(t, "controller"))
       > MaxHosts

\* When a host that is off line was seen last.
SeenLast(t, h, now) == IF h \in DOMAIN t.hosts THEN t.hosts[h].seen ELSE now

\* When a device that is off line was seen last.
DeviceSeen(t, h, now) ==
  IF h \notin DOMAIN t.hosts \/ t.hosts[h].device = NoDevice THEN now
  ELSE IF IsStale(t.hosts[h].device) THEN t.hosts[h].device.seen
  ELSE t.hosts[h].seen

\* A host as the inventory reports it; its device is off line if it is.
Projected(t, h, row, at) ==
  LET up == row.host # "offline"
      seen == IF up THEN at ELSE SeenLast(t, h, at)
      state == IF up THEN row.device ELSE "offline"
  IN Host("agent", Shown(row.host, FreshnessOf(t, h), seen),
          IF row.device = "none" THEN NoDevice
          ELSE Shown(state, FreshnessOf(t, h),
                     IF state = "offline" THEN DeviceSeen(t, h, seen) ELSE at))

\* Of the hosts the inventory does not mention those seen first go, if there
\* are too many.
Pruned(t, mentioned) ==
  LET absent == Of(t, "agent") \ mentioned
      excess == Max({0, Cardinality(DOMAIN t.hosts) - MaxHosts})
      gone == CHOOSE S \in SUBSET absent :
                /\ Cardinality(S) = Min({excess, Cardinality(absent)})
                /\ \A g \in S, k \in absent \ S : t.hosts[g].seen <= t.hosts[k].seen
  IN [t EXCEPT !.hosts = Restrict(@, DOMAIN @ \ gone)]

WithInventory(t, rev, at, inventory) ==
  LET mentioned == Considered(t, inventory)
      marked == MarkedStale(t, Of(t, "agent") \ mentioned)
      rows == [h \in mentioned |-> Projected(t, h, inventory[h], at)]
  IN IF rev <= t.revision THEN t
     ELSE Pruned([marked EXCEPT !.hosts = Inserted(rows, @), !.revision = rev], mentioned)

-----------------------------------------------------------------------------
(* track_active_lease and lease_authorizable.                              *)

Tracked(t, l, owner) ==
  LET up == owner \in DOMAIN t.hosts /\ ~IsStale(t.hosts[owner])
      full == l \notin DOMAIN t.leases /\ Cardinality(DOMAIN t.leases) >= MaxTracked
      old == {k \in DOMAIN t.leases : t.leases[k].state = "uncertain"}
      kept == IF full THEN DOMAIN t.leases \ {CHOOSE k \in old : TRUE} ELSE DOMAIN t.leases
      lease == [owner |-> owner, state |-> IF up THEN "active" ELSE "uncertain"]
  IN IF full /\ old = {} THEN t
     ELSE [t EXCEPT !.leases = Inserted([k \in {l} |-> lease], Restrict(@, kept))]

IsUsable(thing) == thing.presence = "online" /\ thing.freshness = "live"

\* Trust: remote hosts are trusted while the registry is authenticated.
Authorizable(t, l) ==
  /\ l \in DOMAIN t.leases /\ t.leases[l].state = "active"
  /\ LET owner == t.leases[l].owner
     IN /\ owner \in DOMAIN t.hosts
        /\ IsUsable(t.hosts[owner]) /\ IsUsable(t.hosts[owner].device)
        /\ owner = Me \/ t.authenticated
=============================================================================
