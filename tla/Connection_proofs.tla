--------------------------- MODULE Connection_proofs ---------------------------
(***************************************************************************)
(* What the dashboard shows of a registry and its hosts, and what it       *)
(* authorizes work on, is what the registry of the setting in use said     *)
(* last, however polls, workers and changes of the setting overlap.        *)
(***************************************************************************)
EXTENDS Connection, TLAPS

Kinds == {"local", "agent", "controller"}
Freshness == {"live", "unknown", "stale"}
Thing == [presence : Presences, seen : Nat, freshness : Freshness]
HostEntry == [kind : Kinds, device : Thing, presence : Presences, seen : Nat,
              freshness : Freshness]

\* Only agents show a device, and the local host is not one of them.
IsHost(h, host) ==
  /\ host \in HostEntry
  /\ host.kind # "agent" => host.device = NoDevice
  /\ h = Me => host.kind = "local"

IsTopology(t) ==
  /\ t \in [hosts : {t.hosts}, leases : {t.leases}, authenticated : BOOLEAN,
            registry : {t.registry}, revision : Nat]
  /\ \A h \in DOMAIN t.hosts : IsHost(h, t.hosts[h])

\* An agent is shown as one row of an inventory has it.
ShowsRow(host, row) ==
  /\ host.presence = row.host
  /\ host.device = NoDevice \/ host.device.presence = row.device

\* The agents are shown as the rows of an inventory, those it lacks as stale.
ShowsRows(t, rows) ==
  \A h \in Of(t, "agent") :
    /\ ~IsStale(t.hosts[h]) <=> h \in DOMAIN rows /\ rows[h].host # "offline"
    /\ ~IsStale(t.hosts[h]) => ShowsRow(t.hosts[h], rows[h])

AgentsAreStale(t) == \A h \in Of(t, "agent") : IsStale(t.hosts[h])

\* What of a projector the steps below leave alone.
SameRegistry(t, u) ==
  /\ t.registry = u.registry /\ t.authenticated = u.authenticated

LEMMA ThingsAreThings ==
  /\ NoDevice \in Thing /\ NoDevice.presence = "offline"
  /\ \A p \in Presences, f \in Freshness, at \in Nat :
       /\ Shown(p, f, at) \in Thing /\ Shown(p, f, at).presence = p
       /\ f # "stale" => (IsStale(Shown(p, f, at)) <=> p = "offline")
  /\ \A kind \in Kinds, shown \in Thing, device \in Thing :
       /\ Host(kind, shown, device) \in HostEntry
       /\ Host(kind, shown, device).kind = kind
       /\ Host(kind, shown, device).device = device
       /\ Host(kind, shown, device).presence = shown.presence
       /\ IsStale(Host(kind, shown, device)) <=> IsStale(shown)
BY DEF Thing, NoDevice, Shown, Presences, Freshness, IsStale, Host, HostEntry, Kinds

LEMMA HostStaleIsStale ==
  ASSUME NEW h, NEW host, IsHost(h, host)
  PROVE  /\ IsHost(h, HostStale(host)) /\ HostStale(host).kind = host.kind
         /\ IsStale(HostStale(host))
<1>1. host \in HostEntry
  BY DEF IsHost
<1>2. DeviceWithHost(host) \in Thing
  BY <1>1 DEF DeviceWithHost, NoDevice, Shown, Thing, HostEntry, Presences, Freshness
<1>3. host.device = NoDevice => DeviceWithHost(host) = NoDevice
  BY DEF DeviceWithHost
<1> DEFINE d == DeviceWithHost(host)
           n == [host EXCEPT !.presence = "offline", !.freshness = "stale", !.device = d]
<1>4. HostStale(host) = n
  BY DEF HostStale
<1>5. "offline" \in Presences /\ "stale" \in Freshness
  BY DEF Presences, Freshness
<1> HIDE DEF d
<1>6. n \in HostEntry
  BY <1>1, <1>2, <1>5 DEF HostEntry, d
<1>7. n.kind = host.kind /\ n.freshness = "stale" /\ n.device = d
  BY <1>1 DEF HostEntry
<1> QED BY <1>3, <1>4, <1>6, <1>7 DEF IsHost, IsStale, d

LEMMA MarkedStaleIs ==
  ASSUME NEW t, NEW S, IsTopology(t)
  PROVE  LET u == MarkedStale(t, S)
         IN  /\ IsTopology(u) /\ SameRegistry(u, t) /\ u.revision = t.revision
             /\ DOMAIN u.hosts = DOMAIN t.hosts /\ Of(u, "agent") = Of(t, "agent")
             /\ \A h \in DOMAIN t.hosts :
                  u.hosts[h] = IF h \in S THEN HostStale(t.hosts[h]) ELSE t.hosts[h]
<1> DEFINE hs == [h \in DOMAIN t.hosts |-> IF h \in S THEN HostStale(t.hosts[h]) ELSE t.hosts[h]]
           ls == [l \in DOMAIN t.leases |-> IF t.leases[l].owner \in S THEN Uncertain(t.leases[l])
                                           ELSE t.leases[l]]
           u == [t EXCEPT !.hosts = hs, !.leases = ls]
<1>1. MarkedStale(t, S) = u
  BY DEF MarkedStale
<1>2. \A h \in DOMAIN t.hosts : IsHost(h, hs[h]) /\ hs[h].kind = t.hosts[h].kind
  BY HostStaleIsStale DEF IsTopology
<1>3. DOMAIN hs = DOMAIN t.hosts
  OBVIOUS
<1>4. \A h \in DOMAIN t.hosts : hs[h] = IF h \in S THEN HostStale(t.hosts[h]) ELSE t.hosts[h]
  OBVIOUS
<1> HIDE DEF hs, ls
<1>5. /\ u.hosts = hs /\ u.leases = ls /\ u.authenticated = t.authenticated
      /\ u.registry = t.registry /\ u.revision = t.revision
      /\ u \in [hosts : {hs}, leases : {ls}, authenticated : BOOLEAN,
                registry : {t.registry}, revision : Nat]
  BY DEF IsTopology
<1> HIDE DEF u
<1>6. IsTopology(u)
  BY <1>2, <1>3, <1>5 DEF IsTopology
<1>7. Of(u, "agent") = Of(t, "agent")
  BY <1>2, <1>3, <1>5 DEF Of
<1> QED BY <1>1, <1>3, <1>4, <1>5, <1>6, <1>7 DEF SameRegistry

\* Every agent is another host than the local one.
LEMMA AgentsAreRemote ==
  ASSUME NEW t, IsTopology(t)
  PROVE  \A h \in Of(t, "agent") : h \in DOMAIN t.hosts \ {Me}
BY DEF IsTopology, IsHost, Of

LEMMA RemoteIsStale ==
  ASSUME NEW t, IsTopology(t)
  PROVE  AgentsAreStale(MarkedStale(t, DOMAIN t.hosts \ {Me}))
<1> DEFINE u == MarkedStale(t, DOMAIN t.hosts \ {Me})
<1> SUFFICES ASSUME NEW h \in Of(u, "agent") PROVE IsStale(u.hosts[h])
  BY DEF AgentsAreStale
<1>1. h \in DOMAIN t.hosts \ {Me}
  BY AgentsAreRemote, MarkedStaleIs
<1>2. u.hosts[h] = HostStale(t.hosts[h])
  BY <1>1, MarkedStaleIs
<1> QED BY <1>1, <1>2, HostStaleIsStale DEF IsTopology

LEMMA DisconnectedIs ==
  ASSUME NEW t, IsTopology(t)
  PROVE  IsTopology(Disconnected(t)) /\ AgentsAreStale(Disconnected(t))
<1> DEFINE u == MarkedStale(t, DOMAIN t.hosts \ {Me})
           v == [u EXCEPT !.authenticated = FALSE]
<1>1. IsTopology(u) /\ AgentsAreStale(u)
  BY MarkedStaleIs, RemoteIsStale
<1>2. Disconnected(t) = v
  BY DEF Disconnected
<1> HIDE DEF u
<1>3. /\ v \in [hosts : {u.hosts}, leases : {u.leases}, authenticated : BOOLEAN,
                registry : {u.registry}, revision : Nat]
      /\ v.hosts = u.hosts /\ v.leases = u.leases /\ v.registry = u.registry
  BY <1>1 DEF IsTopology
<1> HIDE DEF v
<1>4. IsTopology(v) /\ AgentsAreStale(v)
  BY <1>1, <1>3 DEF IsTopology, AgentsAreStale, Of
<1> QED BY <1>2, <1>4

LEMMA HostsReplaced ==
  ASSUME NEW t, NEW hs, IsTopology(t), \A h \in DOMAIN hs : IsHost(h, hs[h])
  PROVE  LET u == [t EXCEPT !.hosts = hs]
         IN  IsTopology(u) /\ u.hosts = hs /\ u.revision = t.revision /\ SameRegistry(u, t)
<1> DEFINE u == [t EXCEPT !.hosts = hs]
<1>1. /\ u.hosts = hs /\ u.leases = t.leases /\ u.authenticated = t.authenticated
      /\ u.registry = t.registry /\ u.revision = t.revision
      /\ u \in [hosts : {hs}, leases : {t.leases}, authenticated : BOOLEAN,
                registry : {t.registry}, revision : Nat]
  BY DEF IsTopology
<1> HIDE DEF u
<1>2. IsTopology(u) /\ SameRegistry(u, t)
  BY <1>1 DEF IsTopology, SameRegistry
<1> QED BY <1>1, <1>2 DEF u

LEMMA RetiredIs ==
  ASSUME NEW t, IsTopology(t)
  PROVE  IsTopology(Retired(t)) /\ AgentsAreStale(Retired(t))
<1> DEFINE u == MarkedStale(t, DOMAIN t.hosts \ {Me})
           kept == DOMAIN u.hosts \ Of(t, "controller")
           hs == Restrict(u.hosts, kept)
<1>1. IsTopology(u) /\ AgentsAreStale(u)
  BY MarkedStaleIs, RemoteIsStale
<1>2. Retired(t) = [u EXCEPT !.hosts = hs]
  BY DEF Retired
<1>3. DOMAIN hs \subseteq DOMAIN u.hosts /\ \A h \in DOMAIN hs : hs[h] = u.hosts[h]
  BY DEF Restrict
<1> HIDE DEF u, hs
<1>4. IsTopology(Retired(t)) /\ Retired(t).hosts = hs
  BY <1>1, <1>2, <1>3, HostsReplaced DEF IsTopology
<1> QED BY <1>1, <1>3, <1>4 DEF AgentsAreStale, Of

\* A connection keeps the hosts, or it is to another registry than before and nothing is
\* known of the hosts any more.
LEMMA ConnectedIs ==
  ASSUME NEW t, NEW peer, NEW at \in Nat \ {0}, IsTopology(t)
  PROVE  LET u == Connected(t, peer, at)
         IN  /\ IsTopology(u) /\ u.authenticated /\ u.registry.peer = peer
             /\ \/ u.hosts = t.hosts
                \/ t.registry # None /\ t.registry.peer # peer /\ AgentsAreStale(u)
<1> DEFINE old == IF t.registry = None THEN [peer |-> peer, epoch |-> 0] ELSE t.registry
           base == IF old.peer = peer THEN t ELSE Retired(t)
           same == [t EXCEPT !.authenticated = TRUE]
           registry == [peer |-> peer, epoch |-> at]
           other == [base EXCEPT !.authenticated = TRUE, !.revision = 0, !.registry = registry]
           u == Connected(t, peer, at)
<1>1. u = IF peer = old.peer /\ at = old.epoch THEN same ELSE other
  BY DEF Connected
<1>2. CASE peer = old.peer /\ at = old.epoch
  <2>1. u = same
    BY <1>1, <1>2
  <2>2. t.registry # None /\ t.registry.peer = peer
    BY <1>2
  <2>3. /\ same \in [hosts : {t.hosts}, leases : {t.leases}, authenticated : BOOLEAN,
                     registry : {t.registry}, revision : Nat]
        /\ same.hosts = t.hosts /\ same.leases = t.leases /\ same.registry = t.registry
        /\ same.authenticated = TRUE
    BY DEF IsTopology
  <2> HIDE DEF same, u
  <2>4. IsTopology(u)
    BY <2>1, <2>3 DEF IsTopology
  <2> QED BY <2>1, <2>2, <2>3, <2>4 DEF u
<1>3. CASE ~(peer = old.peer /\ at = old.epoch)
  <2>1. u = other
    BY <1>1, <1>3
  <2>2. IsTopology(base) /\ (old.peer # peer => AgentsAreStale(base))
    BY RetiredIs
  <2>3. old.peer # peer => t.registry # None /\ t.registry.peer # peer
    OBVIOUS
  <2>4. old.peer = peer => base = t
    OBVIOUS
  <2> HIDE DEF base, u, registry, old
  <2>5. /\ other \in [hosts : {base.hosts}, leases : {base.leases}, authenticated : BOOLEAN,
                      registry : {registry}, revision : Nat]
        /\ other.hosts = base.hosts /\ other.leases = base.leases
        /\ other.registry = registry /\ other.authenticated = TRUE
    BY <2>2 DEF IsTopology
  <2> HIDE DEF other
  <2>6. IsTopology(u)
    BY <2>1, <2>2, <2>5 DEF IsTopology
  <2>7. old.peer # peer => AgentsAreStale(u)
    BY <2>1, <2>2, <2>5 DEF AgentsAreStale, Of
  <2> QED BY <2>1, <2>3, <2>4, <2>5, <2>6, <2>7 DEF u, registry
<1> QED BY <1>2, <1>3

\* A controller takes the place of the agent of its name, and changes no other host.
LEMMA WithControllerIs ==
  ASSUME NEW t, NEW peer, NEW at \in Nat, IsTopology(t)
  PROVE  LET u == WithController(t, peer, at)
         IN  /\ IsTopology(u) /\ u.revision = t.revision /\ SameRegistry(u, t)
             /\ \A h \in Of(u, "agent") : h \in Of(t, "agent") /\ u.hosts[h] = t.hosts[h]
<1> DEFINE u == WithController(t, peer, at)
           shown == Shown("online", FreshnessOf(t, peer), at)
           new == [h \in {peer} |-> Host("controller", shown, NoDevice)]
           hs == Inserted(new, t.hosts)
<1>1. CASE peer = Me
  <2>1. u = t
    BY <1>1 DEF WithController
  <2> QED BY <2>1 DEF SameRegistry
<1>2. CASE peer # Me
  <2>1. u = [t EXCEPT !.hosts = hs]
    BY <1>2 DEF WithController
  <2>2. shown \in Thing
    BY ThingsAreThings DEF FreshnessOf, Presences, Freshness
  <2>3. \A h \in {peer} : new[h] = Host("controller", shown, NoDevice)
    OBVIOUS
  <2>4. IsHost(peer, Host("controller", shown, NoDevice))
        /\ Host("controller", shown, NoDevice).kind = "controller"
    BY <1>2, <2>2, ThingsAreThings DEF IsHost, Kinds
  <2>5. /\ DOMAIN hs = {peer} \cup DOMAIN t.hosts
        /\ hs[peer] = Host("controller", shown, NoDevice)
        /\ \A h \in DOMAIN t.hosts \ {peer} : hs[h] = t.hosts[h]
    BY DEF Inserted
  <2> HIDE DEF shown, hs, u
  <2>6. \A h \in DOMAIN hs : IsHost(h, hs[h])
    BY <2>4, <2>5 DEF IsTopology
  <2>7. IsTopology(u) /\ u.hosts = hs /\ u.revision = t.revision /\ SameRegistry(u, t)
    BY <2>1, <2>6, HostsReplaced
  <2>8. \A h \in Of(u, "agent") : h \in Of(t, "agent") /\ u.hosts[h] = t.hosts[h]
    BY <2>4, <2>5, <2>7 DEF Of
  <2> QED BY <2>7, <2>8 DEF u
<1> QED BY <1>1, <1>2

LEMMA ProjectedIs ==
  ASSUME NEW t, NEW h, NEW at \in Nat, IsTopology(t),
         NEW row \in [host : Presences, device : Presences \cup {"none"}]
  PROVE  LET host == Projected(t, h, row, at)
         IN  /\ host \in HostEntry /\ host.kind = "agent"
             /\ ~IsStale(host) <=> row.host # "offline"
             /\ ~IsStale(host) => ShowsRow(host, row)
<1> DEFINE up == row.host # "offline"
           seen == IF up THEN at ELSE SeenLast(t, h, at)
           state == IF up THEN row.device ELSE "offline"
           since == IF state = "offline" THEN DeviceSeen(t, h, seen) ELSE at
           fresh == FreshnessOf(t, h)
           device == IF row.device = "none" THEN NoDevice ELSE Shown(state, fresh, since)
           shown == Shown(row.host, fresh, seen)
<1>1. Projected(t, h, row, at) = Host("agent", shown, device)
  BY DEF Projected
<1>2. fresh \in Freshness \ {"stale"}
  BY DEF FreshnessOf, Freshness
<1>3. seen \in Nat
  BY DEF IsTopology, IsHost, HostEntry, SeenLast
<1>4. since \in Nat
  <2> HIDE DEF seen, state
  <2> QED BY <1>3 DEF IsTopology, IsHost, HostEntry, Thing, DeviceSeen
<1>5. row.host \in Presences /\ (row.device # "none" => row.device \in Presences)
  OBVIOUS
<1>6. row.device # "none" => state \in Presences
  BY <1>5 DEF Presences
<1>7. up => state = row.device
  OBVIOUS
<1> HIDE DEF seen, state, since, fresh
<1>8. shown \in Thing /\ shown.presence = row.host /\ (IsStale(shown) <=> row.host = "offline")
  BY <1>2, <1>3, <1>5, ThingsAreThings
<1>9. device \in Thing /\ (device = NoDevice \/ device.presence = state)
  BY <1>2, <1>4, <1>6, ThingsAreThings
<1> HIDE DEF shown, device
<1>10. "agent" \in Kinds
  BY DEF Kinds
<1> QED BY <1>1, <1>7, <1>8, <1>9, <1>10, ThingsAreThings DEF ShowsRow

\* Hosts that are pruned are gone, the others are as they were.
LEMMA PrunedIs ==
  ASSUME NEW t, NEW mentioned, IsTopology(t)
  PROVE  LET u == Pruned(t, mentioned)
         IN  /\ IsTopology(u) /\ SameRegistry(u, t)
             /\ DOMAIN u.hosts \subseteq DOMAIN t.hosts
             /\ \A h \in DOMAIN u.hosts : u.hosts[h] = t.hosts[h]
<1>1. PICK gone : Pruned(t, mentioned) =
                    [t EXCEPT !.hosts = Restrict(t.hosts, DOMAIN t.hosts \ gone)]
  BY DEF Pruned
<1> DEFINE hs == Restrict(t.hosts, DOMAIN t.hosts \ gone)
<1>2. DOMAIN hs \subseteq DOMAIN t.hosts /\ \A h \in DOMAIN hs : hs[h] = t.hosts[h]
  BY DEF Restrict
<1> HIDE DEF hs
<1>3. Pruned(t, mentioned) = [t EXCEPT !.hosts = hs]
  BY <1>1 DEF hs
<1>4. \A h \in DOMAIN hs : IsHost(h, hs[h])
  BY <1>2 DEF IsTopology
<1> QED BY <1>2, <1>3, <1>4, HostsReplaced

\* A new inventory is shown row by row.
LEMMA WithInventoryIs ==
  ASSUME NEW t, NEW rev \in Nat, NEW inv \in Inventories, IsTopology(t), rev > t.revision
  PROVE  LET u == WithInventory(t, rev, rev, inv)
         IN  IsTopology(u) /\ SameRegistry(u, t) /\ ShowsRows(u, inv)
<1> DEFINE mentioned == Considered(t, inv)
           absent == Of(t, "agent") \ mentioned
           marked == MarkedStale(t, absent)
           rows == [h \in mentioned |-> Projected(t, h, inv[h], rev)]
           hs == Inserted(rows, marked.hosts)
           v == [marked EXCEPT !.hosts = hs, !.revision = rev]
           u == Pruned(v, mentioned)
<1>1. WithInventory(t, rev, rev, inv) = u
  <2>1. ~(rev <= t.revision)
    BY DEF IsTopology
  <2> QED BY <2>1 DEF WithInventory
<1>2. /\ IsTopology(marked) /\ SameRegistry(marked, t)
      /\ DOMAIN marked.hosts = DOMAIN t.hosts /\ Of(marked, "agent") = Of(t, "agent")
      /\ \A h \in DOMAIN t.hosts :
           marked.hosts[h] = IF h \in absent THEN HostStale(t.hosts[h]) ELSE t.hosts[h]
  BY MarkedStaleIs
<1>3. \A h \in mentioned :
        /\ h \in DOMAIN inv /\ h # Me
        /\ inv[h] \in [host : Presences, device : Presences \cup {"none"}]
  BY ConnectionAssumption DEF Considered
<1>4. \A h \in mentioned :
        /\ rows[h] \in HostEntry /\ rows[h].kind = "agent"
        /\ ~IsStale(rows[h]) <=> inv[h].host # "offline"
        /\ ~IsStale(rows[h]) => ShowsRow(rows[h], inv[h])
  BY <1>3, ProjectedIs
<1>5. \A h \in Of(t, "agent") : h \in DOMAIN inv => h \in mentioned
  BY AgentsAreRemote DEF Considered, Of
<1> HIDE DEF marked, mentioned
<1>6. /\ DOMAIN hs = mentioned \cup DOMAIN t.hosts
      /\ \A h \in mentioned : hs[h] = rows[h]
      /\ \A h \in DOMAIN t.hosts \ mentioned : hs[h] = marked.hosts[h]
  BY <1>2 DEF Inserted
<1> HIDE DEF rows, hs
<1>7. \A h \in DOMAIN hs : IsHost(h, hs[h])
  BY <1>2, <1>3, <1>4, <1>6 DEF IsTopology, IsHost
<1>8. /\ v.hosts = hs /\ v.leases = marked.leases /\ v.authenticated = marked.authenticated
      /\ v.registry = marked.registry /\ v.revision = rev
      /\ v \in [hosts : {hs}, leases : {marked.leases}, authenticated : BOOLEAN,
                registry : {marked.registry}, revision : Nat]
  BY <1>2 DEF IsTopology
<1> HIDE DEF v
<1>9. IsTopology(v) /\ SameRegistry(v, t)
  BY <1>2, <1>7, <1>8 DEF IsTopology, SameRegistry
<1>10. /\ IsTopology(u) /\ SameRegistry(u, v) /\ DOMAIN u.hosts \subseteq DOMAIN hs
       /\ \A h \in DOMAIN u.hosts : u.hosts[h] = hs[h]
  BY <1>8, <1>9, PrunedIs
<1> HIDE DEF u
<1>11. ShowsRows(u, inv)
  <2> SUFFICES ASSUME NEW h \in Of(u, "agent")
               PROVE  /\ ~IsStale(u.hosts[h]) <=> h \in DOMAIN inv /\ inv[h].host # "offline"
                      /\ ~IsStale(u.hosts[h]) => ShowsRow(u.hosts[h], inv[h])
    BY DEF ShowsRows
  <2>1. h \in DOMAIN hs /\ u.hosts[h] = hs[h] /\ hs[h].kind = "agent"
    BY <1>10 DEF Of
  <2>2. CASE h \in mentioned
    BY <1>3, <1>4, <1>6, <2>1, <2>2
  <2>3. CASE h \notin mentioned
    <3>1. h \in DOMAIN t.hosts /\ hs[h] = marked.hosts[h]
      BY <1>6, <2>1, <2>3
    <3>2. h \in Of(t, "agent")
      BY <1>2, <2>1, <3>1 DEF Of
    <3>3. h \notin DOMAIN inv /\ IsStale(hs[h])
      BY <1>2, <1>5, <2>3, <3>1, <3>2, HostStaleIsStale DEF IsTopology
    <3> QED BY <2>1, <3>3
  <2> QED BY <2>2, <2>3
<1> QED BY <1>1, <1>9, <1>10, <1>11 DEF SameRegistry

-----------------------------------------------------------------------------
(* The inductive invariant.  A report is kept only while its registry is   *)
(* the one in use and the projector is authenticated with it; without one  *)
(* every agent is stale.  A poll or a worker that finds the generation     *)
(* unchanged started with the setting in use.                              *)

IsCapture(c, current, peer) ==
  /\ c.peer \in Peers /\ c.generation \in Nat /\ c.generation <= current
  /\ c.generation = current => c.peer = peer

CapturesAreKnown ==
  /\ poll.phase # "idle" => IsCapture(poll, generation, active)
  /\ poll.phase = "answered" =>
       \/ poll.answer = NoReport
       \/ poll.answer.by = poll.peer /\ poll.answer.hosts \in Inventories
  /\ job # None => IsCapture(job, generation, active)

ReportIsOf(report, t, peer) ==
  \/ report = NoReport
  \/ /\ report.hosts \in Inventories /\ peer # None /\ report.by = peer
     /\ t.authenticated /\ t.registry.peer = peer

ConnInv ==
  /\ now \in Nat \ {0} /\ generation \in Nat /\ active \in Peers \cup {None}
  /\ CapturesAreKnown
  /\ IsTopology(topology)
  /\ ReportIsOf(reported, topology, active)
  /\ ShowsRows(topology, reported.hosts)
  /\ ConnectedIsCurrent

LEMMA StaleShowsNothing ==
  ASSUME NEW t PROVE ShowsRows(t, NoReport.hosts) <=> AgentsAreStale(t)
<1>1. DOMAIN NoReport.hosts = {}
  BY DEF NoReport
<1> QED BY <1>1 DEF ShowsRows, AgentsAreStale

LEMMA ConnInvHoldsInitially == Init => ConnInv
<1> SUFFICES ASSUME Init PROVE ConnInv
  OBVIOUS
<1> DEFINE hs == [h \in {Me} |-> Host("local", Shown("online", "unknown", 1), NoDevice)]
<1>1. topology = [hosts |-> hs, leases |-> <<>>, authenticated |-> FALSE, registry |-> None,
                  revision |-> 0]
  BY DEF Init, Projector
<1>2. Shown("online", "unknown", 1) \in Thing
  BY ThingsAreThings DEF Presences, Freshness
<1>3. IsHost(Me, hs[Me]) /\ hs[Me].kind = "local"
  BY <1>2, ThingsAreThings DEF IsHost, Kinds
<1>4. DOMAIN hs = {Me}
  OBVIOUS
<1> HIDE DEF hs
<1>5. IsTopology(topology) /\ AgentsAreStale(topology)
  BY <1>1, <1>3, <1>4 DEF IsTopology, AgentsAreStale, Of
<1>6. reported = NoReport /\ ShowsRows(topology, reported.hosts)
  BY <1>5, StaleShowsNothing DEF Init
<1>7. CapturesAreKnown /\ ConnectedIsCurrent
  BY DEF Init, CapturesAreKnown, Idle, ConnectedIsCurrent
<1>8. active \in Peers \cup {None} /\ now = 1 /\ generation = 1
  BY DEF Init
<1> QED BY <1>5, <1>6, <1>7, <1>8 DEF ConnInv, ReportIsOf

\* A step that leaves the projector and the setting alone.
LEMMA QuietIsGood ==
  ASSUME ConnInv, now' \in Nat \ {0}, CapturesAreKnown',
         UNCHANGED <<active, generation, connection, topology, reported>>
  PROVE  ConnInv'
BY DEF ConnInv, ConnectedIsCurrent

LEMMA PollsAreGood ==
  ASSUME ConnInv, Tick \/ PollCapture \/ PollCall \/ JobCapture \/ JobGone
  PROVE  ConnInv'
<1>1. UNCHANGED <<active, generation, connection, topology, reported>>
  BY DEF Tick, PollCapture, PollCall, JobCapture, JobGone
<1>2. now' \in Nat \ {0}
  BY DEF ConnInv, Tick, PollCapture, PollCall, JobCapture, JobGone
<1>3. active # None => IsCapture(Captured(active, generation), generation, active)
  BY DEF ConnInv, IsCapture, Captured
<1>4. ASSUME Tick \/ JobGone PROVE CapturesAreKnown'
  BY <1>4 DEF ConnInv, Tick, JobGone, CapturesAreKnown
<1>5. ASSUME PollCapture PROVE CapturesAreKnown'
  <2>1. poll' = Polling("calling", Captured(active, generation), NoReport) /\ active # None
        /\ UNCHANGED <<generation, active, job>>
    BY <1>5 DEF PollCapture
  <2>2. poll'.phase = "calling" /\ poll'.peer = active /\ poll'.generation = generation
    BY <2>1 DEF Polling, Captured
  <2> QED BY <2>1, <2>2, <1>3 DEF ConnInv, CapturesAreKnown, IsCapture, Captured
<1>6. ASSUME PollCall PROVE CapturesAreKnown'
  <2>1. UNCHANGED <<generation, active, job>> /\ poll.phase = "calling"
    BY <1>6 DEF PollCall
  <2>2. PICK answer :
          /\ poll' = Polling("answered", poll, answer)
          /\ answer = NoReport \/ (answer.by = poll.peer /\ answer.hosts \in Inventories)
    <3>1. CASE poll' = Polling("answered", poll, NoReport)
      BY <3>1
    <3>2. CASE /\ session' = SessionFor(session, poll.peer)
               /\ \E inv \in Inventories :
                    poll' = Polling("answered", poll, [by |-> session', hosts |-> inv])
      <4>1. PICK inv \in Inventories :
              poll' = Polling("answered", poll, [by |-> session', hosts |-> inv])
        BY <3>2
      <4>2. session' = poll.peer
        BY <3>2 DEF SessionFor
      <4> QED BY <4>1, <4>2
    <3> QED BY <1>6, <3>1, <3>2 DEF PollCall
  <2>3. poll'.phase = "answered" /\ poll'.peer = poll.peer
        /\ poll'.generation = poll.generation /\ poll'.answer = answer
    BY <2>2 DEF Polling
  <2> QED BY <2>1, <2>2, <2>3 DEF ConnInv, CapturesAreKnown, IsCapture
<1>7. ASSUME JobCapture PROVE CapturesAreKnown'
  BY <1>3, <1>7 DEF ConnInv, JobCapture, CapturesAreKnown
<1> QED BY <1>1, <1>2, <1>4, <1>5, <1>6, <1>7, QuietIsGood

LEMMA SetConnectionIsGood ==
  ASSUME ConnInv, NEW p \in Peers, SetConnection(p) PROVE ConnInv'
<1>1. UNCHANGED <<now, poll, session, job>>
  BY DEF SetConnection
<1>2. CASE UNCHANGED <<generation, topology, reported, active, connection>>
  BY <1>1, <1>2, QuietIsGood DEF ConnInv, CapturesAreKnown
<1>3. CASE Invalidated /\ active' \in {p, None} /\ connection' # "connected"
  <2>1. generation' = generation + 1 /\ topology' = Disconnected(topology)
        /\ reported' = NoReport
    BY <1>3 DEF Invalidated
  <2>2. IsTopology(topology') /\ AgentsAreStale(topology')
    BY <2>1, DisconnectedIs DEF ConnInv
  <2>3. ShowsRows(topology', reported'.hosts)
    BY <2>1, <2>2, StaleShowsNothing
  <2>4. CapturesAreKnown'
    BY <1>1, <2>1 DEF ConnInv, CapturesAreKnown, IsCapture
  <2>5. ConnectedIsCurrent'
    BY <1>3 DEF ConnectedIsCurrent
  <2> QED BY <1>1, <1>3, <2>1, <2>2, <2>3, <2>4, <2>5 DEF ConnInv, ReportIsOf
<1> QED BY <1>2, <1>3 DEF SetConnection, Reconciled

\* Connecting to the registry in use keeps what its last report shows.
LEMMA ConnectingIsGood ==
  ASSUME ConnInv, active # None
  PROVE  LET t == Connected(topology, active, now)
         IN  /\ IsTopology(t) /\ t.authenticated /\ t.registry.peer = active
             /\ ShowsRows(t, reported.hosts) /\ ReportIsOf(reported, t, active)
<1> DEFINE t == Connected(topology, active, now)
<1>1. /\ IsTopology(t) /\ t.authenticated /\ t.registry.peer = active
      /\ \/ t.hosts = topology.hosts
         \/ topology.registry.peer # active /\ AgentsAreStale(t)
  BY ConnectedIs DEF ConnInv
<1> HIDE DEF t
<1>2. ReportIsOf(reported, t, active)
  BY <1>1 DEF ConnInv, ReportIsOf
<1>3. ShowsRows(t, reported.hosts)
  <2>1. CASE t.hosts = topology.hosts
    BY <2>1 DEF ConnInv, ShowsRows, Of
  <2>2. CASE topology.registry.peer # active /\ AgentsAreStale(t)
    <3>1. reported = NoReport
      BY <2>2 DEF ConnInv, ReportIsOf
    <3> QED BY <2>2, <3>1, StaleShowsNothing
  <2> QED BY <1>1, <2>1, <2>2
<1> QED BY <1>1, <1>2, <1>3 DEF t

\* So does telling of its controller.
LEMMA ControllerIsGood ==
  ASSUME ConnInv, NEW t, IsTopology(t), t.authenticated, t.registry.peer = active,
         ShowsRows(t, reported.hosts), ReportIsOf(reported, t, active)
  PROVE  LET u == WithController(t, active, now)
         IN  /\ IsTopology(u) /\ u.authenticated /\ u.registry.peer = active
             /\ u.revision = t.revision
             /\ ShowsRows(u, reported.hosts) /\ ReportIsOf(reported, u, active)
<1> DEFINE u == WithController(t, active, now)
<1>1. now \in Nat
  BY DEF ConnInv
<1>2. /\ IsTopology(u) /\ u.revision = t.revision /\ SameRegistry(u, t)
      /\ \A h \in Of(u, "agent") : h \in Of(t, "agent") /\ u.hosts[h] = t.hosts[h]
  BY <1>1, WithControllerIs
<1> HIDE DEF u
<1>3. ShowsRows(u, reported.hosts)
  BY <1>2 DEF ShowsRows
<1> QED BY <1>2, <1>3 DEF SameRegistry, ReportIsOf, u

\* A step under the lock that ends with a projector of the registry in use.
LEMMA AuthenticatedIsGood ==
  ASSUME ConnInv, UNCHANGED <<now, active, generation>>, CapturesAreKnown',
         active # None, connection' \in {connection, "connected"},
         IsTopology(topology'), topology'.authenticated, topology'.registry.peer = active,
         ShowsRows(topology', reported'.hosts), ReportIsOf(reported', topology', active)
  PROVE  ConnInv'
<1>1. ConnectedIsCurrent'
  BY DEF ConnectedIsCurrent
<1> QED BY <1>1 DEF ConnInv

LEMMA JobObservesIsGood ==
  ASSUME ConnInv, JobObserves PROVE ConnInv'
<1>1. /\ job # None /\ job' = None
      /\ UNCHANGED <<now, disk, active, generation, poll, session, reported>>
  BY DEF JobObserves
<1>2. CapturesAreKnown'
  BY <1>1 DEF ConnInv, CapturesAreKnown
<1>3. CASE UNCHANGED <<topology, connection>>
  BY <1>1, <1>2, <1>3, QuietIsGood DEF ConnInv
<1>4. CASE ~UNCHANGED <<topology, connection>>
  <2>1. job.peer = active /\ active # None
    BY <1>1, <1>4, ConnectionAssumption
    DEF JobObserves, IsCurrent, ConnInv, CapturesAreKnown, IsCapture
  <2> DEFINE t == Connected(topology, active, now)
             u == WithController(t, active, now)
  <2>2. \/ topology' = t /\ connection' = connection
        \/ topology' = u /\ connection' = "connected"
    BY <1>4, <2>1 DEF JobObserves
  <2>3. /\ IsTopology(t) /\ t.authenticated /\ t.registry.peer = active
        /\ ShowsRows(t, reported.hosts) /\ ReportIsOf(reported, t, active)
    BY <2>1, ConnectingIsGood
  <2> HIDE DEF t
  <2>4. /\ IsTopology(u) /\ u.authenticated /\ u.registry.peer = active
        /\ ShowsRows(u, reported.hosts) /\ ReportIsOf(reported, u, active)
    BY <2>3, ControllerIsGood
  <2> HIDE DEF u
  <2>5. /\ IsTopology(topology') /\ topology'.authenticated
        /\ topology'.registry.peer = active
        /\ ShowsRows(topology', reported.hosts) /\ ReportIsOf(reported, topology', active)
    BY <2>2, <2>3, <2>4
  <2> QED BY <1>1, <1>2, <2>1, <2>2, <2>5, AuthenticatedIsGood
<1> QED BY <1>3, <1>4

LEMMA PollApplyIsGood ==
  ASSUME ConnInv, PollApply PROVE ConnInv'
<1> DEFINE seen == IF poll.answer = NoReport THEN None ELSE Observed(poll.peer, poll.answer.hosts)
<1>1. /\ poll.phase = "answered" /\ poll' = Idle
      /\ UNCHANGED <<now, disk, active, generation, session, job>>
  BY DEF PollApply
<1>2. CapturesAreKnown'
  BY <1>1 DEF ConnInv, CapturesAreKnown, Idle
<1>3. CASE ~IsCurrent(poll)
  <2>1. UNCHANGED <<topology, connection, reported>>
    BY <1>3 DEF PollApply
  <2> QED BY <1>1, <1>2, <2>1, QuietIsGood DEF ConnInv
<1>4. CASE IsCurrent(poll) /\ seen = None
  <2>1. topology' = Disconnected(topology) /\ connection' = "disconnected"
        /\ reported' = NoReport
    BY <1>4 DEF PollApply
  <2>2. IsTopology(topology') /\ AgentsAreStale(topology')
    BY <2>1, DisconnectedIs DEF ConnInv
  <2>3. ShowsRows(topology', reported'.hosts)
    BY <2>1, <2>2, StaleShowsNothing
  <2>4. ConnectedIsCurrent'
    BY <2>1 DEF ConnectedIsCurrent
  <2> QED BY <1>1, <1>2, <2>1, <2>2, <2>3, <2>4 DEF ConnInv, ReportIsOf
<1>5. CASE IsCurrent(poll) /\ seen # None
  <2>1. /\ poll.peer = active /\ active # None
        /\ poll.answer.by = active /\ poll.answer.hosts \in Inventories
    BY <1>1, <1>5, ConnectionAssumption
    DEF IsCurrent, ConnInv, CapturesAreKnown, IsCapture
  <2> DEFINE inv == poll.answer.hosts
             t == Connected(topology, active, now)
             u == WithController(t, active, now)
             v == WithInventory(u, now, now, inv)
  <2>2. topology' = v /\ connection' = "connected"
        /\ reported' = IF now > t.revision THEN poll.answer ELSE reported
    BY <1>5, <2>1 DEF PollApply, Observed
  <2>3. /\ IsTopology(t) /\ t.authenticated /\ t.registry.peer = active
        /\ ShowsRows(t, reported.hosts) /\ ReportIsOf(reported, t, active)
    BY <2>1, ConnectingIsGood
  <2> HIDE DEF t
  <2>4. /\ IsTopology(u) /\ u.authenticated /\ u.registry.peer = active
        /\ u.revision = t.revision
        /\ ShowsRows(u, reported.hosts) /\ ReportIsOf(reported, u, active)
    BY <2>3, ControllerIsGood
  <2> HIDE DEF u
  <2>5. CASE now > t.revision
    <3>1. IsTopology(v) /\ SameRegistry(v, u) /\ ShowsRows(v, inv)
      BY <2>1, <2>4, <2>5, WithInventoryIs DEF ConnInv
    <3> HIDE DEF v
    <3>2. /\ IsTopology(topology') /\ topology'.authenticated
          /\ topology'.registry.peer = active /\ ShowsRows(topology', reported'.hosts)
      BY <2>2, <2>4, <2>5, <3>1 DEF SameRegistry
    <3>3. ReportIsOf(reported', topology', active)
      BY <2>1, <2>2, <2>5, <3>2 DEF ReportIsOf
    <3> QED BY <1>1, <1>2, <2>1, <2>2, <3>2, <3>3, AuthenticatedIsGood
  <2>6. CASE ~(now > t.revision)
    <3>1. now <= u.revision
      BY <2>3, <2>4, <2>6 DEF ConnInv, IsTopology
    <3>2. v = u
      BY <3>1 DEF WithInventory
    <3> HIDE DEF v
    <3>3. reported' = reported /\ topology' = u
      BY <2>2, <2>6, <3>2
    <3>4. /\ IsTopology(topology') /\ topology'.authenticated
          /\ topology'.registry.peer = active
          /\ ShowsRows(topology', reported'.hosts) /\ ReportIsOf(reported', topology', active)
      BY <2>4, <3>3
    <3> QED BY <1>1, <1>2, <2>1, <2>2, <3>4, AuthenticatedIsGood
  <2> QED BY <2>5, <2>6
<1> QED BY <1>3, <1>4, <1>5

LEMMA TrackLeaseIsGood ==
  ASSUME ConnInv, NEW l, NEW owner, TrackLease(l, owner) PROVE ConnInv'
<1>1. /\ topology' = Tracked(topology, l, owner)
      /\ UNCHANGED <<now, disk, active, generation, connection, poll, session, job, reported>>
  BY DEF TrackLease
<1>2. \/ topology' = topology
      \/ \E leases : topology' = [topology EXCEPT !.leases = leases]
  BY <1>1 DEF Tracked
<1>3. /\ IsTopology(topology') /\ SameRegistry(topology', topology)
      /\ topology'.hosts = topology.hosts
  <2>1. IsTopology(topology)
    BY DEF ConnInv
  <2>2. CASE topology' = topology
    BY <2>1, <2>2 DEF SameRegistry
  <2>3. ASSUME NEW leases, topology' = [topology EXCEPT !.leases = leases]
        PROVE  /\ IsTopology(topology') /\ SameRegistry(topology', topology)
               /\ topology'.hosts = topology.hosts
    <3> DEFINE u == [topology EXCEPT !.leases = leases]
    <3>1. /\ u.hosts = topology.hosts /\ u.leases = leases
          /\ u.authenticated = topology.authenticated
          /\ u.registry = topology.registry /\ u.revision = topology.revision
          /\ u \in [hosts : {topology.hosts}, leases : {leases}, authenticated : BOOLEAN,
                    registry : {topology.registry}, revision : Nat]
      BY <2>1 DEF IsTopology
    <3> HIDE DEF u
    <3>2. IsTopology(u) /\ SameRegistry(u, topology) /\ u.hosts = topology.hosts
      BY <2>1, <3>1 DEF IsTopology, SameRegistry
    <3> QED BY <2>3, <3>2 DEF u
  <2> QED BY <1>2, <2>2, <2>3
<1>4. ShowsRows(topology', reported'.hosts) /\ ReportIsOf(reported', topology', active')
  BY <1>1, <1>3 DEF ConnInv, ShowsRows, Of, ReportIsOf, SameRegistry
<1>5. ConnectedIsCurrent'
  BY <1>1, <1>3 DEF ConnInv, ConnectedIsCurrent, SameRegistry
<1>6. CapturesAreKnown'
  BY <1>1 DEF ConnInv, CapturesAreKnown
<1> QED BY <1>1, <1>3, <1>4, <1>5, <1>6 DEF ConnInv

LEMMA ConnInvIsInductive ==
  ASSUME ConnInv, [Next]_vars PROVE ConnInv'
<1>1. CASE UNCHANGED vars
  BY <1>1, QuietIsGood DEF vars, ConnInv, CapturesAreKnown
<1> QED BY <1>1, PollsAreGood, SetConnectionIsGood, JobObservesIsGood, PollApplyIsGood,
           TrackLeaseIsGood DEF Next

LEMMA SpecHasConnInv == Spec => []ConnInv
BY ConnInvHoldsInitially, ConnInvIsInductive, PTL DEF Spec

LEMMA ConnInvShows == ConnInv => ReachableAsReported
<1> SUFFICES ASSUME ConnInv, NEW h \in Of(topology, "agent")
             PROVE  ~IsStale(topology.hosts[h]) <=>
                      /\ topology.authenticated /\ reported.by = active
                      /\ h \in DOMAIN reported.hosts /\ reported.hosts[h].host # "offline"
  BY DEF ReachableAsReported
<1>1. ~IsStale(topology.hosts[h]) <=>
        h \in DOMAIN reported.hosts /\ reported.hosts[h].host # "offline"
  BY DEF ConnInv, ShowsRows
<1>2. h \in DOMAIN reported.hosts => topology.authenticated /\ reported.by = active
  BY DEF ConnInv, ReportIsOf, NoReport
<1> QED BY <1>1, <1>2

\* What the dashboard shows of the registry and its hosts is what the registry of the
\* setting in use said last, for any registries and inventories, any number of changes and
\* any bounds on the tables.
THEOREM DashboardShowsTheReport ==
  Spec => []ShownAsReported
<1>1. ConnInv => ShownAsReported
  BY ConnInvShows DEF ConnInv, ShownAsReported
<1> QED BY <1>1, SpecHasConnInv, PTL

\* Work is authorized only on a host and device that its latest inventory has on line: no
\* change of the setting, late answer or lease of an earlier registry makes it otherwise.
THEOREM OnlyTheReportedIsAuthorized ==
  Spec => []AuthorizedIsReported
<1>1. ASSUME ConnInv, NEW l \in LeaseIds, Authorizable(topology, l)
      PROVE  LET owner == topology.leases[l].owner
             IN owner \in DOMAIN reported.hosts /\ reported.by = active /\
                reported.hosts[owner] = [host |-> "online", device |-> "online"]
  <2> DEFINE owner == topology.leases[l].owner
             host == topology.hosts[owner]
  <2>1. owner \in DOMAIN topology.hosts /\ IsUsable(host) /\ IsUsable(host.device)
    BY <1>1 DEF Authorizable
  <2>2. IsHost(owner, host)
    BY <1>1, <2>1 DEF ConnInv, IsTopology
  <2>3. host.device # NoDevice /\ ~IsStale(host)
    BY <2>1 DEF IsUsable, NoDevice, Shown, IsStale
  <2>4. owner \in Of(topology, "agent")
    BY <2>1, <2>2, <2>3 DEF IsHost, Of
  <2> HIDE DEF owner
  <2>5. /\ owner \in DOMAIN reported.hosts /\ reported.by = active
        /\ ShowsRow(host, reported.hosts[owner])
    BY <1>1, <2>3, <2>4, ConnInvShows DEF ReachableAsReported, ConnInv, ShowsRows
  <2>6. reported.hosts[owner] \in [host : Presences, device : Presences \cup {"none"}]
    BY <1>1, <2>5, ConnectionAssumption DEF ConnInv, ReportIsOf, NoReport
  <2>7. reported.hosts[owner].host = "online" /\ reported.hosts[owner].device = "online"
    BY <2>1, <2>3, <2>5 DEF ShowsRow, IsUsable
  <2>8. reported.hosts[owner] = [host |-> "online", device |-> "online"]
    BY <2>6, <2>7
  <2> QED BY <2>5, <2>8 DEF owner
<1>2. ConnInv => AuthorizedIsReported
  BY <1>1 DEF AuthorizedIsReported
<1> QED BY <1>2, SpecHasConnInv, PTL

\* A change of the setting ends with the one on disk in use, with none, or with neither
\* changed, whichever write or reading of the file fails and whoever else writes it.
THEOREM SettingInUseIsOnDisk ==
  Spec => ActiveIsOnDisk
<1> DEFINE Agrees == \A p \in Peers : SetConnection(p) =>
                       active' \in {None, disk'} \/ (active' = active /\ disk' = disk)
<1>1. ASSUME NEW p \in Peers, SetConnection(p)
      PROVE  active' \in {None, disk'} \/ (active' = active /\ disk' = disk)
  <2>1. PICK saved \in BOOLEAN, before \in {disk, "unreadable"}, after \in {disk', "unreadable"} :
          Reconciled(p, saved, before, after)
    BY <1>1 DEF SetConnection
  <2> QED BY <2>1, ConnectionAssumption DEF Reconciled
<1>2. Agrees
  BY <1>1
<1> HIDE DEF Agrees
<1>3. Spec => [][Agrees]_vars
  BY <1>2, PTL DEF Spec
<1> QED BY <1>3 DEF ActiveIsOnDisk, Agrees
===============================================================================
