----------------------------- MODULE Connection -----------------------------
(***************************************************************************)
(* How the daemon is connected to a registry (src/src/local_ipc.rs): the   *)
(* setting on disk and the one in use, the observer that polls the         *)
(* inventory over a session of its own without the daemon's lock, a worker *)
(* that tells of the controller it reached, and the Topology they write.   *)
(* A setting is named by the peer id of its registry.                      *)
(***************************************************************************)
EXTENDS Topology

CONSTANTS
  Peers,        \* registries
  Inventories,  \* the answers to List: hosts with the states of host and device
  MaxTime, MaxChanges  \* bounds: the clock and changes of the setting

ASSUME ConnectionAssumption ==
  /\ None \notin Peers /\ "unreadable" \notin Peers /\ {MaxTime, MaxChanges} \subseteq Nat
  /\ \A inv \in Inventories : \A h \in DOMAIN inv :
       inv[h] \in [host : Presences, device : Presences \cup {"none"}]

VARIABLES
  now,         \* the clock, in steps
  disk,        \* connection.json
  active,      \* remote_execution: the setting in use
  generation,  \* the identity of remote_execution_generation
  connection,  \* what the snapshot says of the connection
  topology,
  poll,        \* the observer's poll
  session,     \* the registry at the other end of the observer's session
  job,         \* the setting and generation a worker started with
  reported     \* the inventory the topology was given last, in this generation

vars == <<now, disk, active, generation, connection, topology, poll, session, job,
          reported>>

Captured(peer, gen) == [peer |-> peer, generation |-> gen]

Polling(phase, captured, answer) ==
  [phase |-> phase, peer |-> captured.peer, generation |-> captured.generation,
   answer |-> answer]

Idle == [phase |-> "idle"]

NoReport == [by |-> None, hosts |-> <<>>]

Init ==
  /\ now = 1 /\ disk \in {None} \cup Peers
  /\ active \in {disk} \cup Peers  \* --registry overrides the file
  /\ generation = 1
  /\ connection = IF active = None THEN "disconnected" ELSE "connecting"
  /\ topology = Projector(1) /\ reported = NoReport
  /\ poll = Idle /\ session = None /\ job = None

Tick ==
  /\ now < MaxTime /\ now' = now + 1
  /\ UNCHANGED <<disk, active, generation, connection, topology, poll, session, job,
                 reported>>

-----------------------------------------------------------------------------
(* set_connection, under the daemon's mutex.                               *)

\* Mutant: the inventory of the setting before stays.
InvalidatedOnly ==
  /\ generation' = generation + 1
  /\ UNCHANGED <<topology, reported>>

Invalidated ==
  /\ generation' = generation + 1
  /\ topology' = Disconnected(topology) /\ reported' = NoReport

\* Mutant: a setting that was saved is used, whatever the disk holds now.
ReconciledBlindly(target, saved, before, after) ==
  IF saved THEN Invalidated /\ active' = target /\ connection' = "connecting"
  ELSE UNCHANGED <<generation, topology, reported, active, connection>>

\* reconcile_connection_write; what the disk holds may be "unreadable".
Reconciled(target, saved, before, after) ==
  IF after = target /\ (saved \/ after # before)
    THEN Invalidated /\ active' = target /\ connection' = "connecting"
  ELSE IF ~saved /\ after = before /\ after # "unreadable"
    THEN UNCHANGED <<generation, topology, reported, active, connection>>
  ELSE Invalidated /\ active' = None /\ connection' = "degraded"

\* The save may fail before or after the file was replaced, the file may not
\* be readable again, and someone else may have replaced it meanwhile.
SetConnection(target) ==
  /\ generation <= MaxChanges
  /\ disk' \in {disk} \cup Peers
  /\ \E saved \in BOOLEAN, before \in {disk, "unreadable"}, after \in {disk', "unreadable"} :
       Reconciled(target, saved, before, after)
  /\ UNCHANGED <<now, poll, session, job>>

-----------------------------------------------------------------------------
(* poll_registry_inventory.                                                *)

PollCapture ==
  /\ poll.phase = "idle" /\ active # None
  /\ poll' = Polling("calling", Captured(active, generation), NoReport)
  /\ UNCHANGED <<now, disk, active, generation, connection, topology, session, job,
                 reported>>

\* call_once: a session with another registry is not used.
SessionFor(open, peer) == IF open = peer THEN open ELSE peer

\* Two attempts, each of which may fail before, or after, a session was opened.
PollCall ==
  /\ poll.phase = "calling"
  /\ \/ /\ session' \in {None, poll.peer}
        /\ poll' = Polling("answered", poll, NoReport)
     \/ /\ session' = SessionFor(session, poll.peer)
        /\ \E inv \in Inventories :
             poll' = Polling("answered", poll, [by |-> session', hosts |-> inv])
  /\ UNCHANGED <<now, disk, active, generation, connection, topology, job,
                 reported>>

\* observe_authenticated_inventory: all of it, or nothing.
Observed(peer, hosts) ==
  LET t1 == Connected(topology, peer, now)
      t2 == WithController(t1, peer, now)
      fails == \/ ConnectFails(topology, peer, now) \/ ControllerFails(t1, peer)
               \/ InventoryFails(t2, now, hosts)
  IN IF fails THEN None ELSE WithInventory(t2, now, now, hosts)

\* Mutant: the answer counts although the setting has changed since.
IsCurrentAlways(captured) == TRUE

IsCurrent(captured) == captured.generation = generation

PollApply ==
  /\ poll.phase = "answered" /\ poll' = Idle
  /\ LET seen == IF poll.answer = NoReport THEN None ELSE Observed(poll.peer, poll.answer.hosts)
     IN IF ~IsCurrent(poll) THEN UNCHANGED <<topology, connection, reported>>
        ELSE IF seen # None
          THEN /\ topology' = seen /\ connection' = "connected"
               /\ reported' = IF now > Connected(topology, poll.peer, now).revision
                              THEN poll.answer ELSE reported
        ELSE topology' = Disconnected(topology) /\ connection' = "disconnected"
             /\ reported' = NoReport
  /\ UNCHANGED <<now, disk, active, generation, session, job>>

-----------------------------------------------------------------------------
(* A worker: prepare_remote_execution and observe_job_controller.          *)

JobCapture ==
  /\ job = None /\ active # None
  /\ job' = Captured(active, generation)
  /\ UNCHANGED <<now, disk, active, generation, connection, topology, poll, session,
                 reported>>

\* observe_authenticated_controller is not undone when its second half fails.
JobObserves ==
  /\ job # None /\ job' = None
  /\ LET t1 == Connected(topology, job.peer, now)
         refused == ConnectFails(topology, job.peer, now)
     IN IF ~IsCurrent(job) \/ refused
          THEN UNCHANGED <<topology, connection>>
        ELSE IF ControllerFails(t1, job.peer)
          THEN topology' = t1 /\ UNCHANGED connection
        ELSE /\ topology' = WithController(t1, job.peer, now)
             /\ connection' = "connected"
  /\ UNCHANGED <<now, disk, active, generation, poll, session, reported>>

JobGone ==
  /\ job # None /\ job' = None
  /\ UNCHANGED <<now, disk, active, generation, connection, topology, poll, session,
                 reported>>

-----------------------------------------------------------------------------
(* Callers of the projector.                                               *)

TrackLease(l, owner) ==
  /\ topology' = Tracked(topology, l, owner)
  /\ UNCHANGED <<now, disk, active, generation, connection, poll, session, job,
                 reported>>

Next ==
  \/ Tick
  \/ \E p \in Peers : SetConnection(p)
  \/ PollCapture \/ PollCall \/ PollApply
  \/ JobCapture \/ JobObserves \/ JobGone
  \/ \E l \in LeaseIds : \E owner \in DOMAIN topology.hosts : TrackLease(l, owner)

Spec == Init /\ [][Next]_vars

-----------------------------------------------------------------------------
(* Properties.                                                             *)

\* A host of a registry is shown as reachable exactly if the registry of the
\* setting in use was the one to say so, in its latest inventory.
ReachableAsReported ==
  \A h \in Of(topology, "agent") :
    ~IsStale(topology.hosts[h]) <=>
      /\ topology.authenticated /\ reported.by = active
      /\ h \in DOMAIN reported.hosts /\ reported.hosts[h].host # "offline"

\* "connected" is said of the registry of the setting in use only.
ConnectedIsCurrent ==
  connection = "connected" =>
    active # None /\ topology.authenticated /\ topology.registry.peer = active

\* What the dashboard shows of the registry and its hosts is what the registry of
\* the setting in use said last, however polls, workers and changes overlap.
ShownAsReported == ReachableAsReported /\ ConnectedIsCurrent

\* Work is authorized only on a device that the latest inventory has on line.
AuthorizedIsReported ==
  \A l \in LeaseIds : Authorizable(topology, l) =>
    LET owner == topology.leases[l].owner
    IN owner \in DOMAIN reported.hosts /\ reported.by = active /\
       reported.hosts[owner] = [host |-> "online", device |-> "online"]

\* A change of the setting ends with the one on disk in use, with none, or
\* with neither changed.
ActiveIsOnDisk ==
  [][\A p \in Peers : SetConnection(p) =>
       active' \in {None, disk'} \/ (active' = active /\ disk' = disk)]_vars
=============================================================================
