------------------------------ MODULE Registry ------------------------------
(***************************************************************************)
(* The mesh registry (src/src/registry_runtime.rs and registry_runtime/     *)
(* lifecycle.rs): one action for each critical section of each request      *)
(* handler, over the state it guards with two mutexes, `state` and `leases`,*)
(* the copies of both it keeps on disk, and crashes.                        *)
(*                                                                         *)
(* Requests arrive from any peer at any time here; module Mesh composes the *)
(* handlers with the agent that really sends them.  A handler whose reply   *)
(* matters to an agent has a parameter for it.  A handler that returns      *)
(* early without touching its state is a stuttering step and has no action. *)
(*                                                                         *)
(* Locks.  Handlers that hold `state` are mutually exclusive: each of their *)
(* critical sections is one action guarded by Ready.  Two sections take     *)
(* `leases` alone (the expiry part of a heartbeat, the lease check of       *)
(* AppleRun) and may run in the middle of an AppleProgress, which holds     *)
(* `state` but gives `leases` back between its two halves: `prog` is the    *)
(* AppleProgress that is half done.                                         *)
(***************************************************************************)
EXTENDS LeaseBook

CONSTANTS Agents,       \* peers in agent_peers
          Hosts,        \* host ids that agents announce
          Runs,         \* manifest jobs, one for each request id
          DeviceOf,     \* the device an Apple job names
          Mutating,     \* the Apple jobs that mutate their device
          RunHost,      \* the host a manifest job names
          MaxLeases,    \* bound on the lease ids handed out
          MaxFaults,    \* bound on the file writes that fail
          MaxCrashes    \* bound on the registry's crashes

ASSUME RegistryAssumption ==
  /\ DeviceOf \in [Jobs -> Devices]
  /\ Mutating \subseteq Jobs
  /\ RunHost \in [Runs -> Hosts]
  /\ MaxLeases \in Nat /\ MaxFaults \in Nat /\ MaxCrashes \in Nat
  /\ None \notin Agents \cup Hosts \cup Runs
  /\ Jobs \cap Runs = {}

VARIABLES
  up,        \* the registry process is running
  book,      \* the lease book in memory, and ...
  bookDisk,  \* ... what device-leases.json would load as
  st,        \* DurableState in memory, and ...
  stDisk,    \* ... what vertical-slice.json would load as
  entries,   \* the last heartbeat of each host (memory only)
  hb,        \* the heartbeat handler of each agent
  checked,   \* AppleRun handlers between their two critical sections
  wire,      \* the heartbeat reply on its way to each agent
  prog,      \* the AppleProgress handler that is half done
  overdue,   \* lease ids whose expires_at_ms has passed
  faults,    \* file writes that have failed
  crashes,   \* crashes so far
  granted    \* history: the lease a client was last told it holds on a device

vars == <<up, book, bookDisk, st, stDisk, entries, hb, checked, wire, prog,
          overdue, faults, crashes, granted>>

LeaseIds == 1 .. MaxLeases

JobInfo == [client : Clients, lease : Nat, host : Hosts, agent : Agents]
NoJob   == [client |-> None, lease |-> 0, host |-> None, agent |-> None]
Kinds   == {"started", "completed", "cancelled", "rejected"}
Event   == [sequence : Nat, kind : Kinds]

(***************************************************************************)
(* DurableState.  apple_operations, apple_hosts, job_clients and job_agents *)
(* are written together, once, for a job: they are its JobInfo.  `done` are *)
(* the manifest jobs with a history, an artifact and an audit record.       *)
(***************************************************************************)
DurableState == [job           : [Jobs -> JobInfo \cup {NoJob}],
                 events        : [Jobs -> Seq(Event)],
                 apple_pending : SUBSET Jobs,
                 requests      : SUBSET Runs,
                 pending       : SUBSET Runs,
                 done          : SUBSET Runs,
                 dispatched    : SUBSET (Jobs \cup Runs),
                 acknowledged  : SUBSET Jobs,
                 cancelled     : SUBSET Jobs,
                 device_peers  : [Devices -> Agents \cup {None}],
                 host_peers    : [Hosts -> Agents \cup {None}]]

EmptyState == [job           |-> [j \in Jobs |-> NoJob],
               events        |-> [j \in Jobs |-> << >>],
               apple_pending |-> {},
               requests      |-> {},
               pending       |-> {},
               done          |-> {},
               dispatched    |-> {},
               acknowledged  |-> {},
               cancelled     |-> {},
               device_peers  |-> [d \in Devices |-> None],
               host_peers    |-> [h \in Hosts |-> None]]

NoEntries  == [h \in Hosts |-> [current |-> FALSE, devices |-> {}]]
IdleBeat   == [pc |-> "idle", host |-> None, devices |-> {}]
Beats      == {IdleBeat} \cup [pc : {"expire", "dispatch"}, host : Hosts,
                               devices : SUBSET Devices]
NoProgress == [job |-> None, restored |-> FALSE, terminal |-> FALSE]

\* firm: nothing was already due to end the lease when the client was told.
Grant      == [id : Nat, firm : BOOLEAN]
NoGrant    == [id |-> 0, firm |-> FALSE]
Told(b, d) == [id |-> b.active[d].id, firm |-> d \notin b.pending_release]

(***************************************************************************)
(* What a heartbeat's reply carries: one job_id, a manifest job, an Apple   *)
(* job, the lease id of the Apple job's grant and the jobs to cancel.       *)
(***************************************************************************)
Response(job, run, apple, grant, cancel) ==
  [job |-> job, run |-> run, apple |-> apple, grant |-> grant, cancel |-> cancel]

ErrorResponse == Response(None, None, None, 0, {})

Init ==
  /\ up = TRUE
  /\ book = EmptyBook /\ bookDisk = EmptyBook
  /\ st = EmptyState /\ stDisk = EmptyState
  /\ entries = NoEntries
  /\ hb = [a \in Agents |-> IdleBeat]
  /\ checked = {}
  /\ wire = [a \in Agents |-> ErrorResponse]
  /\ prog = NoProgress
  /\ overdue = {}
  /\ faults = 0 /\ crashes = 0
  /\ granted = [d \in Devices |-> NoGrant]

\* No other handler holds the mutex on `state`.
Ready == up /\ prog = NoProgress

(***************************************************************************)
(* persist() and persist_state() replace a whole file atomically; a call    *)
(* that reports an error may or may not have taken effect.                  *)
(***************************************************************************)
Fault == faults < MaxFaults /\ faults' = faults + 1

SaveBook(saved) ==
  \/ saved /\ bookDisk' = book' /\ UNCHANGED faults
  \/ ~saved /\ Fault /\ bookDisk' \in {bookDisk, book'}

SaveState(saved) ==
  \/ saved /\ stDisk' = st' /\ UNCHANGED faults
  \/ ~saved /\ Fault /\ stDisk' \in {stDisk, st'}

\* leases.persist().is_err() || persist_state(..).is_err()
SaveBoth(saved) ==
  \/ saved /\ bookDisk' = book' /\ stDisk' = st' /\ UNCHANGED faults
  \/ ~saved /\ Fault /\ bookDisk' \in {bookDisk, book'} /\ UNCHANGED stDisk
  \/ ~saved /\ Fault /\ bookDisk' = book' /\ stDisk' \in {stDisk, st'}

\* The memory of the process is gone; what the disk holds is what is left.
LoseMemory ==
  /\ up' = FALSE
  /\ book' = bookDisk' /\ st' = stDisk'
  /\ entries' = NoEntries
  /\ hb' = [a \in Agents |-> IdleBeat]
  /\ checked' = {}
  /\ prog' = NoProgress

\* persist_state(..).unwrap() on a failed write: the worker's panic poisons the
\* mutex and the supervisor stops the registry.
Panic(s) ==
  /\ Fault
  /\ stDisk' \in {stDisk, s}
  /\ UNCHANGED bookDisk
  /\ LoseMemory

\* Mutant of PersistOrPanic: a failed write is ignored.
PersistOrIgnore(s, chk) ==
  /\ st' = s /\ \E saved \in BOOLEAN : SaveState(saved)
  /\ checked' = chk
  /\ UNCHANGED <<up, book, bookDisk, entries, hb, prog>>

PersistOrPanic(s, chk) ==
  \/ /\ st' = s /\ SaveState(TRUE)
     /\ checked' = chk
     /\ UNCHANGED <<up, book, bookDisk, entries, hb, prog>>
  \/ Panic(s)

\* Grants of leases in `ids` are over.
Ungrant(ids) ==
  [d \in Devices |-> IF granted[d].id \in ids THEN NoGrant ELSE granted[d]]

\* Mutant of Orphans: every writer is dropped.
OrphansAll(s, b) == {d \in Devices : Fenced(b, d)}

(***************************************************************************)
(* reconcile_runtime_state: the writers of jobs that were not acknowledged, *)
(* or are over, are dropped.                                                *)
(***************************************************************************)
Orphans(s, b) ==
  {d \in Devices : Fenced(b, d) /\ b.writers[d] \notin
                     s.acknowledged \cap s.apple_pending}

ForgetPeers(s, S) ==
  [s EXCEPT !.device_peers = [d \in Devices |-> IF d \in S THEN None
                                                ELSE s.device_peers[d]]]

ReconciledBooks(s, b) == DropWriters(b, Orphans(s, b))
ReconciledState(s, b) == ForgetPeers(s, Orphans(s, b) \cap b.pending_detach)

\* Mutant of Gone: a writer does not keep the device.
GoneAll(detached) == detached

\* The devices among those detached that have no owner any more.
Gone(detached) == {d \in detached : ~Fenced(book, d)}

(***************************************************************************)
(* Heartbeat, first section: the agent's inventory.  A device it owns and   *)
(* no longer reports is detached; with a writer on it the device stays the  *)
(* agent's until the writer is done.                                        *)
(***************************************************************************)
HeartbeatInventory(a, h, connected) ==
  LET detached == {d \in Devices : st.device_peers[d] = a /\ d \notin connected}
  IN  /\ Ready
      /\ hb[a] = IdleBeat /\ wire[a] = ErrorResponse
      /\ st.host_peers[h] \in {None, a}
      /\ \A d \in connected : st.device_peers[d] \in {None, a}
      /\ st' = [st EXCEPT
                 !.host_peers[h] = a,
                 !.device_peers = [d \in Devices |->
                    IF d \in connected THEN a
                    ELSE IF d \in Gone(detached) THEN None
                    ELSE st.device_peers[d]]]
      /\ \E b \in DetachInventory(
                    [book EXCEPT !.pending_detach =
                                    book.pending_detach \ connected], detached),
            saved \in BOOLEAN :
           /\ book' = b
           /\ SaveBook(saved)
           /\ hb' = IF saved THEN [hb EXCEPT ![a] = [pc |-> "expire", host |-> h,
                                                     devices |-> connected]]
                    ELSE hb
      /\ granted' = [d \in Devices |-> IF d \in detached THEN NoGrant
                                       ELSE granted[d]]
      /\ UNCHANGED <<up, stDisk, entries, checked, prog, overdue, crashes, wire>>

\* Heartbeat, second section: expiry under `leases` alone, then the host's entry.
HeartbeatExpire(a) ==
  /\ up
  /\ hb[a].pc = "expire"
  /\ \E b \in Expire(book, overdue), saved \in BOOLEAN :
       /\ book' = b
       /\ SaveBook(saved)
       /\ IF saved
          THEN /\ entries' = [entries EXCEPT ![hb[a].host] =
                                [current |-> TRUE, devices |-> hb[a].devices]]
               /\ hb' = [hb EXCEPT ![a].pc = "dispatch"]
          ELSE /\ hb' = [hb EXCEPT ![a] = IdleBeat]
               /\ UNCHANGED entries
  /\ UNCHANGED <<up, st, stDisk, checked, prog, overdue, crashes, wire, granted>>

(***************************************************************************)
(* Heartbeat, third section: at most one manifest job and one Apple job of  *)
(* the host are put into the reply.  Both share its one job_id field, and   *)
(* the Apple job's id is written last.                                      *)
(***************************************************************************)
PendingRuns(h) ==
  {r \in st.pending : RunHost[r] = h /\ r \notin st.dispatched}

PendingApple(h) ==
  {j \in st.apple_pending :
     /\ st.job[j].host = h
     /\ j \notin st.acknowledged
     /\ j \in Mutating => book.writers[DeviceOf[j]] \in {None, j}}

\* One of S, or nothing when there is none: Iterator::find on a HashMap.
OneOf(S) == IF S = {} THEN {None} ELSE S

Dispatched(s, j) == [s EXCEPT !.dispatched = s.dispatched \cup ({j} \ {None})]

AddEvent(s, j, n, k) ==
  [s EXCEPT !.events[j] = Append(s.events[j], [sequence |-> n, kind |-> k])]

\* The lease that job j named is still active, and is its client's.
LeaseOf(s, j)        == [id |-> s.job[j].lease, client |-> s.job[j].client]
HoldsLease(s, b, j)  == b.active[DeviceOf[j]] = LeaseOf(s, j)

(***************************************************************************)
(* The tail of a heartbeat that leaves state s, book b and lease file bd:   *)
(* on a failed persist_state the job named in the reply is no longer        *)
(* dispatched and the writers that nobody acknowledged are dropped.         *)
(***************************************************************************)
FinishHeartbeat(a, s, b, bd, reply) ==
  \/ /\ st' = s /\ stDisk' = s
     /\ book' = b /\ bookDisk' = bd
     /\ wire' = [wire EXCEPT ![a] = reply]
     /\ UNCHANGED faults
  \/ /\ Fault
     /\ stDisk' \in {stDisk, s}
     /\ UNCHANGED wire
     /\ IF reply.job = None
        THEN st' = s /\ book' = b /\ bookDisk' = bd
        ELSE LET undone == [s EXCEPT !.dispatched = s.dispatched \ {reply.job}]
             IN  /\ st' = ReconciledState(undone, b)
                 /\ book' \in ReconciledBooks(undone, b)
                 /\ bookDisk' \in {bd, book'}

\* The Apple job mutates its device and is sent with its writer set, ...
DispatchWriter(a, s, b, r, j) ==
  LET fenced == SetWriter(b, DeviceOf[j], j)
  IN  /\ HoldsLease(s, b, j)
      /\ \/ FinishHeartbeat(a, Dispatched(s, j), fenced, fenced,
              Response(j, r, j, s.job[j].lease, s.cancelled))
         \/ /\ Fault
            /\ st' = s /\ UNCHANGED stDisk
            /\ book' = fenced /\ bookDisk' \in {bookDisk, fenced}
            /\ UNCHANGED wire

\* ... or its lease is gone and it is rejected.
RejectApple(a, s, b, r, j) ==
  /\ ~HoldsLease(s, b, j)
  /\ FinishHeartbeat(a,
       AddEvent([s EXCEPT !.apple_pending = s.apple_pending \ {j}],
                j, 1, "rejected"),
       b, bookDisk, Response(j, r, None, 0, s.cancelled))

DispatchApple(a, s, r, j) ==
  \/ /\ j = None
     /\ FinishHeartbeat(a, s, book, bookDisk,
                        Response(r, r, None, 0, s.cancelled))
  \/ /\ j \notin Mutating \cup {None}
     /\ FinishHeartbeat(a, Dispatched(s, j), book, bookDisk,
                        Response(j, r, j, 0, s.cancelled))
  \/ /\ j \in Mutating
     /\ \E b \in Expire(book, overdue) :
          DispatchWriter(a, s, b, r, j) \/ RejectApple(a, s, b, r, j)

HeartbeatDispatch(a) ==
  /\ Ready
  /\ hb[a].pc = "dispatch"
  /\ \E r \in OneOf(PendingRuns(hb[a].host)),
        j \in OneOf(PendingApple(hb[a].host)) :
       DispatchApple(a, Dispatched(st, r), r, j)
  /\ hb' = [hb EXCEPT ![a] = IdleBeat]
  /\ UNCHANGED <<up, entries, checked, prog, overdue, crashes, granted>>

\* The host's entry gets older than offline_after.
HostGoesOffline(h) ==
  /\ up
  /\ entries[h].current
  /\ entries' = [entries EXCEPT ![h].current = FALSE]
  /\ UNCHANGED <<up, book, bookDisk, st, stDisk, hb, checked, prog, wire, overdue,
                 faults, crashes, granted>>

(***************************************************************************)
(* Run and Complete, the manifest jobs.                                     *)
(***************************************************************************)
Run(r) ==
  /\ Ready
  /\ r \notin st.requests
  /\ PersistOrPanic([st EXCEPT !.requests = st.requests \cup {r},
                               !.pending  = st.pending \cup {r}], checked)
  /\ UNCHANGED <<overdue, crashes, wire, granted>>

Complete(r) ==
  /\ Ready
  /\ r \in st.pending
  /\ PersistOrPanic([st EXCEPT !.pending = st.pending \ {r},
                               !.done    = st.done \cup {r}], checked)
  /\ UNCHANGED <<overdue, crashes, wire, granted>>

(***************************************************************************)
(* AppleRun.  A mutating job must name the active lease of its client; that *)
(* is checked under `leases`, which is given back before `state` is taken.  *)
(***************************************************************************)
AppleRunCheck(c, j, l) ==
  /\ up
  /\ j \in Mutating
  /\ \E b \in Expire(book, overdue), saved \in BOOLEAN :
       /\ book' = b
       /\ SaveBook(saved)
       /\ checked' = IF saved /\ DeviceOf[j] \in Holding(b, c, l)
                     THEN checked \cup {[client |-> c, job |-> j, lease |-> l]}
                     ELSE checked
  /\ UNCHANGED <<up, st, stDisk, entries, hb, prog, overdue, crashes, wire, granted>>

\* Mutant of EligibleHosts: any host will do.
EligibleHostsAny(j) == Hosts

\* The hosts that could take the job: a recent heartbeat that lists its device.
EligibleHosts(j) ==
  {h \in Hosts : /\ entries[h].current
                 /\ j \in Mutating => DeviceOf[j] \in entries[h].devices}

\* A key that is known already gets its job id, or a conflict, and no change.
AppleRunSubmit(c, j, l) ==
  LET request == [client |-> c, job |-> j, lease |-> l]
      accepted(h) ==
        [st EXCEPT !.job[j] = [client |-> c, lease |-> l, host |-> h,
                               agent |-> st.host_peers[h]],
                   !.apple_pending = st.apple_pending \cup {j},
                   !.events[j] = << >>]
  IN  /\ Ready
      /\ j \in Mutating => request \in checked
      /\ \/ /\ st.job[j] = NoJob
            /\ \E h \in EligibleHosts(j) :
                 PersistOrPanic(accepted(h), checked \ {request})
         \/ /\ st.job[j] # NoJob \/ EligibleHosts(j) = {}
            /\ checked' = checked \ {request}
            /\ UNCHANGED <<up, book, bookDisk, st, stDisk, entries, hb, prog,
                           faults>>
      /\ UNCHANGED <<overdue, crashes, wire, granted>>

(***************************************************************************)
(* AppleProgress.  The agent's "started" sets the job's writer again if it  *)
(* was dropped, provided the lease is still active, ...                     *)
(***************************************************************************)
KnownAgent(a, j) == st.job[j] # NoJob /\ st.job[j].agent = a

CanWrite(s, b, j) == /\ HoldsLease(s, b, j)
                     /\ b.writers[DeviceOf[j]] \in {None, j}

StartedBegin(a, j, accepted) ==
  /\ Ready
  /\ KnownAgent(a, j)
  /\ j \in st.apple_pending
  /\ \/ /\ j \notin Mutating
        /\ book' = book /\ SaveBook(accepted)
        /\ prog' = IF accepted THEN [job |-> j, restored |-> FALSE,
                                     terminal |-> FALSE]
                   ELSE NoProgress
     \/ /\ j \in Mutating
        /\ \E b \in Expire(book, overdue) :
             \/ /\ CanWrite(st, b, j)
                /\ book' = SetWriter(b, DeviceOf[j], j)
                /\ SaveBook(accepted)
                /\ prog' = IF accepted
                           THEN [job |-> j, terminal |-> FALSE,
                                 restored |-> ~Fenced(b, DeviceOf[j])]
                           ELSE NoProgress
             \/ /\ ~CanWrite(st, b, j)
                /\ ~accepted
                /\ book' = b
                /\ \E saved \in BOOLEAN : SaveBook(saved)
                /\ prog' = NoProgress
  /\ UNCHANGED <<up, st, stDisk, entries, hb, checked, overdue, crashes, wire, granted>>

\* Mutant of Deduplicated: every event is appended.
NotDeduplicated(s, j, n, k) == AddEvent(s, j, n, k)

\* Events already there, by sequence number, are not appended again.
Deduplicated(s, j, n, k) ==
  IF \E i \in DOMAIN s.events[j] : s.events[j][i].sequence = n
  THEN s ELSE AddEvent(s, j, n, k)

\* ... then the job is acknowledged; if that cannot be saved, a writer that
\* this very call has set is dropped again.
StartedCommit(accepted) ==
  LET j == prog.job
      s == Deduplicated([st EXCEPT !.acknowledged = st.acknowledged \cup {j}],
                        j, 1, "started")
      dropped == [book EXCEPT !.writers =
                    [d \in Devices |-> IF book.writers[d] = j THEN None
                                       ELSE book.writers[d]]]
  IN  /\ up /\ prog # NoProgress /\ ~prog.terminal
      /\ st' = s
      /\ SaveState(accepted)
      /\ IF ~accepted /\ prog.restored
         THEN book' = dropped /\ bookDisk' \in {bookDisk, dropped}
         ELSE UNCHANGED <<book, bookDisk>>
      /\ prog' = NoProgress
      /\ UNCHANGED <<up, entries, hb, checked, overdue, crashes, wire, granted>>

(***************************************************************************)
(* The agent's terminal event: the job's writers are dropped in memory and  *)
(* the deferred releases done, ...                                          *)
(***************************************************************************)
WrittenBy(b, j) == {d \in Devices : b.writers[d] = j}

TerminalBegin(a, j, k) ==
  /\ Ready
  /\ KnownAgent(a, j)
  /\ book' \in DropWriters(book, WrittenBy(book, j))
  /\ st' = ForgetPeers(
             Deduplicated([st EXCEPT
                             !.apple_pending = st.apple_pending \ {j},
                             !.cancelled = st.cancelled \ {j}], j, 2, k),
             WrittenBy(book, j) \cap book.pending_detach)
  /\ prog' = [job |-> j, restored |-> FALSE, terminal |-> TRUE]
  /\ UNCHANGED <<up, bookDisk, stDisk, entries, hb, checked, wire, overdue, faults,
                 crashes, granted>>

\* ... and the state is saved, then the leases.
TerminalCommit(accepted) ==
  /\ up /\ prog # NoProgress /\ prog.terminal
  /\ UNCHANGED <<book, st>>
  /\ \/ accepted /\ stDisk' = st /\ bookDisk' = book /\ UNCHANGED faults
     \/ ~accepted /\ Fault /\ stDisk' \in {stDisk, st} /\ UNCHANGED bookDisk
     \/ ~accepted /\ Fault /\ stDisk' = st /\ bookDisk' \in {bookDisk, book}
  /\ prog' = NoProgress
  /\ UNCHANGED <<up, entries, hb, checked, overdue, crashes, wire, granted>>

Cancelled(j) ==
  IF j \in st.dispatched
  THEN [st EXCEPT !.cancelled = st.cancelled \cup {j}]
  ELSE AddEvent([st EXCEPT !.apple_pending = st.apple_pending \ {j}],
                j, 1, "cancelled")

\* AppleCancel: a job that was never dispatched is over at once.
AppleCancel(c, j) ==
  /\ Ready
  /\ st.job[j] # NoJob /\ st.job[j].client = c
  /\ j \in st.apple_pending
  /\ PersistOrPanic(Cancelled(j), checked)
  /\ UNCHANGED <<overdue, crashes, wire, granted>>

(***************************************************************************)
(* Lease.  Every operation expires leases first and saves both files last.  *)
(***************************************************************************)
LeaseFrame == UNCHANGED <<up, entries, hb, checked, wire, prog, crashes>>

\* MaxLeases bounds the leases asked for: each waiter will take an id as well.
WithinBound(b) ==
  b.next_id + Cardinality({p \in Devices \X (1 .. MaxLeases) :
                             p[2] \in DOMAIN b.waiting[p[1]]}) <= MaxLeases

AcquireLease(c, d) ==
  /\ Ready
  /\ \E b \in Expire(book, overdue), saved \in BOOLEAN :
       /\ book' = IF Leased(b, d) THEN b ELSE Insert(b, d, c)
       /\ WithinBound(book')
       /\ st' = st
       /\ SaveBoth(saved)
       /\ granted' = IF saved /\ ~Leased(b, d)
                     THEN [granted EXCEPT ![d] = Told(book', d)]
                     ELSE granted
  /\ LeaseFrame /\ UNCHANGED overdue

QueueLease(c, d) ==
  /\ Ready
  /\ \E b \in Expire(book, overdue), saved \in BOOLEAN :
       /\ book' = IF ~Leased(b, d) THEN Insert(b, d, c)
                  ELSE IF d \in HeldBy(b, c) \/ Waits(b, d, c) THEN b
                  ELSE Enqueue(b, d, c)
       /\ WithinBound(book')
       /\ st' = st
       /\ SaveBoth(saved)
       /\ granted' = IF saved /\ d \in HeldBy(book', c)
                     THEN [granted EXCEPT ![d] = Told(book', d)]
                     ELSE granted
  /\ LeaseFrame /\ UNCHANGED overdue

\* A renewed lease is not overdue any more.
RenewLease(c, l) ==
  /\ Ready
  /\ \E b \in Expire(book, overdue), saved \in BOOLEAN :
       LET held == Holding(b, c, l)
       IN  /\ book' = b
           /\ st' = st
           /\ SaveBoth(saved)
           /\ overdue' = IF held = {} THEN overdue ELSE overdue \ {l}
           /\ granted' = [d \in Devices |-> IF saved /\ d \in held
                                            THEN Told(b, d) ELSE granted[d]]
  /\ LeaseFrame

\* Release and Revoke: both ask for the peer's own lease and do the same.
ReleaseLease(c, l) ==
  /\ Ready
  /\ \E b \in Expire(book, overdue), saved \in BOOLEAN :
       /\ book' \in Release(b, Holding(b, c, l))
       /\ st' = st
       /\ SaveBoth(saved)
       /\ granted' = IF Holding(b, c, l) = {} THEN granted ELSE Ungrant({l})
  /\ LeaseFrame /\ UNCHANGED overdue

\* Disconnect: the peer leaves every queue and gives back every lease.
DisconnectClient(c) ==
  /\ Ready
  /\ \E b \in Expire(book, overdue), saved \in BOOLEAN :
       /\ book' \in Release(LeaveQueues(b, c), HeldBy(b, c))
       /\ st' = st
       /\ SaveBoth(saved)
       /\ granted' = [d \in Devices |-> IF d \in HeldBy(b, c) THEN NoGrant
                                        ELSE granted[d]]
  /\ LeaseFrame /\ UNCHANGED overdue

\* Validate: the device's agent asks whether the lease it was shown is active.
ValidateLease(a, j, l, active) ==
  /\ Ready
  /\ \E b \in Expire(book, overdue), saved \in BOOLEAN :
       /\ book' = b
       /\ st' = st
       /\ SaveBoth(saved)
       /\ active <=> /\ saved
                     /\ st.device_peers[DeviceOf[j]] = a
                     /\ DeviceOf[j] \in Holding(b, st.job[j].client, l)
  /\ LeaseFrame /\ UNCHANGED <<overdue, granted>>

\* AgentDetach: the device's agent gives it up, writer and all.
AgentDetach(a, d) ==
  /\ Ready
  /\ st.device_peers[d] = a
  /\ \E b \in Expire(book, overdue), saved \in BOOLEAN :
       /\ book' \in ForceRelease(b, d)
       /\ st' = ForgetPeers(st, {d})
       /\ SaveBoth(saved)
  /\ granted' = [granted EXCEPT ![d] = NoGrant]
  /\ LeaseFrame /\ UNCHANGED overdue

(***************************************************************************)
(* The environment: the wall clock, which may pass a lease's expiry and may *)
(* be set back; and crashes.                                                *)
(***************************************************************************)
ClockMoves(l) ==
  /\ up
  /\ l \in ActiveIds(book)
  /\ overdue' = IF l \in overdue THEN overdue \ {l}
                ELSE (overdue \cap ActiveIds(book)) \cup {l}
  /\ granted' = Ungrant({l})
  /\ UNCHANGED <<up, book, bookDisk, st, stDisk, entries, hb, checked, prog, wire,
                 faults, crashes>>

Crash ==
  /\ up
  /\ crashes < MaxCrashes
  /\ crashes' = crashes + 1
  /\ UNCHANGED <<wire, bookDisk, stDisk, overdue, faults, granted>>
  /\ LoseMemory

\* start_inner: load both files, expire, reconcile and save what changed.  Any
\* lease may have passed its expiry while the registry was down.
Restart ==
  /\ ~up
  /\ up' = TRUE
  /\ \E late \in SUBSET ActiveIds(bookDisk) :
       /\ overdue' = late
       /\ granted' = Ungrant(late)
       /\ \E b \in Expire(bookDisk, late) :
            /\ book' \in ReconciledBooks(stDisk, b)
            /\ st' = ReconciledState(stDisk, b)
  /\ bookDisk' = book' /\ stDisk' = st'
  /\ UNCHANGED <<wire, entries, hb, checked, prog, faults, crashes>>

AgentRequest(a) ==
  \/ \E h \in Hosts, S \in SUBSET Devices : HeartbeatInventory(a, h, S)
  \/ HeartbeatExpire(a)
  \/ HeartbeatDispatch(a)
  \/ \E j \in Jobs, accepted \in BOOLEAN : StartedBegin(a, j, accepted)
  \/ \E j \in Jobs : TerminalBegin(a, j, "completed")
  \/ \E j \in Mutating, l \in LeaseIds, active \in BOOLEAN :
       ValidateLease(a, j, l, active)
  \/ \E d \in Devices : AgentDetach(a, d)

ClientRequest(c) ==
  \/ \E d \in Devices : AcquireLease(c, d) \/ QueueLease(c, d)
  \/ \E l \in LeaseIds : RenewLease(c, l) \/ ReleaseLease(c, l)
  \/ DisconnectClient(c)
  \/ \E j \in Jobs, l \in LeaseIds \cup {0} :
       AppleRunCheck(c, j, l) \/ AppleRunSubmit(c, j, l)
  \/ \E j \in Jobs : AppleCancel(c, j)

ProgressCommit ==
  \E accepted \in BOOLEAN : StartedCommit(accepted) \/ TerminalCommit(accepted)

\* The reply to a heartbeat is read, or lost.
ReplyTaken(a) ==
  /\ wire[a] # ErrorResponse
  /\ wire' = [wire EXCEPT ![a] = ErrorResponse]
  /\ UNCHANGED <<up, book, bookDisk, st, stDisk, entries, hb, checked, prog,
                 overdue, faults, crashes, granted>>

Environment ==
  \/ \E a \in Agents : ReplyTaken(a)
  \/ \E h \in Hosts : HostGoesOffline(h)
  \/ \E l \in LeaseIds : ClockMoves(l)
  \/ Crash
  \/ Restart

Next ==
  \/ \E a \in Agents : AgentRequest(a)
  \/ \E c \in Clients : ClientRequest(c)
  \/ \E r \in Runs : Run(r) \/ Complete(r)
  \/ ProgressCommit
  \/ Environment

Spec == Init /\ [][Next]_vars

-----------------------------------------------------------------------------
(***************************************************************************)
(* Properties.                                                              *)
(***************************************************************************)

\* Every variable has its type.
TypeOK ==
  /\ up \in BOOLEAN
  /\ book \in Book /\ bookDisk \in Book
  /\ st \in DurableState /\ stDisk \in DurableState
  /\ entries \in [Hosts -> [current : BOOLEAN, devices : SUBSET Devices]]
  /\ hb \in [Agents -> Beats]
  /\ checked \subseteq [client : Clients, job : Mutating, lease : Nat]
  /\ prog \in [job : Jobs \cup {None}, restored : BOOLEAN, terminal : BOOLEAN]
  /\ overdue \subseteq Nat
  /\ faults \in 0 .. MaxFaults /\ crashes \in 0 .. MaxCrashes
  /\ granted \in [Devices -> Grant]
  /\ wire \in [Agents -> [job    : Jobs \cup Runs \cup {None},
                         run    : Runs \cup {None},
                         apple  : Jobs \cup {None},
                         grant  : Nat,
                         cancel : SUBSET Jobs]]

\* A device with clients in its queue is leased, to a client outside the queue,
\* and no client is queued for it twice: whatever releases, expiries, detaches,
\* failed writes and crashes did, no waiter is left behind an idle device
\* (release_device_now, Queue and Disconnect in lease()).
WaitersBehindHolder == QueueOK(book) /\ QueueOK(bookDisk)

\* A writer never outlives the lease it was fenced under: the job that writes to
\* a device is the one that named the device's active lease, and is its client's,
\* in memory and in the two files a crash leaves (release_device, expire,
\* restore_acknowledged_writer and the dispatch of a heartbeat).
WriterHolds(b, s) ==
  \A d \in Devices : Fenced(b, d) =>
     /\ DeviceOf[b.writers[d]] = d
     /\ HoldsLease(s, b, b.writers[d])

WriterHoldsLease == WriterHolds(book, st) /\ WriterHolds(bookDisk, stDisk)

\* A release is deferred only for a device that a job still writes to, so that a
\* later holder never inherits it (pending_release).
DeferredHasWriter ==
  \A d \in book.pending_release : Fenced(book, d)

\* A lease whose grant a client was sent stays its active lease, in memory and on
\* disk, until that client gives it up, its expiry passes or its device is
\* detached: no crash, no failed write and no other client's request ends it.
GrantKept ==
  \A d \in Devices : granted[d].firm =>
     bookDisk.active[d].id = granted[d].id /\ book.active[d].id = granted[d].id

\* What a client was told is accepted survives a crash: a manifest job and its
\* completion, an Apple job with its client, lease, host and agent, and its
\* cancellation are on disk, although heartbeats and AppleProgress leave the two
\* copies apart when a write fails (persist_state, load_state).
AcceptedIsDurable ==
  /\ st.requests = stDisk.requests
  /\ st.pending = stDisk.pending /\ st.done = stDisk.done
  /\ \A j \in Jobs : st.job[j] # NoJob => stDisk.job[j] = st.job[j]
  /\ st.apple_pending \subseteq stDisk.apple_pending
  /\ st.cancelled \subseteq stDisk.cancelled

\* Nobody is overtaken: while a client waits for a device, no client that queued
\* for it later holds it.
NoOvertaking ==
  [][\A d \in Devices : \A i, k \in DOMAIN book.waiting[d] :
       up /\ up' /\ i < k /\ Waits(book', d, book.waiting[d][i])
         => book'.active[d].client # book.waiting[d][k]]_vars

=============================================================================
