----------------------------- MODULE Mesh_proofs -----------------------------
(***************************************************************************)
(* Mesh: a job whose start was acknowledged is fenced until its tool ends   *)
(* (ExecutingIsFenced), its agent owns the device meanwhile                 *)
(* (ExecutingIsOwned), no job is forgotten before its end is on disk        *)
(* (EndIsDurable), and therefore registry and agents together implement     *)
(* ExclusiveDevice; and a job's events stay in order (EventsInOrder).       *)
(*                                                                         *)
(* The argument follows one job.  While its reply is on the way or its      *)
(* start is being sent, the job is dispatched, in memory and on disk, so    *)
(* that a cancellation does not end it (WireM, StartM).  Once the agent has *)
(* the acknowledgement the job is safe: acknowledged, pending and its       *)
(* device's writer in every copy there is, and nothing but its own last     *)
(* event ends that (ActM).  Its last event is in the network only when the  *)
(* job is past that, or over (LastM).                                       *)
(***************************************************************************)
EXTENDS Mesh, Promises_proofs

Phases == {"idle", "starting", "waiting", "validating", "executing",
           "terminating"}

\* The registry's invariants, which the agents' steps keep.
RInv == IInv /\ FInv /\ Durable

IsKnown(j) == st.job[j] # NoJob
Acked(j)   == j \in st.acknowledged \cap stDisk.acknowledged
Sent(j)    == j \in st.dispatched \cap stDisk.dispatched

Writes(j) == /\ book.writers[DeviceOf[j]] = j
             /\ bookDisk.writers[DeviceOf[j]] = j

\* The registry has acknowledged the start of j and not seen its end.
Safe(j) == /\ IsKnown(j) /\ Acked(j) /\ Sent(j)
           /\ j \in st.apple_pending \cap stDisk.apple_pending
           /\ j \in Mutating => Writes(j)

Owned(j) == /\ st.device_peers[DeviceOf[j]] = AgentOf(j)
            /\ stDisk.device_peers[DeviceOf[j]] = AgentOf(j)

\* The agent has the acknowledgement and the job's tool has not ended.
Active(j) == phase[j] \in Fencing \/ (phase[j] = "starting" /\ j \in replied)

TypeM == /\ phase \in [Jobs -> Phases]
         /\ ran \subseteq Jobs /\ replied \subseteq Jobs
         /\ agentCrashes \in Nat

\* Each host is its agent's, and a job is its host's agent's.
PeersIn(s)  == \A h \in Hosts : s.host_peers[h] # None => HostOf[s.host_peers[h]] = h
JobIn(s, j) == s.job[j] # NoJob => HostOf[s.job[j].agent] = s.job[j].host

PeerM == \A j \in Jobs : PeersIn(st) /\ PeersIn(stDisk) /\ JobIn(st, j)

\* While its heartbeat is handled an agent starts nothing.
BeatM ==
  \A a \in Agents : hb[a] # IdleBeat =>
    /\ hb[a].host = HostOf[a] /\ wire[a] = ErrorResponse
    /\ \A j \in Jobs : phase[j] = "starting" => AgentOf(j) # a

\* A job in a reply is its agent's, and was not started since it was dispatched.
WireM ==
  \A a \in Agents : \A j \in Jobs : wire[a].apple = j =>
    /\ IsKnown(j) /\ AgentOf(j) = a /\ Sent(j) /\ j \notin ran
    /\ phase[j] \in {"idle", "terminating"}

StartM ==
  \A j \in Jobs : /\ phase[j] # "idle" => IsKnown(j)
                  /\ phase[j] = "starting" => Sent(j)

ActM == \A j \in Jobs : Active(j) => Safe(j)

OwnM ==
  \A j \in Mutating :
    phase[j] = "executing" \/ (phase[j] = "validating" /\ j \in replied) => Owned(j)

RanM ==
  \A j \in ran : /\ IsKnown(j) /\ Acked(j)
                 /\ phase[j] \in {"idle", "executing", "terminating"}

\* The AppleProgress that is half done.
ProgM ==
  prog # NoProgress =>
    /\ up /\ IsKnown(prog.job)
    /\ ~prog.terminal => /\ prog.job \in st.apple_pending
                         /\ prog.job \in Mutating => Writes(prog.job)
    /\ prog.restored => ~prog.terminal /\ ~Active(prog.job)
    /\ prog.terminal => prog.job \notin st.apple_pending

\* A last event is in the network.
LastM ==
  \A j \in Jobs : (\E k \in Kinds : Request("terminal", j, k) \in sent) =>
    /\ IsKnown(j)
    /\ \/ phase[j] = "terminating"
       \/ /\ phase[j] \in {"idle", "starting"} /\ ~Active(j)
          /\ j \notin stDisk.apple_pending

EndM ==
  \A j \in Jobs :
    /\ phase[j] = "terminating" /\ j \in replied => j \notin stDisk.apple_pending
    /\ agentCrashes = 0 /\ j \in ran /\ phase[j] = "idle" =>
         j \notin stDisk.apple_pending

MInv == /\ TypeM /\ PeerM /\ BeatM /\ WireM /\ StartM /\ ActM /\ OwnM /\ RanM
        /\ ProgM /\ LastM /\ EndM

-----------------------------------------------------------------------------
(***************************************************************************)
(* What a step of the registry does to one job.                             *)
(***************************************************************************)

\* A heartbeat may be about to dispatch j.
Called(j) == \E a \in Agents : hb[a].pc = "dispatch" /\ hb[a].host = st.job[j].host

Minded(j) == j \in Mutating /\ Writes(j)

\* A change of DurableState leaves alone what it says of a known job ...
StateTells(s, t, j) ==
  /\ PeersIn(s) => PeersIn(t) /\ (JobIn(s, j) => JobIn(t, j))
  /\ s.job[j] # NoJob =>
       t.job[j] = s.job[j] /\ (j \in t.apple_pending => j \in s.apple_pending)
  /\ j \in s.acknowledged => j \in t.acknowledged
  /\ j \in s.dispatched /\ (j \in s.acknowledged \/ ~Called(j)) => j \in t.dispatched

\* ... and does not end one that is acknowledged.
StateGuards(s, t, j) ==
  j \in s.acknowledged \cap s.apple_pending \cap s.dispatched =>
    /\ j \in t.apple_pending
    /\ Minded(j) /\ s.device_peers[DeviceOf[j]] # None =>
         t.device_peers[DeviceOf[j]] = s.device_peers[DeviceOf[j]]

Tells(j) ==
  /\ PeersIn(st) /\ PeersIn(stDisk) /\ JobIn(st, j) =>
       PeersIn(st') /\ PeersIn(stDisk') /\ JobIn(st', j)
  /\ IsKnown(j) => st'.job[j] = st.job[j]
  /\ IsKnown(j) /\ j \in stDisk'.apple_pending => j \in stDisk.apple_pending
  /\ Acked(j) => Acked(j)'
  /\ Sent(j) /\ (j \in st.acknowledged \/ ~Called(j)) => Sent(j)'

Guards(j) ==
  /\ Safe(j) => Safe(j)'
  /\ Safe(j) /\ j \in Mutating /\ Owned(j) => Owned(j)'

LEMMA StateSame ==
  \A s, j : StateTells(s, s, j) /\ StateGuards(s, s, j)
BY DEF StateTells, StateGuards

LEMMA StateTellsIsTransitive ==
  ASSUME NEW s, NEW t, NEW u, NEW j, StateTells(s, t, j), StateTells(t, u, j)
  PROVE  StateTells(s, u, j)
BY DEF StateTells

LEMMA StateGuardsIsTransitive ==
  ASSUME NEW s, NEW t, NEW u, NEW j, StateTells(s, t, j),
         StateGuards(s, t, j), StateGuards(t, u, j)
  PROVE  StateGuards(s, u, j)
BY DEF StateTells, StateGuards

\* Each file is as it was or as a change of memory, and memory is as on disk or
\* such a change.
LEMMA TellsByStates ==
  ASSUME RInv, NEW j \in Jobs,
         stDisk' = stDisk \/ StateTells(st, stDisk', j),
         st' = stDisk' \/ StateTells(st, st', j)
  PROVE  Tells(j)
<1>1. /\ stDisk.job = st.job /\ st.apple_pending \subseteq stDisk.apple_pending
  BY DEF RInv, FInv, Durable, Kept
<1>2. JobIn(st, j) => JobIn(stDisk, j)
  BY <1>1 DEF JobIn
<1>3. PeersIn(st) /\ PeersIn(stDisk) /\ JobIn(st, j) =>
        PeersIn(stDisk') /\ JobIn(stDisk', j) /\ PeersIn(st') /\ JobIn(st', j)
  BY <1>2 DEF StateTells
<1>4. /\ IsKnown(j) => st'.job[j] = st.job[j]
      /\ IsKnown(j) /\ j \in stDisk'.apple_pending => j \in stDisk.apple_pending
  BY <1>1 DEF StateTells, IsKnown
<1>5. Acked(j) => Acked(j)'
  BY DEF StateTells, Acked
<1>6. Sent(j) /\ (j \in st.acknowledged \/ ~Called(j)) => Sent(j)'
  BY DEF StateTells, Sent
<1> QED BY <1>3, <1>4, <1>5, <1>6 DEF Tells

LEMMA GuardsByStates ==
  ASSUME RInv, NEW j \in Jobs,
         \/ stDisk' = stDisk
         \/ StateTells(st, stDisk', j) /\ StateGuards(st, stDisk', j),
         \/ st' = stDisk'
         \/ StateTells(st, st', j) /\ StateGuards(st, st', j),
         Safe(j) /\ j \in Mutating => Writes(j)'
  PROVE  Tells(j) /\ Guards(j)
<1>1. Tells(j)
  BY TellsByStates
<1>2. ASSUME Safe(j) PROVE Safe(j)'
  <2>1. Acked(j)' /\ Sent(j)' /\ IsKnown(j)'
    BY <1>1, <1>2 DEF Tells, Safe, Acked, IsKnown
  <2>2. j \in stDisk'.apple_pending /\ j \in st'.apple_pending
    BY <1>2 DEF StateGuards, Safe, Acked, Sent
  <2> QED BY <1>2, <2>1, <2>2 DEF Safe
<1>3. ASSUME Safe(j), j \in Mutating, Owned(j) PROVE Owned(j)'
  <2>1. st.job[j] \in JobInfo
    BY <1>3 DEF Safe, IsKnown, RInv, IInv, StatesOK, DurableState
  <2>2. AgentOf(j) # None
    BY <2>1, RegistryAssumption DEF AgentOf, JobInfo
  <2>3. st'.job[j] = st.job[j]
    BY <1>1, <1>3 DEF Tells, Safe
  <2>4. Minded(j)
    BY <1>3 DEF Minded, Safe
  <2>5. /\ stDisk'.device_peers[DeviceOf[j]] = AgentOf(j)
        /\ st'.device_peers[DeviceOf[j]] = AgentOf(j)
    BY <1>3, <2>2, <2>4 DEF StateGuards, Owned, Safe, Acked, Sent
  <2> QED BY <2>3, <2>5 DEF Owned, AgentOf
<1> QED BY <1>1, <1>2, <1>3 DEF Guards

\* Nothing but the books changes, and j stays the writer of its device.
LEMMA GuardsByBooks ==
  ASSUME RInv, NEW j \in Jobs, st' = st, stDisk' \in {stDisk, st'},
         j \in Mutating /\ Safe(j) => Writes(j)'
  PROVE  Tells(j) /\ Guards(j)
<1>1. StateTells(st, st', j) /\ StateGuards(st, st', j)
  BY StateSame
<1>2. \/ stDisk' = stDisk
      \/ StateTells(st, stDisk', j) /\ StateGuards(st, stDisk', j)
  BY <1>1
<1> QED BY <1>1, <1>2, GuardsByStates

LEMMA GuardsStanding ==
  ASSUME RInv, NEW j \in Jobs, UNCHANGED <<book, bookDisk, st, stDisk>>
  PROVE  Tells(j) /\ Guards(j)
<1>1. Safe(j) /\ j \in Mutating => Writes(j)'
  BY DEF Safe, Writes
<1> QED BY <1>1, GuardsByBooks

\* The writers stay.
LEMMA GuardsByWriters ==
  ASSUME RInv, NEW j \in Jobs, st' = st, stDisk' \in {stDisk, st'},
         book'.writers = book.writers, bookDisk' \in {bookDisk, book'}
  PROVE  Tells(j) /\ Guards(j)
<1>1. Safe(j) /\ j \in Mutating => Writes(j)'
  BY DEF Safe, Writes
<1> QED BY <1>1, GuardsByBooks

\* The operations of lease() and of an agent's lease check.
LEMMA LeaseOperationsGuard ==
  ASSUME RInv, NEW j \in Jobs, st' = st, stDisk' \in {stDisk, st'},
         bookDisk' \in {bookDisk, book'}, NEW b \in Expire(book, overdue),
         \/ book' = b
         \/ \E d \in Devices, c \in Clients : \/ ~Leased(b, d) /\ book' = Insert(b, d, c)
                                             \/ book' = Enqueue(b, d, c)
         \/ \E S \in SUBSET Devices : book' \in Release(b, S)
         \/ \E c \in Clients, S \in SUBSET Devices : book' \in Release(LeaveQueues(b, c), S)
  PROVE  Tells(j) /\ Guards(j)
<1>1. GoodBook(b) /\ b.writers = book.writers
  BY ExpireIsGood DEF RInv, IInv, BooksOK
<1>2. \A d \in Devices, c \in Clients :
        ~Leased(b, d) => Insert(b, d, c).writers = b.writers
  BY <1>1, InsertIsGood
<1>3. \A d, c : Enqueue(b, d, c).writers = b.writers
  BY <1>1 DEF Enqueue, GoodBook, Book
<1>4. \A S \in SUBSET Devices : \A e \in Release(b, S) : e.writers = b.writers
  BY <1>1, ReleaseIsGood
<1>5. \A c \in Clients : \A S \in SUBSET Devices : \A e \in Release(LeaveQueues(b, c), S) :
        e.writers = b.writers
  BY <1>1, LeaveQueuesIsGood, ReleaseIsGood
<1>6. book'.writers = book.writers
  BY <1>1, <1>2, <1>3, <1>4, <1>5
<1> QED BY <1>6, GuardsByWriters

LEMMA LeasesGuard ==
  ASSUME RInv, NEW c \in Clients, ClientRequest(c), NEW j \in Jobs,
         ~\E k \in Jobs, l \in LeaseIds \cup {0} :
             AppleRunCheck(c, k, l) \/ AppleRunSubmit(c, k, l),
         ~\E k \in Jobs : AppleCancel(c, k)
  PROVE  Tells(j) /\ Guards(j)
<1>1. ASSUME NEW d \in Devices, AcquireLease(c, d) PROVE Tells(j) /\ Guards(j)
  <2>1. PICK b \in Expire(book, overdue), saved \in BOOLEAN :
          /\ book' = IF Leased(b, d) THEN b ELSE Insert(b, d, c)
          /\ st' = st /\ SaveBoth(saved)
    BY <1>1 DEF AcquireLease
  <2>2. bookDisk' \in {bookDisk, book'} /\ stDisk' \in {stDisk, st'}
    BY <2>1, SaveBothChooses
  <2> QED BY <2>1, <2>2, LeaseOperationsGuard
<1>2. ASSUME NEW d \in Devices, QueueLease(c, d) PROVE Tells(j) /\ Guards(j)
  <2>1. PICK b \in Expire(book, overdue), saved \in BOOLEAN :
          /\ book' = IF ~Leased(b, d) THEN Insert(b, d, c)
                     ELSE IF d \in HeldBy(b, c) \/ Waits(b, d, c) THEN b
                     ELSE Enqueue(b, d, c)
          /\ st' = st /\ SaveBoth(saved)
    BY <1>2 DEF QueueLease
  <2>2. bookDisk' \in {bookDisk, book'} /\ stDisk' \in {stDisk, st'}
    BY <2>1, SaveBothChooses
  <2> QED BY <2>1, <2>2, LeaseOperationsGuard
<1>3. ASSUME NEW l, RenewLease(c, l) PROVE Tells(j) /\ Guards(j)
  <2>1. PICK b \in Expire(book, overdue), saved \in BOOLEAN :
          book' = b /\ st' = st /\ SaveBoth(saved)
    BY <1>3 DEF RenewLease
  <2>2. bookDisk' \in {bookDisk, book'} /\ stDisk' \in {stDisk, st'}
    BY <2>1, SaveBothChooses
  <2> QED BY <2>1, <2>2, LeaseOperationsGuard
<1>4. ASSUME NEW l, ReleaseLease(c, l) PROVE Tells(j) /\ Guards(j)
  <2>1. PICK b \in Expire(book, overdue), saved \in BOOLEAN :
          /\ book' \in Release(b, Holding(b, c, l))
          /\ st' = st /\ SaveBoth(saved)
    BY <1>4 DEF ReleaseLease
  <2>2. bookDisk' \in {bookDisk, book'} /\ stDisk' \in {stDisk, st'}
    BY <2>1, SaveBothChooses
  <2>3. Holding(b, c, l) \in SUBSET Devices
    BY DEF Holding
  <2> QED BY <2>1, <2>2, <2>3, LeaseOperationsGuard
<1>5. ASSUME DisconnectClient(c) PROVE Tells(j) /\ Guards(j)
  <2>1. PICK b \in Expire(book, overdue), saved \in BOOLEAN :
          /\ book' \in Release(LeaveQueues(b, c), HeldBy(b, c))
          /\ st' = st /\ SaveBoth(saved)
    BY <1>5 DEF DisconnectClient
  <2>2. bookDisk' \in {bookDisk, book'} /\ stDisk' \in {stDisk, st'}
    BY <2>1, SaveBothChooses
  <2>3. HeldBy(b, c) \in SUBSET Devices
    BY DEF HeldBy
  <2> QED BY <2>1, <2>2, <2>3, LeaseOperationsGuard
<1> QED BY <1>1, <1>2, <1>3, <1>4, <1>5 DEF ClientRequest

LEMMA ValidateLeaseGuards ==
  ASSUME RInv, NEW a, NEW k, NEW l, NEW active, ValidateLease(a, k, l, active),
         NEW j \in Jobs
  PROVE  Tells(j) /\ Guards(j)
<1>1. PICK b \in Expire(book, overdue), saved \in BOOLEAN :
        book' = b /\ st' = st /\ SaveBoth(saved)
  BY DEF ValidateLease
<1>2. bookDisk' \in {bookDisk, book'} /\ stDisk' \in {stDisk, st'}
  BY <1>1, SaveBothChooses
<1> QED BY <1>1, <1>2, LeaseOperationsGuard

LEMMA ExpiriesGuard ==
  ASSUME RInv, NEW j \in Jobs,
         \/ \E a : HeartbeatExpire(a)
         \/ \E c, k, l : AppleRunCheck(c, k, l)
  PROVE  Tells(j) /\ Guards(j) /\ st' = st /\ book'.writers = book.writers
         /\ bookDisk' \in {bookDisk, book'}
<1>1. PICK b \in Expire(book, overdue), saved \in BOOLEAN :
        book' = b /\ SaveBook(saved) /\ st' = st /\ stDisk' = stDisk
  BY DEF HeartbeatExpire, AppleRunCheck
<1>2. bookDisk' \in {bookDisk, book'}
  BY <1>1, SaveBookChooses
<1>3. b.writers = book.writers
  BY ExpireIsGood DEF RInv, IInv, BooksOK
<1> QED BY <1>1, <1>2, <1>3, LeaseOperationsGuard

\* A handler that saves s, or dies.
LEMMA PersistGuards ==
  ASSUME RInv, NEW s, NEW chk, PersistOrPanic(s, chk), NEW j \in Jobs,
         StateTells(st, s, j), StateGuards(st, s, j)
  PROVE  Tells(j) /\ Guards(j)
<1>1. /\ bookDisk' = bookDisk /\ book' \in {book, bookDisk}
      /\ stDisk' \in {stDisk, s} /\ st' = stDisk'
  BY PersistChooses
<1>2. Safe(j) /\ j \in Mutating => Writes(j)'
  BY <1>1 DEF Safe, Writes
<1> QED BY <1>1, <1>2, GuardsByStates

LEMMA RunsGuard ==
  ASSUME RInv, NEW r, Run(r) \/ Complete(r), NEW j \in Jobs
  PROVE  Tells(j) /\ Guards(j)
<1> DEFINE s == [st EXCEPT !.requests = st.requests \cup {r},
                           !.pending  = st.pending \cup {r}]
           t == [st EXCEPT !.pending = st.pending \ {r}, !.done = st.done \cup {r}]
<1>1. st \in DurableState
  BY DEF RInv, IInv, StatesOK
<1>2. /\ StateTells(st, s, j) /\ StateGuards(st, s, j)
      /\ StateTells(st, t, j) /\ StateGuards(st, t, j)
  BY <1>1 DEF DurableState, StateTells, StateGuards, PeersIn, JobIn
<1>3. PersistOrPanic(s, checked) \/ PersistOrPanic(t, checked)
  BY DEF Run, Complete
<1> QED BY <1>2, <1>3, PersistGuards

LEMMA AppleCancelGuards ==
  ASSUME RInv, NEW c, NEW k \in Jobs, AppleCancel(c, k), NEW j \in Jobs
  PROVE  Tells(j) /\ Guards(j)
<1>1. st \in DurableState
  BY DEF RInv, IInv, StatesOK
<1>2. StateTells(st, Cancelled(k), j) /\ StateGuards(st, Cancelled(k), j)
  BY <1>1 DEF DurableState, Cancelled, AddEvent, StateTells, StateGuards, PeersIn, JobIn
<1>3. PersistOrPanic(Cancelled(k), checked)
  BY DEF AppleCancel
<1> QED BY <1>2, <1>3, PersistGuards

\* A job is accepted for a host whose agent is known.
LEMMA AppleRunSubmitGuards ==
  ASSUME RInv, NEW c, NEW k \in Jobs, NEW l, AppleRunSubmit(c, k, l), NEW j \in Jobs
  PROVE  Tells(j) /\ Guards(j)
<1> DEFINE Accepted(h) ==
             [st EXCEPT !.job[k] = [client |-> c, lease |-> l, host |-> h,
                                    agent |-> st.host_peers[h]],
                        !.apple_pending = st.apple_pending \cup {k},
                        !.events[k] = << >>]
<1>1. CASE UNCHANGED <<book, bookDisk, st, stDisk>>
  BY <1>1, GuardsStanding
<1>2. ASSUME NEW h \in EligibleHosts(k), st.job[k] = NoJob, NEW chk,
             PersistOrPanic(Accepted(h), chk)
      PROVE  Tells(j) /\ Guards(j)
  <2>1. st \in DurableState /\ h \in Hosts /\ st.host_peers[h] \in Agents
    BY <1>2 DEF EligibleHosts, RInv, IInv, StatesOK, HostsOK
  <2>2. st.host_peers[h] # None
    BY <2>1, RegistryAssumption
  <2>3. /\ Accepted(h).host_peers = st.host_peers
        /\ Accepted(h).device_peers = st.device_peers
        /\ Accepted(h).acknowledged = st.acknowledged
        /\ Accepted(h).dispatched = st.dispatched
        /\ Accepted(h).apple_pending = st.apple_pending \cup {k}
        /\ j # k => Accepted(h).job[j] = st.job[j]
        /\ j = k => Accepted(h).job[j].host = h
                    /\ Accepted(h).job[j].agent = st.host_peers[h]
    BY <2>1 DEF DurableState
  <2> HIDE DEF Accepted
  <2>4. StateTells(st, Accepted(h), j) /\ StateGuards(st, Accepted(h), j)
    BY <1>2, <2>1, <2>2, <2>3 DEF StateTells, StateGuards, PeersIn, JobIn
  <2> QED BY <1>2, <2>4, PersistGuards
<1> QED BY <1>1, <1>2 DEF AppleRunSubmit

\* A detached device that a job writes to keeps its owner (Gone).
LEMMA HeartbeatInventoryGuards ==
  ASSUME RInv, NEW a, NEW S, HeartbeatInventory(a, HostOf[a], S), NEW j \in Jobs
  PROVE  Tells(j) /\ Guards(j)
<1> DEFINE detached == {d \in Devices : st.device_peers[d] = a /\ d \notin S}
           seen     == [book EXCEPT !.pending_detach = book.pending_detach \ S]
<1>1. st \in DurableState /\ GoodBook(book)
  BY DEF RInv, IInv, StatesOK, BooksOK
<1>2. /\ \A d \in S : st.device_peers[d] \in {None, a}
      /\ st'.host_peers = [st.host_peers EXCEPT ![HostOf[a]] = a]
      /\ st'.device_peers = [d \in Devices |->
                    IF d \in S THEN a
                    ELSE IF d \in Gone(detached) THEN None
                    ELSE st.device_peers[d]]
      /\ st'.job = st.job /\ st'.apple_pending = st.apple_pending
      /\ st'.acknowledged = st.acknowledged /\ st'.dispatched = st.dispatched
      /\ stDisk' = stDisk
  BY <1>1 DEF HeartbeatInventory, DurableState
<1>3. StateTells(st, st', j)
  BY <1>1, <1>2 DEF StateTells, PeersIn, JobIn, DurableState
<1>4. StateGuards(st, st', j)
  <2>1. ASSUME Minded(j) PROVE DeviceOf[j] \in Devices /\ DeviceOf[j] \notin Gone(detached)
    BY <2>1, RegistryAssumption, NoneAssumption DEF Minded, Writes, Gone, Fenced
  <2> QED BY <1>2, <2>1 DEF StateGuards
<1>5. PICK b \in DetachInventory(seen, detached), saved \in BOOLEAN :
        book' = b /\ SaveBook(saved)
  BY DEF HeartbeatInventory
<1>6. bookDisk' \in {bookDisk, book'}
  BY <1>5, SaveBookChooses
<1>7. GoodBook(seen) /\ seen.writers = book.writers
  <2>1. seen \in Book /\ seen.writers = book.writers /\ seen.active = book.active
        /\ seen.waiting = book.waiting
    BY <1>1 DEF GoodBook, Book
  <2> QED BY <1>1, <2>1, SameQueuesAreGood
<1>8. b.writers = book.writers
  BY <1>5, <1>7, DetachInventoryIsGood
<1>9. Safe(j) /\ j \in Mutating => Writes(j)'
  BY <1>5, <1>6, <1>8 DEF Safe, Writes
<1> QED BY <1>2, <1>3, <1>4, <1>9, GuardsByStates

\* The dispatch that is undone was of a job that nobody has acknowledged.
LEMMA FinishHeartbeatGuards ==
  ASSUME RInv, NEW j \in Jobs, NEW a, NEW s \in DurableState,
         NEW b, GoodBook(b), NEW bd, NEW reply, FinishHeartbeat(a, s, b, bd, reply),
         StateTells(st, s, j), StateGuards(st, s, j),
         reply.job = j => j \notin st.acknowledged /\ Called(j),
         j \in st.acknowledged \cap st.apple_pending /\ Minded(j) =>
           b.writers[DeviceOf[j]] = j /\ bd.writers[DeviceOf[j]] = j
  PROVE  Tells(j) /\ Guards(j)
<1> DEFINE undone == [s EXCEPT !.dispatched = s.dispatched \ {reply.job}]
<1>1. CASE /\ stDisk' \in {stDisk, s} /\ st' = s
           /\ book' = b /\ bookDisk' = bd
  <2>1. Safe(j) /\ j \in Mutating => Writes(j)'
    BY <1>1 DEF Safe, Acked, Writes, Minded
  <2> QED BY <1>1, <2>1, GuardsByStates
<1>2. CASE /\ stDisk' \in {stDisk, s}
           /\ st' = ReconciledState(undone, b)
           /\ book' \in ReconciledBooks(undone, b)
           /\ bookDisk' \in {bd, book'}
  <2>1. /\ undone \in DurableState
        /\ undone.job = s.job /\ undone.apple_pending = s.apple_pending
        /\ undone.acknowledged = s.acknowledged
        /\ undone.dispatched = s.dispatched \ {reply.job}
        /\ undone.device_peers = s.device_peers /\ undone.host_peers = s.host_peers
    BY DEF DurableState
  <2> HIDE DEF undone
  <2>2. /\ st'.job = s.job /\ st'.apple_pending = s.apple_pending
        /\ st'.acknowledged = s.acknowledged
        /\ st'.dispatched = s.dispatched \ {reply.job}
        /\ st'.host_peers = s.host_peers
        /\ \A d \in Devices \ Orphans(undone, b) : st'.device_peers[d] = s.device_peers[d]
    BY <1>2, <2>1 DEF ReconciledState, ForgetPeers, DurableState
  <2>3. StateTells(st, st', j)
    BY <2>2 DEF StateTells, PeersIn, JobIn
  <2>4. ASSUME j \in st.acknowledged \cap st.apple_pending \cap st.dispatched, Minded(j)
        PROVE  DeviceOf[j] \in Devices \ Orphans(undone, b)
    <3>1. j \in s.apple_pending \cap s.acknowledged
      BY <2>4 DEF StateTells, StateGuards
    <3> QED BY <2>1, <2>4, <3>1, RegistryAssumption DEF Orphans
  <2>5. StateGuards(st, st', j)
    BY <2>2, <2>4 DEF StateGuards
  <2>6. ASSUME Safe(j), j \in Mutating PROVE Writes(j)'
    <3>1. DeviceOf[j] \in Devices \ Orphans(undone, b) /\ b.writers[DeviceOf[j]] = j
          /\ bd.writers[DeviceOf[j]] = j
      BY <2>4, <2>6 DEF Safe, Acked, Sent, Minded
    <3>2. book'.writers = [d \in Devices |-> IF d \in Orphans(undone, b) THEN None
                                             ELSE b.writers[d]]
      BY <1>2, DropWritersIsGood DEF ReconciledBooks, Orphans
    <3> QED BY <1>2, <3>1, <3>2 DEF Writes
  <2> QED BY <1>2, <2>3, <2>5, <2>6, GuardsByStates
<1> QED BY <1>1, <1>2 DEF FinishHeartbeat

LEMMA DispatchAppleGuards ==
  ASSUME RInv, NEW a \in Agents, hb[a].pc = "dispatch", NEW r \in Runs \cup {None},
         NEW k \in OneOf(PendingApple(hb[a].host)),
         DispatchApple(a, Dispatched(st, r), r, k), NEW j \in Jobs
  PROVE  Tells(j) /\ Guards(j)
<1> DEFINE s == Dispatched(st, r)
<1>1. /\ st \in DurableState /\ GoodBook(book)
  BY DEF RInv, IInv, StatesOK, BooksOK
<1>2. /\ s \in DurableState
      /\ s.job = st.job /\ s.apple_pending = st.apple_pending
      /\ s.acknowledged = st.acknowledged /\ s.cancelled = st.cancelled
      /\ s.dispatched = st.dispatched \cup ({r} \ {None})
      /\ s.device_peers = st.device_peers /\ s.host_peers = st.host_peers
  <2>1. s \in DurableState
    BY <1>1, DispatchedType
  <2> QED BY <1>1, <2>1 DEF Dispatched, DurableState
<1> HIDE DEF s
<1>3. k # None => /\ k \in Jobs /\ k \in st.apple_pending /\ k \notin st.acknowledged
                  /\ Called(k)
                  /\ k \in Mutating => book.writers[DeviceOf[k]] \in {None, k}
  BY <1>1 DEF OneOf, PendingApple, DurableState, Called
<1>4. /\ j # r /\ j # None
  BY RegistryAssumption, NoneAssumption
<1>5. /\ StateTells(st, s, j) /\ StateGuards(st, s, j)
  BY <1>2 DEF StateTells, StateGuards, PeersIn, JobIn
<1>6. ASSUME k # None
      PROVE  /\ Dispatched(s, k) \in DurableState
             /\ StateTells(st, Dispatched(s, k), j)
             /\ StateGuards(st, Dispatched(s, k), j)
  <2> DEFINE t == Dispatched(s, k)
  <2>1. t \in DurableState
    BY <1>2, <1>3, <1>6, DispatchedType
  <2>2. /\ t.job = s.job /\ t.apple_pending = s.apple_pending
        /\ t.acknowledged = s.acknowledged
        /\ t.dispatched = s.dispatched \cup ({k} \ {None})
        /\ t.device_peers = s.device_peers /\ t.host_peers = s.host_peers
    BY <1>2 DEF Dispatched, DurableState
  <2> HIDE DEF t
  <2>3. StateTells(st, t, j) /\ StateGuards(st, t, j)
    BY <1>2, <2>2 DEF StateTells, StateGuards, PeersIn, JobIn
  <2> QED BY <2>1, <2>3 DEF t
<1>7. ASSUME k = None,
             FinishHeartbeat(a, s, book, bookDisk, Response(r, r, None, 0, s.cancelled))
      PROVE  Tells(j) /\ Guards(j)
  <2>1. Response(r, r, None, 0, s.cancelled).job # j
    BY <1>4 DEF Response
  <2>2. j \in st.acknowledged \cap st.apple_pending /\ Minded(j) =>
          book.writers[DeviceOf[j]] = j /\ bookDisk.writers[DeviceOf[j]] = j
    BY DEF Minded, Writes
  <2> QED BY <1>1, <1>2, <1>5, <1>7, <2>1, <2>2, FinishHeartbeatGuards
<1>8. ASSUME k # None, k \notin Mutating,
             FinishHeartbeat(a, Dispatched(s, k), book, bookDisk,
                             Response(k, r, k, 0, s.cancelled))
      PROVE  Tells(j) /\ Guards(j)
  <2>1. Response(k, r, k, 0, s.cancelled).job = k
    BY DEF Response
  <2>2. j \in st.acknowledged \cap st.apple_pending /\ Minded(j) =>
          book.writers[DeviceOf[j]] = j /\ bookDisk.writers[DeviceOf[j]] = j
    BY DEF Minded, Writes
  <2> QED BY <1>1, <1>3, <1>6, <1>8, <2>1, <2>2, FinishHeartbeatGuards
<1>9. ASSUME k \in Mutating, NEW b \in Expire(book, overdue)
      PROVE  /\ GoodBook(b) /\ b.writers = book.writers
             /\ GoodBook(SetWriter(b, DeviceOf[k], k))
             /\ SetWriter(b, DeviceOf[k], k).writers =
                  [book.writers EXCEPT ![DeviceOf[k]] = k]
             /\ j \in st.acknowledged \cap st.apple_pending /\ Minded(j) =>
                  /\ book.writers[DeviceOf[j]] = j /\ bookDisk.writers[DeviceOf[j]] = j
                  /\ SetWriter(b, DeviceOf[k], k).writers[DeviceOf[j]] = j
  <2>1. k # None /\ DeviceOf[k] \in Devices /\ k \in Jobs /\ DeviceOf[j] \in Devices
    BY <1>9, RegistryAssumption, NoneAssumption
  <2>2. GoodBook(b) /\ b.writers = book.writers
    BY <1>1, <1>9, ExpireIsGood
  <2>3. /\ GoodBook(SetWriter(b, DeviceOf[k], k))
        /\ SetWriter(b, DeviceOf[k], k).writers =
                  [book.writers EXCEPT ![DeviceOf[k]] = k]
    BY <2>1, <2>2, SetWriterIsGood
  <2>4. book.writers \in [Devices -> Jobs \cup {None}]
    BY <1>1 DEF GoodBook, Book
  <2>5. ASSUME j \in st.acknowledged \cap st.apple_pending, Minded(j)
        PROVE  DeviceOf[j] # DeviceOf[k]
    BY <1>3, <1>4, <1>9, <2>1, <2>5 DEF Minded, Writes
  <2> QED BY <2>1, <2>2, <2>3, <2>4, <2>5 DEF Minded, Writes
<1>10. ASSUME k \in Mutating, NEW b \in Expire(book, overdue),
              DispatchWriter(a, s, b, r, k)
       PROVE  Tells(j) /\ Guards(j)
  <2> DEFINE fenced == SetWriter(b, DeviceOf[k], k)
  <2>0. k # None
    BY <1>10, RegistryAssumption, NoneAssumption
  <2>1. CASE FinishHeartbeat(a, Dispatched(s, k), fenced, fenced,
                             Response(k, r, k, s.job[k].lease, s.cancelled))
    <3>1. Response(k, r, k, s.job[k].lease, s.cancelled).job = k
      BY DEF Response
    <3> QED BY <1>3, <1>6, <1>9, <1>10, <2>0, <2>1, <3>1, FinishHeartbeatGuards
  <2>2. CASE /\ st' = s /\ UNCHANGED stDisk
             /\ book' = fenced /\ bookDisk' \in {bookDisk, fenced}
    <3>1. Safe(j) /\ j \in Mutating => Writes(j)'
      BY <1>9, <1>10, <2>2 DEF Safe, Acked, Writes, Minded
    <3> QED BY <1>5, <2>2, <3>1, GuardsByStates
  <2> QED BY <1>10, <2>1, <2>2 DEF DispatchWriter
<1>11. ASSUME k \in Mutating, NEW b \in Expire(book, overdue),
              RejectApple(a, s, b, r, k)
       PROVE  Tells(j) /\ Guards(j)
  <2> DEFINE over == [s EXCEPT !.apple_pending = s.apple_pending \ {k}]
             t    == AddEvent(over, k, 1, "rejected")
  <2>0. k # None /\ k \in Jobs
    BY <1>11, RegistryAssumption, NoneAssumption
  <2>1. over \in DurableState
    BY <1>2 DEF DurableState
  <2>2. t \in DurableState
    BY <2>0, <2>1, AddEventType DEF Kinds
  <2>3. /\ t.job = s.job /\ t.apple_pending = s.apple_pending \ {k}
        /\ t.acknowledged = s.acknowledged /\ t.dispatched = s.dispatched
        /\ t.device_peers = s.device_peers /\ t.host_peers = s.host_peers
    BY <1>2 DEF AddEvent, DurableState
  <2>4. FinishHeartbeat(a, t, b, bookDisk, Response(k, r, None, 0, s.cancelled))
    BY <1>11 DEF RejectApple
  <2>5. Response(k, r, None, 0, s.cancelled).job = k
    BY DEF Response
  <2> HIDE DEF t
  <2>6. StateTells(st, t, j) /\ StateGuards(st, t, j)
    BY <1>2, <1>3, <2>0, <2>3 DEF StateTells, StateGuards, PeersIn, JobIn
  <2> QED BY <1>3, <1>9, <1>11, <2>0, <2>2, <2>4, <2>5, <2>6, FinishHeartbeatGuards
<1> QED BY <1>7, <1>8, <1>10, <1>11 DEF DispatchApple, s

LEMMA HeartbeatDispatchGuards ==
  ASSUME RInv, NEW a \in Agents, HeartbeatDispatch(a), NEW j \in Jobs
  PROVE  Tells(j) /\ Guards(j)
<1>1. PICK r \in OneOf(PendingRuns(hb[a].host)), k \in OneOf(PendingApple(hb[a].host)) :
        DispatchApple(a, Dispatched(st, r), r, k)
  BY DEF HeartbeatDispatch
<1>2. r \in Runs \cup {None}
  BY DEF OneOf, PendingRuns, RInv, IInv, StatesOK, DurableState
<1> QED BY <1>1, <1>2, DispatchAppleGuards DEF HeartbeatDispatch

\* An Apple job is in the reply only when both files say that it is dispatched.
LEMMA DispatchSends ==
  ASSUME RInv, NEW a \in Agents, HeartbeatDispatch(a)
  PROVE  /\ \A b \in Agents \ {a} : wire'[b] = wire[b]
         /\ \A j \in Jobs : wire'[a].apple = j /\ wire'[a] # wire[a] =>
              /\ j \in PendingApple(hb[a].host)
              /\ j \in st'.dispatched \cap stDisk'.dispatched
<1> SUFFICES ASSUME NEW r \in OneOf(PendingRuns(hb[a].host)),
                    NEW k \in OneOf(PendingApple(hb[a].host)),
                    DispatchApple(a, Dispatched(st, r), r, k)
             PROVE  /\ \A b \in Agents \ {a} : wire'[b] = wire[b]
                    /\ \A j \in Jobs : wire'[a].apple = j /\ wire'[a] # wire[a] =>
                         /\ j \in PendingApple(hb[a].host)
                         /\ j \in st'.dispatched \cap stDisk'.dispatched
  BY DEF HeartbeatDispatch
<1> DEFINE Sends(j) == /\ st' = Dispatched(Dispatched(st, r), j)
                       /\ stDisk' = st'
                       /\ \E reply : wire' = [wire EXCEPT ![a] = reply] /\ reply.apple = j
<1>1. \/ wire' = wire
      \/ \E reply : wire' = [wire EXCEPT ![a] = reply] /\ reply.apple = None
      \/ k # None /\ Sends(k)
  <2>1. ASSUME NEW s, NEW b, NEW bd, NEW reply, FinishHeartbeat(a, s, b, bd, reply)
        PROVE  \/ wire' = wire
               \/ st' = s /\ stDisk' = s /\ wire' = [wire EXCEPT ![a] = reply]
    BY <2>1 DEF FinishHeartbeat
  <2>2. \A job, run, apple, grant, cancel :
          Response(job, run, apple, grant, cancel).apple = apple
    BY DEF Response
  <2> DEFINE s == Dispatched(st, r)
  <2>3. CASE /\ k = None
             /\ FinishHeartbeat(a, s, book, bookDisk,
                                Response(r, r, None, 0, s.cancelled))
    BY <2>1, <2>2, <2>3
  <2>4. CASE /\ k # None
             /\ FinishHeartbeat(a, Dispatched(s, k), book, bookDisk,
                                Response(k, r, k, 0, s.cancelled))
    BY <2>1, <2>2, <2>4
  <2>5. ASSUME k \in Mutating, NEW b, DispatchWriter(a, s, b, r, k) \/ RejectApple(a, s, b, r, k)
        PROVE  \/ wire' = wire
               \/ \E reply : wire' = [wire EXCEPT ![a] = reply] /\ reply.apple = None
               \/ k # None /\ Sends(k)
    <3>1. k # None
      BY <2>5, RegistryAssumption, NoneAssumption
    <3>2. CASE RejectApple(a, s, b, r, k)
      BY <3>2, <2>1, <2>2 DEF RejectApple
    <3>3. CASE DispatchWriter(a, s, b, r, k)
      BY <3>1, <3>3, <2>1, <2>2 DEF DispatchWriter
    <3> QED BY <2>5, <3>2, <3>3
  <2> QED BY <2>3, <2>4, <2>5 DEF DispatchApple
<1>2. wire \in [Agents -> WireType] /\ st \in DurableState /\ None \notin Jobs
  BY NoneAssumption DEF RInv, IInv, HandlersOK, StatesOK
<1>3. ASSUME k # None, Sends(k)
      PROVE  k \in PendingApple(hb[a].host) /\ k \in st'.dispatched
  <2>1. k \in PendingApple(hb[a].host)
    BY <1>3 DEF OneOf
  <2>2. Dispatched(st, r) = [st EXCEPT !.dispatched = Dispatched(st, r).dispatched]
    BY <1>2 DEF Dispatched, DurableState
  <2>3. Dispatched(Dispatched(st, r), k).dispatched =
          Dispatched(st, r).dispatched \cup {k}
    BY <1>2, <1>3, <2>2 DEF Dispatched, DurableState
  <2> QED BY <1>3, <2>1, <2>3
<1> QED BY <1>1, <1>2, <1>3

\* The writer that is set again is the job's own.
LEMMA StartedBeginGuards ==
  ASSUME RInv, NEW a, NEW k \in Jobs, NEW accepted, StartedBegin(a, k, accepted),
         NEW j \in Jobs
  PROVE  Tells(j) /\ Guards(j)
<1>1. GoodBook(book) /\ k # None /\ j # None /\ DeviceOf[j] \in Devices
      /\ DeviceOf[k] \in Devices
  BY RegistryAssumption, NoneAssumption DEF RInv, IInv, BooksOK
<1>2. st' = st /\ stDisk' = stDisk
  BY DEF StartedBegin
<1>3. \A saved : SaveBook(saved) => bookDisk' \in {bookDisk, book'}
  BY SaveBookChooses
<1>4. CASE book' = book
  BY <1>2, <1>3, <1>4, GuardsByWriters DEF StartedBegin
<1>5. ASSUME NEW b \in Expire(book, overdue), book' = b,
             bookDisk' \in {bookDisk, book'}
      PROVE  Tells(j) /\ Guards(j)
  BY <1>2, <1>5, LeaseOperationsGuard
<1>6. ASSUME NEW b \in Expire(book, overdue), CanWrite(st, b, k),
             book' = SetWriter(b, DeviceOf[k], k), bookDisk' \in {bookDisk, book'}
      PROVE  Tells(j) /\ Guards(j)
  <2>1. GoodBook(b) /\ b.writers = book.writers
    BY <1>1, <1>6, ExpireIsGood
  <2>2. book'.writers = [book.writers EXCEPT ![DeviceOf[k]] = k]
    BY <1>1, <1>6, <2>1, SetWriterIsGood
  <2>3. book.writers \in [Devices -> Jobs \cup {None}]
    BY <1>1 DEF GoodBook, Book
  <2>4. Safe(j) /\ j \in Mutating => Writes(j)'
    BY <1>1, <1>6, <2>1, <2>2, <2>3 DEF Safe, Writes, CanWrite
  <2> QED BY <1>2, <2>4, GuardsByBooks
<1> QED BY <1>3, <1>4, <1>5, <1>6 DEF StartedBegin

\* Only a writer that this very call has set may be dropped again.
LEMMA StartedCommitTells ==
  ASSUME RInv, NEW accepted \in BOOLEAN, StartedCommit(accepted), NEW j \in Jobs
  PROVE  /\ Tells(j)
         /\ accepted \/ ~prog.restored \/ j # prog.job => Guards(j)
<1> DEFINE k == prog.job
           acked == [st EXCEPT !.acknowledged = st.acknowledged \cup {k}]
<1>1. st \in DurableState /\ k \in Jobs
  BY DEF RInv, IInv, StatesOK, ProgressOK, StartedCommit
<1>2. acked \in DurableState
  BY <1>1 DEF DurableState
<1>3. st' = acked \/ st' = AddEvent(acked, k, 1, "started")
  BY DEF StartedCommit, Deduplicated
<1>4. /\ st'.job = st.job /\ st'.apple_pending = st.apple_pending
      /\ st'.acknowledged = st.acknowledged \cup {k}
      /\ st'.dispatched = st.dispatched
      /\ st'.device_peers = st.device_peers /\ st'.host_peers = st.host_peers
  BY <1>1, <1>3 DEF AddEvent, DurableState
<1>5. StateTells(st, st', j) /\ StateGuards(st, st', j)
  BY <1>4 DEF StateTells, StateGuards, PeersIn, JobIn
<1>6. stDisk' \in {stDisk, st'}
  BY DEF StartedCommit, SaveState
<1>7. Tells(j)
  BY <1>5, <1>6, TellsByStates
<1>8. ASSUME accepted \/ ~prog.restored \/ j # prog.job PROVE Guards(j)
  <2>1. CASE UNCHANGED <<book, bookDisk>>
    <3>1. Safe(j) /\ j \in Mutating => Writes(j)'
      BY <2>1 DEF Safe, Writes
    <3> QED BY <1>5, <1>6, <3>1, GuardsByStates
  <2>2. CASE ~accepted /\ prog.restored
    <3> DEFINE dropped == [book EXCEPT !.writers =
                    [d \in Devices |-> IF book.writers[d] = k THEN None
                                       ELSE book.writers[d]]]
    <3>1. book' = dropped /\ bookDisk' \in {bookDisk, dropped}
      BY <2>2 DEF StartedCommit
    <3>2. dropped.writers = [d \in Devices |-> IF book.writers[d] = k THEN None
                                               ELSE book.writers[d]]
      BY DEF RInv, IInv, BooksOK, GoodBook, Book
    <3>3. Safe(j) /\ j \in Mutating => Writes(j)'
      BY <1>8, <2>2, <3>1, <3>2, RegistryAssumption DEF Safe, Writes
    <3> QED BY <1>5, <1>6, <3>3, GuardsByStates
  <2> QED BY <2>1, <2>2 DEF StartedCommit
<1> QED BY <1>7, <1>8

\* A job's last event takes nothing from the others.
LEMMA TerminalBeginTells ==
  ASSUME RInv, NEW a, NEW k \in Jobs, NEW kind \in Kinds, TerminalBegin(a, k, kind),
         NEW j \in Jobs
  PROVE  /\ Tells(j)
         /\ j # k => Guards(j)
         /\ k \notin st'.apple_pending
<1> DEFINE over == [st EXCEPT !.apple_pending = st.apple_pending \ {k},
                              !.cancelled = st.cancelled \ {k}]
           told == Deduplicated(over, k, 2, kind)
           W    == WrittenBy(book, k)
<1>1. st \in DurableState /\ GoodBook(book)
  BY DEF RInv, IInv, StatesOK, BooksOK
<1>2. over \in DurableState
  BY <1>1 DEF DurableState
<1>3. told \in DurableState
  BY <1>2, DeduplicatedType
<1>4. /\ told.job = st.job /\ told.apple_pending = st.apple_pending \ {k}
      /\ told.acknowledged = st.acknowledged /\ told.dispatched = st.dispatched
      /\ told.device_peers = st.device_peers /\ told.host_peers = st.host_peers
  BY <1>1 DEF Deduplicated, AddEvent, DurableState
<1>5. st' = ForgetPeers(told, W \cap book.pending_detach)
  BY DEF TerminalBegin
<1> HIDE DEF told
<1>6. /\ st'.job = st.job /\ st'.apple_pending = st.apple_pending \ {k}
      /\ st'.acknowledged = st.acknowledged /\ st'.dispatched = st.dispatched
      /\ st'.host_peers = st.host_peers
      /\ \A d \in Devices \ W : st'.device_peers[d] = st.device_peers[d]
  BY <1>3, <1>4, <1>5 DEF ForgetPeers, DurableState
<1>7. UNCHANGED <<bookDisk, stDisk>>
  BY DEF TerminalBegin
<1>8. Tells(j)
  <2>1. StateTells(st, st', j)
    BY <1>6 DEF StateTells, PeersIn, JobIn
  <2> QED BY <1>7, <2>1, TellsByStates
<1>9. ASSUME j # k PROVE Guards(j)
  <2>1. Minded(j) => DeviceOf[j] \in Devices \ W
    BY <1>9, RegistryAssumption DEF Minded, Writes, WrittenBy
  <2>2. StateTells(st, st', j) /\ StateGuards(st, st', j)
    BY <1>6, <1>9, <2>1 DEF StateTells, StateGuards, PeersIn, JobIn
  <2>3. W \in SUBSET Devices /\ book' \in DropWriters(book, W)
    BY DEF WrittenBy, TerminalBegin
  <2>4. book'.writers = [d \in Devices |-> IF d \in W THEN None ELSE book.writers[d]]
    BY <1>1, <2>3, DropWritersIsGood
  <2>5. Safe(j) /\ j \in Mutating => Writes(j)'
    BY <1>7, <2>1, <2>4 DEF Safe, Writes, Minded
  <2> QED BY <1>7, <2>2, <2>5, GuardsByStates
<1> QED BY <1>6, <1>8, <1>9

LEMMA TerminalCommitGuards ==
  ASSUME RInv, NEW accepted, TerminalCommit(accepted), NEW j \in Jobs
  PROVE  Tells(j) /\ Guards(j)
<1>1. /\ st' = st /\ stDisk' \in {stDisk, st'} /\ book' = book
      /\ bookDisk' \in {bookDisk, book'}
  BY DEF TerminalCommit
<1> QED BY <1>1, GuardsByWriters

LEMMA CrashGuards ==
  ASSUME RInv, Crash, NEW j \in Jobs PROVE Tells(j) /\ Guards(j)
<1>1. st' = stDisk' /\ stDisk' = stDisk /\ book' = bookDisk /\ bookDisk' = bookDisk
  BY DEF Crash, LoseMemory
<1>2. Safe(j) /\ j \in Mutating => Writes(j)'
  BY <1>1 DEF Safe, Writes
<1> QED BY <1>1, <1>2, GuardsByStates

\* A restart drops the writers of jobs that were not acknowledged or are over.
LEMMA RestartGuards ==
  ASSUME RInv, Restart, NEW j \in Jobs PROVE Tells(j) /\ Guards(j)
<1>0. PICK late \in SUBSET ActiveIds(bookDisk) :
        \E b \in Expire(bookDisk, late) :
          /\ book' \in ReconciledBooks(stDisk, b)
          /\ st' = ReconciledState(stDisk, b)
  BY DEF Restart
<1>1. PICK b \in Expire(bookDisk, late) :
        /\ book' \in ReconciledBooks(stDisk, b)
        /\ st' = ReconciledState(stDisk, b)
  BY <1>0
<1>2. bookDisk' = book' /\ stDisk' = st'
  BY DEF Restart
<1>3. stDisk \in DurableState /\ GoodBook(bookDisk) /\ stDisk.job = st.job
  BY DEF RInv, IInv, FInv, StatesOK, BooksOK
<1>4. GoodBook(b) /\ b.writers = bookDisk.writers
  BY <1>1, <1>3, ExpireIsGood
<1> DEFINE O == Orphans(stDisk, b)
<1>5. /\ st'.job = stDisk.job /\ st'.apple_pending = stDisk.apple_pending
      /\ st'.acknowledged = stDisk.acknowledged
      /\ st'.dispatched = stDisk.dispatched
      /\ st'.host_peers = stDisk.host_peers
      /\ \A d \in Devices \ O : st'.device_peers[d] = stDisk.device_peers[d]
  BY <1>1, <1>3 DEF ReconciledState, ForgetPeers, DurableState
<1>6. O \in SUBSET Devices /\ book' \in DropWriters(b, O)
  BY <1>1 DEF ReconciledBooks, Orphans
<1>7. book'.writers = [d \in Devices |-> IF d \in O THEN None ELSE b.writers[d]]
  BY <1>4, <1>6, DropWritersIsGood
<1>8. Tells(j)
  BY <1>2, <1>3, <1>5 DEF Tells, PeersIn, JobIn, IsKnown, Acked, Sent
<1>9. ASSUME Safe(j), j \in Mutating
      PROVE  DeviceOf[j] \in Devices \ O
  <2>1. /\ DeviceOf[j] \in Devices /\ bookDisk.writers[DeviceOf[j]] = j
        /\ j \in stDisk.acknowledged \cap stDisk.apple_pending
    BY <1>9, RegistryAssumption DEF Safe, Acked, Writes
  <2> QED BY <1>4, <2>1 DEF Orphans
<1>10. Guards(j)
  <2>1. ASSUME Safe(j) PROVE Safe(j)'
    <3>1. IsKnown(j)' /\ Acked(j)' /\ Sent(j)'
          /\ j \in st'.apple_pending \cap stDisk'.apple_pending
      BY <1>2, <1>3, <1>5, <2>1 DEF Safe, IsKnown, Acked, Sent
    <3>2. j \in Mutating => Writes(j)'
      BY <1>2, <1>4, <1>7, <1>9, <2>1 DEF Safe, Writes
    <3> QED BY <3>1, <3>2 DEF Safe
  <2>2. ASSUME Safe(j), j \in Mutating, Owned(j) PROVE Owned(j)'
    BY <1>2, <1>3, <1>5, <1>9, <2>2 DEF Owned, AgentOf
  <2> QED BY <2>1, <2>2 DEF Guards
<1> QED BY <1>8, <1>10

-----------------------------------------------------------------------------
(***************************************************************************)
(* The registry's invariants hold in the mesh: what the agents do is a step *)
(* of the registry, one of its handlers' steps, or takes a reply.           *)
(***************************************************************************)
LEMMA RegistryStepKeepsRInv == RInv /\ [Next]_vars => RInv'
BY IInvIsInductive, FInvIsInductive, DurableIsInductive DEF RInv

LEMMA ReplyKeepsRInv ==
  ASSUME RInv, wire' \in [Agents -> WireType],
         UNCHANGED <<up, book, bookDisk, st, stDisk, entries, hb, checked, prog,
                     overdue, faults, crashes, granted>>
  PROVE  RInv'
<1>1. IInv'
  BY DEF RInv, IInv, BooksOK, StatesOK, HandlersOK, ProgressOK, CountersOK, HostsOK
<1>2. FInv' /\ Durable'
  BY DEF RInv, FInv, Guarded, Known, Fenced, HoldsLease, LeaseOf, Leased, Durable, Kept
<1> QED BY <1>1, <1>2 DEF RInv

LEMMA AgentOfType ==
  ASSUME RInv, NEW j \in Jobs, IsKnown(j)
  PROVE  /\ st.job[j] \in JobInfo /\ AgentOf(j) \in Agents /\ AgentOf(j) # None
BY RegistryAssumption DEF RInv, IInv, StatesOK, DurableState, IsKnown, JobInfo, AgentOf

LEMMA HandlersKeepRInv ==
  /\ \A j \in Jobs : RInv /\ HandleStarted(j) => RInv'
  /\ \A j \in Jobs : RInv /\ HandleTerminal(j) => RInv'
  /\ \A j \in Jobs : RInv /\ HandleValidate(j) => RInv'
  /\ RInv /\ HandleCommit => RInv'
  /\ \A a \in Agents : RInv /\ HandleComplete(a) => RInv'
  /\ \A r \in Runs : RInv /\ HandleLateComplete(r) => RInv'
<1>1. ASSUME NEW j \in Jobs, RInv, HandleStarted(j) PROVE RInv'
  <2>1. PICK accepted \in BOOLEAN : StartedBegin(AgentOf(j), j, accepted)
    BY <1>1 DEF HandleStarted
  <2>2. AgentOf(j) \in Agents
    BY <1>1, <2>1, AgentOfType DEF StartedBegin, KnownAgent, IsKnown
  <2>3. Next
    BY <2>1, <2>2 DEF Next, AgentRequest
  <2> QED BY <1>1, <2>3, RegistryStepKeepsRInv
<1>2. ASSUME NEW j \in Jobs, RInv, HandleTerminal(j) PROVE RInv'
  <2>1. PICK k \in Kinds : TerminalBegin(AgentOf(j), j, k)
    BY <1>2 DEF HandleTerminal
  <2>2. AgentOf(j) \in Agents
    BY <1>2, <2>1, AgentOfType DEF TerminalBegin, KnownAgent, IsKnown
  <2> QED BY <1>2, <2>1, <2>2, TerminalBeginIsGood, TerminalBeginKeepsFInv,
             TerminalBeginKeepsDurable DEF RInv
<1>3. ASSUME NEW j \in Jobs, RInv, HandleValidate(j) PROVE RInv'
  <2>1. PICK active \in BOOLEAN : ValidateLease(AgentOf(j), j, shown[j], active)
    BY <1>3 DEF HandleValidate
  <2>2. IInv' /\ FInv'
    BY <1>3, <2>1, ValidateLeaseIsGood, ValidateLeaseKeepsFInv DEF RInv
  <2>3. PICK saved \in BOOLEAN : st' = st /\ SaveBoth(saved)
    BY <2>1 DEF ValidateLease
  <2> QED BY <1>3, <2>2, <2>3, LeaseKeepsDurable DEF RInv
<1>4. ASSUME RInv, HandleCommit PROVE RInv'
  <2>1. Next
    BY <1>4 DEF HandleCommit, ProgressCommit, Next
  <2> QED BY <1>4, <2>1, RegistryStepKeepsRInv
<1>5. ASSUME NEW a \in Agents, RInv, HandleComplete(a) PROVE RInv'
  <2>1. CASE UNCHANGED vars
    BY <1>5, <2>1, RegistryStepKeepsRInv
  <2>2. CASE completing[a] \in st.pending /\ Complete(completing[a])
    <3>1. completing[a] \in Runs
      BY <1>5, <2>2 DEF RInv, IInv, StatesOK, DurableState
    <3>2. Next
      BY <2>2, <3>1 DEF Next
    <3> QED BY <1>5, <3>2, RegistryStepKeepsRInv
  <2> QED BY <1>5, <2>1, <2>2 DEF HandleComplete
<1>6. ASSUME NEW r \in Runs, RInv, HandleLateComplete(r) PROVE RInv'
  <2>1. Next
    BY <1>6 DEF HandleLateComplete, Next
  <2> QED BY <1>6, <2>1, RegistryStepKeepsRInv
<1> QED BY <1>1, <1>2, <1>3, <1>4, <1>5, <1>6

LEMMA AgentsKeepRInv ==
  /\ \A a \in Agents : RInv /\ (LoopStep(a) \/ AgentCrash(a)) => RInv'
  /\ \A j \in Jobs : RInv /\ ThreadStep(j) => RInv'
<1>1. ASSUME NEW a \in Agents, RInv, Heartbeat(a) PROVE RInv'
  <2>1. PICK S \in Inventories[a] : HeartbeatInventory(a, HostOf[a], S)
    BY <1>1 DEF Heartbeat
  <2>2. S \in SUBSET Devices /\ HostOf[a] \in Hosts
    BY MeshAssumption
  <2>3. Next
    BY <2>1, <2>2 DEF Next, AgentRequest
  <2> QED BY <1>1, <2>3, RegistryStepKeepsRInv
<1>2. ASSUME NEW a \in Agents, RInv, ReadReply(a) \/ StartJob(a) \/ AgentCrash(a)
      PROVE  RInv'
  <2>1. wire \in [Agents -> WireType] /\ ErrorResponse \in WireType
    BY <1>2 DEF RInv, IInv, HandlersOK, ErrorResponse, Response, WireType
  <2>2. [wire EXCEPT ![a].cancel = {}, ![a].run = None] \in [Agents -> WireType]
    BY <2>1 DEF WireType
  <2>3. /\ wire' \in [Agents -> WireType]
        /\ UNCHANGED <<up, book, bookDisk, st, stDisk, entries, hb, checked, prog,
                     overdue, faults, crashes, granted>>
    BY <1>2, <2>1, <2>2 DEF ReadReply, StartJob, AgentCrash
  <2> QED BY <1>2, <2>3, ReplyKeepsRInv
<1>3. ASSUME NEW a \in Agents, RInv, ReplyDone(a) \/ ReplyLost(a) PROVE RInv'
  <2>1. Next
    BY <1>3 DEF ReplyDone, ReplyLost, Next, Environment
  <2> QED BY <1>3, <2>1, RegistryStepKeepsRInv
<1>4. ASSUME NEW a \in Agents, RInv, CompleteAgain(a) \/ CompleteGivesUp(a) PROVE RInv'
  <2>1. UNCHANGED vars
    BY <1>4 DEF CompleteAgain, CompleteGivesUp
  <2> QED BY <1>4, <2>1, RegistryStepKeepsRInv
<1>5. ASSUME NEW j \in Jobs, RInv, ThreadStep(j) PROVE RInv'
  <2>1. UNCHANGED vars
    BY <1>5 DEF ThreadStep, StartAcknowledged, StartGivesUp, BeginValidation, Execute,
                ValidationFails, Finish, EndAcknowledged, Resend, Ends, Moves
  <2> QED BY <1>5, <2>1, RegistryStepKeepsRInv
<1> QED BY <1>1, <1>2, <1>3, <1>4, <1>5 DEF LoopStep

LEMMA MeshKeepsRInv == RInv /\ [MeshNext]_meshVars => RInv'
<1> SUFFICES ASSUME RInv, [MeshNext]_meshVars PROVE RInv'
  OBVIOUS
<1>1. CASE \/ \E a \in Agents : LoopStep(a) \/ AgentCrash(a)
           \/ \E j \in Jobs : ThreadStep(j)
  BY <1>1, AgentsKeepRInv
<1>2. CASE Handle
  BY <1>2, HandlersKeepRInv DEF Handle
<1>3. CASE RegistryAlone \/ RegistryCrash
  <2>1. Next
    BY <1>3 DEF RegistryAlone, RegistryCrash, Next, AgentRequest, Environment
  <2> QED BY <2>1, RegistryStepKeepsRInv
<1>4. CASE UNCHANGED meshVars
  <2>1. UNCHANGED vars
    BY <1>4 DEF meshVars
  <2> QED BY <2>1, RegistryStepKeepsRInv
<1> QED BY <1>1, <1>2, <1>3, <1>4 DEF MeshNext

-----------------------------------------------------------------------------
(***************************************************************************)
(* Steps in which no thread moves.                                          *)
(***************************************************************************)

\* An agent whose heartbeat is not being handled has none of its jobs called.
LEMMA NotCalled ==
  ASSUME RInv, PeerM, BeatM, NEW j \in Jobs, IsKnown(j), hb[AgentOf(j)] = IdleBeat
  PROVE  ~Called(j)
<1>1. AgentOf(j) \in Agents
  BY AgentOfType
<1>2. HostOf[AgentOf(j)] = st.job[j].host
  BY DEF PeerM, JobIn, IsKnown, AgentOf
<1>3. SUFFICES ASSUME NEW a \in Agents, hb[a].pc = "dispatch",
                      hb[a].host = st.job[j].host
               PROVE  FALSE
  BY DEF Called
<1>4. hb[a] # IdleBeat
  BY <1>3 DEF IdleBeat
<1>5. HostOf[a] = HostOf[AgentOf(j)]
  BY <1>2, <1>3, <1>4 DEF BeatM
<1>6. a = AgentOf(j)
  BY <1>1, <1>5, MeshAssumption
<1> QED BY <1>4, <1>6

\* What a reply to j's thread, or to the loop that starts it, must mean.
Answers(j) ==
  j \in replied' \ replied =>
    /\ phase[j] = "starting" => Safe(j)'
    /\ phase[j] = "validating" /\ j \in Mutating => Owned(j)'
    /\ phase[j] = "terminating" => j \notin stDisk'.apple_pending

NothingLast == \A j \in Jobs, k \in Kinds :
                 Request("terminal", j, k) \in sent' => Request("terminal", j, k) \in sent

\* The invariants that the threads' steps could break.
ThreadM == TypeM /\ PeerM /\ StartM /\ ActM /\ OwnM /\ RanM /\ LastM /\ EndM

LEMMA ThreadsStand ==
  ASSUME RInv, MInv, UNCHANGED <<threadVars, agentCrashes>>, NothingLast,
         replied' \subseteq Jobs,
         \A j \in Jobs : Tells(j) /\ (Active(j) => Guards(j)) /\ Answers(j)
  PROVE  ThreadM'
<1>0. phase' = phase /\ ran' = ran /\ agentCrashes' = agentCrashes
  BY DEF threadVars
<1>1. TypeM'
  BY <1>0 DEF TypeM, MInv
<1>2. PeerM'
  BY DEF PeerM, MInv, Tells
<1>3. StartM'
  <2> SUFFICES ASSUME NEW j \in Jobs
               PROVE  /\ phase[j] # "idle" => IsKnown(j)'
                      /\ phase[j] = "starting" => Sent(j)'
    BY <1>0 DEF StartM
  <2>1. phase[j] # "idle" => IsKnown(j) /\ IsKnown(j)'
    BY DEF StartM, MInv, Tells, IsKnown
  <2>2. ASSUME phase[j] = "starting" PROVE Sent(j)'
    <3>1. IsKnown(j) /\ Sent(j)
      BY <2>2 DEF StartM, MInv
    <3>2. hb[AgentOf(j)] = IdleBeat
      BY <2>2, <3>1, AgentOfType DEF BeatM, MInv
    <3>3. ~Called(j)
      BY <3>1, <3>2, NotCalled DEF MInv
    <3> QED BY <3>1, <3>3 DEF Tells
  <2> QED BY <2>1, <2>2
<1>4. \A j \in Jobs : Active(j) => Safe(j) /\ Safe(j)'
  BY DEF ActM, MInv, Guards
<1>5. \A j \in Jobs : Active(j)' => Active(j) \/ (j \in replied' \ replied
                                                  /\ phase[j] = "starting")
  BY <1>0 DEF Active
<1>6. ActM'
  BY <1>4, <1>5 DEF ActM, Answers
<1>7. OwnM'
  <2> SUFFICES ASSUME NEW j \in Mutating,
                      phase[j] = "executing" \/ (phase[j] = "validating" /\ j \in replied')
               PROVE  Owned(j)'
    BY <1>0 DEF OwnM
  <2>1. j \in Jobs /\ Active(j)
    BY RegistryAssumption DEF Active, Fencing
  <2>2. CASE Owned(j)
    BY <1>4, <2>1, <2>2 DEF Guards
  <2>3. CASE phase[j] = "validating" /\ j \in replied' \ replied
    BY <2>1, <2>3 DEF Answers
  <2> QED BY <2>2, <2>3 DEF OwnM, MInv
<1>8. RanM'
  BY <1>0 DEF RanM, MInv, TypeM, Tells, IsKnown
<1>9. \A j \in Jobs : IsKnown(j) /\ j \notin stDisk.apple_pending =>
        j \notin stDisk'.apple_pending /\ IsKnown(j)'
  BY DEF Tells, IsKnown
<1>10. LastM'
  <2> SUFFICES ASSUME NEW j \in Jobs,
                      \E k \in Kinds : Request("terminal", j, k) \in sent
               PROVE  /\ IsKnown(j)'
                      /\ \/ phase[j] = "terminating"
                         \/ /\ phase[j] \in {"idle", "starting"} /\ ~Active(j)'
                            /\ j \notin stDisk'.apple_pending
    BY <1>0 DEF LastM, NothingLast
  <2>1. /\ IsKnown(j)
        /\ \/ phase[j] = "terminating"
           \/ /\ phase[j] \in {"idle", "starting"} /\ ~Active(j)
              /\ j \notin stDisk.apple_pending
    BY DEF LastM, MInv
  <2>2. ASSUME phase[j] # "terminating" PROVE ~Active(j)'
    <3>1. ~Safe(j)'
      BY <1>9, <2>1, <2>2 DEF Safe
    <3> QED BY <1>6, <3>1 DEF ActM
  <2>3. IsKnown(j)'
    BY <2>1 DEF Tells, IsKnown
  <2> QED BY <1>9, <2>1, <2>2, <2>3
<1>11. EndM'
  <2> SUFFICES ASSUME NEW j \in Jobs
               PROVE  /\ phase[j] = "terminating" /\ j \in replied' =>
                           j \notin stDisk'.apple_pending
                      /\ agentCrashes = 0 /\ j \in ran /\ phase[j] = "idle" =>
                           j \notin stDisk'.apple_pending
    BY <1>0 DEF EndM
  <2>1. phase[j] = "terminating" \/ j \in ran => IsKnown(j)
    BY DEF StartM, RanM, MInv
  <2> QED BY <1>9, <2>1 DEF EndM, MInv, Answers
<1> QED BY <1>1, <1>2, <1>3, <1>6, <1>7, <1>8, <1>10, <1>11 DEF ThreadM

LEMMA BeatsStand ==
  ASSUME MInv, phase' = phase, \A j \in Jobs : Tells(j),
         \A a \in Agents : hb'[a] # IdleBeat =>
           /\ hb[a] # IdleBeat /\ hb'[a].host = hb[a].host
           /\ wire'[a] = wire[a]
  PROVE  BeatM'
<1>1. \A j \in Jobs : phase[j] = "starting" => AgentOf(j)' = AgentOf(j)
  BY DEF StartM, MInv, Tells, AgentOf
<1> QED BY <1>1 DEF BeatM, MInv

LEMMA WiresStand ==
  ASSUME RInv, MInv, phase' = phase, ran' = ran, \A j \in Jobs : Tells(j),
         NEW a \in Agents, NEW j \in Jobs, wire[a].apple = j
  PROVE  /\ IsKnown(j)' /\ AgentOf(j)' = a /\ Sent(j)' /\ j \notin ran'
         /\ phase'[j] \in {"idle", "terminating"}
<1>1. /\ IsKnown(j) /\ AgentOf(j) = a /\ Sent(j) /\ j \notin ran
      /\ phase[j] \in {"idle", "terminating"}
  BY DEF WireM, MInv
<1>2. hb[a] = IdleBeat
  BY NoneAssumption DEF BeatM, MInv, ErrorResponse, Response
<1>3. Sent(j)'
  BY <1>1, <1>2, NotCalled DEF MInv, Tells
<1> QED BY <1>1, <1>3 DEF Tells, IsKnown, AgentOf

\* No AppleProgress is half done, or its job is left alone.
LEMMA ProgressStands ==
  ASSUME MInv, phase' = phase,
         \/ prog' = NoProgress
         \/ /\ prog' = prog /\ up' = up /\ st' = st /\ replied' \subseteq replied
            /\ book'.writers = book.writers /\ bookDisk' \in {bookDisk, book'}
  PROVE  ProgM'
<1>1. CASE prog' = NoProgress
  BY <1>1 DEF ProgM
<1>2. CASE /\ prog' = prog /\ up' = up /\ st' = st /\ replied' \subseteq replied
           /\ book'.writers = book.writers /\ bookDisk' \in {bookDisk, book'}
  BY <1>2 DEF ProgM, MInv, IsKnown, Writes, Active
<1> QED BY <1>1, <1>2

\* The registry's steps that no thread waits for.
LEMMA RegistryStands ==
  ASSUME RInv, MInv, UNCHANGED <<threadVars, agentCrashes, wire>>, NothingLast,
         replied' = replied,
         \A j \in Jobs : Tells(j) /\ (Active(j) => Guards(j)),
         \A a \in Agents : hb'[a] # IdleBeat => hb[a] # IdleBeat /\ hb'[a].host = hb[a].host,
         \/ prog' = NoProgress
         \/ /\ prog' = prog /\ up' = up /\ st' = st
            /\ book'.writers = book.writers /\ bookDisk' \in {bookDisk, book'}
  PROVE  MInv'
<1>1. ThreadM'
  <2>1. replied' \subseteq Jobs
    BY DEF MInv, TypeM
  <2>2. \A j \in Jobs : Answers(j)
    BY DEF Answers
  <2> QED BY <2>1, <2>2, ThreadsStand
<1>2. phase' = phase /\ ran' = ran /\ wire' = wire
  BY DEF threadVars
<1>3. BeatM'
  BY <1>2, BeatsStand
<1>4. WireM'
  BY <1>2, WiresStand DEF WireM
<1>5. ProgM'
  BY <1>2, ProgressStands
<1> QED BY <1>1, <1>3, <1>4, <1>5 DEF MInv, ThreadM

LEMMA PersistStands ==
  ASSUME RInv, NEW s, NEW chk, PersistOrPanic(s, chk), Ready
  PROVE  /\ prog' = NoProgress
         /\ \A a \in Agents : hb'[a] # IdleBeat => hb'[a] = hb[a]
BY DEF PersistOrPanic, Panic, LoseMemory, Ready

LEMMA ClientsKeepMInv ==
  ASSUME RInv, MInv, UNCHANGED agentVars, NEW c \in Clients, ClientRequest(c)
  PROVE  MInv'
<1>1. /\ UNCHANGED <<threadVars, agentCrashes>> /\ NothingLast /\ replied' = replied
  BY DEF agentVars, NothingLast
<1>2. CASE \E k \in Jobs, l \in LeaseIds \cup {0} : AppleRunCheck(c, k, l)
  <2>1. UNCHANGED <<up, hb, prog, wire>>
    BY <1>2 DEF AppleRunCheck
  <2>2. /\ \A j \in Jobs : Tells(j) /\ Guards(j)
        /\ st' = st /\ book'.writers = book.writers /\ bookDisk' \in {bookDisk, book'}
    <3>1. ASSUME NEW j \in Jobs
          PROVE  Tells(j) /\ Guards(j) /\ st' = st /\ book'.writers = book.writers
                 /\ bookDisk' \in {bookDisk, book'}
      BY <1>2, ExpiriesGuard
    <3>2. \E k \in Jobs : TRUE
      BY <1>2
    <3> QED BY <3>1, <3>2
  <2> QED BY <1>1, <2>1, <2>2, RegistryStands
<1>3. ASSUME NEW k \in Jobs, NEW l, AppleRunSubmit(c, k, l) PROVE MInv'
  <2>1. \A j \in Jobs : Tells(j) /\ Guards(j)
    BY <1>3, AppleRunSubmitGuards
  <2>2. /\ prog' = NoProgress /\ wire' = wire
        /\ \A a \in Agents : hb'[a] # IdleBeat => hb'[a] = hb[a]
    BY <1>3, PersistStands DEF AppleRunSubmit, Ready
  <2> QED BY <1>1, <2>1, <2>2, RegistryStands
<1>4. ASSUME NEW k \in Jobs, AppleCancel(c, k) PROVE MInv'
  <2>1. \A j \in Jobs : Tells(j) /\ Guards(j)
    BY <1>4, AppleCancelGuards
  <2>2. /\ prog' = NoProgress /\ wire' = wire
        /\ \A a \in Agents : hb'[a] # IdleBeat => hb'[a] = hb[a]
    BY <1>4, PersistStands DEF AppleCancel
  <2> QED BY <1>1, <2>1, <2>2, RegistryStands
<1>5. CASE /\ ~\E k \in Jobs, l \in LeaseIds \cup {0} :
                   AppleRunCheck(c, k, l) \/ AppleRunSubmit(c, k, l)
           /\ ~\E k \in Jobs : AppleCancel(c, k)
  <2>1. \A j \in Jobs : Tells(j) /\ Guards(j)
    BY <1>5, LeasesGuard
  <2>2. prog' = NoProgress /\ UNCHANGED <<hb, wire>>
    BY <1>5 DEF ClientRequest, AcquireLease, QueueLease, RenewLease, ReleaseLease,
                DisconnectClient, LeaseFrame, Ready
  <2> QED BY <1>1, <2>1, <2>2, RegistryStands
<1> QED BY <1>2, <1>3, <1>4, <1>5

LEMMA HeartbeatDispatchKeepsMInv ==
  ASSUME RInv, MInv, UNCHANGED agentVars, NEW a \in Agents, HeartbeatDispatch(a)
  PROVE  MInv'
<1>0. phase' = phase /\ ran' = ran /\ replied' = replied
  BY DEF agentVars, threadVars
<1>1. \A j \in Jobs : Tells(j) /\ Guards(j)
  BY HeartbeatDispatchGuards
<1>2. ThreadM'
  <2>1. /\ UNCHANGED <<threadVars, agentCrashes>> /\ NothingLast
        /\ replied' \subseteq Jobs /\ \A j \in Jobs : Answers(j)
    BY <1>0 DEF agentVars, NothingLast, Answers, MInv, TypeM
  <2> QED BY <1>1, <2>1, ThreadsStand
<1>3. hb[a].pc = "dispatch" /\ prog' = NoProgress /\ hb' = [hb EXCEPT ![a] = IdleBeat]
  BY DEF HeartbeatDispatch, Ready
<1>4. hb \in [Agents -> Beats] /\ wire \in [Agents -> WireType]
  BY DEF RInv, IInv, HandlersOK
<1>5. BeatM'
  BY <1>0, <1>1, <1>3, <1>4, DispatchSends, BeatsStand
<1>6. ASSUME NEW j \in Jobs, j \in PendingApple(hb[a].host)
      PROVE  /\ IsKnown(j)' /\ AgentOf(j)' = a /\ j \notin ran
             /\ phase[j] \in {"idle", "terminating"}
  <2>1. /\ j \in st.apple_pending /\ j \notin st.acknowledged
        /\ st.job[j].host = hb[a].host
    BY <1>6 DEF PendingApple
  <2>2. IsKnown(j)
    BY <2>1 DEF RInv, FInv, Known, IsKnown
  <2>3. hb[a] # IdleBeat
    BY <1>3 DEF IdleBeat
  <2>4. HostOf[a] = st.job[j].host /\ HostOf[AgentOf(j)] = st.job[j].host
    BY <2>1, <2>2, <2>3 DEF BeatM, PeerM, JobIn, MInv, IsKnown, AgentOf
  <2>5. AgentOf(j) = a
    BY <2>2, <2>4, AgentOfType, MeshAssumption
  <2>6. ~Active(j) /\ j \notin ran
    BY <2>1 DEF ActM, RanM, Safe, Acked, MInv
  <2>7. phase[j] # "starting"
    BY <2>3, <2>5 DEF BeatM, MInv
  <2>8. phase[j] \in {"idle", "terminating"}
    BY <2>6, <2>7 DEF MInv, TypeM, Phases, Active, Fencing
  <2> QED BY <1>1, <2>2, <2>5, <2>6, <2>8 DEF Tells, IsKnown, AgentOf
<1>7. WireM'
  <2> SUFFICES ASSUME NEW b \in Agents, NEW j \in Jobs, wire'[b].apple = j
               PROVE  /\ IsKnown(j)' /\ AgentOf(j)' = b /\ Sent(j)' /\ j \notin ran'
                      /\ phase'[j] \in {"idle", "terminating"}
    BY DEF WireM
  <2>1. CASE wire'[b] = wire[b]
    BY <1>0, <1>1, <2>1, WiresStand
  <2>2. CASE wire'[b] # wire[b]
    <3>1. /\ b = a /\ j \in PendingApple(hb[a].host)
          /\ j \in st'.dispatched \cap stDisk'.dispatched
      BY <2>2, DispatchSends
    <3> QED BY <1>0, <1>6, <3>1 DEF Sent
  <2> QED BY <2>1, <2>2
<1>8. ProgM'
  BY <1>0, <1>3, ProgressStands
<1> QED BY <1>2, <1>5, <1>7, <1>8 DEF MInv, ThreadM

LEMMA RegistryAloneKeepsMInv ==
  ASSUME RInv, MInv, RegistryAlone PROVE MInv'
<1>1. /\ UNCHANGED agentVars /\ UNCHANGED <<threadVars, agentCrashes>>
      /\ NothingLast /\ replied' = replied
  BY DEF RegistryAlone, agentVars, NothingLast
<1>2. ASSUME NEW a \in Agents, HeartbeatExpire(a) PROVE MInv'
  <2>1. UNCHANGED <<up, prog, wire>>
    BY <1>2 DEF HeartbeatExpire
  <2>2. \A b \in Agents : hb'[b] # IdleBeat => hb[b] # IdleBeat /\ hb'[b].host = hb[b].host
    <3>1. hb \in [Agents -> Beats] /\ hb[a] # IdleBeat
      BY <1>2 DEF HeartbeatExpire, IdleBeat, RInv, IInv, HandlersOK
    <3>2. hb' = [hb EXCEPT ![a].pc = "dispatch"] \/ hb' = [hb EXCEPT ![a] = IdleBeat]
      BY <1>2 DEF HeartbeatExpire
    <3>3. hb[a].host = [hb[a] EXCEPT !.pc = "dispatch"].host
      BY <3>1 DEF Beats, IdleBeat
    <3> QED BY <3>1, <3>2, <3>3
  <2>3. CASE Jobs # {}
    <3>1. ASSUME NEW j \in Jobs
          PROVE  Tells(j) /\ Guards(j) /\ st' = st /\ book'.writers = book.writers
                 /\ bookDisk' \in {bookDisk, book'}
      BY <1>2, ExpiriesGuard
    <3> QED BY <1>1, <2>1, <2>2, <2>3, <3>1, RegistryStands
  <2>4. CASE Jobs = {}
    <3>1. prog = NoProgress
      BY <2>4 DEF RInv, IInv, ProgressOK
    <3> QED BY <1>1, <2>1, <2>2, <2>4, <3>1, RegistryStands
  <2> QED BY <2>3, <2>4
<1>3. ASSUME NEW r, Run(r) PROVE MInv'
  <2>1. \A j \in Jobs : Tells(j) /\ Guards(j)
    BY <1>3, RunsGuard
  <2>2. /\ prog' = NoProgress /\ wire' = wire
        /\ \A a \in Agents : hb'[a] # IdleBeat => hb'[a] = hb[a]
    BY <1>3, PersistStands DEF Run
  <2> QED BY <1>1, <2>1, <2>2, RegistryStands
<1>4. ASSUME NEW h, NEW l, HostGoesOffline(h) \/ ClockMoves(l) PROVE MInv'
  <2>1. UNCHANGED <<up, book, bookDisk, st, stDisk, hb, prog, wire>>
    BY <1>4 DEF HostGoesOffline, ClockMoves
  <2>2. \A j \in Jobs : Tells(j) /\ Guards(j)
    BY <2>1, GuardsStanding
  <2> QED BY <1>1, <2>1, <2>2, RegistryStands
<1>5. ASSUME Restart PROVE MInv'
  <2>1. UNCHANGED <<hb, prog, wire>> /\ ~up
    BY <1>5 DEF Restart
  <2>2. \A j \in Jobs : Tells(j) /\ Guards(j)
    BY <1>5, RestartGuards
  <2>3. prog = NoProgress
    BY <2>1 DEF MInv, ProgM
  <2> QED BY <1>1, <2>1, <2>2, <2>3, RegistryStands
<1> QED BY <1>1, <1>2, <1>3, <1>4, <1>5, HeartbeatDispatchKeepsMInv, ClientsKeepMInv
        DEF RegistryAlone

\* The handlers, which take a request and may reply.
LEMMA HandlersStand ==
  ASSUME RInv, MInv, UNCHANGED <<threadVars, agentCrashes, wire>>, sent' \subseteq sent,
         replied' \subseteq Jobs,
         \A j \in Jobs : Tells(j) /\ (Active(j) => Guards(j)) /\ Answers(j),
         \A a \in Agents : hb'[a] # IdleBeat => hb'[a] = hb[a],
         ProgM'
  PROVE  MInv'
<1>1. ThreadM'
  <2>1. NothingLast
    BY DEF NothingLast
  <2> QED BY <2>1, ThreadsStand
<1>2. phase' = phase /\ ran' = ran /\ wire' = wire
  BY DEF threadVars
<1>3. BeatM'
  BY <1>2, BeatsStand
<1>4. WireM'
  BY <1>2, WiresStand DEF WireM
<1> QED BY <1>1, <1>3, <1>4 DEF MInv, ThreadM

LEMMA TakeTakes == ASSUME NEW r, Take(r) PROVE r \in sent /\ sent' \subseteq sent
BY DEF Take

LEMMA RegistryCrashKeepsMInv == ASSUME RInv, MInv, RegistryCrash PROVE MInv'
<1>1. /\ UNCHANGED <<threadVars, agentCrashes, wire>> /\ sent' \subseteq sent
      /\ replied' = replied /\ prog' = NoProgress
      /\ \A a \in Agents : hb'[a] = IdleBeat
  BY DEF RegistryCrash, Crash, LoseMemory
<1>2. \A j \in Jobs : Tells(j) /\ Guards(j)
  BY CrashGuards DEF RegistryCrash
<1>3. replied' \subseteq Jobs /\ (\A j \in Jobs : Answers(j)) /\ ProgM'
  BY <1>1 DEF MInv, TypeM, Answers, ProgM
<1> QED BY <1>1, <1>2, <1>3, HandlersStand

LEMMA HandleStartedKeepsMInv ==
  ASSUME RInv, MInv, NEW j \in Jobs, HandleStarted(j) PROVE MInv'
<1>1. PICK accepted \in BOOLEAN : StartedBegin(AgentOf(j), j, accepted)
  BY DEF HandleStarted
<1>2. /\ UNCHANGED <<threadVars, agentCrashes>> /\ sent' \subseteq sent
      /\ replied' = replied /\ UNCHANGED <<up, st, stDisk, hb, wire>>
      /\ up /\ IsKnown(j) /\ j \in st.apple_pending
  BY <1>1, TakeTakes DEF HandleStarted, StartedBegin, Ready, KnownAgent, IsKnown
<1>3. \A k \in Jobs : Tells(k) /\ Guards(k)
  BY <1>1, StartedBeginGuards
<1>4. ProgM'
  <2>1. CASE prog' = NoProgress
    BY <2>1 DEF ProgM
  <2>2. CASE /\ j \notin Mutating
             /\ prog' = [job |-> j, restored |-> FALSE, terminal |-> FALSE]
    BY <1>2, <2>2 DEF ProgM, IsKnown
  <2>3. ASSUME j \in Mutating, accepted, NEW b \in Expire(book, overdue),
               CanWrite(st, b, j), book' = SetWriter(b, DeviceOf[j], j),
               SaveBook(accepted),
               prog' = [job |-> j, terminal |-> FALSE,
                        restored |-> ~Fenced(b, DeviceOf[j])]
        PROVE  ProgM'
    <3>1. GoodBook(b) /\ b.writers = book.writers /\ DeviceOf[j] \in Devices
      BY <2>3, ExpireIsGood, RegistryAssumption DEF RInv, IInv, BooksOK
    <3>2. b.writers \in [Devices -> Jobs \cup {None}]
      BY <3>1 DEF GoodBook, Book
    <3>3. book'.writers = [b.writers EXCEPT ![DeviceOf[j]] = j] /\ bookDisk' = book'
      BY <2>3, <3>1, SetWriterIsGood DEF SaveBook
    <3>4. Writes(j)'
      BY <3>1, <3>2, <3>3 DEF Writes
    <3>5. ~Fenced(b, DeviceOf[j]) => ~Active(j)
      BY <2>3, <3>1, NoneAssumption DEF ActM, MInv, Safe, Writes, Fenced
    <3>6. Active(j)' = Active(j)
      BY <1>2 DEF Active, threadVars
    <3> QED BY <1>2, <2>3, <3>4, <3>5, <3>6 DEF ProgM, IsKnown
  <2> QED BY <1>1, <2>1, <2>2, <2>3 DEF StartedBegin
<1>5. replied' \subseteq Jobs /\ \A k \in Jobs : Answers(k)
  BY <1>2 DEF MInv, TypeM, Answers
<1> QED BY <1>2, <1>3, <1>4, <1>5, HandlersStand

LEMMA HandleTerminalKeepsMInv ==
  ASSUME RInv, MInv, NEW j \in Jobs, HandleTerminal(j) PROVE MInv'
<1>1. PICK k \in Kinds : /\ Take(Request("terminal", j, k))
                         /\ TerminalBegin(AgentOf(j), j, k)
                         /\ UNCHANGED <<threadVars, replied, completing, agentCrashes>>
  BY DEF HandleTerminal
<1>2. /\ UNCHANGED <<threadVars, agentCrashes>> /\ sent' \subseteq sent
      /\ replied' = replied /\ UNCHANGED <<up, stDisk, hb, wire>> /\ up
      /\ prog' = [job |-> j, restored |-> FALSE, terminal |-> TRUE]
  BY <1>1, TakeTakes DEF TerminalBegin, Ready
<1>3. IsKnown(j) /\ ~Active(j)
  <2>1. Request("terminal", j, k) \in sent
    BY <1>1, TakeTakes
  <2> QED BY <2>1 DEF LastM, MInv, Active, Fencing
<1>4. \A i \in Jobs : Tells(i) /\ (Active(i) => Guards(i))
  BY <1>1, <1>3, TerminalBeginTells
<1>5. ProgM'
  <2>1. IsKnown(j)' /\ j \notin st'.apple_pending
    BY <1>1, <1>3, <1>4, TerminalBeginTells DEF Tells, IsKnown
  <2> QED BY <1>2, <2>1 DEF ProgM
<1>6. replied' \subseteq Jobs /\ \A i \in Jobs : Answers(i)
  BY <1>2 DEF MInv, TypeM, Answers
<1> QED BY <1>2, <1>4, <1>5, <1>6, HandlersStand

LEMMA HandleValidateKeepsMInv ==
  ASSUME RInv, MInv, NEW j \in Jobs, HandleValidate(j) PROVE MInv'
<1>1. PICK active \in BOOLEAN :
        /\ ValidateLease(AgentOf(j), j, shown[j], active)
        /\ Replies(j, active /\ phase[j] = "validating")
  BY DEF HandleValidate
<1>2. /\ UNCHANGED <<threadVars, agentCrashes>> /\ sent' \subseteq sent
      /\ UNCHANGED <<hb, wire>> /\ prog' = NoProgress
  BY <1>1, TakeTakes DEF HandleValidate, ValidateLease, LeaseFrame, Ready
<1>3. \A k \in Jobs : Tells(k) /\ Guards(k)
  BY <1>1, ValidateLeaseGuards
<1>4. replied' \subseteq Jobs
  BY <1>1 DEF Replies, MInv, TypeM
<1>5. \A k \in Jobs : Answers(k)
  <2> SUFFICES ASSUME NEW k \in Jobs, k \in replied' \ replied
               PROVE  phase[k] = "validating" /\ (k \in Mutating => Owned(k)')
    BY DEF Answers
  <2>1. k = j /\ active /\ phase[j] = "validating"
    BY <1>1 DEF Replies
  <2>2. PICK saved \in BOOLEAN :
          st' = st /\ SaveBoth(saved) /\ saved /\ st.device_peers[DeviceOf[j]] = AgentOf(j)
    BY <1>1, <2>1 DEF ValidateLease
  <2>3. stDisk' = st
    BY <2>2 DEF SaveBoth
  <2> QED BY <2>1, <2>2, <2>3 DEF Owned, AgentOf
<1>6. ProgM'
  BY <1>2 DEF ProgM
<1> QED BY <1>2, <1>3, <1>4, <1>5, <1>6, HandlersStand

LEMMA HandleCommitKeepsMInv == ASSUME RInv, MInv, HandleCommit PROVE MInv'
<1>1. /\ UNCHANGED <<threadVars, agentCrashes>> /\ sent' = sent
      /\ UNCHANGED <<hb, wire>> /\ prog' = NoProgress /\ prog # NoProgress
  BY DEF HandleCommit, StartedCommit, TerminalCommit
<1>2. PICK k \in Jobs : k = prog.job
  BY <1>1 DEF RInv, IInv, ProgressOK
<1>3. \A success : Replies(k, success) =>
        replied' \subseteq Jobs /\ (\A j \in Jobs : j \in replied' \ replied => j = k /\ success)
  BY <1>2 DEF Replies, MInv, TypeM
<1>4. ProgM'
  BY <1>1 DEF ProgM
<1>5. ASSUME NEW accepted \in BOOLEAN, StartedCommit(accepted),
             Replies(k, accepted /\ phase[k] = "starting")
      PROVE  MInv'
  <2>1. \A j \in Jobs : Tells(j) /\ (Active(j) => Guards(j))
    BY <1>1, <1>2, <1>5, StartedCommitTells DEF ProgM, MInv
  <2>2. ASSUME accepted, phase[k] = "starting" PROVE Safe(k)'
    <3>1. /\ st' = Deduplicated([st EXCEPT !.acknowledged = st.acknowledged \cup {k}],
                                k, 1, "started")
          /\ stDisk' = st' /\ UNCHANGED <<book, bookDisk>>
      BY <1>2, <1>5, <2>2 DEF StartedCommit, SaveState
    <3>2. /\ st'.acknowledged = st.acknowledged \cup {k} /\ st'.dispatched = st.dispatched
          /\ st'.apple_pending = st.apple_pending /\ st'.job = st.job
      BY <3>1 DEF Deduplicated, AddEvent, RInv, IInv, StatesOK, DurableState
    <3>3. /\ IsKnown(k) /\ k \in st.apple_pending /\ (k \in Mutating => Writes(k))
      BY <1>1, <1>2, <1>5 DEF ProgM, MInv, StartedCommit
    <3>4. k \in st.dispatched
      BY <1>2, <2>2 DEF StartM, MInv, Sent
    <3> QED BY <3>1, <3>2, <3>3, <3>4 DEF Safe, IsKnown, Acked, Sent, Writes
  <2>3. replied' \subseteq Jobs /\ \A j \in Jobs : Answers(j)
    BY <1>3, <1>5, <2>2 DEF Answers
  <2> QED BY <1>1, <1>4, <2>1, <2>3, HandlersStand
<1>6. ASSUME NEW accepted \in BOOLEAN, TerminalCommit(accepted),
             Replies(k, accepted /\ phase[k] = "terminating")
      PROVE  MInv'
  <2>1. \A j \in Jobs : Tells(j) /\ Guards(j)
    BY <1>6, TerminalCommitGuards
  <2>2. accepted => k \notin stDisk'.apple_pending
    BY <1>1, <1>2, <1>6 DEF TerminalCommit, ProgM, MInv
  <2>3. replied' \subseteq Jobs /\ \A j \in Jobs : Answers(j)
    BY <1>3, <1>6, <2>2 DEF Answers
  <2> QED BY <1>1, <1>4, <2>1, <2>3, HandlersStand
<1> QED BY <1>2, <1>5, <1>6 DEF HandleCommit

LEMMA CompletesKeepMInv ==
  ASSUME RInv, MInv,
         (\E a \in Agents : HandleComplete(a)) \/ \E r \in Runs : HandleLateComplete(r)
  PROVE  MInv'
<1>1. /\ UNCHANGED <<threadVars, agentCrashes>> /\ sent' \subseteq sent
      /\ replied' = replied /\ (UNCHANGED vars \/ \E r : Complete(r))
  BY TakeTakes DEF HandleComplete, HandleLateComplete
<1>2. replied' \subseteq Jobs /\ \A j \in Jobs : Answers(j)
  BY <1>1 DEF MInv, TypeM, Answers
<1>3. CASE UNCHANGED vars
  <2>1. UNCHANGED <<up, book, bookDisk, st, stDisk, hb, prog, wire>>
    BY <1>3 DEF vars
  <2>2. \A j \in Jobs : Tells(j) /\ Guards(j)
    BY <2>1, GuardsStanding
  <2>3. ProgM'
    BY <1>1, <2>1, ProgressStands DEF threadVars
  <2> QED BY <1>1, <1>2, <2>1, <2>2, <2>3, HandlersStand
<1>4. ASSUME NEW r, Complete(r) PROVE MInv'
  <2>1. \A j \in Jobs : Tells(j) /\ Guards(j)
    BY <1>4, RunsGuard
  <2>2. /\ prog' = NoProgress /\ wire' = wire
        /\ \A a \in Agents : hb'[a] # IdleBeat => hb'[a] = hb[a]
    BY <1>4, PersistStands DEF Complete
  <2>3. ProgM'
    BY <2>2 DEF ProgM
  <2> QED BY <1>1, <1>2, <2>1, <2>2, <2>3, HandlersStand
<1> QED BY <1>1, <1>3, <1>4

LEMMA HeartbeatKeepsMInv ==
  ASSUME RInv, MInv, NEW a \in Agents, Heartbeat(a) PROVE MInv'
<1>1. PICK S \in Inventories[a] : HeartbeatInventory(a, HostOf[a], S)
  BY DEF Heartbeat
<1>2. \A j \in Jobs : Tells(j) /\ Guards(j)
  BY <1>1, HeartbeatInventoryGuards
<1>3. /\ UNCHANGED <<threadVars, agentCrashes>> /\ NothingLast /\ replied' = replied
      /\ wire' = wire /\ wire[a] = ErrorResponse /\ prog' = NoProgress
      /\ \A j \in Jobs : phase[j] = "starting" => AgentOf(j) # a
  BY <1>1 DEF Heartbeat, HeartbeatInventory, Ready, agentVars, NothingLast, LoopIsFree
<1>4. phase' = phase /\ ran' = ran
  BY <1>3 DEF threadVars
<1>5. ThreadM'
  <2>1. replied' \subseteq Jobs /\ \A j \in Jobs : Answers(j)
    BY <1>3 DEF Answers, MInv, TypeM
  <2> QED BY <1>2, <1>3, <2>1, ThreadsStand
<1>6. BeatM'
  <2>1. \A j \in Jobs : phase[j] = "starting" => AgentOf(j)' = AgentOf(j)
    BY <1>2 DEF StartM, MInv, Tells, AgentOf
  <2>2. hb' = hb \/ hb' = [hb EXCEPT ![a] = [pc |-> "expire", host |-> HostOf[a],
                                            devices |-> S]]
    BY <1>1 DEF HeartbeatInventory
  <2>3. hb \in [Agents -> Beats]
    BY DEF RInv, IInv, HandlersOK
  <2>4. \A b \in Agents : hb'[b] # IdleBeat =>
          \/ hb[b] # IdleBeat /\ hb'[b] = hb[b]
          \/ b = a /\ hb'[b].host = HostOf[a]
    BY <2>2, <2>3
  <2> QED BY <1>3, <1>4, <2>1, <2>4 DEF BeatM, MInv
<1>7. WireM'
  BY <1>2, <1>3, <1>4, WiresStand DEF WireM
<1>8. ProgM'
  BY <1>3 DEF ProgM
<1> QED BY <1>5, <1>6, <1>7, <1>8 DEF MInv, ThreadM

-----------------------------------------------------------------------------
(***************************************************************************)
(* Steps of the agents, which leave the registry as it is.                  *)
(***************************************************************************)

\* What a step of its agent may do to j.
Moved(j) ==
  /\ phase'[j] \in Phases
  /\ phase'[j] # "idle" => IsKnown(j)
  /\ phase'[j] = "starting" =>
       phase[j] = "starting" \/ (Sent(j) /\ hb[AgentOf(j)] = IdleBeat)
  /\ Active(j)' => Active(j)
  /\ j \in Mutating /\ (phase'[j] = "executing"
                        \/ (phase'[j] = "validating" /\ j \in replied')) => Owned(j)
  /\ j \in ran' => /\ IsKnown(j) /\ Acked(j)
                   /\ phase'[j] \in {"idle", "executing", "terminating"}
  /\ \A a \in Agents : wire'[a].apple = j =>
       j \notin ran' /\ phase'[j] \in {"idle", "terminating"}
  /\ (\E k \in Kinds : Request("terminal", j, k) \in sent') =>
       /\ IsKnown(j)
       /\ \/ phase'[j] = "terminating"
          \/ /\ phase'[j] \in {"idle", "starting"} /\ ~Active(j)'
             /\ j \notin stDisk.apple_pending
  /\ phase'[j] = "terminating" /\ j \in replied' => j \notin stDisk.apple_pending
  /\ agentCrashes' = 0 /\ j \in ran' /\ phase'[j] = "idle" =>
       j \notin stDisk.apple_pending

RegistryRests == UNCHANGED <<up, book, bookDisk, st, stDisk, hb, prog>>

WiresShrink == \A a \in Agents : /\ wire'[a].apple \in {None, wire[a].apple}
                                 /\ hb[a] # IdleBeat => wire'[a] = wire[a]

LEMMA AgentsMove ==
  ASSUME RInv, MInv, RegistryRests, WiresShrink,
         phase' = [j \in Jobs |-> phase'[j]],
         replied' \subseteq Jobs, ran' \subseteq Jobs, agentCrashes' \in Nat,
         \A j \in Jobs : Moved(j)
  PROVE  MInv'
<1>1. \A j \in Jobs : /\ IsKnown(j)' = IsKnown(j) /\ Sent(j)' = Sent(j)
                      /\ Acked(j)' = Acked(j) /\ Safe(j)' = Safe(j)
                      /\ Owned(j)' = Owned(j) /\ AgentOf(j)' = AgentOf(j)
                      /\ Writes(j)' = Writes(j)
  BY DEF RegistryRests, IsKnown, Sent, Acked, Safe, Owned, AgentOf, Writes
<1>2. TypeM'
  BY DEF TypeM, Moved
<1>3. PeerM'
  BY DEF RegistryRests, PeerM, PeersIn, JobIn, MInv
<1>4. BeatM'
  BY <1>1 DEF RegistryRests, WiresShrink, BeatM, MInv, Moved
<1>5. WireM'
  <2> SUFFICES ASSUME NEW a \in Agents, NEW j \in Jobs, wire'[a].apple = j
               PROVE  /\ IsKnown(j) /\ AgentOf(j) = a /\ Sent(j) /\ j \notin ran'
                      /\ phase'[j] \in {"idle", "terminating"}
    BY <1>1 DEF WireM
  <2>1. wire[a].apple = j
    BY NoneAssumption DEF WiresShrink
  <2> QED BY <2>1 DEF WireM, MInv, Moved
<1>6. StartM'
  BY <1>1 DEF StartM, MInv, Moved
<1>7. ActM'
  BY <1>1 DEF ActM, MInv, Moved
<1>8. OwnM'
  BY <1>1, RegistryAssumption DEF OwnM, Moved
<1>9. RanM'
  BY <1>1 DEF RanM, Moved
<1>10. ProgM'
  <2>1. prog # NoProgress => prog.job \in Jobs
    BY DEF RInv, IInv, ProgressOK
  <2> QED BY <1>1, <2>1 DEF RegistryRests, ProgM, MInv, Moved
<1>11. LastM'
  BY <1>1 DEF LastM, Moved, RegistryRests
<1>12. EndM'
  BY DEF EndM, Moved, RegistryRests
<1> QED BY <1>2, <1>3, <1>4, <1>5, <1>6, <1>7, <1>8, <1>9, <1>10, <1>11, <1>12 DEF MInv

\* A job that is left alone.
LEMMA StaysIsMoved ==
  ASSUME RInv, MInv, WiresShrink, NEW j \in Jobs, phase'[j] = phase[j],
         j \in replied' => j \in replied, j \in ran' <=> j \in ran,
         \A k \in Kinds : Request("terminal", j, k) \in sent' =>
                            Request("terminal", j, k) \in sent,
         agentCrashes' \in {agentCrashes, agentCrashes + 1}
  PROVE  Moved(j)
<1>1. Active(j)' => Active(j)
  BY DEF Active
<1>2. \A a \in Agents : wire'[a].apple = j => wire[a].apple = j
  BY NoneAssumption DEF WiresShrink
<1>3. agentCrashes' = 0 => agentCrashes = 0
  BY DEF MInv, TypeM
<1> QED BY <1>1, <1>2, <1>3, RegistryAssumption
        DEF Moved, MInv, TypeM, StartM, OwnM, RanM, WireM, LastM, EndM

LEMMA LoopsKeepMInv ==
  ASSUME RInv, MInv, NEW a \in Agents,
         \/ ReadReply(a) \/ ReplyDone(a) \/ ReplyLost(a)
         \/ CompleteAgain(a) \/ CompleteGivesUp(a)
  PROVE  MInv'
<1>1. wire \in [Agents -> WireType]
  BY DEF RInv, IInv, HandlersOK
<1>2. RegistryRests
  BY DEF RegistryRests, ReadReply, ReplyDone, ReplyLost, ReplyTaken, CompleteAgain,
         CompleteGivesUp, vars
<1>3. phase' = phase /\ ran' = ran /\ replied' = replied /\ agentCrashes' = agentCrashes
  BY DEF ReadReply, ReplyDone, ReplyLost, CompleteAgain, CompleteGivesUp, agentVars,
         threadVars
<1>4. \A j \in Jobs, k \in Kinds :
        Request("terminal", j, k) \in sent' => Request("terminal", j, k) \in sent
  BY DEF ReadReply, ReplyDone, ReplyLost, CompleteAgain, CompleteGivesUp, agentVars,
         Request
<1>5. WiresShrink
  <2>1. wire[a] # ErrorResponse => hb[a] = IdleBeat
    BY DEF BeatM, MInv
  <2>2. CASE wire' = wire
    BY <2>2 DEF WiresShrink
  <2>3. CASE wire' = [wire EXCEPT ![a] = ErrorResponse] /\ wire[a] # ErrorResponse
    BY <1>1, <2>1, <2>3 DEF WiresShrink, ErrorResponse, Response
  <2>4. CASE ReadReply(a)
    <3>1. wire[a] # ErrorResponse
      BY <2>4 DEF ReadReply, ErrorResponse, Response
    <3>2. /\ wire' = [wire EXCEPT ![a] = [[wire[a] EXCEPT !.cancel = {}] EXCEPT !.run = None]]
          /\ [[wire[a] EXCEPT !.cancel = {}] EXCEPT !.run = None].apple = wire[a].apple
      BY <1>1, <2>4 DEF ReadReply, WireType
    <3> QED BY <1>1, <2>1, <3>1, <3>2 DEF WiresShrink
  <2> QED BY <2>2, <2>3, <2>4 DEF ReplyDone, ReplyLost, ReplyTaken, CompleteAgain,
                                  CompleteGivesUp, vars
<1>6. \A j \in Jobs : Moved(j)
  BY <1>3, <1>4, <1>5, StaysIsMoved
<1> QED BY <1>2, <1>3, <1>5, <1>6, AgentsMove DEF MInv, TypeM

LEMMA StartJobKeepsMInv ==
  ASSUME RInv, MInv, NEW a \in Agents, StartJob(a) PROVE MInv'
<1> DEFINE j == wire[a].apple
<1>1. wire \in [Agents -> WireType]
  BY DEF RInv, IInv, HandlersOK
<1>2. j \in Jobs /\ phase[j] = "idle"
  BY <1>1 DEF StartJob, Startable, Running, WireType
<1>3. IsKnown(j) /\ AgentOf(j) = a /\ Sent(j) /\ j \notin ran
  BY <1>2 DEF WireM, MInv
<1>4. hb[a] = IdleBeat
  BY <1>2, NoneAssumption DEF BeatM, MInv, ErrorResponse, Response
<1>5. /\ phase' = [phase EXCEPT ![j] = "starting"]
      /\ replied' = replied \ {j} /\ ran' = ran /\ agentCrashes' = agentCrashes
      /\ sent' = sent \cup {Request("started", j, None)}
      /\ wire' = [wire EXCEPT ![a] = ErrorResponse]
  BY DEF StartJob
<1>6. RegistryRests
  BY DEF StartJob, RegistryRests
<1>7. WiresShrink
  BY <1>1, <1>4, <1>5 DEF WiresShrink, ErrorResponse, Response
<1>8. \A i \in Jobs, k \in Kinds :
        Request("terminal", i, k) \in sent' => Request("terminal", i, k) \in sent
  BY <1>5 DEF Request
<1>9. phase \in [Jobs -> Phases] /\ replied \subseteq Jobs
  BY DEF MInv, TypeM
<1>10. ASSUME NEW i \in Jobs, i # j PROVE Moved(i)
  BY <1>5, <1>7, <1>8, <1>9, <1>10, StaysIsMoved
<1>11. ASSUME NEW i \in Jobs, i = j PROVE Moved(i)
  <2>1. phase'[i] = "starting" /\ i \notin replied'
    BY <1>2, <1>5, <1>9, <1>11
  <2>2. ~Active(i)'
    BY <2>1 DEF Active, Fencing
  <2>3. \A b \in Agents : wire'[b].apple # i
    <3>1. ASSUME NEW b \in Agents, wire'[b].apple = i PROVE FALSE
      <4>1. wire[b].apple = i
        BY <1>2, <1>7, <1>11, <3>1, NoneAssumption DEF WiresShrink
      <4>2. b = a
        BY <1>3, <1>11, <4>1 DEF WireM, MInv
      <4> QED BY <1>1, <1>2, <1>5, <1>11, <3>1, <4>2, NoneAssumption
              DEF ErrorResponse, Response
    <3> QED BY <3>1
  <2>4. \A k \in Kinds : Request("terminal", i, k) \in sent' =>
                           i \notin stDisk.apple_pending
    BY <1>2, <1>8, <1>11 DEF LastM, MInv
  <2> QED BY <1>3, <1>4, <1>5, <1>11, <2>1, <2>2, <2>3, <2>4 DEF Moved, Phases
<1>12. \A i \in Jobs : Moved(i)
  BY <1>10, <1>11
<1> QED BY <1>5, <1>6, <1>7, <1>9, <1>12, AgentsMove DEF MInv, TypeM

LEMMA AgentCrashKeepsMInv ==
  ASSUME RInv, MInv, NEW a \in Agents, AgentCrash(a) PROVE MInv'
<1> DEFINE lost == {j \in Running : AgentOf(j) = a}
<1>1. /\ phase' = [j \in Jobs |-> IF j \in lost THEN "idle" ELSE phase[j]]
      /\ replied' = replied \ lost /\ sent' = {r \in sent : r.job \notin lost}
      /\ wire' = [wire EXCEPT ![a] = ErrorResponse] /\ hb[a] = IdleBeat
      /\ ran' = ran /\ agentCrashes' = agentCrashes + 1
  BY DEF AgentCrash
<1>2. RegistryRests
  BY DEF AgentCrash, RegistryRests
<1>3. wire \in [Agents -> WireType]
  BY DEF RInv, IInv, HandlersOK
<1>4. WiresShrink
  BY <1>1, <1>3 DEF WiresShrink, ErrorResponse, Response
<1>5. phase \in [Jobs -> Phases] /\ replied \subseteq Jobs /\ agentCrashes \in Nat
  BY DEF MInv, TypeM
<1> HIDE DEF lost
<1>6. ASSUME NEW j \in Jobs, j \notin lost PROVE Moved(j)
  BY <1>1, <1>4, <1>5, <1>6, StaysIsMoved
<1>7. ASSUME NEW j \in Jobs, j \in lost PROVE Moved(j)
  <2>1. phase'[j] = "idle" /\ j \notin replied' /\ ~Active(j)'
    BY <1>1, <1>7 DEF Active, Fencing
  <2>2. \A k \in Kinds : Request("terminal", j, k) \notin sent'
    BY <1>1, <1>7 DEF Request
  <2>3. \A b \in Agents : wire'[b].apple = j => j \notin ran
    BY <1>4, NoneAssumption DEF WiresShrink, WireM, MInv
  <2>4. j \in ran => IsKnown(j) /\ Acked(j)
    BY DEF RanM, MInv
  <2> QED BY <1>1, <1>5, <2>1, <2>2, <2>3, <2>4 DEF Moved, Phases
<1>8. \A j \in Jobs : Moved(j)
  BY <1>6, <1>7
<1>9. replied' \subseteq Jobs /\ ran' \subseteq Jobs /\ agentCrashes' \in Nat
      /\ phase' = [j \in Jobs |-> phase'[j]]
  BY <1>1, <1>5 DEF MInv, TypeM
<1> QED BY <1>2, <1>4, <1>8, <1>9, AgentsMove

\* A step of j's thread leaves the other jobs alone.
LEMMA ThreadMoves ==
  ASSUME RInv, MInv, NEW j \in Jobs, UNCHANGED vars, agentCrashes' = agentCrashes,
         NEW p, phase' = [phase EXCEPT ![j] = p], replied' = replied \ {j},
         ran' \in {ran, ran \cup {j}},
         \A i \in Jobs \ {j}, k \in Kinds :
           Request("terminal", i, k) \in sent' => Request("terminal", i, k) \in sent,
         Moved(j)
  PROVE  MInv'
<1>1. RegistryRests /\ WiresShrink
  BY DEF vars, RegistryRests, WiresShrink
<1>2. phase \in [Jobs -> Phases] /\ replied \subseteq Jobs /\ ran \subseteq Jobs
      /\ agentCrashes \in Nat
  BY DEF MInv, TypeM
<1>3. ASSUME NEW i \in Jobs, i # j PROVE Moved(i)
  <2>1. /\ phase'[i] = phase[i] /\ (i \in replied' => i \in replied)
        /\ i \in ran' <=> i \in ran
    BY <1>2, <1>3
  <2>2. \A k \in Kinds : Request("terminal", i, k) \in sent' =>
                           Request("terminal", i, k) \in sent
    BY <1>3
  <2> QED BY <1>1, <2>1, <2>2, StaysIsMoved
<1>4. \A i \in Jobs : Moved(i)
  BY <1>3
<1>5. /\ phase' = [i \in Jobs |-> phase'[i]] /\ replied' \subseteq Jobs
      /\ ran' \subseteq Jobs
  BY <1>2
<1> QED BY <1>1, <1>2, <1>4, <1>5, AgentsMove

\* A job whose thread is between its start and its end is not on its way to be
\* started, its last event is not in the network and, unless its tool runs, its
\* tool never ran.
LEMMA InFlight ==
  ASSUME MInv, NEW j \in Jobs,
         phase[j] \in {"waiting", "validating", "executing"}
         \/ (phase[j] = "starting" /\ j \in replied)
  PROVE  /\ IsKnown(j) /\ Active(j) /\ Safe(j)
         /\ \A k \in Kinds : Request("terminal", j, k) \notin sent
BY DEF MInv, StartM, ActM, LastM, Active, Fencing

LEMMA NotOnTheWire ==
  ASSUME MInv, NEW j \in Jobs, phase[j] \notin {"idle", "terminating"}
  PROVE  /\ \A a \in Agents : wire[a].apple # j
         /\ phase[j] # "executing" => j \notin ran
BY DEF MInv, WireM, RanM

LEMMA EndsKeepsMInv ==
  ASSUME RInv, MInv, NEW j \in Jobs, NEW k,
         NEW from \in {"starting", "validating", "executing"}, Ends(j, from, k)
  PROVE  MInv'
<1>1. /\ UNCHANGED vars /\ agentCrashes' = agentCrashes /\ ran' = ran
      /\ phase[j] = from /\ phase' = [phase EXCEPT ![j] = "terminating"]
      /\ replied' = replied \ {j}
      /\ \E last : sent' = sent \cup {Request("terminal", j, last)}
  BY DEF Ends, Moves
<1>2. phase'[j] = "terminating" /\ j \notin replied'
  BY <1>1 DEF MInv, TypeM
<1>3. ~Active(j)' /\ IsKnown(j)
  BY <1>1, <1>2 DEF Active, Fencing, MInv, StartM
<1>4. wire' = wire
  BY <1>1 DEF vars
<1>5. j \in ran => IsKnown(j) /\ Acked(j)
  BY DEF MInv, RanM
<1>6. Moved(j)
  BY <1>1, <1>2, <1>3, <1>4, <1>5, NotOnTheWire DEF Moved, Phases
<1>7. \A i \in Jobs \ {j}, l \in Kinds :
        Request("terminal", i, l) \in sent' => Request("terminal", i, l) \in sent
  BY <1>1 DEF Request
<1> QED BY <1>1, <1>6, <1>7, ThreadMoves

LEMMA MovesKeepsMInv ==
  ASSUME RInv, MInv, NEW j \in Jobs,
         \/ Moves(j, "starting", "waiting") /\ j \in replied /\ UNCHANGED <<sent, ran>>
         \/ BeginValidation(j) \/ Execute(j) \/ EndAcknowledged(j)
  PROVE  MInv'
<1>0. phase \in [Jobs -> Phases] /\ j \notin replied \ {j}
  BY DEF MInv, TypeM
<1>1. CASE Moves(j, "starting", "waiting") /\ j \in replied /\ UNCHANGED <<sent, ran>>
  <2>1. /\ UNCHANGED vars /\ agentCrashes' = agentCrashes /\ replied' = replied \ {j}
        /\ phase[j] = "starting" /\ phase' = [phase EXCEPT ![j] = "waiting"]
        /\ phase'[j] = "waiting" /\ wire' = wire
    BY <1>0, <1>1 DEF Moves, vars
  <2>2. Moved(j)
    BY <1>0, <1>1, <2>1, InFlight, NotOnTheWire DEF Moved, Phases
  <2> QED BY <1>1, <2>1, <2>2, ThreadMoves
<1>2. CASE BeginValidation(j)
  <2>1. /\ UNCHANGED vars /\ agentCrashes' = agentCrashes /\ replied' = replied \ {j}
        /\ phase[j] = "waiting" /\ phase' = [phase EXCEPT ![j] = "validating"]
        /\ phase'[j] = "validating" /\ wire' = wire /\ ran' = ran
    BY <1>0, <1>2 DEF BeginValidation, Moves, vars
  <2>2. \A i \in Jobs, k \in Kinds :
          Request("terminal", i, k) \in sent' => Request("terminal", i, k) \in sent
    BY <1>2 DEF BeginValidation, Request
  <2>3. Moved(j)
    BY <1>0, <2>1, <2>2, InFlight, NotOnTheWire DEF Moved, Phases
  <2> QED BY <2>1, <2>2, <2>3, ThreadMoves
<1>3. CASE Execute(j)
  <2>1. /\ UNCHANGED vars /\ agentCrashes' = agentCrashes /\ replied' = replied \ {j}
        /\ phase[j] \in {"waiting", "validating"}
        /\ phase' = [phase EXCEPT ![j] = "executing"]
        /\ phase'[j] = "executing" /\ wire' = wire /\ ran' = ran \cup {j} /\ sent' = sent
    BY <1>0, <1>3 DEF Execute, Moves, vars
  <2>2. j \in Mutating => Owned(j)
    BY <1>3 DEF Execute, Moves, MInv, OwnM
  <2>3. IsKnown(j) /\ Acked(j) /\ Active(j)
    BY <2>1, InFlight DEF Safe
  <2>4. Moved(j)
    BY <1>0, <2>1, <2>2, <2>3, InFlight, NotOnTheWire DEF Moved, Phases
  <2> QED BY <2>1, <2>4, ThreadMoves
<1>4. CASE EndAcknowledged(j)
  <2>1. /\ UNCHANGED vars /\ agentCrashes' = agentCrashes /\ replied' = replied \ {j}
        /\ phase[j] = "terminating" /\ phase' = [phase EXCEPT ![j] = "idle"]
        /\ phase'[j] = "idle" /\ wire' = wire /\ ran' = ran /\ sent' = sent
        /\ j \in replied
    BY <1>0, <1>4 DEF EndAcknowledged, Moves, vars
  <2>2. j \notin stDisk.apple_pending
    BY <2>1 DEF MInv, EndM
  <2>3. ~Active(j)'
    BY <2>1 DEF Active, Fencing
  <2>4. /\ j \in ran => IsKnown(j) /\ Acked(j)
        /\ \A a \in Agents : wire[a].apple = j => j \notin ran
        /\ (\E k \in Kinds : Request("terminal", j, k) \in sent) => IsKnown(j)
    BY DEF MInv, RanM, WireM, LastM
  <2>5. Moved(j)
    BY <1>0, <2>1, <2>2, <2>3, <2>4 DEF Moved, Phases
  <2> QED BY <2>1, <2>5, ThreadMoves
<1> QED BY <1>1, <1>2, <1>3, <1>4

LEMMA ResendKeepsMInv ==
  ASSUME RInv, MInv, NEW j \in Jobs, Resend(j) PROVE MInv'
<1>1. /\ UNCHANGED vars /\ agentCrashes' = agentCrashes /\ replied' = replied
      /\ phase' = phase /\ ran' = ran /\ wire' = wire
  BY DEF Resend, threadVars, vars
<1>2. RegistryRests /\ WiresShrink
  BY <1>1 DEF vars, RegistryRests, WiresShrink
<1>3. ASSUME NEW i \in Jobs, NEW k \in Kinds, Request("terminal", i, k) \in sent',
             Request("terminal", i, k) \notin sent
      PROVE  i = j /\ phase[i] = "terminating"
  BY <1>3 DEF Resend, Outstanding, Request
<1>4. ASSUME NEW i \in Jobs PROVE Moved(i)
  <2>1. CASE i # j \/ phase[i] # "terminating"
    BY <1>1, <1>2, <1>3, <2>1, StaysIsMoved DEF MInv, TypeM
  <2>2. CASE phase[i] = "terminating"
    <3>1. IsKnown(i)
      BY <2>2 DEF MInv, StartM
    <3> QED BY <1>1, <2>2, <3>1
            DEF Moved, MInv, TypeM, WireM, RanM, EndM, Active, Fencing, Phases
  <2> QED BY <2>1, <2>2
<1> QED BY <1>1, <1>2, <1>4, AgentsMove DEF MInv, TypeM

LEMMA ThreadStepKeepsMInv ==
  ASSUME RInv, MInv, NEW j \in Jobs, ThreadStep(j) PROVE MInv'
<1>1. CASE StartGivesUp(j) \/ ValidationFails(j) \/ Finish(j)
  BY <1>1, EndsKeepsMInv DEF StartGivesUp, ValidationFails, Finish
<1>2. CASE StartAcknowledged(j)
  BY <1>2, EndsKeepsMInv, MovesKeepsMInv DEF StartAcknowledged
<1>3. CASE BeginValidation(j) \/ Execute(j) \/ EndAcknowledged(j)
  BY <1>3, MovesKeepsMInv
<1> QED BY <1>1, <1>2, <1>3, ResendKeepsMInv DEF ThreadStep

-----------------------------------------------------------------------------
(***************************************************************************)
(* MInv holds in every state.                                               *)
(***************************************************************************)
LEMMA MeshKeepsMInv == RInv /\ MInv /\ [MeshNext]_meshVars => MInv'
<1> SUFFICES ASSUME RInv, MInv, [MeshNext]_meshVars PROVE MInv'
  OBVIOUS
<1>1. ASSUME NEW a \in Agents, LoopStep(a) \/ AgentCrash(a) PROVE MInv'
  BY <1>1, HeartbeatKeepsMInv, LoopsKeepMInv, StartJobKeepsMInv, AgentCrashKeepsMInv
     DEF LoopStep
<1>2. ASSUME NEW j \in Jobs, ThreadStep(j) PROVE MInv'
  BY <1>2, ThreadStepKeepsMInv
<1>3. CASE Handle
  BY <1>3, HandleStartedKeepsMInv, HandleTerminalKeepsMInv, HandleValidateKeepsMInv,
     HandleCommitKeepsMInv, CompletesKeepMInv DEF Handle
<1>4. CASE UNCHANGED meshVars
  <2>1. RegistryRests /\ WiresShrink
    BY <1>4 DEF meshVars, vars, RegistryRests, WiresShrink
  <2>2. /\ phase' = phase /\ ran' = ran /\ replied' = replied /\ sent' = sent
        /\ agentCrashes' = agentCrashes
    BY <1>4 DEF meshVars, agentVars, threadVars
  <2>3. \A j \in Jobs : Moved(j)
    BY <2>1, <2>2, StaysIsMoved
  <2> QED BY <2>1, <2>2, <2>3, AgentsMove DEF MInv, TypeM
<1> QED BY <1>1, <1>2, <1>3, <1>4, RegistryAloneKeepsMInv, RegistryCrashKeepsMInv
        DEF MeshNext

LEMMA MeshInitHolds == MeshInit => RInv /\ MInv
<1> SUFFICES ASSUME MeshInit PROVE RInv /\ MInv
  OBVIOUS
<1>1. Init
  BY DEF MeshInit
<1>2. RInv
  <2>1. Durable
    BY <1>1 DEF Init, Durable, Kept
  <2> QED BY <1>1, <2>1, IInvHoldsInitially, FInvHoldsInitially DEF RInv
<1>3. /\ phase = [j \in Jobs |-> "idle"] /\ sent = {} /\ replied = {} /\ ran = {}
      /\ agentCrashes = 0 /\ \A a \in Agents : wire[a].apple = None
      /\ \A a \in Agents : hb[a] = IdleBeat
      /\ prog = NoProgress /\ st = EmptyState /\ stDisk = EmptyState
  BY <1>1 DEF MeshInit, Init, ErrorResponse, Response
<1>4. PeerM
  BY <1>3 DEF PeerM, PeersIn, JobIn, EmptyState
<1>5. TypeM /\ BeatM /\ StartM /\ RanM /\ ProgM
  BY <1>3 DEF TypeM, Phases, BeatM, StartM, RanM, ProgM
<1>6. ActM /\ OwnM
  BY <1>3, RegistryAssumption DEF ActM, OwnM, Active, Fencing
<1>7. WireM /\ LastM /\ EndM
  BY <1>3, NoneAssumption DEF WireM, LastM, EndM
<1> QED BY <1>2, <1>4, <1>5, <1>6, <1>7 DEF MInv

LEMMA MeshInvariantsHold == MeshSpec => [](RInv /\ MInv)
<1>1. RInv /\ MInv /\ [MeshNext]_meshVars => (RInv /\ MInv)'
  BY MeshKeepsRInv, MeshKeepsMInv
<1> QED BY <1>1, MeshInitHolds, PTL DEF MeshSpec

\* A job that its device's tool is running, or that is on its way to it, is its
\* device's writer and holds the lease it named, in both copies of both files.
LEMMA ActiveIsFenced ==
  ASSUME RInv, MInv, NEW j \in Mutating, Active(j)
  PROVE  /\ j \in Jobs /\ DeviceOf[j] \in Devices /\ IsKnown(j)
         /\ bookDisk.writers[DeviceOf[j]] = j /\ HoldsLease(stDisk, bookDisk, j)
         /\ book.writers[DeviceOf[j]] = j     /\ HoldsLease(st, book, j)
         /\ Leased(book, DeviceOf[j])
<1>1. j \in Jobs /\ DeviceOf[j] \in Devices /\ j # None
  BY RegistryAssumption, NoneAssumption
<1>2. Safe(j) /\ Writes(j)
  BY <1>1 DEF MInv, ActM, Safe
<1>3. Fenced(book, DeviceOf[j]) /\ Fenced(bookDisk, DeviceOf[j])
  BY <1>1, <1>2 DEF Writes, Fenced
<1>4. /\ Guarded(book, st) /\ Guarded(bookDisk, st) /\ stDisk.job = st.job
  BY DEF RInv, FInv
<1>5. HoldsLease(st, book, j) /\ HoldsLease(st, bookDisk, j) /\ Leased(book, DeviceOf[j])
  BY <1>1, <1>2, <1>3, <1>4 DEF Guarded, Writes
<1> QED BY <1>1, <1>2, <1>4, <1>5 DEF Writes, Safe, HoldsLease, LeaseOf

\* From the moment an agent has its start acknowledged until its tool has ended,
\* a mutating job is the writer of its device under the lease that it named, in
\* memory and in the files, whatever the registry, its clients, the other agents,
\* the network and the clock do (mesh-agent's device_writers, AppleProgress and
\* reconcile_runtime_state).
THEOREM AgentsExecuteFenced == MeshSpec => []ExecutingIsFenced
<1>1. RInv /\ MInv => ExecutingIsFenced
  <2> SUFFICES ASSUME RInv, MInv, NEW j \in Mutating, phase[j] \in Fencing
               PROVE  /\ bookDisk.writers[DeviceOf[j]] = j
                      /\ HoldsLease(stDisk, bookDisk, j)
                      /\ book.writers[DeviceOf[j]] = j
                      /\ HoldsLease(st, book, j)
    BY DEF ExecutingIsFenced
  <2>1. Active(j)
    BY DEF Active
  <2> QED BY <2>1, ActiveIsFenced
<1> QED BY <1>1, MeshInvariantsHold, PTL

\* While a tool runs, its agent stays the owner of the device (device_peers and
\* pending_detach).
THEOREM AgentsExecuteOwned == MeshSpec => []ExecutingIsOwned
<1>1. MInv => ExecutingIsOwned
  BY DEF MInv, OwnM, Owned, ExecutingIsOwned
<1> QED BY <1>1, MeshInvariantsHold, PTL

\* As long as no agent dies, a job whose tool was started leaves its agent's
\* hands only when the file says that it is over (run_apple_job's last event).
THEOREM AgentsForgetWhatIsOver == MeshSpec => []EndIsDurable
<1>1. MInv => EndIsDurable
  BY DEF MInv, EndM, TypeM, EndIsDurable
<1> QED BY <1>1, MeshInvariantsHold, PTL

-----------------------------------------------------------------------------
(***************************************************************************)
(* Registry and agents implement ExclusiveDevice.                           *)
(***************************************************************************)

\* What is known of a job never changes.
LEMMA JobsStayKnown ==
  ASSUME RInv, MeshNext, NEW j \in Jobs, IsKnown(j)
  PROVE  st'.job[j] = st.job[j]
<1>1. SUFFICES Tells(j) \/ st' = st
  BY DEF Tells
<1>2. ASSUME NEW a \in Agents, LoopStep(a) \/ AgentCrash(a) PROVE Tells(j) \/ st' = st
  BY <1>2, HeartbeatInventoryGuards
     DEF LoopStep, Heartbeat, ReadReply, StartJob, ReplyDone, ReplyLost, ReplyTaken,
         CompleteAgain, CompleteGivesUp, AgentCrash, vars
<1>3. ASSUME NEW k \in Jobs, ThreadStep(k) PROVE st' = st
  BY <1>3 DEF ThreadStep, StartAcknowledged, StartGivesUp, BeginValidation, Execute,
              ValidationFails, Finish, EndAcknowledged, Resend, Ends, Moves, vars
<1>4. CASE Handle
  <2>1. ASSUME NEW k \in Jobs, HandleStarted(k) PROVE Tells(j)
    BY <2>1, StartedBeginGuards DEF HandleStarted
  <2>2. ASSUME NEW k \in Jobs, HandleTerminal(k) PROVE Tells(j)
    BY <2>2, TerminalBeginTells DEF HandleTerminal
  <2>3. ASSUME NEW k \in Jobs, HandleValidate(k) PROVE Tells(j)
    BY <2>3, ValidateLeaseGuards DEF HandleValidate
  <2>4. ASSUME HandleCommit PROVE Tells(j)
    BY <2>4, StartedCommitTells, TerminalCommitGuards DEF HandleCommit
  <2>5. ASSUME \/ \E a \in Agents : HandleComplete(a)
               \/ \E r \in Runs : HandleLateComplete(r)
        PROVE  Tells(j) \/ st' = st
    BY <2>5, RunsGuard DEF HandleComplete, HandleLateComplete, vars
  <2> QED BY <1>4, <2>1, <2>2, <2>3, <2>4, <2>5 DEF Handle
<1>5. CASE RegistryAlone
  <2>1. ASSUME NEW c \in Clients, ClientRequest(c) PROVE Tells(j)
    <3>1. CASE \E k \in Jobs, l \in LeaseIds \cup {0} :
                 AppleRunCheck(c, k, l) \/ AppleRunSubmit(c, k, l)
      BY <3>1, ExpiriesGuard, AppleRunSubmitGuards
    <3>2. CASE \E k \in Jobs : AppleCancel(c, k)
      BY <3>2, AppleCancelGuards
    <3> QED BY <2>1, <3>1, <3>2, LeasesGuard
  <2>2. ASSUME NEW h, NEW l, HostGoesOffline(h) \/ ClockMoves(l) PROVE st' = st
    BY <2>2 DEF HostGoesOffline, ClockMoves
  <2> QED BY <1>5, <2>1, <2>2, ExpiriesGuard, HeartbeatDispatchGuards, RunsGuard,
             RestartGuards DEF RegistryAlone
<1>6. CASE RegistryCrash
  BY <1>6, CrashGuards DEF RegistryCrash
<1> QED BY <1>2, <1>3, <1>4, <1>5, <1>6 DEF MeshNext

\* At most one tool changes a device, under the lease the device belongs to.
OneTool(d) ==
  /\ RunningTools[d] = IF ToolsOn(d) = {} THEN [job |-> None, lease |-> None]
                       ELSE [job |-> book.writers[d], lease |-> book.active[d]]
  /\ \A j \in ToolsOn(d) : /\ j \in Mutating /\ j = book.writers[d] /\ IsKnown(j)
                           /\ Leased(book, d) /\ book.active[d] = LeaseOf(st, j)

OneTools == \A d \in Devices : OneTool(d)

LEMMA OneToolRuns == RInv /\ MInv => OneTools
<1> SUFFICES ASSUME RInv, MInv, NEW d \in Devices PROVE OneTool(d)
  BY DEF OneTools
<1>1. \A j \in ToolsOn(d) : /\ j \in Mutating /\ j = book.writers[d] /\ IsKnown(j)
                            /\ Leased(book, d) /\ book.active[d] = LeaseOf(st, j)
  BY ActiveIsFenced DEF ToolsOn, Active, Fencing, HoldsLease
<1>2. ASSUME ToolsOn(d) = {} PROVE RunningTools[d] = [job |-> None, lease |-> None]
  <2>1. Cardinality(ToolsOn(d)) # 1
    BY <1>2, FS_EmptySet
  <2> QED BY <1>2, <2>1 DEF RunningTools
<1>3. ASSUME NEW j \in ToolsOn(d)
      PROVE  RunningTools[d] = [job |-> book.writers[d], lease |-> book.active[d]]
  <2>1. ToolsOn(d) = {j}
    BY <1>1, <1>3
  <2>2. Cardinality(ToolsOn(d)) = 1
    BY <2>1, FS_Singleton
  <2>3. (CHOOSE k \in ToolsOn(d) : TRUE) = j
    BY <2>1
  <2>4. RunningTools[d] = [job |-> j, lease |-> LeaseOf(st, j)]
    BY <2>1, <2>2, <2>3 DEF RunningTools
  <2> QED BY <1>1, <1>3, <2>4
<1> QED BY <1>1, <1>2, <1>3 DEF OneTool

LEMMA OneToolRunsNext == RInv' /\ MInv' => OneTools'
BY OneToolRuns, PTL

\* A device belongs to the lease that the book gives it to, or to none.
HoldersOK ==
  /\ Holders \in [Devices -> Lease \cup {None}]
  /\ \A d \in Devices :
       Leased(book, d) => Holders[d] = book.active[d] /\ Holders[d] # None

LEMMA HoldersType == RInv => HoldersOK
<1> SUFFICES ASSUME RInv PROVE HoldersOK
  OBVIOUS
<1>1. book.active \in [Devices -> Lease \cup {NoLease}]
  BY DEF RInv, IInv, BooksOK, GoodBook, Book
<1>2. \A d \in Devices : Leased(book, d) =>
        book.active[d] \in Lease /\ book.active[d] # None
  BY <1>1, MeshAssumption DEF Leased
<1> QED BY <1>1, <1>2 DEF Holders, HoldersOK

LEMMA HoldersTypeNext == RInv' => HoldersOK'
BY HoldersType, PTL

\* A step in which no tool starts or ends may pass idle devices on.
LEMMA QuietStepPasses ==
  ASSUME RInv, MInv, RInv', MInv',
         \A d \in Devices : ToolsOn(d)' = ToolsOn(d),
         (ran \cap Mutating)' = ran \cap Mutating,
         \A j \in Jobs : IsKnown(j) => st'.job[j] = st.job[j]
  PROVE  [Exclusive!ExclusiveNext]_(Exclusive!exclusiveVars)
<1> DEFINE S == {d \in Devices : Holders'[d] # Holders[d]}
<1>1. \A d \in Devices : ToolsOn(d)' = ToolsOn(d)
  OBVIOUS
<1>2. ASSUME NEW d \in Devices
      PROVE  /\ RunningTools'[d] = RunningTools[d]
             /\ ToolsOn(d) # {} => Holders'[d] = Holders[d]
  <2>1. OneTool(d) /\ OneTool(d)'
    BY OneToolRuns, OneToolRunsNext DEF OneTools
  <2>2. CASE ToolsOn(d) = {}
    BY <1>1, <2>1, <2>2 DEF OneTool
  <2>3. ASSUME NEW j \in ToolsOn(d) PROVE /\ RunningTools'[d] = RunningTools[d]
                                          /\ Holders'[d] = Holders[d]
    <3>1. /\ j \in Jobs /\ j = book.writers[d] /\ IsKnown(j)
          /\ Leased(book, d) /\ book.active[d] = LeaseOf(st, j)
      BY <2>1, <2>3, RegistryAssumption DEF OneTool
    <3>2. /\ j = book'.writers[d] /\ Leased(book', d)
          /\ book'.active[d] = LeaseOf(st', j)
      BY <1>1, <2>1, <2>3 DEF OneTool
    <3>3. LeaseOf(st', j) = LeaseOf(st, j)
      BY <3>1 DEF LeaseOf
    <3>4. RunningTools'[d] = RunningTools[d]
      BY <1>1, <2>1, <2>3, <3>1, <3>2, <3>3 DEF OneTool
    <3> QED BY <3>1, <3>2, <3>3, <3>4, HoldersType, HoldersTypeNext DEF HoldersOK
  <2> QED BY <2>2, <2>3
<1>3. RunningTools' = RunningTools
  BY <1>2 DEF RunningTools
<1>4. Holders \in [Devices -> Lease \cup {None}]
      /\ Holders' \in [Devices -> Lease \cup {None}]
  BY HoldersType, HoldersTypeNext DEF HoldersOK
<1>5. CASE S = {}
  <2>1. Holders' = Holders
    BY <1>4, <1>5
  <2> QED BY <1>3, <2>1 DEF Exclusive!exclusiveVars
<1>6. CASE S # {}
  <2>1. \A d \in S : RunningTools[d] = [job |-> None, lease |-> None]
    BY <1>2, OneToolRuns DEF OneTool, OneTools
  <2>2. Exclusive!Pass(S)
    BY <1>3, <1>4, <1>6, <2>1 DEF Exclusive!Pass, Exclusive!Idle
  <2> QED BY <2>2 DEF Exclusive!ExclusiveNext
<1> QED BY <1>5, <1>6

\* A step in which nothing but tools end: a tool finishes, or its agent dies.
LEMMA EndsAreEnds ==
  ASSUME RInv, MInv, RInv', MInv', UNCHANGED <<book, st, ran>>,
         \A j \in Jobs : phase'[j] = "executing" => phase[j] = "executing"
  PROVE  [Exclusive!ExclusiveNext]_(Exclusive!exclusiveVars)
<1> DEFINE S == {d \in Devices : RunningTools'[d] # RunningTools[d]}
<1>1. Holders' = Holders
  BY DEF Holders
<1>2. ASSUME NEW d \in Devices
      PROVE  RunningTools'[d] \in {RunningTools[d], [job |-> None, lease |-> None]}
  <2>1. ToolsOn(d)' \subseteq ToolsOn(d)
    BY RegistryAssumption DEF ToolsOn
  <2>2. OneTool(d) /\ OneTool(d)'
    BY OneToolRuns, OneToolRunsNext DEF OneTools
  <2> QED BY <2>1, <2>2 DEF OneTool
<1>3. RunningTools = [d \in Devices |-> RunningTools[d]]
      /\ RunningTools' = [d \in Devices |-> RunningTools'[d]]
  BY DEF RunningTools
<1>4. RunningTools' = [d \in Devices |-> IF d \in S THEN [job |-> None, lease |-> None]
                                         ELSE RunningTools[d]]
  BY <1>2, <1>3
<1>5. CASE S = {}
  <2>1. RunningTools' = RunningTools
    BY <1>3, <1>5
  <2> QED BY <1>1, <2>1 DEF Exclusive!exclusiveVars
<1>6. CASE S # {}
  <2>1. Exclusive!End(S)
    BY <1>1, <1>4, <1>6 DEF Exclusive!End, Exclusive!Idle
  <2> QED BY <2>1 DEF Exclusive!ExclusiveNext
<1> QED BY <1>5, <1>6

\* A mutating job's tool begins on a device that no tool changes, under the lease
\* the device belongs to, and it never ran before.
LEMMA ExecuteBegins ==
  ASSUME RInv, MInv, RInv', MInv', NEW j \in Mutating, Execute(j)
  PROVE  Exclusive!Begin(DeviceOf[j], j)
<1> DEFINE d == DeviceOf[j]
<1>1. j \in Jobs /\ d \in Devices
  BY RegistryAssumption
<1>2. /\ UNCHANGED vars /\ phase[j] = "validating" /\ ran' = ran \cup {j}
      /\ phase' = [phase EXCEPT ![j] = "executing"]
  BY DEF Execute, Moves
<1>3. UNCHANGED <<book, st>> /\ phase \in [Jobs -> Phases]
  BY <1>2 DEF vars, MInv, TypeM
<1>4. Active(j) /\ j \notin ran
  BY <1>1, <1>2 DEF Active, Fencing, MInv, RanM
<1>5. book.writers[d] = j /\ Leased(book, d)
  BY <1>4, ActiveIsFenced
<1>6. \A e \in Devices : OneTool(e) /\ OneTool(e)'
  BY OneToolRuns, OneToolRunsNext DEF OneTools
<1>7. ToolsOn(d) = {} /\ j \in ToolsOn(d)'
  <2>1. j \notin ToolsOn(d)
    BY <1>2 DEF ToolsOn
  <2>2. \A k \in ToolsOn(d) : k = j
    BY <1>1, <1>5, <1>6 DEF OneTool
  <2> QED BY <1>1, <1>2, <1>3, <2>1, <2>2 DEF ToolsOn
<1>8. \A e \in Devices \ {d} : ToolsOn(e)' = ToolsOn(e)
  BY <1>1, <1>2, <1>3, RegistryAssumption DEF ToolsOn
<1>9. Holders' = Holders /\ Holders[d] # None /\ Holders[d] = book.active[d]
  BY <1>1, <1>3, <1>5, HoldersType DEF Holders, HoldersOK
<1>10. RunningTools[d] = [job |-> None, lease |-> None]
  BY <1>1, <1>6, <1>7 DEF OneTool
<1>11. RunningTools' = [RunningTools EXCEPT ![d] = [job |-> j, lease |-> Holders[d]]]
  <2>1. RunningTools'[d] = [job |-> j, lease |-> Holders[d]]
    BY <1>1, <1>3, <1>5, <1>6, <1>7, <1>9 DEF OneTool
  <2>2. \A e \in Devices \ {d} : RunningTools'[e] = RunningTools[e]
    BY <1>3, <1>6, <1>8 DEF OneTool
  <2>3. RunningTools = [e \in Devices |-> RunningTools[e]]
        /\ RunningTools' = [e \in Devices |-> RunningTools'[e]]
    BY DEF RunningTools
  <2> QED BY <1>1, <2>1, <2>2, <2>3
<1>12. ran' \cap Mutating = (ran \cap Mutating) \cup {j}
  BY <1>2
<1> QED BY <1>4, <1>9, <1>10, <1>11, <1>12 DEF Exclusive!Begin, Exclusive!Idle

LEMMA StepsAreExclusive ==
  ASSUME RInv, MInv, RInv', MInv', [MeshNext]_meshVars
  PROVE  [Exclusive!ExclusiveNext]_(Exclusive!exclusiveVars)
<1>1. phase \in [Jobs -> Phases] /\ \A d \in Devices : ToolsOn(d) \subseteq Mutating
  BY DEF MInv, TypeM, ToolsOn
<1>2. CASE UNCHANGED meshVars
  <2>1. UNCHANGED <<book, st, ran, phase>>
    BY <1>2 DEF meshVars, vars, agentVars, threadVars
  <2> QED BY <2>1, EndsAreEnds
<1>3. ASSUME NEW j \in Mutating, Execute(j)
      PROVE  [Exclusive!ExclusiveNext]_(Exclusive!exclusiveVars)
  <2>1. j \in Mutating /\ DeviceOf[j] \in Devices
    BY RegistryAssumption
  <2> QED BY <1>3, <2>1, ExecuteBegins DEF Exclusive!ExclusiveNext
<1>4. ASSUME NEW a \in Agents, AgentCrash(a)
      PROVE  [Exclusive!ExclusiveNext]_(Exclusive!exclusiveVars)
  <2>1. /\ UNCHANGED <<book, st, ran>>
        /\ \A j \in Jobs : phase'[j] = "executing" => phase[j] = "executing"
    BY <1>4 DEF AgentCrash
  <2> QED BY <2>1, EndsAreEnds
<1>5. ASSUME NEW j \in Jobs, ThreadStep(j), ~(Execute(j) /\ j \in Mutating)
      PROVE  [Exclusive!ExclusiveNext]_(Exclusive!exclusiveVars)
  <2>1. CASE ThreadStep(j) /\ ~Execute(j)
    <3>1. UNCHANGED <<book, st, ran>>
      BY <1>5, <2>1
         DEF ThreadStep, StartAcknowledged, StartGivesUp, BeginValidation,
             ValidationFails, Finish, EndAcknowledged, Resend, Ends, Moves, vars,
             threadVars
    <3>2. phase' = phase \/ \E to \in Phases \ {"executing"} :
                              phase' = [phase EXCEPT ![j] = to]
      BY <1>5, <2>1
         DEF ThreadStep, StartAcknowledged, StartGivesUp, BeginValidation,
             ValidationFails, Finish, EndAcknowledged, Resend, Ends, Moves,
             threadVars, Phases
    <3> QED BY <1>1, <3>1, <3>2, EndsAreEnds
  <2>2. CASE Execute(j) /\ j \notin Mutating
    <3>1. UNCHANGED <<book, st>> /\ ran' = ran \cup {j}
          /\ phase' = [phase EXCEPT ![j] = "executing"]
      BY <2>2 DEF Execute, Moves, vars
    <3>2. ran' \cap Mutating = ran \cap Mutating
      BY <2>2, <3>1
    <3>3. \A d \in Devices : ToolsOn(d)' = ToolsOn(d)
      BY <1>1, <2>2, <3>1, RegistryAssumption DEF ToolsOn
    <3> QED BY <3>1, <3>2, <3>3, QuietStepPasses
  <2> QED BY <1>5, <2>1, <2>2
<1>6. ASSUME MeshNext, UNCHANGED ran, \A d \in Devices : ToolsOn(d)' = ToolsOn(d)
      PROVE  [Exclusive!ExclusiveNext]_(Exclusive!exclusiveVars)
  BY <1>6, JobsStayKnown, QuietStepPasses
<1>7. ASSUME NEW a \in Agents, LoopStep(a)
      PROVE  [Exclusive!ExclusiveNext]_(Exclusive!exclusiveVars)
  <2>1. CASE StartJob(a)
    <3>1. UNCHANGED <<book, st, ran>>
          /\ phase' = [phase EXCEPT ![wire[a].apple] = "starting"]
      BY <2>1 DEF StartJob
    <3> QED BY <1>1, <3>1, EndsAreEnds
  <2>2. CASE LoopStep(a) /\ ~StartJob(a)
    <3>1. UNCHANGED <<phase, ran>>
      BY <2>2 DEF LoopStep, Heartbeat, ReadReply, ReplyDone, ReplyLost, CompleteAgain,
                  CompleteGivesUp, agentVars, threadVars
    <3> QED BY <1>6, <1>7, <3>1 DEF ToolsOn, MeshNext
  <2> QED BY <1>7, <2>1, <2>2
<1>8. ASSUME Handle \/ RegistryAlone \/ RegistryCrash
      PROVE  [Exclusive!ExclusiveNext]_(Exclusive!exclusiveVars)
  <2>1. UNCHANGED <<phase, ran>>
    BY <1>8 DEF Handle, HandleStarted, HandleTerminal, HandleValidate, HandleCommit,
                HandleComplete, HandleLateComplete, RegistryAlone, RegistryCrash,
                agentVars, threadVars
  <2> QED BY <1>6, <1>8, <2>1 DEF ToolsOn, MeshNext
<1> QED BY <1>2, <1>3, <1>4, <1>5, <1>7, <1>8 DEF MeshNext

LEMMA StartsExclusive == MeshInit => Exclusive!ExclusiveInit
<1> SUFFICES ASSUME MeshInit PROVE Exclusive!ExclusiveInit
  OBVIOUS
<1>1. /\ phase = [j \in Jobs |-> "idle"] /\ ran = {} /\ book = EmptyBook
  BY DEF MeshInit, Init
<1>2. ran \cap Mutating = {}
  BY <1>1
<1>3. Holders = [d \in Devices |-> None]
  BY <1>1 DEF Holders, EmptyBook, Leased
<1>4. RunningTools = [d \in Devices |-> [job |-> None, lease |-> None]]
  <2>1. \A d \in Devices : ToolsOn(d) = {}
    BY <1>1, RegistryAssumption DEF ToolsOn
  <2>2. \A d \in Devices : OneTool(d)
    BY MeshInitHolds, OneToolRuns DEF OneTools
  <2>3. \A d \in Devices : RunningTools[d] = [job |-> None, lease |-> None]
    BY <2>1, <2>2 DEF OneTool
  <2> QED BY <2>3 DEF RunningTools
<1> QED BY <1>2, <1>3, <1>4 DEF Exclusive!ExclusiveInit, Exclusive!Idle

\* The registry and its agents keep what device leases promise: at most one tool
\* changes a device at a time, under the lease that the device belongs to from
\* the tool's start to its end, and no job's tool is ever run a second time;
\* with any number of agents, over a network that loses and duplicates, and
\* through crashes of both (DeviceLeases, AppleProgress and mesh-agent's threads).
THEOREM AgentsImplementExclusiveDevice == MeshSpec => ToolsAreExclusive
<1>1. [](RInv /\ MInv) /\ [][MeshNext]_meshVars
        => [][Exclusive!ExclusiveNext]_(Exclusive!exclusiveVars)
  <2>1. (RInv /\ MInv) /\ (RInv /\ MInv)' /\ [MeshNext]_meshVars
          => [Exclusive!ExclusiveNext]_(Exclusive!exclusiveVars)
    BY StepsAreExclusive
  <2> QED BY <2>1, PTL
<1> QED BY <1>1, StartsExclusive, MeshInvariantsHold, PTL
        DEF MeshSpec, ToolsAreExclusive, Exclusive!ExclusiveSpec

-----------------------------------------------------------------------------
(***************************************************************************)
(* A job's events stay in order as long as no write fails.  They are        *)
(* numbered 1 or 2; the last one, 2, ends the job; and an event that is     *)
(* appended as number 1 without looking (a rejection, a cancellation) finds *)
(* a job without events, since a job that has one was acknowledged and is   *)
(* dispatched.  A job is acknowledged only after it was dispatched: its     *)
(* start is sent for a grant that came in a heartbeat's reply.              *)
(***************************************************************************)
Ascends(e) == \A i, k \in DOMAIN e : i < k => e[i].sequence < e[k].sequence

\* The numbers of j's events in s, and what its flags say of them.
EventsOK(s, j) ==
  /\ Ascends(s.events[j])
  /\ \A i \in DOMAIN s.events[j] :
       s.events[j][i].sequence = 1
       \/ (s.events[j][i].sequence = 2 /\ j \notin s.apple_pending)
  /\ j \in s.apple_pending \ s.acknowledged => s.events[j] = << >>
  /\ j \in s.apple_pending \cap s.acknowledged => j \in s.dispatched
  /\ s.job[j] = NoJob => j \notin s.acknowledged

OrderOf(j) ==
  /\ EventsOK(st, j) /\ EventsOK(stDisk, j)
  /\ Request("started", j, None) \in sent => Sent(j)
  /\ prog.job = j /\ ~prog.terminal => Sent(j)

OrderM == faults = 0 => \A j \in Jobs : OrderOf(j)

\* A change of DurableState that keeps the order of j's events.
KeepsOrder(s, t, j) ==
  /\ EventsOK(s, j) => EventsOK(t, j)
  /\ j \in s.dispatched => j \in t.dispatched

InStep(j) ==
  faults' = 0 =>
    /\ faults = 0
    /\ EventsOK(st, j) /\ EventsOK(stDisk, j) =>
         EventsOK(st, j)' /\ EventsOK(stDisk, j)'
    /\ Sent(j) => Sent(j)'

LEMMA KeepsOrderSame == \A s, j : KeepsOrder(s, s, j)
BY DEF KeepsOrder

LEMMA KeepsOrderIsTransitive ==
  ASSUME NEW s, NEW t, NEW u, NEW j, KeepsOrder(s, t, j), KeepsOrder(t, u, j)
  PROVE  KeepsOrder(s, u, j)
BY DEF KeepsOrder

\* The events and what is known of the job stay, and it is not pending again.
LEMMA KeepsOrderByFlags ==
  ASSUME NEW s, NEW t, NEW j,
         t.job[j] = s.job[j], t.events[j] = s.events[j],
         j \in t.apple_pending => j \in s.apple_pending,
         j \in t.acknowledged <=> j \in s.acknowledged,
         j \in s.dispatched => j \in t.dispatched
  PROVE  KeepsOrder(s, t, j)
BY DEF KeepsOrder, EventsOK

\* An event with a higher number is appended.
LEMMA AppendAscends ==
  ASSUME NEW e \in Seq(Event), Ascends(e), NEW n \in Nat, NEW k,
         \A i \in DOMAIN e : e[i].sequence < n
  PROVE  LET f == Append(e, [sequence |-> n, kind |-> k])
         IN  /\ Ascends(f)
             /\ \A i \in DOMAIN f : f[i].sequence = n
                                    \/ (i \in DOMAIN e /\ f[i] = e[i])
<1> DEFINE f == Append(e, [sequence |-> n, kind |-> k])
<1>1. /\ DOMAIN e = 1 .. Len(e) /\ Len(e) \in Nat
      /\ DOMAIN f = 1 .. Len(e) + 1
      /\ f[Len(e) + 1] = [sequence |-> n, kind |-> k]
      /\ \A i \in DOMAIN e : f[i] = e[i]
  OBVIOUS
<1>2. f[Len(e) + 1].sequence = n
  BY <1>1
<1> HIDE DEF f
<1>3. \A i \in DOMAIN f : (i \in DOMAIN e /\ f[i] = e[i]) \/ (i = Len(e) + 1)
  BY <1>1
<1>4. Ascends(f)
  <2> SUFFICES ASSUME NEW i \in DOMAIN f, NEW m \in DOMAIN f, i < m
               PROVE  f[i].sequence < f[m].sequence
    BY DEF Ascends
  <2>1. i \in DOMAIN e /\ f[i] = e[i]
    BY <1>1
  <2>2. CASE m \in DOMAIN e
    BY <1>1, <2>1, <2>2 DEF Ascends
  <2>3. CASE m = Len(e) + 1
    BY <1>2, <2>1, <2>3
  <2> QED BY <1>3, <2>2, <2>3
<1> QED BY <1>2, <1>3, <1>4 DEF f

\* The saves of a step that fails no write.
LEMMA NoFault ==
  ASSUME RInv, faults' = 0
  PROVE  /\ ~Fault
         /\ \A saved \in BOOLEAN : SaveBook(saved) => saved /\ faults = 0
         /\ \A saved \in BOOLEAN : SaveState(saved) => saved /\ faults = 0 /\ stDisk' = st'
         /\ \A saved \in BOOLEAN : SaveBoth(saved) => saved /\ faults = 0 /\ stDisk' = st'
         /\ UNCHANGED faults => faults = 0
<1>1. faults \in Nat
  BY RegistryAssumption DEF RInv, IInv, CountersOK
<1>2. ~Fault
  BY <1>1 DEF Fault
<1> QED BY <1>2 DEF SaveBook, SaveState, SaveBoth

LEMMA InStepByStates ==
  ASSUME NEW j, faults' = 0 => faults = 0,
         faults' = 0 => stDisk' = stDisk \/ KeepsOrder(st, stDisk', j),
         faults' = 0 => st' = stDisk' \/ KeepsOrder(st, st', j)
  PROVE  InStep(j)
<1> SUFFICES ASSUME faults' = 0
             PROVE  /\ EventsOK(st, j) /\ EventsOK(stDisk, j) =>
                         EventsOK(st', j) /\ EventsOK(stDisk', j)
                    /\ Sent(j) => Sent(j)'
  BY DEF InStep, EventsOK
<1> QED BY DEF KeepsOrder, Sent

LEMMA InStepResting ==
  ASSUME NEW j, UNCHANGED <<st, stDisk, faults>> PROVE InStep(j)
BY InStepByStates, KeepsOrderSame

\* The operations of lease(), the expiries and an agent's lease check.
LEMMA LeasesInStep ==
  ASSUME RInv, NEW j \in Jobs,
         \/ \E c \in Clients, d \in Devices : AcquireLease(c, d) \/ QueueLease(c, d)
         \/ \E c \in Clients : \E l : RenewLease(c, l) \/ ReleaseLease(c, l)
         \/ \E c \in Clients : DisconnectClient(c)
         \/ \E a, k, l, active : ValidateLease(a, k, l, active)
  PROVE  InStep(j)
<1>1. st' = st /\ \E saved \in BOOLEAN : SaveBoth(saved)
  BY DEF AcquireLease, QueueLease, RenewLease, ReleaseLease, DisconnectClient,
         ValidateLease
<1>2. faults' = 0 => faults = 0 /\ stDisk' = st'
  BY <1>1, NoFault
<1> QED BY <1>1, <1>2, InStepByStates, KeepsOrderSame

LEMMA ExpiriesInStep ==
  ASSUME RInv, NEW j \in Jobs,
         (\E a : HeartbeatExpire(a)) \/ (\E c, k, l : AppleRunCheck(c, k, l))
  PROVE  InStep(j)
<1>1. st' = st /\ stDisk' = stDisk /\ \E saved \in BOOLEAN : SaveBook(saved)
  BY DEF HeartbeatExpire, AppleRunCheck
<1>2. faults' = 0 => faults = 0
  BY <1>1, NoFault
<1> QED BY <1>1, <1>2, InStepByStates, KeepsOrderSame

LEMMA PersistInStep ==
  ASSUME RInv, NEW s, NEW chk, PersistOrPanic(s, chk), NEW j \in Jobs,
         KeepsOrder(st, s, j)
  PROVE  InStep(j)
<1>1. faults' = 0 => /\ faults = 0 /\ st' = s /\ stDisk' = st'
  BY NoFault DEF PersistOrPanic, Panic
<1> QED BY <1>1, InStepByStates

LEMMA RunsInStep ==
  ASSUME RInv, NEW r, Run(r) \/ Complete(r), NEW j \in Jobs
  PROVE  InStep(j)
<1> DEFINE s == [st EXCEPT !.requests = st.requests \cup {r},
                           !.pending  = st.pending \cup {r}]
           t == [st EXCEPT !.pending = st.pending \ {r}, !.done = st.done \cup {r}]
<1>1. st \in DurableState
  BY DEF RInv, IInv, StatesOK
<1>2. KeepsOrder(st, s, j) /\ KeepsOrder(st, t, j)
  BY <1>1, KeepsOrderByFlags DEF DurableState
<1>3. PersistOrPanic(s, checked) \/ PersistOrPanic(t, checked)
  BY DEF Run, Complete
<1> QED BY <1>2, <1>3, PersistInStep

\* The first and last event of a job that has none.
LEMMA OnlyEventKeepsOrder ==
  ASSUME NEW s \in DurableState, NEW k \in Jobs, NEW kind \in Kinds, NEW j \in Jobs,
         k \in s.apple_pending, k \notin s.acknowledged \/ k \notin s.dispatched
  PROVE  KeepsOrder(s, AddEvent([s EXCEPT !.apple_pending = s.apple_pending \ {k}],
                              k, 1, kind), j)
<1> DEFINE over == [s EXCEPT !.apple_pending = s.apple_pending \ {k}]
           t    == AddEvent(over, k, 1, kind)
<1>1. over \in DurableState /\ over.events = s.events
  BY DEF DurableState
<1>2. /\ t.job = s.job /\ t.acknowledged = s.acknowledged
      /\ t.dispatched = s.dispatched
      /\ t.apple_pending = s.apple_pending \ {k}
      /\ \A i \in Jobs \ {k} : t.events[i] = s.events[i]
      /\ t.events[k] = Append(s.events[k], [sequence |-> 1, kind |-> kind])
  BY <1>1 DEF AddEvent, DurableState
<1> HIDE DEF t, over
<1>3. ASSUME j # k PROVE KeepsOrder(s, t, j)
  BY <1>2, <1>3, KeepsOrderByFlags
<1>4. ASSUME j = k PROVE KeepsOrder(s, t, j)
  <2>1. ASSUME EventsOK(s, j) PROVE EventsOK(t, j)
    <3>1. s.events[k] = << >>
      BY <1>4, <2>1 DEF EventsOK
    <3>2. t.events[k] = <<[sequence |-> 1, kind |-> kind]>>
      BY <1>2, <3>1
    <3>3. /\ DOMAIN t.events[k] = {1} /\ t.events[k][1].sequence = 1
      BY <3>2
    <3>4. Ascends(t.events[k])
      BY <3>3 DEF Ascends
    <3> QED BY <1>2, <1>4, <2>1, <3>3, <3>4 DEF EventsOK
  <2> QED BY <1>2, <2>1 DEF KeepsOrder
<1> QED BY <1>3, <1>4 DEF t, over

LEMMA AppleCancelInStep ==
  ASSUME RInv, NEW c, NEW k \in Jobs, AppleCancel(c, k), NEW j \in Jobs
  PROVE  InStep(j)
<1>1. st \in DurableState /\ k \in st.apple_pending /\ "cancelled" \in Kinds
  BY DEF RInv, IInv, StatesOK, AppleCancel, Kinds
<1>2. PersistOrPanic(Cancelled(k), checked)
  BY DEF AppleCancel
<1>3. CASE k \in st.dispatched
  <2>1. KeepsOrder(st, [st EXCEPT !.cancelled = st.cancelled \cup {k}], j)
    BY <1>1, KeepsOrderByFlags DEF DurableState
  <2> QED BY <1>2, <1>3, <2>1, PersistInStep DEF Cancelled
<1>4. CASE k \notin st.dispatched
  <2>1. KeepsOrder(st, Cancelled(k), j)
    BY <1>1, <1>4, OnlyEventKeepsOrder DEF Cancelled
  <2> QED BY <1>2, <2>1, PersistInStep
<1> QED BY <1>3, <1>4

\* A job that is accepted was never acknowledged.
LEMMA AppleRunSubmitInStep ==
  ASSUME RInv, NEW c, NEW k \in Jobs, NEW l, AppleRunSubmit(c, k, l), NEW j \in Jobs
  PROVE  InStep(j)
<1> DEFINE Accepted(h) ==
             [st EXCEPT !.job[k] = [client |-> c, lease |-> l, host |-> h,
                                    agent |-> st.host_peers[h]],
                        !.apple_pending = st.apple_pending \cup {k},
                        !.events[k] = << >>]
<1>1. CASE UNCHANGED <<st, stDisk, faults>>
  BY <1>1, InStepResting
<1>2. ASSUME NEW h \in EligibleHosts(k), st.job[k] = NoJob, NEW chk,
             PersistOrPanic(Accepted(h), chk)
      PROVE  InStep(j)
  <2>1. st \in DurableState
    BY DEF RInv, IInv, StatesOK
  <2>2. /\ Accepted(h).acknowledged = st.acknowledged
        /\ Accepted(h).dispatched = st.dispatched
        /\ Accepted(h).apple_pending = st.apple_pending \cup {k}
        /\ Accepted(h).events[k] = << >>
        /\ \A i \in Jobs \ {k} : /\ Accepted(h).events[i] = st.events[i]
                                 /\ Accepted(h).job[i] = st.job[i]
    BY <2>1 DEF DurableState
  <2> HIDE DEF Accepted
  <2>3. CASE j # k
    <3>1. KeepsOrder(st, Accepted(h), j)
      BY <2>2, <2>3, KeepsOrderByFlags
    <3> QED BY <1>2, <3>1, PersistInStep
  <2>4. CASE j = k
    <3>1. /\ DOMAIN Accepted(h).events[k] = {}
      BY <2>2
    <3>2. Ascends(Accepted(h).events[k])
      BY <3>1 DEF Ascends
    <3>3. EventsOK(st, k) => k \notin Accepted(h).acknowledged
      BY <1>2, <2>2 DEF EventsOK
    <3>4. KeepsOrder(st, Accepted(h), j)
      BY <2>2, <2>4, <3>1, <3>2, <3>3 DEF KeepsOrder, EventsOK
    <3> QED BY <1>2, <3>4, PersistInStep
  <2> QED BY <2>3, <2>4
<1> QED BY <1>1, <1>2 DEF AppleRunSubmit

\* An agent's inventory is about hosts and devices.
LEMMA InventoryInStep ==
  ASSUME RInv, NEW a, NEW h, NEW S, HeartbeatInventory(a, h, S), NEW j \in Jobs
  PROVE  InStep(j)
<1> DEFINE detached == {d \in Devices : st.device_peers[d] = a /\ d \notin S}
<1>1. st' = [st EXCEPT !.host_peers[h] = a,
                       !.device_peers = [d \in Devices |->
                          IF d \in S THEN a
                          ELSE IF d \in Gone(detached) THEN None
                          ELSE st.device_peers[d]]]
      /\ stDisk' = stDisk /\ \E saved \in BOOLEAN : SaveBook(saved)
  BY DEF HeartbeatInventory
<1>2. st \in DurableState
  BY DEF RInv, IInv, StatesOK
<1>3. KeepsOrder(st, st', j)
  BY <1>1, <1>2, KeepsOrderByFlags DEF DurableState
<1>4. faults' = 0 => faults = 0
  BY <1>1, NoFault
<1> QED BY <1>1, <1>3, <1>4, InStepByStates

\* The job of a reply becomes a dispatched one, or is rejected without an event.
LEMMA DispatchInStep ==
  ASSUME RInv, NEW a, HeartbeatDispatch(a), NEW j \in Jobs
  PROVE  InStep(j)
<1> SUFFICES ASSUME faults' = 0
             PROVE  faults = 0 /\ KeepsOrder(st, st', j) /\ stDisk' = st'
  BY InStepByStates
<1>1. st \in DurableState /\ ~Fault
  BY NoFault DEF RInv, IInv, StatesOK
<1>2. PICK r \in OneOf(PendingRuns(hb[a].host)), k \in OneOf(PendingApple(hb[a].host)) :
        DispatchApple(a, Dispatched(st, r), r, k)
  BY DEF HeartbeatDispatch
<1> DEFINE s == Dispatched(st, r)
<1>3. s \in DurableState /\ s.job = st.job /\ s.events = st.events
      /\ s.apple_pending = st.apple_pending /\ s.acknowledged = st.acknowledged
      /\ st.dispatched \subseteq s.dispatched
  <2>1. r \in Runs \cup {None}
    BY <1>1, <1>2 DEF OneOf, PendingRuns, DurableState
  <2> QED BY <1>1, <2>1 DEF Dispatched, DurableState
<1>4. KeepsOrder(st, s, j)
  BY <1>3, KeepsOrderByFlags
<1>5. KeepsOrder(s, Dispatched(s, k), j)
  BY <1>3, KeepsOrderByFlags DEF Dispatched, DurableState
<1>6. \A t, b, bd, reply :
        FinishHeartbeat(a, t, b, bd, reply) =>
          st' = t /\ stDisk' = t /\ faults' = faults
  BY <1>1 DEF FinishHeartbeat
<1>7. ASSUME NEW b, NEW bd, NEW reply, NEW t, KeepsOrder(s, t, j),
             FinishHeartbeat(a, t, b, bd, reply)
      PROVE  faults = 0 /\ KeepsOrder(st, st', j) /\ stDisk' = st'
  BY <1>4, <1>6, <1>7, KeepsOrderIsTransitive
<1> HIDE DEF s
<1>8. CASE /\ k = None
           /\ FinishHeartbeat(a, s, book, bookDisk, Response(r, r, None, 0, s.cancelled))
  BY <1>7, <1>8, KeepsOrderSame
<1>9. ASSUME NEW b, NEW bd, NEW reply, FinishHeartbeat(a, Dispatched(s, k), b, bd, reply)
      PROVE  faults = 0 /\ KeepsOrder(st, st', j) /\ stDisk' = st'
  BY <1>5, <1>7, <1>9
<1>10. ASSUME NEW b, k \in Mutating, RejectApple(a, s, b, r, k)
       PROVE  faults = 0 /\ KeepsOrder(st, st', j) /\ stDisk' = st'
  <2>1. k \in Jobs /\ k # None
    BY <1>10, RegistryAssumption, NoneAssumption
  <2>2. k \in s.apple_pending /\ k \notin s.acknowledged
    BY <1>2, <1>3, <2>1 DEF OneOf, PendingApple
  <2>3. "rejected" \in Kinds
    BY DEF Kinds
  <2>4. KeepsOrder(s, AddEvent([s EXCEPT !.apple_pending = s.apple_pending \ {k}],
                             k, 1, "rejected"), j)
    BY <1>3, <2>1, <2>2, <2>3, OnlyEventKeepsOrder
  <2> QED BY <1>7, <1>10, <2>4 DEF RejectApple
<1>11. DispatchApple(a, s, r, k)
  BY <1>2 DEF s
<1> QED BY <1>1, <1>8, <1>9, <1>10, <1>11 DEF DispatchApple, DispatchWriter

LEMMA StartedBeginInStep ==
  ASSUME RInv, NEW a, NEW k, NEW accepted \in BOOLEAN, StartedBegin(a, k, accepted),
         NEW j \in Jobs
  PROVE  InStep(j) /\ (prog'.job = j => j = k)
<1>1. st' = st /\ stDisk' = stDisk /\ \E saved \in BOOLEAN : SaveBook(saved)
  BY DEF StartedBegin
<1>2. faults' = 0 => faults = 0
  BY <1>1, NoFault
<1>3. prog'.job \in {k, None}
  BY DEF StartedBegin, NoProgress
<1> QED BY <1>1, <1>2, <1>3, InStepByStates, KeepsOrderSame, NoneAssumption

\* A dispatched job that is pending is acknowledged, with event 1 if it has none.
LEMMA StartedKeepsOrder ==
  ASSUME NEW s \in DurableState, NEW k \in Jobs, NEW j \in Jobs,
         s.job[k] # NoJob, k \in s.apple_pending, k \in s.dispatched
  PROVE  KeepsOrder(s, Deduplicated([s EXCEPT !.acknowledged = s.acknowledged \cup {k}],
                                  k, 1, "started"), j)
<1> DEFINE acked == [s EXCEPT !.acknowledged = s.acknowledged \cup {k}]
           t     == Deduplicated(acked, k, 1, "started")
           e     == s.events[k]
<1>1. acked \in DurableState /\ acked.events = s.events /\ e \in Seq(Event)
  BY DEF DurableState
<1>2. /\ t.job = s.job /\ t.acknowledged = s.acknowledged \cup {k}
      /\ t.dispatched = s.dispatched /\ t.apple_pending = s.apple_pending
      /\ \A i \in Jobs \ {k} : t.events[i] = s.events[i]
      /\ t.events[k] = IF \E i \in DOMAIN e : e[i].sequence = 1 THEN e
                       ELSE Append(e, [sequence |-> 1, kind |-> "started"])
  BY <1>1 DEF Deduplicated, AddEvent, DurableState
<1> HIDE DEF t, acked
<1>3. ASSUME j # k PROVE KeepsOrder(s, t, j)
  BY <1>2, <1>3, KeepsOrderByFlags
<1>4. ASSUME j = k PROVE KeepsOrder(s, t, j)
  <2>1. ASSUME EventsOK(s, k) PROVE EventsOK(t, k)
    <3>1. /\ Ascends(e) /\ \A i \in DOMAIN e : e[i].sequence = 1
      BY <2>1 DEF EventsOK
    <3>2. CASE \E i \in DOMAIN e : e[i].sequence = 1
      BY <1>2, <2>1, <3>2 DEF EventsOK
    <3>3. CASE ~\E i \in DOMAIN e : e[i].sequence = 1
      <4>1. e = << >>
        BY <1>1, <3>1, <3>3
      <4>2. t.events[k] = <<[sequence |-> 1, kind |-> "started"]>>
        BY <1>2, <3>3, <4>1
      <4>3. DOMAIN t.events[k] = {1} /\ t.events[k][1].sequence = 1
        BY <4>2
      <4>4. Ascends(t.events[k])
        BY <4>3 DEF Ascends
      <4> QED BY <1>2, <2>1, <4>3, <4>4 DEF EventsOK
    <3> QED BY <3>2, <3>3
  <2> QED BY <1>2, <1>4, <2>1 DEF KeepsOrder
<1> QED BY <1>3, <1>4 DEF t, acked

LEMMA StartedCommitInStep ==
  ASSUME RInv, MInv, NEW accepted \in BOOLEAN, StartedCommit(accepted), NEW j \in Jobs,
         faults = 0 => Sent(prog.job)
  PROVE  InStep(j) /\ prog'.job # j
<1>1. st \in DurableState /\ prog.job \in Jobs /\ j # None
  BY NoneAssumption DEF RInv, IInv, StatesOK, ProgressOK, StartedCommit
<1>2. IsKnown(prog.job) /\ prog.job \in st.apple_pending
  BY DEF MInv, ProgM, StartedCommit
<1>3. /\ prog' = NoProgress
      /\ st' = Deduplicated([st EXCEPT !.acknowledged = st.acknowledged \cup {prog.job}],
                            prog.job, 1, "started")
      /\ SaveState(accepted)
  BY DEF StartedCommit
<1>4. faults' = 0 => faults = 0 /\ stDisk' = st'
  BY <1>3, NoFault
<1>5. faults = 0 => KeepsOrder(st, st', j)
  BY <1>1, <1>2, <1>3, StartedKeepsOrder DEF IsKnown, Sent
<1> QED BY <1>1, <1>3, <1>4, <1>5, InStepByStates DEF NoProgress

\* The event that ends a job is its number 2.
LEMMA TerminalKeepsOrder ==
  ASSUME NEW s \in DurableState, NEW k \in Jobs, NEW kind \in Kinds, NEW j \in Jobs
  PROVE  KeepsOrder(s, Deduplicated([s EXCEPT !.apple_pending = s.apple_pending \ {k},
                                            !.cancelled = s.cancelled \ {k}],
                                  k, 2, kind), j)
<1> DEFINE over == [s EXCEPT !.apple_pending = s.apple_pending \ {k},
                             !.cancelled = s.cancelled \ {k}]
           t    == Deduplicated(over, k, 2, kind)
           e    == s.events[k]
<1>1. over \in DurableState /\ over.events = s.events /\ e \in Seq(Event)
  BY DEF DurableState
<1>2. /\ t.job = s.job /\ t.acknowledged = s.acknowledged
      /\ t.dispatched = s.dispatched /\ t.apple_pending = s.apple_pending \ {k}
      /\ \A i \in Jobs \ {k} : t.events[i] = s.events[i]
      /\ t.events[k] = IF \E i \in DOMAIN e : e[i].sequence = 2 THEN e
                       ELSE Append(e, [sequence |-> 2, kind |-> kind])
  BY <1>1 DEF Deduplicated, AddEvent, DurableState
<1> HIDE DEF t, over
<1>3. ASSUME j # k PROVE KeepsOrder(s, t, j)
  BY <1>2, <1>3, KeepsOrderByFlags
<1>4. ASSUME j = k PROVE KeepsOrder(s, t, j)
  <2>1. ASSUME EventsOK(s, k) PROVE EventsOK(t, k)
    <3>1. Ascends(e) /\ \A i \in DOMAIN e : e[i].sequence \in {1, 2}
      BY <2>1 DEF EventsOK
    <3>2. CASE \E i \in DOMAIN e : e[i].sequence = 2
      BY <1>2, <2>1, <3>1, <3>2 DEF EventsOK
    <3>3. CASE ~\E i \in DOMAIN e : e[i].sequence = 2
      <4> DEFINE f == Append(e, [sequence |-> 2, kind |-> kind])
      <4>1. \A i \in DOMAIN e : e[i].sequence < 2
        BY <3>1, <3>3
      <4>2. /\ Ascends(f)
            /\ \A i \in DOMAIN f : f[i].sequence = 2 \/ (i \in DOMAIN e /\ f[i] = e[i])
        BY <1>1, <3>1, <4>1, AppendAscends
      <4>3. t.events[k] = f
        BY <1>2, <3>3
      <4> HIDE DEF f
      <4>4. \A i \in DOMAIN f : f[i].sequence \in {1, 2}
        BY <3>1, <4>2
      <4> QED BY <1>2, <2>1, <4>2, <4>3, <4>4 DEF EventsOK
    <3> QED BY <3>2, <3>3
  <2> QED BY <1>2, <1>4, <2>1 DEF KeepsOrder
<1> QED BY <1>3, <1>4 DEF t, over

LEMMA ForgetPeersKeepsOrder ==
  ASSUME NEW s \in DurableState, NEW S, NEW j PROVE KeepsOrder(s, ForgetPeers(s, S), j)
<1>1. /\ ForgetPeers(s, S).job = s.job /\ ForgetPeers(s, S).events = s.events
      /\ ForgetPeers(s, S).apple_pending = s.apple_pending
      /\ ForgetPeers(s, S).acknowledged = s.acknowledged
      /\ ForgetPeers(s, S).dispatched = s.dispatched
  BY DEF ForgetPeers, DurableState
<1> QED BY <1>1, KeepsOrderByFlags

LEMMA TerminalBeginInStep ==
  ASSUME RInv, NEW a, NEW k \in Jobs, NEW kind \in Kinds, TerminalBegin(a, k, kind),
         NEW j \in Jobs
  PROVE  InStep(j) /\ prog'.terminal
<1> DEFINE over == [st EXCEPT !.apple_pending = st.apple_pending \ {k},
                              !.cancelled = st.cancelled \ {k}]
           told == Deduplicated(over, k, 2, kind)
<1>1. st \in DurableState
  BY DEF RInv, IInv, StatesOK
<1>2. told \in DurableState
  <2>1. over \in DurableState
    BY <1>1 DEF DurableState
  <2> QED BY <2>1, DeduplicatedType
<1>3. /\ st' = ForgetPeers(told, WrittenBy(book, k) \cap book.pending_detach)
      /\ UNCHANGED <<stDisk, faults>>
      /\ prog' = [job |-> k, restored |-> FALSE, terminal |-> TRUE]
  BY DEF TerminalBegin
<1>4. KeepsOrder(st, told, j)
  BY <1>1, TerminalKeepsOrder
<1> HIDE DEF told
<1>5. KeepsOrder(st, st', j)
  BY <1>2, <1>3, <1>4, ForgetPeersKeepsOrder, KeepsOrderIsTransitive
<1> QED BY <1>3, <1>5, InStepByStates

LEMMA TerminalCommitInStep ==
  ASSUME RInv, NEW accepted, TerminalCommit(accepted), NEW j \in Jobs
  PROVE  InStep(j) /\ prog'.job # j
<1>1. /\ st' = st /\ prog' = NoProgress
      /\ faults' = 0 => faults = 0 /\ stDisk' = st'
  BY NoFault DEF TerminalCommit
<1> QED BY <1>1, InStepByStates, KeepsOrderSame, NoneAssumption DEF NoProgress

LEMMA CrashInStep ==
  ASSUME RInv, Crash, NEW j \in Jobs PROVE InStep(j) /\ prog'.job # j
<1>1. st' = stDisk' /\ stDisk' = stDisk /\ faults' = faults /\ prog' = NoProgress
  BY DEF Crash, LoseMemory
<1> QED BY <1>1, InStepByStates, NoneAssumption DEF NoProgress

LEMMA RestartInStep ==
  ASSUME RInv, Restart, NEW j \in Jobs PROVE InStep(j) /\ prog' = prog
<1>1. /\ \E S : st' = ForgetPeers(stDisk, S)
      /\ stDisk' = st' /\ UNCHANGED <<faults, prog>>
  BY DEF Restart, ReconciledState
<1>2. KeepsOrder(stDisk, st', j)
  BY <1>1, ForgetPeersKeepsOrder DEF RInv, IInv, StatesOK
<1> QED BY <1>1, <1>2 DEF InStep, KeepsOrder, EventsOK, Sent

\* A step that neither sends the start of a job nor begins to handle one.
NoStart ==
  /\ \A j \in Jobs : Request("started", j, None) \in sent' =>
       Request("started", j, None) \in sent
  /\ \A j \in Jobs : prog'.job = j /\ ~prog'.terminal =>
       prog.job = j /\ ~prog.terminal

LEMMA OrderByStep ==
  ASSUME OrderM, \A j \in Jobs : InStep(j),
         \A j \in Jobs : Request("started", j, None) \in sent' =>
           Request("started", j, None) \in sent \/ Sent(j),
         \A j \in Jobs : prog'.job = j /\ ~prog'.terminal =>
           (prog.job = j /\ ~prog.terminal) \/ (faults = 0 => Sent(j))
  PROVE  OrderM'
<1> SUFFICES ASSUME faults' = 0, NEW j \in Jobs PROVE OrderOf(j)'
  BY DEF OrderM
<1>1. /\ OrderOf(j) /\ faults = 0 /\ (Sent(j) => Sent(j)')
      /\ EventsOK(st, j)' /\ EventsOK(stDisk, j)'
  BY DEF OrderM, InStep, OrderOf
<1> QED BY <1>1 DEF OrderOf

LEMMA OrderWithoutStart ==
  ASSUME OrderM, \A j \in Jobs : InStep(j), NoStart PROVE OrderM'
BY OrderByStep DEF NoStart

\* A step of an agent alone.
LEMMA OrderBesideRegistry ==
  ASSUME OrderM, UNCHANGED <<st, stDisk, faults, prog>>,
         \A j \in Jobs : Request("started", j, None) \in sent' =>
           Request("started", j, None) \in sent \/ Sent(j)
  PROVE  OrderM'
BY OrderByStep, InStepResting

LEMMA OtherRequests ==
  \A j, k, l, kind : /\ Request("started", j, None) # Request("complete", k, l)
                     /\ Request("started", j, None) # Request("terminal", k, kind)
                     /\ Request("started", j, None) # Request("validate", k, l)
                     /\ Request("started", j, None) = Request("started", k, None) => j = k
BY DEF Request

LEMMA LoopKeepsOrder ==
  ASSUME RInv, MInv, OrderM, NEW a \in Agents, LoopStep(a) \/ AgentCrash(a)
  PROVE  OrderM'
<1>1. CASE Heartbeat(a)
  <2>1. PICK S \in Inventories[a] : HeartbeatInventory(a, HostOf[a], S)
    BY <1>1 DEF Heartbeat
  <2>2. \A j \in Jobs : InStep(j)
    BY <2>1, InventoryInStep
  <2>3. prog' = prog /\ sent' = sent
    BY <1>1, <2>1 DEF Heartbeat, agentVars, HeartbeatInventory
  <2> QED BY <2>2, <2>3, OrderWithoutStart DEF NoStart
<1>2. CASE StartJob(a)
  <2>1. UNCHANGED <<st, stDisk, faults, prog>>
        /\ sent' = sent \cup {Request("started", wire[a].apple, None)}
    BY <1>2 DEF StartJob
  <2>2. \A j \in Jobs : j = wire[a].apple => Sent(j)
    BY DEF MInv, WireM
  <2> QED BY <2>1, <2>2, OtherRequests, OrderBesideRegistry
<1>3. CASE ReadReply(a)
  <2>1. /\ UNCHANGED <<st, stDisk, faults, prog>>
        /\ sent' = sent \/ sent' = sent \cup {Request("complete", wire[a].job, None)}
    BY <1>3 DEF ReadReply
  <2> QED BY <2>1, OtherRequests, OrderBesideRegistry
<1>4. CASE CompleteAgain(a)
  <2>1. /\ UNCHANGED <<st, stDisk, faults, prog>>
        /\ sent' = sent \cup {Request("complete", completing[a], None)}
    BY <1>4 DEF CompleteAgain, vars
  <2> QED BY <2>1, OtherRequests, OrderBesideRegistry
<1>5. CASE ReplyDone(a) \/ ReplyLost(a) \/ CompleteGivesUp(a) \/ AgentCrash(a)
  <2>1. UNCHANGED <<st, stDisk, faults, prog>> /\ sent' \subseteq sent
    BY <1>5 DEF ReplyDone, ReplyLost, ReplyTaken, CompleteGivesUp, AgentCrash, agentVars,
                vars
  <2> QED BY <2>1, OrderBesideRegistry
<1> QED BY <1>1, <1>2, <1>3, <1>4, <1>5 DEF LoopStep

LEMMA ThreadKeepsOrder ==
  ASSUME RInv, MInv, OrderM, NEW k \in Jobs, ThreadStep(k)
  PROVE  OrderM'
<1>1. UNCHANGED <<st, stDisk, faults, prog>>
  BY DEF ThreadStep, StartAcknowledged, StartGivesUp, BeginValidation, Execute,
         ValidationFails, Finish, EndAcknowledged, Resend, Ends, Moves, vars
<1>2. CASE Resend(k)
  <2>1. sent' = sent \cup Outstanding(k)
    BY <1>2 DEF Resend
  <2>2. \A j \in Jobs : Request("started", j, None) \in Outstanding(k) => Sent(j)
    <3>1. phase[k] = "starting" => Sent(k)
      BY DEF MInv, StartM
    <3>2. phase[k] # "starting" => \A j : Request("started", j, None) \notin Outstanding(k)
      BY OtherRequests DEF Outstanding
    <3>3. phase[k] = "starting" => Outstanding(k) = {Request("started", k, None)}
      BY DEF Outstanding
    <3> QED BY <3>1, <3>2, <3>3, OtherRequests
  <2> QED BY <1>1, <2>1, <2>2, OrderBesideRegistry
<1>3. CASE \E from, kind : Ends(k, from, kind)
  <2>1. \E last : sent' = sent \cup {Request("terminal", k, last)}
    BY <1>3 DEF Ends
  <2> QED BY <1>1, <2>1, OtherRequests, OrderBesideRegistry
<1>4. CASE BeginValidation(k)
  <2>1. sent' = sent \cup {Request("validate", k, None)}
    BY <1>4 DEF BeginValidation
  <2> QED BY <1>1, <2>1, OtherRequests, OrderBesideRegistry
<1>5. CASE sent' = sent
  BY <1>1, <1>5, OrderBesideRegistry
<1> QED BY <1>2, <1>3, <1>4, <1>5
        DEF ThreadStep, StartAcknowledged, StartGivesUp, Execute, ValidationFails, Finish,
            EndAcknowledged

LEMMA HandleKeepsOrder ==
  ASSUME RInv, MInv, OrderM, Handle PROVE OrderM'
<1>1. ASSUME NEW k \in Jobs, HandleStarted(k) PROVE OrderM'
  <2>1. PICK accepted \in BOOLEAN : StartedBegin(AgentOf(k), k, accepted)
    BY <1>1 DEF HandleStarted
  <2>2. \A j \in Jobs : InStep(j) /\ (prog'.job = j => j = k)
    BY <2>1, StartedBeginInStep
  <2>3. Request("started", k, None) \in sent /\ sent' \subseteq sent
    BY <1>1, TakeTakes DEF HandleStarted
  <2>4. faults = 0 => Sent(k)
    BY <2>3 DEF OrderM, OrderOf
  <2> QED BY <2>2, <2>3, <2>4, OrderByStep
<1>2. ASSUME NEW k \in Jobs, HandleTerminal(k) PROVE OrderM'
  <2>1. PICK kind \in Kinds : /\ Take(Request("terminal", k, kind))
                              /\ TerminalBegin(AgentOf(k), k, kind)
    BY <1>2 DEF HandleTerminal
  <2>2. \A j \in Jobs : InStep(j) /\ prog'.terminal
    BY <2>1, TerminalBeginInStep
  <2>3. sent' \subseteq sent
    BY <2>1, TakeTakes
  <2> QED BY <2>2, <2>3, OrderWithoutStart DEF NoStart
<1>3. ASSUME NEW k \in Jobs, HandleValidate(k) PROVE OrderM'
  <2>1. /\ \E active \in BOOLEAN : ValidateLease(AgentOf(k), k, shown[k], active)
        /\ Take(Request("validate", k, None))
    BY <1>3 DEF HandleValidate
  <2>2. prog' = prog /\ sent' \subseteq sent
    BY <2>1, TakeTakes DEF ValidateLease, LeaseFrame
  <2>3. \A j \in Jobs : InStep(j)
    BY <2>1, LeasesInStep
  <2> QED BY <2>2, <2>3, OrderWithoutStart DEF NoStart
<1>4. CASE HandleCommit
  <2>1. PICK accepted \in BOOLEAN : StartedCommit(accepted) \/ TerminalCommit(accepted)
    BY <1>4 DEF HandleCommit
  <2>2. sent' = sent
    BY <1>4 DEF HandleCommit
  <2>3. ASSUME StartedCommit(accepted) PROVE faults = 0 => Sent(prog.job)
    BY <2>3 DEF OrderM, OrderOf, StartedCommit, RInv, IInv, ProgressOK
  <2>4. \A j \in Jobs : InStep(j) /\ prog'.job # j
    BY <2>1, <2>3, StartedCommitInStep, TerminalCommitInStep
  <2> QED BY <2>2, <2>4, OrderWithoutStart DEF NoStart
<1>5. ASSUME NEW r, Take(Request("complete", r, None)),
             Complete(r) \/ UNCHANGED vars
      PROVE  OrderM'
  <2>1. sent' \subseteq sent
    BY <1>5, TakeTakes
  <2>2. CASE Complete(r)
    <3>1. \A j \in Jobs : InStep(j)
      BY <2>2, RunsInStep
    <3>2. prog' \in {prog, NoProgress}
      BY <2>2 DEF Complete, PersistOrPanic, Panic, LoseMemory
    <3>3. \A j \in Jobs : j # NoProgress.job
      BY NoneAssumption DEF NoProgress
    <3> QED BY <2>1, <3>1, <3>2, <3>3, OrderWithoutStart DEF NoStart
  <2>3. CASE UNCHANGED vars
    BY <2>1, <2>3, OrderBesideRegistry DEF vars
  <2> QED BY <1>5, <2>2, <2>3
<1> QED BY <1>1, <1>2, <1>3, <1>4, <1>5 DEF Handle, HandleComplete, HandleLateComplete

LEMMA ClientKeepsOrder ==
  ASSUME RInv, OrderM, NEW c \in Clients, ClientRequest(c), sent' = sent
  PROVE  OrderM'
<1>1. \A j \in Jobs : InStep(j)
  <2> SUFFICES ASSUME NEW j \in Jobs PROVE InStep(j)
    OBVIOUS
  <2>1. ASSUME NEW k \in Jobs, NEW l, AppleRunSubmit(c, k, l) PROVE InStep(j)
    BY <2>1, AppleRunSubmitInStep
  <2>2. ASSUME NEW k \in Jobs, AppleCancel(c, k) PROVE InStep(j)
    BY <2>2, AppleCancelInStep
  <2> QED BY <2>1, <2>2, LeasesInStep, ExpiriesInStep DEF ClientRequest
<1>2. prog' \in {prog, NoProgress}
  BY DEF ClientRequest, AcquireLease, QueueLease, RenewLease, ReleaseLease,
         DisconnectClient, LeaseFrame, AppleRunCheck, AppleRunSubmit, AppleCancel,
         PersistOrPanic, Panic, LoseMemory
<1>3. \A j \in Jobs : j # NoProgress.job
  BY NoneAssumption DEF NoProgress
<1> QED BY <1>1, <1>2, <1>3, OrderWithoutStart DEF NoStart

LEMMA RegistryKeepsOrder ==
  ASSUME RInv, OrderM, RegistryAlone \/ RegistryCrash PROVE OrderM'
<1>1. sent' \subseteq sent
  BY DEF RegistryAlone, RegistryCrash, agentVars
<1>2. ASSUME NEW a, HeartbeatExpire(a) \/ HeartbeatDispatch(a) PROVE OrderM'
  <2>1. prog' = prog /\ \A j \in Jobs : InStep(j)
    BY <1>2, ExpiriesInStep, DispatchInStep DEF HeartbeatExpire, HeartbeatDispatch
  <2> QED BY <1>1, <2>1, OrderWithoutStart DEF NoStart
<1>3. ASSUME NEW r, Run(r) PROVE OrderM'
  <2>1. /\ \A j \in Jobs : InStep(j)
        /\ prog' \in {prog, NoProgress}
    BY <1>3, RunsInStep DEF Run, PersistOrPanic, Panic, LoseMemory
  <2>2. \A j \in Jobs : j # NoProgress.job
    BY NoneAssumption DEF NoProgress
  <2> QED BY <1>1, <2>1, <2>2, OrderWithoutStart DEF NoStart
<1>4. CASE \/ \E h : HostGoesOffline(h)
           \/ \E l : ClockMoves(l)
  <2>1. UNCHANGED <<st, stDisk, faults, prog>>
    BY <1>4 DEF HostGoesOffline, ClockMoves
  <2> QED BY <1>1, <2>1, OrderBesideRegistry
<1>5. CASE Restart
  BY <1>1, <1>5, RestartInStep, OrderWithoutStart DEF NoStart
<1>6. CASE Crash
  BY <1>1, <1>6, CrashInStep, OrderWithoutStart DEF NoStart
<1>7. ASSUME NEW c \in Clients, ClientRequest(c), sent' = sent PROVE OrderM'
  BY <1>7, ClientKeepsOrder
<1> QED BY <1>2, <1>3, <1>4, <1>5, <1>6, <1>7
        DEF RegistryAlone, RegistryCrash, agentVars

LEMMA OrderStartsEmpty == MeshInit => OrderM
<1> SUFFICES ASSUME MeshInit, NEW j \in Jobs PROVE OrderOf(j)
  BY DEF OrderM
<1>1. /\ sent = {} /\ prog = NoProgress /\ st = EmptyState /\ stDisk = EmptyState
  BY DEF MeshInit, Init
<1>2. /\ EmptyState.events[j] = << >> /\ DOMAIN EmptyState.events[j] = {}
      /\ EmptyState.apple_pending = {} /\ EmptyState.acknowledged = {}
  BY DEF EmptyState
<1>3. EventsOK(EmptyState, j)
  BY <1>2 DEF EventsOK, Ascends
<1> QED BY <1>1, <1>3, NoneAssumption DEF OrderOf, NoProgress

LEMMA MeshKeepsOrder ==
  RInv /\ MInv /\ OrderM /\ [MeshNext]_meshVars => OrderM'
<1> SUFFICES ASSUME RInv, MInv, OrderM, [MeshNext]_meshVars PROVE OrderM'
  OBVIOUS
<1>1. CASE UNCHANGED meshVars
  <2>1. UNCHANGED <<st, stDisk, faults, prog>> /\ sent' = sent
    BY <1>1 DEF meshVars, vars, agentVars
  <2> QED BY <2>1, OrderBesideRegistry
<1>2. CASE MeshNext
  BY <1>2, LoopKeepsOrder, ThreadKeepsOrder, HandleKeepsOrder, RegistryKeepsOrder
     DEF MeshNext
<1> QED BY <1>1, <1>2

\* As long as no write fails, a job's events are numbered in ascending order, in
\* memory and on disk, whatever the network loses, repeats or delays and whoever
\* crashes (the sequence numbers that handle() gives to a rejection in
\* Heartbeat, to AppleCancel's event and to those of AppleProgress).
THEOREM EventsStayInOrder == MeshSpec => []EventsInOrder
<1>1. MeshSpec => []OrderM
  BY MeshInvariantsHold, OrderStartsEmpty, MeshKeepsOrder, PTL DEF MeshSpec
<1>2. OrderM => EventsInOrder
  <2> SUFFICES ASSUME OrderM, faults = 0, NEW s \in {st, stDisk}, NEW j \in Jobs,
                      NEW i \in DOMAIN s.events[j], NEW k \in DOMAIN s.events[j], i < k
               PROVE  s.events[j][i].sequence < s.events[j][k].sequence
    BY DEF EventsInOrder
  <2>1. Ascends(st.events[j]) /\ Ascends(stDisk.events[j])
    BY DEF OrderM, OrderOf, EventsOK
  <2> QED BY <2>1 DEF Ascends
<1> QED BY <1>1, <1>2, PTL
=============================================================================
