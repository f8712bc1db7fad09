-------------------------------- MODULE Mesh --------------------------------
(***************************************************************************)
(* The registry composed with the agents that run its jobs                  *)
(* (src/src/bin/mesh-agent.rs) over a network that delays and duplicates    *)
(* requests and loses requests and replies.                                 *)
(*                                                                         *)
(* An agent is one loop, which heartbeats and starts jobs, and one thread   *)
(* for each job.  `phase` is where the thread of a job is:                  *)
(*   idle         not in `running`                                          *)
(*   starting     its "started" event is being sent, by the loop itself     *)
(*   waiting      acknowledged; waits for the agent's own device mutex      *)
(*   validating   asks the registry whether its lease is active             *)
(*   executing    the tool runs                                             *)
(*   terminating  its last event is being sent, for as long as it takes     *)
(*                                                                         *)
(* `sent` holds the requests that the registry may still handle, those of   *)
(* attempts that have timed out included.  `replied` are the jobs whose     *)
(* outstanding request was answered with success: an error reply and a lost *)
(* one lead an agent to the same next step and are both left out.           *)
(***************************************************************************)
EXTENDS Registry

CONSTANTS HostOf,           \* the host id each agent was started with (--id)
          Inventories,      \* the device lists an agent may discover
          Lossy,            \* replies are lost, and requests handled twice
          MaxAgentCrashes   \* bound on the agents' crashes

ASSUME MeshAssumption ==
  /\ HostOf \in [Agents -> Hosts]
  /\ \A a, b \in Agents : HostOf[a] = HostOf[b] => a = b
  /\ Inventories \in [Agents -> SUBSET SUBSET Devices]
  /\ Lossy \in BOOLEAN
  /\ MaxAgentCrashes \in Nat
  /\ None \notin Lease

VARIABLES
  phase,      \* where the thread of each job is
  shown,      \* the lease id in the grant the job was started with
  token,      \* the job's CancellationToken
  outcome,    \* the kind of the job's last event
  sent,       \* requests in the network
  replied,    \* jobs whose outstanding request was accepted
  completing, \* the job id with which each agent's loop is in complete()
  ran,        \* history: the jobs whose tool was ever started
  agentCrashes

threadVars == <<phase, shown, token, outcome, ran>>
agentVars  == <<threadVars, sent, replied, completing, agentCrashes>>
meshVars   == <<vars, agentVars>>

Request(type, j, k) == [type |-> type, job |-> j, kind |-> k]

MeshInit ==
  /\ Init
  /\ phase = [j \in Jobs |-> "idle"]
  /\ shown = [j \in Jobs |-> 0]
  /\ token = [j \in Jobs |-> FALSE]
  /\ outcome = [j \in Jobs |-> "rejected"]
  /\ sent = {}
  /\ replied = {}
  /\ completing = [a \in Agents |-> None]
  /\ ran = {}
  /\ agentCrashes = 0

AgentOf(j) == st.job[j].agent
Running    == {j \in Jobs : phase[j] # "idle"}

-----------------------------------------------------------------------------
(***************************************************************************)
(* The loop.  It is busy while it waits for a reply, completes a manifest   *)
(* job or gets a job's start acknowledged.                                  *)
(***************************************************************************)
LoopIsFree(a) ==
  /\ completing[a] = None
  /\ \A j \in Jobs : phase[j] = "starting" => AgentOf(j) # a

Heartbeat(a) ==
  /\ LoopIsFree(a)
  /\ \E S \in Inventories[a] : HeartbeatInventory(a, HostOf[a], S)
  /\ UNCHANGED agentVars

\* The reply is read: jobs are told to cancel, then a manifest job is run and
\* reported under the reply's job id, ...
ReadReply(a) ==
  /\ LoopIsFree(a)
  /\ wire[a].cancel # {} \/ wire[a].run # None
  /\ token' = [j \in Jobs |-> token[j] \/ j \in wire[a].cancel \cap Running]
  /\ wire' = [wire EXCEPT ![a].cancel = {}, ![a].run = None]
  /\ completing' = IF wire[a].run = None THEN completing
                   ELSE [completing EXCEPT ![a] = wire[a].job]
  /\ sent' = IF wire[a].run = None THEN sent
             ELSE sent \cup {Request("complete", wire[a].job, None)}
  /\ UNCHANGED <<up, book, bookDisk, st, stDisk, entries, hb, checked, prog,
                 overdue, faults, crashes, granted, phase, shown, outcome, replied, ran,
                 agentCrashes>>

Startable(a) ==
  /\ LoopIsFree(a)
  /\ wire[a].cancel = {} /\ wire[a].run = None
  /\ wire[a].apple \notin {None} \cup Running

\* ... then the Apple job is started, unless its thread is still there.
StartJob(a) ==
  LET j == wire[a].apple
  IN  /\ Startable(a)
      /\ phase' = [phase EXCEPT ![j] = "starting"]
      /\ shown' = [shown EXCEPT ![j] = wire[a].grant]
      /\ token' = [token EXCEPT ![j] = FALSE]
      /\ sent'  = sent \cup {Request("started", j, None)}
      /\ replied' = replied \ {j}
      /\ wire'  = [wire EXCEPT ![a] = ErrorResponse]
      /\ UNCHANGED <<up, book, bookDisk, st, stDisk, entries, hb, checked, prog,
                     overdue, faults, crashes, granted, outcome, ran,
                     completing, agentCrashes>>

\* Nothing is left to do with the reply, ...
ReplyDone(a) ==
  /\ LoopIsFree(a)
  /\ wire[a].cancel = {} /\ wire[a].run = None
  /\ wire[a].apple \in {None} \cup Running
  /\ ReplyTaken(a)
  /\ UNCHANGED agentVars

\* ... or it never reaches the agent.
ReplyLost(a) == Lossy /\ ReplyTaken(a) /\ UNCHANGED agentVars

\* complete() tries again, ...
CompleteAgain(a) ==
  LET r == Request("complete", completing[a], None)
  IN  /\ completing[a] # None
      /\ r \notin sent
      /\ sent' = sent \cup {r}
      /\ UNCHANGED <<vars, threadVars, replied, completing, agentCrashes>>

\* ... and gives up after fifteen seconds.
CompleteGivesUp(a) ==
  /\ Lossy
  /\ completing[a] # None
  /\ completing' = [completing EXCEPT ![a] = None]
  /\ UNCHANGED <<vars, threadVars, sent, replied, agentCrashes>>

-----------------------------------------------------------------------------
(***************************************************************************)
(* The thread of a job.                                                     *)
(***************************************************************************)
Moves(j, from, to) ==
  /\ phase[j] = from
  /\ phase' = [phase EXCEPT ![j] = to]
  /\ replied' = replied \ {j}
  /\ UNCHANGED <<vars, shown, token, completing, agentCrashes>>

\* job_terminal_event, and the first attempt to send it.
Ends(j, from, kind) ==
  LET last == IF token[j] THEN "cancelled" ELSE kind
  IN  /\ Moves(j, from, "terminating")
      /\ outcome' = [outcome EXCEPT ![j] = last]
      /\ sent' = sent \cup {Request("terminal", j, last)}
      /\ UNCHANGED ran

\* Acknowledged, and accepted or rejected by the agent's own checks.
StartAcknowledged(j) ==
  /\ j \in replied
  /\ \/ /\ Moves(j, "starting", "waiting")
        /\ UNCHANGED <<sent, ran, outcome>>
     \/ Ends(j, "starting", "rejected")

\* Not accepted in twenty attempts.
StartGivesUp(j) == Ends(j, "starting", "rejected")

\* device_writers: one job of the agent at a time validates and executes on a
\* device.
DeviceIsFree(j) ==
  \A k \in Mutating \ {j} :
    DeviceOf[k] = DeviceOf[j] /\ AgentOf(k) = AgentOf(j)
      => phase[k] \notin {"validating", "executing"}

BeginValidation(j) ==
  /\ j \in Mutating
  /\ DeviceIsFree(j)
  /\ Moves(j, "waiting", "validating")
  /\ sent' = sent \cup {Request("validate", j, None)}
  /\ UNCHANGED <<ran, outcome>>

\* The tool is started: after an active lease was seen, or without one when
\* the job does not mutate its device.
Execute(j) ==
  /\ \/ j \in Mutating /\ j \in replied /\ Moves(j, "validating", "executing")
     \/ j \notin Mutating /\ Moves(j, "waiting", "executing")
  /\ ran' = ran \cup {j}
  /\ UNCHANGED <<sent, outcome>>

\* Denied, or no answer in three attempts.
ValidationFails(j) == Ends(j, "validating", "rejected")

Finish(j) == \E k \in {"completed", "rejected"} : Ends(j, "executing", k)

\* Mutant of EndAcknowledged: the thread does not wait for the acknowledgement.
EndUnacknowledged(j) ==
  /\ Moves(j, "terminating", "idle")
  /\ UNCHANGED <<sent, ran, outcome>>

\* The last event is durable: the job leaves `running`.
EndAcknowledged(j) ==
  /\ j \in replied
  /\ Moves(j, "terminating", "idle")
  /\ UNCHANGED <<sent, ran, outcome>>

\* Mutant of Outstanding: the last event is sent once.
OutstandingOnce(j) ==
  CASE phase[j] = "starting"   -> {Request("started", j, None)}
    [] phase[j] = "validating" -> {Request("validate", j, None)}
    [] OTHER                   -> {}

\* The request of a phase is sent again until it is answered.
Outstanding(j) ==
  CASE phase[j] = "starting"    -> {Request("started", j, None)}
    [] phase[j] = "validating"  -> {Request("validate", j, None)}
    [] phase[j] = "terminating" -> {Request("terminal", j, outcome[j])}
    [] OTHER                    -> {}

Resend(j) ==
  /\ j \notin replied
  /\ ~(Outstanding(j) \subseteq sent)
  /\ sent' = sent \cup Outstanding(j)
  /\ UNCHANGED <<vars, threadVars, replied, completing, agentCrashes>>

ThreadStep(j) ==
  \/ StartAcknowledged(j) \/ StartGivesUp(j)
  \/ BeginValidation(j) \/ Execute(j) \/ ValidationFails(j) \/ Finish(j)
  \/ EndAcknowledged(j) \/ Resend(j)

-----------------------------------------------------------------------------
(***************************************************************************)
(* The registry handles a request; in a lossy network an earlier attempt at *)
(* the same request may still be on its way.                                *)
(***************************************************************************)
Take(r) ==
  /\ r \in sent
  /\ \/ sent' = sent \ {r}
     \/ Lossy /\ sent' = sent

Replies(j, success) ==
  \/ success /\ replied' = replied \cup {j}
  \/ (~success \/ Lossy) /\ replied' = replied

HandleStarted(j) ==
  /\ Take(Request("started", j, None))
  /\ \E accepted \in BOOLEAN : StartedBegin(AgentOf(j), j, accepted)
  /\ UNCHANGED <<threadVars, replied, completing, agentCrashes>>

HandleTerminal(j) ==
  \E k \in Kinds :
    /\ Take(Request("terminal", j, k))
    /\ TerminalBegin(AgentOf(j), j, k)
    /\ UNCHANGED <<threadVars, replied, completing, agentCrashes>>

\* The second half of an AppleProgress, and its reply.
HandleCommit ==
  /\ \E accepted \in BOOLEAN :
       \/ /\ StartedCommit(accepted)
          /\ Replies(prog.job, accepted /\ phase[prog.job] = "starting")
       \/ /\ TerminalCommit(accepted)
          /\ Replies(prog.job, accepted /\ phase[prog.job] = "terminating")
  /\ UNCHANGED <<threadVars, sent, completing, agentCrashes>>

HandleValidate(j) ==
  /\ Take(Request("validate", j, None))
  /\ \E active \in BOOLEAN :
       /\ ValidateLease(AgentOf(j), j, shown[j], active)
       /\ Replies(j, active /\ phase[j] = "validating")
  /\ UNCHANGED <<threadVars, completing, agentCrashes>>

\* Any job id is accepted; only a pending manifest job makes a difference.
HandleComplete(a) ==
  LET id == completing[a]
  IN  /\ Take(Request("complete", id, None))
      /\ IF id \in st.pending THEN Complete(id) ELSE Ready /\ UNCHANGED vars
      /\ \/ up' /\ completing' = [completing EXCEPT ![a] = None]
         \/ (Lossy \/ ~up') /\ completing' = completing
      /\ UNCHANGED <<threadVars, replied, agentCrashes>>

\* The request of a complete() that has given up.
HandleLateComplete(r) ==
  /\ \A a \in Agents : completing[a] # r
  /\ Take(Request("complete", r, None))
  /\ Complete(r)
  /\ UNCHANGED <<threadVars, replied, completing, agentCrashes>>

-----------------------------------------------------------------------------
\* The registry crashes, and with it the connections to it.
RegistryCrash ==
  /\ Crash
  /\ sent' = {}
  /\ UNCHANGED <<threadVars, replied, completing, agentCrashes>>

\* The agent's process dies and starts again: it knows none of its jobs, the
\* tools it ran die with it, and so do its jobs' connections to the registry.
AgentCrash(a) ==
  LET lost == {j \in Running : AgentOf(j) = a}
  IN  /\ agentCrashes < MaxAgentCrashes
      /\ agentCrashes' = agentCrashes + 1
      /\ hb[a] = IdleBeat
      /\ phase' = [j \in Jobs |-> IF j \in lost THEN "idle" ELSE phase[j]]
      /\ replied' = replied \ lost
      /\ sent' = {r \in sent : r.job \notin lost}
      /\ completing' = [completing EXCEPT ![a] = None]
      /\ wire' = [wire EXCEPT ![a] = ErrorResponse]
      /\ UNCHANGED <<up, book, bookDisk, st, stDisk, entries, hb, checked, prog,
                     overdue, faults, crashes, granted, shown, token, outcome,
                     ran>>

\* The registry's steps that no agent takes part in.
RegistryAlone ==
  /\ \/ \E a \in Agents : HeartbeatExpire(a) \/ HeartbeatDispatch(a)
     \/ \E c \in Clients : ClientRequest(c)
     \/ \E r \in Runs : Run(r)
     \/ \E h \in Hosts : HostGoesOffline(h)
     \/ \E l \in LeaseIds : ClockMoves(l)
     \/ Restart
  /\ UNCHANGED agentVars

LoopStep(a) ==
  \/ Heartbeat(a) \/ ReadReply(a) \/ StartJob(a)
  \/ ReplyDone(a) \/ ReplyLost(a)
  \/ CompleteAgain(a) \/ CompleteGivesUp(a)

Handle == \/ \E j \in Jobs : HandleStarted(j) \/ HandleTerminal(j) \/ HandleValidate(j)
          \/ HandleCommit
          \/ \E a \in Agents : HandleComplete(a)
          \/ \E r \in Runs : HandleLateComplete(r)

MeshNext ==
  \/ \E a \in Agents : LoopStep(a) \/ AgentCrash(a)
  \/ \E j \in Jobs : ThreadStep(j)
  \/ Handle
  \/ RegistryAlone
  \/ RegistryCrash

MeshSpec == MeshInit /\ [][MeshNext]_meshVars

(***************************************************************************)
(* Fairness.  The loop and the threads of an agent never stop, every retry  *)
(* of theirs is bounded or goes on for ever, a tool ends (60 seconds, or 30 *)
(* minutes for the hardware gate), and the registry serves each connection  *)
(* in a thread of its own.  A step that waits for the registry's mutex may  *)
(* find it taken again and again, so it is strongly fair; so is a reply,    *)
(* which is not lost for ever.  Nothing is assumed of clients, of the clock *)
(* or of manifest jobs' requests being handled twice.                       *)
(***************************************************************************)
Alone(A) == A /\ UNCHANGED agentVars

AgentFairness ==
  \A a \in Agents :
    /\ SF_meshVars(Heartbeat(a))
    /\ WF_meshVars(Alone(HeartbeatExpire(a)))
    /\ SF_meshVars(Alone(HeartbeatDispatch(a)))
    /\ SF_meshVars(ReadReply(a))
    /\ SF_meshVars(StartJob(a))
    /\ WF_meshVars(ReplyDone(a))
    /\ WF_meshVars(CompleteAgain(a))
    /\ SF_meshVars(HandleComplete(a))

JobFairness ==
  \A j \in Jobs :
    /\ WF_meshVars(StartAcknowledged(j))
    /\ WF_meshVars(StartGivesUp(j))
    /\ SF_meshVars(BeginValidation(j))
    /\ WF_meshVars(Execute(j))
    /\ WF_meshVars(ValidationFails(j))
    /\ WF_meshVars(Finish(j))
    /\ WF_meshVars(EndAcknowledged(j))
    /\ WF_meshVars(Resend(j))
    /\ SF_meshVars(HandleStarted(j))
    /\ SF_meshVars(HandleTerminal(j))

Fairness ==
  /\ AgentFairness
  /\ JobFairness
  /\ WF_meshVars(HandleCommit)
  /\ WF_meshVars(Alone(Restart))

-----------------------------------------------------------------------------
(***************************************************************************)
(* Properties.                                                              *)
(***************************************************************************)

\* From the moment an agent has its start acknowledged until its tool has ended,
\* a mutating job is the writer of its device and holds the device's lease, in
\* memory and in the files a crash leaves behind: neither expiry, release,
\* detach, a failed write, a late request nor a restart takes them away.
Fencing == {"waiting", "validating", "executing"}

ExecutingIsFenced ==
  \A j \in Mutating : phase[j] \in Fencing =>
    /\ bookDisk.writers[DeviceOf[j]] = j /\ HoldsLease(stDisk, bookDisk, j)
    /\ book.writers[DeviceOf[j]] = j     /\ HoldsLease(st, book, j)

\* An agent forgets a job only when its last event is durable: a job that ran is
\* still in the agent's hands, or is over on disk.
EndIsDurable ==
  agentCrashes = 0 =>
    \A j \in ran : phase[j] = "idle" => j \notin stDisk.apple_pending

\* While a tool runs, its agent stays the owner of the device the tool changes,
\* however often the device comes and goes, whichever other agent reports it and
\* whatever a crash loses (device_peers, pending_detach, Validate).
ExecutingIsOwned ==
  \A j \in Mutating : phase[j] = "executing" =>
     st.device_peers[DeviceOf[j]] = AgentOf(j)

\* As long as no write failed, a job's events are numbered in ascending order, in
\* memory and on disk, whatever is lost, repeated or late and whoever crashes: a
\* client that asks for the events after the last one it saw misses none.
EventsInOrder ==
  faults = 0 =>
    \A s \in {st, stDisk} : \A j \in Jobs : \A i, k \in DOMAIN s.events[j] :
      i < k => s.events[j][i].sequence < s.events[j][k].sequence

\* A client that was told "acquired" or "renewed" holds that lease until it gives
\* it up, its expiry passes or its device is detached, also when a release was
\* already deferred for the device's writer.  The code does not keep this: Renew
\* and Queue leave pending_release alone.
RenewedIsKept ==
  \A d \in Devices : granted[d].id # 0 =>
     book.active[d].id = granted[d].id

\* Every job that was accepted ends: it is run, rejected or cancelled, whatever
\* its lease, its client and the other jobs do.
JobsEnd == \A j \in Jobs : j \in st.apple_pending ~> j \notin st.apple_pending

\* Every manifest job that was accepted is completed.
RunsEnd == \A r \in Runs : r \in st.pending ~> r \notin st.pending

\* The mutating jobs whose tool is running on a device, ...
ToolsOn(d) == {j \in Mutating : DeviceOf[j] = d /\ phase[j] = "executing"}

\* ... the tool that changes each device, and the lease the device belongs to.
RunningTools ==
  [d \in Devices |->
     CASE ToolsOn(d) = {} -> [job |-> None, lease |-> None]
       [] Cardinality(ToolsOn(d)) = 1 ->
            LET j == CHOOSE k \in ToolsOn(d) : TRUE
            IN  [job |-> j, lease |-> LeaseOf(st, j)]
       [] OTHER -> [job |-> ToolsOn(d), lease |-> None]]

Holders == [d \in Devices |-> IF Leased(book, d) THEN book.active[d] ELSE None]

\* What the leases promise is kept by the registry and the agents together: the
\* jobs whose tool is running never share a device, run under the lease they
\* named, keep it until they end, and never run again.
Exclusive == INSTANCE ExclusiveDevice WITH
  Jobs    <- Mutating,
  Leases  <- Lease,
  ran     <- ran \cap Mutating,
  holder  <- Holders,
  running <- RunningTools

ToolsAreExclusive == Exclusive!ExclusiveSpec
=============================================================================
