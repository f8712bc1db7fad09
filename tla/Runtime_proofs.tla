----------------------------- MODULE Runtime_proofs -----------------------------
(***************************************************************************)
(* The components of MCRuntime, one after the other, each for every value  *)
(* of its constants: Supervision, Lifecycles, LocalDevices, JobAgents,     *)
(* ControllerSessions, MeshApprovals, Identity, Policy, ProcessExecution,  *)
(* Feed and AuditPages.  They share no state: what is proved of one needs  *)
(* nothing of another.                                                     *)
(***************************************************************************)
EXTENDS MCRuntime, FiniteSetTheorems, WellFoundedInduction, TLAPS

(***************************************************************************)
(* Supervision: no panic of a worker is lost to whoever waits for the      *)
(* registry, for any number of connections.                                *)
(*                                                                         *)
(* The property speaks of the end, when every worker is joined.  It is     *)
(* inductive with the way there: the worker that was joined after a        *)
(* failure has left its error in what the listener ends with (SInv).       *)
(***************************************************************************)
Places ==
  {"new", "running", "returned", "panicking", "stopping", "reporting", "failed", "joined",
   "joined after failure"}

STypeOK ==
  /\ worker \in [Workers -> Places]
  /\ listener \in {"loop", "accept", "take", "publish", "join", "done"}
  /\ taken \in {Nothing, Panicked} /\ failureCode \in {Nothing, Panicked}

\* A worker is joined after its failure by a listener that leaves with an error.
ErrorIsKept ==
  \A w \in Workers :
    worker[w] = "joined after failure" =>
      /\ listener \notin {"loop", "accept"}
      /\ listener \in {"take", "publish"} => outcome # "ok"
      /\ listener \in {"join", "done"} => ended # "ok"

\* The listener publishes once, after it closed its socket.
PublishedOnce ==
  /\ listener \notin {"loop", "accept"} => stopping /\ ~open
  /\ listener \notin {"join", "done"} <=> status = <<"Running">>

AllJoined ==
  listener = "done" => \A w \in Workers : worker[w] \in {"new", "joined", "joined after failure"}

SInv == STypeOK /\ ErrorIsKept /\ PublishedOnce /\ AllJoined

-----------------------------------------------------------------------------
LEMMA SInvHoldsInitially == SuperviseInit => SInv
BY DEF SuperviseInit, SInv, STypeOK, Places, ErrorIsKept, PublishedOnce, AllJoined

\* A step that is none of the listener's: only the places of the workers and what is
\* left for the listener change.
LEMMA WorkersKeepSInv ==
  ASSUME SInv, NEW w \in Workers, NEW p \in Places \ {"joined after failure"},
         listener # "done", To(w, p), failureCode' \in {Nothing, Panicked},
         UNCHANGED <<listener, outcome, taken, ended, open>>, stopping => stopping',
         (status' = <<"Running">>) <=> (status = <<"Running">>)
  PROVE  SInv'
<1>1. STypeOK'
  BY DEF SInv, STypeOK, To
<1>2. ErrorIsKept'
  BY DEF SInv, STypeOK, ErrorIsKept, To
<1>3. PublishedOnce' /\ AllJoined'
  BY DEF SInv, PublishedOnce, AllJoined
<1> QED BY <1>1, <1>2, <1>3 DEF SInv

LEMMA WorkerStepIsGood ==
  ASSUME SInv,
         WorkerReturns \/ WorkerPanics \/ StopListener \/ LeaveReason \/ CorrectStatus
  PROVE  SInv'
<1>1. \A w \in Workers :
        worker[w] \in {"running", "panicking", "stopping", "reporting"} => listener # "done"
  BY DEF SInv, AllJoined
<1>2. CASE WorkerReturns
  BY <1>1, <1>2, WorkersKeepSInv DEF WorkerReturns, Places, SInv, STypeOK
<1>3. CASE WorkerPanics
  BY <1>1, <1>3, WorkersKeepSInv DEF WorkerPanics, Places, SInv, STypeOK
<1>4. CASE StopListener
  BY <1>1, <1>4, WorkersKeepSInv DEF StopListener, Places, SInv, STypeOK
<1>5. CASE LeaveReason
  BY <1>1, <1>5, WorkersKeepSInv DEF LeaveReason, Places, SInv, STypeOK
<1>6. CASE CorrectStatus
  <2>1. (status' = <<"Running">>) <=> (status = <<"Running">>)
    <3>1. /\ <<"Stopped">>[1] = "Stopped" /\ Failed(Panicked)[1] = "Failed"
         /\ <<"Running">>[1] = "Running"
      BY DEF Failed
    <3> QED BY <1>6, <3>1 DEF CorrectStatus
  <2> QED BY <1>1, <1>6, <2>1, WorkersKeepSInv DEF CorrectStatus, Places, SInv, STypeOK
<1> QED BY <1>2, <1>3, <1>4, <1>5, <1>6

LEMMA ListenerStepIsGood ==
  ASSUME SInv,
         \/ JoinFinished \/ SeeStop \/ LockAdmission \/ Accept \/ ListenerFails
         \/ TakeFailure \/ Publish \/ JoinRest \/ ListenerEnds
  PROVE  SInv'
<1> USE DEF SInv, STypeOK, ErrorIsKept, PublishedOnce, AllJoined
<1>1. CASE JoinFinished
  <2>1. PICK w \in Workers :
          \/ /\ worker[w] = "returned"
             /\ UNCHANGED <<listener, outcome, stopping, open>>
             /\ worker' = [worker EXCEPT ![w] = "joined"]
          \/ /\ worker[w] = "failed"
             /\ Leave("registry_listener_failed")
             /\ worker' = [worker EXCEPT ![w] = "joined after failure"]
    BY <1>1 DEF JoinFinished
  <2>2. listener = "loop" /\ UNCHANGED <<taken, ended, failureCode, status>>
    BY <1>1 DEF JoinFinished
  <2> QED BY <2>1, <2>2 DEF Leave, Places
<1>2. CASE SeeStop
  BY <1>2 DEF SeeStop, Leave
<1>3. CASE LockAdmission
  BY <1>3 DEF LockAdmission
<1>4. CASE Accept
  BY <1>4 DEF Accept, Places
<1>5. CASE ListenerFails
  BY <1>5 DEF ListenerFails, Leave
<1>6. CASE TakeFailure
  BY <1>6 DEF TakeFailure
<1>7. CASE Publish
  <2>1. status[1] = "Running"
    <3>1. status = <<"Running">>
      BY <1>7 DEF Publish
    <3> QED BY <3>1
  <2>2. ended' = Outcome /\ status' # <<"Running">>
    <3>1. ended' = Outcome /\ status' \in {<<"Stopped">>, Failed(Outcome)}
      BY <1>7, <2>1 DEF Publish
    <3>2. /\ <<"Stopped">>[1] = "Stopped" /\ Failed(Outcome)[1] = "Failed"
         /\ <<"Running">>[1] = "Running"
      BY DEF Failed
    <3> QED BY <3>1, <3>2
  <2>3. outcome # "ok" => Outcome # "ok"
    BY DEF Outcome, Panicked
  <2> QED BY <1>7, <2>2, <2>3 DEF Publish
<1>8. CASE JoinRest
  <2>1. PICK w \in Workers :
          /\ worker[w] \in {"returned", "failed"}
          /\ ended' = EndWith(w)
          /\ worker' = [worker EXCEPT
                          ![w] = IF @ = "failed" THEN "joined after failure" ELSE "joined"]
    BY <1>8 DEF JoinRest
  <2>2. /\ ended # "ok" => ended' # "ok"
        /\ worker[w] = "failed" => ended' # "ok"
    BY <2>1 DEF EndWith, Panicked
  <2> QED BY <1>8, <2>1, <2>2 DEF JoinRest, Places
<1>9. CASE ListenerEnds
  BY <1>9 DEF ListenerEnds
<1> QED BY <1>1, <1>2, <1>3, <1>4, <1>5, <1>6, <1>7, <1>8, <1>9

LEMMA SInvIsInductive ==
  ASSUME SInv, [SuperviseNext]_superviseVars PROVE SInv'
<1>1. CASE Shutdown
  BY <1>1 DEF Shutdown, SInv, STypeOK, ErrorIsKept, PublishedOnce, AllJoined
<1>2. CASE UNCHANGED superviseVars
  BY <1>2 DEF superviseVars, SInv, STypeOK, ErrorIsKept, PublishedOnce, AllJoined
<1> QED BY <1>1, <1>2, WorkerStepIsGood, ListenerStepIsGood DEF SuperviseNext

\* Whoever waits for the registry gets an error when a worker has panicked, at any moment of
\* a shutdown or of an end of the listener, for any number of workers: RegistryRuntime of
\* registry_runtime/lifecycle.rs.
THEOREM PanicReachesWhoWaits == SuperviseSpec => []PanicIsKept
<1>1. SInv => PanicIsKept
  BY DEF SInv, STypeOK, ErrorIsKept, PublishedOnce, AllJoined, PanicIsKept, HasPanicked
<1>2. SInv /\ [SuperviseNext]_superviseVars => SInv'
  BY SInvIsInductive
<1> QED BY <1>1, <1>2, SInvHoldsInitially, PTL DEF SuperviseSpec

-----------------------------------------------------------------------------
(***************************************************************************)
(* Lifecycles: every operation is accepted with its times, and what was    *)
(* saved can be shown, whatever the clock does.                            *)
(*                                                                         *)
(* It is inductive with the validity of the event that is recorded, which  *)
(* the service itself checks of the event, not of what is shown of it.     *)
(***************************************************************************)
EventStates == {"awaiting", "queued", "running", "reconnecting"} \cup Times!EndStates

ActivityEvent == [state : EventStates, occurred : Nat, started : Nat \cup {None},
                  finished : Nat \cup {None}]

TInv ==
  /\ wall \in Nat /\ approval \in BOOLEAN
  /\ event # None => event \in ActivityEvent /\ Times!ValidEvent(event)
  /\ approval => event # None
  /\ refused => event # None /\ event.started # None /\ wall < event.started

\* An event stamped now is refused only if it takes its start from the event before,
\* and the clock is behind it.
LEMMA StampIsAccepted ==
  ASSUME TInv, NEW state \in EventStates,
         NEW started \in Nat \cup {None}, NEW finished \in {None, wall},
         Times!Fits(state, started, finished),
         started \in {None, wall} \/ (event # None /\ started = event.started),
         Times!RecordEvent(Times!Stamped(state, started, finished)), wall' = wall
  PROVE  /\ wall' \in Nat
         /\ event' # None => event' \in ActivityEvent /\ Times!ValidEvent(event')
         /\ refused' => /\ event # None /\ event' = event
                        /\ event.started # None /\ wall < event.started
         /\ ~refused' => event' # None
         /\ refused' \in BOOLEAN
<1> DEFINE e == Times!Stamped(state, started, finished)
<1>1. e \in ActivityEvent /\ e # None
  <2>1. e \in ActivityEvent
    BY DEF TInv, Times!Stamped, ActivityEvent
  <2> HIDE DEF e
  <2> QED BY <2>1, NoneAssumption DEF ActivityEvent, EventStates
<1>2. CASE Times!ValidEvent(e)
  BY <1>1, <1>2 DEF TInv, Times!RecordEvent
<1>3. CASE ~Times!ValidEvent(e)
  <2>1. event' = event /\ refused' = TRUE
    BY <1>3 DEF Times!RecordEvent
  <2>2. event # None /\ started = event.started /\ started # None /\ wall < started
    BY <1>3, NoneAssumption
       DEF TInv, Times!ValidEvent, Times!Stamped, Times!InOrder
  <2> QED BY <2>1, <2>2 DEF TInv
<1> QED BY <1>2, <1>3

LEMMA StartOfIsStart ==
  ASSUME TInv, event # None
  PROVE  /\ Times!StartOf(event) \in Nat /\ Times!StartOf(event) # None
         /\ event.started \in Nat \cup {None}
         /\ Times!StartOf(event) \in {None, wall} \/ Times!StartOf(event) = event.started
BY NoneAssumption DEF TInv, Times!StartOf, ActivityEvent

LEMMA TimesAreInductive == TInv /\ [Times!LifecycleNext]_(Times!lifecycleVars) => TInv'
<1> SUFFICES ASSUME TInv, [Times!LifecycleNext]_(Times!lifecycleVars) PROVE TInv'
  OBVIOUS
<1> USE NoneAssumption
<1>1. CASE UNCHANGED Times!lifecycleVars
  BY <1>1 DEF Times!lifecycleVars, TInv
<1>2. CASE Times!SetClock
  BY <1>2 DEF Times!SetClock, TInv
<1>3. CASE Times!StopDaemon /\ wall' = wall
  BY <1>3 DEF Times!StopDaemon, TInv
<1>4. CASE Times!StartDaemon /\ wall' = wall
  <2>1. CASE event # None /\ event.state \in {"queued", "running"}
    <3>1. Times!Fits("failed", Times!StartOf(event), wall)
      BY <2>1, StartOfIsStart DEF Times!Fits, Times!EndStates, TInv
    <3>2. Times!RecordEvent(Times!Stamped("failed", Times!StartOf(event), wall))
      BY <1>4, <2>1 DEF Times!StartDaemon
    <3> QED BY <1>4, <2>1, <3>1, <3>2, StartOfIsStart, StampIsAccepted
            DEF TInv, EventStates, Times!EndStates, Times!StartDaemon
  <2>2. CASE ~(event # None /\ event.state \in {"queued", "running"})
    BY <1>4, <2>2 DEF Times!StartDaemon, TInv
  <2> QED BY <2>1, <2>2
<1>5. CASE Times!AskAccess /\ wall' = wall
  <2>1. Times!Fits("awaiting", None, None)
    BY DEF Times!Fits, Times!EndStates
  <2> QED BY <1>5, <2>1, StampIsAccepted DEF Times!AskAccess, EventStates, TInv
<1>6. CASE Times!DenyAccess /\ wall' = wall
  <2>1. Times!Fits("denied", None, wall)
    BY DEF Times!Fits, Times!EndStates, TInv
  <2> QED BY <1>6, <2>1, StampIsAccepted
          DEF Times!DenyAccess, EventStates, Times!EndStates, TInv
<1>7. CASE Times!TargetIsOffline /\ wall' = wall
  <2>1. Times!Fits("failed", wall, wall)
    BY DEF Times!Fits, Times!EndStates, TInv
  <2> QED BY <1>7, <2>1, StampIsAccepted
          DEF Times!TargetIsOffline, EventStates, Times!EndStates, TInv
<1>8. CASE Times!DecideAccess /\ wall' = wall
  <2>1. Times!Fits("queued", None, None) /\ Times!Fits("denied", None, wall)
    BY DEF Times!Fits, Times!EndStates, TInv
  <2> QED BY <1>8, <2>1, StampIsAccepted
          DEF Times!DecideAccess, EventStates, Times!EndStates, TInv
<1>9. CASE Times!ApprovalIsOver /\ wall' = wall
  <2>1. event # None
    BY <1>9 DEF Times!ApprovalIsOver, TInv
  <2>2. Times!Fits("failed", Times!StartOf(event), wall)
    BY <2>1, StartOfIsStart DEF Times!Fits, Times!EndStates, TInv
  <2> QED BY <1>9, <2>1, <2>2, StartOfIsStart, StampIsAccepted
          DEF Times!ApprovalIsOver, EventStates, Times!EndStates, TInv
<1>10. CASE Times!Observe /\ wall' = wall
  <2>1. event # None
    BY <1>10 DEF Times!Observe
  <2>2. /\ \A s \in {"running", "reconnecting"} : Times!Fits(s, Times!StartOf(event), None)
        /\ \A s \in {"succeeded", "failed"} : Times!Fits(s, Times!StartOf(event), wall)
    BY <2>1, StartOfIsStart DEF Times!Fits, Times!EndStates, TInv
  <2>3. \/ \E s \in {"running", "reconnecting"} :
             Times!RecordEvent(Times!Stamped(s, Times!StartOf(event), None))
        \/ \E s \in {"succeeded", "failed"} :
             Times!RecordEvent(Times!Stamped(s, Times!StartOf(event), wall))
    BY <1>10 DEF Times!Observe
  <2> QED BY <1>10, <2>1, <2>2, <2>3, StartOfIsStart, StampIsAccepted
          DEF Times!Observe, EventStates, Times!EndStates, TInv
<1>11. CASE Times!AuditIsUnavailable /\ wall' = wall
  <2>1. event # None
    BY <1>11 DEF Times!AuditIsUnavailable
  <2>2. Times!Fits("failed", Times!StartOf(event), wall)
    BY <2>1, StartOfIsStart DEF Times!Fits, Times!EndStates, TInv
  <2> QED BY <1>11, <2>1, <2>2, StartOfIsStart, StampIsAccepted
          DEF Times!AuditIsUnavailable, EventStates, Times!EndStates, TInv
<1>12. CASE Times!CancelIt /\ wall' = wall
  <2>1. event # None
    BY <1>12 DEF Times!CancelIt
  <2>2. Times!Fits("cancelled", event.started, wall)
    BY DEF Times!Fits, Times!EndStates, TInv
  <2> QED BY <1>12, <2>1, <2>2, StartOfIsStart, StampIsAccepted
          DEF Times!CancelIt, EventStates, Times!EndStates, TInv
<1>13. CASE Times!LocalMutation /\ wall' = wall
  <2>1. Times!Fits("succeeded", wall, wall)
    BY DEF Times!Fits, Times!EndStates, TInv
  <2> QED BY <1>13, <2>1, StampIsAccepted
          DEF Times!LocalMutation, EventStates, Times!EndStates, TInv
<1> QED BY <1>1, <1>2, <1>3, <1>4, <1>5, <1>6, <1>7, <1>8, <1>9, <1>10, <1>11, <1>12,
           <1>13 DEF Times!LifecycleNext

\* Whatever has happened to an activity, the next operation on it and the restart of
\* the daemon are accepted with their times, unless the clock was set back behind
\* the activity's start, and what was saved can be shown (validate_lifecycle and
\* the operations of DashboardService).
THEOREM LifecyclesAreAccepted == Times!LifecycleSpec => []TimesAreAccepted
<1>1. Times!LifecycleInit => TInv
  <2> SUFFICES ASSUME Times!LifecycleInit PROVE TInv
    OBVIOUS
  <2>1. wall = 1 /\ event = None /\ approval = FALSE /\ refused = FALSE
    BY DEF Times!LifecycleInit
  <2>2. wall \in Nat
    BY <2>1
  <2> QED BY <2>1, <2>2, Zenon DEF TInv
<1>2. TInv => TimesAreAccepted
  BY NoneAssumption
     DEF TInv, TimesAreAccepted, Times!TimesAreAccepted, Times!ValidSummary,
         Times!SummaryOf, Times!ValidEvent, Times!Fits, Times!InOrder, ActivityEvent
<1> QED BY <1>1, <1>2, TimesAreInductive, PTL DEF Times!LifecycleSpec

-----------------------------------------------------------------------------
(***************************************************************************)
(* LocalDevices: a tool runs on a device only for the holder of its one    *)
(* active lease, and a simulator is as it is said to be.                   *)
(*                                                                         *)
(* It is inductive with what the simulators' adapter notes of them: a      *)
(* simulator on which no tool failed is in the state noted last.           *)
(***************************************************************************)
DeviceLease == [device : Device!AllDevices, holder : Actors, state : {"active", "over"},
                direct : BOOLEAN]

OneActiveLease ==
  \A l, m \in DOMAIN leases :
    Device!IsActive(l) /\ Device!IsActive(m) /\ leases[l].device = leases[m].device => l = m

NotedAsIs ==
  /\ power \in [Simulators -> {"Shutdown", "Booted", "Deleted"}]
  /\ states \in [Simulators -> {"Shutdown", "Booted", "Deleted", "Unchanged", None}]
  /\ \A s \in Simulators \ uncertain :
       states[s] \in {"Shutdown", "Booted", "Deleted"} => power[s] = states[s]

LastIsExclusive ==
  last # None => IF last.ran THEN last.actor = last.holder
                 ELSE last.certain => last.found = last.wanted

DInv ==
  /\ leases \in Seq(DeviceLease)
  /\ context # None => context.actor \in Actors
  /\ OneActiveLease
  /\ NotedAsIs
  /\ LastIsExclusive

\* Who may operate a device is the holder of its active lease.
LEMMA OperatorIsHolder ==
  ASSUME DInv, NEW d \in Device!AllDevices, NEW a, NEW l, NEW c, Device!May(a, c, d, l)
  PROVE  Device!Holder(d) = a
<1>1. /\ l \in DOMAIN leases /\ Device!IsActive(l)
      /\ leases[l].device = d /\ leases[l].holder = a
  BY NoneAssumption DEF Device!May, Device!HoldsLease
<1>2. (CHOOSE m \in DOMAIN leases : leases[m].device = d /\ Device!IsActive(m)) = l
  BY <1>1 DEF DInv, OneActiveLease
<1> QED BY <1>1, <1>2 DEF Device!Holder, Device!IsLeased

\* A lease more, or one less, leaves one active lease to a device.
LEMMA AcquiredIsAlone ==
  ASSUME DInv, NEW a \in Actors, NEW d \in Device!AllDevices, NEW direct \in BOOLEAN,
         Device!CanAcquire(a, d), leases' = Device!Acquired(a, d, direct)
  PROVE  leases' \in Seq(DeviceLease) /\ OneActiveLease'
<1> DEFINE new == [device |-> d, holder |-> a, state |-> "active", direct |-> direct]
<1>1. new \in DeviceLease /\ leases \in Seq(DeviceLease) /\ leases' = Append(leases, new)
  BY DEF DInv, DeviceLease, Device!Acquired
<1>2. /\ leases' \in Seq(DeviceLease) /\ Len(leases') = Len(leases) + 1
      /\ \A l \in 1 .. Len(leases) : leases'[l] = leases[l]
      /\ leases'[Len(leases) + 1] = new
      /\ DOMAIN leases = 1 .. Len(leases) /\ DOMAIN leases' = 1 .. Len(leases) + 1
      /\ Len(leases) \in Nat
  BY <1>1
<1>3. \A l \in 1 .. Len(leases) : ~(leases[l].device = d /\ leases[l].state = "active")
  BY <1>2 DEF Device!CanAcquire, Device!IsLeased, Device!IsActive
<1>4. ASSUME NEW l \in DOMAIN leases', NEW m \in DOMAIN leases',
             leases'[l].state = "active", leases'[m].state = "active",
             leases'[l].device = leases'[m].device
      PROVE  l = m
  <2>1. l \in 1 .. Len(leases) \/ l = Len(leases) + 1
    BY <1>2
  <2>2. m \in 1 .. Len(leases) \/ m = Len(leases) + 1
    BY <1>2
  <2> QED BY <1>2, <1>3, <1>4, <2>1, <2>2 DEF DInv, OneActiveLease, Device!IsActive
<1> QED BY <1>2, <1>4 DEF OneActiveLease, Device!IsActive

LEMMA EndedIsAlone ==
  ASSUME DInv, NEW k \in DOMAIN leases, leases' = [leases EXCEPT ![k].state = "over"]
  PROVE  leases' \in Seq(DeviceLease) /\ OneActiveLease'
<1>1. leases \in Seq(DeviceLease) /\ leases[k] \in DeviceLease
  BY DEF DInv
<1>2. /\ leases' \in Seq(DeviceLease) /\ DOMAIN leases' = DOMAIN leases
      /\ leases'[k].state = "over"
      /\ \A l \in DOMAIN leases : l # k => leases'[l] = leases[l]
  BY <1>1 DEF DeviceLease
<1> QED BY <1>2 DEF DInv, OneActiveLease, Device!IsActive

LEMMA SimulatorsAreNoted ==
  ASSUME DInv, Device!OperateSimulator PROVE NotedAsIs' /\ LastIsExclusive'
<1>1. PICK s \in Simulators, op \in Device!Lifecycle \cup {"Other"} :
        /\ Device!May(context.actor, "operate", s, context.lease)
        /\ IF Device!IsDone(op, s)
           THEN /\ last' = [device |-> s, ran |-> FALSE, wanted |-> Device!After(op),
                            found |-> power[s], certain |-> s \notin uncertain]
                /\ UNCHANGED <<power, states, uncertain>>
           ELSE /\ last' = Device!Touched(s, context.actor)
                /\ \/ /\ Device!CanRun(op, s)
                      /\ power' = Device!Ran(op, s)
                      /\ states' = [states EXCEPT ![s] = Device!After(op)]
                      /\ UNCHANGED uncertain
                   \/ /\ power' \in {power} \cup (IF Device!CanRun(op, s)
                                                  THEN {Device!Ran(op, s)} ELSE {})
                      /\ uncertain' = uncertain \cup {s}
                      /\ UNCHANGED states
  BY DEF Device!OperateSimulator
<1>2. /\ Device!After(op) \in {"Booted", "Shutdown", "Deleted", "Unchanged"}
      /\ op \in Device!Lifecycle <=> Device!After(op) # "Unchanged"
  BY DEF Device!After, Device!Lifecycle
<1>3. /\ Device!Ran(op, s) \in [Simulators -> {"Shutdown", "Booted", "Deleted"}]
      /\ op \in Device!Lifecycle => Device!Ran(op, s)[s] = Device!After(op)
      /\ \A t \in Simulators \ {s} : Device!Ran(op, s)[t] = power[t]
  BY <1>2 DEF Device!Ran, DInv, NotedAsIs
<1>4. s \in Device!AllDevices
  BY DEF Device!AllDevices
<1>5. CASE Device!IsDone(op, s)
  <2>1. NotedAsIs'
    BY <1>1, <1>5 DEF DInv, NotedAsIs
  <2>2. s \notin uncertain => power[s] = Device!After(op)
    BY <1>5 DEF Device!IsDone, Device!After, DInv, NotedAsIs
  <2>3. /\ last'.ran = FALSE /\ last'.found = power[s] /\ last'.wanted = Device!After(op)
        /\ last'.certain = (s \notin uncertain)
    BY <1>1, <1>5
  <2>4. LastIsExclusive'
    BY <2>2, <2>3, Zenon DEF LastIsExclusive
  <2> QED BY <2>1, <2>4
<1>6. CASE ~Device!IsDone(op, s)
  <2>1. LastIsExclusive'
    <3>1. last' = [device |-> s, actor |-> context.actor, holder |-> context.actor,
                   ran |-> TRUE]
      BY <1>1, <1>4, <1>6, OperatorIsHolder DEF Device!Touched
    <3> QED BY <3>1 DEF LastIsExclusive
  <2>2. CASE /\ Device!CanRun(op, s)
             /\ power' = Device!Ran(op, s)
             /\ states' = [states EXCEPT ![s] = Device!After(op)]
             /\ UNCHANGED uncertain
    <3>1. NotedAsIs'
      BY <1>2, <1>3, <2>2 DEF DInv, NotedAsIs
    <3> QED BY <2>1, <3>1
  <2>3. CASE /\ power' \in {power} \cup (IF Device!CanRun(op, s)
                                         THEN {Device!Ran(op, s)} ELSE {})
             /\ uncertain' = uncertain \cup {s}
             /\ UNCHANGED states
    <3>1. power' = power \/ power' = Device!Ran(op, s)
      BY <2>3
    <3>2. NotedAsIs'
      BY <1>3, <2>3, <3>1 DEF DInv, NotedAsIs
    <3> QED BY <2>1, <3>2
  <2> QED BY <1>1, <1>6, <2>2, <2>3
<1> QED BY <1>5, <1>6

LEMMA DevicesAreInductive == DInv /\ [Device!DeviceNext]_(Device!deviceVars) => DInv'
<1> SUFFICES ASSUME DInv, [Device!DeviceNext]_(Device!deviceVars) PROVE DInv'
  OBVIOUS
<1>1. CASE UNCHANGED Device!deviceVars
  BY <1>1 DEF Device!deviceVars, DInv, OneActiveLease, Device!IsActive, NotedAsIs,
              LastIsExclusive
<1>2. CASE Device!Grant \/ Device!OpenContext \/ Device!CloseContext
             \/ Device!PhoneEntryRunsOut
  <2>1. UNCHANGED <<leases, power, states, uncertain, last>>
    BY <1>2 DEF Device!Grant, Device!OpenContext, Device!CloseContext,
                Device!PhoneEntryRunsOut
  <2>2. context' # None => context'.actor \in Actors
    BY <1>2 DEF Device!Grant, Device!OpenContext, Device!CloseContext,
                Device!PhoneEntryRunsOut, DInv
  <2> QED BY <2>1, <2>2 DEF DInv, OneActiveLease, Device!IsActive, NotedAsIs,
                            LastIsExclusive
<1>3. CASE Device!TakeLease
  <2>1. leases' \in Seq(DeviceLease) /\ OneActiveLease'
    BY <1>3, AcquiredIsAlone DEF Device!TakeLease
  <2> QED BY <1>3, <2>1 DEF Device!TakeLease, DInv, NotedAsIs, LastIsExclusive
<1>4. CASE Device!RevokeLease \/ Device!LeaseRunsOut
  <2>1. leases' \in Seq(DeviceLease) /\ OneActiveLease'
    BY <1>4, EndedIsAlone DEF Device!RevokeLease, Device!LeaseRunsOut
  <2>2. UNCHANGED <<context, power, states, uncertain, last>>
    BY <1>4 DEF Device!RevokeLease, Device!LeaseRunsOut
  <2> QED BY <2>1, <2>2 DEF DInv, NotedAsIs, LastIsExclusive
<1>5. CASE Device!LeaseDevice
  <2>1. PICK d \in Device!AllDevices :
          /\ Device!CanAcquire(context.actor, d)
          /\ leases' = Device!Acquired(context.actor, d, FALSE)
          /\ context' = [context EXCEPT !.lease = Len(leases')]
    BY <1>5 DEF Device!LeaseDevice
  <2>2. context # None /\ context.actor \in Actors
    BY <1>5 DEF Device!LeaseDevice, DInv
  <2>3. leases' \in Seq(DeviceLease) /\ OneActiveLease'
    BY <2>1, <2>2, AcquiredIsAlone
  <2>4. context'.actor = context.actor
    BY <2>1
  <2> QED BY <1>5, <2>2, <2>3, <2>4 DEF Device!LeaseDevice, DInv, NotedAsIs,
                                       LastIsExclusive
<1>6. CASE Device!ExecuteDirectly \/ Device!OperateDevice
  <2>1. PICK a \in {context.actor} \cup Actors :
          \E d \in Device!AllDevices, l \in {context.lease} \cup DOMAIN leases :
            Device!May(a, "operate", d, l) /\ last' = Device!Touched(d, a)
    BY <1>6 DEF Device!ExecuteDirectly, Device!OperateDevice, Device!AllDevices
  <2>2. \E d : last' = [device |-> d, actor |-> a, holder |-> a, ran |-> TRUE]
    BY <2>1, OperatorIsHolder DEF Device!Touched
  <2>3. UNCHANGED <<leases, context, power, states, uncertain>>
    BY <1>6 DEF Device!ExecuteDirectly, Device!OperateDevice
  <2> QED BY <2>2, <2>3 DEF DInv, OneActiveLease, Device!IsActive, NotedAsIs,
                            LastIsExclusive
<1>7. CASE Device!OperateSimulator
  BY <1>7, SimulatorsAreNoted
     DEF Device!OperateSimulator, DInv, OneActiveLease, Device!IsActive
<1> QED BY <1>1, <1>2, <1>3, <1>4, <1>5, <1>6, <1>7 DEF Device!DeviceNext

\* Whichever leases of closed contexts, of the engine and of the adapters' own maps
\* are in the way, a tool runs on a device only for the holder of its one active
\* lease, and an operation that is answered without its tool finds the simulator as
\* it was asked for, unless a tool failed on it (PolicyEngine, AuthorizedAdapter,
\* AppleSimulator and ApplePhysicalDevice).
THEOREM LocalDevicesAreExclusive == Device!DeviceSpec => []DevicesAreExclusive
<1>1. Device!DeviceInit => DInv
  <2> SUFFICES ASSUME Device!DeviceInit PROVE DInv
    OBVIOUS
  <2>1. leases \in Seq(DeviceLease) /\ DOMAIN leases = {}
    BY DEF Device!DeviceInit
  <2>2. NotedAsIs
    BY NoneAssumption DEF Device!DeviceInit, NotedAsIs
  <2>3. last = None /\ context = None
    BY DEF Device!DeviceInit
  <2> QED BY <2>1, <2>2, <2>3 DEF DInv, OneActiveLease, LastIsExclusive
<1>2. DInv => DevicesAreExclusive
  BY DEF DInv, OneActiveLease, LastIsExclusive, DevicesAreExclusive,
         Device!DevicesAreExclusive
<1> QED BY <1>1, <1>2, DevicesAreInductive, PTL DEF Device!DeviceSpec

-----------------------------------------------------------------------------
(***************************************************************************)
(* JobAgents: however a request is repeated, one job is run for it, its    *)
(* events end once, and a reader misses none of them.                      *)
(*                                                                         *)
(* What makes it inductive is what the two maps say of the answers given   *)
(* so far, which is not the same for the three agents (NamesAnswer).       *)
(***************************************************************************)
EventKinds == Agent!EndKinds \cup {"accepted", "progress"}

AgentJob == [operation : Operations, events : Seq(EventKinds), running : BOOLEAN,
             cancelled : BOOLEAN]

AgentAnswer == [request : Requests, key : Keys, operation : Operations, job : Nat \ {0}]

JobsEndOnce ==
  \A j \in 1 .. Len(jobs) : \A i \in 1 .. Len(jobs[j].events) :
    /\ jobs[j].events[i] \in Agent!EndKinds =>
         i = Len(jobs[j].events) /\ jobs[j].running = FALSE
    /\ jobs[j].events[i] = "cancelled" => jobs[j].cancelled = TRUE

ReaderFollows ==
  /\ reader.job \in 0 .. Len(jobs) /\ reader.seen \in Seq(EventKinds)
  /\ reader = [job |-> reader.job, seen |-> reader.seen]
  /\ reader.job = 0 => reader.seen = <<>>
  /\ reader.job # 0 =>
       /\ Len(reader.seen) <= Len(jobs[reader.job].events)
       /\ \A i \in 1 .. Len(reader.seen) : reader.seen[i] = jobs[reader.job].events[i]

AnswersFit ==
  \A i \in 1 .. Len(answers) :
    /\ answers[i].job \in 1 .. Len(jobs)
    /\ agent # "journal" => /\ jobs[answers[i].job].operation = answers[i].operation
                            /\ Agent!IsWellFormed(answers[i].operation)

\* What the maps say of the answer that was given to request r with key k.
NamesAnswer ==
  /\ \A i \in 1 .. Len(answers) :
       /\ agent \in {"protocol", "journal"} =>
            requestJobs[answers[i].request] = answers[i].job
       /\ agent = "protocol" => keyJobs[answers[i].key] = answers[i].job
       /\ agent = "remote" /\ Agent!KeysAreKept => keyJobs[answers[i].key] = answers[i].job
  /\ agent = "remote" =>
       \A r \in Requests : requestJobs[r] # 0 =>
         \E i \in 1 .. Len(answers) :
           answers[i].request = r /\ answers[i].job = requestJobs[r]

JInv ==
  /\ agent \in Agent!Agents
  /\ jobs \in Seq(AgentJob) /\ answers \in Seq(AgentAnswer)
  /\ requestJobs \in [Requests -> 0 .. Len(jobs)] /\ keyJobs \in [Keys -> 0 .. Len(jobs)]
  /\ JobsEndOnce /\ ReaderFollows /\ AnswersFit /\ NamesAnswer

\* A job goes on: events are added behind those it has.
LEMMA JobGoesOn ==
  ASSUME JInv, NEW j \in 1 .. Len(jobs), NEW new \in AgentJob,
         jobs' = [jobs EXCEPT ![j] = new], new.operation = jobs[j].operation,
         Len(jobs[j].events) <= Len(new.events),
         \A i \in 1 .. Len(jobs[j].events) : new.events[i] = jobs[j].events[i],
         \A i \in 1 .. Len(new.events) :
           /\ new.events[i] \in Agent!EndKinds =>
                i = Len(new.events) /\ new.running = FALSE
           /\ new.events[i] = "cancelled" => new.cancelled = TRUE,
         UNCHANGED <<agent, requestJobs, keyJobs, answers, reader>>
  PROVE  JInv'
<1>1. /\ jobs' \in Seq(AgentJob) /\ Len(jobs') = Len(jobs) /\ Len(jobs) \in Nat
      /\ jobs'[j] = new /\ \A k \in 1 .. Len(jobs) : k # j => jobs'[k] = jobs[k]
  BY DEF JInv
<1>2. JobsEndOnce'
  BY <1>1 DEF JInv, JobsEndOnce
<1>3. ReaderFollows'
  BY <1>1 DEF JInv, ReaderFollows, AgentJob
<1>4. AnswersFit'
  <2>1. answers' = answers /\ agent' = agent
    OBVIOUS
  <2>2. \A k \in 1 .. Len(jobs) : jobs'[k].operation = jobs[k].operation
    BY <1>1
  <2> QED BY <1>1, <2>1, <2>2 DEF JInv, AnswersFit
<1>5. NamesAnswer'
  BY DEF JInv, NamesAnswer, Agent!KeysAreKept
<1> QED BY <1>1, <1>2, <1>3, <1>4, <1>5 DEF JInv

LEMMA JobIsJob ==
  ASSUME JInv, NEW j \in DOMAIN jobs
  PROVE  /\ j \in 1 .. Len(jobs) /\ jobs[j] \in AgentJob
         /\ jobs[j].events \in Seq(EventKinds) /\ Len(jobs[j].events) \in Nat
         /\ jobs[j].running \in BOOLEAN /\ jobs[j].cancelled \in BOOLEAN
<1>1. j \in 1 .. Len(jobs) /\ jobs[j] \in AgentJob
  BY DEF JInv
<1> QED BY <1>1 DEF AgentJob

\* append_event.
LEMMA AppendedGoesOn ==
  ASSUME JInv, NEW j \in 1 .. Len(jobs), jobs[j].running = TRUE, NEW kind \in EventKinds
  PROVE  /\ Agent!Appended(j, kind) = Append(jobs[j].events, kind)
         /\ jobs[j] \in AgentJob
         /\ Append(jobs[j].events, kind) \in Seq(EventKinds)
         /\ Len(Append(jobs[j].events, kind)) = Len(jobs[j].events) + 1
         /\ Len(jobs[j].events) \in Nat
         /\ Append(jobs[j].events, kind)[Len(jobs[j].events) + 1] = kind
         /\ \A i \in 1 .. Len(jobs[j].events) :
              /\ Append(jobs[j].events, kind)[i] = jobs[j].events[i]
              /\ jobs[j].events[i] \notin Agent!EndKinds
<1>1. jobs[j] \in AgentJob /\ jobs[j].events \in Seq(EventKinds)
  BY JobIsJob DEF JInv
<1>2. \A i \in 1 .. Len(jobs[j].events) : jobs[j].events[i] \notin Agent!EndKinds
  BY DEF JInv, JobsEndOnce
<1>3. ~Agent!IsEnded(j)
  BY <1>1, <1>2 DEF Agent!IsEnded
<1> QED BY <1>1, <1>2, <1>3 DEF Agent!Appended

LEMMA JobStepsKeepJInv ==
  ASSUME JInv, Agent!MakeProgress \/ Agent!FinishJob \/ Agent!CancelJob
  PROVE  JInv'
<1>1. CASE Agent!MakeProgress
  <2>1. PICK j \in DOMAIN jobs :
          jobs[j].running /\ jobs' = [jobs EXCEPT ![j].events = Agent!Appended(j, "progress")]
    BY <1>1 DEF Agent!MakeProgress
  <2>2. j \in 1 .. Len(jobs) /\ jobs[j] \in AgentJob /\ jobs[j].running = TRUE
    BY <2>1, JobIsJob
  <2> DEFINE new == [jobs[j] EXCEPT !.events = Append(jobs[j].events, "progress")]
  <2>3. "progress" \in EventKinds /\ "progress" \notin Agent!EndKinds
    BY DEF EventKinds, Agent!EndKinds
  <2>4. /\ new \in AgentJob /\ jobs' = [jobs EXCEPT ![j] = new]
        /\ new.operation = jobs[j].operation /\ new.running = jobs[j].running
        /\ new.events = Append(jobs[j].events, "progress")
    BY <2>1, <2>2, <2>3, AppendedGoesOn DEF AgentJob
  <2> HIDE DEF new
  <2>5. \A i \in 1 .. Len(new.events) :
          new.events[i] \notin Agent!EndKinds /\ new.events[i] # "cancelled"
    <3> SUFFICES ASSUME NEW i \in 1 .. Len(new.events)
                 PROVE  new.events[i] \notin Agent!EndKinds
      BY DEF Agent!EndKinds
    <3> DEFINE longer == Append(jobs[j].events, "progress")
    <3>1. /\ Len(longer) = Len(jobs[j].events) + 1 /\ Len(jobs[j].events) \in Nat
          /\ longer[Len(jobs[j].events) + 1] = "progress"
          /\ \A m \in 1 .. Len(jobs[j].events) :
               /\ longer[m] = jobs[j].events[m]
               /\ jobs[j].events[m] \notin Agent!EndKinds
      BY <2>2, <2>3, AppendedGoesOn
    <3>1a. longer = new.events
      BY <2>4
    <3> HIDE DEF longer
    <3>2. CASE i \in 1 .. Len(jobs[j].events)
      BY <3>1, <3>2, <3>1a
    <3>3. CASE i = Len(jobs[j].events) + 1
      BY <2>3, <3>1, <3>3, <3>1a
    <3>4. i \in 1 .. Len(jobs[j].events) \/ i = Len(jobs[j].events) + 1
      BY <3>1, <3>1a
    <3> QED BY <3>2, <3>3, <3>4
  <2>6. /\ Len(jobs[j].events) <= Len(new.events)
        /\ \A i \in 1 .. Len(jobs[j].events) : new.events[i] = jobs[j].events[i]
    BY <2>2, <2>3, <2>4, AppendedGoesOn
  <2>7. UNCHANGED <<agent, requestJobs, keyJobs, answers, reader>>
    BY <1>1 DEF Agent!MakeProgress
  <2> QED BY <2>2, <2>4, <2>5, <2>6, <2>7, JobGoesOn
<1>2. CASE Agent!FinishJob
  <2>1. PICK j \in DOMAIN jobs, outcome_ \in {"ok", "error", "panic"} :
          /\ jobs[j].running
          /\ jobs' = [jobs EXCEPT ![j].running = FALSE,
                                  ![j].events = Agent!EndOf(j, outcome_)]
    BY <1>2 DEF Agent!FinishJob
  <2>2. j \in 1 .. Len(jobs) /\ jobs[j] \in AgentJob /\ jobs[j].running = TRUE
    BY <2>1, JobIsJob
  <2>3. PICK kind \in Agent!EndKinds :
          /\ \/ Agent!EndOf(j, outcome_) = Append(jobs[j].events, kind)
             \/ Agent!EndOf(j, outcome_) = jobs[j].events
          /\ kind = "cancelled" => jobs[j].cancelled = TRUE
    <3>1. \/ Agent!EndOf(j, outcome_) = Agent!Appended(j, "succeeded")
          \/ Agent!EndOf(j, outcome_) = Agent!Appended(j, "failed")
          \/ Agent!EndOf(j, outcome_) = Agent!Appended(j, "cancelled") /\ jobs[j].cancelled
          \/ Agent!EndOf(j, outcome_) = jobs[j].events
      <4>1. CASE outcome_ = "ok"
        BY <4>1 DEF Agent!EndOf
      <4>2. CASE outcome_ = "panic"
        BY <4>2 DEF Agent!EndOf
      <4>3. CASE outcome_ = "error"
        BY <4>3 DEF Agent!EndOf
      <4> QED BY <4>1, <4>2, <4>3
    <3>2. jobs[j].cancelled => jobs[j].cancelled = TRUE
      BY <2>2, JobIsJob
    <3>3. Agent!EndKinds = {"succeeded", "failed", "cancelled"}
          /\ Agent!EndKinds \subseteq EventKinds
      BY DEF Agent!EndKinds, EventKinds
    <3> QED BY <2>2, <3>1, <3>2, <3>3, AppendedGoesOn
  <2> DEFINE events == Agent!EndOf(j, outcome_)
             new == [jobs[j] EXCEPT !.running = FALSE, !.events = events]
  <2>4. kind \in EventKinds /\ events \in Seq(EventKinds)
    BY <2>2, <2>3, AppendedGoesOn, JobIsJob DEF EventKinds
  <2>5. /\ new \in AgentJob /\ jobs' = [jobs EXCEPT ![j] = new]
        /\ new.operation = jobs[j].operation /\ new.running = FALSE
        /\ new.cancelled = jobs[j].cancelled
        /\ new.events = Append(jobs[j].events, kind) \/ new.events = jobs[j].events
    <3>1. events = Append(jobs[j].events, kind) \/ events = jobs[j].events
      BY <2>3
    <3> HIDE DEF events
    <3>2. jobs' = [jobs EXCEPT ![j].running = FALSE, ![j].events = events]
      BY <2>1 DEF events
    <3> QED BY <2>2, <2>4, <3>1, <3>2 DEF AgentJob
  <2> HIDE DEF new
  <2>6. \A i \in 1 .. Len(new.events) :
           /\ new.events[i] \in Agent!EndKinds => i = Len(new.events)
           /\ new.events[i] = "cancelled" => new.cancelled = TRUE
    <3> SUFFICES ASSUME NEW i \in 1 .. Len(new.events)
                 PROVE  /\ new.events[i] \in Agent!EndKinds => i = Len(new.events)
                        /\ new.events[i] = "cancelled" => new.cancelled = TRUE
      OBVIOUS
    <3>1. "cancelled" \in Agent!EndKinds
      BY DEF Agent!EndKinds
    <3>2. CASE i \in 1 .. Len(jobs[j].events)
      <4>1. \A m \in 1 .. Len(jobs[j].events) :
              /\ Append(jobs[j].events, kind)[m] = jobs[j].events[m]
              /\ jobs[j].events[m] \notin Agent!EndKinds
        BY <2>2, <2>4, AppendedGoesOn
      <4>2. new.events[i] = jobs[j].events[i] /\ jobs[j].events[i] \notin Agent!EndKinds
        BY <2>5, <3>2, <4>1
      <4> QED BY <3>1, <4>2
    <3>3. CASE i \notin 1 .. Len(jobs[j].events)
      <4>1. /\ new.events = Append(jobs[j].events, kind)
            /\ i = Len(jobs[j].events) + 1 /\ Len(new.events) = Len(jobs[j].events) + 1
        BY <2>2, <2>4, <2>5, <3>3, AppendedGoesOn
      <4>2. new.events[i] = kind
        BY <2>2, <2>4, <4>1, AppendedGoesOn
      <4> QED BY <2>3, <2>5, <4>1, <4>2
    <3> QED BY <3>2, <3>3
  <2>7. /\ Len(jobs[j].events) <= Len(new.events)
        /\ \A i \in 1 .. Len(jobs[j].events) : new.events[i] = jobs[j].events[i]
    BY <2>2, <2>4, <2>5, AppendedGoesOn
  <2>8. UNCHANGED <<agent, requestJobs, keyJobs, answers, reader>>
    BY <1>2 DEF Agent!FinishJob
  <2> QED BY <2>2, <2>5, <2>6, <2>7, <2>8, JobGoesOn
<1>3. CASE Agent!CancelJob
  <2>1. PICK j \in DOMAIN jobs : jobs' = [jobs EXCEPT ![j].cancelled = TRUE]
    BY <1>3 DEF Agent!CancelJob
  <2>2. j \in 1 .. Len(jobs) /\ jobs[j] \in AgentJob
    BY <2>1, JobIsJob
  <2> DEFINE new == [jobs[j] EXCEPT !.cancelled = TRUE]
  <2>3. /\ new \in AgentJob /\ jobs' = [jobs EXCEPT ![j] = new]
        /\ new.operation = jobs[j].operation /\ new.running = jobs[j].running
        /\ new.cancelled = TRUE /\ new.events = jobs[j].events
        /\ Len(jobs[j].events) \in Nat
    BY <2>1, <2>2, JobIsJob DEF AgentJob
  <2>4. \A i \in 1 .. Len(new.events) :
           /\ new.events[i] \in Agent!EndKinds =>
                i = Len(new.events) /\ new.running = FALSE
           /\ new.events[i] = "cancelled" => new.cancelled = TRUE
    BY <2>2, <2>3 DEF JInv, JobsEndOnce
  <2>5. UNCHANGED <<agent, requestJobs, keyJobs, answers, reader>>
    BY <1>3 DEF Agent!CancelJob
  <2> HIDE DEF new
  <2>6. /\ Len(jobs[j].events) <= Len(new.events)
        /\ \A i \in 1 .. Len(jobs[j].events) : new.events[i] = jobs[j].events[i]
    BY <2>3
  <2> QED BY <2>2, <2>3, <2>4, <2>5, <2>6, JobGoesOn
<1> QED BY <1>1, <1>2, <1>3

\* An answer is given.
LEMMA AnswerIsAdded ==
  ASSUME JInv, NEW r \in Requests, NEW k \in Keys, NEW o \in Operations, NEW j \in Nat \ {0},
         Agent!Answer(r, k, o, j)
  PROVE  /\ answers' \in Seq(AgentAnswer)
         /\ Len(answers) \in Nat /\ Len(answers') = Len(answers) + 1
         /\ answers'[Len(answers) + 1].request = r /\ answers'[Len(answers) + 1].key = k
         /\ answers'[Len(answers) + 1].operation = o /\ answers'[Len(answers) + 1].job = j
         /\ \A i \in 1 .. Len(answers) : answers[i] \in AgentAnswer /\ answers'[i] = answers[i]
<1> DEFINE answer == [request |-> r, key |-> k, operation |-> o, job |-> j]
<1>1. answer \in AgentAnswer /\ answers' = Append(answers, answer) /\ answers \in Seq(AgentAnswer)
  BY DEF Agent!Answer, AgentAnswer, JInv
<1>2. answer.request = r /\ answer.key = k /\ answer.operation = o /\ answer.job = j
  OBVIOUS
<1> HIDE DEF answer
<1> QED BY <1>1, <1>2

\* A request whose job is known.
LEMMA KnownJobKeepsJInv ==
  ASSUME JInv, NEW r \in Requests, NEW k \in Keys, NEW o \in Operations,
         agent # "journal" => Agent!IsWellFormed(o),
         ~Agent!Conflicts(r, k, o), Agent!Known(r, k) # 0,
         Agent!KnownAgain(r, k), Agent!Answer(r, k, o, Agent!Known(r, k)),
         UNCHANGED <<jobs, agent, reader>>
  PROVE  JInv'
<1> DEFINE j == Agent!Known(r, k)
           n == Len(answers) + 1
<1>1. /\ j \in 1 .. Len(jobs) /\ Len(jobs) \in Nat
      /\ requestJobs[r] \in 0 .. Len(jobs) /\ keyJobs[k] \in 0 .. Len(jobs)
      /\ requestJobs[r] # 0 => j = requestJobs[r]
      /\ requestJobs[r] = 0 => agent # "journal" /\ j = keyJobs[k]
  BY DEF JInv, Agent!Known
<1>2. agent # "journal" => jobs[j].operation = o
  BY DEF Agent!Conflicts
<1>3. agent = "protocol" /\ keyJobs[k] # 0 => j = keyJobs[k]
  BY <1>1 DEF Agent!Conflicts
<1>4. /\ requestJobs' \in [Requests -> 0 .. Len(jobs)] /\ keyJobs' \in [Keys -> 0 .. Len(jobs)]
      /\ agent = "protocol" =>
           /\ requestJobs' = [requestJobs EXCEPT ![r] = j] /\ keyJobs' = [keyJobs EXCEPT ![k] = j]
      /\ agent # "protocol" => requestJobs' = requestJobs /\ keyJobs' = keyJobs
  BY <1>1 DEF JInv, Agent!KnownAgain, Agent!Recorded
<1>5. Agent!Answer(r, k, o, j)
  OBVIOUS
<1> HIDE DEF j
<1>6. /\ answers' \in Seq(AgentAnswer)
      /\ Len(answers) \in Nat /\ Len(answers') = n
      /\ answers'[n].request = r /\ answers'[n].key = k
      /\ answers'[n].operation = o /\ answers'[n].job = j
      /\ \A i \in 1 .. Len(answers) : answers[i] \in AgentAnswer /\ answers'[i] = answers[i]
  BY <1>1, <1>5, AnswerIsAdded
<1> HIDE DEF n
<1>7. n \in 1 .. Len(answers') /\ \A i \in 1 .. Len(answers') : i \in 1 .. Len(answers) \/ i = n
  BY <1>6 DEF n
<1>8. JobsEndOnce' /\ ReaderFollows'
  BY DEF JInv, JobsEndOnce, ReaderFollows
<1>9. AnswersFit'
  <2> SUFFICES ASSUME NEW i \in 1 .. Len(answers')
               PROVE  /\ answers'[i].job \in 1 .. Len(jobs)
                      /\ agent # "journal" =>
                           /\ jobs[answers'[i].job].operation = answers'[i].operation
                           /\ Agent!IsWellFormed(answers'[i].operation)
    BY DEF AnswersFit, Agent!IsWellFormed
  <2>1. CASE i \in 1 .. Len(answers)
    <3>1. answers'[i] = answers[i]
      BY <1>6, <2>1
    <3> QED BY <2>1, <3>1 DEF JInv, AnswersFit
  <2>2. CASE i = n
    BY <1>1, <1>2, <1>6, <2>2
  <2> QED BY <1>7, <2>1, <2>2
<1>10. NamesAnswer'
  <2>1. ASSUME NEW i \in 1 .. Len(answers'), agent \in {"protocol", "journal"}
        PROVE  requestJobs'[answers'[i].request] = answers'[i].job
    <3>1. CASE i \in 1 .. Len(answers)
      <4>1. /\ answers'[i] = answers[i] /\ answers[i].request \in Requests
            /\ answers[i].job \in Nat \ {0}
            /\ requestJobs[answers[i].request] = answers[i].job
        BY <1>6, <2>1, <3>1 DEF JInv, NamesAnswer, AgentAnswer
      <4> QED BY <1>1, <1>4, <2>1, <4>1 DEF JInv
    <3>2. CASE i = n
      BY <1>1, <1>4, <1>6, <2>1, <3>2 DEF JInv
    <3> QED BY <1>7, <3>1, <3>2
  <2>2. ASSUME NEW i \in 1 .. Len(answers'), agent = "protocol"
        PROVE  keyJobs'[answers'[i].key] = answers'[i].job
    <3>1. CASE i \in 1 .. Len(answers)
      <4>1. /\ answers'[i] = answers[i] /\ answers[i].key \in Keys
            /\ answers[i].job \in Nat \ {0} /\ keyJobs[answers[i].key] = answers[i].job
        BY <1>6, <2>2, <3>1 DEF JInv, NamesAnswer, AgentAnswer
      <4> QED BY <1>3, <1>4, <2>2, <4>1 DEF JInv
    <3>2. CASE i = n
      BY <1>4, <1>6, <2>2, <3>2 DEF JInv
    <3> QED BY <1>7, <3>1, <3>2
  <2>3. Agent!KeysAreKept' => Agent!KeysAreKept
    <3>1. DOMAIN answers' = 1 .. Len(answers') /\ DOMAIN answers = 1 .. Len(answers)
      BY <1>6 DEF JInv
    <3>2. \A i \in 1 .. Len(answers) : i \in 1 .. Len(answers') /\ answers'[i] = answers[i]
      BY <1>6 DEF n
    <3> QED BY <3>1, <3>2 DEF Agent!KeysAreKept
  <2>4. ASSUME NEW i \in 1 .. Len(answers'), agent = "remote", Agent!KeysAreKept'
        PROVE  keyJobs'[answers'[i].key] = answers'[i].job
    <3>1. CASE i \in 1 .. Len(answers)
      <4>1. answers'[i] = answers[i] /\ keyJobs[answers[i].key] = answers[i].job
        BY <1>6, <2>3, <2>4, <3>1 DEF JInv, NamesAnswer
      <4> QED BY <1>4, <2>4, <4>1
    <3>2. CASE i = n
      <4>1. CASE requestJobs[r] # 0
        <5>1. PICK m \in 1 .. Len(answers) :
                answers[m].request = r /\ answers[m].job = requestJobs[r]
          BY <2>4, <4>1 DEF JInv, NamesAnswer
        <5>2. /\ answers'[m] = answers[m] /\ m \in DOMAIN answers' /\ n \in DOMAIN answers'
              /\ keyJobs[answers[m].key] = answers[m].job
          BY <1>6, <1>7, <2>3, <2>4, <5>1 DEF JInv, NamesAnswer, n
        <5>3. answers[m].key = k
          BY <1>6, <2>4, <5>1, <5>2 DEF Agent!KeysAreKept
        <5> QED BY <1>1, <1>4, <1>6, <2>4, <3>2, <4>1, <5>1, <5>2, <5>3
      <4>2. CASE requestJobs[r] = 0
        BY <1>1, <1>4, <1>6, <2>4, <3>2, <4>2
      <4> QED BY <4>1, <4>2
    <3> QED BY <1>7, <3>1, <3>2
  <2>5. ASSUME agent = "remote", NEW q \in Requests, requestJobs'[q] # 0
        PROVE  \E i \in 1 .. Len(answers') :
                 answers'[i].request = q /\ answers'[i].job = requestJobs'[q]
    <3>1. PICK i \in 1 .. Len(answers) :
            answers[i].request = q /\ answers[i].job = requestJobs[q]
      BY <1>4, <2>5 DEF JInv, NamesAnswer
    <3>2. i \in 1 .. Len(answers') /\ answers'[i] = answers[i] /\ requestJobs' = requestJobs
      BY <1>4, <1>6, <2>5 DEF n
    <3> QED BY <3>1, <3>2
  <2> QED BY <2>1, <2>2, <2>4, <2>5 DEF NamesAnswer
<1> QED BY <1>4, <1>6, <1>8, <1>9, <1>10 DEF JInv

\* A request of which nothing is known.
LEMMA NewJobKeepsJInv ==
  ASSUME JInv, NEW r \in Requests, NEW k \in Keys, NEW o \in Operations,
         agent # "journal" => Agent!IsWellFormed(o),
         Agent!Known(r, k) = 0,
         jobs' = Append(jobs, Agent!NewJob(o)),
         Agent!Recorded(r, k, Len(jobs')), Agent!Answer(r, k, o, Len(jobs')),
         UNCHANGED <<agent, reader>>
  PROVE  JInv'
<1> DEFINE j == Len(jobs) + 1
           n == Len(answers) + 1
           new == Agent!NewJob(o)
<1>1. /\ new \in AgentJob /\ new.operation = o /\ new.running = TRUE
      /\ new.events = <<>> \/ new.events = <<"accepted">>
  <2> DEFINE events == IF agent = "journal" THEN <<>> ELSE <<"accepted">>
  <2>1. events \in Seq(EventKinds) /\ (events = <<>> \/ events = <<"accepted">>)
    <3>1. "accepted" \in EventKinds
      BY DEF EventKinds
    <3>2. <<>> \in Seq(EventKinds) /\ <<"accepted">> \in Seq(EventKinds)
      BY <3>1
    <3> QED BY <3>2
  <2>2. new = [operation |-> o, events |-> events, running |-> TRUE, cancelled |-> FALSE]
    BY DEF Agent!NewJob
  <2> HIDE DEF events
  <2> QED BY <2>1, <2>2 DEF AgentJob
<1> HIDE DEF new
<1>2. /\ jobs' \in Seq(AgentJob) /\ Len(jobs) \in Nat /\ Len(jobs') = j /\ jobs'[j] = new
      /\ \A m \in 1 .. Len(jobs) : jobs'[m] = jobs[m]
  <2>1. jobs' = Append(jobs, new)
    BY DEF new
  <2> QED BY <1>1, <2>1 DEF JInv
<1>3. /\ requestJobs[r] = 0
      /\ agent # "journal" => keyJobs[k] = 0
      /\ requestJobs' = [requestJobs EXCEPT ![r] = j] /\ keyJobs' = [keyJobs EXCEPT ![k] = j]
      /\ requestJobs' \in [Requests -> 0 .. Len(jobs')] /\ keyJobs' \in [Keys -> 0 .. Len(jobs')]
  BY <1>2 DEF JInv, Agent!Known, Agent!Recorded
<1>4. Agent!Answer(r, k, o, j) /\ j \in Nat \ {0}
  BY <1>2
<1>5. /\ answers' \in Seq(AgentAnswer)
      /\ Len(answers) \in Nat /\ Len(answers') = n
      /\ answers'[n].request = r /\ answers'[n].key = k
      /\ answers'[n].operation = o /\ answers'[n].job = j
      /\ \A i \in 1 .. Len(answers) : answers[i] \in AgentAnswer /\ answers'[i] = answers[i]
  BY <1>4, AnswerIsAdded
<1>6. n \in 1 .. Len(answers') /\ \A i \in 1 .. Len(answers') : i \in 1 .. Len(answers) \/ i = n
  BY <1>5
<1>7. j \in 1 .. Len(jobs') /\ \A m \in 1 .. Len(jobs') : m \in 1 .. Len(jobs) \/ m = j
  BY <1>2
<1>8. \A i \in 1 .. Len(answers) : i \in 1 .. Len(answers')
  BY <1>5
<1>9. \A m \in 1 .. Len(jobs) : m \in 1 .. Len(jobs') /\ m # j
  BY <1>2
<1> HIDE DEF j, n
<1>10. JobsEndOnce'
  <2> SUFFICES ASSUME NEW m \in 1 .. Len(jobs'), NEW i \in 1 .. Len(jobs'[m].events)
               PROVE  /\ jobs'[m].events[i] \in Agent!EndKinds =>
                           i = Len(jobs'[m].events) /\ jobs'[m].running = FALSE
                      /\ jobs'[m].events[i] = "cancelled" => jobs'[m].cancelled = TRUE
    BY DEF JobsEndOnce, Agent!EndKinds
  <2>1. CASE m \in 1 .. Len(jobs)
    BY <1>2, <2>1 DEF JInv, JobsEndOnce
  <2>2. CASE m = j
    <3>1. jobs'[m].events[i] = "accepted"
      BY <1>1, <1>2, <2>2
    <3> QED BY <3>1 DEF Agent!EndKinds
  <2> QED BY <1>7, <2>1, <2>2
<1>11. ReaderFollows'
  BY <1>2, <1>9 DEF JInv, ReaderFollows, j
<1>12. AnswersFit'
  <2> SUFFICES ASSUME NEW i \in 1 .. Len(answers')
               PROVE  /\ answers'[i].job \in 1 .. Len(jobs')
                      /\ agent # "journal" =>
                           /\ jobs'[answers'[i].job].operation = answers'[i].operation
                           /\ Agent!IsWellFormed(answers'[i].operation)
    BY DEF AnswersFit, Agent!IsWellFormed
  <2>1. CASE i \in 1 .. Len(answers)
    <3>1. answers'[i] = answers[i]
      BY <1>5, <2>1
    <3>2. /\ answers[i].job \in 1 .. Len(jobs)
          /\ agent # "journal" => /\ jobs[answers[i].job].operation = answers[i].operation
                                  /\ Agent!IsWellFormed(answers[i].operation)
      BY <2>1 DEF JInv, AnswersFit
    <3> QED BY <1>2, <1>9, <3>1, <3>2
  <2>2. CASE i = n
    BY <1>1, <1>2, <1>5, <1>7, <2>2
  <2> QED BY <1>6, <2>1, <2>2
<1>13. NamesAnswer'
  <2>1. ASSUME NEW i \in 1 .. Len(answers'), agent \in {"protocol", "journal"}
        PROVE  requestJobs'[answers'[i].request] = answers'[i].job
    <3>1. CASE i \in 1 .. Len(answers)
      <4>1. /\ answers'[i] = answers[i] /\ answers[i].request \in Requests
            /\ answers[i].job \in Nat \ {0}
            /\ requestJobs[answers[i].request] = answers[i].job
        BY <1>5, <2>1, <3>1 DEF JInv, NamesAnswer, AgentAnswer
      <4> QED BY <1>3, <4>1 DEF JInv
    <3>2. CASE i = n
      BY <1>3, <1>5, <3>2 DEF JInv
    <3> QED BY <1>6, <3>1, <3>2
  <2>2. Agent!KeysAreKept' => Agent!KeysAreKept
    <3>1. DOMAIN answers' = 1 .. Len(answers') /\ DOMAIN answers = 1 .. Len(answers)
      BY <1>5 DEF JInv
    <3> QED BY <1>5, <1>8, <3>1 DEF Agent!KeysAreKept
  <2>3. ASSUME NEW i \in 1 .. Len(answers'),
               agent = "protocol" \/ (agent = "remote" /\ Agent!KeysAreKept')
        PROVE  keyJobs'[answers'[i].key] = answers'[i].job
    <3>1. CASE i \in 1 .. Len(answers)
      <4>1. /\ answers'[i] = answers[i] /\ answers[i].key \in Keys
            /\ answers[i].job \in Nat \ {0} /\ keyJobs[answers[i].key] = answers[i].job
        BY <1>5, <2>2, <2>3, <3>1 DEF JInv, NamesAnswer, AgentAnswer
      <4> QED BY <1>3, <2>3, <4>1 DEF JInv
    <3>2. CASE i = n
      BY <1>3, <1>5, <3>2 DEF JInv
    <3> QED BY <1>6, <3>1, <3>2
  <2>4. ASSUME agent = "remote", NEW q \in Requests, requestJobs'[q] # 0
        PROVE  \E i \in 1 .. Len(answers') :
                 answers'[i].request = q /\ answers'[i].job = requestJobs'[q]
    <3>1. CASE q = r
      BY <1>3, <1>5, <1>6, <3>1 DEF JInv
    <3>2. CASE q # r
      <4>1. requestJobs'[q] = requestJobs[q]
        BY <1>3, <3>2 DEF JInv
      <4>2. PICK i \in 1 .. Len(answers) :
              answers[i].request = q /\ answers[i].job = requestJobs[q]
        BY <2>4, <4>1 DEF JInv, NamesAnswer
      <4> QED BY <1>5, <1>8, <4>1, <4>2
    <3> QED BY <3>1, <3>2
  <2> QED BY <2>1, <2>3, <2>4 DEF NamesAnswer
<1> QED BY <1>2, <1>3, <1>5, <1>10, <1>11, <1>12, <1>13 DEF JInv

\* A client reads on from where it was.
LEMMA ReadEventsKeepsJInv ==
  ASSUME JInv, Agent!ReadEvents
  PROVE  JInv'
<1>0. PICK j \in DOMAIN jobs :
        /\ reader.job \in {0, j}
        /\ \E n \in 0 .. Len(Agent!Behind(j, Len(reader.seen))) :
             reader' = [job |-> j, seen |-> reader.seen
                          \o SubSeq(Agent!Behind(j, Len(reader.seen)), 1, n)]
  BY DEF Agent!ReadEvents
<1>1. PICK n \in 0 .. Len(Agent!Behind(j, Len(reader.seen))) :
        reader' = [job |-> j, seen |-> reader.seen
                        \o SubSeq(Agent!Behind(j, Len(reader.seen)), 1, n)]
  BY <1>0
<1> DEFINE seen == reader.seen
           events == jobs[j].events
           more == SubSeq(Agent!Behind(j, Len(seen)), 1, n)
<1>2. /\ j \in 1 .. Len(jobs) /\ Len(jobs) \in Nat /\ events \in Seq(EventKinds)
      /\ seen \in Seq(EventKinds)
  BY JobIsJob DEF JInv, ReaderFollows
<1>3. /\ Len(seen) <= Len(events) /\ \A i \in 1 .. Len(seen) : seen[i] = events[i]
  <2>1. CASE reader.job = 0
    BY <1>2, <2>1 DEF JInv, ReaderFollows
  <2>2. CASE reader.job = j /\ reader.job # 0
    BY <1>2, <2>2 DEF JInv, ReaderFollows
  <2> QED BY <1>0, <2>1, <2>2
<1>4. /\ more \in Seq(EventKinds) /\ n \in Nat /\ Len(more) = n
      /\ Len(seen) \in Nat /\ Len(events) \in Nat /\ Len(seen) + n <= Len(events)
      /\ \A i \in 1 .. n : more[i] = events[Len(seen) + i]
  <2> DEFINE behind == SubSeq(events, Len(seen) + 1, Len(events))
  <2>1. /\ behind \in Seq(EventKinds) /\ Len(behind) = Len(events) - Len(seen)
        /\ \A i \in 1 .. Len(behind) : behind[i] = events[Len(seen) + i]
    <3> HIDE DEF seen, events
    <3> QED BY <1>2, <1>3
  <2>2. n \in 0 .. Len(behind) /\ more = SubSeq(behind, 1, n)
    BY <1>1 DEF Agent!Behind
  <2> HIDE DEF behind, seen, events, more
  <2>3. /\ more \in Seq(EventKinds) /\ Len(more) = n
        /\ \A i \in 1 .. n : more[i] = behind[i]
    BY <2>1, <2>2
  <2> QED BY <1>2, <1>3, <2>1, <2>2, <2>3
<1> DEFINE all == seen \o more
<1>5. /\ reader' = [job |-> j, seen |-> all] /\ reader'.job = j /\ reader'.seen = all
  BY <1>1
<1> HIDE DEF more, seen, events
<1>6. /\ all \in Seq(EventKinds) /\ Len(all) = Len(seen) + n
      /\ \A i \in 1 .. Len(seen) : all[i] = seen[i]
      /\ \A i \in Len(seen) + 1 .. Len(seen) + n : all[i] = more[i - Len(seen)]
  <2>1. seen \in Seq(EventKinds) /\ more \in Seq(EventKinds) /\ Len(more) = n
    BY <1>2, <1>4
  <2>2. n \in Nat /\ Len(seen) \in Nat
    BY <1>4
  <2>3. all \in Seq(EventKinds) /\ Len(all) = Len(seen) + n
    BY <2>1
  <2>4. \A i \in 1 .. Len(seen) : all[i] = seen[i]
    BY <2>1
  <2>5. ASSUME NEW i \in Len(seen) + 1 .. Len(seen) + n PROVE all[i] = more[i - Len(seen)]
    BY <2>1, <2>2
  <2> QED BY <2>3, <2>4, <2>5
<1> HIDE DEF all
<1>7. \A i \in 1 .. Len(all) : all[i] = events[i]
  <2> SUFFICES ASSUME NEW i \in 1 .. Len(all) PROVE all[i] = events[i]
    OBVIOUS
  <2>1. CASE i <= Len(seen)
    BY <1>3, <1>4, <1>6, <2>1
  <2>2. CASE i > Len(seen)
    <3>1. i - Len(seen) \in 1 .. n /\ i \in Len(seen) + 1 .. Len(seen) + n
      BY <1>4, <1>6, <2>2
    <3> QED BY <1>4, <1>6, <3>1
  <2> QED BY <1>4, <2>1, <2>2
<1>8. UNCHANGED <<agent, jobs, requestJobs, keyJobs, answers>>
  BY DEF Agent!ReadEvents
<1>9. ReaderFollows'
  BY <1>2, <1>4, <1>5, <1>6, <1>7, <1>8 DEF ReaderFollows, events
<1> QED BY <1>8, <1>9 DEF JInv, JobsEndOnce, AnswersFit, NamesAnswer, Agent!KeysAreKept

LEMMA JInvRunsOnce ==
  ASSUME JInv
  PROVE  Agent!JobRunsOnce
<1>1. /\ DOMAIN answers = 1 .. Len(answers) /\ DOMAIN jobs = 1 .. Len(jobs)
      /\ \A j \in 1 .. Len(jobs) : DOMAIN jobs[j].events = 1 .. Len(jobs[j].events)
  BY JobIsJob DEF JInv
<1>2. ASSUME NEW i \in 1 .. Len(answers), NEW m \in 1 .. Len(answers),
             Agent!SameName(answers[i], answers[m])
      PROVE  answers[i].job = answers[m].job
  <2>1. CASE agent = "protocol"
    <3>1. \/ answers[i].request = answers[m].request
          \/ answers[i].key = answers[m].key
      BY <1>2, <2>1 DEF Agent!SameName
    <3> QED BY <2>1, <3>1 DEF JInv, NamesAnswer
  <2>2. CASE agent = "remote"
    <3>1. Agent!KeysAreKept /\ answers[i].key = answers[m].key
      BY <1>2, <2>2 DEF Agent!SameName
    <3> QED BY <2>2, <3>1 DEF JInv, NamesAnswer
  <2>3. CASE agent = "journal"
    <3>1. answers[i].request = answers[m].request
      BY <1>2, <2>3 DEF Agent!SameName
    <3> QED BY <2>3, <3>1 DEF JInv, NamesAnswer
  <2> QED BY <2>1, <2>2, <2>3 DEF JInv, Agent!Agents
<1>3. ASSUME reader.job # 0
      PROVE  Agent!IsPrefix(reader.seen, jobs[reader.job].events)
  <2> DEFINE seen == reader.seen
             events == jobs[reader.job].events
  <2>1. reader.job \in DOMAIN jobs
    BY <1>3 DEF JInv, ReaderFollows
  <2>2. /\ seen \in Seq(EventKinds) /\ events \in Seq(EventKinds)
        /\ Len(seen) <= Len(events) /\ \A i \in 1 .. Len(seen) : seen[i] = events[i]
    BY <1>3, <2>1, JobIsJob DEF JInv, ReaderFollows
  <2> HIDE DEF seen, events
  <2>3. SubSeq(seen, 1, Len(seen)) = SubSeq(events, 1, Len(seen))
    BY <2>2
  <2>4. Agent!IsPrefix(seen, events)
    BY <2>2, <2>3 DEF Agent!IsPrefix
  <2> QED BY <2>4 DEF seen, events
<1>4. /\ agent # "journal" =>
           \A i \in 1 .. Len(answers) :
             /\ jobs[answers[i].job].operation = answers[i].operation
             /\ Agent!IsWellFormed(answers[i].operation)
      /\ \A j \in 1 .. Len(jobs) : \A i \in 1 .. Len(jobs[j].events) :
           /\ jobs[j].events[i] \in Agent!EndKinds =>
                i = Len(jobs[j].events) /\ jobs[j].running = FALSE
           /\ jobs[j].events[i] = "cancelled" => jobs[j].cancelled = TRUE
  BY DEF JInv, AnswersFit, JobsEndOnce
<1>5. \A j \in DOMAIN jobs : \A i \in DOMAIN jobs[j].events :
        /\ jobs[j].events[i] \in Agent!EndKinds =>
             i = Len(jobs[j].events) /\ ~jobs[j].running
        /\ jobs[j].events[i] = "cancelled" => jobs[j].cancelled
  BY <1>1, <1>4
<1> QED BY <1>1, <1>2, <1>3, <1>4, <1>5 DEF Agent!JobRunsOnce

LEMMA JobAgentsStart ==
  ASSUME Agent!AgentInit
  PROVE  JInv
<1>1. /\ agent \in Agent!Agents /\ jobs = <<>> /\ answers = <<>>
      /\ requestJobs = [r \in Requests |-> 0] /\ keyJobs = [k \in Keys |-> 0]
      /\ reader = [job |-> 0, seen |-> <<>>] /\ reader.job = 0 /\ reader.seen = <<>>
  BY DEF Agent!AgentInit
<1>2. /\ Len(jobs) = 0 /\ Len(answers) = 0
      /\ jobs \in Seq(AgentJob) /\ answers \in Seq(AgentAnswer) /\ <<>> \in Seq(EventKinds)
  BY <1>1
<1>3. JobsEndOnce /\ AnswersFit /\ ReaderFollows
  BY <1>1, <1>2 DEF JobsEndOnce, AnswersFit, ReaderFollows
<1>4. NamesAnswer
  BY <1>1, <1>2 DEF NamesAnswer
<1> QED BY <1>1, <1>2, <1>3, <1>4 DEF JInv

LEMMA SubmitKeepsJInv ==
  ASSUME JInv, Agent!Submit
  PROVE  JInv'
<1>1. PICK r \in Requests, k \in Keys, o \in Operations :
        /\ agent # "journal" => Agent!IsWellFormed(o)
        /\ ~Agent!Conflicts(r, k, o)
        /\ IF Agent!Known(r, k) # 0
           THEN /\ Agent!KnownAgain(r, k)
                /\ Agent!Answer(r, k, o, Agent!Known(r, k)) /\ UNCHANGED jobs
           ELSE /\ jobs' = Append(jobs, Agent!NewJob(o))
                /\ Agent!Recorded(r, k, Len(jobs'))
                /\ Agent!Answer(r, k, o, Len(jobs'))
  BY DEF Agent!Submit
<1>2. UNCHANGED <<agent, reader>>
  BY DEF Agent!Submit
<1>3. CASE Agent!Known(r, k) # 0
  BY <1>1, <1>2, <1>3, KnownJobKeepsJInv
<1>4. CASE Agent!Known(r, k) = 0
  BY <1>1, <1>2, <1>4, NewJobKeepsJInv
<1> QED BY <1>3, <1>4

\* However a request is repeated, under its id or its key, the agents that keep jobs in
\* memory answer it with the one job that runs what it asks for; the events of a job end
\* once, and a reader misses and repeats none of them.  For any requests and operations
\* and however many jobs.
THEOREM JobsRunOnce == Agent!AgentSpec => []JobRunsOnce
<1>1. Agent!AgentInit => JInv
  BY JobAgentsStart
<1>2. JInv /\ [Agent!AgentNext]_(Agent!agentVars) => JInv'
  <2> SUFFICES ASSUME JInv, [Agent!AgentNext]_(Agent!agentVars) PROVE JInv'
    OBVIOUS
  <2>1. CASE Agent!Submit
    BY <2>1, SubmitKeepsJInv
  <2>2. CASE Agent!MakeProgress \/ Agent!FinishJob \/ Agent!CancelJob
    BY <2>2, JobStepsKeepJInv
  <2>3. CASE Agent!ReadEvents
    BY <2>3, ReadEventsKeepsJInv
  <2>4. CASE UNCHANGED Agent!agentVars
    BY <2>4 DEF Agent!agentVars, JInv, JobsEndOnce, ReaderFollows, AnswersFit, NamesAnswer,
                Agent!KeysAreKept
  <2> QED BY <2>1, <2>2, <2>3, <2>4 DEF Agent!AgentNext
<1>3. JInv => JobRunsOnce
  BY JInvRunsOnce DEF JobRunsOnce
<1> QED BY <1>1, <1>2, <1>3, PTL DEF Agent!AgentSpec

-----------------------------------------------------------------------------
(***************************************************************************)
(* ControllerSessions: a session is accepted once, as long as its entry    *)
(* is in the file.                                                         *)
(*                                                                         *)
(* A session that was accepted is in the file, or was dropped by a         *)
(* consumer for which it had expired (SessionsAreRemembered); who waits    *)
(* for the lock has verified its session in time, and finds its entry if   *)
(* nobody has dropped it.                                                  *)
(***************************************************************************)
Issued == [at : Nat, expires : Nat]

FileHolds ==
  cache # None =>
    /\ DOMAIN cache \subseteq DOMAIN issued
    /\ cache = [k \in DOMAIN cache |-> issued[k].expires]
    /\ IsFiniteSet(DOMAIN cache) /\ Cardinality(DOMAIN cache) <= MaxEntries

ConsumersVerified ==
  \A c \in Consumers :
    consumer[c] # Sessions!Out =>
      /\ consumer[c].session \in DOMAIN issued /\ consumer[c].now \in Nat
      /\ consumer[c].now <= issued[consumer[c].session].expires

SessionsAreRemembered ==
  /\ \A k \in Assertions \ DOMAIN issued : accepted[k] = 0
  /\ \A k \in DOMAIN issued :
       /\ accepted[k] > 0 =>
            (cache # None /\ k \in DOMAIN cache) \/ latest > issued[k].expires
       /\ accepted[k] > 1 => latest > issued[k].expires

SessionInv ==
  /\ time \in Nat /\ latest \in Nat /\ accepted \in [Assertions -> Nat]
  /\ DOMAIN issued \subseteq Assertions /\ issued \in [DOMAIN issued -> Issued]
  /\ consumer = [c \in Consumers |-> consumer[c]]
  /\ FileHolds /\ ConsumersVerified /\ SessionsAreRemembered

LEMMA SessionsStart ==
  ASSUME Sessions!SessionInit
  PROVE  SessionInv
<1>1. /\ time = 1 /\ latest = 0 /\ accepted = [k \in Assertions |-> 0] /\ cache = None
      /\ issued = [k \in {} |-> None] /\ consumer = [c \in Consumers |-> Sessions!Out]
  BY DEF Sessions!SessionInit
<1>2. DOMAIN issued = {}
  BY <1>1
<1> QED BY <1>1, <1>2 DEF SessionInv, FileHolds, ConsumersVerified, SessionsAreRemembered

LEMMA TickKeepsSessionInv ==
  ASSUME SessionInv, Sessions!Tick
  PROVE  SessionInv'
BY DEF SessionInv, FileHolds, ConsumersVerified, SessionsAreRemembered, Sessions!Tick

LEMMA IssueKeepsSessionInv ==
  ASSUME SessionInv, NEW k \in Assertions, Sessions!Issue(k)
  PROVE  SessionInv'
<1>1. PICK lifetime \in 1 .. MaxLifetime :
        issued' = [j \in DOMAIN issued \cup {k} |->
                     IF j = k THEN [at |-> time, expires |-> time + lifetime] ELSE issued[j]]
  BY DEF Sessions!Issue
<1>2. /\ k \notin DOMAIN issued /\ DOMAIN issued' = DOMAIN issued \cup {k}
      /\ \A j \in DOMAIN issued : issued'[j] = issued[j] /\ issued[j] \in Issued
      /\ issued'[k] \in Issued
      /\ issued' \in [DOMAIN issued' -> Issued]
  BY <1>1, NatAssumption DEF Sessions!Issue, SessionInv, Issued
<1>3. UNCHANGED <<time, cache, leftover, consumer, accepted, latest>>
  BY DEF Sessions!Issue
<1>4. FileHolds'
  BY <1>2, <1>3 DEF SessionInv, FileHolds
<1>5. ConsumersVerified'
  BY <1>2, <1>3 DEF SessionInv, ConsumersVerified
<1>6. SessionsAreRemembered'
  BY <1>2, <1>3 DEF SessionInv, SessionsAreRemembered
<1> QED BY <1>2, <1>3, <1>4, <1>5, <1>6 DEF SessionInv

LEMMA VerifyKeepsSessionInv ==
  ASSUME SessionInv, NEW c \in Consumers, NEW k \in Assertions, Sessions!Verify(c, k)
  PROVE  SessionInv'
<1>1. /\ k \in DOMAIN issued /\ time <= issued[k].expires
      /\ consumer' = [consumer EXCEPT ![c] = [phase |-> "waiting", session |-> k, now |-> time]]
      /\ UNCHANGED <<time, issued, cache, accepted, latest>>
  BY DEF Sessions!Verify
<1>2. ConsumersVerified'
  BY <1>1 DEF SessionInv, ConsumersVerified
<1> QED BY <1>1, <1>2 DEF SessionInv, FileHolds, SessionsAreRemembered

\* The number of elements is the same in every module.
LEMMA SameCardinality == \A S : Sessions!Cardinality(S) = Cardinality(S)
BY DEF Sessions!Cardinality, Cardinality

LEMMA ConsumeKeepsSessionInv ==
  ASSUME SessionInv, NEW c \in Consumers, Sessions!Consume(c)
  PROVE  SessionInv'
<1> DEFINE k == consumer[c].session
           at == consumer[c].now
           before == IF cache = None THEN [j \in {} |-> 0] ELSE cache
           entries == Sessions!Kept(before, at)
           added == [j \in DOMAIN entries \cup {k} |->
                       IF j = k THEN issued[k].expires ELSE entries[j]]
           later == IF at > latest THEN at ELSE latest
<1>1. /\ k \in DOMAIN issued /\ k \in Assertions /\ at \in Nat /\ at <= issued[k].expires
      /\ issued[k] \in Issued /\ issued[k].expires \in Nat
  BY DEF SessionInv, ConsumersVerified, Sessions!Consume, Issued
<1>2. /\ DOMAIN before \subseteq DOMAIN issued /\ IsFiniteSet(DOMAIN before)
      /\ \A j \in DOMAIN before : before[j] = issued[j].expires
      /\ cache = None => DOMAIN before = {}
      /\ cache # None => before = cache
  <2>1. CASE cache = None
    BY <2>1, FS_EmptySet
  <2>2. CASE cache # None
    BY <2>2 DEF SessionInv, FileHolds
  <2> QED BY <2>1, <2>2
<1> HIDE DEF before
<1>3. /\ DOMAIN entries = {j \in DOMAIN before : before[j] >= at}
      /\ \A j \in DOMAIN entries : entries[j] = issued[j].expires
  BY <1>2 DEF Sessions!Kept, Sessions!Restrict
<1> HIDE DEF entries
<1>4. /\ IsFiniteSet(DOMAIN entries) /\ DOMAIN entries \subseteq DOMAIN before
      /\ Cardinality(DOMAIN entries) \in Nat
  BY <1>2, <1>3, FS_Subset, FS_CardinalityType
<1> DEFINE refuses == \/ k \in DOMAIN entries \/ Cardinality(DOMAIN entries) >= MaxEntries
                      \/ c \in leftover
           replaced == /\ ~refuses /\ cache' = added /\ latest' = later
<1>5. /\ consumer' = [consumer EXCEPT ![c] = Sessions!Out] /\ UNCHANGED <<time, issued>>
      /\ \/ UNCHANGED <<cache, accepted, latest>>
         \/ replaced /\ accepted' = [accepted EXCEPT ![k] = @ + 1]
         \/ replaced /\ UNCHANGED accepted
  BY SameCardinality DEF Sessions!Consume, before, entries
<1>6. ConsumersVerified' /\ consumer' = [d \in Consumers |-> consumer'[d]]
  BY <1>5 DEF SessionInv, ConsumersVerified
<1>7. CASE UNCHANGED <<cache, accepted, latest>>
  BY <1>5, <1>6, <1>7 DEF SessionInv, FileHolds, SessionsAreRemembered
<1>8. CASE replaced
  <2>1. /\ DOMAIN added = DOMAIN entries \cup {k}
        /\ DOMAIN added \subseteq DOMAIN issued
        /\ \A j \in DOMAIN added : added[j] = issued[j].expires
        /\ added = [j \in DOMAIN added |-> issued[j].expires]
    BY <1>1, <1>2, <1>3, <1>4
  <2>2. added # None
    <3>1. added \in [DOMAIN added -> Nat] /\ DOMAIN added \in SUBSET Assertions
      BY <2>1 DEF SessionInv, Issued
    <3> QED BY <3>1, NoneAssumption
  <2>3. IsFiniteSet(DOMAIN added) /\ Cardinality(DOMAIN added) <= MaxEntries
    <3>1. /\ IsFiniteSet(DOMAIN entries \cup {k})
          /\ Cardinality(DOMAIN entries \cup {k}) = Cardinality(DOMAIN entries) + 1
      BY <1>4, <1>8, FS_AddElement
    <3> QED BY <1>4, <1>8, <2>1, <3>1, NatAssumption
  <2> HIDE DEF added
  <2>4. FileHolds'
    BY <1>5, <1>8, <2>1, <2>2, <2>3 DEF FileHolds
  <2>5. later \in Nat /\ later >= latest /\ later >= at
    BY <1>1 DEF SessionInv
  <2>6. \A j \in DOMAIN issued : issued[j].expires \in Nat /\ j \in Assertions
    BY DEF SessionInv, Issued
  <2>7. accepted' \in [Assertions -> Nat] /\ accepted'[k] \in {accepted[k], accepted[k] + 1}
        /\ \A j \in Assertions : j # k => accepted'[j] = accepted[j]
    BY <1>1, <1>5, <1>8 DEF SessionInv
  <2> HIDE DEF later
  <2>8. \A j \in DOMAIN issued :
          accepted[j] > 0 /\ j \notin DOMAIN entries => later > issued[j].expires
    <3> SUFFICES ASSUME NEW j \in DOMAIN issued, accepted[j] > 0, j \notin DOMAIN entries
                 PROVE  later > issued[j].expires
      OBVIOUS
    <3>1. CASE latest > issued[j].expires
      BY <2>5, <2>6, <3>1 DEF SessionInv
    <3>2. CASE cache # None /\ j \in DOMAIN cache
      BY <1>1, <1>2, <1>3, <2>5, <2>6, <3>2 DEF SessionInv
    <3> QED BY <3>1, <3>2 DEF SessionInv, SessionsAreRemembered
  <2>9. SessionsAreRemembered'
    <3>1. \A j \in Assertions \ DOMAIN issued : accepted'[j] = 0
      BY <1>1, <2>7 DEF SessionInv, SessionsAreRemembered
    <3>2. ASSUME NEW j \in DOMAIN issued
          PROVE  /\ accepted'[j] > 0 => j \in DOMAIN added \/ later > issued[j].expires
                 /\ accepted'[j] > 1 => later > issued[j].expires
      <4>1. CASE j = k
        <5>1. k \notin DOMAIN entries
          BY <1>8
        <5> QED BY <1>1, <2>1, <2>7, <2>8, <4>1, <5>1 DEF SessionInv
      <4>2. CASE j # k
        <5>1. accepted'[j] = accepted[j] /\ accepted[j] \in Nat
          BY <2>6, <2>7, <4>2 DEF SessionInv
        <5>2. accepted[j] > 1 => later > issued[j].expires
          BY <2>5, <2>6 DEF SessionInv, SessionsAreRemembered
        <5> QED BY <2>1, <2>8, <5>1, <5>2
      <4> QED BY <4>1, <4>2
    <3> QED BY <1>5, <1>8, <2>2, <3>1, <3>2 DEF SessionsAreRemembered
  <2>10. latest' \in Nat
    BY <1>8, <2>5
  <2> QED BY <1>5, <1>6, <2>4, <2>7, <2>9, <2>10 DEF SessionInv
<1> QED BY <1>5, <1>7, <1>8

LEMMA SessionsKeepSessionInv ==
  ASSUME SessionInv, [Sessions!SessionNext]_(Sessions!sessionVars)
  PROVE  SessionInv'
<1>1. CASE Sessions!Tick
  BY <1>1, TickKeepsSessionInv
<1>2. ASSUME NEW k \in Assertions, Sessions!Issue(k) PROVE SessionInv'
  BY <1>2, IssueKeepsSessionInv
<1>3. ASSUME NEW c \in Consumers, Sessions!Consume(c) PROVE SessionInv'
  BY <1>3, ConsumeKeepsSessionInv
<1>4. ASSUME NEW c \in Consumers, NEW k \in Assertions, Sessions!Verify(c, k) PROVE SessionInv'
  BY <1>4, VerifyKeepsSessionInv
<1>5. CASE UNCHANGED Sessions!sessionVars
  BY <1>5 DEF Sessions!sessionVars, SessionInv, FileHolds, ConsumersVerified,
              SessionsAreRemembered
<1> QED BY <1>1, <1>2, <1>3, <1>4, <1>5 DEF Sessions!SessionNext

-----------------------------------------------------------------------------
(***************************************************************************)
(* MeshApprovals: what a service takes is for its machine and in time.     *)
(*                                                                         *)
(* An assertion on its way carries the clock of the registry at the time   *)
(* it was issued (CallsFit); the clocks do not change how they differ.     *)
(***************************************************************************)
CallsFit ==
  \A c \in Calls :
    /\ call[c].phase = "signed" => call[c].source \in Peers
    /\ call[c].phase = "asserted" =>
         /\ call[c].source \in Peers \ AgentPeers
         /\ call[c].at \in Nat /\ call[c].at <= now
         /\ call[c].issued = call[c].at + ahead[Registry]
         /\ call[c].expires = call[c].at + ahead[Registry] + Lifetime

ApprovalInv ==
  /\ now \in Nat /\ ahead \in [Peers \cup {Registry} -> Nat]
  /\ call = [c \in Calls |-> call[c]]
  /\ CallsFit /\ Approvals!TakenInTime

LEMMA ApprovalsStart ==
  ASSUME Approvals!ApprovalInit
  PROVE  ApprovalInv
<1>1. /\ now = 0 /\ ahead \in [Peers \cup {Registry} -> 0 .. MaxAhead]
      /\ call = [c \in Calls |-> Approvals!Idle] /\ presented = {}
  BY DEF Approvals!ApprovalInit
<1>2. \A c \in Calls : call[c].phase = "idle"
  BY <1>1 DEF Approvals!Idle
<1>3. CallsFit /\ Approvals!TakenInTime
  BY <1>1, <1>2 DEF CallsFit, Approvals!TakenInTime
<1> QED BY <1>1, <1>3, NatAssumption DEF ApprovalInv

LEMMA PresentKeepsApprovalInv ==
  ASSUME ApprovalInv, NEW c \in Calls, Approvals!Present(c)
  PROVE  ApprovalInv'
<1> DEFINE p == call[c].source
           becomes == IF ~Approvals!Valid(call[c], p) THEN "refused"
                      ELSE IF p \in online THEN "asked" ELSE "offline"
           record == [source |-> p, target |-> call[c].target, age |-> now - call[c].at,
                      becomes |-> becomes]
<1>1. /\ presented' = presented \cup {record}
      /\ call' = [call EXCEPT ![c] = [phase |-> "done"]]
      /\ UNCHANGED <<now, ahead>>
  BY DEF Approvals!Present
<1>2. /\ p \in Peers \ AgentPeers /\ call[c].at \in Nat /\ call[c].at <= now
      /\ call[c].issued = call[c].at + ahead[Registry]
      /\ call[c].expires = call[c].at + ahead[Registry] + Lifetime
  BY DEF ApprovalInv, CallsFit, Approvals!Present
<1>3. /\ ahead[p] \in Nat /\ ahead[Registry] \in Nat /\ now \in Nat /\ Lifetime \in Nat
  BY <1>2, NatAssumption DEF ApprovalInv
<1>4. Approvals!Valid(call[c], p) <=>
        /\ call[c].target = p
        /\ call[c].at + ahead[Registry] <= now + ahead[p]
        /\ now + ahead[p] <= call[c].at + ahead[Registry] + Lifetime
  BY <1>2 DEF Approvals!Valid, Approvals!Clock
<1>5. becomes = "refused" <=> ~Approvals!Valid(call[c], p)
  OBVIOUS
<1>6. /\ record.source = p /\ record.target = call[c].target
      /\ record.age = now - call[c].at /\ record.becomes = becomes
  OBVIOUS
<1> HIDE DEF record, becomes, p
<1>7. Approvals!TakenInTime'
  <2>1. /\ record.becomes # "refused" =>
             record.target = record.source /\ record.source \notin AgentPeers
               /\ record.age + ahead[record.source] <= Lifetime + ahead[Registry]
        /\ record.becomes = "refused" =>
             \/ record.target # record.source \/ record.age > Lifetime
             \/ ahead[record.source] # ahead[Registry]
    BY <1>2, <1>3, <1>4, <1>5, <1>6
  <2> QED BY <1>1, <2>1 DEF ApprovalInv, Approvals!TakenInTime
<1>8. CallsFit'
  BY <1>1 DEF ApprovalInv, CallsFit
<1> QED BY <1>1, <1>7, <1>8 DEF ApprovalInv

LEMMA ApprovalsKeepApprovalInv ==
  ASSUME ApprovalInv, [Approvals!ApprovalNext]_(Approvals!approvalVars)
  PROVE  ApprovalInv'
<1>1. CASE Approvals!Tick
  BY <1>1 DEF ApprovalInv, CallsFit, Approvals!TakenInTime, Approvals!Tick
<1>2. ASSUME NEW p \in Peers, Approvals!ChangeOnline(p) PROVE ApprovalInv'
  BY <1>2 DEF ApprovalInv, CallsFit, Approvals!TakenInTime, Approvals!ChangeOnline
<1>3. ASSUME NEW p \in Peers, NEW c \in Calls, Approvals!SignClaim(c, p) PROVE ApprovalInv'
  <2>1. PICK target \in Peers :
          call' = [call EXCEPT ![c] = [phase |-> "signed", source |-> p, target |-> target]]
    BY <1>3 DEF Approvals!SignClaim
  <2>2. CallsFit' /\ call' = [d \in Calls |-> call'[d]]
    BY <1>3, <2>1 DEF ApprovalInv, CallsFit, Approvals!SignClaim
  <2> QED BY <1>3, <2>2 DEF ApprovalInv, Approvals!TakenInTime, Approvals!SignClaim
<1>4. ASSUME NEW c \in Calls, Approvals!IssueApproval(c) PROVE ApprovalInv'
  <2>1. UNCHANGED <<now, ahead, presented>> /\ call[c].source \in Peers
    BY <1>4 DEF ApprovalInv, CallsFit, Approvals!IssueApproval
  <2>2. CASE call' = [call EXCEPT ![c] = [phase |-> "failed"]]
    BY <2>1, <2>2 DEF ApprovalInv, CallsFit, Approvals!TakenInTime
  <2>3. CASE call[c].source \notin AgentPeers
               /\ call' = [call EXCEPT ![c] = Approvals!Asserted(c)]
    <3>1. CallsFit'
      BY <2>1, <2>3, NatAssumption
      DEF ApprovalInv, CallsFit, Approvals!Asserted, Approvals!Clock
    <3> QED BY <2>1, <2>3, <3>1 DEF ApprovalInv, Approvals!TakenInTime
  <2> QED BY <1>4, <2>2, <2>3 DEF Approvals!IssueApproval
<1>5. ASSUME NEW c \in Calls, Approvals!Present(c) PROVE ApprovalInv'
  BY <1>5, PresentKeepsApprovalInv
<1>6. CASE UNCHANGED Approvals!approvalVars
  BY <1>6 DEF Approvals!approvalVars, ApprovalInv, CallsFit, Approvals!TakenInTime
<1> QED BY <1>1, <1>2, <1>3, <1>4, <1>5, <1>6 DEF Approvals!ApprovalNext

\* What one machine asserts and another takes is taken once, up to and including the last
\* moment at which it verifies, and in time as far as the clocks agree: for any processes,
\* sessions and machines, however long the file may grow and however the clocks differ.
THEOREM AssertionsAreTakenOnce ==
  Sessions!SessionSpec /\ Approvals!ApprovalSpec => []AcceptedOnce
<1>1. Sessions!SessionInit => SessionInv
  BY SessionsStart
<1>2. SessionInv /\ [Sessions!SessionNext]_(Sessions!sessionVars) => SessionInv'
  BY SessionsKeepSessionInv
<1>3. Approvals!ApprovalInit => ApprovalInv
  BY ApprovalsStart
<1>4. ApprovalInv /\ [Approvals!ApprovalNext]_(Approvals!approvalVars) => ApprovalInv'
  BY ApprovalsKeepApprovalInv
<1>5. SessionInv /\ ApprovalInv => AcceptedOnce
  BY SameCardinality
  DEF SessionInv, FileHolds, SessionsAreRemembered, ApprovalInv, AcceptedOnce,
      Sessions!AcceptedOnce
<1> QED BY <1>1, <1>2, <1>3, <1>4, <1>5, PTL DEF Sessions!SessionSpec, Approvals!ApprovalSpec

-----------------------------------------------------------------------------
(***************************************************************************)
(* Identity: a directory keeps its one identity, and only peers that were  *)
(* let in are trusted.                                                     *)
(*                                                                         *)
(* A file that was written in full is never written again, so what a       *)
(* process read in full is what is there (FilesFit); and whoever is        *)
(* between two writes owns what it has written, because no two processes   *)
(* make the same pair.  A code that was not used has let nobody in, and no *)
(* two processes hold the same one (CodesFit).                             *)
(***************************************************************************)
FileState == [pair : Nat, whole : BOOLEAN]

Making == {"making", "certificate", "key", "secret"}
Exposed == {"ready", "trusting"}

ReadFits(read, file) == read.whole = TRUE => file = read

\* What the two files are to a process in state s, when n pairs were made.
FilesFit(s, file, keyFile, n) ==
  /\ s.phase = "loading" =>
       (s.certificate # None =>
          s.certificate \in FileState /\ ReadFits(s.certificate, file))
  /\ s.phase \in Making => s.pair \in 1 .. n /\ s = [phase |-> s.phase, pair |-> s.pair]
  /\ s.phase = "making" => (file # None => file.pair # s.pair)
  /\ s.phase = "certificate" => file = Identities!Part(s.pair) /\ keyFile = None
  /\ s.phase = "key" => file = Identities!Whole(s.pair) /\ keyFile = None
  /\ s.phase = "secret" =>
       file = Identities!Whole(s.pair) /\ keyFile = Identities!Part(s.pair)
  /\ s.phase = "checking" =>
       /\ s.certificate \in FileState /\ ReadFits(s.certificate, file)
       /\ s.key \in FileState /\ ReadFits(s.key, keyFile)
  /\ s.phase \in Exposed =>
       /\ s.pair \in Nat
       /\ file = Identities!Whole(s.pair) /\ keyFile = Identities!Whole(s.pair)

\* What the codes, and the peers they have let in, are to it.
CodesFit(s, codes, known) ==
  s.phase \in Exposed =>
    /\ s.code \in 0 .. Len(codes)
    /\ s.code # 0 => codes[s.code] = {}
    /\ s.trusted = [q \in Peers |-> s.trusted[q]]
    /\ \A q \in Peers : s.trusted[q] # None => q \in known
    /\ s.phase = "ready" =>
         s = [phase |-> "ready", pair |-> s.pair, code |-> s.code, trusted |-> s.trusted]
    /\ s.phase = "trusting" => s.peer \in known

FilesInv ==
  /\ pairs \in Nat /\ proc = [p \in Programs |-> proc[p]]
  /\ certificate \in {None} \cup FileState
  /\ certificate # None => certificate.pair \in 1 .. pairs
  /\ privateKey \in {None} \cup FileState
  /\ privateKey # None => certificate = Identities!Whole(privateKey.pair)
  /\ \A p \in Programs : FilesFit(proc[p], certificate, privateKey, pairs)
  /\ \A p, r \in Programs :
       p # r /\ proc[p].phase \in Making /\ proc[r].phase \in Making =>
         proc[p].pair # proc[r].pair
  /\ \A n \in shown : n \in Nat /\ certificate = Identities!Whole(n)

\* Every code lets in at most one peer.
OneEach(codes) ==
  \A i \in 1 .. Len(codes) : codes[i] = {} \/ \E q \in Peers : codes[i] = {q}

FilesOfKnown(trust, known) ==
  trust = [q \in Peers |-> trust[q]] /\ \A q \in Peers : trust[q] # None => q \in known

AdmitInv ==
  /\ admitted \in Seq(SUBSET Peers) /\ OneEach(admitted)
  /\ \A p \in Programs : CodesFit(proc[p], admitted, Identities!Admitted)
  /\ \A p, r \in Programs :
       p # r /\ proc[p].phase \in Exposed /\ proc[r].phase \in Exposed /\ proc[p].code # 0 =>
         proc[p].code # proc[r].code
  /\ FilesOfKnown(trustFiles, Identities!Admitted)
  /\ connected \subseteq Identities!Admitted

IdentityInv == FilesInv /\ AdmitInv

LEMMA FileStates ==
  /\ None \notin FileState
  /\ \A m \in Nat : Identities!Part(m) \in FileState /\ Identities!Whole(m) \in FileState
  /\ \A m : /\ Identities!Part(m).pair = m /\ Identities!Part(m).whole = FALSE
            /\ Identities!Whole(m).pair = m /\ Identities!Whole(m).whole = TRUE
<1>1. None \notin FileState
  BY NoneAssumption DEF FileState
<1>2. \A m \in Nat : Identities!Part(m) \in FileState /\ Identities!Whole(m) \in FileState
  BY DEF FileState, Identities!Part, Identities!Whole
<1>3. \A m : /\ Identities!Part(m).pair = m /\ Identities!Part(m).whole = FALSE
             /\ Identities!Whole(m).pair = m /\ Identities!Whole(m).whole = TRUE
  BY DEF Identities!Part, Identities!Whole
<1> QED BY <1>1, <1>2, <1>3

\* A process goes on to a state that owns nothing, and writes nothing.
LEMMA FilesStay ==
  ASSUME FilesInv, NEW p \in Programs, NEW s, proc' = [proc EXCEPT ![p] = s],
         FilesFit(s, certificate, privateKey, pairs), s.phase \notin Making,
         UNCHANGED <<certificate, privateKey, pairs>>,
         \A n \in shown' : n \in Nat /\ certificate = Identities!Whole(n)
  PROVE  FilesInv'
<1>1. proc' = [r \in Programs |-> proc'[r]]
      /\ \A r \in Programs : proc'[r] = IF r = p THEN s ELSE proc[r]
  BY DEF FilesInv
<1>3. \A r \in Programs : FilesFit(proc'[r], certificate', privateKey', pairs')
  BY <1>1 DEF FilesInv
<1> QED BY <1>1, <1>3 DEF FilesInv

\* A process goes on with the code it had, or with none.
LEMMA CodesStay ==
  ASSUME IdentityInv, NEW p \in Programs, NEW s, proc' = [proc EXCEPT ![p] = s],
         CodesFit(s, admitted, Identities!Admitted),
         s.phase \in Exposed /\ s.code # 0 =>
           proc[p].phase \in Exposed /\ s.code = proc[p].code,
         UNCHANGED <<admitted, trustFiles, connected>>
  PROVE  AdmitInv'
<1>1. \A r \in Programs : proc'[r] = IF r = p THEN s ELSE proc[r]
  BY DEF IdentityInv, FilesInv
<1>2. Identities!Admitted' = Identities!Admitted
  BY DEF Identities!Admitted
<1>4. \A r \in Programs : CodesFit(proc'[r], admitted', Identities!Admitted')
  BY <1>1, <1>2 DEF IdentityInv, AdmitInv
<1>5. ASSUME NEW r \in Programs, NEW t \in Programs, r # t,
             proc'[r].phase \in Exposed, proc'[t].phase \in Exposed, proc'[r].code # 0
      PROVE  proc'[r].code # proc'[t].code
  <2>1. CASE r = p
    BY <1>1, <1>5, <2>1 DEF IdentityInv, AdmitInv
  <2>2. CASE t = p
    BY <1>1, <1>5, <2>2 DEF IdentityInv, AdmitInv
  <2>3. CASE r # p /\ t # p
    BY <1>1, <1>5, <2>3 DEF IdentityInv, AdmitInv
  <2> QED BY <2>1, <2>2, <2>3
<1> QED BY <1>2, <1>4, <1>5 DEF IdentityInv, AdmitInv

LEMMA IdentityStarts ==
  ASSUME Identities!IdentityInit
  PROVE  IdentityInv
<1>1. /\ certificate = None /\ privateKey = None /\ pairs = 0 /\ shown = {}
      /\ admitted = <<>> /\ connected = {} /\ trustFiles = [q \in Peers |-> None]
      /\ proc = [p \in Programs |-> Identities!Gone]
  BY DEF Identities!IdentityInit
<1>2. \A p \in Programs : proc[p].phase = "gone"
  BY <1>1 DEF Identities!Gone
<1>3. \A p \in Programs : FilesFit(proc[p], certificate, privateKey, pairs) /\ CodesFit(proc[p], admitted, Identities!Admitted)
  BY <1>2 DEF FilesFit, CodesFit, Making, Exposed
<1>4. FilesInv
  BY <1>1, <1>2, <1>3 DEF FilesInv, Making
<1>5. admitted \in Seq(SUBSET Peers) /\ Len(admitted) = 0
  BY <1>1
<1>6. AdmitInv
  BY <1>1, <1>2, <1>3, <1>5 DEF AdmitInv, Exposed, OneEach, FilesOfKnown
<1> QED BY <1>4, <1>6 DEF IdentityInv

LEMMA IdentityInvSuffices ==
  ASSUME IdentityInv
  PROVE  Identities!IdentityIsKept
<1>1. Identities!Cardinality(shown) <= 1
  <2>1. \A S : Identities!Cardinality(S) = Cardinality(S)
    BY DEF Identities!Cardinality, Cardinality
  <2>2. shown \subseteq {certificate.pair}
    BY DEF IdentityInv, FilesInv, Identities!Whole
  <2>3. IsFiniteSet({certificate.pair}) /\ Cardinality({certificate.pair}) = 1
    BY FS_Singleton
  <2>4. Cardinality(shown) <= Cardinality({certificate.pair})
    BY <2>2, <2>3, FS_Subset
  <2>5. Identities!Cardinality(shown) = Cardinality(shown)
    BY <2>1
  <2> QED BY <2>3, <2>4, <2>5
<1>2. \A i \in DOMAIN admitted : Identities!Cardinality(admitted[i]) <= 1
  <2>1. \A S : Identities!Cardinality(S) = Cardinality(S)
    BY DEF Identities!Cardinality, Cardinality
  <2>2. \A i \in DOMAIN admitted : admitted[i] = {} \/ \E q \in Peers : admitted[i] = {q}
    BY DEF IdentityInv, AdmitInv, OneEach
  <2>3. \A q : Cardinality({q}) = 1
    BY FS_Singleton
  <2>4. Cardinality({}) = 0
    BY FS_EmptySet
  <2> SUFFICES ASSUME NEW i \in DOMAIN admitted PROVE Cardinality(admitted[i]) <= 1
    BY <2>1
  <2>5. CASE admitted[i] = {}
    BY <2>4, <2>5
  <2>6. CASE \E q \in Peers : admitted[i] = {q}
    <3>1. PICK q \in Peers : admitted[i] = {q}
      BY <2>6
    <3>2. Cardinality({q}) = 1
      BY FS_Singleton
    <3> QED BY <3>1, <3>2
  <2> QED BY <2>2, <2>5, <2>6
<1> QED
  BY <1>1, <1>2
  DEF IdentityInv, FilesInv, FilesFit, AdmitInv, Exposed, Identities!IdentityIsKept

\* Reading the files.
LEMMA ReadingKeepsIdentity ==
  ASSUME IdentityInv, NEW p \in Programs,
         \/ Identities!ReadCertificate(p) \/ Identities!ReadKey(p)
         \/ Identities!Expose(p) \/ Identities!Leave(p)
  PROVE  IdentityInv'
<1>1. CASE Identities!ReadCertificate(p)
  <2> DEFINE s == [phase |-> "loading", certificate |-> certificate]
  <2>1. /\ proc' = [proc EXCEPT ![p] = s]
        /\ UNCHANGED <<certificate, privateKey, pairs, shown, admitted, trustFiles, connected>>
    BY <1>1 DEF Identities!ReadCertificate, Identities!Becomes, Identities!files,
                Identities!history
  <2>2. FilesFit(s, certificate, privateKey, pairs) /\ s.phase \notin Making /\ s.phase \notin Exposed
    BY DEF IdentityInv, FilesInv, FilesFit, ReadFits, Making, Exposed
  <2> HIDE DEF s
  <2>3. CodesFit(s, admitted, Identities!Admitted)
    BY <2>2 DEF CodesFit
  <2>4. FilesInv'
    BY <2>1, <2>2, FilesStay DEF IdentityInv, FilesInv
  <2>5. AdmitInv'
    BY <2>1, <2>2, <2>3, CodesStay
  <2> QED BY <2>4, <2>5 DEF IdentityInv
<1>2. CASE Identities!ReadKey(p)
  <2> DEFINE found == proc[p].certificate
  <2>0. /\ proc[p].phase = "loading"
        /\ UNCHANGED <<certificate, privateKey, shown, admitted, trustFiles, connected>>
        /\ FilesFit(proc[p], certificate, privateKey, pairs)
    BY <1>2 DEF Identities!ReadKey, Identities!At, Identities!files, Identities!history,
                IdentityInv, FilesInv
  <2>1. CASE found = None /\ privateKey = None
    <3> DEFINE s == [phase |-> "making", pair |-> pairs + 1]
    <3>1. proc' = [proc EXCEPT ![p] = s] /\ pairs' = pairs + 1
      BY <1>2, <2>1 DEF Identities!ReadKey, Identities!Becomes
    <3>2. s.phase = "making" /\ s.pair = pairs + 1
      OBVIOUS
    <3>3. s = [phase |-> s.phase, pair |-> s.pair]
      OBVIOUS
    <3> HIDE DEF s
    <3>4. CodesFit(s, admitted, Identities!Admitted) /\ s.phase \notin Exposed
      BY <3>2 DEF CodesFit, Exposed
    <3>5. AdmitInv'
      BY <2>0, <3>1, <3>4, CodesStay
    <3>6. /\ proc' = [r \in Programs |-> proc'[r]]
          /\ \A r \in Programs : proc'[r] = IF r = p THEN s ELSE proc[r]
      BY <3>1 DEF IdentityInv, FilesInv
    <3>7. \A r \in Programs : FilesFit(proc'[r], certificate', privateKey', pairs')
      <4> SUFFICES ASSUME NEW r \in Programs PROVE FilesFit(proc'[r], certificate', privateKey', pairs')
        OBVIOUS
      <4>1. CASE r = p
        <5>1. FilesFit(s, certificate', privateKey', pairs')
          BY <2>0, <3>1, <3>2, <3>3
          DEF FilesFit, Making, Exposed, IdentityInv, FilesInv
        <5> QED BY <3>6, <4>1, <5>1
      <4>2. CASE r # p
        <5>1. FilesFit(proc[r], certificate, privateKey, pairs) /\ proc'[r] = proc[r]
          BY <3>6, <4>2 DEF IdentityInv, FilesInv
        <5>2. pairs' = pairs + 1 /\ pairs \in Nat /\ UNCHANGED <<certificate, privateKey>>
          BY <2>0, <3>1 DEF IdentityInv, FilesInv
        <5> QED BY <5>1, <5>2 DEF FilesFit, ReadFits
      <4> QED BY <4>1, <4>2
    <3>8. ASSUME NEW r \in Programs, NEW t \in Programs, r # t,
                 proc'[r].phase \in Making, proc'[t].phase \in Making
          PROVE  proc'[r].pair # proc'[t].pair
      <4>1. \A q \in Programs : q # p /\ proc[q].phase \in Making => proc[q].pair \in 1 .. pairs
        BY DEF IdentityInv, FilesInv, FilesFit
      <4>2. pairs \in Nat
        BY DEF IdentityInv, FilesInv
      <4> QED BY <3>2, <3>6, <3>8, <4>1, <4>2 DEF IdentityInv, FilesInv
    <3>9. FilesInv'
      BY <2>0, <3>1, <3>6, <3>7, <3>8 DEF IdentityInv, FilesInv
    <3> QED BY <3>5, <3>9 DEF IdentityInv
  <2>2. CASE ~(found = None /\ privateKey = None)
    <3> DEFINE s == IF None \in {found, privateKey} THEN Identities!Gone
                    ELSE [phase |-> "checking", certificate |-> found, key |-> privateKey]
    <3>1. proc' = [proc EXCEPT ![p] = s] /\ pairs' = pairs
      BY <1>2, <2>2 DEF Identities!ReadKey, Identities!Becomes
    <3>2. FilesFit(s, certificate, privateKey, pairs) /\ s.phase \notin Making /\ s.phase \notin Exposed
      <4>1. CASE None \in {found, privateKey}
        BY <4>1 DEF Identities!Gone, FilesFit, Making, Exposed
      <4>2. CASE None \notin {found, privateKey}
        BY <2>0, <4>2 DEF FilesFit, ReadFits, Making, Exposed, IdentityInv, FilesInv
      <4> QED BY <4>1, <4>2
    <3> HIDE DEF s
    <3>3. CodesFit(s, admitted, Identities!Admitted)
      BY <3>2 DEF CodesFit
    <3>4. FilesInv'
      BY <2>0, <3>1, <3>2, FilesStay DEF IdentityInv, FilesInv
    <3>5. AdmitInv'
      BY <2>0, <3>1, <3>2, <3>3, CodesStay
    <3> QED BY <3>4, <3>5 DEF IdentityInv
  <2> QED BY <2>1, <2>2
<1>3. CASE Identities!Expose(p)
  <2> DEFINE c == proc[p].certificate
  <2>0. /\ proc[p].phase = "checking" /\ FilesFit(proc[p], certificate, privateKey, pairs)
        /\ UNCHANGED <<certificate, privateKey, pairs, admitted, trustFiles, connected>>
    BY <1>3 DEF Identities!Expose, Identities!At, Identities!files, IdentityInv, FilesInv
  <2>1. CASE Identities!KeysMatch(c, proc[p].key)
    <3> DEFINE s == [phase |-> "ready", pair |-> c.pair, code |-> 0,
                     trusted |-> [q \in Peers |-> trustFiles[q]]]
    <3>1. proc' = [proc EXCEPT ![p] = s] /\ shown' = shown \cup {c.pair}
      BY <1>3, <2>1 DEF Identities!Expose, Identities!Becomes
    <3>2. /\ c.pair \in Nat
          /\ certificate = Identities!Whole(c.pair) /\ privateKey = Identities!Whole(c.pair)
      <4>1. /\ c \in FileState /\ proc[p].key \in FileState
            /\ c.whole = TRUE /\ proc[p].key.whole = TRUE /\ c.pair = proc[p].key.pair
            /\ certificate = c /\ privateKey = proc[p].key
        BY <2>0, <2>1 DEF Identities!KeysMatch, FilesFit, ReadFits, FileState
      <4> QED BY <4>1 DEF FileState, Identities!Whole
    <3>3. /\ s.phase = "ready" /\ s.pair = c.pair /\ s.code = 0
          /\ s.trusted = [q \in Peers |-> trustFiles[q]]
          /\ s = [phase |-> "ready", pair |-> s.pair, code |-> s.code, trusted |-> s.trusted]
      OBVIOUS
    <3> HIDE DEF s
    <3>4. FilesFit(s, certificate, privateKey, pairs) /\ s.phase \notin Making
      BY <3>2, <3>3 DEF FilesFit, Making, Exposed
    <3>5. CodesFit(s, admitted, Identities!Admitted)
      BY <3>3 DEF CodesFit, IdentityInv, AdmitInv, FilesOfKnown
    <3>6. FilesInv'
      BY <2>0, <3>1, <3>2, <3>4, FilesStay DEF IdentityInv, FilesInv
    <3>7. AdmitInv'
      BY <2>0, <3>1, <3>3, <3>5, CodesStay
    <3> QED BY <3>6, <3>7 DEF IdentityInv
  <2>2. CASE ~Identities!KeysMatch(c, proc[p].key)
    <3> DEFINE s == Identities!Gone
    <3>1. proc' = [proc EXCEPT ![p] = s] /\ UNCHANGED shown
      BY <1>3, <2>2 DEF Identities!Expose, Identities!Becomes
    <3>2. FilesFit(s, certificate, privateKey, pairs) /\ CodesFit(s, admitted, Identities!Admitted) /\ s.phase \notin Making /\ s.phase \notin Exposed
      BY DEF Identities!Gone, FilesFit, CodesFit, Making, Exposed
    <3> HIDE DEF s
    <3>3. FilesInv'
      BY <2>0, <3>1, <3>2, FilesStay DEF IdentityInv, FilesInv
    <3>4. AdmitInv'
      BY <2>0, <3>1, <3>2, CodesStay
    <3> QED BY <3>3, <3>4 DEF IdentityInv
  <2> QED BY <2>1, <2>2
<1>4. CASE Identities!Leave(p)
  <2> DEFINE s == Identities!Gone
  <2>1. /\ proc' = [proc EXCEPT ![p] = s]
        /\ UNCHANGED <<certificate, privateKey, pairs, shown, admitted, trustFiles, connected>>
    BY <1>4 DEF Identities!Leave, Identities!Becomes, Identities!files, Identities!history
  <2>2. FilesFit(s, certificate, privateKey, pairs) /\ CodesFit(s, admitted, Identities!Admitted) /\ s.phase \notin Making /\ s.phase \notin Exposed
    BY DEF Identities!Gone, FilesFit, CodesFit, Making, Exposed
  <2> HIDE DEF s
  <2>3. FilesInv'
    BY <2>1, <2>2, FilesStay DEF IdentityInv, FilesInv
  <2>4. AdmitInv'
    BY <2>1, <2>2, CodesStay
  <2> QED BY <2>3, <2>4 DEF IdentityInv
<1> QED BY <1>1, <1>2, <1>3, <1>4

\* The process that owns what it has written so far writes on.
LEMMA OwnerWrites ==
  ASSUME FilesInv, NEW p \in Programs, NEW s, proc' = [proc EXCEPT ![p] = s],
         proc[p].phase \in Making, UNCHANGED <<pairs, shown>>,
         FilesFit(s, certificate', privateKey', pairs),
         s.phase \in Making => s.pair = proc[p].pair,
         \A r \in Programs : r # p => FilesFit(proc[r], certificate', privateKey', pairs),
         certificate' \in FileState, certificate'.pair \in 1 .. pairs,
         privateKey' \in {None} \cup FileState,
         privateKey' # None => certificate' = Identities!Whole(privateKey'.pair),
         \A n \in shown : certificate' = Identities!Whole(n)
  PROVE  FilesInv'
<1>1. proc' = [r \in Programs |-> proc'[r]]
      /\ \A r \in Programs : proc'[r] = IF r = p THEN s ELSE proc[r]
  BY DEF FilesInv
<1>2. \A r \in Programs : FilesFit(proc'[r], certificate', privateKey', pairs')
  BY <1>1
<1>3. \A r, t \in Programs :
        r # t /\ proc'[r].phase \in Making /\ proc'[t].phase \in Making =>
          proc'[r].pair # proc'[t].pair
  <2> SUFFICES ASSUME NEW r \in Programs, NEW t \in Programs, r # t,
                      proc'[r].phase \in Making, proc'[t].phase \in Making
               PROVE  proc'[r].pair # proc'[t].pair
    OBVIOUS
  <2>1. CASE r = p
    BY <1>1, <2>1 DEF FilesInv
  <2>2. CASE t = p
    BY <1>1, <2>2 DEF FilesInv
  <2>3. CASE r # p /\ t # p
    BY <1>1, <2>3 DEF FilesInv
  <2> QED BY <2>1, <2>2, <2>3
<1> QED BY <1>1, <1>2, <1>3 DEF FilesInv

\* Making a pair of files.
LEMMA WritingKeepsIdentity ==
  ASSUME IdentityInv, NEW p \in Programs,
         \/ Identities!CreateCertificate(p) \/ Identities!WriteCertificate(p)
         \/ Identities!CreateKey(p) \/ Identities!WriteKey(p)
  PROVE  IdentityInv'
<1> DEFINE n == proc[p].pair
<1>1. /\ UNCHANGED <<pairs, shown, admitted, trustFiles, connected>>
      /\ proc[p].phase \in Making
  BY DEF Identities!CreateCertificate, Identities!WriteCertificate, Identities!CreateKey,
         Identities!WriteKey, Identities!At, Identities!history, Making
<1>2. /\ n \in 1 .. pairs /\ pairs \in Nat /\ proc[p] = [phase |-> proc[p].phase, pair |-> n]
      /\ FilesFit(proc[p], certificate, privateKey, pairs)
  BY <1>1 DEF IdentityInv, FilesInv, FilesFit
<1>3. ASSUME proc' = [proc EXCEPT ![p] = Identities!Gone], UNCHANGED <<certificate, privateKey>>
      PROVE  IdentityInv'
  <2> DEFINE s == Identities!Gone
  <2>1. /\ FilesFit(s, certificate, privateKey, pairs)
        /\ CodesFit(s, admitted, Identities!Admitted)
        /\ s.phase \notin Making /\ s.phase \notin Exposed
    BY DEF Identities!Gone, FilesFit, CodesFit, Making, Exposed
  <2> HIDE DEF s
  <2>2. proc' = [proc EXCEPT ![p] = s]
    BY <1>3 DEF s
  <2>3. FilesInv'
    BY <1>1, <1>3, <2>1, <2>2, FilesStay DEF IdentityInv, FilesInv
  <2>4. AdmitInv'
    BY <1>1, <2>1, <2>2, CodesStay
  <2> QED BY <2>3, <2>4 DEF IdentityInv
<1>4. ASSUME NEW s, proc' = [proc EXCEPT ![p] = s], s.phase \in Making \cup {"checking"}
      PROVE  AdmitInv'
  <2>1. CodesFit(s, admitted, Identities!Admitted) /\ s.phase \notin Exposed
    BY <1>4 DEF CodesFit, Making, Exposed
  <2> QED BY <1>1, <1>4, <2>1, CodesStay
<1>5. \A r \in Programs :
        /\ FilesFit(proc[r], certificate, privateKey, pairs)
        /\ r # p /\ proc[r].phase \in Making => proc[r].pair # n
  BY <1>1 DEF IdentityInv, FilesInv
<1>6. /\ Identities!Part(n) \in FileState /\ Identities!Whole(n) \in FileState
      /\ Identities!Part(n) # None /\ Identities!Whole(n) # None
      /\ Identities!Part(n).pair = n /\ Identities!Whole(n).pair = n
      /\ \A m : Identities!Whole(m) # Identities!Part(n) /\ Identities!Whole(n) # Identities!Part(m)
      /\ \A m : Identities!Whole(m) = Identities!Whole(n) => m = n
      /\ \A m : Identities!Part(m) = Identities!Part(n) => m = n
  BY <1>2, FileStates
<1> HIDE DEF n
<1>7. CASE Identities!CreateCertificate(p)
  <2>1. CASE certificate = None
    <3> DEFINE s == [phase |-> "certificate", pair |-> n]
    <3>1. /\ certificate' = Identities!Part(n) /\ privateKey' = privateKey
          /\ proc' = [proc EXCEPT ![p] = s] /\ proc[p].phase = "making"
      BY <1>2, <1>7, <2>1 DEF Identities!CreateCertificate, Identities!Opens,
                              Identities!Becomes, Identities!At, n
    <3>2. s.phase = "certificate" /\ s.pair = n /\ s = [phase |-> s.phase, pair |-> s.pair]
      OBVIOUS
    <3> HIDE DEF s
    <3>3. privateKey = None /\ \A m \in shown : FALSE
      BY <2>1, FileStates DEF IdentityInv, FilesInv, FileState
    <3>4. FilesFit(s, certificate', privateKey', pairs)
      BY <1>2, <3>1, <3>2, <3>3 DEF FilesFit, Making, Exposed
    <3>5. ASSUME NEW r \in Programs, r # p
          PROVE  FilesFit(proc[r], certificate', privateKey', pairs)
      <4>1. FilesFit(proc[r], certificate, privateKey, pairs)
        BY <1>5
      <4>2. proc[r].phase \notin {"certificate", "key", "secret"} \cup Exposed
        <5>1. proc[r].phase \in Making => proc[r].pair \in Nat
          BY <1>2, <4>1 DEF FilesFit
        <5> QED BY <2>1, <4>1, <5>1, FileStates DEF FilesFit, Making, Exposed
      <4>3. proc[r].phase = "making" => proc[r].pair # n
        BY <1>5, <3>5 DEF Making
      <4>4. proc[r].phase = "loading" /\ proc[r].certificate # None =>
              ReadFits(proc[r].certificate, certificate')
        BY <2>1, <4>1, FileStates DEF FilesFit, ReadFits
      <4>5. proc[r].phase = "checking" => ReadFits(proc[r].certificate, certificate')
        BY <2>1, <4>1, FileStates DEF FilesFit, ReadFits
      <4> QED BY <1>6, <3>1, <4>1, <4>2, <4>3, <4>4, <4>5 DEF FilesFit
    <3>6. FilesInv'
      BY <1>1, <1>2, <1>6, <3>1, <3>2, <3>3, <3>4, <3>5, OwnerWrites DEF IdentityInv, n
    <3>7. AdmitInv'
      BY <1>4, <3>1, <3>2 DEF Making
    <3> QED BY <3>6, <3>7 DEF IdentityInv
  <2>2. CASE certificate # None
    BY <1>3, <1>7, <2>2 DEF Identities!CreateCertificate, Identities!Opens, Identities!Becomes
  <2> QED BY <2>1, <2>2
<1>8. CASE Identities!WriteCertificate(p)
  <2> DEFINE s == [phase |-> "key", pair |-> n]
  <2>1. /\ certificate' = Identities!Whole(n) /\ privateKey' = privateKey
        /\ proc' = [proc EXCEPT ![p] = s] /\ proc[p].phase = "certificate"
    <3>1. /\ certificate' = Identities!Whole(n) /\ privateKey' = privateKey
          /\ proc' = [proc EXCEPT ![p] = [proc[p] EXCEPT !.phase = "key"]]
          /\ proc[p].phase = "certificate"
      BY <1>8 DEF Identities!WriteCertificate, Identities!Becomes, Identities!At, n
    <3>2. [proc[p] EXCEPT !.phase = "key"] = s
      BY <1>2 DEF n
    <3> QED BY <3>1, <3>2
  <2>2. s.phase = "key" /\ s.pair = n /\ s = [phase |-> s.phase, pair |-> s.pair]
    OBVIOUS
  <2> HIDE DEF s
  <2>3. certificate = Identities!Part(n) /\ privateKey = None /\ \A m \in shown : FALSE
    BY <1>2, <1>6, <2>1 DEF IdentityInv, FilesInv, FilesFit, n
  <2>4. FilesFit(s, certificate', privateKey', pairs)
    BY <1>2, <2>1, <2>2, <2>3 DEF FilesFit, Making, Exposed
  <2>5. ASSUME NEW r \in Programs, r # p
        PROVE  FilesFit(proc[r], certificate', privateKey', pairs)
    <3>1. FilesFit(proc[r], certificate, privateKey, pairs)
      BY <1>5
    <3>2. proc[r].phase \notin {"certificate", "key", "secret"} \cup Exposed
      BY <1>5, <1>6, <2>3, <2>5, <3>1, FileStates DEF FilesFit, Making, Exposed
    <3>3. /\ proc[r].phase = "loading" /\ proc[r].certificate # None =>
               ReadFits(proc[r].certificate, certificate')
          /\ proc[r].phase = "checking" => ReadFits(proc[r].certificate, certificate')
      BY <2>3, <3>1, FileStates DEF FilesFit, ReadFits
    <3>4. proc[r].phase = "making" => proc[r].pair # n
      BY <1>5, <2>5 DEF Making
    <3> QED BY <1>6, <2>1, <3>1, <3>2, <3>3, <3>4 DEF FilesFit
  <2>6. FilesInv'
    BY <1>1, <1>2, <1>6, <2>1, <2>2, <2>3, <2>4, <2>5, OwnerWrites DEF IdentityInv, n
  <2>7. AdmitInv'
    BY <1>4, <2>1, <2>2 DEF Making
  <2> QED BY <2>6, <2>7 DEF IdentityInv
<1>9. CASE Identities!CreateKey(p)
  <2>1. CASE privateKey = None
    <3> DEFINE s == [phase |-> "secret", pair |-> n]
    <3>1. /\ certificate' = certificate /\ privateKey' = Identities!Part(n)
          /\ proc' = [proc EXCEPT ![p] = s] /\ proc[p].phase = "key"
      BY <1>2, <1>9, <2>1 DEF Identities!CreateKey, Identities!Opens,
                              Identities!Becomes, Identities!At, n
    <3>2. s.phase = "secret" /\ s.pair = n /\ s = [phase |-> s.phase, pair |-> s.pair]
      OBVIOUS
    <3> HIDE DEF s
    <3>3. certificate = Identities!Whole(n)
      BY <1>2, <3>1 DEF FilesFit, n
    <3>4. FilesFit(s, certificate', privateKey', pairs)
      BY <1>2, <3>1, <3>2, <3>3 DEF FilesFit, Making, Exposed
    <3>5. ASSUME NEW r \in Programs, r # p
          PROVE  FilesFit(proc[r], certificate', privateKey', pairs)
      <4>1. FilesFit(proc[r], certificate, privateKey, pairs)
        BY <1>5
      <4>2. proc[r].phase \notin {"certificate", "key", "secret"} \cup Exposed
        BY <1>5, <1>6, <2>1, <3>3, <3>5, <4>1, FileStates DEF FilesFit, Making, Exposed
      <4>3. proc[r].phase = "checking" => ReadFits(proc[r].key, privateKey')
        BY <2>1, <4>1, FileStates DEF FilesFit, ReadFits
      <4> QED BY <3>1, <4>1, <4>2, <4>3 DEF FilesFit
    <3>6. FilesInv'
      BY <1>1, <1>2, <1>6, <3>1, <3>2, <3>3, <3>4, <3>5, OwnerWrites
      DEF IdentityInv, FilesInv, n
    <3>7. AdmitInv'
      BY <1>4, <3>1, <3>2 DEF Making
    <3> QED BY <3>6, <3>7 DEF IdentityInv
  <2>2. CASE privateKey # None
    BY <1>3, <1>9, <2>2 DEF Identities!CreateKey, Identities!Opens, Identities!Becomes
  <2> QED BY <2>1, <2>2
<1>10. CASE Identities!WriteKey(p)
  <2> DEFINE s == [phase |-> "checking", certificate |-> Identities!Whole(n),
                   key |-> Identities!Whole(n)]
  <2>1. /\ certificate' = certificate /\ privateKey' = Identities!Whole(n)
        /\ proc' = [proc EXCEPT ![p] = s] /\ proc[p].phase = "secret"
    BY <1>2, <1>10 DEF Identities!WriteKey, Identities!Becomes, Identities!At, n
  <2>2. /\ s.phase = "checking" /\ s.certificate = Identities!Whole(n)
        /\ s.key = Identities!Whole(n)
    OBVIOUS
  <2> HIDE DEF s
  <2>3. certificate = Identities!Whole(n) /\ privateKey = Identities!Part(n)
    BY <1>2, <2>1 DEF FilesFit, n
  <2>4. FilesFit(s, certificate', privateKey', pairs)
    BY <1>2, <1>6, <2>1, <2>2, <2>3 DEF FilesFit, ReadFits, Making, Exposed
  <2>5. ASSUME NEW r \in Programs, r # p
        PROVE  FilesFit(proc[r], certificate', privateKey', pairs)
    <3>1. FilesFit(proc[r], certificate, privateKey, pairs)
      BY <1>5
    <3>2. proc[r].phase \notin {"certificate", "key", "secret"} \cup Exposed
      BY <1>5, <1>6, <2>3, <2>5, <3>1, FileStates DEF FilesFit, Making, Exposed
    <3>3. proc[r].phase = "checking" => ReadFits(proc[r].key, privateKey')
      BY <2>3, <3>1, FileStates DEF FilesFit, ReadFits
    <3> QED BY <2>1, <3>1, <3>2, <3>3 DEF FilesFit
  <2>6. FilesInv'
    BY <1>1, <1>2, <1>6, <2>1, <2>2, <2>3, <2>4, <2>5, OwnerWrites
    DEF IdentityInv, FilesInv, Making
  <2>7. AdmitInv'
    BY <1>4, <2>1, <2>2
  <2> QED BY <2>6, <2>7 DEF IdentityInv
<1> QED BY <1>7, <1>8, <1>9, <1>10

\* A process that shows the identity goes on showing it.
LEMMA ExposedFilesStay ==
  ASSUME FilesInv, NEW p \in Programs, NEW s, proc' = [proc EXCEPT ![p] = s],
         proc[p].phase \in Exposed, s.phase \in Exposed, s.pair = proc[p].pair,
         UNCHANGED <<certificate, privateKey, pairs, shown>>
  PROVE  FilesInv'
<1>1. FilesFit(s, certificate, privateKey, pairs) /\ s.phase \notin Making
  BY DEF FilesInv, FilesFit, Making, Exposed
<1> QED BY <1>1, FilesStay DEF FilesInv

\* The codes that the processes other than p hold have let nobody in, nor are they that of s.
OthersKeepCodes(p, s, codes) ==
  \A r \in Programs : r # p /\ proc[r].phase \in Exposed /\ proc[r].code # 0 =>
    codes[proc[r].code] = {} /\ proc[r].code # s.code

\* More peers are let in, or more trusted, and a process goes on with a code of its own.
LEMMA MoreAreAdmitted ==
  ASSUME IdentityInv, NEW p \in Programs, NEW s, proc' = [proc EXCEPT ![p] = s],
         admitted' \in Seq(SUBSET Peers), Len(admitted') >= Len(admitted),
         OneEach(admitted'),
         Identities!Admitted \subseteq Identities!Admitted',
         CodesFit(s, admitted', Identities!Admitted'),
         OthersKeepCodes(p, s, admitted'), FilesOfKnown(trustFiles', Identities!Admitted'),
         UNCHANGED connected
  PROVE  AdmitInv'
<1>1. \A r \in Programs : proc'[r] = IF r = p THEN s ELSE proc[r]
  BY DEF IdentityInv, FilesInv
<1>2. \A r \in Programs : r # p => CodesFit(proc[r], admitted', Identities!Admitted')
  <2> SUFFICES ASSUME NEW r \in Programs, r # p, proc[r].phase \in Exposed
               PROVE  CodesFit(proc[r], admitted', Identities!Admitted')
    BY DEF CodesFit
  <2>1. CodesFit(proc[r], admitted, Identities!Admitted)
    BY DEF IdentityInv, AdmitInv
  <2>2. proc[r].code \in 0 .. Len(admitted')
    BY <2>1 DEF CodesFit, IdentityInv, AdmitInv
  <2>5. proc[r].code # 0 => admitted'[proc[r].code] = {}
    BY DEF OthersKeepCodes
  <2>3. \A q \in Peers : proc[r].trusted[q] # None => q \in Identities!Admitted'
    BY <2>1 DEF CodesFit
  <2>4. proc[r].phase = "trusting" => proc[r].peer \in Identities!Admitted'
    BY <2>1 DEF CodesFit
  <2> QED BY <2>1, <2>2, <2>3, <2>4, <2>5 DEF CodesFit
<1>3. \A r \in Programs : CodesFit(proc'[r], admitted', Identities!Admitted')
  BY <1>1, <1>2
<1>4. ASSUME NEW r \in Programs, NEW t \in Programs, r # t,
             proc'[r].phase \in Exposed, proc'[t].phase \in Exposed, proc'[r].code # 0
      PROVE  proc'[r].code # proc'[t].code
  <2>1. CASE r = p
    <3>1. proc'[r] = s /\ proc'[t] = proc[t] /\ t # p
      BY <1>1, <1>4, <2>1
    <3>2. CASE proc[t].code # 0
      BY <1>4, <3>1, <3>2 DEF OthersKeepCodes
    <3>3. CASE proc[t].code = 0
      BY <1>4, <3>1, <3>3
    <3> QED BY <3>2, <3>3
  <2>2. CASE t = p
    BY <1>1, <1>4, <2>2 DEF OthersKeepCodes
  <2>3. CASE r # p /\ t # p
    BY <1>1, <1>4, <2>3 DEF IdentityInv, AdmitInv
  <2> QED BY <2>1, <2>2, <2>3
<1>5. connected' \subseteq Identities!Admitted'
  BY DEF IdentityInv, AdmitInv
<1> QED BY <1>3, <1>4, <1>5 DEF AdmitInv

\* What Append and EXCEPT do to the peers let in.
LEMMA AppendAdmits ==
  ASSUME AdmitInv, NEW peers \in SUBSET Peers, admitted' = Append(admitted, peers)
  PROVE  /\ admitted' \in Seq(SUBSET Peers) /\ Len(admitted) \in Nat
         /\ Len(admitted') = Len(admitted) + 1
         /\ admitted'[Len(admitted) + 1] = peers
         /\ \A i \in 1 .. Len(admitted) : admitted'[i] = admitted[i]
         /\ Identities!Admitted \subseteq Identities!Admitted'
         /\ peers \subseteq Identities!Admitted'
<1>1. /\ admitted' \in Seq(SUBSET Peers) /\ Len(admitted) \in Nat
      /\ Len(admitted') = Len(admitted) + 1
      /\ admitted'[Len(admitted) + 1] = peers
      /\ \A i \in 1 .. Len(admitted) : admitted'[i] = admitted[i]
      /\ DOMAIN admitted = 1 .. Len(admitted) /\ DOMAIN admitted' = 1 .. Len(admitted')
  BY DEF AdmitInv
<1>2. \A i \in DOMAIN admitted : i \in DOMAIN admitted' /\ admitted'[i] = admitted[i]
  BY <1>1
<1>3. Len(admitted) + 1 \in DOMAIN admitted'
  BY <1>1
<1> QED BY <1>1, <1>2, <1>3 DEF Identities!Admitted

LEMMA PairingKeepsIdentity ==
  ASSUME IdentityInv, NEW p \in Programs,
         \/ Identities!IssuePairingCode(p) \/ Identities!Trusted(p)
         \/ \E q \in Peers : Identities!AcceptPairing(p, q) \/ Identities!Trust(p, q)
  PROVE  IdentityInv'
<1> DEFINE LetIn == Identities!Admitted
<1>1. /\ UNCHANGED <<certificate, privateKey, pairs, shown, connected>>
      /\ proc[p].phase \in Exposed
  BY DEF Identities!IssuePairingCode, Identities!Trusted, Identities!AcceptPairing,
         Identities!Trust, Identities!At, Identities!files, Identities!history, Exposed
<1>2. /\ CodesFit(proc[p], admitted, LetIn)
      /\ admitted \in Seq(SUBSET Peers) /\ Len(admitted) \in Nat /\ OneEach(admitted)
      /\ \A r \in Programs : CodesFit(proc[r], admitted, LetIn)
      /\ \A r \in Programs :
           r # p /\ proc[r].phase \in Exposed /\ proc[r].code # 0 => proc[r].code # proc[p].code
      /\ FilesOfKnown(trustFiles, LetIn)
  BY <1>1 DEF IdentityInv, AdmitInv
<1>2a. \A r \in Programs : proc[r].phase \in Exposed =>
         /\ proc[r].code \in 0 .. Len(admitted)
         /\ proc[r].code # 0 => admitted[proc[r].code] = {}
  BY <1>2 DEF CodesFit
<1>3. /\ proc[p].code \in 0 .. Len(admitted)
      /\ proc[p].code # 0 => admitted[proc[p].code] = {}
      /\ proc[p].trusted = [r \in Peers |-> proc[p].trusted[r]]
      /\ \A r \in Peers : proc[p].trusted[r] # None => r \in LetIn
      /\ proc[p].phase = "ready" =>
           proc[p] = [phase |-> "ready", pair |-> proc[p].pair, code |-> proc[p].code,
                      trusted |-> proc[p].trusted]
      /\ proc[p].phase = "trusting" => proc[p].peer \in LetIn
  BY <1>1, <1>2 DEF CodesFit
<1>4. "ready" \in Exposed /\ "trusting" \in Exposed
  BY DEF Exposed
<1>5. CASE Identities!IssuePairingCode(p)
  <2> DEFINE s == [proc[p] EXCEPT !.code = Len(admitted) + 1]
  <2>1. /\ proc[p].phase = "ready" /\ admitted' = Append(admitted, {})
        /\ proc' = [proc EXCEPT ![p] = s] /\ UNCHANGED trustFiles
    BY <1>5 DEF Identities!IssuePairingCode, Identities!Becomes, Identities!At,
                Identities!files
  <2>2. s = [phase |-> "ready", pair |-> proc[p].pair, code |-> Len(admitted) + 1,
             trusted |-> proc[p].trusted]
    BY <1>3, <2>1
  <2>3. /\ s.phase = "ready" /\ s.pair = proc[p].pair /\ s.code = Len(admitted) + 1
        /\ s.trusted = proc[p].trusted
        /\ s = [phase |-> "ready", pair |-> s.pair, code |-> s.code, trusted |-> s.trusted]
    BY <2>2
  <2> HIDE DEF s, LetIn
  <2>4. /\ admitted' \in Seq(SUBSET Peers) /\ Len(admitted') = Len(admitted) + 1
        /\ admitted'[Len(admitted) + 1] = {}
        /\ \A i \in 1 .. Len(admitted) : admitted'[i] = admitted[i]
        /\ LetIn \subseteq LetIn'
    <3>1. {} \in SUBSET Peers /\ AdmitInv
      BY DEF IdentityInv
    <3> QED BY <2>1, <3>1, AppendAdmits DEF LetIn
  <2>5. CodesFit(s, admitted', LetIn')
    BY <1>2, <1>3, <2>3, <2>4 DEF CodesFit
  <2>6. OthersKeepCodes(p, s, admitted')
    BY <1>2a, <2>3, <2>4 DEF OthersKeepCodes
  <2>7. OneEach(admitted') /\ Len(admitted') >= Len(admitted)
    BY <1>2, <2>4 DEF OneEach
  <2>10. FilesOfKnown(trustFiles', LetIn')
    BY <1>2, <2>1, <2>4 DEF FilesOfKnown
  <2>8. AdmitInv'
    BY <1>1, <2>1, <2>4, <2>5, <2>6, <2>7, <2>10, MoreAreAdmitted DEF LetIn
  <2>9. FilesInv'
    BY <1>1, <1>4, <2>1, <2>3, ExposedFilesStay DEF IdentityInv
  <2> QED BY <2>8, <2>9 DEF IdentityInv
<1>6. CASE Identities!Trusted(p)
  <2> DEFINE peer == proc[p].peer
             s == [phase |-> "ready", pair |-> proc[p].pair, code |-> proc[p].code,
                   trusted |-> [proc[p].trusted EXCEPT ![peer] = "whole"]]
  <2>1. /\ proc[p].phase = "trusting" /\ proc' = [proc EXCEPT ![p] = s]
        /\ trustFiles' = [trustFiles EXCEPT ![peer] = "whole"] /\ UNCHANGED admitted
    BY <1>6 DEF Identities!Trusted, Identities!Becomes, Identities!At, Identities!history
  <2>2. /\ s.phase = "ready" /\ s.pair = proc[p].pair /\ s.code = proc[p].code
        /\ s.trusted = [proc[p].trusted EXCEPT ![peer] = "whole"]
        /\ s = [phase |-> "ready", pair |-> s.pair, code |-> s.code, trusted |-> s.trusted]
    OBVIOUS
  <2> HIDE DEF s, LetIn
  <2>3. LetIn' = LetIn /\ peer \in LetIn
    BY <1>3, <2>1 DEF LetIn, Identities!Admitted
  <2>4. CodesFit(s, admitted', LetIn')
    BY <1>3, <2>1, <2>2, <2>3 DEF CodesFit
  <2>5. FilesOfKnown(trustFiles', LetIn')
    BY <1>2, <2>1, <2>3 DEF FilesOfKnown
  <2>8. OthersKeepCodes(p, s, admitted')
    BY <1>2, <1>2a, <2>1, <2>2 DEF OthersKeepCodes
  <2>9. /\ admitted' \in Seq(SUBSET Peers) /\ OneEach(admitted') /\ LetIn \subseteq LetIn'
        /\ Len(admitted') >= Len(admitted)
    BY <1>2, <2>1, <2>3 DEF OneEach
  <2>6. AdmitInv'
    BY <1>1, <2>1, <2>4, <2>5, <2>8, <2>9, MoreAreAdmitted DEF LetIn
  <2>7. FilesInv'
    <3>1. FilesInv /\ s.phase \in Exposed /\ s.pair = proc[p].pair
      BY <1>4, <2>2 DEF IdentityInv
    <3> QED BY <1>1, <2>1, <3>1, ExposedFilesStay
  <2> QED BY <2>6, <2>7 DEF IdentityInv
<1>7. ASSUME NEW q \in Peers, Identities!AcceptPairing(p, q) PROVE IdentityInv'
  <2> DEFINE c == proc[p].code
  <2>0. proc[p].phase = "ready" /\ c \in 1 .. Len(admitted) /\ admitted[c] = {}
    BY <1>2, <1>3, <1>7 DEF Identities!AcceptPairing, Identities!At
  <2>1. CASE /\ admitted' = [admitted EXCEPT ![c] = @ \cup {q}]
             /\ trustFiles' = [trustFiles EXCEPT ![q] = "torn"]
             /\ Identities!Becomes(p, Identities!Trusting(p, q, 0))
    <3> DEFINE s == Identities!Trusting(p, q, 0)
    <3>1. proc' = [proc EXCEPT ![p] = s]
      BY <2>1 DEF Identities!Becomes
    <3>2. /\ s.phase = "trusting" /\ s.pair = proc[p].pair /\ s.code = 0
          /\ s.trusted = proc[p].trusted /\ s.peer = q
      BY DEF Identities!Trusting
    <3> HIDE DEF s, LetIn
    <3>3. /\ admitted' \in Seq(SUBSET Peers) /\ Len(admitted') = Len(admitted)
          /\ admitted'[c] = {q}
          /\ \A i \in 1 .. Len(admitted) : i # c => admitted'[i] = admitted[i]
          /\ DOMAIN admitted = 1 .. Len(admitted) /\ DOMAIN admitted' = 1 .. Len(admitted)
      BY <1>2, <2>0, <2>1
    <3>4. LetIn \subseteq LetIn' /\ q \in LetIn'
      BY <2>0, <3>3 DEF LetIn, Identities!Admitted
    <3>5. CodesFit(s, admitted', LetIn')
      BY <1>2, <1>3, <3>2, <3>3, <3>4 DEF CodesFit
    <3>6. OthersKeepCodes(p, s, admitted')
      BY <1>2, <1>2a, <3>2, <3>3 DEF OthersKeepCodes
    <3>7. FilesOfKnown(trustFiles', LetIn')
      BY <1>2, <2>1, <3>4 DEF FilesOfKnown
    <3>8. OneEach(admitted') /\ Len(admitted') >= Len(admitted)
      BY <1>2, <3>3 DEF OneEach
    <3>9. AdmitInv'
      BY <1>1, <3>1, <3>3, <3>4, <3>5, <3>6, <3>7, <3>8, MoreAreAdmitted DEF LetIn
    <3>10. FilesInv'
      BY <1>1, <1>4, <3>1, <3>2, ExposedFilesStay DEF IdentityInv
    <3> QED BY <3>9, <3>10 DEF IdentityInv
  <2>2. CASE /\ Identities!Becomes(p, [proc[p] EXCEPT !.code = 0])
             /\ UNCHANGED <<admitted, trustFiles>>
    <3> DEFINE s == [proc[p] EXCEPT !.code = 0]
    <3>1. proc' = [proc EXCEPT ![p] = s]
      BY <2>2 DEF Identities!Becomes
    <3>2. s = [phase |-> "ready", pair |-> proc[p].pair, code |-> 0,
               trusted |-> proc[p].trusted]
      BY <1>3, <2>0
    <3>3. /\ s.phase = "ready" /\ s.pair = proc[p].pair /\ s.code = 0
          /\ s.trusted = proc[p].trusted
          /\ s = [phase |-> "ready", pair |-> s.pair, code |-> s.code, trusted |-> s.trusted]
      BY <3>2
    <3> HIDE DEF s, LetIn
    <3>4. CodesFit(s, admitted, LetIn)
      BY <1>2, <1>3, <3>3 DEF CodesFit
    <3>5. AdmitInv'
      BY <1>1, <2>2, <3>1, <3>3, <3>4, CodesStay DEF LetIn
    <3>6. FilesInv'
      BY <1>1, <1>4, <3>1, <3>3, ExposedFilesStay DEF IdentityInv
    <3> QED BY <3>5, <3>6 DEF IdentityInv
  <2> QED BY <1>7, <2>1, <2>2 DEF Identities!AcceptPairing
<1>8. ASSUME NEW q \in Peers, Identities!Trust(p, q) PROVE IdentityInv'
  <2> DEFINE s == Identities!Trusting(p, q, proc[p].code)
  <2>1. /\ admitted' = Append(admitted, {q}) /\ proc' = [proc EXCEPT ![p] = s]
        /\ trustFiles' = [trustFiles EXCEPT ![q] = "torn"]
    BY <1>8 DEF Identities!Trust, Identities!Becomes
  <2>2. /\ s.phase = "trusting" /\ s.pair = proc[p].pair /\ s.code = proc[p].code
        /\ s.trusted = proc[p].trusted /\ s.peer = q
    BY DEF Identities!Trusting
  <2> HIDE DEF s, LetIn
  <2>3. /\ admitted' \in Seq(SUBSET Peers) /\ Len(admitted') = Len(admitted) + 1
        /\ admitted'[Len(admitted) + 1] = {q}
        /\ \A i \in 1 .. Len(admitted) : admitted'[i] = admitted[i]
        /\ LetIn \subseteq LetIn' /\ q \in LetIn'
    BY <2>1, AppendAdmits DEF IdentityInv, LetIn
  <2>4. CodesFit(s, admitted', LetIn')
    BY <1>2, <1>3, <2>2, <2>3 DEF CodesFit
  <2>5. OthersKeepCodes(p, s, admitted')
    BY <1>2, <1>2a, <2>2, <2>3 DEF OthersKeepCodes
  <2>6. OneEach(admitted') /\ Len(admitted') >= Len(admitted)
    BY <1>2, <2>3 DEF OneEach
  <2>7. FilesOfKnown(trustFiles', LetIn')
    BY <1>2, <2>1, <2>3 DEF FilesOfKnown
  <2>8. AdmitInv'
    BY <1>1, <2>1, <2>3, <2>4, <2>5, <2>6, <2>7, MoreAreAdmitted DEF LetIn
  <2>9. FilesInv'
    BY <1>1, <1>4, <2>1, <2>2, ExposedFilesStay DEF IdentityInv
  <2> QED BY <2>8, <2>9 DEF IdentityInv
<1> QED BY <1>5, <1>6, <1>7, <1>8

LEMMA IdentityStepsKeepIdentity ==
  ASSUME IdentityInv, [Identities!IdentityNext]_(Identities!identityVars)
  PROVE  IdentityInv'
<1>1. ASSUME NEW p \in Programs, NEW q \in Peers, Identities!MakeConnection(p, q)
      PROVE  IdentityInv'
  <2>1. /\ proc[p].phase = "ready" /\ q \in Identities!Roots(proc[p].trusted)
        /\ connected' = connected \cup {q}
        /\ UNCHANGED <<certificate, privateKey, trustFiles, proc, pairs, shown, admitted>>
    BY <1>1 DEF Identities!MakeConnection, Identities!At, Identities!files
  <2>2. proc[p].trusted[q] # None
    BY <2>1 DEF Identities!Roots
  <2>3. q \in Identities!Admitted
    BY <2>1, <2>2 DEF IdentityInv, AdmitInv, CodesFit, Exposed
  <2>4. Identities!Admitted' = Identities!Admitted
    BY <2>1 DEF Identities!Admitted
  <2> QED BY <2>1, <2>3, <2>4 DEF IdentityInv, FilesInv, AdmitInv
<1>2. CASE UNCHANGED Identities!identityVars
  <2>1. UNCHANGED <<certificate, privateKey, trustFiles, proc, pairs, shown, admitted, connected>>
    BY <1>2 DEF Identities!identityVars
  <2>2. Identities!Admitted' = Identities!Admitted
    BY <2>1 DEF Identities!Admitted
  <2> QED BY <2>1, <2>2 DEF IdentityInv, FilesInv, AdmitInv
<1>3. CASE Identities!IdentityNext
  <2>1. PICK p \in Programs :
          \/ Identities!ReadCertificate(p) \/ Identities!ReadKey(p)
          \/ Identities!CreateCertificate(p) \/ Identities!WriteCertificate(p)
          \/ Identities!CreateKey(p) \/ Identities!WriteKey(p) \/ Identities!Expose(p)
          \/ Identities!IssuePairingCode(p) \/ Identities!Trusted(p) \/ Identities!Leave(p)
          \/ \E q \in Peers : \/ Identities!AcceptPairing(p, q) \/ Identities!Trust(p, q)
                              \/ Identities!MakeConnection(p, q)
    BY <1>3 DEF Identities!IdentityNext
  <2>2. CASE \/ Identities!ReadCertificate(p) \/ Identities!ReadKey(p)
             \/ Identities!Expose(p) \/ Identities!Leave(p)
    BY <2>2, ReadingKeepsIdentity
  <2>3. CASE \/ Identities!CreateCertificate(p) \/ Identities!WriteCertificate(p)
             \/ Identities!CreateKey(p) \/ Identities!WriteKey(p)
    BY <2>3, WritingKeepsIdentity
  <2>4. CASE Identities!IssuePairingCode(p) \/ Identities!Trusted(p)
    BY <2>4, PairingKeepsIdentity
  <2>5. CASE \E q \in Peers : Identities!AcceptPairing(p, q) \/ Identities!Trust(p, q)
    BY <2>5, PairingKeepsIdentity
  <2>6. CASE \E q \in Peers : Identities!MakeConnection(p, q)
    BY <1>1, <2>6
  <2> QED BY <2>1, <2>2, <2>3, <2>4, <2>5, <2>6
<1> QED BY <1>2, <1>3

\* A directory has one identity for ever, whichever of its processes makes it and
\* whichever is cut off, and what uses it shows what is on disk; a code lets in one peer,
\* and no other peer is ever trusted or connected to.  For any number of processes, peers,
\* codes and failures.
THEOREM IdentitiesAreKept == Identities!IdentitySpec => []IdentityIsKept
<1>1. Identities!IdentityInit => IdentityInv
  BY IdentityStarts
<1>2. IdentityInv /\ [Identities!IdentityNext]_(Identities!identityVars) => IdentityInv'
  BY IdentityStepsKeepIdentity
<1>3. IdentityInv => IdentityIsKept
  BY IdentityInvSuffices DEF IdentityIsKept
<1> QED BY <1>1, <1>2, <1>3, PTL DEF Identities!IdentitySpec

-----------------------------------------------------------------------------
(***************************************************************************)
(* Policy: the rule that decides is the one that should, and what was      *)
(* decided stays decided for its request alone.                            *)
(*                                                                         *)
(* The rules are finitely many and have ids of their own, so that one of   *)
(* those that match is greater than the others; those that a decision made *)
(* are still what exact_rule made them, and the checkpoint has whatever    *)
(* the engine has (RulesKept).                                             *)
(***************************************************************************)

\* A finite set has a greatest member in any order that is total on it.
LEMMA FiniteSetsHaveAGreatest ==
  ASSUME NEW S, IsFiniteSet(S), S # {}, NEW R,
         \A x, y \in S : x = y \/ <<x, y>> \in R \/ <<y, x>> \in R,
         \A x, y, z \in S : <<x, y>> \in R /\ <<y, z>> \in R => <<x, z>> \in R
  PROVE  \E m \in S : \A s \in S \ {m} : <<s, m>> \in R
<1> DEFINE Has(T) == \E m \in T : \A s \in T \ {m} : <<s, m>> \in R
           Bad == {T \in SUBSET S : T # {} /\ ~Has(T)}
<1>1. SUFFICES ASSUME Bad # {} PROVE FALSE
  OBVIOUS
<1>2. PICK T \in Bad : \A U \in Bad : <<U, T>> \notin StrictSubsetOrdering(S)
  <2>1. IsWellFoundedOn(StrictSubsetOrdering(S), SUBSET S)
    BY FS_StrictSubsetOrderingWellFounded, FS_FiniteSubsetsOfFinite
  <2>2. Bad \subseteq SUBSET S
    OBVIOUS
  <2> HIDE DEF Bad
  <2> QED BY <1>1, <2>1, <2>2, WFMin
<1>3. T \subseteq S /\ T # {} /\ ~Has(T)
  OBVIOUS
<1>4. PICK x \in T : TRUE
  BY <1>3
<1>5. CASE T = {x}
  BY <1>3, <1>5
<1>6. CASE T \ {x} # {}
  <2> DEFINE U == T \ {x}
  <2>1. <<U, T>> \in StrictSubsetOrdering(S)
    BY <1>3, <1>4 DEF StrictSubsetOrdering
  <2>2. Has(U)
    BY <1>2, <1>3, <1>6, <2>1
  <2>3. PICK m \in U : \A s \in U \ {m} : <<s, m>> \in R
    BY <2>2
  <2>4. CASE <<x, m>> \in R
    <3>1. \A s \in T \ {m} : <<s, m>> \in R
      BY <2>3, <2>4
    <3> QED BY <1>3, <2>3, <3>1
  <2>5. CASE <<m, x>> \in R
    <3>1. \A s \in T \ {x} : <<s, x>> \in R
      BY <1>3, <1>4, <2>3, <2>5
    <3> QED BY <1>3, <1>4, <3>1
  <2> QED BY <1>3, <1>4, <2>3, <2>4, <2>5
<1> QED BY <1>4, <1>5, <1>6

\* The number after the greatest of a finite set of numbers is none of them.
LEMMA NextIsNew ==
  ASSUME NEW S, IsFiniteSet(S), S \subseteq Nat
  PROVE  /\ Rules!Max(S \cup {0}) + 1 \in Nat
         /\ Rules!Max(S \cup {0}) + 1 \notin S
<1> DEFINE T == S \cup {0}
           R == {p \in T \X T : p[1] < p[2]}
<1>1. IsFiniteSet(T)
  BY FS_AddElement
<1>2. /\ \A x, y \in T : x = y \/ <<x, y>> \in R \/ <<y, x>> \in R
      /\ \A x, y, z \in T : <<x, y>> \in R /\ <<y, z>> \in R => <<x, z>> \in R
  OBVIOUS
<1>3. \E m \in T : \A s \in T \ {m} : <<s, m>> \in R
  <2> HIDE DEF T, R
  <2>1. T # {}
    BY DEF T
  <2> QED BY <1>1, <1>2, <2>1, FiniteSetsHaveAGreatest
<1>4. \E m \in T : \A s \in T : m >= s
  <2>1. PICK m \in T : \A s \in T \ {m} : <<s, m>> \in R
    BY <1>3
  <2>2. ASSUME NEW s \in T PROVE m >= s
    <3>1. CASE s = m
      BY <3>1
    <3>2. CASE s # m
      <4>1. <<s, m>> \in R
        BY <2>1, <3>2
      <4> QED BY <4>1
    <3> QED BY <3>1, <3>2
  <2> QED BY <2>2
<1>5. Rules!Max(T) \in T /\ \A s \in T : Rules!Max(T) >= s
  BY <1>4 DEF Rules!Max
<1>6. Rules!Max(T) \in Nat
  <2>1. T \subseteq Nat
    OBVIOUS
  <2> HIDE DEF T
  <2> QED BY <1>5, <2>1
<1>7. Rules!Max(T) + 1 \notin T
  BY <1>5, <1>6
<1> QED BY <1>6, <1>7

\* Rules that no two share an id of.
RuleSet(some) ==
  /\ IsFiniteSet(some) /\ some \subseteq PolicyRule
  /\ \A r, s \in some : r.id = s.id => r = s

\* What exact_rule makes of a request.
MadeFor(r, q) ==
  /\ r.enabled = TRUE /\ r.expires = FALSE /\ r.managed = FALSE
  /\ r.principal = q.principal
  /\ r.device = q.device /\ r.deviceExact = TRUE
  /\ r.resources = q.resources /\ r.resourcesExact = TRUE
  /\ r.requirePresence = FALSE /\ r.presence = q.present

DecisionsStand(some, decisions) ==
  \A i \in DOMAIN decisions :
    /\ decisions[i] \in Rules!AccessRequests
    /\ \E r \in some : r.id = i /\ MadeFor(r, decisions[i])

RulesKept(some, decisions, verified) ==
  RuleSet(some) /\ DecisionsStand(some, decisions) /\ Rules!Managed(some) = verified

PolicyInv ==
  /\ bundle \in Bundles /\ running \in BOOLEAN
  /\ IF savedRules = None
     THEN running = TRUE /\ rules = bundle /\ DOMAIN remembered = {}
     ELSE /\ savedRules = [rules |-> savedRules.rules]
          /\ RuleSet(savedRules.rules) /\ DecisionsStand(savedRules.rules, remembered)
          /\ running = TRUE => rules = savedRules.rules /\ Rules!Managed(rules) = bundle

LEMMA IdsAreFinite ==
  ASSUME NEW some, IsFiniteSet(some)
  PROVE  /\ IsFiniteSet(Rules!Ids(some)) /\ IsFiniteSet(Rules!Revisions(some))
         /\ (\A r, s \in some : r.id = s.id => r = s) =>
              Cardinality(Rules!Ids(some)) = Cardinality(some)
<1> DEFINE id == [r \in some |-> r.id]
           revision == [r \in some |-> r.revision]
<1>1. id \in Surjection(some, Rules!Ids(some))
  BY DEF Surjection, Rules!Ids
<1>2. revision \in Surjection(some, Rules!Revisions(some))
  BY DEF Surjection, Rules!Revisions
<1>3. ASSUME \A r, s \in some : r.id = s.id => r = s
      PROVE  id \in Injection(some, Rules!Ids(some))
  <2>1. id \in [some -> Rules!Ids(some)]
    BY <1>1 DEF Surjection
  <2> QED BY <1>3, <2>1 DEF Injection, IsInjective
<1> HIDE DEF id, revision
<1> QED BY <1>1, <1>2, <1>3, FS_Surjection

LEMMA BundlesAreKept ==
  ASSUME NEW b \in Bundles
  PROVE  RuleSet(b) /\ Rules!Managed(b) = b
BY RulesAssumption DEF RuleSet, Rules!Managed, Rules!IsManaged

LEMMA EngineKeepsRules ==
  ASSUME PolicyInv, running = TRUE
  PROVE  RulesKept(rules, remembered, bundle)
<1>1. CASE savedRules = None
  <2>1. rules = bundle /\ DOMAIN remembered = {} /\ bundle \in Bundles
    BY <1>1 DEF PolicyInv
  <2> QED BY <2>1, BundlesAreKept DEF RulesKept, DecisionsStand
<1>2. CASE savedRules # None
  BY <1>2 DEF PolicyInv, RulesKept
<1> QED BY <1>1, <1>2

\* A change that keeps the rules is followed by a checkpoint that has them.
LEMMA ChangeKeepsPolicyInv ==
  ASSUME PolicyInv, NEW new, Rules!Change(new), RulesKept(new, remembered', bundle)
  PROVE  PolicyInv'
<1>1. /\ running = TRUE /\ running' = TRUE /\ bundle' = bundle
      /\ rules' = new /\ savedRules' = [rules |-> new]
  BY DEF Rules!Change, PolicyInv
<1>2. savedRules' # None
  BY <1>1, RulesAssumption DEF RulesKept, RuleSet
<1>3. Rules!Managed(rules') = bundle' /\ RuleSet(savedRules'.rules)
      /\ DecisionsStand(savedRules'.rules, remembered')
  BY <1>1 DEF RulesKept
<1>4. (Rules!Managed(rules) = bundle)' = (Rules!Managed(rules') = bundle')
  BY DEF Rules!Managed, Rules!IsManaged
<1>5. RuleSet(savedRules.rules)' = RuleSet(savedRules'.rules) 
  BY DEF RuleSet
<1>6. DecisionsStand(savedRules.rules, remembered)' = DecisionsStand(savedRules'.rules, remembered')
  BY DEF DecisionsStand, MadeFor, Rules!AccessRequests
<1> QED BY <1>1, <1>2, <1>3, <1>4, <1>5, <1>6 DEF PolicyInv

LEMMA PutKeepsPolicyInv ==
  ASSUME PolicyInv, Rules!PutUserRule
  PROVE  PolicyInv'
<1>1. PICK put \in Puts, revision \in 1 .. MaxRevision :
        LET r == [put EXCEPT !.revision = revision]
            old == {s \in rules : s.id = r.id}
        IN /\ \A s \in old : ~Rules!IsManaged(s)
           /\ Rules!Change((rules \ old) \cup {r})
           /\ Rules!Forget(r.id)
  BY DEF Rules!PutUserRule
<1> DEFINE r == [put EXCEPT !.revision = revision]
           old == {s \in rules : s.id = r.id}
           new == (rules \ old) \cup {r}
<1>2. r \in PolicyRule /\ ~r.managed
  <2>1. put \in PolicyRule /\ ~put.managed
    BY RulesAssumption
  <2>2. revision \in Nat
    BY NatAssumption
  <2> QED BY <2>1, <2>2 DEF PolicyRule
<1>3. /\ \A s \in old : ~Rules!IsManaged(s)
      /\ Rules!Change(new) /\ Rules!Forget(r.id)
  BY <1>1
<1> HIDE DEF r
<1>4. running = TRUE /\ RulesKept(rules, remembered, bundle)
  BY <1>3, EngineKeepsRules DEF Rules!Change, PolicyInv
<1>5. RuleSet(new)
  <2>1. IsFiniteSet(new)
    BY <1>4, FS_Subset, FS_AddElement DEF RulesKept, RuleSet
  <2> QED BY <1>2, <1>4, <2>1 DEF RulesKept, RuleSet
<1>6. Rules!Managed(new) = bundle
  BY <1>2, <1>3, <1>4 DEF RulesKept, Rules!Managed, Rules!IsManaged
<1>7. DecisionsStand(new, remembered')
  <2>1. /\ DOMAIN remembered' = DOMAIN remembered \ {r.id}
        /\ \A i \in DOMAIN remembered' : remembered'[i] = remembered[i]
    BY <1>3 DEF Rules!Forget
  <2>2. ASSUME NEW i \in DOMAIN remembered'
        PROVE  /\ remembered'[i] \in Rules!AccessRequests
               /\ \E s \in new : s.id = i /\ MadeFor(s, remembered'[i])
    <3>1. remembered'[i] = remembered[i] /\ i \in DOMAIN remembered /\ i # r.id
      BY <2>1
    <3>2. PICK s \in rules : s.id = i /\ MadeFor(s, remembered[i])
      BY <1>4, <3>1 DEF RulesKept, DecisionsStand
    <3>3. s \in new
      BY <3>1, <3>2
    <3> QED BY <1>4, <3>1, <3>2, <3>3 DEF RulesKept, DecisionsStand
  <2> QED BY <2>2 DEF DecisionsStand
<1> HIDE DEF new
<1> QED BY <1>3, <1>5, <1>6, <1>7, ChangeKeepsPolicyInv DEF RulesKept

LEMMA DeleteKeepsPolicyInv ==
  ASSUME PolicyInv, Rules!DeleteUserRule
  PROVE  PolicyInv'
<1>1. PICK r \in rules : /\ ~Rules!IsManaged(r)
                         /\ Rules!Change(rules \ {r}) /\ Rules!Forget(r.id)
  BY DEF Rules!DeleteUserRule
<1> DEFINE new == rules \ {r}
<1>2. running = TRUE /\ RulesKept(rules, remembered, bundle)
  BY <1>1, EngineKeepsRules DEF Rules!Change, PolicyInv
<1>3. RuleSet(new)
  BY <1>2, FS_Subset DEF RulesKept, RuleSet
<1>4. Rules!Managed(new) = bundle
  BY <1>1, <1>2 DEF RulesKept, Rules!Managed, Rules!IsManaged
<1>5. DecisionsStand(new, remembered')
  <2>1. /\ DOMAIN remembered' = DOMAIN remembered \ {r.id}
        /\ \A i \in DOMAIN remembered' : remembered'[i] = remembered[i]
    BY <1>1 DEF Rules!Forget
  <2>2. ASSUME NEW i \in DOMAIN remembered'
        PROVE  /\ remembered'[i] \in Rules!AccessRequests
               /\ \E s \in new : s.id = i /\ MadeFor(s, remembered'[i])
    <3>1. remembered'[i] = remembered[i] /\ i \in DOMAIN remembered /\ i # r.id
      BY <2>1
    <3>2. PICK s \in rules : s.id = i /\ MadeFor(s, remembered[i])
      BY <1>2, <3>1 DEF RulesKept, DecisionsStand
    <3>3. s \in new
      BY <3>1, <3>2
    <3> QED BY <1>2, <3>1, <3>2, <3>3 DEF RulesKept, DecisionsStand
  <2> QED BY <2>2 DEF DecisionsStand
<1> HIDE DEF new
<1> QED BY <1>1, <1>3, <1>4, <1>5, ChangeKeepsPolicyInv DEF RulesKept, new

\* The rule of a decision has an id that no rule has.
LEMMA RememberKeepsPolicyInv ==
  ASSUME PolicyInv, Rules!Remember
  PROVE  PolicyInv'
<1> DEFINE id == Rules!Max(Rules!Ids(rules) \cup {0}) + 1
<1>1. PICK q \in Rules!AccessRequests, effect \in {"allow", "deny"} :
        /\ Rules!Change(rules \cup {Rules!ExactRule(q, effect, id)})
        /\ remembered' =
             [i \in DOMAIN remembered \cup {id} |-> IF i = id THEN q ELSE remembered[i]]
  BY DEF Rules!Remember
<1> DEFINE r == Rules!ExactRule(q, effect, id)
           new == rules \cup {r}
<1>2. running = TRUE /\ RulesKept(rules, remembered, bundle)
  BY <1>1, EngineKeepsRules DEF Rules!Change, PolicyInv
<1>3. /\ id \in Nat /\ id \notin Rules!Ids(rules)
      /\ Rules!Max(Rules!Revisions(rules) \cup {0}) + 1 \in Nat
  <2>1. IsFiniteSet(rules) /\ rules \subseteq PolicyRule
    BY <1>2 DEF RulesKept, RuleSet
  <2>2. /\ IsFiniteSet(Rules!Ids(rules)) /\ Rules!Ids(rules) \subseteq Nat
        /\ IsFiniteSet(Rules!Revisions(rules)) /\ Rules!Revisions(rules) \subseteq Nat
    <3>1. \A s \in rules : s.id \in Nat /\ s.revision \in Nat
      BY <2>1 DEF PolicyRule
    <3> QED BY <2>1, <3>1, IdsAreFinite DEF Rules!Ids, Rules!Revisions
  <2> QED BY <2>2, NextIsNew
<1> HIDE DEF id
<1>4. /\ r \in PolicyRule /\ r.id = id /\ MadeFor(r, q)
  BY <1>3 DEF Rules!ExactRule, PolicyRule, MadeFor, Rules!AccessRequests
<1>5. \A s \in rules : s.id # id
  BY <1>3 DEF Rules!Ids
<1> HIDE DEF r
<1>6. RuleSet(new)
  <2>1. IsFiniteSet(new)
    BY <1>2, FS_AddElement DEF RulesKept, RuleSet
  <2> QED BY <1>2, <1>4, <1>5, <2>1 DEF RulesKept, RuleSet
<1>7. Rules!Managed(new) = bundle
  BY <1>2, <1>4 DEF RulesKept, Rules!Managed, Rules!IsManaged, MadeFor
<1>8. DecisionsStand(new, remembered')
  <2>1. ASSUME NEW i \in DOMAIN remembered'
        PROVE  /\ remembered'[i] \in Rules!AccessRequests
               /\ \E s \in new : s.id = i /\ MadeFor(s, remembered'[i])
    <3>1. CASE i = id
      BY <1>1, <1>4, <3>1
    <3>2. CASE i # id
      <4>1. remembered'[i] = remembered[i] /\ i \in DOMAIN remembered
        BY <1>1, <3>2
      <4> QED BY <1>2, <4>1 DEF RulesKept, DecisionsStand
    <3> QED BY <3>1, <3>2
  <2> QED BY <2>1 DEF DecisionsStand
<1>9. Rules!Change(new)
  BY <1>1 DEF r
<1> HIDE DEF new
<1> QED BY <1>6, <1>7, <1>8, <1>9, ChangeKeepsPolicyInv DEF RulesKept

LEMMA RestartKeepsPolicyInv ==
  ASSUME PolicyInv, Rules!Restart
  PROVE  PolicyInv'
<1>1. PICK b \in Bundles :
        /\ bundle' = b
        /\ IF savedRules = None
           THEN running' = TRUE /\ rules' = b
           ELSE /\ running' = (Rules!Managed(savedRules.rules) = b)
                /\ rules' = IF running'
                            THEN (savedRules.rules \ Rules!Managed(savedRules.rules)) \cup b
                            ELSE {}
  BY DEF Rules!Restart
<1>2. savedRules' = savedRules /\ remembered' = remembered
  BY DEF Rules!Restart
<1>3. CASE savedRules = None
  BY <1>1, <1>2, <1>3 DEF PolicyInv
<1>4. CASE savedRules # None
  <2>1. running' \in BOOLEAN
    BY <1>1, <1>4
  <2>2. running' = TRUE => rules' = savedRules'.rules /\ Rules!Managed(rules') = bundle'
    <3>1. Rules!Managed(savedRules.rules) \subseteq savedRules.rules
      BY DEF Rules!Managed
    <3>2. SUFFICES ASSUME running' = TRUE
                   PROVE  rules' = savedRules'.rules /\ Rules!Managed(rules') = bundle'
      OBVIOUS
    <3>3. rules' = savedRules.rules /\ Rules!Managed(savedRules.rules) = b
      BY <1>1, <1>4, <3>1, <3>2
    <3> QED BY <1>1, <1>2, <3>3
  <2>3. (Rules!Managed(rules) = bundle)' = (Rules!Managed(rules') = bundle')
    BY DEF Rules!Managed, Rules!IsManaged
  <2>4. /\ RuleSet(savedRules'.rules)
        /\ DecisionsStand(savedRules'.rules, remembered')
        /\ savedRules' = [rules |-> savedRules'.rules] /\ savedRules' # None
        /\ bundle' \in Bundles
    BY <1>1, <1>2, <1>4 DEF PolicyInv
  <2>5. RuleSet(savedRules.rules)' = RuleSet(savedRules'.rules) 
    BY DEF RuleSet
  <2>6. DecisionsStand(savedRules.rules, remembered)' =
          DecisionsStand(savedRules'.rules, remembered')
    BY DEF DecisionsStand, MadeFor, Rules!AccessRequests
  <2> QED BY <2>1, <2>2, <2>3, <2>4, <2>5, <2>6 DEF PolicyInv
<1> QED BY <1>3, <1>4

LEMMA PolicyInvIsInductive ==
  ASSUME PolicyInv, [Rules!PolicyNext]_(Rules!policyVars)
  PROVE  PolicyInv'
<1>1. CASE UNCHANGED <<rules, bundle, savedRules, running, remembered>>
  BY <1>1 DEF PolicyInv, RuleSet, DecisionsStand, MadeFor, Rules!Managed, Rules!IsManaged,
              Rules!AccessRequests
<1>2. CASE Rules!Expire \/ UNCHANGED Rules!policyVars
  BY <1>1, <1>2 DEF Rules!Expire, Rules!policyVars
<1> QED BY <1>2, PutKeepsPolicyInv, DeleteKeepsPolicyInv, RememberKeepsPolicyInv,
           RestartKeepsPolicyInv DEF Rules!PolicyNext

\* One of the rules of an effect comes after all others of it.
LEMMA SelectedIsLast ==
  ASSUME NEW some, RuleSet(some), NEW among \in SUBSET some, NEW effect,
         Rules!Effect(effect, among) # {}
  PROVE  /\ Rules!SelectRule(effect, among) \in among
         /\ Rules!SelectRule(effect, among).effect = effect
         /\ \A s \in among :
              s.effect = effect =>
                Rules!Specificity(s) <= Rules!Specificity(Rules!SelectRule(effect, among))
<1> DEFINE S == Rules!Effect(effect, among)
           R == {p \in S \X S : Rules!Before(p[1], p[2])}
<1>1. IsFiniteSet(S) /\ S \subseteq some
  BY FS_Subset DEF RuleSet, Rules!Effect
<1>2. \A r \in S : /\ Rules!Specificity(r) \in Nat
                   /\ r.revision \in Nat /\ r.id \in Nat
  <2>1. \A r \in S : r \in PolicyRule
    BY <1>1 DEF RuleSet
  <2> QED BY <2>1 DEF PolicyRule, Rules!Specificity, Rules!One
<1>3. \A r, s \in S : r.id = s.id => r = s
  BY <1>1 DEF RuleSet
<1> HIDE DEF S
<1>4. \A r, s \in S : r = s \/ Rules!Before(r, s) \/ Rules!Before(s, r)
  BY <1>2, <1>3 DEF Rules!Before
<1>5. \A r, s, t \in S : Rules!Before(r, s) /\ Rules!Before(s, t) => Rules!Before(r, t)
  BY <1>2 DEF Rules!Before
<1>6. /\ \A x, y \in S : x = y \/ <<x, y>> \in R \/ <<y, x>> \in R
      /\ \A x, y, z \in S : <<x, y>> \in R /\ <<y, z>> \in R => <<x, z>> \in R
  BY <1>4, <1>5
<1>7. \E m \in S : \A s \in S \ {m} : <<s, m>> \in R
  <2> HIDE DEF R
  <2>1. S # {}
    BY DEF S
  <2> QED BY <1>1, <1>6, <2>1, FiniteSetsHaveAGreatest
<1>8. \E m \in S : \A s \in S \ {m} : Rules!Before(s, m)
  BY <1>7
<1> DEFINE r == Rules!SelectRule(effect, among)
<1>9. r \in S /\ \A s \in S \ {r} : Rules!Before(s, r)
  BY <1>8 DEF Rules!SelectRule, S
<1> HIDE DEF r
<1>10. r \in among /\ r.effect = effect
  BY <1>9 DEF S, Rules!Effect
<1>11. ASSUME NEW s \in among, s.effect = effect
       PROVE  Rules!Specificity(s) <= Rules!Specificity(r)
  <2>1. s \in S
    BY <1>11 DEF S, Rules!Effect
  <2>2. CASE s = r
    BY <1>2, <2>1, <2>2
  <2>3. CASE s # r
    BY <1>2, <1>9, <2>1, <2>3 DEF Rules!Before
  <2> QED BY <2>2, <2>3
<1> QED BY <1>10, <1>11 DEF r

\* A rule made by a decision applies to its request, and to no other.
LEMMA MadeForOne ==
  ASSUME NEW r, NEW q \in Rules!AccessRequests, NEW p \in Rules!AccessRequests, MadeFor(r, q)
  PROVE  Rules!RuleMatches(r, p) <=> p = q
<1>1. /\ q.principal # None /\ q.present # None
      /\ p = q <=> /\ p.principal = q.principal /\ p.device = q.device
                   /\ p.resources = q.resources /\ p.present = q.present
  BY RulesAssumption DEF Rules!AccessRequests
<1> QED BY <1>1 DEF MadeFor, Rules!RuleMatches, Rules!Fits

\* What PolicyDecides says of the decision e of a request that these rules match, by
\* the rules of its id.
DecidedWell(q, e, matching, by) ==
  /\ e.decision = "Denied" <=> \E r \in matching : r.effect = "deny"
  /\ e.decision = "Allowed" =>
       /\ by \subseteq matching
       /\ Rules!IsHighRisk(q) => \A r \in by : Rules!IsManaged(r)
  /\ e.decision # "ApprovalRequired" =>
       \A r \in by, s \in matching :
         s.effect = r.effect
           /\ (Rules!IsHighRisk(q) /\ r.effect = "allow" => Rules!IsManaged(s))
           => Rules!Specificity(s) <= Rules!Specificity(r)

LEMMA PolicyInvDecides ==
  ASSUME PolicyInv
  PROVE  Rules!PolicyDecides
<1> SUFFICES ASSUME running = TRUE PROVE Rules!PolicyDecides
  BY DEF Rules!PolicyDecides, PolicyInv
<1>1. RuleSet(rules) /\ DecisionsStand(rules, remembered) /\ Rules!Managed(rules) = bundle
  BY EngineKeepsRules DEF RulesKept
<1>2. Rules!Cardinality(Rules!Ids(rules)) = Rules!Cardinality(rules)
  <2>1. \A S : Rules!Cardinality(S) = Cardinality(S)
    BY DEF Rules!Cardinality, Cardinality
  <2> QED BY <1>1, <2>1, IdsAreFinite DEF RuleSet
<1>3. ASSUME NEW i \in DOMAIN remembered, NEW q \in Rules!AccessRequests
      PROVE  Rules!Applies(i, q) <=> q = remembered[i]
  <2>1. PICK r \in rules : r.id = i /\ MadeFor(r, remembered[i])
    BY <1>1 DEF DecisionsStand
  <2>2. \A s \in rules : s.id = i => s = r
    BY <1>1, <2>1 DEF RuleSet
  <2>3. Rules!RuleMatches(r, q) <=> q = remembered[i]
    BY <1>1, <2>1, MadeForOne DEF DecisionsStand
  <2> QED BY <2>1, <2>2, <2>3 DEF Rules!Applies
<1>4. ASSUME NEW q \in Rules!AccessRequests
      PROVE  DecidedWell(q, Rules!Evaluate(q), {r \in rules : Rules!RuleMatches(r, q)},
                         {r \in rules : r.id = Rules!Evaluate(q).rule})
  <2> DEFINE e == Rules!Evaluate(q)
             matching == {r \in rules : Rules!RuleMatches(r, q)}
             by == {r \in rules : r.id = e.rule}
             allowing == Rules!Deciding(q, matching)
  <2>1. matching \in SUBSET rules /\ allowing \in SUBSET rules /\ allowing \subseteq matching
    BY DEF Rules!Deciding
  <2>2. CASE Rules!Effect("deny", matching) # {}
    <3> DEFINE r == Rules!SelectRule("deny", matching)
    <3>1. e = [decision |-> "Denied", rule |-> r.id]
      BY <2>2 DEF Rules!Evaluate, Rules!Decided
    <3>2. /\ r \in matching /\ r.effect = "deny"
          /\ \A s \in matching :
               s.effect = "deny" => Rules!Specificity(s) <= Rules!Specificity(r)
      BY <1>1, <2>1, <2>2, SelectedIsLast
    <3> HIDE DEF r, e
    <3>3. by = {r}
      BY <1>1, <2>1, <3>1, <3>2 DEF RuleSet
    <3>4. DecidedWell(q, e, matching, by)
      <4> HIDE DEF by, matching
      <4> QED BY <3>1, <3>2, <3>3 DEF DecidedWell
    <3> QED BY <3>4 DEF e
  <2>3. CASE Rules!Effect("deny", matching) = {} /\ Rules!Effect("allow", allowing) # {}
    <3> DEFINE r == Rules!SelectRule("allow", allowing)
    <3>1. e = [decision |-> "Allowed", rule |-> r.id]
      BY <2>3 DEF Rules!Evaluate, Rules!Decided
    <3>2. /\ r \in allowing /\ r.effect = "allow"
          /\ \A s \in allowing :
               s.effect = "allow" => Rules!Specificity(s) <= Rules!Specificity(r)
      BY <1>1, <2>1, <2>3, SelectedIsLast
    <3>3. \A s \in matching : s.effect # "deny"
      BY <2>3 DEF Rules!Effect
    <3>4. /\ Rules!IsHighRisk(q) => \A s \in allowing : Rules!IsManaged(s)
          /\ \A s \in matching : (Rules!IsHighRisk(q) => Rules!IsManaged(s)) => s \in allowing
      BY DEF Rules!Deciding
    <3> HIDE DEF r, e
    <3>5. by = {r}
      BY <1>1, <2>1, <3>1, <3>2 DEF RuleSet
    <3>6. DecidedWell(q, e, matching, by)
      <4> HIDE DEF by, matching, allowing
      <4> QED BY <2>1, <3>1, <3>2, <3>3, <3>4, <3>5 DEF DecidedWell
    <3> QED BY <3>6 DEF e
  <2>4. CASE Rules!Effect("deny", matching) = {} /\ Rules!Effect("allow", allowing) = {}
    <3>1. e = [decision |-> "ApprovalRequired", rule |-> 0]
      BY <2>4 DEF Rules!Evaluate, Rules!Undecided
    <3>2. \A s \in matching : s.effect # "deny"
      BY <2>4 DEF Rules!Effect
    <3> HIDE DEF e
    <3>3. DecidedWell(q, e, matching, by)
      <4> HIDE DEF by, matching, allowing
      <4> QED BY <3>1, <3>2 DEF DecidedWell
    <3> QED BY <3>3 DEF e
  <2> QED BY <2>2, <2>3, <2>4
<1> QED BY <1>1, <1>2, <1>3, <1>4 DEF Rules!PolicyDecides, DecidedWell

\* A matching deny wins; what is of high risk is allowed by managed rules alone, by one
\* as specific as any; a decision that is remembered holds for its own request and for no
\* other, across restarts, and users change no managed rule.  For any rules and requests.
THEOREM PoliciesDecide == Rules!PolicySpec => []PolicyDecides
<1>1. Rules!PolicyInit => PolicyInv
  BY DEF Rules!PolicyInit, PolicyInv
<1>2. PolicyInv /\ [Rules!PolicyNext]_(Rules!policyVars) => PolicyInv'
  BY PolicyInvIsInductive
<1>3. PolicyInv => PolicyDecides
  BY PolicyInvDecides DEF PolicyDecides
<1> QED BY <1>1, <1>2, <1>3, PTL DEF Rules!PolicySpec

(***************************************************************************)
(* ProcessExecution: the caller sees all the output of a tool, of each     *)
(* pipe in its order, before the one event of its end.                     *)
(*                                                                         *)
(* A chunk of output is in one of three places: in the stream, in the      *)
(* channel, or still in its pipe.  Flow says that the three, one after the *)
(* other, are what was written to the pipe, and nothing else: the first    *)
(* chunk of a pipe in the channel is the one that comes after those in the *)
(* stream.  At the end the channel and the pipes are empty, since nobody   *)
(* holds a pipe whose reader has ended (EndFits).                          *)
(***************************************************************************)
Chunk == [kind : Process!Streams \cup {"None"}, payload : Nat]

SentEvent ==
  [sequence : Nat, kind : {"Started"} \cup Process!Streams \cup Process!TerminalKinds, payload : Nat]

StreamTypes ==
  /\ alive \subseteq Process!Processes
  /\ holders \in [Process!Streams -> SUBSET Process!Processes]
  /\ pipes \in [Process!Streams -> Seq(Nat)] /\ output \in [Process!Streams -> Seq(Nat)]
  /\ readers \in [Process!Streams -> BOOLEAN]
  /\ channel \in Seq(Chunk) /\ stream \in Seq(SentEvent)
  /\ runner \in [at : {"loop", "join", "rest", "done"}, closed : Nat, exited : BOOLEAN,
                 terminal : Process!TerminalKinds \cup {"none"}]

Flow(s, sent, waiting, pipe, out) ==
  LET n == Process!ChunksOf(s, sent, Len(sent))
      m == Process!ChunksOf(s, waiting, Len(waiting))
  IN /\ Len(out) = n + m + Len(pipe)
     /\ \A i \in 1 .. Len(sent) :
          sent[i].kind = s => sent[i].payload = out[Process!ChunksOf(s, sent, i)]
     /\ \A i \in 1 .. Len(waiting) :
          waiting[i].kind = s => waiting[i].payload = out[n + Process!ChunksOf(s, waiting, i)]
     /\ \A i \in 1 .. Len(pipe) : pipe[i] = out[n + m + i]

EventsFit ==
  /\ stream # <<>>
  /\ \A i \in 1 .. Len(stream) :
       /\ stream[i].sequence = i
       /\ stream[i].kind = "Started" <=> i = 1
       /\ stream[i].kind \in Process!TerminalKinds => i = Len(stream) /\ runner.at = "done"

EndFits ==
  /\ \A s \in Process!Streams : ~readers[s] => pipes[s] = <<>> /\ holders[s] = {}
  /\ runner.at = "loop" => runner.terminal = "none"
  /\ runner.at # "loop" => runner.terminal # "none" /\ "leader" \notin alive
  /\ runner.at \in {"rest", "done"} => \A s \in Process!Streams : ~readers[s]
  /\ runner.at = "done" => channel = <<>>
  /\ runner.exited => "leader" \notin alive
  /\ runner.terminal \in {"Cancelled", "TimedOut"} => alive \cap Process!Group = {}

AllFlow ==
  \A s \in Process!Streams : Flow(s, stream, channel, pipes[s], output[s])

StreamInv == StreamTypes /\ EventsFit /\ EndFits /\ AllFlow

-----------------------------------------------------------------------------
\* The chunks among the first n elements, counted one by one.
LEMMA SameChunks ==
  \A s, q, n : Process!ChunksOf(s, q, n) = Cardinality({k \in 1 .. n : q[k].kind = s})
BY DEF Process!ChunksOf, Process!Cardinality, Cardinality

LEMMA ChunksAreCounted ==
  ASSUME NEW s, NEW q, NEW n \in Nat
  PROVE  /\ Process!ChunksOf(s, q, n) \in Nat
         /\ Process!ChunksOf(s, q, 0) = 0
         /\ q[n + 1].kind = s => Process!ChunksOf(s, q, n + 1) = Process!ChunksOf(s, q, n) + 1
         /\ q[n + 1].kind # s => Process!ChunksOf(s, q, n + 1) = Process!ChunksOf(s, q, n)
<1> DEFINE S(k) == {i \in 1 .. k : q[i].kind = s}
<1>1. IsFiniteSet(S(n)) /\ Cardinality(S(n)) \in Nat
  <2>1. IsFiniteSet(1 .. n)
    BY FS_Interval
  <2>2. S(n) \in SUBSET (1 .. n)
    OBVIOUS
  <2>3. IsFiniteSet(S(n))
    <3> HIDE DEF S
    <3> QED BY <2>1, <2>2, FS_Subset
  <2> QED BY <2>3, FS_CardinalityType
<1>2. Cardinality(S(0)) = 0
  <2>1. S(0) = {}
    OBVIOUS
  <2> QED BY <2>1, FS_EmptySet
<1>3. Cardinality(S(n + 1)) = Cardinality(S(n)) + IF q[n + 1].kind = s THEN 1 ELSE 0
  <2>1. n + 1 \notin S(n)
    OBVIOUS
  <2>2. S(n + 1) = IF q[n + 1].kind = s THEN S(n) \cup {n + 1} ELSE S(n)
    <3>1. 1 .. (n + 1) = (1 .. n) \cup {n + 1}
      OBVIOUS
    <3> QED BY <3>1
  <2> HIDE DEF S
  <2>3. Cardinality(S(n) \cup {n + 1}) = Cardinality(S(n)) + 1
    BY <1>1, <2>1, FS_AddElement
  <2> QED BY <1>1, <2>2, <2>3
<1> QED BY <1>1, <1>2, <1>3, SameChunks

LEMMA ChunksGrow ==
  ASSUME NEW s, NEW q, NEW n \in Nat, NEW k \in 1 .. n
  PROVE  /\ Process!ChunksOf(s, q, k) <= Process!ChunksOf(s, q, n)
         /\ q[k].kind = s => Process!ChunksOf(s, q, k) \in 1 .. Process!ChunksOf(s, q, n)
<1> DEFINE S(j) == {i \in 1 .. j : q[i].kind = s}
<1>1. \A j \in {k, n} : IsFiniteSet(S(j)) /\ Cardinality(S(j)) \in Nat
  <2> SUFFICES ASSUME NEW j \in Nat PROVE IsFiniteSet(S(j)) /\ Cardinality(S(j)) \in Nat
    OBVIOUS
  <2>1. IsFiniteSet(1 .. j) /\ S(j) \in SUBSET (1 .. j)
    BY FS_Interval
  <2> HIDE DEF S
  <2> QED BY <2>1, FS_Subset, FS_CardinalityType
<1>2. S(k) \in SUBSET S(n)
  OBVIOUS
<1>3. q[k].kind = s => S(k) # {}
  OBVIOUS
<1>4. Process!ChunksOf(s, q, k) = Cardinality(S(k)) /\ Process!ChunksOf(s, q, n) = Cardinality(S(n))
  BY SameChunks
<1> HIDE DEF S
<1>5. Cardinality(S(k)) <= Cardinality(S(n))
  BY <1>1, <1>2, FS_Subset
<1>6. q[k].kind = s => Cardinality(S(k)) # 0
  BY <1>1, <1>3, FS_EmptySet
<1> QED BY <1>1, <1>4, <1>5, <1>6

\* What comes later does not count.
LEMMA ChunksBefore ==
  ASSUME NEW s, NEW q, NEW r, NEW n \in Nat, \A k \in 1 .. n : q[k].kind = r[k].kind
  PROVE  Process!ChunksOf(s, q, n) = Process!ChunksOf(s, r, n)
<1>1. {k \in 1 .. n : q[k].kind = s} = {k \in 1 .. n : r[k].kind = s}
  OBVIOUS
<1> QED BY <1>1, SameChunks

\* Without its first element, a channel counts one less if that was of the pipe.
LEMMA ChunksOfTail ==
  ASSUME NEW s, NEW q \in Seq(Chunk), q # <<>>, NEW n \in 0 .. Len(q) - 1
  PROVE  Process!ChunksOf(s, q, n + 1) =
           Process!ChunksOf(s, Tail(q), n) + IF q[1].kind = s THEN 1 ELSE 0
<1> DEFINE S == {k \in 1 .. n : Tail(q)[k].kind = s}
           T == {k \in 2 .. n + 1 : q[k].kind = s}
           f == [k \in S |-> k + 1]
<1>1. \A k \in 1 .. n : Tail(q)[k] = q[k + 1]
  OBVIOUS
<1>2. IsFiniteSet(S) /\ Cardinality(S) \in Nat
  <2>1. IsFiniteSet(1 .. n) /\ S \in SUBSET (1 .. n)
    BY FS_Interval
  <2> HIDE DEF S
  <2> QED BY <2>1, FS_Subset, FS_CardinalityType
<1>3. f \in Bijection(S, T)
  <2>1. \A k \in S : k \in Int /\ f[k] = k + 1 /\ f[k] \in T
    BY <1>1
  <2>2. \A j \in T : j - 1 \in S /\ f[j - 1] = j
    <3> TAKE j \in T
    <3>1. j - 1 \in 1 .. n /\ q[(j - 1) + 1] = q[j] /\ q[j].kind = s
      OBVIOUS
    <3>2. j - 1 \in S
      BY <1>1, <3>1
    <3> QED BY <2>1, <3>2
  <2>3. f \in [S -> T]
    BY <2>1
  <2> HIDE DEF S, T, f
  <2> QED BY <2>1, <2>2, <2>3 DEF Bijection, Injection, Surjection, IsInjective
<1>4. IsFiniteSet(T) /\ Cardinality(T) = Cardinality(S)
  <2> HIDE DEF S, T, f
  <2> QED BY <1>2, <1>3, FS_Bijection DEF ExistsBijection
<1>5. {k \in 1 .. n + 1 : q[k].kind = s} = IF q[1].kind = s THEN T \cup {1} ELSE T
  <2>1. 1 .. n + 1 = (2 .. n + 1) \cup {1}
    OBVIOUS
  <2> QED BY <2>1
<1>6. 1 \notin T
  OBVIOUS
<1>7. Process!ChunksOf(s, Tail(q), n) = Cardinality(S)
  BY SameChunks
<1> HIDE DEF S, T
<1>8. Cardinality(T \cup {1}) = Cardinality(T) + 1
  BY <1>4, <1>6, FS_AddElement
<1> QED BY <1>2, <1>4, <1>5, <1>7, <1>8, SameChunks

-----------------------------------------------------------------------------
\* A chunk is written: it is the last in its pipe.
LEMMA WrittenFlows ==
  ASSUME NEW s, NEW sent, NEW waiting, NEW pipe \in Seq(Nat), NEW out \in Seq(Nat), NEW x \in Nat,
         Len(sent) \in Nat, Len(waiting) \in Nat, Flow(s, sent, waiting, pipe, out)
  PROVE  Flow(s, sent, waiting, Append(pipe, x), Append(out, x))
<1> DEFINE n == Process!ChunksOf(s, sent, Len(sent))
           m == Process!ChunksOf(s, waiting, Len(waiting))
           later == Append(out, x)
<1>1. n \in Nat /\ m \in Nat /\ Len(out) = n + m + Len(pipe)
  BY ChunksAreCounted DEF Flow
<1>2. later \in Seq(Nat) /\ Len(later) = Len(out) + 1 /\ later[Len(out) + 1] = x
  OBVIOUS
<1>3. \A i \in 1 .. Len(out) : later[i] = out[i]
  OBVIOUS
<1>4. \A i \in 1 .. Len(sent) : sent[i].kind = s => sent[i].payload = later[Process!ChunksOf(s, sent, i)]
  <2> SUFFICES ASSUME NEW i \in 1 .. Len(sent), sent[i].kind = s
               PROVE  sent[i].payload = later[Process!ChunksOf(s, sent, i)]
    OBVIOUS
  <2>1. Process!ChunksOf(s, sent, i) \in 1 .. n
    BY ChunksGrow
  <2>2. sent[i].payload = out[Process!ChunksOf(s, sent, i)]
    BY DEF Flow
  <2> HIDE DEF n, m, later
  <2> QED BY <1>1, <1>3, <2>1, <2>2
<1>5. \A i \in 1 .. Len(waiting) :
        waiting[i].kind = s => waiting[i].payload = later[n + Process!ChunksOf(s, waiting, i)]
  <2> SUFFICES ASSUME NEW i \in 1 .. Len(waiting), waiting[i].kind = s
               PROVE  waiting[i].payload = later[n + Process!ChunksOf(s, waiting, i)]
    OBVIOUS
  <2>1. Process!ChunksOf(s, waiting, i) \in 1 .. m
    BY ChunksGrow
  <2>2. waiting[i].payload = out[n + Process!ChunksOf(s, waiting, i)]
    BY DEF Flow
  <2> HIDE DEF n, m, later
  <2> QED BY <1>1, <1>3, <2>1, <2>2
<1>6. \A i \in 1 .. Len(Append(pipe, x)) : Append(pipe, x)[i] = later[n + m + i]
  <2>1. \A i \in 1 .. Len(pipe) : pipe[i] = out[n + m + i]
    BY DEF Flow
  <2> HIDE DEF n, m, later
  <2> QED BY <1>1, <1>2, <1>3, <2>1
<1>7. Len(later) = n + m + Len(Append(pipe, x))
  <2> HIDE DEF n, m, later
  <2> QED BY <1>1, <1>2
<1> QED BY <1>4, <1>5, <1>6, <1>7 DEF Flow

\* A reader takes the first chunk of its pipe into the channel, or tells it that the pipe is
\* closed; what the reader of the other pipe does is no matter.
LEMMA ReadFlows ==
  ASSUME NEW s, NEW sent, NEW waiting \in Seq(Chunk), NEW e \in Chunk,
         NEW pipe \in Seq(Nat), NEW rest \in Seq(Nat), NEW out,
         Len(sent) \in Nat, Flow(s, sent, waiting, pipe, out),
         IF e.kind = s THEN pipe # <<>> /\ e.payload = Head(pipe) /\ rest = Tail(pipe)
         ELSE rest = pipe
  PROVE  Flow(s, sent, Append(waiting, e), rest, out)
<1> DEFINE n == Process!ChunksOf(s, sent, Len(sent))
           m == Process!ChunksOf(s, waiting, Len(waiting))
           more == Append(waiting, e)
           k == Len(waiting)
<1>1. n \in Nat /\ m \in Nat /\ k \in Nat /\ Len(out) = n + m + Len(pipe)
  BY ChunksAreCounted DEF Flow
<1>2. more \in Seq(Chunk) /\ Len(more) = k + 1 /\ more[k + 1] = e /\ \A i \in 1 .. k : more[i] = waiting[i]
  OBVIOUS
<1>3. \A i \in 0 .. k : Process!ChunksOf(s, more, i) = Process!ChunksOf(s, waiting, i)
  <2> TAKE i \in 0 .. k
  <2>1. i \in Nat /\ \A j \in 1 .. i : more[j].kind = waiting[j].kind
    OBVIOUS
  <2> HIDE DEF more
  <2> QED BY <2>1, ChunksBefore
<1>4. Process!ChunksOf(s, more, k + 1) = m + IF e.kind = s THEN 1 ELSE 0
  <2> HIDE DEF more, k
  <2>1. Process!ChunksOf(s, more, k) = Process!ChunksOf(s, waiting, k)
    BY <1>1, <1>3
  <2>2. k \in Nat
    BY <1>1
  <2>3. /\ more[k + 1].kind = s => Process!ChunksOf(s, more, k + 1) = Process!ChunksOf(s, more, k) + 1
        /\ more[k + 1].kind # s => Process!ChunksOf(s, more, k + 1) = Process!ChunksOf(s, more, k)
    BY <2>2, ChunksAreCounted
  <2> QED BY <1>1, <1>2, <2>1, <2>3 DEF k
<1>5. \A i \in 1 .. k + 1 :
        more[i].kind = s => more[i].payload = out[n + Process!ChunksOf(s, more, i)]
  <2> SUFFICES ASSUME NEW i \in 1 .. k + 1, more[i].kind = s
               PROVE  more[i].payload = out[n + Process!ChunksOf(s, more, i)]
    OBVIOUS
  <2>1. CASE i \in 1 .. k
    <3>1. waiting[i].kind = s => waiting[i].payload = out[n + Process!ChunksOf(s, waiting, i)]
      BY <2>1 DEF Flow
    <3>2. i \in 0 .. k
      BY <1>1, <2>1
    <3> HIDE DEF more, n, m, k
    <3> QED BY <1>2, <1>3, <2>1, <3>1, <3>2
  <2>2. CASE i = k + 1
    <3>1. e.kind = s
      BY <1>2, <2>2
    <3>2. pipe # <<>> /\ e.payload = pipe[1] /\ 1 \in 1 .. Len(pipe)
      BY <3>1
    <3>3. pipe[1] = out[n + m + 1]
      BY <3>2 DEF Flow
    <3>4. Process!ChunksOf(s, more, i) = m + 1
      BY <1>4, <2>2, <3>1
    <3> HIDE DEF more, n, m, k
    <3>5. n + m + 1 = n + (m + 1)
      BY <1>1
    <3> QED BY <1>2, <2>2, <3>2, <3>3, <3>4, <3>5
  <2> HIDE DEF more, n, m, k
  <2> QED BY <1>1, <2>1, <2>2
<1>6. \A i \in 1 .. Len(rest) : rest[i] = out[n + Process!ChunksOf(s, more, k + 1) + i]
  <2>1. \A i \in 1 .. Len(pipe) : pipe[i] = out[n + m + i]
    BY DEF Flow
  <2> HIDE DEF more, n, m, k
  <2>2. CASE e.kind = s
    <3>1. rest = Tail(pipe) /\ pipe # <<>>
      BY <2>2
    <3>2. /\ Len(rest) = Len(pipe) - 1 /\ Len(pipe) \in Nat
          /\ \A i \in 1 .. Len(pipe) - 1 : rest[i] = pipe[i + 1]
      BY <3>1
    <3> TAKE i \in 1 .. Len(rest)
    <3>3. i + 1 \in 1 .. Len(pipe) /\ n + m + (i + 1) = n + (m + 1) + i
      BY <1>1, <3>2
    <3>4. rest[i] = out[n + m + (i + 1)]
      BY <2>1, <3>2, <3>3
    <3> QED BY <1>4, <2>2, <3>3, <3>4
  <2>3. CASE e.kind # s
    BY <1>1, <1>4, <2>1, <2>3
  <2> QED BY <2>2, <2>3
<1>7. Len(out) = n + Process!ChunksOf(s, more, k + 1) + Len(rest)
  <2> HIDE DEF more, n, m, k
  <2>2. CASE e.kind = s
    <3>1. Len(rest) = Len(pipe) - 1 /\ Len(pipe) \in Nat
      BY <2>2
    <3> QED BY <1>1, <1>4, <2>2, <3>1
  <2>3. CASE e.kind # s
    BY <1>1, <1>4, <2>3
  <2> QED BY <2>2, <2>3
<1>8. \A i \in 1 .. Len(sent) : sent[i].kind = s => sent[i].payload = out[Process!ChunksOf(s, sent, i)]
  BY DEF Flow
<1>9. Flow(s, sent, more, rest, out)
  <2>1. Len(more) = k + 1
    BY <1>2
  <2> HIDE DEF more, k
  <2> QED BY <1>5, <1>6, <1>7, <1>8, <2>1 DEF Flow
<1> QED BY <1>9

\* What is received is sent on if it is a chunk: the first in the channel is the next of its pipe.
LEMMA ReceivedFlows ==
  ASSUME NEW s \in Process!Streams, NEW sent \in Seq(SentEvent), NEW waiting \in Seq(Chunk),
         waiting # <<>>, NEW e \in SentEvent, NEW sent2 \in Seq(SentEvent), NEW pipe, NEW out,
         Len(pipe) \in Nat, Flow(s, sent, waiting, pipe, out),
         IF Head(waiting).kind = "None" THEN sent2 = sent
         ELSE /\ sent2 = Append(sent, e)
              /\ e.kind = Head(waiting).kind /\ e.payload = Head(waiting).payload
  PROVE  Flow(s, sent2, Tail(waiting), pipe, out)
<1> DEFINE n == Process!ChunksOf(s, sent, Len(sent))
           m == Process!ChunksOf(s, waiting, Len(waiting))
           rest == Tail(waiting)
           one == IF waiting[1].kind = s THEN 1 ELSE 0
           k == Len(rest)
<1>1. /\ Len(sent) \in Nat /\ Len(waiting) \in Nat /\ k \in Nat /\ Len(waiting) = k + 1
      /\ \A i \in 1 .. k : rest[i] = waiting[i + 1]
      /\ Head(waiting) = waiting[1] /\ 1 \in 1 .. Len(waiting)
  OBVIOUS
<1>2. n \in Nat /\ m \in Nat /\ one \in {0, 1} /\ Len(out) = n + m + Len(pipe)
  BY <1>1, ChunksAreCounted DEF Flow
<1>3. \A i \in 0 .. k : /\ Process!ChunksOf(s, waiting, i + 1) = Process!ChunksOf(s, rest, i) + one
                        /\ Process!ChunksOf(s, rest, i) \in Nat
  <2> TAKE i \in 0 .. k
  <2>1. i \in 0 .. Len(waiting) - 1 /\ i \in Nat
    BY <1>1
  <2> HIDE DEF k
  <2>2. Process!ChunksOf(s, waiting, i + 1) = Process!ChunksOf(s, rest, i) + one
    BY <2>1, ChunksOfTail
  <2>3. Process!ChunksOf(s, rest, i) \in Nat
    BY <2>1, ChunksAreCounted
  <2> QED BY <2>2, <2>3
<1>4. m = Process!ChunksOf(s, rest, k) + one
  <2>1. k \in 0 .. k
    BY <1>1
  <2>2. Process!ChunksOf(s, waiting, k + 1) = Process!ChunksOf(s, rest, k) + one
    BY <1>3, <2>1
  <2> QED BY <1>1, <2>2
<1>5. \A i \in 1 .. Len(sent) : Process!ChunksOf(s, sent2, i) = Process!ChunksOf(s, sent, i)
  <2> TAKE i \in 1 .. Len(sent)
  <2>1. i \in Nat /\ \A j \in 1 .. i : sent2[j].kind = sent[j].kind
    OBVIOUS
  <2> QED BY <2>1, ChunksBefore
<1>6. Process!ChunksOf(s, sent2, Len(sent2)) = n + one
  <2>1. CASE waiting[1].kind = "None"
    BY <1>1, <1>2, <2>1 DEF Process!Streams
  <2>2. CASE waiting[1].kind # "None"
    <3> DEFINE l == Len(sent)
    <3>1. l \in Nat /\ Len(sent2) = l + 1 /\ sent2[l + 1] = e /\ e.kind = waiting[1].kind
      BY <1>1, <2>2
    <3>2. Process!ChunksOf(s, sent2, l) = n
      <4>1. \A j \in 1 .. l : sent2[j].kind = sent[j].kind
        BY <1>1, <2>2
      <4> QED BY <3>1, <4>1, ChunksBefore
    <3>3. /\ e.kind = s => Process!ChunksOf(s, sent2, l + 1) = n + 1
          /\ e.kind # s => Process!ChunksOf(s, sent2, l + 1) = n
      <4>1. l \in Nat
        BY <3>1
      <4> HIDE DEF l, n
      <4> QED BY <3>1, <3>2, <4>1, ChunksAreCounted
    <3> QED BY <1>2, <3>1, <3>3
  <2> QED BY <2>1, <2>2
<1>7. Len(out) = (n + one) + Process!ChunksOf(s, rest, k) + Len(pipe)
  <2>1. Process!ChunksOf(s, rest, k) \in Nat
    BY <1>1, <1>3
  <2> HIDE DEF n, m, one, k, rest
  <2> QED BY <1>2, <1>4, <2>1
<1>8. \A i \in 1 .. Len(sent2) : sent2[i].kind = s => sent2[i].payload = out[Process!ChunksOf(s, sent2, i)]
  <2> SUFFICES ASSUME NEW i \in 1 .. Len(sent2), sent2[i].kind = s
               PROVE  sent2[i].payload = out[Process!ChunksOf(s, sent2, i)]
    OBVIOUS
  <2>1. CASE i \in 1 .. Len(sent)
    <3>1. sent2[i] = sent[i]
      BY <2>1
    <3>2. sent[i].kind = s => sent[i].payload = out[Process!ChunksOf(s, sent, i)]
      BY <2>1 DEF Flow
    <3> QED BY <1>5, <2>1, <3>1, <3>2
  <2>2. CASE i \notin 1 .. Len(sent)
    <3>1. waiting[1].kind # "None" /\ i = Len(sent2) /\ sent2[i] = e
      BY <1>1, <2>2
    <3>2. waiting[1].kind = s /\ e.payload = waiting[1].payload
      BY <1>1, <3>1
    <3>3. waiting[1].payload = out[n + Process!ChunksOf(s, waiting, 1)]
      BY <1>1, <3>2 DEF Flow
    <3>4. Process!ChunksOf(s, waiting, 1) = 1
      <4>1. Process!ChunksOf(s, rest, 0) = 0
        BY ChunksAreCounted
      <4>2. Process!ChunksOf(s, waiting, 0 + 1) = Process!ChunksOf(s, rest, 0) + one
        BY <1>1, <1>3
      <4> QED BY <3>2, <4>1, <4>2
    <3>5. Process!ChunksOf(s, sent2, i) = n + 1
      BY <1>6, <3>1, <3>2
    <3> QED BY <3>1, <3>2, <3>3, <3>4, <3>5
  <2> QED BY <2>1, <2>2
<1>9. \A i \in 1 .. k :
        rest[i].kind = s => rest[i].payload = out[(n + one) + Process!ChunksOf(s, rest, i)]
  <2> SUFFICES ASSUME NEW i \in 1 .. k, rest[i].kind = s
               PROVE  rest[i].payload = out[(n + one) + Process!ChunksOf(s, rest, i)]
    OBVIOUS
  <2>1. i + 1 \in 1 .. Len(waiting) /\ i \in 0 .. k /\ rest[i] = waiting[i + 1]
    BY <1>1
  <2>2. waiting[i + 1].payload = out[n + Process!ChunksOf(s, waiting, i + 1)]
    BY <2>1 DEF Flow
  <2> HIDE DEF n, m, one, k, rest
  <2>3. n + Process!ChunksOf(s, waiting, i + 1) = (n + one) + Process!ChunksOf(s, rest, i)
    BY <1>2, <1>3, <2>1
  <2> QED BY <2>1, <2>2, <2>3
<1>10. \A i \in 1 .. Len(pipe) : pipe[i] = out[(n + one) + Process!ChunksOf(s, rest, k) + i]
  <2> TAKE i \in 1 .. Len(pipe)
  <2>1. pipe[i] = out[n + m + i]
    BY DEF Flow
  <2>2. Process!ChunksOf(s, rest, k) \in Nat
    BY <1>1, <1>3
  <2> HIDE DEF n, m, one, k, rest
  <2>3. n + m + i = (n + one) + Process!ChunksOf(s, rest, k) + i
    BY <1>2, <1>4, <2>2
  <2> QED BY <2>1, <2>3
<1>11. Flow(s, sent2, rest, pipe, out)
  <2> HIDE DEF n, m, one, rest
  <2> QED BY <1>6, <1>7, <1>8, <1>9, <1>10 DEF Flow
<1> QED BY <1>11

\* An event that is no chunk changes nothing.
LEMMA EndFlows ==
  ASSUME NEW s \in Process!Streams, NEW sent \in Seq(SentEvent), NEW e \in SentEvent,
         NEW waiting, NEW pipe, NEW out, e.kind # s, Flow(s, sent, waiting, pipe, out)
  PROVE  Flow(s, Append(sent, e), waiting, pipe, out)
<1> DEFINE l == Len(sent)
           more == Append(sent, e)
<1>1. /\ l \in Nat /\ Len(more) = l + 1 /\ more[l + 1] = e
      /\ \A i \in 1 .. l : more[i] = sent[i]
  OBVIOUS
<1>2. \A i \in 0 .. l : Process!ChunksOf(s, more, i) = Process!ChunksOf(s, sent, i)
  <2> TAKE i \in 0 .. l
  <2>1. i \in Nat /\ \A j \in 1 .. i : more[j].kind = sent[j].kind
    OBVIOUS
  <2> HIDE DEF more
  <2> QED BY <2>1, ChunksBefore
<1>3. Process!ChunksOf(s, more, l + 1) = Process!ChunksOf(s, sent, l)
  <2> HIDE DEF more, l
  <2>1. l \in Nat
    BY <1>1
  <2>2. more[l + 1].kind # s => Process!ChunksOf(s, more, l + 1) = Process!ChunksOf(s, more, l)
    BY <2>1, ChunksAreCounted
  <2>3. Process!ChunksOf(s, more, l) = Process!ChunksOf(s, sent, l)
    BY <1>2, <2>1
  <2> QED BY <1>1, <2>2, <2>3
<1>4. \A i \in 1 .. l + 1 : more[i].kind = s => more[i].payload = out[Process!ChunksOf(s, more, i)]
  <2>1. \A i \in 1 .. l : sent[i].kind = s => sent[i].payload = out[Process!ChunksOf(s, sent, i)]
    BY DEF Flow
  <2> HIDE DEF more, l
  <2> QED BY <1>1, <1>2, <2>1
<1>5. Flow(s, more, waiting, pipe, out)
  <2> HIDE DEF more
  <2> QED BY <1>1, <1>3, <1>4 DEF Flow
<1> QED BY <1>5

-----------------------------------------------------------------------------
LEMMA ProcessStarts == Process!ProcessInit => StreamInv
<1> SUFFICES ASSUME Process!ProcessInit PROVE StreamInv
  OBVIOUS
<1> USE DEF Process!ProcessInit
<1>1. /\ stream = <<[sequence |-> 1, kind |-> "Started", payload |-> 0]>>
      /\ Len(stream) = 1 /\ stream[1].kind = "Started"
  BY DEF Process!Event
<1>2. StreamTypes
  BY <1>1 DEF StreamTypes, SentEvent, Chunk, Process!Processes, Process!Group, Process!Streams
<1>3. EventsFit
  BY <1>1 DEF EventsFit, Process!TerminalKinds
<1>4. EndFits
  BY DEF EndFits
<1>5. AllFlow
  <2> SUFFICES ASSUME NEW s \in Process!Streams PROVE Flow(s, stream, <<>>, <<>>, <<>>)
    BY DEF AllFlow
  <2>1. s # "Started"
    BY DEF Process!Streams
  <2>2. Process!ChunksOf(s, stream, 0) = 0 /\ Process!ChunksOf(s, <<>>, 0) = 0
    BY ChunksAreCounted
  <2>3. Process!ChunksOf(s, stream, 1) = 0
    <3>1. stream[0 + 1].kind # s
      BY <1>1, <2>1
    <3>2. Process!ChunksOf(s, stream, 0 + 1) = Process!ChunksOf(s, stream, 0)
      BY <3>1, ChunksAreCounted
    <3> QED BY <2>2, <3>2
  <2> HIDE DEF Process!ProcessInit
  <2> QED BY <1>1, <2>1, <2>2, <2>3 DEF Flow
<1> QED BY <1>2, <1>3, <1>4, <1>5 DEF StreamInv

\* The processes, their caller and the clock: a pipe whose reader has ended has nobody left
\* to hand it on, and a group that was killed has nobody left to start a member.
LEMMA ProcessesKeepStreamInv ==
  ASSUME StreamInv,
         \/ Process!Fork \/ Process!Write \/ Process!CloseOutput \/ Process!Exit
         \/ Process!Cancel \/ Process!Elapse
  PROVE  StreamInv'
<1> USE DEF StreamInv
<1>1. CASE Process!Fork
  <2> USE <1>1 DEF Process!Fork
  <2>1. StreamTypes'
    BY DEF StreamTypes
  <2>2. EventsFit' /\ AllFlow'
    BY DEF EventsFit, AllFlow
  <2>3. \A s \in Process!Streams : holders[s] = {} => holders'[s] = {}
    BY DEF StreamTypes
  <2>4. EndFits'
    <3>1. "leader" \notin alive => "leader" \notin alive'
      OBVIOUS
    <3>2. alive \cap Process!Group = {} => alive' \cap Process!Group = {}
      BY DEF StreamTypes, Process!Processes, Process!Group
    <3> QED BY <2>3, <3>1, <3>2 DEF EndFits
  <2> QED BY <2>1, <2>2, <2>4
<1>2. CASE Process!Write
  <2> USE <1>2 DEF Process!Write
  <2>1. PICK s \in Process!Streams :
          /\ holders[s] # {}
          /\ pipes' = [pipes EXCEPT ![s] = Append(@, Process!Written + 1)]
          /\ output' = [output EXCEPT ![s] = Append(@, Process!Written + 1)]
    OBVIOUS
  <2>2. Process!Written + 1 \in Nat
    BY DEF Process!Written, StreamTypes, Process!Streams
  <2>3. StreamTypes'
    BY <2>1, <2>2 DEF StreamTypes
  <2>4. EventsFit'
    BY DEF EventsFit
  <2>5. EndFits'
    BY <2>1 DEF EndFits, StreamTypes
  <2>6. ASSUME NEW t \in Process!Streams
        PROVE  Flow(t, stream, channel, pipes'[t], output'[t])
    <3>1. Flow(t, stream, channel, pipes[t], output[t])
      BY DEF AllFlow
    <3>2. /\ pipes[t] \in Seq(Nat) /\ output[t] \in Seq(Nat)
          /\ Len(stream) \in Nat /\ Len(channel) \in Nat
      BY DEF StreamTypes
    <3>3. t = s => /\ pipes'[t] = Append(pipes[t], Process!Written + 1)
                   /\ output'[t] = Append(output[t], Process!Written + 1)
      BY <2>1 DEF StreamTypes
    <3>4. t # s => pipes'[t] = pipes[t] /\ output'[t] = output[t]
      BY <2>1 DEF StreamTypes
    <3> HIDE DEF Process!Write, StreamInv
    <3> QED BY <2>2, <3>1, <3>2, <3>3, <3>4, WrittenFlows
  <2>7. AllFlow'
    BY <2>6 DEF AllFlow
  <2> QED BY <2>3, <2>4, <2>5, <2>7
<1>3. CASE Process!CloseOutput \/ Process!Exit
  <2>1. /\ UNCHANGED <<pipes, output, readers, channel, runner, stream>>
        /\ alive' \subseteq alive /\ holders' \in [Process!Streams -> SUBSET Process!Processes]
        /\ \A s \in Process!Streams : holders'[s] \subseteq holders[s]
    <3>1. CASE Process!CloseOutput
      BY <3>1 DEF Process!CloseOutput, StreamTypes
    <3>2. CASE Process!Exit
      BY <3>2 DEF Process!Exit, Process!Dead, StreamTypes
    <3> QED BY <1>3, <3>1, <3>2
  <2>2. StreamTypes'
    BY <2>1 DEF StreamTypes
  <2>3. EventsFit' /\ AllFlow'
    BY <2>1 DEF EventsFit, AllFlow
  <2>4. EndFits'
    BY <2>1 DEF EndFits
  <2> QED BY <2>2, <2>3, <2>4
<1>4. CASE Process!Cancel \/ Process!Elapse
  <2>1. UNCHANGED <<alive, holders, pipes, output, readers, channel, runner, stream>>
    BY <1>4 DEF Process!Cancel, Process!Elapse
  <2> QED BY <2>1 DEF StreamTypes, EventsFit, EndFits, AllFlow
<1> QED BY <1>1, <1>2, <1>3, <1>4

\* A reader ends when nobody holds its pipe and the pipe is empty.
LEMMA ReadStreamKeepsStreamInv ==
  ASSUME StreamInv, Process!ReadStream
  PROVE  StreamInv'
<1> USE DEF StreamInv
<1>1. UNCHANGED <<alive, holders, output, runner, stream>>
  BY DEF Process!ReadStream
<1>2. PICK s \in Process!Streams :
        /\ readers[s]
        /\ \/ /\ pipes[s] # <<>>
              /\ channel' = Append(channel, [kind |-> s, payload |-> Head(pipes[s])])
              /\ pipes' = [pipes EXCEPT ![s] = Tail(@)]
              /\ UNCHANGED readers
           \/ /\ pipes[s] = <<>> /\ holders[s] = {}
              /\ channel' = Append(channel, [kind |-> "None", payload |-> 0])
              /\ readers' = [readers EXCEPT ![s] = FALSE]
              /\ UNCHANGED pipes
  BY DEF Process!ReadStream
<1> DEFINE e == IF pipes[s] # <<>> THEN [kind |-> s, payload |-> Head(pipes[s])]
                ELSE [kind |-> "None", payload |-> 0]
<1>3. e \in Chunk /\ channel' = Append(channel, e)
  <2>1. pipes[s] \in Seq(Nat)
    BY DEF StreamTypes
  <2> QED BY <1>2, <2>1 DEF Chunk
<1>4. IF pipes[s] # <<>>
      THEN /\ e.kind = s /\ e.payload = Head(pipes[s])
           /\ pipes' = [pipes EXCEPT ![s] = Tail(@)] /\ readers' = readers
      ELSE /\ e.kind = "None" /\ pipes' = pipes /\ holders[s] = {}
           /\ readers' = [readers EXCEPT ![s] = FALSE]
  BY <1>2
<1> HIDE DEF e
<1>5. StreamTypes'
  <2>1. pipes' \in [Process!Streams -> Seq(Nat)]
    <3>1. pipes[s] # <<>> => Tail(pipes[s]) \in Seq(Nat)
      BY DEF StreamTypes
    <3> QED BY <1>4, <3>1 DEF StreamTypes
  <2>2. readers' \in [Process!Streams -> BOOLEAN]
    BY <1>4 DEF StreamTypes
  <2>3. channel' \in Seq(Chunk)
    BY <1>3 DEF StreamTypes
  <2> QED BY <1>1, <2>1, <2>2, <2>3 DEF StreamTypes
<1>6. EventsFit'
  BY <1>1 DEF EventsFit
<1>7. EndFits'
  <2>1. \A t \in Process!Streams : ~readers'[t] => pipes'[t] = <<>> /\ holders'[t] = {}
    BY <1>1, <1>2, <1>4 DEF EndFits, StreamTypes
  <2>2. runner.at \notin {"rest", "done"}
    BY <1>2 DEF EndFits
  <2> QED BY <1>1, <2>1, <2>2 DEF EndFits
<1>8. ASSUME NEW t \in Process!Streams
      PROVE  Flow(t, stream, channel', pipes'[t], output[t])
  <2>1. Flow(t, stream, channel, pipes[t], output[t])
    BY DEF AllFlow
  <2>2. pipes[t] \in Seq(Nat) /\ pipes'[t] \in Seq(Nat) /\ Len(stream) \in Nat /\ channel \in Seq(Chunk)
    BY <1>5 DEF StreamTypes
  <2>3. IF e.kind = t THEN pipes[t] # <<>> /\ e.payload = Head(pipes[t]) /\ pipes'[t] = Tail(pipes[t])
        ELSE pipes'[t] = pipes[t]
    BY <1>4 DEF StreamTypes, Process!Streams
  <2> HIDE DEF StreamInv
  <2> QED BY <1>3, <2>1, <2>2, <2>3, ReadFlows
<1>9. AllFlow'
  BY <1>1, <1>8 DEF AllFlow
<1> QED BY <1>5, <1>6, <1>7, <1>9

\* An event is sent on: numbered by its place, a start is none, and an end is the last.
LEMMA SentFits ==
  ASSUME StreamInv, NEW kind, NEW payload \in Nat,
         kind \in Process!Streams \cup Process!TerminalKinds, runner.at # "done",
         stream' = Append(stream, Process!Event(stream, kind, payload)),
         kind \in Process!TerminalKinds => runner'.at = "done"
  PROVE  /\ Process!Event(stream, kind, payload) \in SentEvent
         /\ stream' \in Seq(SentEvent) /\ EventsFit'
<1> DEFINE e == Process!Event(stream, kind, payload)
           l == Len(stream)
<1>1. /\ e.sequence = l + 1 /\ e.kind = kind /\ e \in SentEvent
      /\ stream \in Seq(SentEvent) /\ l \in Nat \ {0}
  BY DEF Process!Event, SentEvent, StreamInv, StreamTypes, EventsFit
<1>2. kind # "Started"
  BY DEF Process!Streams, Process!TerminalKinds
<1>3. stream' = Append(stream, e)
  OBVIOUS
<1> HIDE DEF e
<1>4. /\ stream' \in Seq(SentEvent) /\ stream' # <<>> /\ Len(stream') = l + 1
      /\ stream'[l + 1] = e /\ \A i \in 1 .. l : stream'[i] = stream[i]
  BY <1>1, <1>3
<1>5. ASSUME NEW i \in 1 .. l + 1
      PROVE  /\ stream'[i].sequence = i
             /\ stream'[i].kind = "Started" <=> i = 1
             /\ stream'[i].kind \in Process!TerminalKinds => i = l + 1 /\ runner'.at = "done"
  <2>1. CASE i \in 1 .. l
    BY <1>4, <2>1 DEF StreamInv, EventsFit
  <2>2. CASE i = l + 1
    BY <1>1, <1>2, <1>4, <2>2
  <2> QED BY <1>1, <2>1, <2>2
<1>6. EventsFit'
  BY <1>4, <1>5 DEF EventsFit
<1> QED BY <1>1, <1>4, <1>6 DEF e

LEMMA ReceiveKeepsStreamInv ==
  ASSUME StreamInv, Process!Receive
  PROVE  StreamInv'
<1> USE DEF StreamInv
<1> DEFINE kind == Head(channel).kind
           payload == Head(channel).payload
           e == Process!Event(stream, kind, payload)
<1>1. /\ runner.at \in {"loop", "rest"} /\ channel # <<>> /\ channel' = Tail(channel)
      /\ UNCHANGED <<alive, holders, pipes, output, readers>>
      /\ IF kind = "None" THEN runner' = [runner EXCEPT !.closed = @ + 1] /\ UNCHANGED stream
         ELSE stream' = Append(stream, e) /\ UNCHANGED runner
  BY DEF Process!Receive
<1>2. /\ channel \in Seq(Chunk) /\ kind \in Process!Streams \cup {"None"} /\ payload \in Nat
      /\ channel' \in Seq(Chunk)
  <2>1. channel \in Seq(Chunk) /\ channel # <<>>
    BY <1>1 DEF StreamTypes
  <2>2. Head(channel) \in Chunk /\ Tail(channel) \in Seq(Chunk)
    BY <2>1
  <2> QED BY <1>1, <2>1, <2>2 DEF Chunk
<1>3. runner' \in [at : {"loop", "join", "rest", "done"}, closed : Nat, exited : BOOLEAN,
                   terminal : Process!TerminalKinds \cup {"none"}]
      /\ runner'.at = runner.at /\ runner'.exited = runner.exited
      /\ runner'.terminal = runner.terminal
  BY <1>1 DEF StreamTypes
<1>4. kind # "None" => e \in SentEvent /\ e.kind = kind /\ e.payload = payload
  BY <1>2 DEF Process!Event, SentEvent, StreamTypes
<1>5. stream' \in Seq(SentEvent) /\ EventsFit'
  <2>1. CASE kind = "None"
    BY <1>1, <1>3, <2>1 DEF StreamTypes, EventsFit
  <2>2. CASE kind # "None"
    <3>1. kind \in Process!Streams /\ runner.at # "done"
          /\ (kind \in Process!TerminalKinds => runner'.at = "done")
      BY <1>1, <1>2, <2>2 DEF Process!Streams, Process!TerminalKinds
    <3> HIDE DEF kind, payload, StreamInv
    <3> QED BY <1>1, <1>2, <2>2, <3>1, SentFits DEF StreamInv
  <2> QED BY <2>1, <2>2
<1>6. StreamTypes'
  BY <1>1, <1>2, <1>3, <1>5 DEF StreamTypes
<1>7. EndFits'
  BY <1>1, <1>3 DEF EndFits
<1>8. ASSUME NEW s \in Process!Streams
      PROVE  Flow(s, stream', Tail(channel), pipes[s], output[s])
  <2>1. Flow(s, stream, channel, pipes[s], output[s])
    BY DEF AllFlow
  <2>2. Len(pipes[s]) \in Nat /\ stream \in Seq(SentEvent)
    BY DEF StreamTypes
  <2>3. CASE kind = "None"
    <3>1. [sequence |-> 0, kind |-> "Started", payload |-> 0] \in SentEvent
      BY DEF SentEvent
    <3> QED BY <1>1, <1>2, <1>5, <2>1, <2>2, <2>3, <3>1, ReceivedFlows
  <2>4. CASE kind # "None"
    <3> HIDE DEF e, StreamInv
    <3> QED BY <1>1, <1>2, <1>4, <1>5, <2>1, <2>2, <2>4, ReceivedFlows
  <2> QED BY <2>3, <2>4
<1>9. AllFlow'
  BY <1>1, <1>8 DEF AllFlow
<1> QED BY <1>5, <1>6, <1>7, <1>9

\* The thread that runs the tool: it goes on only when the leader has ended, by itself or
\* killed with its group, and it ends only after the readers did and the channel is empty.
LEMMA RunnerKeepsStreamInv ==
  ASSUME StreamInv, Process!Look \/ Process!JoinReaders
  PROVE  StreamInv'
<1> USE DEF StreamInv
<1>1. UNCHANGED <<pipes, output, readers, channel, stream>>
  BY DEF Process!Look, Process!JoinReaders
<1>2. EventsFit' /\ runner.at \in {"loop", "join"}
  <2>1. runner.at \in {"loop", "join"}
    BY DEF Process!Look, Process!JoinReaders
  <2> QED BY <1>1, <2>1 DEF EventsFit
<1>3. AllFlow'
  BY <1>1 DEF AllFlow
<1>4. CASE Process!JoinReaders
  <2>1. /\ runner' = [runner EXCEPT !.at = "rest"] /\ UNCHANGED <<alive, holders>>
        /\ runner.at = "join" /\ \A s \in Process!Streams : ~readers[s]
    BY <1>4 DEF Process!JoinReaders
  <2>2. StreamTypes'
    BY <1>1, <2>1 DEF StreamTypes
  <2>3. EndFits'
    BY <1>1, <2>1 DEF EndFits, StreamTypes
  <2> QED BY <1>2, <1>3, <2>2, <2>3
<1>5. ASSUME NEW terminal \in {"Cancelled", "TimedOut"}, Process!KillGroup(terminal)
      PROVE  StreamInv'
  <2>1. /\ alive' = alive \ Process!Group
        /\ holders' = [s \in Process!Streams |-> holders[s] \ Process!Group]
        /\ runner' = [runner EXCEPT !.at = "join", !.terminal = terminal]
    BY <1>5 DEF Process!KillGroup, Process!Dead
  <2>2. StreamTypes'
    BY <1>1, <2>1 DEF StreamTypes, Process!TerminalKinds
  <2>3. EndFits'
    BY <1>1, <2>1 DEF EndFits, StreamTypes, Process!Group
  <2> QED BY <1>2, <1>3, <2>2, <2>3
<1>6. CASE Process!Look /\ ~cancelled /\ ~late
  <2>1. /\ UNCHANGED <<alive, holders>> /\ runner.at = "loop"
        /\ runner' = IF Process!HasExited /\ runner.closed = 2
                     THEN [runner EXCEPT !.exited = TRUE, !.at = "join", !.terminal = "Exited"]
                     ELSE [runner EXCEPT !.exited = Process!HasExited]
    BY <1>6 DEF Process!Look
  <2>2. Process!HasExited \in BOOLEAN /\ (Process!HasExited => "leader" \notin alive)
    BY DEF Process!HasExited, StreamTypes, EndFits
  <2>3. StreamTypes'
    BY <1>1, <2>1, <2>2 DEF StreamTypes, Process!TerminalKinds
  <2>4. EndFits'
    <3>1. CASE Process!HasExited /\ runner.closed = 2
      <4>1. /\ runner'.at = "join" /\ runner'.terminal = "Exited"
        BY <2>1, <3>1 DEF StreamTypes
      <4> QED BY <1>1, <2>1, <2>2, <3>1, <4>1 DEF EndFits
    <3>2. CASE ~(Process!HasExited /\ runner.closed = 2)
      <4>1. /\ runner'.at = "loop" /\ runner'.terminal = runner.terminal
            /\ runner'.exited = Process!HasExited
        BY <2>1, <3>2 DEF StreamTypes
      <4> QED BY <1>1, <2>1, <2>2, <4>1 DEF EndFits
    <3> QED BY <3>1, <3>2
  <2> QED BY <1>2, <1>3, <2>3, <2>4
<1> QED BY <1>4, <1>5, <1>6 DEF Process!Look

LEMMA SendTerminalKeepsStreamInv ==
  ASSUME StreamInv, Process!SendTerminal
  PROVE  StreamInv'
<1> USE DEF StreamInv
<1> DEFINE e == Process!Event(stream, runner.terminal, 0)
<1>1. /\ runner.at = "rest" /\ channel = <<>> /\ stream' = Append(stream, e)
      /\ runner' = [runner EXCEPT !.at = "done"]
      /\ UNCHANGED <<alive, holders, pipes, output, readers, channel>>
  BY DEF Process!SendTerminal, Process!CanFinish
<1>2. /\ runner' \in [at : {"loop", "join", "rest", "done"}, closed : Nat, exited : BOOLEAN,
                      terminal : Process!TerminalKinds \cup {"none"}]
      /\ runner'.at = "done" /\ runner'.terminal = runner.terminal
      /\ runner'.exited = runner.exited
  BY <1>1 DEF StreamTypes
<1>3. runner.terminal \in Process!TerminalKinds /\ e.kind = runner.terminal
  BY <1>1 DEF StreamTypes, EndFits, Process!Event
<1>4. e \in SentEvent /\ stream' \in Seq(SentEvent) /\ EventsFit'
  <2> HIDE DEF StreamInv
  <2> QED BY <1>1, <1>2, <1>3, SentFits
<1>5. StreamTypes'
  BY <1>1, <1>2, <1>4 DEF StreamTypes
<1>6. EndFits'
  BY <1>1, <1>2 DEF EndFits
<1>7. ASSUME NEW s \in Process!Streams
      PROVE  Flow(s, stream', channel, pipes[s], output[s])
  <2>1. Flow(s, stream, channel, pipes[s], output[s]) /\ stream \in Seq(SentEvent)
    BY DEF AllFlow, StreamTypes
  <2>2. e.kind # s
    BY <1>3 DEF Process!Streams, Process!TerminalKinds
  <2> HIDE DEF e, StreamInv
  <2> QED BY <1>1, <1>4, <2>1, <2>2, EndFlows
<1>8. AllFlow'
  BY <1>1, <1>7 DEF AllFlow
<1> QED BY <1>4, <1>5, <1>6, <1>8

LEMMA StreamInvIsInductive == StreamInv /\ [Process!ProcessNext]_processVars => StreamInv'
<1> SUFFICES ASSUME StreamInv, [Process!ProcessNext]_processVars PROVE StreamInv'
  OBVIOUS
<1>1. CASE UNCHANGED processVars
  BY <1>1 DEF processVars, StreamInv, StreamTypes, EventsFit, EndFits, AllFlow
<1> QED BY <1>1, ProcessesKeepStreamInv, ReadStreamKeepsStreamInv, ReceiveKeepsStreamInv,
           RunnerKeepsStreamInv, SendTerminalKeepsStreamInv DEF Process!ProcessNext

LEMMA StreamInvIsComplete == StreamInv => StreamIsComplete
<1> SUFFICES ASSUME StreamInv PROVE Process!StreamIsComplete
  BY DEF StreamIsComplete
<1> USE DEF StreamInv
<1> DEFINE l == Len(stream)
<1>1. stream \in Seq(SentEvent) /\ stream # <<>> /\ DOMAIN stream = 1 .. l /\ l \in Nat \ {0}
  BY DEF StreamTypes, EventsFit
<1>2. ASSUME NEW s \in Process!Streams
      PROVE  /\ Len(output[s]) = Process!ChunksOf(s, stream, l)
                  + Process!ChunksOf(s, channel, Len(channel)) + Len(pipes[s])
             /\ Process!ChunksOf(s, stream, l) \in Nat
             /\ Process!ChunksOf(s, channel, Len(channel)) \in Nat
             /\ Len(pipes[s]) \in Nat
  <2>1. Flow(s, stream, channel, pipes[s], output[s])
    BY DEF AllFlow
  <2>2. Len(channel) \in Nat /\ Len(pipes[s]) \in Nat
    BY DEF StreamTypes
  <2> QED BY <1>1, <2>1, <2>2, ChunksAreCounted DEF Flow
<1>3. ASSUME NEW i \in 1 .. l, NEW s \in Process!Streams, stream[i].kind = s
      PROVE  /\ Process!ChunksOf(s, stream, i) <= Len(output[s])
             /\ stream[i].payload = output[s][Process!ChunksOf(s, stream, i)]
  <2>1. Flow(s, stream, channel, pipes[s], output[s])
    BY DEF AllFlow
  <2>2. Process!ChunksOf(s, stream, i) \in 1 .. Process!ChunksOf(s, stream, l)
    BY <1>1, <1>3, ChunksGrow
  <2>3. Process!ChunksOf(s, stream, i) <= Len(output[s])
    BY <1>2, <2>2
  <2> QED BY <1>3, <2>1, <2>3 DEF Flow
<1>4. ASSUME stream[l].kind \in Process!TerminalKinds
      PROVE  /\ \A s \in Process!Streams :
                  Process!ChunksOf(s, stream, l) = Len(output[s]) /\ holders[s] = {}
             /\ "leader" \notin alive
  <2>1. runner.at = "done"
    BY <1>1, <1>4 DEF EventsFit
  <2>2. channel = <<>> /\ "leader" \notin alive
    BY <2>1 DEF EndFits
  <2>3. \A s \in Process!Streams : pipes[s] = <<>> /\ holders[s] = {}
    BY <2>1 DEF EndFits
  <2>4. \A s \in Process!Streams : Process!ChunksOf(s, channel, Len(channel)) = 0
    BY <2>2, ChunksAreCounted
  <2> QED BY <1>2, <2>2, <2>3, <2>4
<1> QED BY <1>1, <1>3, <1>4 DEF Process!StreamIsComplete, EventsFit, EndFits

\* The caller of a tool sees a start, the output of each pipe in its order, and one end,
\* after all that the tool and what it left behind has written, and when the tool has ended;
\* nothing of a group that was killed lives on.  For any amount of output.
THEOREM StreamsAreComplete == Process!ProcessSpec => []StreamIsComplete
<1>1. Process!ProcessInit => StreamInv
  BY ProcessStarts
<1>2. StreamInv /\ [Process!ProcessNext]_(Process!processVars) => StreamInv'
  BY StreamInvIsInductive DEF Process!processVars, processVars
<1>3. StreamInv => StreamIsComplete
  BY StreamInvIsComplete
<1> QED BY <1>1, <1>2, <1>3, PTL DEF Process!ProcessSpec

(***************************************************************************)
(* Feed: who follows the journal misses no event and no last state of an   *)
(* activity, whether it rotates, fails, falls behind or restarts.          *)
(*                                                                         *)
(* A page is made by a loop, so Passing is a recursive function; what is   *)
(* needed of it is proved by induction up to a number (NumbersUpTo), from  *)
(* the library's theorem that < is well founded: it is defined, it goes on *)
(* element by element (PassingGoesOn), and the pages of a reader, one      *)
(* after the other, are what a single page would be (PassingJoins).        *)
(***************************************************************************)
LEMMA LeastNumber ==
  ASSUME NEW S, S \subseteq Nat, S # {}
  PROVE  \E m \in S : \A n \in S : m <= n
<1>1. PICK m \in S : \A n \in S : <<n, m>> \notin OpToRel(<, Nat)
  BY NatLessThanWellFounded, WFMin
<1>2. \A n \in S : ~(n < m)
  BY <1>1 DEF OpToRel
<1> QED BY <1>2

\* Induction up to a number, of the set of those for which something is true.
LEMMA NumbersUpTo ==
  ASSUME NEW L \in Nat, NEW S, 0 \in S, \A k \in 1 .. L : k - 1 \in S => k \in S
  PROVE  \A k \in 0 .. L : k \in S
<1> DEFINE Bad == (0 .. L) \ S
<1>1. SUFFICES ASSUME Bad # {} PROVE FALSE
  OBVIOUS
<1>2. PICK k \in Bad : \A n \in Bad : k <= n
  <2>1. Bad \subseteq Nat
    OBVIOUS
  <2> HIDE DEF Bad
  <2> QED BY <1>1, <2>1, LeastNumber
<1>3. k \in 1 .. L /\ k - 1 \in 0 .. L /\ ~(k <= k - 1)
  OBVIOUS
<1> QED BY <1>2, <1>3

\* A function that goes on from each number to the next exists.
GoesOn(f, L, S, base, step) ==
  f \in [0 .. L -> S] /\ f[0] = base /\ \A n \in 1 .. L : f[n] = step[n][f[n - 1]]

LEMMA Recursion ==
  ASSUME NEW L \in Nat, NEW S, NEW base \in S, NEW step \in [1 .. L -> [S -> S]]
  PROVE  \E f : GoesOn(f, L, S, base, step)
<1> DEFINE Is(f, k) == /\ f \in [0 .. k -> S] /\ f[0] = base
                       /\ \A n \in 1 .. k : f[n] = step[n][f[n - 1]]
           Defined(k) == \E f : Is(f, k)
           K == {k \in 0 .. L : Defined(k)}
<1>1. Defined(0)
  <2>1. Is([n \in 0 .. 0 |-> base], 0)
    OBVIOUS
  <2> QED BY <2>1
<1>2. ASSUME NEW k \in 1 .. L, Defined(k - 1)
      PROVE  Defined(k)
  <2>1. PICK g : Is(g, k - 1)
    BY <1>2
  <2> DEFINE f == [n \in 0 .. k |-> IF n = k THEN step[k][g[k - 1]] ELSE g[n]]
  <2>2. /\ k - 1 \in 0 .. k - 1 /\ 0 \in 0 .. k /\ 0 # k /\ k \in Nat
        /\ \A n \in 0 .. k : n # k => n \in 0 .. k - 1
    OBVIOUS
  <2>3. g[k - 1] \in S /\ step[k][g[k - 1]] \in S
    BY <2>1, <2>2
  <2>4. \A n \in 0 .. k : f[n] = IF n = k THEN step[k][g[k - 1]] ELSE g[n]
    OBVIOUS
  <2>5. f \in [0 .. k -> S]
    BY <2>1, <2>2, <2>3
  <2> HIDE DEF f
  <2>6. f[0] = base
    BY <2>1, <2>2, <2>4
  <2>7. ASSUME NEW n \in 1 .. k
        PROVE  f[n] = step[n][f[n - 1]]
    <3>1. f[n - 1] = g[n - 1] /\ n \in 0 .. k
      <4>1. n - 1 \in 0 .. k /\ n - 1 # k /\ n \in 0 .. k
        BY <2>2
      <4> QED BY <2>4, <4>1
    <3>2. CASE n = k
      BY <2>4, <3>1, <3>2
    <3>3. CASE n # k
      <4>1. n \in 1 .. k - 1
        BY <3>3
      <4> QED BY <2>1, <2>4, <3>1, <3>3, <4>1
    <3> QED BY <3>2, <3>3
  <2>8. Is(f, k)
    BY <2>5, <2>6, <2>7
  <2> QED BY <2>8
<1> HIDE DEF Defined
<1>3. 0 \in K /\ \A k \in 1 .. L : k - 1 \in K => k \in K
  BY <1>1, <1>2
<1>4. L \in K
  <2>1. \A k \in 0 .. L : k \in K
    <3> HIDE DEF K
    <3> QED BY <1>3, NumbersUpTo
  <2> QED BY <2>1
<1> QED BY <1>4 DEF Defined, GoesOn

Elements(q, from, L, T) == \A i \in from + 1 .. from + L : q[i] \in T

Grown(s, e, include) == IF e \in include THEN Append(s, e) ELSE s

\* What has passed, element by element.
IsPassing(f, q, from, L, include, T) ==
  /\ f \in [0 .. L -> Seq(T)] /\ f[0] = <<>>
  /\ \A k \in 1 .. L : f[k] = Grown(f[k - 1], q[from + k], include)

EndsPassing(f, q, from, L, include, T) ==
  IsPassing(f, q, from, L, include, T) /\ Passing(q, from, from + L, include) = f[L]

LEMMA PassingIsDefined ==
  ASSUME NEW T, NEW q, NEW include, NEW from \in Nat, NEW L \in Nat, Elements(q, from, L, T)
  PROVE  \E f : EndsPassing(f, q, from, L, include, T)
<1> DEFINE Next1(k, s) == IF q[from + k] \in include THEN Append(s, q[from + k]) ELSE s
           step == [k \in 1 .. L |-> [s \in Seq(T) |-> Next1(k, s)]]
           M == (from + L) - from
           Is(f) == f = [k \in 0 .. M |->
                           IF k = 0 THEN <<>>
                           ELSE IF q[from + k] \in include THEN Append(f[k - 1], q[from + k])
                           ELSE f[k - 1]]
           passed == CHOOSE f : Is(f)
<1>0. M = L
  OBVIOUS
<1>1. \A k \in 1 .. L : q[from + k] \in T
  BY DEF Elements
<1>2. <<>> \in Seq(T) /\ \A k \in 1 .. L, s \in Seq(T) : Next1(k, s) \in Seq(T)
  BY <1>1
<1>3. step \in [1 .. L -> [Seq(T) -> Seq(T)]]
  <2> HIDE DEF Next1
  <2> QED BY <1>2
<1>4. \A k \in 1 .. L, s \in Seq(T) : step[k][s] = Next1(k, s)
  <2> HIDE DEF Next1
  <2> QED OBVIOUS
<1>5. PICK f \in [0 .. L -> Seq(T)] :
        f[0] = <<>> /\ \A n \in 1 .. L : f[n] = step[n][f[n - 1]]
  <2> DEFINE W == Seq(T)
             none == <<>>
  <2>1. none \in W /\ step \in [1 .. L -> [W -> W]]
    BY <1>2, <1>3
  <2> HIDE DEF step, W, none
  <2>2. \E f : GoesOn(f, L, W, none, step)
    BY <2>1, Recursion
  <2> QED BY <2>2 DEF W, none, GoesOn
<1>6. \A n \in 1 .. L : f[n] = Next1(n, f[n - 1])
  <2> HIDE DEF step, Next1
  <2> TAKE n \in 1 .. L
  <2>1. n - 1 \in 0 .. L
    OBVIOUS
  <2>2. f[n - 1] \in Seq(T)
    BY <2>1
  <2> QED BY <1>4, <1>5, <2>2
<1>7. Is(f)
  <2>1. f = [k \in 0 .. L |-> f[k]]
    BY <1>5
  <2>2. \A k \in 0 .. L : f[k] = IF k = 0 THEN <<>> ELSE Next1(k, f[k - 1])
    <3> TAKE k \in 0 .. L
    <3>1. k # 0 => k \in 1 .. L
      OBVIOUS
    <3> HIDE DEF Next1, step
    <3> QED BY <1>5, <1>6, <3>1
  <2> HIDE DEF M
  <2> QED BY <1>0, <2>1, <2>2
<1>8. Is(passed)
  BY <1>7
<1>9. Passing(q, from, from + L, include) = passed[L]
  <2>1. Passing(q, from, from + L, include) = passed[M]
    BY DEF Passing
  <2> HIDE DEF passed, M
  <2> QED BY <1>0, <2>1
<1> HIDE DEF passed, M
<1>10. passed = f
  <2> DEFINE K == {k \in 0 .. L : passed[k] = f[k]}
  <2>1. \A k \in 0 .. L : passed[k] = IF k = 0 THEN <<>> ELSE Next1(k, passed[k - 1])
    BY <1>0, <1>8
  <2>2. 0 \in K /\ \A k \in 1 .. L : k - 1 \in K => k \in K
    <3>1. 0 \in 0 .. L /\ \A k \in 1 .. L : k \in 0 .. L /\ k # 0
      OBVIOUS
    <3> HIDE DEF Next1, Is, step
    <3> QED BY <1>5, <1>6, <2>1, <3>1
  <2>3. \A k \in 0 .. L : k \in K
    <3> HIDE DEF K
    <3> QED BY <2>2, NumbersUpTo
  <2>4. passed = [k \in 0 .. L |-> passed[k]]
    BY <1>0, <1>8
  <2> QED BY <1>5, <2>3, <2>4
<1>11. IsPassing(f, q, from, L, include, T)
  BY <1>5, <1>6 DEF IsPassing, Grown
<1> QED BY <1>9, <1>10, <1>11 DEF EndsPassing

LEMMA ElementsUpTo ==
  ASSUME NEW T, NEW q, NEW from \in Nat, NEW L \in Nat, Elements(q, from, L, T), NEW n \in 0 .. L
  PROVE  n \in Nat /\ Elements(q, from, n, T)
BY DEF Elements

Passes(f, q, from, L, include, T) ==
  /\ IsPassing(f, q, from, L, include, T)
  /\ \A k \in 0 .. L : Passing(q, from, from + k, include) = f[k]

\* Nothing passes of no events; then each event that passes comes last.
LEMMA PassingGoesOn ==
  ASSUME NEW T, NEW q, NEW include, NEW from \in Nat, NEW L \in Nat, Elements(q, from, L, T)
  PROVE  \E f : Passes(f, q, from, L, include, T)
<1>1. PICK f : EndsPassing(f, q, from, L, include, T)
  BY PassingIsDefined
<1>2. ASSUME NEW n \in 0 .. L
      PROVE  Passing(q, from, from + n, include) = f[n]
  <2>1. n \in Nat /\ Elements(q, from, n, T)
    BY ElementsUpTo
  <2>2. PICK g : EndsPassing(g, q, from, n, include, T)
    BY <2>1, PassingIsDefined
  <2> DEFINE K == {k \in 0 .. n : g[k] = f[k]}
  <2>3. \A k \in 1 .. n : k \in 1 .. L /\ k \in 0 .. n
    OBVIOUS
  <2>4. 0 \in K /\ \A k \in 1 .. n : k - 1 \in K => k \in K
    BY <1>1, <2>1, <2>2, <2>3 DEF IsPassing, EndsPassing
  <2>5. \A k \in 0 .. n : k \in K
    <3> HIDE DEF K
    <3> QED BY <2>1, <2>4, NumbersUpTo
  <2> QED BY <2>1, <2>2, <2>5 DEF EndsPassing
<1> QED BY <1>1, <1>2 DEF EndsPassing, Passes

LEMMA PassingOfNothing ==
  ASSUME NEW q, NEW include, NEW from \in Nat
  PROVE  Passing(q, from, from, include) = <<>>
<1>1. Elements(q, from, 0, {}) /\ 0 \in Nat /\ 0 \in 0 .. 0 /\ from + 0 = from
  BY DEF Elements
<1>2. PICK f : Passes(f, q, from, 0, include, {})
  BY <1>1, PassingGoesOn
<1> QED BY <1>1, <1>2 DEF Passes, IsPassing

IsWhatPasses(s, q, from, L, include) ==
  \A e : e \in Range(s) <=> e \in include /\ \E i \in from + 1 .. from + L : q[i] = e

\* What passes is what is there and is to be included.
LEMMA PassingIsWhatPasses ==
  ASSUME NEW T, NEW q, NEW include, NEW from \in Nat, NEW L \in Nat, Elements(q, from, L, T)
  PROVE  /\ Passing(q, from, from + L, include) \in Seq(T)
         /\ IsWhatPasses(Passing(q, from, from + L, include), q, from, L, include)
<1>1. PICK f : Passes(f, q, from, L, include, T)
  BY PassingGoesOn
<1> DEFINE Is(k) == \A e : e \in Range(f[k]) <=>
                            e \in include /\ \E i \in from + 1 .. from + k : q[i] = e
           K == {k \in 0 .. L : Is(k)}
<1>2. Is(0)
  <2>1. from + 1 .. from + 0 = {} /\ Range(<<>>) = {}
    BY DEF Range
  <2> QED BY <1>1, <2>1 DEF Passes, IsPassing
<1>3. ASSUME NEW k \in 1 .. L, Is(k - 1)
      PROVE  Is(k)
  <2> DEFINE s == f[k - 1]
             x == q[from + k]
  <2>1. f[k] = Grown(s, x, include) /\ s \in Seq(T) /\ x \in T
    BY <1>1 DEF Passes, IsPassing, Elements
  <2>2. from + 1 .. from + k = (from + 1 .. from + (k - 1)) \cup {from + k}
    OBVIOUS
  <2>3. Range(Append(s, x)) = Range(s) \cup {x}
    <3> HIDE DEF s, x
    <3>1. /\ DOMAIN Append(s, x) = DOMAIN s \cup {Len(s) + 1} /\ Append(s, x)[Len(s) + 1] = x
          /\ \A i \in DOMAIN s : Append(s, x)[i] = s[i]
      BY <2>1
    <3> QED BY <3>1 DEF Range
  <2>4. \A e : e \in Range(s) <=> e \in include /\ \E i \in from + 1 .. from + (k - 1) : q[i] = e
    BY <1>3
  <2>5. ASSUME NEW e
        PROVE  e \in Range(f[k]) <=> e \in include /\ \E i \in from + 1 .. from + k : q[i] = e
    <3>1. (\E i \in from + 1 .. from + k : q[i] = e) <=>
            (\E i \in from + 1 .. from + (k - 1) : q[i] = e) \/ e = x
      BY <2>2
    <3> HIDE DEF s, x
    <3> QED BY <2>1, <2>3, <2>4, <3>1 DEF Grown
  <2> QED BY <2>5
<1> HIDE DEF Is
<1>4. 0 \in K /\ \A k \in 1 .. L : k - 1 \in K => k \in K
  BY <1>2, <1>3
<1>5. L \in K
  <2>1. \A k \in 0 .. L : k \in K
    <3> HIDE DEF K
    <3> QED BY <1>4, NumbersUpTo
  <2> QED BY <2>1
<1>6. L \in 0 .. L /\ f[L] \in Seq(T)
  BY <1>1 DEF Passes, IsPassing
<1>7. Passing(q, from, from + L, include) = f[L]
  BY <1>1, <1>6 DEF Passes
<1> QED BY <1>5, <1>6, <1>7 DEF Is, IsWhatPasses

Alike(q, r, include, other, from, L) ==
  \A i \in from + 1 .. from + L : r[i] = q[i] /\ (q[i] \in include <=> q[i] \in other)

\* Events that are published later, and filters that tell apart as much, change nothing.
LEMMA PassingStays ==
  ASSUME NEW T, NEW q, NEW r, NEW include, NEW other, NEW from \in Nat, NEW L \in Nat,
         Elements(q, from, L, T), Alike(q, r, include, other, from, L)
  PROVE  Passing(r, from, from + L, other) = Passing(q, from, from + L, include)
<1>1. PICK f : Passes(f, q, from, L, include, T)
  BY PassingGoesOn
<1>2. Elements(r, from, L, T)
  BY DEF Elements, Alike
<1>3. PICK g : Passes(g, r, from, L, other, T)
  BY <1>2, PassingGoesOn
<1> DEFINE K == {k \in 0 .. L : f[k] = g[k]}
<1>4. 0 \in K
  BY <1>1, <1>3 DEF Passes, IsPassing
<1>5. ASSUME NEW k \in 1 .. L, f[k - 1] = g[k - 1]
      PROVE  f[k] = g[k]
  <2>1. from + k \in from + 1 .. from + L
    OBVIOUS
  <2>2. r[from + k] = q[from + k] /\ (q[from + k] \in include <=> q[from + k] \in other)
    BY <2>1 DEF Alike
  <2>3. f[k] = Grown(f[k - 1], q[from + k], include) /\ g[k] = Grown(g[k - 1], r[from + k], other)
    BY <1>1, <1>3 DEF Passes, IsPassing
  <2> QED BY <1>5, <2>2, <2>3 DEF Grown
<1>6. \A k \in 1 .. L : k - 1 \in K => k \in K
  BY <1>5
<1>7. L \in K /\ L \in 0 .. L
  <2>1. \A k \in 0 .. L : k \in K
    <3> HIDE DEF K
    <3> QED BY <1>4, <1>6, NumbersUpTo
  <2> QED BY <2>1
<1>8. /\ Passing(q, from, from + L, include) = f[L]
      /\ Passing(r, from, from + L, other) = g[L]
  BY <1>1, <1>3, <1>7 DEF Passes
<1> QED BY <1>7, <1>8

Joins(q, m, L, include) ==
  Passing(q, 0, m + L, include) = Passing(q, 0, m, include) \o Passing(q, m, m + L, include)

\* A page and the next one are what one page would be.
LEMMA PassingJoins ==
  ASSUME NEW T, NEW q, NEW include, NEW m \in Nat, NEW L \in Nat, Elements(q, 0, m + L, T)
  PROVE  Joins(q, m, L, include)
<1>1. PICK f : Passes(f, q, 0, m + L, include, T)
  <2>1. m + L \in Nat
    OBVIOUS
  <2> QED BY <2>1, PassingGoesOn
<1>2. PICK g : Passes(g, q, m, L, include, T)
  <2>1. Elements(q, m, L, T)
    BY DEF Elements
  <2> QED BY <2>1, PassingGoesOn
<1> DEFINE a == f[m]
           K == {k \in 0 .. L : f[m + k] = a \o g[k]}
<1>3. a \in Seq(T) /\ g[0] = <<>> /\ m + 0 = m
  BY <1>1, <1>2 DEF Passes, IsPassing
<1>4. 0 \in K
  <2>1. a \o g[0] = a
    <3> HIDE DEF a
    <3> QED BY <1>3
  <2>2. f[m + 0] = a /\ 0 \in 0 .. L
    BY <1>3
  <2> HIDE DEF a
  <2> QED BY <2>1, <2>2
<1>5. ASSUME NEW k \in 1 .. L, f[m + (k - 1)] = a \o g[k - 1]
      PROVE  f[m + k] = a \o g[k]
  <2>1. /\ m + k \in 1 .. m + L /\ (m + k) - 1 = m + (k - 1) /\ 0 + (m + k) = m + k
        /\ k - 1 \in 0 .. L
    OBVIOUS
  <2>2. f[m + k] = Grown(f[(m + k) - 1], q[0 + (m + k)], include)
    BY <1>1, <2>1 DEF Passes, IsPassing
  <2>3. g[k] = Grown(g[k - 1], q[m + k], include)
    BY <1>2 DEF Passes, IsPassing
  <2>4. g[k - 1] \in Seq(T)
    BY <1>2, <2>1 DEF Passes, IsPassing
  <2>5. q[m + k] \in T
    BY <2>1 DEF Elements
  <2> DEFINE b == g[k - 1]
             x == q[m + k]
  <2> HIDE DEF a, b, x
  <2>6. a \o Append(b, x) = Append(a \o b, x)
    BY <1>3, <2>4, <2>5 DEF b, x
  <2> QED BY <1>5, <2>1, <2>2, <2>3, <2>6 DEF Grown, b, x
<1>6. \A k \in 1 .. L : k - 1 \in K => k \in K
  <2> TAKE k \in 1 .. L
  <2> HAVE k - 1 \in K
  <2>1. f[m + (k - 1)] = a \o g[k - 1]
    OBVIOUS
  <2> HIDE DEF a
  <2>2. f[m + k] = a \o g[k]
    BY <1>5, <2>1
  <2> QED BY <2>2
<1>7. L \in K
  <2> HIDE DEF K
  <2>1. \A k \in 0 .. L : k \in K
    BY <1>4, <1>6, NumbersUpTo
  <2> QED BY <2>1
<1>8. m \in 0 .. m + L /\ m + L \in 0 .. m + L /\ 0 + m = m /\ 0 + (m + L) = m + L /\ L \in 0 .. L
  OBVIOUS
<1>9. /\ Passing(q, 0, m + L, include) = f[m + L] /\ Passing(q, 0, m, include) = f[m]
      /\ Passing(q, m, m + L, include) = g[L]
  BY <1>1, <1>2, <1>8 DEF Passes
<1> QED BY <1>7, <1>9 DEF Joins

-----------------------------------------------------------------------------
LEMMA GreatestNumber ==
  ASSUME NEW S, S \subseteq Nat, IsFiniteSet(S), S # {}
  PROVE  Max(S) \in S /\ \A n \in S : n <= Max(S)
<1> DEFINE R == {p \in S \X S : p[1] < p[2]}
<1>1. /\ \A x, y \in S : x = y \/ <<x, y>> \in R \/ <<y, x>> \in R
      /\ \A x, y, z \in S : <<x, y>> \in R /\ <<y, z>> \in R => <<x, z>> \in R
  OBVIOUS
<1>2. PICK m \in S : \A n \in S \ {m} : <<n, m>> \in R
  <2> HIDE DEF R
  <2> QED BY <1>1, FiniteSetsHaveAGreatest
<1>3. \A n \in S : n <= m
  <2> TAKE n \in S
  <2>1. n = m \/ <<n, m>> \in R
    BY <1>2
  <2>2. n = m \/ n < m
    BY <2>1
  <2> QED BY <2>2
<1>4. \A n \in S : m >= n
  BY <1>3
<1> HIDE DEF R
<1>5. Max(S) \in S /\ \A n \in S : Max(S) >= n
  BY <1>4 DEF Max
<1> QED BY <1>5

\* A journal, and what of it a reader cannot change.
IsLog(j) ==
  /\ DOMAIN j = {"epoch", "published", "evicted", "sequences", "subscribers"}
  /\ j.epoch \in Nat /\ j.evicted \in 0 .. Len(j.published)

SameLog(j, k) ==
  /\ DOMAIN k = DOMAIN j /\ k.epoch = j.epoch
  /\ k.published = j.published /\ k.evicted = j.evicted

LEMMA ReadersKeepLog ==
  ASSUME NEW j, IsLog(j)
  PROVE  /\ \A k \in ExpireIdle(j) : SameLog(j, k)
         /\ \A s, c : SameLog(j, AfterAcknowledge(j, s, c))
<1>1. ASSUME NEW x PROVE SameLog(j, [j EXCEPT !.subscribers = x])
  BY DEF SameLog, IsLog
<1>2. \A k \in ExpireIdle(j) : SameLog(j, k)
  BY <1>1 DEF ExpireIdle
<1>3. ASSUME NEW s, NEW c
      PROVE  SameLog(j, AfterAcknowledge(j, s, c))
  <2>1. SameLog(j, j)
    BY DEF SameLog
  <2>2. SameLog(j, Subscribed(j, s))
    BY <1>1, <2>1 DEF Subscribed
  <2> DEFINE k == Subscribed(j, s)
  <2>3. SameLog(j, Acknowledged(k, s, c))
    <3>1. \E x : Acknowledged(k, s, c) = [k EXCEPT !.subscribers = x]
      BY DEF Acknowledged
    <3> HIDE DEF k
    <3> QED BY <2>2, <3>1 DEF SameLog, IsLog, k
  <2> QED BY <2>1, <2>2, <2>3 DEF AfterAcknowledge
<1> QED BY <1>2, <1>3

\* A page begins at the cursor and ends somewhere behind it.
LEMMA PageIs ==
  ASSUME NEW j, IsLog(j), NEW cursor, cursor.sequence \in Nat, NEW include,
         ~Stale(j, cursor), ~Ahead(j, cursor), Len(j.published) \in Nat
  PROVE  \E end \in cursor.sequence .. Newest(j) :
           Page(j, cursor, include) =
             [events |-> Passing(j.published, cursor.sequence, end, include),
              next |-> Cursor(j.epoch, end)]
<1> DEFINE c == cursor.sequence
           Fits == {i \in c .. Newest(j) :
                      Cardinality({k \in c + 1 .. i : j.published[k] \in include}) <= PageSize}
<1>1. c \in Nat /\ j.evicted \in 0 .. c /\ c <= Newest(j) /\ Newest(j) \in Nat
  BY DEF Stale, Ahead, Newest, IsLog
<1>2. Max({c, j.evicted}) = c
  <2> DEFINE S == {c, j.evicted}
  <2>1. S \subseteq Nat /\ c \in S /\ \A n \in S : n <= c
    BY <1>1
  <2>2. IsFiniteSet(S)
    <3> HIDE DEF c
    <3>1. IsFiniteSet(0 .. c)
      BY <1>1, FS_Interval
    <3>2. S \in SUBSET (0 .. c)
      BY <1>1
    <3> HIDE DEF S
    <3> QED BY <3>1, <3>2, FS_Subset
  <2> HIDE DEF S, c
  <2>3. Max(S) \in S /\ \A n \in S : n <= Max(S)
    BY <2>1, <2>2, GreatestNumber
  <2>4. Max(S) \in Nat /\ Max(S) <= c /\ c <= Max(S)
    BY <2>1, <2>3
  <2>5. Max(S) = c
    BY <1>1, <2>4
  <2> QED BY <2>5 DEF S
<1>3. Max(Fits) \in c .. Newest(j)
  <2>1. c \in Fits
    <3>1. {k \in c + 1 .. c : j.published[k] \in include} = {}
      BY <1>1
    <3>2. c \in c .. Newest(j)
      BY <1>1
    <3>3. 0 <= PageSize
      BY JournalAssumption
    <3> QED BY <3>1, <3>2, <3>3, FS_EmptySet
  <2>2. IsFiniteSet(Fits) /\ Fits \subseteq Nat /\ Fits \subseteq c .. Newest(j)
    <3>1. IsFiniteSet(c .. Newest(j)) /\ Fits \in SUBSET (c .. Newest(j))
      <4>1. Fits \in SUBSET (c .. Newest(j))
        OBVIOUS
      <4> HIDE DEF c, Fits
      <4>2. c \in Int /\ Newest(j) \in Int
        BY <1>1
      <4> QED BY <4>1, <4>2, FS_Interval
    <3>2. c .. Newest(j) \subseteq Nat
      BY <1>1
    <3> HIDE DEF Fits
    <3> QED BY <3>1, <3>2, FS_Subset
  <2> HIDE DEF Fits
  <2>3. Max(Fits) \in Fits
    BY <2>1, <2>2, GreatestNumber
  <2> QED BY <2>2, <2>3
<1>4. Page(j, cursor, include) =
        [events |-> Passing(j.published, c, Max(Fits), include), next |-> Cursor(j.epoch, Max(Fits))]
  BY <1>2 DEF Page, PageEnd
<1> HIDE DEF Fits
<1> QED BY <1>3, <1>4

(***************************************************************************)
(* What is inductive of the feed.  A reader is in the life and the epoch   *)
(* of its cursor for good or never again: the epoch of a life only grows,  *)
(* so a cursor is never ahead of it, and a cursor of an earlier life stays *)
(* one.  While the application is there, every activity's last state is in *)
(* its snapshot or among the events after the place it started from        *)
(* (AppFollows); what the command line tool printed is what has passed up  *)
(* to the end of the page that it read last (CliFollows).                  *)
(***************************************************************************)
FeedEvent == [activity : Activities, what : {"progress", "interrupted"}, sequence : Nat]

Numbers == UNION {[S -> Nat] : S \in SUBSET Activities}

FeedCursor == [epoch : Nat, sequence : Nat]

LogTypes ==
  /\ Up => /\ IsLog(journal) /\ journal.published \in Seq(FeedEvent)
           /\ \A i \in 1 .. Newest(journal) : journal.published[i] \in told
  /\ recorded \in Numbers /\ saved \in Numbers /\ lives \in Nat
  /\ told \subseteq FeedEvent /\ IsFiniteSet(told)

AppTypes ==
  app \in [cursor : FeedCursor, life : 0 .. lives, from : Nat,
           phase : {"read", "acknowledge", "snapshot", "stopped"}, next : FeedCursor,
           seen : SUBSET told, snapshot : Numbers, servedIn : 0 .. lives,
           lastResync : Nat \cup {None}, wasAhead : BOOLEAN]

CliTypes ==
  cli \in [cursor : FeedCursor, life : 0 .. lives, from : Nat,
           phase : {"read", "acknowledge", "stopped"}, next : FeedCursor,
           printed : Seq(FeedEvent)]

FeedTypes == LogTypes /\ AppTypes /\ CliTypes

Reached(who) ==
  IF who.phase = "acknowledge" THEN who.next.sequence ELSE who.cursor.sequence

\* The last state of an activity is known, or still to be read.
IsToBeKnown(a) ==
  \/ a \in DOMAIN app.snapshot /\ app.snapshot[a] = recorded[a]
  \/ \E i \in app.from + 1 .. Newest(journal) :
       journal.published[i].activity = a /\ journal.published[i].sequence = recorded[a]

AppHasAll ==
  /\ app.from <= app.cursor.sequence
  /\ app.cursor.sequence <= Reached(app) /\ Reached(app) <= Newest(journal)
  /\ \A i \in app.from + 1 .. Reached(app) :
       journal.published[i] \in LocalEvents => journal.published[i] \in app.seen
  /\ \A a \in DOMAIN recorded : IsToBeKnown(a)

AppFollows ==
  /\ app.phase = "acknowledge" => app.next.epoch = app.cursor.epoch
  /\ Up /\ app.life = lives => app.cursor.epoch <= journal.epoch
  /\ Up /\ app.phase = "snapshot" /\ app.servedIn = lives =>
       /\ app.next.epoch <= journal.epoch
       /\ app.next.epoch = journal.epoch => app.next.sequence <= Newest(journal)
  /\ InLife(app) => AppHasAll

CliHasAll ==
  /\ cli.next.sequence <= Newest(journal)
  /\ cli.printed = Passing(journal.published, 0, cli.next.sequence, LocalEvents)

CliFollows ==
  /\ cli.phase = "read" => cli.next.sequence = cli.cursor.sequence
  /\ cli.phase = "acknowledge" => cli.next.epoch = cli.cursor.epoch
  /\ Up /\ cli.life = lives => cli.cursor.epoch <= journal.epoch
  /\ InLife(cli) => CliHasAll

FeedInv == FeedTypes /\ AppFollows /\ CliFollows

-----------------------------------------------------------------------------
LEMMA FeedStarts == Init => FeedInv
<1> SUFFICES ASSUME Init PROVE FeedInv
  OBVIOUS
<1>1. /\ journal = [epoch |-> 1, published |-> <<>>, evicted |-> 0, sequences |-> <<>>,
                    subscribers |-> <<>>]
      /\ recorded = <<>> /\ saved = <<>> /\ lives = 1 /\ told = {}
      /\ app = [cursor |-> [epoch |-> 0, sequence |-> 0], life |-> 0, from |-> 0, phase |-> "read",
                next |-> [epoch |-> 0, sequence |-> 0], seen |-> {}, snapshot |-> <<>>,
                servedIn |-> 0, lastResync |-> None, wasAhead |-> FALSE]
      /\ cli = [cursor |-> [epoch |-> 1, sequence |-> 0], life |-> 1, from |-> 0, phase |-> "read",
                next |-> [epoch |-> 0, sequence |-> 0], printed |-> <<>>]
  BY DEF Init, NewApp, NewCli, Journal, Cursor
<1>2. <<>> \in Numbers
  <2>1. <<>> \in [{} -> Nat] /\ {} \in SUBSET Activities
    OBVIOUS
  <2> QED BY <2>1 DEF Numbers
<1>3. FeedTypes
  <2>1. IsLog(journal) /\ journal.published \in Seq(FeedEvent) /\ Newest(journal) = 0
    BY <1>1 DEF IsLog, Newest
  <2>2. IsFiniteSet(told)
    BY <1>1, FS_EmptySet
  <2>3. AppTypes
    BY <1>1, <1>2 DEF AppTypes, FeedCursor
  <2>4. CliTypes
    BY <1>1 DEF CliTypes, FeedCursor
  <2> QED BY <1>1, <1>2, <2>1, <2>2, <2>3, <2>4 DEF FeedTypes, LogTypes
<1>4. AppFollows
  BY <1>1 DEF AppFollows, InLife
<1>5. CliFollows
  BY <1>1, PassingOfNothing DEF CliFollows, CliHasAll, Newest
<1> QED BY <1>3, <1>4, <1>5 DEF FeedInv

LEMMA PublishedGrows ==
  ASSUME NEW j, IsLog(j), j.published \in Seq(FeedEvent), NEW e \in FeedEvent,
         NEW k \in Published(j, e)
  PROVE  IsLog(k) /\ k.epoch = j.epoch /\ k.published = Append(j.published, e)
<1>1. PICK n \in {m \in j.evicted .. Newest(j) : Newest(j) + 1 - m <= Capacity} :
        k = [j EXCEPT !.published = Append(@, e), !.evicted = n,
                      !.sequences = (e.activity :> e.sequence) @@ @]
  BY DEF Published
<1>2. n \in 0 .. Len(j.published) /\ Len(Append(j.published, e)) = Len(j.published) + 1
  BY DEF IsLog, Newest
<1> QED BY <1>1, <1>2 DEF IsLog

LEMMA PreparedIs ==
  ASSUME NEW j, IsLog(j), NEW e
  PROVE  \/ Prepared(j, e) = j
         \/ /\ IsLog(Prepared(j, e)) /\ Prepared(j, e).epoch = j.epoch + 1
            /\ Prepared(j, e).published = <<>>
<1>1. Prepared(j, e) = j \/ Prepared(j, e) = Rotated(j)
  BY DEF Prepared
<1>2. IsLog(Rotated(j)) /\ Rotated(j).epoch = j.epoch + 1 /\ Rotated(j).published = <<>>
  BY DEF Rotated, Journal, IsLog
<1> QED BY <1>1, <1>2

LEMMA WithIs ==
  ASSUME NEW f \in Numbers, NEW e \in FeedEvent
  PROVE  /\ With(f, e) \in Numbers /\ DOMAIN With(f, e) = DOMAIN f \cup {e.activity}
         /\ With(f, e)[e.activity] = e.sequence
         /\ \A a \in DOMAIN f : a # e.activity => With(f, e)[a] = f[a]
<1>1. PICK S \in SUBSET Activities : f \in [S -> Nat]
  BY DEF Numbers
<1>2. e.activity \in Activities /\ e.sequence \in Nat
  BY DEF FeedEvent
<1>3. With(f, e) \in [S \cup {e.activity} -> Nat] /\ S \cup {e.activity} \in SUBSET Activities
  BY <1>1, <1>2 DEF With
<1>4. With(f, e) \in Numbers
  BY <1>3 DEF Numbers
<1> QED BY <1>1, <1>4 DEF With

LEMMA EventIs ==
  ASSUME LogTypes, NEW a \in Activities
  PROVE  Event(a, "progress") \in FeedEvent
<1>1. PICK S \in SUBSET Activities : recorded \in [S -> Nat]
  BY DEF LogTypes, Numbers
<1>2. (IF a \in DOMAIN recorded THEN recorded[a] ELSE 0) + 1 \in Nat
  BY <1>1
<1> QED BY <1>2 DEF Event, FeedEvent

\* Neither reader is in the epoch of a journal that is newer.
LEMMA RotationLosesReaders ==
  ASSUME FeedInv, Up, UNCHANGED <<lives, app, cli>>, journal'.epoch \in Nat,
         journal.epoch < journal'.epoch
  PROVE  AppFollows' /\ CliFollows'
<1>1. app.cursor.epoch \in Nat /\ app.next.epoch \in Nat /\ cli.cursor.epoch \in Nat
      /\ journal.epoch \in Nat
  BY DEF FeedInv, FeedTypes, LogTypes, AppTypes, CliTypes, FeedCursor, IsLog
<1>2. AppFollows'
  BY <1>1 DEF FeedInv, AppFollows, InLife
<1>3. CliFollows'
  BY <1>1 DEF FeedInv, CliFollows, InLife
<1> QED BY <1>2, <1>3

LEMMA AppFollowsOn ==
  ASSUME FeedInv, Up, UNCHANGED <<lives, app>>, journal'.epoch = journal.epoch,
         NEW e \in FeedEvent, journal'.published = Append(journal.published, e),
         told' = told \cup {e}, recorded' = With(recorded, e)
  PROVE  AppFollows'
<1> USE DEF FeedInv, FeedTypes
<1>1. /\ Newest(journal) \in Nat /\ Newest(journal') = Newest(journal) + 1
      /\ journal'.published[Newest(journal')] = e
      /\ \A i \in 1 .. Newest(journal) : journal'.published[i] = journal.published[i]
  BY DEF LogTypes, Newest
<1>2. /\ app.from \in Nat /\ Reached(app) \in Nat /\ app.cursor.sequence \in Nat
      /\ app.next.sequence \in Nat
  BY DEF AppTypes, FeedCursor, Reached
<1>3. Reached(app)' = Reached(app)
  BY DEF Reached
<1>4. ASSUME AppHasAll PROVE AppHasAll'
  <2>1. Reached(app)' <= Newest(journal)'
    BY <1>1, <1>2, <1>3, <1>4 DEF AppHasAll
  <2>2. ASSUME NEW i \in app.from + 1 .. Reached(app), journal'.published[i] \in LocalEvents'
        PROVE  journal'.published[i] \in app.seen
    <3>1. i \in 1 .. Newest(journal)
      BY <1>1, <1>2, <1>4 DEF AppHasAll
    <3>2. journal'.published[i] = journal.published[i] /\ journal.published[i] \in told
      BY <1>1, <3>1 DEF LogTypes
    <3>3. journal.published[i] \in LocalEvents
      BY <2>2, <3>2 DEF LocalEvents
    <3> QED BY <1>4, <3>2, <3>3 DEF AppHasAll
  <2>3. app.from <= Newest(journal)
    BY <1>1, <1>2, <1>4 DEF AppHasAll
  <2>4. ASSUME NEW a \in DOMAIN recorded'
        PROVE  IsToBeKnown(a)'
    <3>1. CASE a = e.activity
      <4>1. recorded'[a] = e.sequence
        BY <3>1, WithIs DEF LogTypes
      <4>2. Newest(journal') \in app.from + 1 .. Newest(journal')
        BY <1>1, <1>2, <2>3
      <4> QED BY <1>1, <3>1, <4>1, <4>2 DEF IsToBeKnown
    <3>2. CASE a # e.activity
      <4>1. a \in DOMAIN recorded /\ recorded'[a] = recorded[a]
        BY <3>2, WithIs DEF LogTypes
      <4>2. IsToBeKnown(a)
        BY <1>4, <4>1 DEF AppHasAll
      <4>3. \A i \in app.from + 1 .. Newest(journal) :
              i \in app.from + 1 .. Newest(journal') /\ journal'.published[i] = journal.published[i]
        <5> TAKE i \in app.from + 1 .. Newest(journal)
        <5>1. i \in 1 .. Newest(journal) /\ i \in app.from + 1 .. Newest(journal')
          BY <1>1, <1>2
        <5> QED BY <1>1, <5>1
      <4> QED BY <4>1, <4>2, <4>3 DEF IsToBeKnown
    <3> QED BY <3>1, <3>2
  <2>5. app.from <= app.cursor.sequence /\ app.cursor.sequence <= Reached(app)
    BY <1>4 DEF AppHasAll
  <2> QED BY <1>3, <2>1, <2>2, <2>4, <2>5 DEF AppHasAll
<1>5. InLife(app)' => AppHasAll'
  BY <1>4 DEF InLife, AppFollows
<1>6. \A n \in Nat : n <= Newest(journal) => n <= Newest(journal)'
  BY <1>1
<1> QED BY <1>2, <1>5, <1>6 DEF AppFollows, InLife

LEMMA CliFollowsOn ==
  ASSUME FeedInv, Up, UNCHANGED <<lives, cli>>, journal'.epoch = journal.epoch,
         NEW e \in FeedEvent, journal'.published = Append(journal.published, e),
         told' = told \cup {e}
  PROVE  CliFollows'
<1> USE DEF FeedInv, FeedTypes
<1>1. /\ Newest(journal) \in Nat /\ Newest(journal') = Newest(journal) + 1
      /\ \A i \in 1 .. Newest(journal) :
           /\ journal'.published[i] = journal.published[i]
           /\ journal.published[i] \in FeedEvent /\ journal.published[i] \in told
  BY DEF LogTypes, Newest
<1>2. cli.next.sequence \in Nat
  BY DEF CliTypes, FeedCursor
<1>3. ASSUME CliHasAll PROVE CliHasAll'
  <2> DEFINE n == cli.next.sequence
  <2>1. n \in Nat /\ n <= Newest(journal)
    BY <1>2, <1>3 DEF CliHasAll
  <2>2. \A i \in 0 + 1 .. 0 + n : i \in 1 .. Newest(journal)
    BY <1>1, <2>1
  <2>3. Elements(journal.published, 0, n, FeedEvent)
    BY <1>1, <2>2 DEF Elements
  <2>4. Alike(journal.published, journal'.published, LocalEvents, LocalEvents', 0, n)
    BY <1>1, <2>2 DEF LocalEvents, Alike
  <2> HIDE DEF n
  <2>5. Passing(journal'.published, 0, 0 + n, LocalEvents') =
          Passing(journal.published, 0, 0 + n, LocalEvents)
    BY <2>1, <2>3, <2>4, PassingStays
  <2>6. 0 + n = n
    BY <2>1
  <2>7. cli.next.sequence <= Newest(journal')
    BY <1>1, <2>1 DEF n
  <2> QED BY <1>3, <2>5, <2>6, <2>7 DEF CliHasAll, n
<1> QED BY <1>3 DEF CliFollows, InLife

-----------------------------------------------------------------------------
(* A reader's step changes of the journal the subscribers only.            *)

LogStays == SameLog(journal, journal') /\ UNCHANGED <<recorded, saved, lives, told>>

LEMMA LogTypesStay ==
  ASSUME LogTypes, Up, LogStays
  PROVE  LogTypes'
<1>1. IsLog(journal')
  BY DEF LogTypes, LogStays, SameLog, IsLog
<1>2. Newest(journal') = Newest(journal)
  BY DEF LogStays, SameLog, Newest
<1> QED BY <1>1, <1>2 DEF LogTypes, LogStays, SameLog

LEMMA AppStays ==
  ASSUME AppFollows, Up, LogStays, app' = app
  PROVE  AppFollows'
<1>1. Newest(journal)' = Newest(journal)
  BY DEF LogStays, SameLog, Newest
<1>2. Reached(app)' = Reached(app) /\ (InLife(app)' => InLife(app))
  BY DEF Reached, InLife, LogStays, SameLog
<1>3. LocalEvents' = LocalEvents
  BY DEF LocalEvents, LogStays
<1>4. \A a : IsToBeKnown(a)' <=> IsToBeKnown(a)
  BY <1>1 DEF IsToBeKnown, LogStays, SameLog
<1>5. AppHasAll => AppHasAll'
  BY <1>1, <1>2, <1>3, <1>4 DEF AppHasAll, LogStays, SameLog
<1> QED BY <1>1, <1>2, <1>5 DEF AppFollows, LogStays, SameLog

LEMMA CliStays ==
  ASSUME CliFollows, Up, LogStays, cli' = cli
  PROVE  CliFollows'
<1>1. Newest(journal)' = Newest(journal)
  BY DEF LogStays, SameLog, Newest
<1>2. InLife(cli)' => InLife(cli)
  BY DEF InLife, LogStays, SameLog
<1>3. LocalEvents' = LocalEvents
  BY DEF LocalEvents, LogStays
<1>4. CliHasAll => CliHasAll'
  BY <1>1, <1>3 DEF CliHasAll, LogStays, SameLog
<1> QED BY <1>2, <1>4 DEF CliFollows, LogStays, SameLog

\* The application may go on from where it is: what it does not change.
LEMMA AppGoesOn ==
  ASSUME AppHasAll, Up, LogStays,
         app'.from = app.from, app'.snapshot = app.snapshot, app'.cursor.sequence \in Nat,
         app.from <= app'.cursor.sequence, app'.cursor.sequence <= Reached(app)',
         Reached(app)' <= Newest(journal),
         \A i \in app.from + 1 .. Reached(app)' :
           journal.published[i] \in LocalEvents => journal.published[i] \in app'.seen
  PROVE  AppHasAll'
<1>1. Newest(journal)' = Newest(journal)
  BY DEF LogStays, SameLog, Newest
<1>2. LocalEvents' = LocalEvents
  BY DEF LocalEvents, LogStays
<1>3. \A a : IsToBeKnown(a)' <=> IsToBeKnown(a)
  BY <1>1 DEF IsToBeKnown, LogStays, SameLog
<1> QED BY <1>1, <1>2, <1>3 DEF AppHasAll, LogStays, SameLog

LEMMA AppStepLog ==
  ASSUME FeedInv, Up,
         \/ journal' \in ExpireIdle(journal) \/ journal' = journal
         \/ \E j \in ExpireIdle(journal) : \E s, c : journal' = AfterAcknowledge(j, s, c)
  PROVE  SameLog(journal, journal')
<1>1. IsLog(journal)
  BY DEF FeedInv, FeedTypes, LogTypes
<1>2. CASE journal' \in ExpireIdle(journal) \/ journal' = journal
  BY <1>1, <1>2, ReadersKeepLog DEF SameLog
<1>3. CASE \E j \in ExpireIdle(journal) : \E s, c : journal' = AfterAcknowledge(j, s, c)
  <2>1. PICK j \in ExpireIdle(journal) : \E s, c : journal' = AfterAcknowledge(j, s, c)
    BY <1>3
  <2>2. SameLog(journal, j)
    BY <1>1, ReadersKeepLog
  <2>3. IsLog(j)
    BY <1>1, <2>2 DEF SameLog, IsLog
  <2>4. SameLog(j, journal')
    BY <2>1, <2>3, ReadersKeepLog
  <2> QED BY <2>2, <2>4 DEF SameLog
<1> QED BY <1>2, <1>3

LEMMA AppEventsFollows ==
  ASSUME FeedInv, AppEvents
  PROVE  FeedInv'
<1>1. Up /\ LogStays /\ cli' = cli
  BY AppStepLog DEF AppEvents, AppOnly, LogStays
<1> DEFINE c == app.cursor.sequence
           q == journal.published
           passed(end) == Passing(q, c, end, LocalEvents)
<1>2. IsLog(journal) /\ q \in Seq(FeedEvent) /\ Len(q) \in Nat /\ c \in Nat
  BY <1>1 DEF FeedInv, FeedTypes, LogTypes, AppTypes, FeedCursor
<1>3. PICK end \in c .. Newest(journal) :
        Page(journal, app.cursor, LocalEvents) =
          [events |-> passed(end), next |-> Cursor(journal.epoch, end)]
  <2>1. ~Stale(journal, app.cursor) /\ ~Ahead(journal, app.cursor)
    BY DEF AppEvents
  <2> QED BY <1>2, <2>1, PageIs
<1>4. app' = [app EXCEPT !.seen = @ \cup Range(passed(end)),
                         !.next = Cursor(journal.epoch, end),
                         !.servedIn = lives, !.lastResync = None, !.phase = "acknowledge"]
  BY <1>3 DEF AppEvents
<1>5. \A e : e \in Range(passed(end)) <=>
               e \in LocalEvents /\ \E i \in c + 1 .. end : q[i] = e
  <2> DEFINE L == end - c
  <2>1. L \in Nat /\ c + L = end /\ end <= Newest(journal)
    BY <1>2, <1>3 DEF Newest
  <2> HIDE DEF c, L, q
  <2>2. Elements(q, c, L, FeedEvent)
    BY <1>2, <2>1 DEF Elements, Newest, q
  <2>3. Passing(q, c, end, LocalEvents) = Passing(q, c, c + L, LocalEvents)
    BY <2>1
  <2>4. IsWhatPasses(Passing(q, c, c + L, LocalEvents), q, c, L, LocalEvents)
    BY <1>2, <2>1, <2>2, PassingIsWhatPasses
  <2> QED BY <2>1, <2>3, <2>4 DEF q, IsWhatPasses
<1> HIDE DEF passed
<1>6. /\ app'.cursor = app.cursor /\ app'.from = app.from /\ app'.snapshot = app.snapshot
      /\ app'.life = app.life /\ app'.seen = app.seen \cup Range(passed(end))
      /\ app'.phase = "acknowledge" /\ app'.next.epoch = journal.epoch
      /\ app'.next.sequence = end /\ app.phase = "read"
  <2> DEFINE p == Range(passed(end))
             n == Cursor(journal.epoch, end)
  <2>1. n.epoch = journal.epoch /\ n.sequence = end
    BY DEF Cursor
  <2>2. app.phase = "read"
    BY DEF AppEvents
  <2> HIDE DEF p, n
  <2>3. app' = [app EXCEPT !.seen = @ \cup p, !.next = n,
                           !.servedIn = lives, !.lastResync = None, !.phase = "acknowledge"]
    BY <1>4 DEF p, n
  <2>4. /\ app'.cursor = app.cursor /\ app'.from = app.from /\ app'.snapshot = app.snapshot
        /\ app'.life = app.life /\ app'.seen = app.seen \cup p
        /\ app'.phase = "acknowledge" /\ app'.next = n
    BY <2>3 DEF FeedInv, FeedTypes, AppTypes
  <2> QED BY <2>1, <2>2, <2>4 DEF p
<1>7. end \in Nat
  BY <1>2, <1>3
<1>8. AppTypes'
  <2>1. Cursor(journal.epoch, end) \in FeedCursor
    BY <1>2, <1>7 DEF IsLog, Cursor, FeedCursor
  <2>2. Range(passed(end)) \subseteq told
    BY <1>5 DEF LocalEvents
  <2>3. lives \in Nat /\ lives \in 0 .. lives
    BY DEF FeedInv, FeedTypes, LogTypes
  <2> QED BY <1>1, <1>4, <2>1, <2>2, <2>3 DEF FeedInv, FeedTypes, AppTypes, LogStays
<1>9. journal.epoch = app.cursor.epoch
  BY DEF AppEvents, Stale
<1>10. InLife(app)' => AppHasAll'
  <2> SUFFICES ASSUME InLife(app)' PROVE AppHasAll'
    OBVIOUS
  <2>1. AppHasAll
    BY <1>1, <1>6 DEF InLife, LogStays, SameLog, FeedInv, AppFollows
  <2>2. Reached(app) = c /\ Reached(app)' = end
    BY <1>6 DEF Reached
  <2>3. app.from \in Nat /\ app.from <= c
    BY <2>1 DEF AppHasAll, FeedInv, FeedTypes, AppTypes
  <2>4. ASSUME NEW i \in app.from + 1 .. end, q[i] \in LocalEvents
        PROVE  q[i] \in app'.seen
    <3>1. CASE i <= c
      <4>1. i \in app.from + 1 .. Reached(app)
        BY <1>2, <2>2, <2>3, <3>1
      <4> QED BY <1>6, <2>1, <2>4, <4>1 DEF AppHasAll
    <3>2. CASE ~(i <= c)
      <4>1. i \in c + 1 .. end
        BY <1>2, <1>7, <2>3, <3>2
      <4>2. q[i] \in Range(passed(end))
        BY <1>5, <2>4, <4>1
      <4> QED BY <1>6, <4>2
    <3> QED BY <3>1, <3>2
  <2>5. c <= end /\ end <= Newest(journal)
    BY <1>2, <1>3 DEF Newest
  <2> QED BY <1>1, <1>2, <1>6, <2>1, <2>2, <2>3, <2>4, <2>5, AppGoesOn
<1>11. AppFollows'
  <2>1. app'.life = lives' => app'.cursor.epoch <= journal'.epoch
    BY <1>1, <1>6 DEF FeedInv, AppFollows, LogStays, SameLog
  <2> QED BY <1>6, <1>9, <1>10, <2>1 DEF AppFollows
<1>12. LogTypes' /\ CliFollows' /\ CliTypes'
  BY <1>1, LogTypesStay, CliStays DEF FeedInv, FeedTypes, CliTypes, LogStays
<1> QED BY <1>8, <1>11, <1>12 DEF FeedInv, FeedTypes

LEMMA AppAcknowledgeFollows ==
  ASSUME FeedInv, AppAcknowledge
  PROVE  FeedInv'
<1>1. Up /\ LogStays /\ cli' = cli
  <2>1. \E j \in ExpireIdle(journal) : \E s, c : journal' = AfterAcknowledge(j, s, c)
    BY DEF AppAcknowledge
  <2> QED BY <2>1, AppStepLog DEF AppAcknowledge, AppOnly, LogStays
<1>2. \/ app' = [app EXCEPT !.cursor = app.next, !.wasAhead = FALSE, !.phase = "read"]
      \/ app' = [app EXCEPT !.phase = "read"]
  BY DEF AppAcknowledge
<1>3. app.phase = "acknowledge" /\ app.next.epoch = app.cursor.epoch
  BY DEF AppAcknowledge, FeedInv, AppFollows
<1>4. /\ app'.from = app.from /\ app'.snapshot = app.snapshot /\ app'.life = app.life
      /\ app'.seen = app.seen /\ app'.phase = "read" /\ app'.next = app.next
      /\ app'.cursor \in {app.cursor, app.next}
  BY <1>2 DEF FeedInv, FeedTypes, AppTypes
<1>5. AppTypes'
  BY <1>1, <1>2 DEF FeedInv, FeedTypes, AppTypes, LogStays
<1>6. app'.cursor.epoch = app.cursor.epoch
  BY <1>3, <1>4
<1>7. InLife(app)' => AppHasAll'
  <2> SUFFICES ASSUME InLife(app)' PROVE AppHasAll'
    OBVIOUS
  <2>1. AppHasAll
    BY <1>1, <1>4, <1>6 DEF InLife, LogStays, SameLog, FeedInv, AppFollows
  <2>2. Reached(app) = app.next.sequence /\ Reached(app)' = app'.cursor.sequence
    BY <1>3, <1>4 DEF Reached
  <2>3. /\ app.from \in Nat /\ app.cursor.sequence \in Nat /\ app.next.sequence \in Nat
        /\ app'.cursor.sequence \in {app.cursor.sequence, app.next.sequence}
    BY <1>4 DEF FeedInv, FeedTypes, AppTypes, FeedCursor
  <2>4. Newest(journal) \in Nat
    BY <1>1 DEF FeedInv, FeedTypes, LogTypes, Newest
  <2>5. /\ app.from <= app'.cursor.sequence /\ app'.cursor.sequence <= Reached(app)
        /\ Reached(app) <= Newest(journal)
    BY <2>1, <2>2, <2>3 DEF AppHasAll
  <2>6. \A i \in app.from + 1 .. Reached(app)' : i \in app.from + 1 .. Reached(app)
    BY <2>2, <2>3, <2>5
  <2>7. Reached(app)' <= Newest(journal) /\ app'.cursor.sequence <= Reached(app)'
    BY <2>2, <2>3, <2>4, <2>5
  <2>8. \A i \in app.from + 1 .. Reached(app)' :
          journal.published[i] \in LocalEvents => journal.published[i] \in app'.seen
    BY <1>4, <2>1, <2>6 DEF AppHasAll
  <2> QED BY <1>1, <1>4, <2>1, <2>3, <2>5, <2>7, <2>8, AppGoesOn
<1>8. AppFollows'
  <2>1. app'.life = lives' => app'.cursor.epoch <= journal'.epoch
    BY <1>1, <1>4, <1>6 DEF FeedInv, AppFollows, LogStays, SameLog
  <2> QED BY <1>4, <1>7, <2>1 DEF AppFollows
<1>9. LogTypes' /\ CliFollows' /\ CliTypes'
  BY <1>1, LogTypesStay, CliStays DEF FeedInv, FeedTypes, CliTypes, LogStays
<1> QED BY <1>5, <1>8, <1>9 DEF FeedInv, FeedTypes

LEMMA AppFellBehindFollows ==
  ASSUME FeedInv, AppFellBehind
  PROVE  FeedInv'
<1>1. Up /\ LogStays /\ cli' = cli
  BY AppStepLog DEF AppFellBehind, AppOnly, LogStays
<1>2. \/ app' = [app EXCEPT !.phase = "stopped"]
      \/ app' = [app EXCEPT !.lastResync = journal.epoch, !.next = Oldest(journal),
                            !.servedIn = lives, !.phase = "snapshot"]
  BY DEF AppFellBehind
<1>3. app.phase = "read"
  BY DEF AppFellBehind
<1>4. /\ app'.from = app.from /\ app'.snapshot = app.snapshot /\ app'.life = app.life
      /\ app'.seen = app.seen /\ app'.phase \in {"stopped", "snapshot"}
      /\ app'.cursor = app.cursor
      /\ app'.phase = "snapshot" => app'.next = Oldest(journal)
  BY <1>2 DEF FeedInv, FeedTypes, AppTypes
<1>5. /\ Oldest(journal) \in FeedCursor /\ Oldest(journal).epoch = journal.epoch
      /\ Oldest(journal).sequence <= Newest(journal)
  BY <1>1 DEF FeedInv, FeedTypes, LogTypes, IsLog, Oldest, Newest, Cursor, FeedCursor
<1>6. AppTypes'
  <2>1. journal.epoch \in Nat /\ lives \in 0 .. lives
    BY <1>1 DEF FeedInv, FeedTypes, LogTypes, IsLog
  <2> QED BY <1>1, <1>2, <1>5, <2>1 DEF FeedInv, FeedTypes, AppTypes, LogStays
<1>7. InLife(app)' => AppHasAll'
  <2> SUFFICES ASSUME InLife(app)' PROVE AppHasAll'
    OBVIOUS
  <2>1. AppHasAll
    BY <1>1, <1>4 DEF InLife, LogStays, SameLog, FeedInv, AppFollows
  <2>2. Reached(app)' = Reached(app)
    BY <1>3, <1>4 DEF Reached
  <2>3. app.cursor.sequence \in Nat
    BY DEF FeedInv, FeedTypes, AppTypes, FeedCursor
  <2> QED BY <1>1, <1>4, <2>1, <2>2, <2>3, AppGoesOn DEF AppHasAll
<1>8. AppFollows'
  <2>1. app'.life = lives' => app'.cursor.epoch <= journal'.epoch
    BY <1>1, <1>4 DEF FeedInv, AppFollows, LogStays, SameLog
  <2>2. Newest(journal)' = Newest(journal) /\ journal'.epoch = journal.epoch
        /\ journal.epoch <= journal.epoch
    BY <1>1 DEF LogStays, SameLog, Newest, FeedInv, FeedTypes, LogTypes, IsLog
  <2> QED BY <1>4, <1>5, <1>7, <2>1, <2>2 DEF AppFollows
<1>9. LogTypes' /\ CliFollows' /\ CliTypes'
  BY <1>1, LogTypesStay, CliStays DEF FeedInv, FeedTypes, CliTypes, LogStays
<1> QED BY <1>6, <1>8, <1>9 DEF FeedInv, FeedTypes

\* The snapshot has the last state of every activity, and was fetched after the
\* cursor was given.
LEMMA AppSnapshotFollows ==
  ASSUME FeedInv, AppSnapshot
  PROVE  FeedInv'
<1>1. Up /\ LogStays /\ cli' = cli
  <2>1. journal' = journal
    BY DEF AppSnapshot
  <2> QED BY <2>1, AppStepLog DEF AppSnapshot, AppOnly, LogStays
<1>2. app' = [app EXCEPT !.snapshot = recorded, !.cursor = app.next, !.life = app.servedIn,
                         !.from = app.next.sequence, !.phase = "read"]
  BY DEF AppSnapshot
<1>3. /\ app'.snapshot = recorded /\ app'.cursor = app.next /\ app'.life = app.servedIn
      /\ app'.from = app.next.sequence /\ app'.phase = "read" /\ app'.seen = app.seen
  BY <1>2 DEF FeedInv, FeedTypes, AppTypes
<1>4. AppTypes'
  BY <1>1, <1>2 DEF FeedInv, FeedTypes, AppTypes, LogTypes, LogStays, FeedCursor
<1>5. ASSUME app.servedIn = lives
      PROVE  /\ app.next.epoch <= journal.epoch
             /\ app.next.epoch = journal.epoch => app.next.sequence <= Newest(journal)
  BY <1>1, <1>5 DEF FeedInv, AppFollows, AppSnapshot
<1>6. InLife(app)' => AppHasAll'
  <2> SUFFICES ASSUME InLife(app)' PROVE AppHasAll'
    OBVIOUS
  <2>1. app.next.sequence <= Newest(journal)
    BY <1>1, <1>3, <1>5 DEF InLife, LogStays, SameLog
  <2>2. Reached(app)' = app.next.sequence /\ app.next.sequence \in Nat
    BY <1>3 DEF Reached, FeedInv, FeedTypes, AppTypes, FeedCursor
  <2>3. Newest(journal)' = Newest(journal) /\ recorded' = recorded
    BY <1>1 DEF LogStays, SameLog, Newest
  <2>4. app'.from + 1 .. Reached(app)' = {}
    BY <1>3, <2>2
  <2>5. \A a \in DOMAIN recorded' : IsToBeKnown(a)'
    BY <1>3, <2>3 DEF IsToBeKnown
  <2>6. /\ app'.from <= app'.cursor.sequence /\ app'.cursor.sequence <= Reached(app)'
        /\ Reached(app)' <= Newest(journal)'
    BY <1>3, <2>1, <2>2, <2>3
  <2> QED BY <2>4, <2>5, <2>6 DEF AppHasAll
<1>7. AppFollows'
  <2>1. app'.life = lives' => app'.cursor.epoch <= journal'.epoch
    BY <1>1, <1>3, <1>5 DEF LogStays, SameLog
  <2> QED BY <1>3, <1>6, <2>1 DEF AppFollows
<1>8. LogTypes' /\ CliFollows' /\ CliTypes'
  BY <1>1, LogTypesStay, CliStays DEF FeedInv, FeedTypes, CliTypes, LogStays
<1> QED BY <1>4, <1>7, <1>8 DEF FeedInv, FeedTypes

\* A cursor of this life and epoch is not ahead; another one stays what it is.
LEMMA AppIsAheadFollows ==
  ASSUME FeedInv, AppIsAhead
  PROVE  FeedInv'
<1>1. Up /\ LogStays /\ cli' = cli
  BY AppStepLog DEF AppIsAhead, AppOnly, LogStays
<1>2. \/ app' = [app EXCEPT !.phase = "stopped"]
      \/ app' = [app EXCEPT !.wasAhead = TRUE, !.cursor = Cursor(journal.epoch, Newest(journal))]
  BY DEF AppIsAhead
<1>3. app.phase = "read" /\ app.cursor.epoch = journal.epoch /\ ~(app.cursor.sequence <= Newest(journal))
  BY <1>1 DEF AppIsAhead, Ahead, FeedInv, FeedTypes, LogTypes, AppTypes, FeedCursor, Newest
<1>4. app.life # lives
  <2> SUFFICES ASSUME app.life = lives PROVE FALSE
    OBVIOUS
  <2>1. AppHasAll
    BY <1>1, <1>3 DEF InLife, FeedInv, AppFollows
  <2>2. Reached(app) = app.cursor.sequence
    BY <1>3 DEF Reached
  <2> QED BY <1>3, <2>1, <2>2 DEF AppHasAll
<1>5. app'.life = app.life /\ app'.phase \in {"read", "stopped"}
  BY <1>2, <1>3 DEF FeedInv, FeedTypes, AppTypes
<1>6. AppTypes'
  <2>1. Cursor(journal.epoch, Newest(journal)) \in FeedCursor
    BY <1>1 DEF FeedInv, FeedTypes, LogTypes, IsLog, Newest, Cursor, FeedCursor
  <2> QED BY <1>1, <1>2, <2>1 DEF FeedInv, FeedTypes, AppTypes, LogStays
<1>7. AppFollows'
  <2>1. app'.life # lives'
    BY <1>1, <1>4, <1>5 DEF LogStays
  <2> QED BY <1>5, <2>1 DEF AppFollows, InLife
<1>8. LogTypes' /\ CliFollows' /\ CliTypes'
  BY <1>1, LogTypesStay, CliStays DEF FeedInv, FeedTypes, CliTypes, LogStays
<1> QED BY <1>6, <1>7, <1>8 DEF FeedInv, FeedTypes

\* While there is no journal nobody follows one.
LEMMA AppRetriesFollows ==
  ASSUME FeedInv, AppRetries
  PROVE  FeedInv'
<1>1. /\ ~Up /\ UNCHANGED <<journal, recorded, saved, lives, cli, told>>
      /\ app' = [app EXCEPT !.phase = "read"]
  BY DEF AppRetries, AppOnly
<1>2. ~Up' /\ LogTypes' /\ CliTypes' /\ AppTypes' /\ app'.phase = "read"
  BY <1>1 DEF Up, FeedInv, FeedTypes, LogTypes, CliTypes, AppTypes
<1>3. AppFollows' /\ CliFollows'
  BY <1>1, <1>2 DEF FeedInv, AppFollows, CliFollows, InLife
<1> QED BY <1>2, <1>3 DEF FeedInv, FeedTypes

LEMMA AppStepFollows == FeedInv /\ AppStep => FeedInv'
BY AppEventsFollows, AppAcknowledgeFollows, AppFellBehindFollows, AppSnapshotFollows,
   AppIsAheadFollows, AppRetriesFollows DEF AppStep

LEMMA CliEventsFollows ==
  ASSUME FeedInv, CliEvents
  PROVE  FeedInv'
<1>1. Up /\ LogStays /\ app' = app
  BY AppStepLog DEF CliEvents, CliOnly, LogStays
<1> DEFINE c == cli.cursor.sequence
           q == journal.published
           passed(end) == Passing(q, c, end, LocalEvents)
<1>2. IsLog(journal) /\ q \in Seq(FeedEvent) /\ Len(q) \in Nat /\ c \in Nat
  BY <1>1 DEF FeedInv, FeedTypes, LogTypes, CliTypes, FeedCursor
<1>3. PICK end \in c .. Newest(journal) :
        Page(journal, cli.cursor, LocalEvents) =
          [events |-> passed(end), next |-> Cursor(journal.epoch, end)]
  <2>1. ~Stale(journal, cli.cursor) /\ ~Ahead(journal, cli.cursor)
    BY DEF CliEvents
  <2> QED BY <1>2, <2>1, PageIs
<1> DEFINE L == end - c
<1>4. L \in Nat /\ c + L = end /\ end \in Nat /\ end <= Newest(journal)
  BY <1>2, <1>3 DEF Newest
<1>5. passed(end) \in Seq(FeedEvent)
  <2> HIDE DEF c, L, q
  <2>1. Elements(q, c, L, FeedEvent)
    BY <1>2, <1>4 DEF Elements, Newest, q
  <2>2. Passing(q, c, c + L, LocalEvents) \in Seq(FeedEvent)
    BY <1>2, <1>4, <2>1, PassingIsWhatPasses
  <2> QED BY <1>4, <2>2
<1>6. cli' = [cli EXCEPT !.printed = @ \o passed(end), !.next = Cursor(journal.epoch, end),
                         !.phase = "acknowledge"]
  BY <1>3 DEF CliEvents
<1>7. cli.phase = "read" /\ journal.epoch = cli.cursor.epoch
  BY DEF CliEvents, Stale
<1>8. Cursor(journal.epoch, end) \in FeedCursor
  BY <1>2, <1>4 DEF IsLog, Cursor, FeedCursor
<1>9. /\ cli'.cursor = cli.cursor /\ cli'.life = cli.life /\ cli'.phase = "acknowledge"
      /\ cli'.printed = cli.printed \o passed(end)
      /\ cli'.next.epoch = journal.epoch /\ cli'.next.sequence = end
  <2> DEFINE p == passed(end)
             n == Cursor(journal.epoch, end)
  <2>1. n.epoch = journal.epoch /\ n.sequence = end
    BY DEF Cursor
  <2> HIDE DEF p, n
  <2>2. cli' = [cli EXCEPT !.printed = @ \o p, !.next = n, !.phase = "acknowledge"]
    BY <1>6 DEF p, n
  <2>3. /\ cli'.cursor = cli.cursor /\ cli'.life = cli.life /\ cli'.phase = "acknowledge"
        /\ cli'.printed = cli.printed \o p /\ cli'.next = n
    BY <2>2 DEF FeedInv, FeedTypes, CliTypes
  <2> QED BY <2>1, <2>3 DEF p
<1>10. CliTypes'
  <2> DEFINE p == passed(end)
             n == Cursor(journal.epoch, end)
  <2> HIDE DEF p, n
  <2>1. cli' = [cli EXCEPT !.printed = @ \o p, !.next = n, !.phase = "acknowledge"]
    BY <1>6 DEF p, n
  <2>2. p \in Seq(FeedEvent) /\ n \in FeedCursor
    BY <1>5, <1>8 DEF p, n
  <2>3. cli.printed \in Seq(FeedEvent)
    BY DEF FeedInv, FeedTypes, CliTypes
  <2> DEFINE all == cli.printed \o p
  <2>4. all \in Seq(FeedEvent)
    BY <2>2, <2>3
  <2> HIDE DEF all
  <2>5. cli' = [cli EXCEPT !.printed = all, !.next = n, !.phase = "acknowledge"]
    BY <2>1 DEF all
  <2> QED BY <1>1, <2>2, <2>4, <2>5 DEF FeedInv, FeedTypes, CliTypes, LogStays
<1>11. InLife(cli)' => CliHasAll'
  <2> SUFFICES ASSUME InLife(cli)' PROVE CliHasAll'
    OBVIOUS
  <2>1. CliHasAll
    BY <1>1, <1>9 DEF InLife, LogStays, SameLog, FeedInv, CliFollows
  <2>2. cli.next.sequence = c
    BY <1>7 DEF FeedInv, CliFollows
  <2>3. cli.printed = Passing(q, 0, c, LocalEvents)
    BY <2>1, <2>2 DEF CliHasAll
  <2>4. Passing(q, 0, end, LocalEvents) = Passing(q, 0, c, LocalEvents) \o passed(end)
    <3> HIDE DEF c, L, q
    <3>1. Elements(q, 0, c + L, FeedEvent)
      BY <1>2, <1>4 DEF Elements, Newest, q
    <3>2. Joins(q, c, L, LocalEvents)
      BY <1>2, <1>4, <3>1, PassingJoins
    <3> QED BY <1>4, <3>2 DEF Joins
  <2>5. cli'.printed = Passing(q, 0, end, LocalEvents)
    BY <1>9, <2>3, <2>4
  <2>6. Newest(journal') = Newest(journal) /\ LocalEvents' = LocalEvents /\ journal'.published = q
    BY <1>1 DEF LogStays, SameLog, Newest, LocalEvents
  <2> QED BY <1>4, <1>9, <2>5, <2>6 DEF CliHasAll
<1>12. CliFollows'
  <2>1. cli'.life = lives' => cli'.cursor.epoch <= journal'.epoch
    BY <1>1, <1>9 DEF FeedInv, CliFollows, LogStays, SameLog
  <2> QED BY <1>7, <1>9, <1>11, <2>1 DEF CliFollows
<1>13. LogTypes' /\ AppFollows' /\ AppTypes'
  BY <1>1, LogTypesStay, AppStays DEF FeedInv, FeedTypes, AppTypes, LogStays
<1> QED BY <1>10, <1>12, <1>13 DEF FeedInv, FeedTypes

LEMMA CliAcknowledgeFollows ==
  ASSUME FeedInv, CliAcknowledge
  PROVE  FeedInv'
<1>1. Up /\ LogStays /\ app' = app
  <2>1. \E j \in ExpireIdle(journal) : \E s, c : journal' = AfterAcknowledge(j, s, c)
    BY DEF CliAcknowledge
  <2> QED BY <2>1, AppStepLog DEF CliAcknowledge, CliOnly, LogStays
<1>2. \/ cli' = [cli EXCEPT !.cursor = cli.next, !.phase = "read"]
      \/ cli' = [cli EXCEPT !.phase = "stopped"]
  BY DEF CliAcknowledge
<1>3. cli.phase = "acknowledge" /\ cli.next.epoch = cli.cursor.epoch
  BY DEF CliAcknowledge, FeedInv, CliFollows
<1>4. /\ cli'.life = cli.life /\ cli'.printed = cli.printed /\ cli'.next = cli.next
      /\ cli'.phase \in {"read", "stopped"} /\ cli'.cursor \in {cli.cursor, cli.next}
      /\ cli'.phase = "read" => cli'.cursor = cli.next
  BY <1>2 DEF FeedInv, FeedTypes, CliTypes
<1>5. CliTypes'
  BY <1>1, <1>2 DEF FeedInv, FeedTypes, CliTypes, LogStays
<1>6. cli'.cursor.epoch = cli.cursor.epoch
  BY <1>3, <1>4
<1>7. InLife(cli)' => CliHasAll'
  <2> SUFFICES ASSUME InLife(cli)' PROVE CliHasAll'
    OBVIOUS
  <2>1. CliHasAll
    BY <1>1, <1>4, <1>6 DEF InLife, LogStays, SameLog, FeedInv, CliFollows
  <2>2. /\ Newest(journal') = Newest(journal) /\ LocalEvents' = LocalEvents
        /\ journal'.published = journal.published
    BY <1>1 DEF LogStays, SameLog, Newest, LocalEvents
  <2> QED BY <1>4, <2>1, <2>2 DEF CliHasAll
<1>8. CliFollows'
  <2>1. cli'.life = lives' => cli'.cursor.epoch <= journal'.epoch
    BY <1>1, <1>4, <1>6 DEF FeedInv, CliFollows, LogStays, SameLog
  <2> QED BY <1>4, <1>7, <2>1 DEF CliFollows
<1>9. LogTypes' /\ AppFollows' /\ AppTypes'
  BY <1>1, LogTypesStay, AppStays DEF FeedInv, FeedTypes, AppTypes, LogStays
<1> QED BY <1>5, <1>8, <1>9 DEF FeedInv, FeedTypes

LEMMA CliStopsFollows ==
  ASSUME FeedInv, CliStops
  PROVE  FeedInv'
<1>1. /\ UNCHANGED <<journal, recorded, saved, lives, app, told>>
      /\ cli' = [cli EXCEPT !.phase = "stopped"]
  BY DEF CliStops, CliOnly
<1>2. /\ cli'.life = cli.life /\ cli'.printed = cli.printed /\ cli'.next = cli.next
      /\ cli'.phase = "stopped" /\ cli'.cursor = cli.cursor
  BY <1>1 DEF FeedInv, FeedTypes, CliTypes
<1>3. LogTypes' /\ AppTypes' /\ CliTypes'
  BY <1>1 DEF Up, FeedInv, FeedTypes, LogTypes, AppTypes, CliTypes
<1>4. AppFollows'
  <2>1. (AppHasAll' <=> AppHasAll) /\ (InLife(app)' <=> InLife(app)) /\ (Up' <=> Up)
    BY <1>1 DEF AppHasAll, Reached, IsToBeKnown, InLife, LocalEvents, Up
  <2> QED BY <1>1, <2>1 DEF FeedInv, AppFollows
<1>5. CliFollows'
  <2>1. (CliHasAll' <=> CliHasAll) /\ (InLife(cli)' <=> InLife(cli)) /\ (Up' <=> Up)
    BY <1>1, <1>2 DEF CliHasAll, InLife, LocalEvents, Up
  <2> QED BY <1>1, <1>2, <2>1 DEF FeedInv, CliFollows
<1> QED BY <1>3, <1>4, <1>5 DEF FeedInv, FeedTypes

LEMMA CliStepFollows == FeedInv /\ CliStep => FeedInv'
BY CliEventsFollows, CliAcknowledgeFollows, CliStopsFollows DEF CliStep

-----------------------------------------------------------------------------
(* The daemon's steps.                                                     *)

LEMMA ReadersKeepTypes ==
  ASSUME FeedInv, UNCHANGED <<app, cli>>, told \subseteq told', lives' \in Nat, lives <= lives'
  PROVE  AppTypes' /\ CliTypes'
<1>1. \A n \in 0 .. lives : n \in 0 .. lives'
  BY DEF FeedInv, FeedTypes, LogTypes
<1> QED BY <1>1 DEF FeedInv, FeedTypes, AppTypes, CliTypes

\* An event is published, or only the journal was made ready for it.
LEMMA RecordFollows ==
  ASSUME FeedInv, Up, NEW e \in FeedEvent, Record(e), UNCHANGED <<lives, app, cli>>
  PROVE  FeedInv'
<1> DEFINE ready == Prepared(journal, e)
           next == With(recorded, e)
<1>1. /\ IsLog(journal) /\ journal.published \in Seq(FeedEvent) /\ told \subseteq FeedEvent
      /\ \A i \in 1 .. Newest(journal) : journal.published[i] \in told
      /\ recorded \in Numbers /\ saved \in Numbers /\ lives \in Nat /\ IsFiniteSet(told)
  BY DEF FeedInv, FeedTypes, LogTypes
<1>2. next \in Numbers
  BY <1>1, WithIs
<1>3. /\ IsLog(ready) /\ ready.published \in Seq(FeedEvent)
      /\ \A i \in 1 .. Newest(ready) : ready.published[i] \in told
      /\ ready = journal \/ ready.epoch = journal.epoch + 1
  <2>1. CASE ready = journal
    BY <1>1, <2>1
  <2>2. CASE IsLog(ready) /\ ready.epoch = journal.epoch + 1 /\ ready.published = <<>>
    BY <2>2 DEF Newest
  <2> HIDE DEF ready
  <2>3. \/ ready = journal
        \/ IsLog(ready) /\ ready.epoch = journal.epoch + 1 /\ ready.published = <<>>
    BY <1>1, PreparedIs DEF ready
  <2> QED BY <2>1, <2>2, <2>3
<1>4. journal.epoch \in Nat /\ ready.epoch \in Nat
  BY <1>1, <1>3 DEF IsLog
<1> HIDE DEF ready, next
<1>5. CASE UNCHANGED <<journal, recorded, saved, told>>
  <2>1. LogStays
    BY <1>5 DEF LogStays, SameLog
  <2>2. LogTypes' /\ AppFollows' /\ CliFollows'
    BY <2>1, LogTypesStay, AppStays, CliStays DEF FeedInv, FeedTypes
  <2>3. AppTypes' /\ CliTypes'
    BY <1>1, <1>5, ReadersKeepTypes
  <2> QED BY <2>2, <2>3 DEF FeedInv, FeedTypes
<1>6. CASE journal' = ready /\ recorded' = recorded /\ told' = told /\ saved' \in {saved, next}
  <2>1. LogTypes'
    BY <1>1, <1>2, <1>3, <1>6 DEF LogTypes
  <2>2. AppFollows' /\ CliFollows'
    <3>1. CASE ready = journal
      BY <1>6, <3>1 DEF FeedInv, AppFollows, CliFollows, InLife, Up, AppHasAll, CliHasAll, Reached,
                       IsToBeKnown, LocalEvents
    <3>2. CASE ready.epoch = journal.epoch + 1
      BY <1>4, <1>6, <3>2, RotationLosesReaders
    <3> QED BY <1>3, <3>1, <3>2
  <2> QED BY <1>1, <1>6, <2>1, <2>2, ReadersKeepTypes DEF FeedInv, FeedTypes
<1>7. CASE journal' \in Published(ready, e) /\ told' = told \cup {e} /\ recorded' = next /\ saved' = next
  <2>1. IsLog(journal') /\ journal'.epoch = ready.epoch /\ journal'.published = Append(ready.published, e)
    BY <1>3, <1>7, PublishedGrows
  <2>2. LogTypes'
    <3>1. \A i \in 1 .. Newest(journal') : journal'.published[i] \in told'
      BY <1>3, <1>7, <2>1 DEF Newest
    <3>2. IsFiniteSet(told')
      BY <1>1, <1>7, FS_AddElement
    <3>3. told' \subseteq FeedEvent
      BY <1>1, <1>7
    <3>4. journal'.published \in Seq(FeedEvent)
      BY <1>3, <2>1
    <3> QED BY <1>1, <1>2, <1>7, <2>1, <3>1, <3>2, <3>3, <3>4 DEF LogTypes
  <2>3. AppFollows' /\ CliFollows'
    <3>1. CASE ready = journal
      BY <1>7, <2>1, <3>1, AppFollowsOn, CliFollowsOn DEF next
    <3>2. CASE ready.epoch = journal.epoch + 1
      BY <1>4, <2>1, <3>2, RotationLosesReaders
    <3> QED BY <1>3, <3>1, <3>2
  <2> QED BY <1>1, <1>7, <2>2, <2>3, ReadersKeepTypes DEF FeedInv, FeedTypes
<1>8. \/ UNCHANGED <<journal, recorded, saved, told>>
      \/ journal' = ready /\ recorded' = recorded /\ told' = told /\ saved' \in {saved, next}
      \/ journal' \in Published(ready, e) /\ told' = told \cup {e} /\ recorded' = next /\ saved' = next
  BY DEF Record, ready, next
<1> QED BY <1>5, <1>6, <1>7, <1>8

LEMMA RecordActivityFollows ==
  ASSUME FeedInv, NEW a \in Activities, RecordActivity(a)
  PROVE  FeedInv'
<1>1. Event(a, "progress") \in FeedEvent
  BY EventIs DEF FeedInv, FeedTypes
<1> QED BY <1>1, RecordFollows DEF RecordActivity

LEMMA StopFollows ==
  ASSUME FeedInv, Stop
  PROVE  FeedInv'
<1>1. journal' = None /\ recorded' = <<>> /\ UNCHANGED <<lives, app, cli, told>>
  BY DEF Stop
<1>2. ~Up'
  BY <1>1 DEF Up
<1>3. recorded' \in Numbers
  <2>1. <<>> \in [{} -> Nat] /\ {} \in SUBSET Activities
    OBVIOUS
  <2> QED BY <1>1, <2>1 DEF Numbers
<1>4. saved' \in Numbers
  <2>1. saved \in Numbers /\ recorded \in Numbers
    BY DEF FeedInv, FeedTypes, LogTypes
  <2>2. \A a \in Activities : With(recorded, Event(a, "progress")) \in Numbers
    BY <2>1, EventIs, WithIs DEF FeedInv, FeedTypes
  <2>3. saved' = saved \/ \E a \in Activities : saved' = With(recorded, Event(a, "progress"))
    BY DEF Stop
  <2> QED BY <2>1, <2>2, <2>3
<1>5. FeedTypes'
  <2>1. LogTypes'
    BY <1>1, <1>2, <1>3, <1>4 DEF FeedInv, FeedTypes, LogTypes
  <2>2. lives \in Nat
    BY DEF FeedInv, FeedTypes, LogTypes
  <2> QED BY <1>1, <2>1, <2>2, ReadersKeepTypes DEF FeedTypes
<1>6. AppFollows' /\ CliFollows'
  BY <1>1, <1>2 DEF FeedInv, AppFollows, CliFollows, InLife
<1> QED BY <1>5, <1>6 DEF FeedInv

\* A journal of a new life is nobody's yet.
LEMMA StartFollows ==
  ASSUME FeedInv, Start
  PROVE  FeedInv'
<1> DEFINE j == Restored(Journal(1), saved)
<1>1. lives' = lives + 1 /\ UNCHANGED <<app, cli>>
  BY DEF Start
<1>2. /\ lives \in Nat /\ saved \in Numbers /\ told \subseteq FeedEvent /\ IsFiniteSet(told)
      /\ app.life \in 0 .. lives /\ app.servedIn \in 0 .. lives /\ cli.life \in 0 .. lives
  BY DEF FeedInv, FeedTypes, LogTypes, AppTypes, CliTypes
<1>3. app'.life # lives' /\ app'.servedIn # lives' /\ cli'.life # lives'
  BY <1>1, <1>2
<1>4. IsLog(j) /\ j.published = <<>> /\ <<>> \in Seq(FeedEvent) /\ Newest(j) = 0
  BY DEF Restored, Journal, IsLog, Newest
<1> HIDE DEF j
<1>5. LogTypes' /\ told \subseteq told'
  <2>1. CASE journal' = j /\ recorded' = saved /\ UNCHANGED <<saved, told>>
    <3>1. IsLog(journal') /\ journal'.published \in Seq(FeedEvent) /\ 1 .. Newest(journal') = {}
      <4>1. 1 .. Newest(j) = {} /\ j.published \in Seq(FeedEvent)
        BY <1>4
      <4> QED BY <1>4, <2>1, <4>1
    <3>2. lives' \in Nat
      BY <1>1, <1>2
    <3> QED BY <1>2, <2>1, <3>1, <3>2 DEF LogTypes
  <2>2. ASSUME NEW a \in DOMAIN saved, NEW e,
               e = [activity |-> a, what |-> "interrupted", sequence |-> saved[a] + 1],
               journal' \in Published(j, e), told' = told \cup {e},
               recorded' = With(saved, e), saved' = recorded'
        PROVE  LogTypes' /\ told \subseteq told'
    <3>1. e \in FeedEvent
      <4>1. PICK S \in SUBSET Activities : saved \in [S -> Nat]
        BY <1>2 DEF Numbers
      <4>2. a \in Activities /\ saved[a] + 1 \in Nat
        BY <4>1
      <4> QED BY <2>2, <4>2 DEF FeedEvent
    <3>2. IsLog(journal') /\ journal'.published = Append(<<>>, e)
      BY <1>4, <2>2, <3>1, PublishedGrows
    <3>3. recorded' \in Numbers
      BY <1>2, <2>2, <3>1, WithIs
    <3>4. /\ journal'.published \in Seq(FeedEvent)
          /\ \A i \in 1 .. Newest(journal') : journal'.published[i] \in told'
      BY <2>2, <3>1, <3>2 DEF Newest
    <3>5. IsFiniteSet(told') /\ told' \subseteq FeedEvent /\ told \subseteq told'
      BY <1>2, <2>2, <3>1, FS_AddElement
    <3> QED BY <1>1, <1>2, <2>2, <3>2, <3>3, <3>4, <3>5 DEF LogTypes
  <2>3. \/ journal' = j /\ recorded' = saved /\ UNCHANGED <<saved, told>>
        \/ \E a \in DOMAIN saved : \E e :
             /\ e = [activity |-> a, what |-> "interrupted", sequence |-> saved[a] + 1]
             /\ journal' \in Published(j, e) /\ told' = told \cup {e}
             /\ recorded' = With(saved, e) /\ saved' = recorded'
    BY DEF Start, j
  <2> QED BY <2>1, <2>2, <2>3
<1>6. FeedTypes'
  BY <1>1, <1>2, <1>5, ReadersKeepTypes DEF FeedTypes
<1>7. AppFollows' /\ CliFollows'
  BY <1>1, <1>3 DEF FeedInv, AppFollows, CliFollows, InLife
<1> QED BY <1>6, <1>7 DEF FeedInv

LEMMA FeedInvIsInductive ==
  ASSUME FeedInv, [Next]_feedVars
  PROVE  FeedInv'
<1>1. CASE UNCHANGED feedVars
  BY <1>1 DEF feedVars, vars, FeedInv, FeedTypes, LogTypes, AppTypes, CliTypes, AppFollows, CliFollows,
             AppHasAll, CliHasAll, Reached, IsToBeKnown, InLife, LocalEvents, Up
<1>2. CASE Next
  BY <1>2, RecordActivityFollows, StopFollows, StartFollows, AppStepFollows, CliStepFollows DEF Next
<1> QED BY <1>1, <1>2

\* With all the events up to the end, the last state of every activity is known.
LEMMA FeedInvIsComplete == FeedInv => FeedIsComplete
<1> SUFFICES ASSUME FeedInv PROVE FeedIsComplete
  OBVIOUS
<1>1. AppMissesNothing
  <2> SUFFICES ASSUME InLife(app), NEW i \in app.from + 1 .. app.cursor.sequence,
                      journal.published[i] \in LocalEvents
               PROVE  journal.published[i] \in app.seen
    BY DEF AppMissesNothing
  <2>1. AppHasAll
    BY DEF FeedInv, AppFollows
  <2>2. i \in app.from + 1 .. Reached(app)
    <3>1. /\ app.from \in Nat /\ app.cursor.sequence \in Nat /\ Reached(app) \in Nat
          /\ app.cursor.sequence <= Reached(app)
      BY <2>1 DEF FeedInv, FeedTypes, AppTypes, FeedCursor, Reached, AppHasAll
    <3> QED BY <3>1
  <2> QED BY <2>1, <2>2 DEF AppHasAll
<1>2. CaughtUpKnowsAll
  <2> SUFFICES ASSUME InLife(app), app.phase = "read", app.cursor.sequence = Newest(journal),
                      NEW a \in DOMAIN recorded \cap Local
               PROVE  Known(a) >= recorded[a]
    BY DEF CaughtUpKnowsAll
  <2> DEFINE events == {f \in app.seen : f.activity = a}
             heard == {e.sequence : e \in events}
             fetched == IF a \in DOMAIN app.snapshot THEN {app.snapshot[a]} ELSE {}
             S == heard \cup {0} \cup fetched
  <2>1. AppHasAll /\ Reached(app) = Newest(journal)
    BY DEF FeedInv, AppFollows, Reached
  <2>2. /\ app.seen \subseteq told /\ told \subseteq FeedEvent /\ IsFiniteSet(told)
        /\ app.snapshot \in Numbers /\ recorded \in Numbers
    BY DEF FeedInv, FeedTypes, LogTypes, AppTypes
  <2>3. fetched \subseteq Nat /\ recorded[a] \in Nat
    <3>1. PICK R \in SUBSET Activities : app.snapshot \in [R -> Nat]
      BY <2>2 DEF Numbers
    <3>2. PICK Q \in SUBSET Activities : recorded \in [Q -> Nat]
      BY <2>2 DEF Numbers
    <3> QED BY <3>1, <3>2
  <2>4. heard \subseteq Nat /\ IsFiniteSet(heard)
    <3>1. IsFiniteSet(events)
      <4>1. events \subseteq told
        BY <2>2
      <4> HIDE DEF events
      <4> QED BY <2>2, <4>1, FS_Subset
    <3>2. \A e \in events : e.sequence \in Nat
      BY <2>2 DEF FeedEvent
    <3> DEFINE f == [e \in events |-> e.sequence]
    <3>3. f \in Surjection(events, heard)
      BY DEF Surjection
    <3> HIDE DEF events, f, heard
    <3>4. IsFiniteSet(heard)
      BY <3>1, <3>3, FS_Surjection
    <3> QED BY <3>2, <3>4 DEF heard
  <2>5. IsFiniteSet(fetched)
    BY FS_EmptySet, FS_Singleton
  <2>6. S \subseteq Nat /\ IsFiniteSet(S) /\ S # {}
    <3>1. IsFiniteSet({0})
      BY FS_Singleton
    <3> DEFINE some == heard \cup {0}
    <3> HIDE DEF heard, fetched
    <3>2. some \subseteq Nat /\ 0 \in some
      BY <2>4
    <3>3. IsFiniteSet(some)
      BY <2>4, <3>1, FS_Union
    <3> HIDE DEF some
    <3>4. IsFiniteSet(some \cup fetched)
      BY <2>5, <3>3, FS_Union
    <3> QED BY <2>3, <3>2, <3>4 DEF some
  <2>7. Known(a) = Max(S)
    BY DEF Known
  <2>8. recorded[a] \in S
    <3>1. IsToBeKnown(a)
      BY <2>1 DEF AppHasAll
    <3>2. CASE a \in DOMAIN app.snapshot /\ app.snapshot[a] = recorded[a]
      BY <3>2
    <3>3. CASE \E i \in app.from + 1 .. Newest(journal) :
                 journal.published[i].activity = a /\ journal.published[i].sequence = recorded[a]
      <4>1. PICK i \in app.from + 1 .. Newest(journal) :
              journal.published[i].activity = a /\ journal.published[i].sequence = recorded[a]
        BY <3>3
      <4>2. i \in 1 .. Newest(journal)
        BY <4>1 DEF FeedInv, FeedTypes, LogTypes, AppTypes, InLife, Newest
      <4>3. journal.published[i] \in LocalEvents
        BY <4>1, <4>2 DEF LocalEvents, FeedInv, FeedTypes, LogTypes, InLife
      <4>4. journal.published[i] \in events
        BY <2>1, <4>1, <4>3 DEF AppHasAll
      <4>5. recorded[a] \in heard
        <5> HIDE DEF events
        <5> QED BY <4>1, <4>4
      <4> QED BY <4>5
    <3> QED BY <3>1, <3>2, <3>3 DEF IsToBeKnown
  <2> HIDE DEF S
  <2>9. recorded[a] <= Max(S) /\ Max(S) \in Nat
    BY <2>6, <2>8, GreatestNumber
  <2> QED BY <2>3, <2>7, <2>9
<1>3. WatchedInOrder
  <2> SUFFICES ASSUME InLife(cli) PROVE WatchedInOrder
    BY DEF WatchedInOrder
  <2>1. CliHasAll
    BY DEF FeedInv, CliFollows
  <2>2. cli.phase = "read" => cli.next.sequence = cli.cursor.sequence
    BY DEF FeedInv, CliFollows
  <2> QED BY <2>1, <2>2 DEF WatchedInOrder, CliHasAll
<1> QED BY <1>1, <1>2, <1>3 DEF FeedIsComplete

\* Nobody who follows the event journal misses a local event or the last state
\* of a local activity, or sees events twice or out of order: for any number of
\* activities, any capacity of the journal and its pages, and any number of
\* events, failed saves, rotations and stops of the daemon.
THEOREM FeedsAreComplete == Spec => []FeedIsComplete
<1>1. Init => FeedInv
  BY FeedStarts
<1>2. FeedInv /\ [Next]_feedVars => FeedInv'
  BY FeedInvIsInductive
<1>3. FeedInv => FeedIsComplete
  BY FeedInvIsComplete
<1>4. Spec => Init /\ [][Next]_feedVars
  BY DEF Spec, feedVars
<1> QED BY <1>1, <1>2, <1>3, <1>4, PTL

(***************************************************************************)
(* AuditPages: whoever reads page after page with one filter misses no     *)
(* record and sees none twice, for any number of records and pages, and    *)
(* whatever is appended, deleted or dropped meanwhile.                     *)
(*                                                                         *)
(* The log is in the order of its numbers (LogOK), and so is what a filter *)
(* selects of it (SelectedAscends).  What was read so far and the cursor   *)
(* that comes with it are WalkOK: the first of what the filter selects, up *)
(* to the cursor, but for records that are removed.  That is stated of the *)
(* page that is shown, and of an answer on its way as if it were received  *)
(* (WalkInv).  A walk is over with the page that it has when what it read  *)
(* is what an export has, since two sequences in the order of their        *)
(* numbers, of the same records, are the same (AscendingIsUnique).         *)
(***************************************************************************)
PageRecord == [seq : Nat, tag : Tags \cup {"deletion"}]

Ascends(s) == \A i, j \in 1 .. Len(s) : i < j => s[i].seq < s[j].seq

LEMMA ListIs ==
  ASSUME NEW s \in Seq(PageRecord)
  PROVE  /\ Len(s) \in Nat
         /\ \A i \in 1 .. Len(s) : s[i] \in PageRecord /\ s[i].seq \in Nat /\ s[i] \in Range(s)
         /\ \A x \in Range(s) : x \in PageRecord /\ x.seq \in Nat /\ \E i \in 1 .. Len(s) : s[i] = x
<1>1. Len(s) \in Nat /\ DOMAIN s = 1 .. Len(s) /\ \A i \in 1 .. Len(s) : s[i] \in PageRecord
  OBVIOUS
<1>2. \A r \in PageRecord : r.seq \in Nat
  BY DEF PageRecord
<1> QED BY <1>1, <1>2 DEF Range

LEMMA SelectedIs ==
  ASSUME NEW T, NEW q \in Seq(T), NEW S
  PROVE  /\ Selected(q, S) \in Seq(T)
         /\ Range(Selected(q, S)) = Range(q) \cap S
<1> DEFINE L == Len(q)
<1>1. L \in Nat /\ 0 + L = L /\ 0 \in Nat /\ Elements(q, 0, L, T)
  BY DEF Elements
<1>2. Selected(q, S) = Passing(q, 0, 0 + L, S)
  BY <1>1 DEF Selected
<1> HIDE DEF L
<1>3. /\ Passing(q, 0, 0 + L, S) \in Seq(T)
      /\ IsWhatPasses(Passing(q, 0, 0 + L, S), q, 0, L, S)
  BY <1>1, PassingIsWhatPasses
<1>4. Range(q) = {q[i] : i \in 0 + 1 .. 0 + L}
  BY <1>1 DEF Range, L
<1> QED BY <1>2, <1>3, <1>4 DEF IsWhatPasses

LEMMA AscendsAppend ==
  ASSUME NEW s \in Seq(PageRecord), Ascends(s), NEW r \in PageRecord,
         \A x \in Range(s) : x.seq < r.seq
  PROVE  Ascends(Append(s, r))
<1>1. \A i \in 1 .. Len(s) : s[i] \in Range(s)
  BY DEF Range
<1> QED BY <1>1 DEF Ascends

LEMMA SelectedAscends ==
  ASSUME NEW q \in Seq(PageRecord), Ascends(q), NEW S
  PROVE  Ascends(Selected(q, S))
<1> DEFINE L == Len(q)
<1>1. L \in Nat /\ 0 + L = L /\ 0 \in Nat /\ Elements(q, 0, L, PageRecord)
  BY DEF Elements
<1> HIDE DEF L
<1>2. PICK f : Passes(f, q, 0, L, S, PageRecord)
  BY <1>1, PassingGoesOn
<1>3. \A k \in 0 .. L : f[k] \in Seq(PageRecord) /\ Passing(q, 0, 0 + k, S) = f[k]
  BY <1>2 DEF Passes, IsPassing
<1> DEFINE K == {k \in 0 .. L : Ascends(f[k])}
<1>4. 0 \in K
  <2>1. f[0] = <<>> /\ 0 \in 0 .. L
    BY <1>1, <1>2 DEF Passes, IsPassing
  <2> QED BY <2>1 DEF Ascends
<1>5. ASSUME NEW k \in 1 .. L, Ascends(f[k - 1])
      PROVE  Ascends(f[k])
  <2>1. k - 1 \in 0 .. L /\ k - 1 \in Nat /\ 0 + k = k
    BY <1>1
  <2>2. Elements(q, 0, k - 1, PageRecord)
    BY <1>1, <2>1, ElementsUpTo
  <2> DEFINE n == k - 1
  <2>3. \A x \in Range(f[n]) : \E i \in 0 + 1 .. 0 + n : q[i] = x
    <3>1. IsWhatPasses(Passing(q, 0, 0 + n, S), q, 0, n, S)
      <4> HIDE DEF n
      <4> QED BY <2>1, <2>2, <1>1, PassingIsWhatPasses DEF n
    <3> QED BY <1>3, <2>1, <3>1 DEF IsWhatPasses
  <2>4. \A x \in Range(f[n]) : x.seq < q[k].seq
    <3>1. \A i \in 0 + 1 .. 0 + n : i \in 1 .. Len(q) /\ k \in 1 .. Len(q) /\ i < k
      BY <1>1, <2>1 DEF L
    <3> QED BY <2>3, <3>1 DEF Ascends
  <2>5. q[k] \in PageRecord /\ f[n] \in Seq(PageRecord)
    BY <1>1, <1>3, <2>1 DEF Elements
  <2>6. f[k] = Grown(f[n], q[0 + k], S)
    BY <1>2 DEF Passes, IsPassing
  <2> HIDE DEF n
  <2>7. Ascends(f[n])
    BY <1>5 DEF n
  <2> QED BY <2>1, <2>4, <2>5, <2>6, <2>7, AscendsAppend DEF Grown
<1>6. L \in K
  <2>1. \A k \in 1 .. L : k - 1 \in K => k \in K
    BY <1>5
  <2>2. \A k \in 0 .. L : k \in K
    <3> HIDE DEF K
    <3> QED BY <1>1, <1>4, <2>1, NumbersUpTo
  <2> QED BY <1>1, <2>2
<1> QED BY <1>1, <1>3, <1>6 DEF Selected, L

\* Up to a number, two sequences in order that have the same records are the same.
LEMMA AscendingAgree ==
  ASSUME NEW s \in Seq(PageRecord), NEW t \in Seq(PageRecord), Ascends(s), Ascends(t),
         Range(s) = Range(t), NEW k \in Nat, k <= Len(s), k <= Len(t)
  PROVE  \A i \in 1 .. k : s[i] = t[i]
<1> DEFINE Agree(n) == \A i \in 1 .. n : s[i] = t[i]
           K == {n \in 0 .. k : Agree(n)}
<1>1. 0 \in K
  OBVIOUS
<1>2. ASSUME NEW n \in 1 .. k, Agree(n - 1)
      PROVE  Agree(n)
  <2>1. n \in 1 .. Len(s) /\ n \in 1 .. Len(t)
    OBVIOUS
  <2>2. PICK j \in 1 .. Len(t) : t[j] = s[n]
    BY <2>1, ListIs
  <2>3. PICK i \in 1 .. Len(s) : s[i] = t[n]
    BY <2>1, ListIs
  <2>4. \A m \in 1 .. Len(s) : s[m].seq \in Nat
    BY ListIs
  <2>5. \A m \in 1 .. Len(t) : t[m].seq \in Nat
    BY ListIs
  <2>6. j >= n
    <3> SUFFICES ASSUME j < n PROVE FALSE
      OBVIOUS
    <3>1. j \in 1 .. n - 1 /\ j \in 1 .. Len(s)
      OBVIOUS
    <3>2. s[j] = s[n]
      BY <1>2, <2>2, <3>1
    <3> QED BY <2>1, <2>4, <3>1, <3>2 DEF Ascends
  <2>7. i >= n
    <3> SUFFICES ASSUME i < n PROVE FALSE
      OBVIOUS
    <3>1. i \in 1 .. n - 1 /\ i \in 1 .. Len(t)
      OBVIOUS
    <3>2. t[i] = t[n]
      BY <1>2, <2>3, <3>1
    <3> QED BY <2>1, <2>5, <3>1, <3>2 DEF Ascends
  <2>8. s[n] = t[n]
    <3>1. CASE j = n
      BY <2>2, <3>1
    <3>2. CASE i = n
      BY <2>3, <3>2
    <3>3. CASE j > n /\ i > n
      <4>1. t[n].seq < t[j].seq /\ s[n].seq < s[i].seq
        BY <2>1, <3>3 DEF Ascends
      <4> QED BY <2>1, <2>2, <2>3, <2>4, <2>5, <4>1
    <3> QED BY <2>6, <2>7, <3>1, <3>2, <3>3
  <2> QED BY <1>2, <2>8
<1>3. \A n \in 1 .. k : n - 1 \in K => n \in K
  <2> HIDE DEF Agree
  <2> QED BY <1>2
<1>4. \A n \in 0 .. k : n \in K
  <2> HIDE DEF K
  <2> QED BY <1>1, <1>3, NumbersUpTo
<1> QED BY <1>4

LEMMA AscendingIsUnique ==
  ASSUME NEW s \in Seq(PageRecord), NEW t \in Seq(PageRecord), Ascends(s), Ascends(t),
         Range(s) = Range(t)
  PROVE  s = t
<1>1. ASSUME NEW u \in Seq(PageRecord), NEW v \in Seq(PageRecord), Ascends(u), Ascends(v),
             Range(u) = Range(v)
      PROVE  Len(u) <= Len(v)
  <2> SUFFICES ASSUME Len(v) < Len(u) PROVE FALSE
    OBVIOUS
  <2> DEFINE n == Len(v) + 1
  <2>1. n \in 1 .. Len(u) /\ Len(v) \in Nat
    OBVIOUS
  <2>2. PICK j \in 1 .. Len(v) : v[j] = u[n]
    BY <1>1, <2>1, ListIs
  <2>3. u[j] = v[j]
    BY <1>1, <2>1, AscendingAgree
  <2>4. j \in 1 .. Len(u) /\ j < n
    BY <2>1
  <2>5. u[j].seq < u[n].seq /\ u[j].seq \in Nat
    BY <1>1, <2>1, <2>4, ListIs DEF Ascends
  <2> QED BY <2>2, <2>3, <2>5
<1>2. Len(s) <= Len(t) /\ Len(t) <= Len(s)
  BY <1>1
<1>3. Len(s) = Len(t) /\ Len(s) \in Nat
  BY <1>2
<1>4. \A i \in 1 .. Len(s) : s[i] = t[i]
  BY <1>3, AscendingAgree
<1> QED BY <1>3, <1>4

-----------------------------------------------------------------------------
PageAnswer == [ahead : BOOLEAN, items : Seq(PageRecord), next : Nat \cup {None}]

PageRequest ==
  [filter : Pages!Filters, cursor : Nat \cup {None}, answer : {None} \cup PageAnswer]

PagesTypes ==
  /\ records \in Seq(PageRecord) /\ lastRecord \in Nat /\ filter \in Pages!Filters
  /\ page \in PageAnswer /\ request \in {None} \cup PageRequest
  /\ walk \in [filter : SUBSET (Tags \cup {"deletion"}), base : SUBSET PageRecord,
              got : Seq(PageRecord)]

LogOK == Ascends(records) /\ \A r \in Range(records) : r.seq \in 1 .. lastRecord

\* What a walk w began with; R is what the log has, and m the number given last.
BaseOK(w, R, m) ==
  /\ \A b \in w.base : b.seq \in 1 .. m /\ b.tag \in w.filter
  /\ \A r \in R : r.tag \in w.filter => r \in w.base \/ (\A b \in w.base : b.seq < r.seq)

\* What the walk has got up to the cursor n.
WalkOK(g, n, w, R, m) ==
  /\ Ascends(g) /\ \A r \in Range(g) : r.tag \in w.filter /\ r.seq \in 1 .. m
  /\ n = None \/ (g # <<>> /\ g[Len(g)].seq = n)
  /\ \A r \in w.base \cap R : n = None \/ r.seq <= n => r \in Range(g)
  /\ w.base = {} => g = <<>> /\ n = None
  /\ \A r \in Range(g) : /\ r \in w.base \/ \A b \in w.base : b.seq < r.seq
                         /\ r \in R \/ \A s \in R : r.seq < s.seq

IsAnswered == request # None /\ request.answer # None

WalkInv ==
  /\ walk.filter # {} /\ (request = None \/ request.cursor # None) =>
       /\ BaseOK(walk, Range(records), lastRecord)
       /\ WalkOK(walk.got, page.next, walk, Range(records), lastRecord)
  /\ request # None /\ request.cursor # None => request.cursor = page.next
  /\ IsAnswered /\ request.answer.ahead => request.cursor # None
  /\ IsAnswered /\ request.cursor = None => walk.filter = request.filter
  /\ IsAnswered /\ ~request.answer.ahead /\ request.filter = walk.filter =>
       /\ BaseOK(walk, Range(records), lastRecord)
       /\ WalkOK(walk.got \o request.answer.items, request.answer.next, walk, Range(records),
                 lastRecord)

PagesInv == PagesTypes /\ LogOK /\ WalkInv

\* An answer of the records R, of those that f selects after a number.
QueryOK(q, f, after, R) ==
  /\ q \in PageAnswer /\ Ascends(q.items) /\ (q.ahead => after # 0)
  /\ \A r \in Range(q.items) : r \in R /\ r.tag \in f /\ after < r.seq
  /\ q.items = <<>> => q.next = None /\ \A r \in R : r.tag \in f => ~(after < r.seq)
  /\ q.items # <<>> =>
       /\ q.next = q.items[Len(q.items)].seq /\ q.next # None
       /\ \A r \in R : r.tag \in f /\ after < r.seq /\ r.seq <= q.next => r \in Range(q.items)

LEMMA PageTerms ==
  /\ \A q, S : Pages!Selected(q, S) = Selected(q, S)
  /\ \A s : Pages!ToSet(s) = Range(s)
  /\ \A s : Pages!Last(s) = s[Len(s)]
<1>1. \A q, from, end, S : Pages!Passing(q, from, end, S) = Passing(q, from, end, S)
  BY DEF Pages!Passing, Passing
<1> QED BY <1>1 DEF Pages!Selected, Selected, Pages!ToSet, Range, Pages!Last

LEMMA AppendKeepsWalk ==
  ASSUME NEW R, R \subseteq PageRecord, NEW m \in Nat, \A r \in R : r.seq \in 1 .. m,
         NEW w, NEW new \in PageRecord, new.seq = m + 1, BaseOK(w, R, m)
  PROVE  /\ BaseOK(w, R \cup {new}, m + 1)
         /\ \A g, n : WalkOK(g, n, w, R, m) => WalkOK(g, n, w, R \cup {new}, m + 1)
<1>1. \A b \in w.base : b.seq \in 1 .. m + 1 /\ b.seq < new.seq /\ b # new
  BY DEF BaseOK
<1>2. BaseOK(w, R \cup {new}, m + 1)
  BY <1>1 DEF BaseOK
<1>3. ASSUME NEW g, NEW n, WalkOK(g, n, w, R, m)
      PROVE  WalkOK(g, n, w, R \cup {new}, m + 1)
  <2>1. \A r \in Range(g) : r.seq \in 1 .. m + 1 /\ r.seq < new.seq
    BY <1>3 DEF WalkOK
  <2>2. w.base \cap (R \cup {new}) = w.base \cap R
    BY <1>1
  <2> QED BY <1>3, <2>1, <2>2 DEF WalkOK
<1> QED BY <1>2, <1>3

LEMMA DropKeepsWalk ==
  ASSUME NEW S, NEW x, \A s \in S : x.seq < s.seq, NEW m, NEW w, BaseOK(w, S \cup {x}, m)
  PROVE  /\ BaseOK(w, S, m)
         /\ \A g, n : WalkOK(g, n, w, S \cup {x}, m) => WalkOK(g, n, w, S, m)
<1>1. BaseOK(w, S, m)
  BY DEF BaseOK
<1>2. ASSUME NEW g, NEW n, WalkOK(g, n, w, S \cup {x}, m)
      PROVE  WalkOK(g, n, w, S, m)
  BY <1>2 DEF WalkOK
<1> QED BY <1>1, <1>2

LEMMA WalkBegins ==
  ASSUME NEW R, R \subseteq PageRecord, NEW m \in Nat, \A r \in R : r.seq \in 1 .. m,
         NEW f, NEW q, QueryOK(q, f, 0, R), NEW w,
         w.filter = f, w.base = {r \in R : r.tag \in f}
  PROVE  BaseOK(w, R, m) /\ WalkOK(q.items, q.next, w, R, m)
<1>1. BaseOK(w, R, m)
  BY DEF BaseOK
<1>2. \A r \in Range(q.items) : r \in R /\ r.tag \in f /\ r \in w.base
  BY DEF QueryOK
<1>3. \A r \in R : 0 < r.seq
  OBVIOUS
<1>4. q.items \in Seq(PageRecord) /\ (q.items # <<>> => q.next # None)
  BY DEF QueryOK, PageAnswer
<1>5. q.items # <<>> => q.items[Len(q.items)] \in Range(q.items)
  <2>1. q.items # <<>> => Len(q.items) \in 1 .. Len(q.items)
    BY <1>4
  <2> QED BY <1>4, <2>1, ListIs
<1>6. \A r \in w.base \cap R : q.next = None \/ r.seq <= q.next => r \in Range(q.items)
  BY <1>3, <1>4 DEF QueryOK
<1>7. w.base = {} => q.items = <<>> /\ q.next = None
  BY <1>2, <1>5 DEF QueryOK
<1>8. q.next = None \/ (q.items # <<>> /\ q.items[Len(q.items)].seq = q.next)
  BY DEF QueryOK
<1>9. Ascends(q.items)
  BY DEF QueryOK
<1> QED BY <1>1, <1>2, <1>6, <1>7, <1>8, <1>9 DEF WalkOK

LEMMA AscendsJoined ==
  ASSUME NEW g \in Seq(PageRecord), NEW h \in Seq(PageRecord), Ascends(g), Ascends(h),
         \A r \in Range(g), s \in Range(h) : r.seq < s.seq
  PROVE  /\ g \o h \in Seq(PageRecord) /\ Ascends(g \o h) /\ Range(g \o h) = Range(g) \cup Range(h)
         /\ h # <<>> => (g \o h)[Len(g \o h)] = h[Len(h)]
         /\ h = <<>> => g \o h = g
<1>1. /\ g \o h \in Seq(PageRecord) /\ Len(g \o h) = Len(g) + Len(h)
      /\ Len(g) \in Nat /\ Len(h) \in Nat
      /\ \A i \in 1 .. Len(g) : (g \o h)[i] = g[i]
      /\ \A i \in Len(g) + 1 .. Len(g) + Len(h) : (g \o h)[i] = h[i - Len(g)]
  OBVIOUS
<1> DEFINE l == g \o h
<1> HIDE DEF l
<1>2. ASSUME NEW i \in 1 .. Len(l)
      PROVE  \/ i \in 1 .. Len(g) /\ l[i] = g[i] /\ g[i] \in Range(g)
             \/ i > Len(g) /\ i - Len(g) \in 1 .. Len(h) /\ l[i] = h[i - Len(g)]
                /\ h[i - Len(g)] \in Range(h)
  <2>1. i \in 1 .. Len(g) \/ i \in Len(g) + 1 .. Len(g) + Len(h)
    BY <1>1 DEF l
  <2>2. i \in Len(g) + 1 .. Len(g) + Len(h) => i - Len(g) \in 1 .. Len(h) /\ i > Len(g)
    BY <1>1
  <2> QED BY <1>1, <2>1, <2>2, ListIs DEF l
<1>3. ASSUME NEW i \in 1 .. Len(l), NEW j \in 1 .. Len(l), i < j
      PROVE  l[i].seq < l[j].seq
  <2>1. CASE i \in 1 .. Len(g) /\ j \in 1 .. Len(g)
    BY <1>1, <1>3, <2>1 DEF l, Ascends
  <2>2. CASE i \in 1 .. Len(g) /\ j > Len(g)
    BY <1>1, <1>2, <2>2 DEF l
  <2>3. CASE i > Len(g) /\ j > Len(g)
    <3>1. /\ i - Len(g) \in 1 .. Len(h) /\ j - Len(g) \in 1 .. Len(h) /\ i - Len(g) < j - Len(g)
          /\ l[i] = h[i - Len(g)] /\ l[j] = h[j - Len(g)]
      BY <1>1, <1>2, <1>3, <2>3
    <3> QED BY <3>1 DEF Ascends
  <2> QED BY <1>1, <1>2, <1>3, <2>1, <2>2, <2>3
<1>4. Range(l) = Range(g) \cup Range(h)
  <2>1. \A x \in Range(l) : x \in Range(g) \cup Range(h)
    <3>1. l \in Seq(PageRecord)
      BY <1>1 DEF l
    <3> TAKE x \in Range(l)
    <3>2. PICK i \in 1 .. Len(l) : l[i] = x
      BY <3>1, ListIs
    <3> QED BY <1>2, <3>2
  <2>2. \A x \in Range(g) : x \in Range(l)
    <3> TAKE x \in Range(g)
    <3>1. PICK i \in 1 .. Len(g) : g[i] = x
      BY ListIs
    <3>2. i \in 1 .. Len(l) /\ l[i] = x /\ l \in Seq(PageRecord)
      BY <1>1, <3>1 DEF l
    <3> QED BY <3>2, ListIs
  <2>3. \A x \in Range(h) : x \in Range(l)
    <3> TAKE x \in Range(h)
    <3>1. PICK i \in 1 .. Len(h) : h[i] = x
      BY ListIs
    <3>2. /\ Len(g) + i \in 1 .. Len(l) /\ Len(g) + i \in Len(g) + 1 .. Len(g) + Len(h)
          /\ (Len(g) + i) - Len(g) = i
      BY <1>1, <3>1 DEF l
    <3>3. l[Len(g) + i] = x /\ l \in Seq(PageRecord)
      BY <1>1, <3>1, <3>2 DEF l
    <3> QED BY <3>2, <3>3, ListIs
  <2> QED BY <2>1, <2>2, <2>3
<1>5. ASSUME h # <<>>
      PROVE  l[Len(l)] = h[Len(h)]
  <2>1. /\ Len(l) \in Len(g) + 1 .. Len(g) + Len(h) /\ Len(l) - Len(g) = Len(h)
    BY <1>1, <1>5 DEF l
  <2> QED BY <1>1, <2>1 DEF l
<1>6. h = <<>> => l = g
  BY DEF l
<1> QED BY <1>1, <1>3, <1>4, <1>5, <1>6 DEF l, Ascends

LEMMA WalkGoesOn ==
  ASSUME NEW R, R \subseteq PageRecord, NEW m \in Nat, \A r \in R : r.seq \in 1 .. m,
         NEW w, w.base \subseteq PageRecord, BaseOK(w, R, m),
         NEW g \in Seq(PageRecord), NEW c \in Nat, c # None, WalkOK(g, c, w, R, m),
         NEW q, QueryOK(q, w.filter, c, R)
  PROVE  WalkOK(g \o q.items, q.next, w, R, m)
<1> DEFINE h == q.items
           l == g \o h
<1>1. g # <<>> /\ g[Len(g)].seq = c /\ Ascends(g) /\ Ascends(h) /\ h \in Seq(PageRecord)
  BY DEF WalkOK, QueryOK, PageAnswer
<1>2. \A r \in Range(g) : r.seq <= c /\ r.seq \in Nat
  <2> TAKE r \in Range(g)
  <2>1. PICK i \in 1 .. Len(g) : g[i] = r
    BY ListIs
  <2>2. Len(g) \in 1 .. Len(g) /\ (i < Len(g) \/ i = Len(g))
    BY <1>1
  <2>3. g[i].seq \in Nat
    BY ListIs
  <2> QED BY <1>1, <2>1, <2>2, <2>3 DEF Ascends
<1>3. \A s \in Range(h) : s \in R /\ s.tag \in w.filter /\ c < s.seq
  BY DEF QueryOK
<1>4. \A r \in Range(g), s \in Range(h) : r.seq < s.seq
  <2>1. \A s \in R : s.seq \in Nat
    OBVIOUS
  <2> QED BY <1>2, <1>3, <2>1
<1> HIDE DEF h
<1>5. /\ l \in Seq(PageRecord) /\ Ascends(l) /\ Range(l) = Range(g) \cup Range(h)
      /\ h # <<>> => l[Len(l)] = h[Len(h)]
      /\ h = <<>> => l = g
  BY <1>1, <1>4, AscendsJoined
<1> HIDE DEF l
<1>6. /\ h = <<>> => q.next = None /\ \A r \in R : r.tag \in w.filter => ~(c < r.seq)
      /\ h # <<>> =>
           /\ q.next = h[Len(h)].seq /\ q.next # None
           /\ \A r \in R : r.tag \in w.filter /\ c < r.seq /\ r.seq <= q.next => r \in Range(h)
  BY DEF QueryOK, h
<1>7. \A r \in Range(l) : r.tag \in w.filter /\ r.seq \in 1 .. m
  BY <1>3, <1>5 DEF WalkOK
<1>8. q.next = None \/ (l # <<>> /\ l[Len(l)].seq = q.next)
  <2>1. h # <<>> => l # <<>>
    <3> SUFFICES ASSUME h # <<>>, l = <<>> PROVE FALSE
      OBVIOUS
    <3>1. Len(h) \in 1 .. Len(h)
      BY <1>1
    <3>2. h[Len(h)] \in Range(l)
      BY <1>1, <1>5, <3>1, ListIs
    <3> QED BY <1>5, <3>2 DEF Range
  <2> QED BY <1>5, <1>6, <2>1
<1>9. ASSUME NEW r \in w.base \cap R, q.next = None \/ r.seq <= q.next
      PROVE  r \in Range(l)
  <2>1. r.tag \in w.filter /\ r.seq \in Nat
    BY DEF BaseOK
  <2>2. CASE r.seq <= c
    BY <1>5, <2>2 DEF WalkOK
  <2>3. CASE c < r.seq
    BY <1>5, <1>6, <1>9, <2>1, <2>3
  <2> QED BY <2>1, <2>2, <2>3
<1>10. w.base # {}
  BY DEF WalkOK
<1>11. \A r \in Range(l) : /\ r \in w.base \/ \A b \in w.base : b.seq < r.seq
                           /\ r \in R \/ \A s \in R : r.seq < s.seq
  BY <1>3, <1>5 DEF WalkOK, BaseOK
<1> QED BY <1>5, <1>7, <1>8, <1>9, <1>10, <1>11 DEF WalkOK, l, h

After(cursor) == IF cursor = None THEN 0 ELSE cursor

LEMMA QueryIs ==
  ASSUME PagesTypes, LogOK, NEW f, NEW cursor \in Nat \cup {None}
  PROVE  QueryOK(Pages!Query(f, cursor), f, After(cursor), Range(records))
<1> DEFINE R == Range(records)
           after == After(cursor)
           S == {r \in R : r.tag \in f /\ after < r.seq}
           rest == Selected(records, S)
           n == IF Len(rest) < PageLimit THEN Len(rest) ELSE PageLimit
           items == SubSeq(rest, 1, n)
           q == Pages!Query(f, cursor)
<1>1. records \in Seq(PageRecord) /\ Ascends(records) /\ R \subseteq PageRecord /\ after \in Nat
      /\ \A r \in R : r.seq \in Nat
  BY ListIs DEF PagesTypes, LogOK, After
<1>2. rest \in Seq(PageRecord) /\ Ascends(rest) /\ Range(rest) = S
  <2>1. Range(rest) = R \cap S
    <3> HIDE DEF S
    <3> QED BY <1>1, SelectedIs
  <2>2. Ascends(rest) /\ rest \in Seq(PageRecord)
    <3> HIDE DEF S
    <3> QED BY <1>1, SelectedIs, SelectedAscends
  <2> QED BY <2>1, <2>2
<1>3. {r \in Pages!Meant(f) : r.seq > after} = S
  <2>1. Pages!Meant(f) = {r \in R : r.tag \in f}
    BY PageTerms DEF Pages!Meant, Pages!Matches
  <2> QED BY <1>1, <2>1
<1>4. q = [ahead |-> after > Pages!LastKept, items |-> items,
           next |-> IF items = <<>> THEN None ELSE items[Len(items)].seq]
  <2>1. Pages!Selected(records, {r \in Pages!Meant(f) : r.seq > after}) = rest
    BY <1>3, PageTerms
  <2> HIDE DEF rest
  <2> QED BY <2>1, PageTerms DEF Pages!Query, Pages!NextCursor, After
<1> HIDE DEF q, S, rest
<1>5. n \in 0 .. Len(rest) /\ n \in Nat /\ (n = 0 => Len(rest) = 0) /\ Len(rest) \in Nat
  <2>1. PageLimit \in Nat \ {0} /\ Len(rest) \in Nat
    BY <1>2, NatAssumption
  <2> QED BY <2>1
<1> HIDE DEF n
<1>6. /\ items \in Seq(PageRecord) /\ Len(items) = n
      /\ \A i \in 1 .. n : items[i] = rest[i] /\ i \in 1 .. Len(rest)
  BY <1>2, <1>5
<1> HIDE DEF items
<1>7. Ascends(items)
  BY <1>2, <1>6 DEF Ascends
<1>8. \A r \in Range(items) : r \in S
  <2> TAKE r \in Range(items)
  <2>1. PICK i \in 1 .. n : items[i] = r
    BY <1>6, ListIs
  <2>2. rest[i] \in Range(rest)
    BY <1>2, <1>6, <2>1, ListIs
  <2> QED BY <1>2, <1>6, <2>1, <2>2
<1>9. (after > Pages!LastKept) \in BOOLEAN /\ (after > Pages!LastKept => after # 0)
  <2>1. Pages!LastKept \in Nat
    <3>1. records # <<>> => Len(records) \in 1 .. Len(records)
      BY <1>1
    <3> QED BY <1>1, <3>1, ListIs, PageTerms DEF Pages!LastKept
  <2> QED BY <1>1, <2>1
<1>10. items # <<>> => /\ n \in 1 .. n /\ n \in 1 .. Len(rest) /\ items[n].seq \in Nat
                       /\ items[n] = rest[n]
  <2>1. items # <<>> => n # 0
    BY <1>6
  <2>2. items # <<>> => n \in 1 .. n
    BY <1>5, <2>1
  <2> QED BY <1>6, <2>2, ListIs
<1>11. q.ahead = (after > Pages!LastKept) /\ q.items = items
       /\ q.next = IF items = <<>> THEN None ELSE items[n].seq
  BY <1>4, <1>6
<1>12. q \in PageAnswer
  BY <1>4, <1>6, <1>9, <1>10 DEF PageAnswer
<1>13. ASSUME items = <<>>
       PROVE  S = {}
  <2>1. Len(rest) = 0 /\ rest \in Seq(PageRecord)
    BY <1>2, <1>5, <1>6, <1>13
  <2>2. \A r \in Range(rest) : \E i \in 1 .. Len(rest) : rest[i] = r
    BY <2>1, ListIs
  <2>3. 1 .. Len(rest) = {}
    BY <2>1
  <2> QED BY <1>2, <2>2, <2>3
<1>14. ASSUME items # <<>>, NEW r \in S, r.seq <= items[n].seq
       PROVE  r \in Range(items)
  <2>1. PICK i \in 1 .. Len(rest) : rest[i] = r
    BY <1>2, ListIs
  <2>2. rest[n].seq \in Nat /\ rest[i].seq \in Nat
    BY <1>2, <1>10, <1>14, <2>1, ListIs
  <2>3. i <= n
    BY <1>2, <1>5, <1>10, <1>14, <2>1, <2>2 DEF Ascends
  <2>4. i \in 1 .. n /\ items[i] = r
    BY <1>5, <1>6, <2>1, <2>3
  <2> QED BY <1>6, <2>4, ListIs
<1>15. \A r \in Range(q.items) : r \in R /\ r.tag \in f /\ after < r.seq
  BY <1>8, <1>11 DEF S
<1>16. q.items = <<>> => q.next = None /\ \A r \in R : r.tag \in f => ~(after < r.seq)
  BY <1>11, <1>13 DEF S
<1>17. q.items # <<>> =>
         /\ q.next = q.items[Len(q.items)].seq /\ q.next # None
         /\ \A r \in R : r.tag \in f /\ after < r.seq /\ r.seq <= q.next => r \in Range(q.items)
  BY <1>6, <1>10, <1>11, <1>14, NoneAssumption DEF S
<1> HIDE DEF R, after
<1>18. QueryOK(q, f, after, R)
  BY <1>7, <1>9, <1>11, <1>12, <1>15, <1>16, <1>17 DEF QueryOK
<1> QED BY <1>18 DEF q, R, after

-----------------------------------------------------------------------------
LEMMA FilterIs ==
  /\ \A f \in Pages!Filters : f # {} /\ f \subseteq Tags \cup {"deletion"}
  /\ Tags \cup {"deletion"} \in Pages!Filters
BY DEF Pages!Filters

LEMMA RequestIsSomething == None \notin PageRequest
BY NoneAssumption DEF PageRequest, PageAnswer, PageRecord

LEMMA PagesStart == Pages!PagesInit => PagesInv
<1> SUFFICES ASSUME Pages!PagesInit PROVE PagesInv
  OBVIOUS
<1>1. /\ records = <<>> /\ lastRecord = 0 /\ filter = Tags \cup {"deletion"} /\ request = None
      /\ page = [ahead |-> FALSE, items |-> <<>>, next |-> None]
      /\ walk = [filter |-> {}, base |-> {}, got |-> <<>>]
  BY DEF Pages!PagesInit, Pages!NoPage, Pages!NoWalk
<1>2. PagesTypes
  BY <1>1, FilterIs DEF PagesTypes, PageAnswer
<1>3. LogOK
  BY <1>1 DEF LogOK, Ascends, Range
<1>4. WalkInv
  BY <1>1 DEF WalkInv, IsAnswered
<1> QED BY <1>2, <1>3, <1>4 DEF PagesInv

LEMMA LogIs ==
  ASSUME PagesTypes, LogOK
  PROVE  /\ Range(records) \subseteq PageRecord /\ lastRecord \in Nat
         /\ \A r \in Range(records) : r.seq \in 1 .. lastRecord
BY ListIs DEF PagesTypes, LogOK

LEMMA RangeAppend ==
  ASSUME NEW s \in Seq(PageRecord), NEW r \in PageRecord
  PROVE  Append(s, r) \in Seq(PageRecord) /\ Range(Append(s, r)) = Range(s) \cup {r}
<1>1. /\ Append(s, r) \in Seq(PageRecord)
      /\ DOMAIN Append(s, r) = DOMAIN s \cup {Len(s) + 1} /\ Append(s, r)[Len(s) + 1] = r
      /\ \A i \in DOMAIN s : Append(s, r)[i] = s[i]
  OBVIOUS
<1> QED BY <1>1 DEF Range

LEMMA AppendRecordFollows ==
  ASSUME PagesInv, NEW tag \in Tags, Pages!AppendRecord(tag)
  PROVE  PagesInv'
<1> DEFINE new == [seq |-> lastRecord + 1, tag |-> tag]
           R == Range(records)
<1>1. /\ records' = Append(records, new) /\ lastRecord' = lastRecord + 1
      /\ UNCHANGED <<filter, page, request, walk>>
  BY DEF Pages!AppendRecord, Pages!With
<1>2. PagesTypes /\ LogOK /\ WalkInv /\ records \in Seq(PageRecord) /\ lastRecord \in Nat
  BY DEF PagesInv, PagesTypes
<1>3. new \in PageRecord /\ new.seq = lastRecord + 1
  BY <1>2 DEF PageRecord
<1>4. R \subseteq PageRecord /\ \A r \in R : r.seq \in 1 .. lastRecord
  BY <1>2, LogIs
<1> HIDE DEF new
<1>5. records' \in Seq(PageRecord) /\ Range(records') = R \cup {new}
  BY <1>1, <1>2, <1>3, RangeAppend
<1>6. PagesTypes'
  BY <1>1, <1>2, <1>5 DEF PagesTypes
<1>7. LogOK'
  <2>1. \A r \in R : r.seq < new.seq
    BY <1>2, <1>3, <1>4
  <2>2. Ascends(records')
    BY <1>1, <1>2, <1>3, <2>1, AscendsAppend DEF LogOK
  <2>3. \A r \in R \cup {new} : r.seq \in 1 .. lastRecord + 1
    BY <1>2, <1>3, <1>4
  <2> QED BY <1>1, <1>5, <2>2, <2>3 DEF LogOK
<1>8. ASSUME BaseOK(walk, R, lastRecord)
      PROVE  /\ BaseOK(walk, R \cup {new}, lastRecord + 1)
             /\ \A g, n : WalkOK(g, n, walk, R, lastRecord) =>
                            WalkOK(g, n, walk, R \cup {new}, lastRecord + 1)
  <2> HIDE DEF R
  <2> QED BY <1>2, <1>3, <1>4, <1>8, AppendKeepsWalk
<1>9. WalkInv'
  BY <1>1, <1>2, <1>5, <1>8 DEF WalkInv, IsAnswered
<1> QED BY <1>6, <1>7, <1>9 DEF PagesInv

LEMMA DropOldestFollows ==
  ASSUME PagesInv, Pages!DropOldest
  PROVE  PagesInv'
<1> DEFINE x == records[1]
           S == Range(Tail(records))
<1>1. /\ records # <<>> /\ records' = Tail(records) /\ lastRecord' = lastRecord
      /\ UNCHANGED <<filter, page, request, walk>>
  BY DEF Pages!DropOldest
<1>2. PagesTypes /\ LogOK /\ WalkInv /\ records \in Seq(PageRecord) /\ Ascends(records)
  BY DEF PagesInv, PagesTypes, LogOK
<1>3. /\ records' \in Seq(PageRecord) /\ Len(records') = Len(records) - 1
      /\ Len(records) \in Nat /\ 1 \in 1 .. Len(records)
      /\ \A i \in 1 .. Len(records) - 1 :
           records'[i] = records[i + 1] /\ i + 1 \in 1 .. Len(records) /\ 1 < i + 1
  BY <1>1, <1>2
<1>4. Range(records) = S \cup {x} /\ \A s \in S : x.seq < s.seq
  <2>1. \A s \in S : s \in Range(records) /\ x.seq < s.seq
    <3> TAKE s \in S
    <3>1. PICK i \in 1 .. Len(records') : records'[i] = s
      BY <1>1, <1>3, ListIs
    <3>2. s = records[i + 1] /\ i + 1 \in 1 .. Len(records) /\ 1 < i + 1
      BY <1>3, <3>1
    <3> QED BY <1>2, <1>3, <3>2, ListIs DEF Ascends
  <2>2. \A r \in Range(records) : r = x \/ r \in S
    <3> TAKE r \in Range(records)
    <3>1. PICK i \in 1 .. Len(records) : records[i] = r
      BY <1>2, ListIs
    <3>2. CASE i = 1
      BY <3>1, <3>2
    <3>3. CASE i # 1
      <4>1. i - 1 \in 1 .. Len(records) - 1 /\ (i - 1) + 1 = i
        BY <1>3, <3>3
      <4>2. records'[i - 1] = r
        BY <1>3, <3>1, <4>1
      <4> QED BY <1>1, <1>3, <4>1, <4>2, ListIs
    <3> QED BY <3>2, <3>3
  <2>3. x \in Range(records)
    BY <1>2, <1>3, ListIs
  <2> HIDE DEF S, x
  <2> QED BY <2>1, <2>2, <2>3
<1> HIDE DEF x, S
<1>5. Range(records') = S
  BY <1>1 DEF S
<1>6. PagesTypes'
  BY <1>1, <1>2, <1>3 DEF PagesTypes
<1>7. LogOK'
  <2>1. Ascends(records')
    BY <1>2, <1>3 DEF Ascends
  <2> QED BY <1>1, <1>2, <1>4, <1>5, <2>1 DEF LogOK
<1>8. ASSUME BaseOK(walk, S \cup {x}, lastRecord)
      PROVE  /\ BaseOK(walk, S, lastRecord)
             /\ \A g, n : WalkOK(g, n, walk, S \cup {x}, lastRecord) => WalkOK(g, n, walk, S, lastRecord)
  BY <1>4, <1>8, DropKeepsWalk
<1>9. WalkInv'
  BY <1>1, <1>2, <1>4, <1>5, <1>8 DEF WalkInv, IsAnswered
<1> QED BY <1>6, <1>7, <1>9 DEF PagesInv

\* A request that starts again from the front leaves the walk before it.
LEMMA ReadFollows ==
  ASSUME PagesTypes', LogOK', PagesInv, NEW f \in Pages!Filters, NEW cursor \in Nat \cup {None},
         request' = [filter |-> f, cursor |-> cursor, answer |-> None],
         UNCHANGED <<page, walk>>,
         \/ cursor = None
         \/ cursor = page.next /\ request = None /\ UNCHANGED <<records, lastRecord>>
  PROVE  PagesInv'
<1>1. request'.cursor = cursor /\ request'.answer = None
  OBVIOUS
<1>2. ~IsAnswered'
  BY <1>1 DEF IsAnswered
<1>3. request' # None
  <2>1. request' \in PageRequest
    BY DEF PageRequest
  <2> QED BY <2>1, RequestIsSomething
<1>4. WalkInv'
  BY <1>1, <1>2, <1>3 DEF WalkInv, PagesInv
<1> QED BY <1>4 DEF PagesInv

LEMMA SubmitFilterFollows ==
  ASSUME PagesInv, NEW f \in Pages!Filters, Pages!SubmitFilter(f)
  PROVE  PagesInv'
<1>1. /\ filter' = f /\ UNCHANGED <<records, lastRecord, page, walk>>
      /\ \/ request' = request
         \/ request' = [filter |-> f, cursor |-> None, answer |-> None]
  BY DEF Pages!SubmitFilter, Pages!Read
<1>2. LogOK'
  BY <1>1 DEF PagesInv, LogOK
<1>3. CASE request' = request
  BY <1>1, <1>2, <1>3 DEF PagesInv, PagesTypes, WalkInv, IsAnswered
<1>4. CASE request' = [filter |-> f, cursor |-> None, answer |-> None]
  <2>1. PagesTypes'
    BY <1>1, <1>4 DEF PagesInv, PagesTypes, PageRequest
  <2> QED BY <1>1, <1>2, <1>4, <2>1, ReadFollows
<1> QED BY <1>1, <1>3, <1>4

LEMMA NextPageFollows ==
  ASSUME PagesInv, Pages!NextPage
  PROVE  PagesInv'
<1>1. /\ UNCHANGED <<records, lastRecord, filter, page, walk>> /\ request = None
      /\ request' = [filter |-> filter, cursor |-> page.next, answer |-> None]
  BY DEF Pages!NextPage, Pages!Read
<1>2. LogOK' /\ filter \in Pages!Filters /\ page.next \in Nat \cup {None}
  BY <1>1 DEF PagesInv, PagesTypes, LogOK, PageAnswer
<1>3. PagesTypes'
  BY <1>1, <1>2 DEF PagesInv, PagesTypes, PageRequest
<1> QED BY <1>1, <1>2, <1>3, ReadFollows

LEMMA DeleteAuditFollows ==
  ASSUME PagesInv, NEW f \in Pages!Filters, Pages!DeleteAudit(f)
  PROVE  PagesInv'
<1>1. /\ UNCHANGED <<filter, page, walk>>
      /\ request' = [filter |-> filter, cursor |-> None, answer |-> None]
      /\ Pages!DeleteRecords(f)
  BY DEF Pages!DeleteAudit, Pages!Read
<1>2. PagesTypes /\ LogOK /\ records \in Seq(PageRecord) /\ lastRecord \in Nat /\ filter \in Pages!Filters
  BY DEF PagesInv, PagesTypes
<1>3. records' \in Seq(PageRecord) /\ lastRecord' \in Nat /\ LogOK'
  <2>1. CASE UNCHANGED <<records, lastRecord>>
    BY <1>2, <2>1 DEF LogOK
  <2> DEFINE S == Range(records) \ Pages!Meant(f)
             kept == Selected(records, S)
             new == [seq |-> lastRecord + 1, tag |-> "deletion"]
  <2>2. CASE records' = Append(kept, new) /\ lastRecord' = lastRecord + 1
    <3>1. kept \in Seq(PageRecord) /\ Ascends(kept) /\ Range(kept) \subseteq Range(records)
      <4> HIDE DEF S
      <4> QED BY <1>2, SelectedIs, SelectedAscends DEF LogOK
    <3>2. new \in PageRecord /\ new.seq = lastRecord + 1
      BY <1>2 DEF PageRecord
    <3> HIDE DEF kept, new
    <3>3. \A r \in Range(kept) : r.seq \in 1 .. lastRecord
      BY <1>2, <3>1 DEF LogOK
    <3>4. \A r \in Range(kept) : r.seq < new.seq
      BY <1>2, <3>2, <3>3
    <3>5. /\ records' \in Seq(PageRecord) /\ Ascends(records')
          /\ Range(records') = Range(kept) \cup {new}
      BY <2>2, <3>1, <3>2, <3>4, AscendsAppend, RangeAppend
    <3>6. \A r \in Range(kept) \cup {new} : r.seq \in 1 .. lastRecord + 1
      BY <1>2, <3>2, <3>3
    <3> QED BY <1>2, <2>2, <3>5, <3>6 DEF LogOK
  <2>3. \/ UNCHANGED <<records, lastRecord>>
        \/ records' = Append(kept, new) /\ lastRecord' = lastRecord + 1
    BY <1>1, PageTerms DEF Pages!DeleteRecords
  <2> QED BY <2>1, <2>2, <2>3
<1>4. PagesTypes'
  BY <1>1, <1>2, <1>3 DEF PagesInv, PagesTypes, PageRequest
<1> QED BY <1>1, <1>2, <1>3, <1>4, ReadFollows

LEMMA AnswerFollows ==
  ASSUME PagesInv, Pages!Answer
  PROVE  PagesInv'
<1> DEFINE f == request.filter
           c == request.cursor
           R == Range(records)
           q == Pages!Query(f, c)
<1>1. /\ request # None /\ request' = [request EXCEPT !.answer = q]
      /\ walk' = IF c = None THEN [filter |-> f, base |-> {r \in R : r.tag \in f}, got |-> <<>>] ELSE walk
      /\ UNCHANGED <<records, lastRecord, filter, page>>
  <2>1. Pages!ToSet(Pages!Matching(f)) = {r \in R : r.tag \in f}
    <3>1. Pages!Matching(f) = Selected(records, {r \in R : r.tag \in f})
      BY PageTerms DEF Pages!Matching, Pages!Meant, Pages!Matches
    <3> DEFINE S == {r \in R : r.tag \in f}
    <3>2. Range(Selected(records, S)) = R \cap S
      <4> HIDE DEF S
      <4> QED BY SelectedIs DEF PagesInv, PagesTypes
    <3> QED BY <3>1, <3>2, PageTerms
  <2> QED BY <2>1 DEF Pages!Answer
<1>2. /\ PagesTypes /\ LogOK /\ WalkInv /\ request \in PageRequest
      /\ f \in Pages!Filters /\ c \in Nat \cup {None}
  BY <1>1 DEF PagesInv, PagesTypes, PageRequest
<1>3. R \subseteq PageRecord /\ lastRecord \in Nat /\ \A r \in R : r.seq \in 1 .. lastRecord
  BY <1>2, LogIs
<1>4. QueryOK(q, f, After(c), R) /\ q \in PageAnswer
  <2> HIDE DEF f, c, q
  <2>1. QueryOK(q, f, After(c), R)
    BY <1>2, QueryIs DEF q
  <2> QED BY <2>1 DEF QueryOK
<1> HIDE DEF q, R
<1>5. /\ request'.filter = f /\ request'.cursor = c /\ request'.answer = q /\ request' \in PageRequest
      /\ request' # None
  <2>1. request' \in PageRequest
    BY <1>1, <1>2, <1>4 DEF PageRequest
  <2> QED BY <1>1, <1>2, <2>1, RequestIsSomething DEF PageRequest
<1>6. PagesTypes'
  <2>1. walk' \in [filter : SUBSET (Tags \cup {"deletion"}), base : SUBSET PageRecord,
                   got : Seq(PageRecord)]
    <3>1. CASE c = None
      <4> DEFINE base == {r \in R : r.tag \in f}
      <4>1. base \subseteq PageRecord /\ f \subseteq Tags \cup {"deletion"}
        BY <1>2, <1>3, FilterIs
      <4>2. walk' = [filter |-> f, base |-> base, got |-> <<>>]
        BY <1>1, <3>1
      <4> HIDE DEF base, f
      <4> QED BY <4>1, <4>2
    <3>2. CASE c # None
      BY <1>1, <1>2, <3>2 DEF PagesTypes
    <3> QED BY <3>1, <3>2
  <2> QED BY <1>1, <1>2, <1>5, <2>1 DEF PagesTypes
<1>7. LogOK' /\ Range(records') = R
  BY <1>1, <1>2 DEF LogOK, R
<1>8. CASE c = None
  <2>1. /\ walk'.filter = f /\ walk'.base = {r \in R : r.tag \in f} /\ walk'.got = <<>>
    BY <1>1, <1>8
  <2>2. After(c) = 0
    BY <1>8 DEF After
  <2>3. BaseOK(walk', R, lastRecord) /\ WalkOK(q.items, q.next, walk', R, lastRecord)
    <3> HIDE DEF f
    <3> QED BY <1>3, <1>4, <2>1, <2>2, WalkBegins
  <2>4. ~q.ahead
    BY <1>4, <2>2 DEF QueryOK
  <2>5. <<>> \o q.items = q.items
    BY <1>4 DEF PageAnswer
  <2>6. WalkInv'
    BY <1>1, <1>5, <1>7, <1>8, <2>1, <2>3, <2>4, <2>5 DEF WalkInv, IsAnswered
  <2> QED BY <1>6, <1>7, <2>6 DEF PagesInv
<1>9. CASE c # None
  <2>1. walk' = walk /\ c = page.next /\ c \in Nat /\ After(c) = c
    BY <1>1, <1>2, <1>9 DEF WalkInv, After
  <2>2. ASSUME f = walk.filter
        PROVE  /\ BaseOK(walk, R, lastRecord)
               /\ WalkOK(walk.got \o q.items, q.next, walk, R, lastRecord)
    <3>1. walk.filter # {}
      BY <1>2, <2>2, FilterIs
    <3>2. BaseOK(walk, R, lastRecord) /\ WalkOK(walk.got, c, walk, R, lastRecord)
      BY <1>2, <1>9, <2>1, <3>1 DEF WalkInv, R
    <3>3. walk.got \in Seq(PageRecord) /\ walk.base \subseteq PageRecord
      BY <1>2 DEF PagesTypes
    <3>4. QueryOK(q, walk.filter, c, R)
      BY <1>4, <2>1, <2>2
    <3> HIDE DEF c
    <3> QED BY <1>3, <1>9, <2>1, <3>2, <3>3, <3>4, WalkGoesOn
  <2>3. WalkInv'
    BY <1>1, <1>2, <1>5, <1>7, <1>9, <2>1, <2>2 DEF WalkInv, IsAnswered, R
  <2> QED BY <1>6, <1>7, <2>3 DEF PagesInv
<1> QED BY <1>8, <1>9

LEMMA ReceiveFollows ==
  ASSUME PagesInv, Pages!Receive
  PROVE  PagesInv'
<1>1. /\ IsAnswered /\ request' = None /\ UNCHANGED <<records, lastRecord, filter>>
      /\ IF request.answer.ahead THEN UNCHANGED <<page, walk>>
         ELSE /\ page' = request.answer
              /\ walk' = IF request.filter = walk.filter
                         THEN [walk EXCEPT !.got = @ \o request.answer.items]
                         ELSE [filter |-> {}, base |-> {}, got |-> <<>>]
  BY DEF Pages!Receive, Pages!NoWalk, IsAnswered
<1>2. PagesTypes /\ LogOK /\ WalkInv
  BY DEF PagesInv
<1>3. LogOK' /\ Range(records') = Range(records) /\ ~IsAnswered'
  BY <1>1, <1>2 DEF LogOK, IsAnswered
<1>4. CASE request.answer.ahead
  BY <1>1, <1>2, <1>3, <1>4 DEF PagesInv, PagesTypes, WalkInv, IsAnswered
<1>5. CASE ~request.answer.ahead /\ request.filter = walk.filter
  <2> DEFINE got == walk.got \o request.answer.items
  <2>1. page' = request.answer /\ walk' = [walk EXCEPT !.got = got]
    BY <1>1, <1>5
  <2>2. request.answer \in PageAnswer /\ got \in Seq(PageRecord)
    <3>1. request.answer \in PageAnswer /\ walk.got \in Seq(PageRecord)
      BY <1>1, <1>2 DEF PagesTypes, PageRequest, IsAnswered
    <3>2. request.answer.items \in Seq(PageRecord)
      BY <3>1 DEF PageAnswer
    <3> QED BY <3>1, <3>2
  <2>3. BaseOK(walk, Range(records), lastRecord)
        /\ WalkOK(got, request.answer.next, walk, Range(records), lastRecord)
    BY <1>1, <1>2, <1>5 DEF WalkInv
  <2> HIDE DEF got
  <2>4. /\ walk'.filter = walk.filter /\ walk'.base = walk.base /\ walk'.got = got
        /\ walk' \in [filter : SUBSET (Tags \cup {"deletion"}), base : SUBSET PageRecord,
                      got : Seq(PageRecord)]
    BY <1>2, <2>1, <2>2 DEF PagesTypes
  <2>5. BaseOK(walk', Range(records), lastRecord)
        /\ WalkOK(got, request.answer.next, walk', Range(records), lastRecord)
    BY <2>3, <2>4 DEF BaseOK, WalkOK
  <2>6. PagesTypes'
    BY <1>1, <1>2, <2>1, <2>2, <2>4 DEF PagesTypes
  <2>7. WalkInv'
    BY <1>1, <1>3, <2>1, <2>4, <2>5 DEF WalkInv
  <2> QED BY <1>3, <2>6, <2>7 DEF PagesInv
<1>6. CASE ~request.answer.ahead /\ request.filter # walk.filter
  <2>1. page' = request.answer /\ walk' = [filter |-> {}, base |-> {}, got |-> <<>>]
    BY <1>1, <1>6
  <2>2. PagesTypes'
    BY <1>1, <1>2, <2>1 DEF PagesTypes, PageRequest, IsAnswered
  <2>3. WalkInv'
    BY <1>1, <1>3, <2>1 DEF WalkInv
  <2> QED BY <1>3, <2>2, <2>3 DEF PagesInv
<1> QED BY <1>4, <1>5, <1>6

LEMMA ReadFailsFollows ==
  ASSUME PagesInv, Pages!ReadFails
  PROVE  PagesInv'
<1>1. /\ request # None /\ request' = None /\ UNCHANGED <<records, lastRecord, filter, page>>
      /\ walk' = IF request.cursor = None THEN [filter |-> {}, base |-> {}, got |-> <<>>] ELSE walk
  BY DEF Pages!ReadFails, Pages!NoWalk
<1>2. LogOK' /\ Range(records') = Range(records) /\ ~IsAnswered'
  BY <1>1 DEF PagesInv, LogOK, IsAnswered
<1>3. PagesTypes'
  BY <1>1 DEF PagesInv, PagesTypes
<1>4. WalkInv'
  <2>1. CASE request.cursor = None
    <3>1. walk'.filter = {}
      BY <1>1, <2>1
    <3> QED BY <1>1, <1>2, <3>1 DEF WalkInv
  <2>2. CASE request.cursor # None
    BY <1>1, <1>2, <2>2 DEF PagesInv, WalkInv
  <2> QED BY <2>1, <2>2
<1> QED BY <1>2, <1>3, <1>4 DEF PagesInv

LEMMA PagesInvIsInductive ==
  ASSUME PagesInv, [Pages!PagesNext]_pageVars
  PROVE  PagesInv'
<1>1. CASE UNCHANGED pageVars
  BY <1>1 DEF pageVars, PagesInv, PagesTypes, LogOK, WalkInv, IsAnswered
<1>2. CASE Pages!PagesNext
  BY <1>2, AppendRecordFollows, DropOldestFollows, NextPageFollows, AnswerFollows, ReceiveFollows,
     ReadFailsFollows, SubmitFilterFollows, DeleteAuditFollows DEF Pages!PagesNext
<1> QED BY <1>1, <1>2

-----------------------------------------------------------------------------
\* There is no walk, or it has a filter, which selects something.
WalkIsBegun == walk.filter = {} => walk = Pages!NoWalk

LEMMA WalkIsBegunFollows ==
  ASSUME PagesInv, WalkIsBegun, [Pages!PagesNext]_pageVars
  PROVE  WalkIsBegun'
<1>1. CASE walk' = walk
  BY <1>1 DEF WalkIsBegun
<1>2. CASE walk' = Pages!NoWalk
  BY <1>2 DEF WalkIsBegun, Pages!NoWalk
<1>3. CASE Pages!Answer
  <2>1. CASE request.cursor = None
    <3>1. walk'.filter = request.filter
      BY <1>3, <2>1 DEF Pages!Answer
    <3>2. request.filter \in Pages!Filters
      BY <1>3 DEF Pages!Answer, PagesInv, PagesTypes, PageRequest
    <3> QED BY <3>1, <3>2, FilterIs DEF WalkIsBegun
  <2>2. CASE request.cursor # None
    BY <1>1, <1>3, <2>2 DEF Pages!Answer
  <2> QED BY <2>1, <2>2
<1>4. CASE Pages!Receive /\ walk' # walk /\ walk' # Pages!NoWalk
  <2>1. /\ request # None /\ request.filter = walk.filter
        /\ walk' = [walk EXCEPT !.got = @ \o request.answer.items]
    BY <1>4 DEF Pages!Receive
  <2>2. request.filter \in Pages!Filters
    BY <2>1 DEF PagesInv, PagesTypes, PageRequest
  <2>3. walk'.filter = walk.filter
    BY <2>1 DEF PagesInv, PagesTypes
  <2> QED BY <2>1, <2>2, <2>3, FilterIs DEF WalkIsBegun
<1>5. CASE Pages!PagesNext
  <2>1. \/ Pages!Answer \/ Pages!Receive \/ walk' = walk \/ walk' = Pages!NoWalk
    BY <1>5 DEF Pages!PagesNext, Pages!AppendRecord, Pages!DropOldest, Pages!NextPage,
       Pages!ReadFails, Pages!SubmitFilter, Pages!DeleteAudit
  <2> QED BY <1>1, <1>2, <1>3, <1>4, <2>1
<1> QED BY <1>1, <1>5 DEF pageVars

\* What was read of a log that did not change since is what an export has.
LEMMA WholeWalk ==
  ASSUME NEW R, R \subseteq PageRecord, NEW m \in Nat, NEW w, NEW g \in Seq(PageRecord),
         w.base \subseteq PageRecord, BaseOK(w, R, m), WalkOK(g, None, w, R, m),
         NEW x, x = {r \in R : r.tag \in w.filter}, x = w.base
  PROVE  Range(g) = x
<1>1. \A b \in x : b \in Range(g)
  BY DEF WalkOK
<1>2. \A r \in Range(g) : r \in x
  <2> SUFFICES ASSUME NEW r \in Range(g), r \notin x PROVE FALSE
    OBVIOUS
  <2>1. r \in PageRecord /\ r.seq \in Nat /\ g # <<>> /\ r.tag \in w.filter
    <3>1. r \in PageRecord /\ r.seq \in Nat /\ \E i \in 1 .. Len(g) : g[i] = r
      BY ListIs
    <3> QED BY <3>1 DEF WalkOK
  <2>2. r \notin R
    BY <2>1
  <2>3. \A b \in w.base : b.seq < r.seq /\ r.seq < b.seq
    BY <2>1, <2>2 DEF WalkOK
  <2>4. \A b \in w.base : b.seq \in Nat
    BY DEF PageRecord
  <2>5. w.base = {}
    BY <2>1, <2>3, <2>4
  <2> QED BY <2>1, <2>5 DEF WalkOK
<1> QED BY <1>1, <1>2

LEMMA PagesInvIsComplete ==
  ASSUME PagesInv, WalkIsBegun
  PROVE  PagesAreComplete
<1> SUFFICES ASSUME request = None, walk # Pages!NoWalk
             PROVE  /\ \A i \in 1 .. Len(walk.got) - 1 : walk.got[i].seq < walk.got[i + 1].seq
                    /\ \A r \in Range(walk.got) : r.tag \in walk.filter
                    /\ \A r \in walk.base \cap Range(records) :
                         page.next = None \/ r.seq <= page.next => r \in Range(walk.got)
                    /\ page.next = None /\ Range(Pages!Export(walk.filter)) = walk.base =>
                         walk.got = Pages!Export(walk.filter)
  BY PageTerms DEF PagesAreComplete, Pages!PagesAreComplete, Pages!Matches
<1> DEFINE R == Range(records)
           f == walk.filter
           x == {r \in R : r.tag \in f}
<1>1. BaseOK(walk, R, lastRecord) /\ WalkOK(walk.got, page.next, walk, R, lastRecord)
  BY DEF PagesInv, WalkInv, WalkIsBegun
<1>2. /\ walk.got \in Seq(PageRecord) /\ walk.base \subseteq PageRecord
      /\ records \in Seq(PageRecord) /\ Ascends(records)
  BY DEF PagesInv, PagesTypes, LogOK
<1>3. R \subseteq PageRecord /\ lastRecord \in Nat
  BY LogIs DEF PagesInv
<1>4. ASSUME NEW i \in 1 .. Len(walk.got) - 1
      PROVE  walk.got[i].seq < walk.got[i + 1].seq
  <2>1. i \in 1 .. Len(walk.got) /\ i + 1 \in 1 .. Len(walk.got) /\ i < i + 1
    BY <1>2
  <2> QED BY <1>1, <2>1 DEF WalkOK, Ascends
<1>5. ASSUME page.next = None, Range(Pages!Export(f)) = walk.base
      PROVE  walk.got = Pages!Export(f)
  <2>1. Pages!Export(f) = Selected(records, x)
    BY PageTerms DEF Pages!Export, Pages!Matching, Pages!Meant, Pages!Matches
  <2>2. /\ Selected(records, x) \in Seq(PageRecord) /\ Ascends(Selected(records, x))
        /\ Range(Selected(records, x)) = R \cap x
    <3> HIDE DEF x
    <3> QED BY <1>2, SelectedIs, SelectedAscends
  <2>3. R \cap x = x
    OBVIOUS
  <2>4. Range(walk.got) = x
    <3>1. x = walk.base
      BY <1>5, <2>1, <2>2, <2>3
    <3>2. WalkOK(walk.got, None, walk, R, lastRecord)
      BY <1>1, <1>5
    <3> HIDE DEF R
    <3> QED BY <1>1, <1>2, <1>3, <3>1, <3>2, WholeWalk
  <2>5. Ascends(walk.got)
    BY <1>1 DEF WalkOK
  <2> HIDE DEF x
  <2> QED BY <1>2, <2>1, <2>2, <2>3, <2>4, <2>5, AscendingIsUnique
<1> QED BY <1>1, <1>4, <1>5 DEF WalkOK

\* Whoever reads the audit log page by page with one filter gets every record that
\* was there when the first page was read and is there still, once, in order, and no
\* other: for any number of tags, records and pages, any size of a page, and whatever
\* is appended, deleted or dropped by retention between the pages; of a log that did
\* not change it is what an export has.
THEOREM PagesAreRead == Pages!PagesSpec => []PagesAreComplete
<1>1. Pages!PagesInit => PagesInv /\ WalkIsBegun
  BY PagesStart DEF Pages!PagesInit, WalkIsBegun
<1>2. PagesInv /\ WalkIsBegun /\ [Pages!PagesNext]_pageVars => (PagesInv /\ WalkIsBegun)'
  BY PagesInvIsInductive, WalkIsBegunFollows
<1>3. PagesInv /\ WalkIsBegun => PagesAreComplete
  BY PagesInvIsComplete
<1>4. Pages!PagesSpec => Pages!PagesInit /\ [][Pages!PagesNext]_pageVars
  BY DEF Pages!PagesSpec, Pages!pageVars, pageVars
<1> QED BY <1>1, <1>2, <1>3, <1>4, PTL
================================================================================
