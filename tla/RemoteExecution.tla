--------------------------- MODULE RemoteExecution ---------------------------
(***************************************************************************)
(* Approved activities at work (src/src/local_ipc.rs): a local client asks *)
(* the daemon to execute a queued activity; a worker thread leases the     *)
(* device at the registry, submits the job, follows its events and records *)
(* in the dashboard what it sees.  The worker talks to the registry        *)
(* without the daemon's mutex, so approvals, cancellations, pauses and new *)
(* requests for the same activity come between any two of its steps.       *)
(***************************************************************************)
EXTENDS Dashboard

CONSTANTS MaxLosses   \* bound: calls to the registry that lose the request or the reply

VARIABLES
  worker,   \* worker[a]: the thread that executes activity a
  token,    \* activities whose worker is told to stop
  remote,   \* remote[a]: the job of a at the registry
  leased,   \* activities whose worker holds the device at the registry
  losses    \* lost calls left

daemon == vars
rvars == <<vars, worker, token, remote, leased, losses>>

ASSUME LossesAssumption == MaxLosses \in Nat

Idle == [phase |-> "idle", away |-> FALSE, sent |-> FALSE, seen |-> "none",
         failure |-> "none", read |-> "none"]

Kinds == {"completed", "rejected", "cancelled"}

RemoteInit ==
  /\ Init
  /\ worker = [a \in Jobs |-> Idle] /\ token = {}
  /\ remote = [a \in Jobs |-> "none"] /\ leased = {}
  /\ losses = MaxLosses

State(a) == svc.now.activity[a].state

\* The worker threads end with the daemon.
Alive == IF svc'.up THEN UNCHANGED <<worker, token>>
         ELSE worker' = [a \in Jobs |-> Idle] /\ token' = {}

\* The worker of a becomes w, without touching the dashboard.
Turns(a, w) == worker' = [worker EXCEPT ![a] = w] /\ UNCHANGED <<daemon, token>>

\* execute_remote_job returns with a failure; its guard, if there is one, cleans up.
Failed(a, failure) ==
  [worker[a] EXCEPT !.failure = failure,
                    !.phase = IF @ = "lease" THEN "settle" ELSE "clean"]

\* A request with effect E reaches the registry and is answered, or is lost.
Answered(E) == E /\ UNCHANGED losses
Lost(E) ==
  /\ losses > 0 /\ losses' = losses - 1
  /\ E \/ UNCHANGED <<remote, leased>>

\* A step of the worker of a under the mutex; Next(r) is what it does then.
Handled(a, W, After(_)) ==
  \E r \in W :
    /\ Become(r) /\ UNCHANGED <<late, stale, remote, leased, losses>>
    /\ IF svc'.up THEN worker' = [worker EXCEPT ![a] = After(r)] /\ UNCHANGED token
       ELSE worker' = [b \in Jobs |-> Idle] /\ token' = {}

\* Mutant: what cannot be shown is tried again.
ShowsAgain(a, state, next) ==
  Handled(a, Transition(World, a, state),
          LAMBDA r : IF r.out = "ok" THEN next ELSE worker[a])

\* transition_execution, and how the worker goes on.  A legal move that failed
\* could not be audited or saved (map_transition_failure).
Shows(a, state, next) ==
  LET after(r) == IF r.out = "ok" THEN next
                  ELSE Failed(a, IF <<State(a), state>> \in Moves
                                 THEN "audit_unavailable" ELSE "disconnected")
  IN Handled(a, Transition(World, a, state), after)

-----------------------------------------------------------------------------
(* The worker.                                                             *)

\* prepare_remote_execution and the start of the thread.
StartExecution(a) ==
  /\ svc.up /\ State(a) = "queued" /\ worker[a].phase = "idle"
  /\ worker' = [worker EXCEPT ![a].phase = "lease"]
  /\ token' = token \ {a}
  /\ UNCHANGED <<daemon, remote, leased, losses>>

AcquireLease(a) ==
  /\ worker[a].phase = "lease"
  /\ LET granted == leased' = leased \cup {a} /\ UNCHANGED remote
         refused == UNCHANGED <<remote, leased>>
     IN \/ /\ Answered(granted)
           /\ Turns(a, IF a \in token
                       THEN [worker[a] EXCEPT !.phase = "clean", !.failure = "cancelled"]
                       ELSE [worker[a] EXCEPT !.phase = "run"])
        \/ Answered(refused) /\ Turns(a, Failed(a, "refused"))
        \/ Lost(granted) /\ Turns(a, Failed(a, "disconnected"))

\* AppleRun: a request id that the registry knows names the same job again.
SubmitJob(a) ==
  /\ worker[a].phase = "run"
  /\ LET accepted == /\ remote' = [remote EXCEPT ![a] = IF @ = "none" THEN "running" ELSE @]
                     /\ UNCHANGED leased
         refused == UNCHANGED <<remote, leased>>
         sent == [worker[a] EXCEPT !.sent = TRUE]
     IN \/ /\ Answered(accepted)
           /\ Turns(a, IF a \in token
                       THEN [sent EXCEPT !.phase = "clean", !.failure = "cancelled"]
                       ELSE [sent EXCEPT !.phase = "start"])
        \/ Answered(refused) /\ Turns(a, Failed(a, "refused"))
        \/ Lost(accepted) /\ Turns(a, Failed(a, "disconnected"))

ShowStarted(a) ==
  worker[a].phase = "start" /\ Shows(a, "running", [worker[a] EXCEPT !.phase = "poll"])

\* One call for events: the token, the answer, and what is to be shown of it.
PollEvents(a) ==
  LET w == worker[a]
      seen == IF remote[a] \in Kinds THEN remote[a] ELSE "none"
      shows == [w EXCEPT !.seen = seen,
                         !.phase = IF w.away THEN "back"
                                   ELSE IF seen = "none" THEN "poll" ELSE "end"]
      missed == [w EXCEPT !.phase = IF w.away THEN "poll" ELSE "away"]
  IN /\ w.phase = "poll"
     /\ UNCHANGED <<remote, leased>>
     /\ IF a \in token
        THEN Turns(a, Failed(a, "cancelled")) /\ UNCHANGED losses
        ELSE \/ Turns(a, shows) /\ UNCHANGED losses
             \/ losses > 0 /\ losses' = losses - 1 /\ Turns(a, missed)

\* The time of the execution is over, at the head of the loop.
Deadline(a) ==
  /\ worker[a].phase = "poll"
  /\ Turns(a, Failed(a, "disconnected")) /\ UNCHANGED <<remote, leased, losses>>

ShowAway(a) ==
  /\ worker[a].phase = "away"
  /\ Shows(a, "reconnecting", [worker[a] EXCEPT !.phase = "poll", !.away = TRUE])

ShowBack(a) ==
  /\ worker[a].phase = "back"
  /\ Shows(a, "running",
           [worker[a] EXCEPT !.away = FALSE,
                             !.phase = IF worker[a].seen = "none" THEN "poll" ELSE "end"])

\* Mutant: any terminal event is a success.
ShowEndAny(a) ==
  /\ worker[a].phase = "end"
  /\ Shows(a, "succeeded", [worker[a] EXCEPT !.sent = FALSE, !.phase = "clean"])

ShowEnd(a) ==
  /\ worker[a].phase = "end"
  /\ Shows(a, IF worker[a].seen = "completed" THEN "succeeded" ELSE "failed",
           [worker[a] EXCEPT !.sent = FALSE, !.phase = "clean"])

\* Mutant: the guard releases the lease only.
CleanUpLease(a) ==
  /\ worker[a].phase = "clean"
  /\ leased' = leased \ {a} /\ Turns(a, [worker[a] EXCEPT !.phase = "settle", !.sent = FALSE])
  /\ UNCHANGED <<remote, losses>>

\* RemoteCleanupGuard: the job is cancelled unless its end was shown, then the
\* lease is released; neither is tried again.
CleanUp(a) ==
  LET w == worker[a]
      cancel == /\ remote' = [remote EXCEPT ![a] = IF @ = "running" THEN "cancelled" ELSE @]
                /\ UNCHANGED leased
      release == leased' = leased \ {a} /\ UNCHANGED remote
  IN /\ w.phase = "clean"
     /\ IF w.sent
        THEN (Answered(cancel) \/ Lost(cancel)) /\ Turns(a, [w EXCEPT !.sent = FALSE])
        ELSE /\ Answered(release) \/ Lost(release)
             /\ Turns(a, [w EXCEPT !.phase = "settle"])

\* record_audit_unavailable_terminal: the failure is shown without an audit
\* record, and nothing is audited any more.
Unauditable(w, a) ==
  IF w.svc.now.activity[a].state \in Terminal THEN {w}
  ELSE Record([w EXCEPT !.svc.healthy = FALSE], a, "failed", None)

\* run_remote_job after a failure.
ShowUnauditable(a) ==
  LET next == [worker[a] EXCEPT !.phase = "read"]
  IN /\ worker[a].phase = "settle"
     /\ IF worker[a].failure = "audit_unavailable"
        THEN Handled(a, Unauditable(World, a), LAMBDA r : next)
        ELSE /\ Turns(a, IF worker[a].failure = "none"
                         THEN [next EXCEPT !.phase = "leave"] ELSE next)
             /\ UNCHANGED <<remote, leased, losses>>

ReadState(a) ==
  /\ worker[a].phase = "read"
  /\ Turns(a, [worker[a] EXCEPT !.read = State(a),
                 !.phase = IF State(a) = "queued" THEN "mark"
                           ELSE IF State(a) \in Terminal THEN "leave" ELSE "fail"])
  /\ UNCHANGED <<remote, leased, losses>>

\* A queued activity cannot fail, so it is made reconnecting first.
MarkQueued(a) ==
  /\ worker[a].phase = "mark"
  /\ Handled(a, Transition(World, a, "reconnecting"),
             LAMBDA r : [worker[a] EXCEPT !.phase = "fail"])

\* Mutant: a failed execution is not shown.
ShowFailedNot(a) ==
  /\ worker[a].phase = "fail" /\ Turns(a, [worker[a] EXCEPT !.phase = "leave"])
  /\ UNCHANGED <<remote, leased, losses>>

ShowFailed(a) ==
  /\ worker[a].phase = "fail"
  /\ Handled(a, Transition(World, a, "failed"),
             LAMBDA r : [worker[a] EXCEPT !.phase = "leave"])

Leave(a) ==
  /\ worker[a].phase = "leave"
  /\ Turns(a, Idle) /\ UNCHANGED <<remote, leased, losses>>

WorkerStep(a) ==
  \/ AcquireLease(a) \/ SubmitJob(a) \/ ShowStarted(a) \/ PollEvents(a)
  \/ ShowAway(a) \/ ShowBack(a) \/ ShowEnd(a) \/ CleanUp(a) \/ ShowUnauditable(a)
  \/ ReadState(a) \/ MarkQueued(a) \/ ShowFailed(a) \/ Leave(a)

-----------------------------------------------------------------------------
(* The rest of the daemon, and the registry.                               *)

\* The CancelActivity request: a cancellation that was reported stops the worker.
CancelExecution(a) ==
  /\ "cancel" \in AdminOps /\ svc.up /\ disk.last < MaxAudits
  /\ \E r \in Then(Authorized(World, "cancel"), LAMBDA v : Cancelled(v, a)) :
       LET tell == /\ r.out = "ok" /\ worker[a].phase # "idle"
                   /\ State(a) \notin Terminal \cup {"none"}
       IN /\ Become(r)
          /\ IF svc'.up THEN UNCHANGED worker ELSE worker' = [b \in Jobs |-> Idle]
          /\ token' = IF ~svc'.up THEN {} ELSE IF tell THEN token \cup {a} ELSE token
  /\ UNCHANGED <<late, stale, remote, leased, losses>>

\* The job ends at the agent.
JobEnds(a) ==
  /\ remote[a] = "running"
  /\ \E kind \in {"completed", "rejected"} : remote' = [remote EXCEPT ![a] = kind]
  /\ UNCHANGED <<daemon, worker, token, leased, losses>>

\* Other requests to the daemon; its stop ends the workers.  Blocking decisions,
\* rules and the approvals of administrative requests are left to Dashboard.
OtherRequest ==
  /\ \/ \E a \in Jobs : RequestApproval(a)
     \/ \E n \in Nonces, d \in {"allow", "deny"} : DecideApproval(n, d)
     \/ \E existing \in {"finish", "cancel"} : Pause(existing)
     \/ Resume
     \/ Start
     \/ Crash
  /\ Alive /\ UNCHANGED <<remote, leased, losses>>

RemoteNext ==
  \/ \E a \in Jobs :
       StartExecution(a) \/ WorkerStep(a) \/ Deadline(a) \/ CancelExecution(a) \/ JobEnds(a)
  \/ OtherRequest

\* A worker is a thread of its own, and its deadline is a clock: the loop looks
\* at it again and again, so a worker that keeps polling is over at some time.
RemoteFairness == \A a \in Jobs : WF_rvars(WorkerStep(a)) /\ SF_rvars(Deadline(a))

RemoteSpec == RemoteInit /\ [][RemoteNext]_rvars /\ RemoteFairness

-----------------------------------------------------------------------------
(* Properties.                                                             *)

Undisturbed == faults = MaxFaults /\ crashes = MaxCrashes /\ losses = MaxLosses

\* The worker leaves nothing behind at the registry, however it ended: refused,
\* failed, cancelled at any step or out of time (RemoteCleanupGuard).
NothingLeftRunning ==
  Undisturbed => \A a \in Jobs :
    worker[a].phase = "idle" => remote[a] # "running" /\ a \notin leased

\* An activity is shown as succeeded only if its job was completed, although
\* it may have been cancelled, asked for again and executed again meanwhile.
SucceededIsReal ==
  \A a \in Jobs : State(a) = "succeeded" => remote[a] = "completed"

\* No activity is shown at work when no worker works on it: run_remote_job ends
\* it, whatever happened between reading its state and writing it.
AtWorkIsWorkedOn ==
  faults = MaxFaults /\ crashes = MaxCrashes =>
    \A a \in Jobs : State(a) \in {"running", "reconnecting"} => worker[a].phase # "idle"

\* Every execution ends (docs/plans/2026-09-02-mesh-dashboard-activity-policy.md:403:
\* "Each case must terminate").
ExecutionsEnd == \A a \in Jobs : worker[a].phase # "idle" ~> worker[a].phase = "idle"

=============================================================================
