------------------------------ MODULE Dashboard ------------------------------
(***************************************************************************)
(* The dashboard service of the daemon (src/src/dashboard/service.rs):     *)
(* access requests, the approvals a person at the target decides, the      *)
(* one-time grants that approved administrative requests give, the policy  *)
(* rules that block a request, pausing, and the lifecycle of an activity.  *)
(*                                                                         *)
(* The service runs under one mutex, so no handler sees another half done. *)
(* What interleaves with a handler is a failure: every handler writes the  *)
(* audit log and the checkpoint file one after the other, each write may   *)
(* fail, and the daemon may stop between two of them.  A handler is        *)
(* therefore an operator from a world (the service, its files, the failures*)
(* that are left) to the set of worlds it may end in, composed of its      *)
(* writes with Then and Else.                                              *)
(***************************************************************************)
EXTENDS Integers, FiniteSets, Worlds

CONSTANTS
  Jobs,          \* activities that ask for access to this host
  AdminOps,      \* administrative operations a client asks approval for
  Managed,       \* administrative operations a managed rule allows
  None,
  MaxApprovals,  \* bound: approvals requested
  MaxAudits,     \* bound: no handler starts once this many records follow the checkpoint
  MaxFaults,     \* bound: failed writes
  MaxCrashes,    \* bound: stops of the daemon
  MaxTroubles    \* bound: failed writes and stops together

VARIABLES
  svc,      \* the service in memory
  disk,     \* the checkpoint file, and the audit log: how many records it has
            \* after the one the checkpoint names, and for which activities the
            \* last handler wrote one
  asked,    \* asked[n]: the activity that approval n was created for
  uses,     \* uses[n]: how often approval n, or the grant it gave, was acted on
  held,     \* a pause was acknowledged, and nothing has questioned it since
  late,     \* approvals whose lifetime is over
  stale,    \* approvals whose grant is older than five minutes
  faults,   \* failed writes left
  crashes   \* stops left

vars == <<svc, disk, asked, uses, held, late, stale, faults, crashes>>

Activities == Jobs \cup AdminOps
Nonces == 1 .. MaxApprovals
Terminal == {"succeeded", "failed", "denied", "cancelled"}
States == {"none", "awaiting", "queued", "running", "reconnecting"} \cup Terminal
Digested == {"put", "drop", "erase"}  \* operations whose approval is bound to their content

\* What the checkpoint saves.  Of the sequence number of an activity's last
\* event the model keeps whether it is odd, which tells an event from the next.
Fresh ==
  [activity |-> [a \in Activities |-> [state |-> "none", odd |-> FALSE]],
   pending |-> {}, bound |-> {}, grants |-> {}, open |-> {},
   blocked |-> {}, rule |-> FALSE, paused |-> FALSE]

\* The checkpoints there may be (PersistedDashboard).
Checkpoints ==
  [activity : [Activities -> [state : States, odd : BOOLEAN]],
   pending : SUBSET Nat, bound : SUBSET Nat, grants : SUBSET Nat, open : SUBSET Nat,
   blocked : SUBSET Activities, rule : BOOLEAN, paused : BOOLEAN]

ASSUME DashboardAssumption ==
  /\ IsFiniteSet(Jobs)
  /\ AdminOps \subseteq {"pause", "resume", "cancel", "put", "drop", "erase"}
  /\ Managed \subseteq AdminOps
  /\ Jobs \cap AdminOps = {}
  /\ None \notin Activities /\ None \notin Checkpoints
  /\ {MaxApprovals, MaxAudits, MaxFaults, MaxCrashes, MaxTroubles} \subseteq Nat

Service(now, last) ==
  [up |-> TRUE, healthy |-> TRUE, store |-> TRUE, next |-> last + 1,
   keys |-> {}, now |-> now]

Down == [Service(Fresh, 0) EXCEPT !.up = FALSE]

Init ==
  /\ svc = Service(Fresh, 0)
  /\ disk = [ck |-> None, last |-> 0, written |-> {}]
  /\ asked = <<>>
  /\ uses = [n \in Nonces |-> 0]
  /\ held = FALSE
  /\ late = {}
  /\ stale = {}
  /\ faults = MaxFaults
  /\ crashes = MaxCrashes

-----------------------------------------------------------------------------
(* Worlds: the writes of a handler, and how they follow each other.        *)

Troubles == MaxTroubles - ((MaxFaults - faults) + (MaxCrashes - crashes))

\* Audit records are numbered from the one that the checkpoint names.
World ==
  [svc |-> svc, disk |-> [disk EXCEPT !.written = {}], covers |-> 0,
   asked |-> asked, uses |-> uses, held |-> held,
   faults |-> faults, crashes |-> crashes, troubles |-> Troubles, out |-> "ok"]

\* The audit record `raw` is appended for activity a (None: for no activity).
\* A failed append makes the service refuse all later ones until a restart.
Logged(w, a) ==
  [w EXCEPT !.disk.last = w.svc.next,
            !.disk.written = @ \cup {a}]

Audit(w, a) ==
  IF ~w.svc.healthy THEN Refuse(w)
  ELSE IF ~w.svc.store \/ w.svc.next <= w.disk.last
  THEN Refuse([w EXCEPT !.svc.healthy = FALSE])
  ELSE LET done == Logged(w, a)
           ill(v) == [v EXCEPT !.svc.healthy = FALSE, !.svc.store = FALSE]
       IN {[done EXCEPT !.svc.next = @ + 1]} \cup Stopped(done)
          \cup Faulty(ill(w), ill(done))

\* Mutant: the checkpoint names the record that is to come.
PersistAhead(w) ==
  LET saved == [w EXCEPT !.disk.ck = w.svc.now, !.covers = w.svc.next]
  IN Written(w, saved)

\* The checkpoint names the last audit record it knows of.
Persist(w) ==
  LET saved == [w EXCEPT !.disk.ck = w.svc.now, !.covers = w.svc.next - 1]
  IN Written(w, saved)

\* The failure is audited and reported.
Sorry(w, a) == Then(Audit(w, a), Refuse)

\* A new event of activity a: the checkpoint with it is written first, then
\* the journal and the service take it.  A key the journal holds is refused.
Record(w, a, state, key) ==
  IF key \in w.svc.keys THEN Refuse(w)
  ELSE LET event == [state |-> state, odd |-> ~w.svc.now.activity[a].odd]
           next == [w EXCEPT !.svc.now.activity[a] = event]
           undo(v) == Refuse([v EXCEPT !.svc.now.activity = w.svc.now.activity])
           keep(v) == {[v EXCEPT !.svc.keys =
                          IF key = None THEN @ ELSE @ \cup {key}]}
       IN Then(Else(Persist(next), undo), keep)

Moves ==
  {<<"queued", "running">>, <<"awaiting", "failed">>, <<"queued", "reconnecting">>,
   <<"running", "reconnecting">>, <<"running", "succeeded">>, <<"running", "failed">>,
   <<"reconnecting", "running">>, <<"reconnecting", "succeeded">>,
   <<"reconnecting", "failed">>}

\* What the execution layer saw; an end is audited before it is recorded.
Transition(w, a, state) ==
  LET from == w.svc.now.activity[a].state
      record(v) == Record(v, a, state, None)
  IN IF from = state THEN {w}
     ELSE IF <<from, state>> \notin Moves THEN Refuse(w)
     ELSE IF state \in Terminal THEN Then(Audit(w, a), record)
     ELSE record(w)
-----------------------------------------------------------------------------
(* The handlers, as sets of worlds.                                        *)

\* The policy: exact rules that decisions made, and one rule over the jobs.
Denied(now, a) == a \in now.blocked \/ (now.rule /\ a \in Jobs)

\* While paused, only the approval of a resume is let through.
Closed(w, a) == w.svc.now.paused /\ a # "resume"

\* request_approval, after the pause check.
Ask(w, a) ==
  LET n == Len(w.asked) + 1
      undo(v) == Sorry([v EXCEPT !.svc.now.open = w.svc.now.open,
                                 !.svc.now.pending = w.svc.now.pending], a)
      create(v) ==
        Else(Record([v EXCEPT !.asked = Append(@, a),
                              !.svc.now.open = (@ \ late) \cup {n},
                              !.svc.now.pending = @ \cup {n}],
                    a, "awaiting", None), undo)
      deny(v) == Then(Record(v, a, "denied", None), Refuse)
  IN Then(Audit(w, a), LAMBDA v : IF Denied(v.svc.now, a) THEN deny(v) ELSE create(v))

\* request_admin_mutation_approval: the approval is then bound to the content.
Bind(w) ==
  LET n == Len(w.asked)
      undo(v) == Refuse([v EXCEPT !.svc.now.bound = @ \ {n}])
  IN Else(Persist([w EXCEPT !.svc.now.bound = @ \cup {n}]), undo)

Asked(w, a) ==
  IF Closed(w, a) THEN Refuse(w)
  ELSE IF a \in Digested THEN Then(Ask(w, a), Bind) ELSE Ask(w, a)

\* record_preapproval_target_offline
Offline(w, a) ==
  Then(Audit(w, a), LAMBDA v : Record(v, a, "failed", <<"offline", a>>))

Decisions == {"allow", "deny", "block"}

\* decide_approval, of an approval that is still open.
Settle(w, n, a, decision) ==
  LET undo(v) == Sorry([v EXCEPT !.svc.now = w.svc.now], a)
      spent == [w EXCEPT !.svc.now.open = @ \ {n},
                         !.svc.now.pending = @ \ {n},
                         !.svc.now.grants = IF decision = "allow" /\ a \in AdminOps
                                            THEN @ \cup {n} ELSE @,
                         !.svc.now.blocked = IF decision = "block" THEN @ \cup {a}
                                             ELSE @]
      count(v) == {[v EXCEPT !.uses[n] = IF decision = "allow" /\ a \in Jobs
                                         THEN @ + 1 ELSE @]}
      state == IF decision = "allow" THEN "queued" ELSE "denied"
  IN Then(Else(Record(spent, a, state, None), undo), count)

\* Mutant: the policy was evaluated when the approval was asked for.
DecidedAnyway(w, n, decision) ==
  LET a == w.asked[n]
  IN IF Closed(w, a) \/ n \notin w.svc.now.open \ late THEN Refuse(w)
     ELSE Then(Audit(w, a), LAMBDA v : Settle(v, n, a, decision))

Decided(w, n, decision) ==
  LET a == w.asked[n]
      expire(v) == Then(Transition([v EXCEPT !.svc.now.pending = @ \ {n}], a, "failed"),
                        Refuse)
      decide(v) == IF n \notin v.svc.now.open THEN Sorry(v, a)
                   ELSE IF n \in late THEN expire(v)
                   ELSE Settle(v, n, a, decision)
  IN IF Closed(w, a) THEN Refuse(w)
     ELSE IF Denied(w.svc.now, a) THEN Sorry(w, a)
     ELSE Then(Audit(w, a), decide)

\* Mutant: a grant is spent in memory only.
AuthorizedUnsaved(w, op) ==
  LET fitting == {n \in w.svc.now.grants \ stale : w.asked[n] = op}
  IN IF Denied(w.svc.now, op) THEN Sorry(w, None)
     ELSE IF op \in Managed THEN {w}
     ELSE {[w EXCEPT !.svc.now.grants = @ \ {n}, !.uses[n] = @ + 1] : n \in fitting}

\* authorize_admin: a managed rule, or one grant that is spent by this use.
Authorized(w, op) ==
  LET fresh == [w EXCEPT !.svc.now.grants = @ \ stale]
      fits(n) == w.asked[n] = op /\ (n \in w.svc.now.bound) = (op \in Digested)
      undo(v) == Refuse([v EXCEPT !.svc.now.grants = fresh.svc.now.grants])
      spend(n) ==
        Then(Else(Persist([fresh EXCEPT !.svc.now.grants = @ \ {n}]), undo),
             LAMBDA v : {[v EXCEPT !.uses[n] = @ + 1]})
      fitting == {n \in fresh.svc.now.grants : fits(n)}
  IN IF Denied(w.svc.now, op) THEN Sorry(w, None)
     ELSE IF op \in Managed THEN {w}
     ELSE IF fitting = {} THEN Refuse(fresh)
     ELSE UNION {spend(n) : n \in fitting}

\* cancel_activity_inner
Cancelled(w, a) ==
  LET record(v) == Else(Record(v, a, "cancelled", <<"cancel", a>>),
                        LAMBDA u : Sorry(u, a))
  IN IF w.svc.now.activity[a].state \in Terminal \cup {"none"} THEN {w}
     ELSE Then(Then(Audit(w, a), record), LAMBDA v : Audit(v, a))

\* append_local_event: a record of its own that ends at once.
Local(w) == Persist(w)

\* pause: what follows the grant.  Any failure lets requests in again.
Paused(w, order) ==
  LET undo(v) == Sorry([v EXCEPT !.svc.now.paused = FALSE, !.held = FALSE], None)
      close(v) == Then(Each([v EXCEPT !.svc.now.paused = TRUE], order, Cancelled), Local)
      hold(v) == {[v EXCEPT !.held = TRUE]}
  IN Then(Audit(w, None), LAMBDA v : Then(Else(close(v), undo), hold))

Resumed(w) ==
  LET undo(v) == Sorry([v EXCEPT !.svc.now.paused = TRUE], None)
      open(v) == Else(Local([v EXCEPT !.svc.now.paused = FALSE, !.held = FALSE]), undo)
  IN Then(Audit(w, None), open)

\* put_policy_rule_exact and delete_policy_rule_exact: the grant is spent even
\* when the rule is no longer as the client saw it.
Ruled(w, on) ==
  LET undo(v) == Sorry([v EXCEPT !.svc.now.rule = w.svc.now.rule], None)
      change(v) == Else(Local([v EXCEPT !.svc.now.rule = on]), undo)
  IN IF w.svc.now.rule = on THEN Refuse(w) ELSE Then(Audit(w, None), change)

\* delete_audit_exact: the store appends a record of the deletion itself,
\* unless nothing is deleted.
Erased(w) ==
  LET done == [w EXCEPT !.disk.last = @ + 1]
  IN IF ~w.svc.store THEN Refuse(w)
     ELSE {w} \cup Written(w, done)

\* Mutant: what a restart ends is not audited.
InterruptedSilently(w, a) == Record(w, a, "failed", None)

\* reconcile_after_restart
Interrupted(w, a) ==
  Then(Audit(w, a), LAMBDA v : Record(v, a, "failed", None))

\* Mutant: a daemon starts open for requests.
StartedOpen(w, order) ==
  {[w EXCEPT !.svc = Service(IF w.disk.ck = None THEN Fresh
                             ELSE [w.disk.ck EXCEPT !.paused = FALSE], w.disk.last)]}

\* new_persistent: a daemon that cannot load and reconcile its files exits.
Started(w, order) ==
  LET saved == w.disk.ck
      loaded == [w EXCEPT !.svc = Service(IF saved = None THEN Fresh ELSE saved,
                                          w.disk.last)]
      exit(v) == {[v EXCEPT !.out = "down"]}
  IN Else(Each(loaded, order, Interrupted), exit)

-----------------------------------------------------------------------------
(* The actions: one request of the local client, the execution layer or    *)
(* the operating system at a time.                                         *)

Become(r) ==
  /\ svc' = IF r.out = "down" THEN Down ELSE [r.svc EXCEPT !.next = @ - r.covers]
  /\ disk' = [r.disk EXCEPT !.last = @ - r.covers]
  /\ asked' = r.asked /\ uses' = r.uses
  /\ held' = r.held /\ faults' = r.faults /\ crashes' = r.crashes

Handle(W) ==
  /\ svc.up /\ disk.last < MaxAudits
  /\ \E r \in W : Become(r)
  /\ UNCHANGED <<late, stale>>

Orders(S) == {SetToSeq(S)} \cup {Reverse(SetToSeq(S))}

RequestApproval(a) == Len(asked) < MaxApprovals /\ Handle(Asked(World, a))

RecordTargetOffline(a) == a \in Jobs /\ Handle(Offline(World, a))

DecideApproval(n, decision) ==
  n \in svc.now.pending /\ Handle(Decided(World, n, decision))

TransitionActivity(a, state) ==
  /\ svc.now.activity[a].state # "none" /\ a \in Jobs
  /\ Handle(Transition(World, a, state))

CancelActivity(a) ==
  /\ "cancel" \in AdminOps
  /\ Handle(Then(Authorized(World, "cancel"), LAMBDA v : Cancelled(v, a)))

Pause(existing) ==
  /\ "pause" \in AdminOps
  /\ \E order \in IF existing = "finish" THEN {<<>>} ELSE Orders(Activities) :
       Handle(Then(Authorized(World, "pause"), LAMBDA v : Paused(v, order)))

Resume ==
  "resume" \in AdminOps /\ Handle(Then(Authorized(World, "resume"), Resumed))

ChangeRule(op) ==
  op \in AdminOps /\ Handle(Then(Authorized(World, op), LAMBDA v : Ruled(v, op = "put")))

DeleteAudit ==
  "erase" \in AdminOps /\ Handle(Then(Authorized(World, "erase"), Erased))

Start ==
  /\ ~svc.up /\ disk.last < MaxAudits
  /\ disk.last >= 0
  /\ LET saved == IF disk.ck = None THEN Fresh ELSE disk.ck
         lost == {a \in Activities : saved.activity[a].state \in {"queued", "running"}}
     IN \E order \in Orders(lost) : \E r \in Started(World, order) : Become(r)
  /\ UNCHANGED <<late, stale>>

Crash ==
  /\ svc.up /\ crashes > 0 /\ Troubles > 0
  /\ svc' = Down /\ crashes' = crashes - 1
  /\ UNCHANGED <<disk, asked, uses, held, late, stale, faults>>

\* The minutes of an approval, or of a grant, pass.
Expire(n) ==
  /\ n \in DOMAIN asked /\ n \notin late
  /\ late' = late \cup {n}
  /\ UNCHANGED <<svc, disk, asked, uses, held, stale, faults, crashes>>

ExpireGrant(n) ==
  /\ n \in svc.now.grants /\ n \notin stale
  /\ stale' = stale \cup {n}
  /\ UNCHANGED <<svc, disk, asked, uses, held, late, faults, crashes>>

Next ==
  \/ \E a \in Activities : RequestApproval(a) \/ RecordTargetOffline(a) \/ CancelActivity(a)
  \/ \E n \in Nonces, d \in Decisions : DecideApproval(n, d)
  \/ \E a \in Jobs, state \in {"running", "reconnecting", "succeeded", "failed"} :
       TransitionActivity(a, state)
  \/ \E existing \in {"finish", "cancel"} : Pause(existing)
  \/ Resume
  \/ \E op \in {"put", "drop"} : ChangeRule(op)
  \/ DeleteAudit
  \/ Start
  \/ Crash
  \/ \E n \in Nonces : Expire(n) \/ ExpireGrant(n)

Spec == Init /\ [][Next]_vars

-----------------------------------------------------------------------------
(* Properties.                                                             *)

\* What a person approved once is done at most once, although the daemon stops
\* between the write of the checkpoint and the reply, a write fails after it
\* took effect, and the same approval is decided again after a failure
\* (decide_approval, authorize_admin, new_persistent).
ApprovalSpentOnce == \A n \in DOMAIN uses : uses[n] <= 1

\* Once a pause is acknowledged the service lets no request in, in this life
\* or the next, until a resume or a failing pause or resume touches it.
PauseHolds ==
  held => /\ disk.ck # None => disk.ck.paused
          /\ svc.up => svc.now.paused

\* The files always let the daemon start again: the checkpoint never names an
\* audit record that the log does not have (new_persistent refuses that as
\* AuditUnavailable), whatever write failed or was cut short.  And without a
\* failed write the checkpoint is what the service holds, whatever was refused
\* meanwhile: stopping the daemon between two requests loses nothing but grants
\* and approvals whose time is over.
StartsWithAll ==
  /\ disk.last >= 0
  /\ svc.up /\ faults = MaxFaults /\ disk.ck # None =>
       LET now == svc.now  ck == disk.ck
       IN /\ <<now.activity, now.blocked, now.rule, now.open>>
               = <<ck.activity, ck.blocked, ck.rule, ck.open>>
          /\ now.grants \ stale = ck.grants \ stale
          /\ now.pending \ late = ck.pending \ late

\* An activity that is asked for, decided, refused, cancelled or ended on disk
\* has an audit record of the same step, even when the daemon stops within the
\* step (the audit comes before the checkpoint).  Progress is not audited.
EventsAreAudited ==
  [][\A a \in DOMAIN svc.now.activity :
       LET before == IF disk.ck = None THEN Fresh ELSE disk.ck
           event == disk'.ck.activity[a]
       IN /\ disk'.ck # disk.ck
          /\ event \notin {before.activity[a], svc.now.activity[a]}
          /\ event.state \notin {"running", "reconnecting"}
          => a \in disk'.written]_vars

\* A rule or a blocking decision overrides every approval, also one that was
\* asked for before it: what is denied is not queued by a later decision.
DenyOverrides ==
  [][\A a \in DOMAIN svc.now.activity :
       Denied(svc.now, a) /\ svc'.up /\ svc'.now.activity[a].state = "queued"
         => svc'.now.activity[a] = svc.now.activity[a]]_vars
=============================================================================
