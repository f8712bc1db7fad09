------------------------------ MODULE Lifecycles ------------------------------
(***************************************************************************)
(* The times of an activity.  The dashboard service stamps every event of  *)
(* an activity with the wall clock (src/src/dashboard/service.rs), and an  *)
(* event is only saved, and a snapshot only sent, if its times fit its     *)
(* state and each other (src/src/dashboard/model.rs, validate_lifecycle):  *)
(* the checkpoint, the journal and the answers validate what they          *)
(* serialise.  The wall clock may be set back.                             *)
(*                                                                         *)
(* One activity, and no failed writes: Dashboard has those.                *)
(***************************************************************************)
EXTENDS Naturals, FiniteSets

CONSTANTS None, MaxWall  \* a bound: the wall clock

VARIABLES
  wall,     \* the wall clock
  event,    \* the activity's last event, None before the first
  approval, \* its access waits for a decision
  running,  \* the daemon runs
  refused   \* the last operation was refused for its times

lifecycleVars == <<wall, event, approval, running, refused>>

EndStates == {"succeeded", "failed", "denied", "cancelled"}

Stamped(state, started, finished) ==
  [state |-> state, occurred |-> wall, started |-> started, finished |-> finished]

-----------------------------------------------------------------------------
(* validate_lifecycle.                                                     *)

InOrder(early, late) == early # None /\ late # None => early <= late

Fits(state, started, finished) ==
  /\ state \in {"awaiting", "queued"} => started = None
  /\ state \in {"running", "reconnecting", "succeeded", "failed"} => started # None
  /\ state \in EndStates <=> finished # None

ValidEvent(e) ==
  /\ Fits(e.state, e.started, e.finished)
  /\ InOrder(e.started, e.occurred) /\ InOrder(e.started, e.finished)
  /\ InOrder(e.occurred, e.finished)

\* ActivitySummary, what a snapshot says of the activity.
SummaryOf(e) == [state |-> e.state, started |-> e.started, finished |-> e.finished]

ValidSummary(s) == Fits(s.state, s.started, s.finished) /\ InOrder(s.started, s.finished)

-----------------------------------------------------------------------------
(* The operations that record an event.                                    *)

\* record_activity: an event that is not valid cannot be saved, nothing changes.
RecordEvent(e) ==
  IF ValidEvent(e) THEN event' = e /\ refused' = FALSE
  ELSE UNCHANGED event /\ refused' = TRUE

\* Mutant: an activity that ends without having run has no start.
StartOfKept(e) == e.started

\* get_or_insert.
StartOf(e) == IF e.started = None THEN wall ELSE e.started

LifecycleInit ==
  wall = 1 /\ event = None /\ approval = FALSE /\ running = TRUE /\ refused = FALSE

\* Asked again, the activity begins anew, whatever its state.
AskAccess ==
  /\ RecordEvent(Stamped("awaiting", None, None))
  /\ approval' = (approval \/ ~refused')

DenyAccess == RecordEvent(Stamped("denied", None, wall)) /\ UNCHANGED approval

TargetIsOffline == RecordEvent(Stamped("failed", wall, wall)) /\ UNCHANGED approval

\* A refused decision is taken back.
DecideAccess ==
  /\ approval
  /\ \/ RecordEvent(Stamped("queued", None, None))
     \/ RecordEvent(Stamped("denied", None, wall))
  /\ approval' = refused'

\* The approval is over: it is gone even if the activity is past waiting.
ApprovalIsOver ==
  /\ approval /\ approval' = FALSE
  /\ IF event.state = "awaiting" THEN RecordEvent(Stamped("failed", StartOf(event), wall))
     ELSE UNCHANGED <<event, refused>>

Observe ==
  /\ event # None
  /\ \/ /\ event.state \in {"queued", "reconnecting"}
        /\ RecordEvent(Stamped("running", StartOf(event), None))
     \/ /\ event.state \in {"queued", "running"}
        /\ RecordEvent(Stamped("reconnecting", StartOf(event), None))
     \/ /\ event.state \in {"running", "reconnecting"}
        /\ \E end \in {"succeeded", "failed"} :
             RecordEvent(Stamped(end, StartOf(event), wall))
  /\ UNCHANGED approval

AuditIsUnavailable ==
  /\ event # None /\ event.state \notin EndStates
  /\ RecordEvent(Stamped("failed", StartOf(event), wall))
  /\ UNCHANGED approval

\* What never ran is cancelled without a start.
CancelIt ==
  /\ event # None /\ event.state \notin EndStates
  /\ RecordEvent(Stamped("cancelled", event.started, wall))
  /\ UNCHANGED approval

\* A local mutation is an activity of its own, over at once.
LocalMutation ==
  /\ event = None
  /\ RecordEvent(Stamped("succeeded", wall, wall))
  /\ UNCHANGED approval

StopDaemon ==
  /\ running /\ running' = FALSE
  /\ refused' = FALSE
  /\ UNCHANGED <<event, approval>>

\* reconcile_after_restart: what was at work has failed; the daemon does not start
\* if it cannot say so.
StartDaemon ==
  /\ ~running
  /\ IF event # None /\ event.state \in {"queued", "running"}
     THEN RecordEvent(Stamped("failed", StartOf(event), wall))
     ELSE UNCHANGED event /\ refused' = FALSE
  /\ running' = ~refused'
  /\ UNCHANGED approval

SetClock ==
  /\ wall' \in 1 .. MaxWall /\ refused' = FALSE
  /\ UNCHANGED <<event, approval, running>>

LifecycleNext ==
  \/ SetClock
  \/ /\ \/ StopDaemon \/ StartDaemon
        \/ /\ running /\ UNCHANGED running
           /\ \/ AskAccess \/ DenyAccess \/ TargetIsOffline \/ DecideAccess \/ ApprovalIsOver
              \/ Observe \/ AuditIsUnavailable \/ CancelIt \/ LocalMutation
     /\ UNCHANGED wall

LifecycleSpec == LifecycleInit /\ [][LifecycleNext]_lifecycleVars

-----------------------------------------------------------------------------
(* Properties.                                                             *)

\* Whatever has happened to an activity, the operation that comes next is accepted
\* with its times, and so is the restart of the daemon, unless the clock is behind
\* the start that was recorded; and what was saved can be shown.
TimesAreAccepted ==
  /\ refused => event # None /\ event.started # None /\ wall < event.started
  /\ event # None => ValidSummary(SummaryOf(event))
=================================================================================
