-------------------------------- MODULE Feed --------------------------------
(***************************************************************************)
(* The event journal and those who read it: the daemon records activities  *)
(* (service.rs), the desktop application pumps the events and synchronises *)
(* itself again when it fell behind (desktop/src/App.tsx), and the command *)
(* line tool watches until something goes wrong (bin/devicelane.rs).  The  *)
(* daemon may stop at any time and start with a new journal.               *)
(***************************************************************************)
EXTENDS EventJournal

CONSTANTS
  Activities, Local,   \* activities, and those that concern this host
  None, App, Cli,      \* no journal; the subscriber ids
  MaxEvents, MaxFaults, MaxStops  \* bounds: events, failed saves, stops of the daemon

ASSUME FeedAssumption ==
  Local \subseteq Activities /\ {MaxEvents, MaxFaults, MaxStops} \subseteq Nat

VARIABLES
  journal,   \* the journal, None while the daemon is down
  recorded,  \* the service's activities, with their last sequence numbers
  saved,     \* the checkpoint on disk
  lives,     \* how often the daemon was started
  app,       \* the desktop application
  cli,       \* the command line tool
  told,      \* every event that was ever published
  made, faults

vars == <<journal, recorded, saved, lives, app, cli, told, made, faults>>

LocalEvents == {e \in told : e.activity \in Local}

\* A reader has a cursor, and knows when it got it and from where on it read all events.
NewApp ==
  [cursor |-> Cursor(0, 0), life |-> 0, from |-> 0, phase |-> "read", next |-> Cursor(0, 0),
   seen |-> {}, snapshot |-> <<>>, servedIn |-> 0, lastResync |-> None, wasAhead |-> FALSE]

NewCli ==
  [cursor |-> Cursor(1, 0), life |-> 1, from |-> 0, phase |-> "read", next |-> Cursor(0, 0),
   printed |-> <<>>]

Init ==
  /\ journal = Journal(1) /\ recorded = <<>> /\ saved = <<>> /\ lives = 1
  /\ app = NewApp /\ cli = NewCli
  /\ told = {} /\ made = 0 /\ faults = 0

Up == journal # None

-----------------------------------------------------------------------------
(* The daemon.                                                             *)

Event(a, what) ==
  [activity |-> a, what |-> what,
   sequence |-> (IF a \in DOMAIN recorded THEN recorded[a] ELSE 0) + 1]

With(activities, e) ==
  [a \in DOMAIN activities \cup {e.activity} |->
     IF a = e.activity THEN e.sequence ELSE activities[a]]

\* persist_state refuses more activities than the checkpoint may hold.
Savable(activities) == Cardinality(DOMAIN activities) <= Capacity

\* record_activity: the checkpoint is written, and then the event is published.
Record(e) ==
  LET next == With(recorded, e)
      ready == Prepared(journal, e)
      failed == journal' = ready /\ UNCHANGED <<recorded, told>>
  IN IF Refused(journal, e) THEN UNCHANGED <<journal, recorded, saved, told, faults>>
     ELSE \/ /\ Savable(next)
             /\ journal' \in Published(ready, e) /\ told' = told \cup {e}
             /\ recorded' = next /\ saved' = next
             /\ UNCHANGED faults
          \/ /\ ~Savable(next) /\ failed
             /\ UNCHANGED <<saved, faults>>
          \/ /\ Savable(next) /\ faults < MaxFaults /\ faults' = faults + 1 /\ failed
             /\ saved' \in {saved, next}

RecordActivity(a) ==
  /\ Up /\ made < MaxEvents /\ made' = made + 1
  /\ Record(Event(a, "progress"))
  /\ UNCHANGED <<lives, app, cli>>

\* The daemon stops, also between the write of the checkpoint and the end of it all.
Stop ==
  /\ Up /\ lives <= MaxStops
  /\ journal' = None /\ recorded' = <<>>
  /\ \/ UNCHANGED <<saved, made>>
     \/ /\ made < MaxEvents /\ made' = made + 1
        /\ \E a \in Activities :
             LET next == With(recorded, Event(a, "progress"))
             IN Savable(next) /\ saved' = next
  /\ UNCHANGED <<lives, app, cli, told, faults>>

\* new_persistent: the journal begins again at epoch 1, with the sequence
\* numbers of the checkpoint; one of its activities was at work and is ended.
Start ==
  /\ ~Up /\ lives' = lives + 1
  /\ LET j == Restored(Journal(1), saved)
     IN \/ /\ journal' = j /\ recorded' = saved
           /\ UNCHANGED <<saved, told>>
        \/ \E a \in DOMAIN saved :
             LET e == [activity |-> a, what |-> "interrupted", sequence |-> saved[a] + 1]
             IN /\ journal' \in Published(j, e) /\ told' = told \cup {e}
                /\ recorded' = With(saved, e) /\ saved' = recorded'
  /\ UNCHANGED <<app, cli, made, faults>>

-----------------------------------------------------------------------------
(* DashboardService::acknowledge: the answer is an error when the cursor   *)
(* is not one of the journal's or there are too many subscribers.          *)

Acceptable(j, s, cursor) == ~IsFull(j, s) /\ ~Stale(j, cursor) /\ ~Ahead(j, cursor)

AfterAcknowledge(j, s, cursor) ==
  IF IsFull(j, s) THEN j
  ELSE IF Acceptable(j, s, cursor) THEN Acknowledged(Subscribed(j, s), s, cursor)
  ELSE Subscribed(j, s)

-----------------------------------------------------------------------------
(* The desktop application; an error of a request is followed by another   *)
(* try, and "stopped" is the banner that the stream has ended.             *)

AppOnly == UNCHANGED <<recorded, saved, lives, cli, told, made, faults>>

AppEvents ==
  /\ app.phase = "read" /\ Up /\ ~Stale(journal, app.cursor) /\ ~Ahead(journal, app.cursor)
  /\ LET page == Page(journal, app.cursor, LocalEvents)
     IN app' = [app EXCEPT !.seen = @ \cup Range(page.events), !.next = page.next,
                           !.servedIn = lives, !.lastResync = None, !.phase = "acknowledge"]
  /\ journal' \in ExpireIdle(journal) /\ AppOnly

AppAcknowledge ==
  /\ app.phase = "acknowledge" /\ Up
  /\ \E j \in ExpireIdle(journal) :
       /\ journal' = AfterAcknowledge(j, App, app.next)
       /\ app' = IF Acceptable(j, App, app.next)
                 THEN [app EXCEPT !.cursor = app.next, !.wasAhead = FALSE, !.phase = "read"]
                 ELSE [app EXCEPT !.phase = "read"]
  /\ AppOnly

AppFellBehind ==
  /\ app.phase = "read" /\ Up /\ Stale(journal, app.cursor)
  /\ app' = IF app.lastResync = journal.epoch THEN [app EXCEPT !.phase = "stopped"]
            ELSE [app EXCEPT !.lastResync = journal.epoch, !.next = Oldest(journal),
                             !.servedIn = lives, !.phase = "snapshot"]
  /\ journal' \in ExpireIdle(journal) /\ AppOnly

\* Mutant: what was lost is not fetched with a snapshot.
AppSnapshotNone ==
  /\ app.phase = "snapshot" /\ Up
  /\ app' = [app EXCEPT !.cursor = app.next, !.life = app.servedIn, !.from = app.next.sequence,
                        !.phase = "read"]
  /\ UNCHANGED journal /\ AppOnly

AppSnapshot ==
  /\ app.phase = "snapshot" /\ Up
  /\ app' = [app EXCEPT !.snapshot = recorded, !.cursor = app.next, !.life = app.servedIn,
                        !.from = app.next.sequence, !.phase = "read"]
  /\ UNCHANGED journal /\ AppOnly

AppIsAhead ==
  /\ app.phase = "read" /\ Up /\ Ahead(journal, app.cursor)
  /\ app' = IF app.wasAhead THEN [app EXCEPT !.phase = "stopped"]
            ELSE [app EXCEPT !.wasAhead = TRUE,
                             !.cursor = Cursor(journal.epoch, Newest(journal))]
  /\ journal' \in ExpireIdle(journal) /\ AppOnly

\* The daemon does not answer; the pump begins again.
AppRetries ==
  /\ app.phase \in {"acknowledge", "snapshot"} /\ ~Up
  /\ app' = [app EXCEPT !.phase = "read"]
  /\ UNCHANGED journal /\ AppOnly

AppStep ==
  AppEvents \/ AppAcknowledge \/ AppFellBehind \/ AppSnapshot \/ AppIsAhead \/ AppRetries

-----------------------------------------------------------------------------
(* watch_activity: whatever is not a page of events ends it.  An empty page*)
(* does not move its cursor.                                               *)

CliOnly == UNCHANGED <<recorded, saved, lives, app, told, made, faults>>

CliEvents ==
  /\ cli.phase = "read" /\ Up /\ ~Stale(journal, cli.cursor) /\ ~Ahead(journal, cli.cursor)
  /\ LET page == Page(journal, cli.cursor, LocalEvents)
     IN /\ page.events # <<>>
        /\ cli' = [cli EXCEPT !.printed = @ \o page.events, !.next = page.next,
                              !.phase = "acknowledge"]
  /\ journal' \in ExpireIdle(journal) /\ CliOnly

CliAcknowledge ==
  /\ cli.phase = "acknowledge" /\ Up
  /\ \E j \in ExpireIdle(journal) :
       /\ journal' = AfterAcknowledge(j, Cli, cli.next)
       /\ cli' = IF Acceptable(j, Cli, cli.next)
                 THEN [cli EXCEPT !.cursor = cli.next, !.phase = "read"]
                 ELSE [cli EXCEPT !.phase = "stopped"]
  /\ CliOnly

CliStops ==
  /\ cli.phase # "stopped"
  /\ Up => cli.phase = "read" /\ (Stale(journal, cli.cursor) \/ Ahead(journal, cli.cursor))
  /\ cli' = [cli EXCEPT !.phase = "stopped"]
  /\ UNCHANGED journal /\ CliOnly

CliStep == CliEvents \/ CliAcknowledge \/ CliStops

Next ==
  \/ \E a \in Activities : RecordActivity(a)
  \/ Stop \/ Start
  \/ AppStep \/ CliStep

Spec == Init /\ [][Next]_vars

-----------------------------------------------------------------------------
(* Properties.                                                             *)

InLife(reader) == Up /\ reader.life = lives /\ reader.cursor.epoch = journal.epoch

\* What the application knows of an activity, from the snapshot and the events.
Known(a) ==
  Max({e.sequence : e \in {f \in app.seen : f.activity = a}} \cup {0} \cup
      (IF a \in DOMAIN app.snapshot THEN {app.snapshot[a]} ELSE {}))

\* docs/plans/2026-09-02-mesh-dashboard-activity-policy.md:125: a reader that
\* was overtaken is told so and is not given "a partial gap"; between its last
\* synchronisation and its cursor the application has every local event.
AppMissesNothing ==
  InLife(app) =>
    \A i \in app.from + 1 .. app.cursor.sequence :
      journal.published[i] \in LocalEvents => journal.published[i] \in app.seen

\* When the application has read to the end it knows the last state of every
\* local activity, also of those whose events it was too late for.
CaughtUpKnowsAll ==
  InLife(app) /\ app.phase = "read" /\ app.cursor.sequence = Newest(journal) =>
    \A a \in DOMAIN recorded \cap Local : Known(a) >= recorded[a]

\* The command line tool prints every local event once, and in order.
WatchedInOrder ==
  InLife(cli) =>
    LET read == IF cli.phase = "read" THEN cli.cursor.sequence ELSE cli.next.sequence
    IN cli.printed = Passing(journal.published, 0, read, LocalEvents)

\* What the journal promises its readers: nobody who follows it, whether it rotates,
\* fails, falls behind or restarts with the daemon, misses an event or the last
\* state of an activity, or sees events twice or out of order.
FeedIsComplete == AppMissesNothing /\ CaughtUpKnowsAll /\ WatchedInOrder
=============================================================================
