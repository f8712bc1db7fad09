---------------------------- MODULE EventJournal ----------------------------
(***************************************************************************)
(* The journal of activity events that the dashboard service keeps in      *)
(* memory (src/src/dashboard/event_log.rs): a bounded queue of events with *)
(* consecutive cursors, the last sequence number of every activity, and    *)
(* the subscribers with what they acknowledged.  A journal is a value here *)
(* and its methods are operators; the service calls them under one mutex.  *)
(* A journal keeps the events that it evicted, to say what a reader missed.*)
(***************************************************************************)
EXTENDS Naturals, Sequences, TLC, Functions, FiniteSetsExt, Filtering

CONSTANTS
  Capacity,        \* MAX_EVENTS: of events in the queue, and of activities
  PageSize,        \* MAX_PAGE_EVENTS
  MaxSubscribers

ASSUME JournalAssumption == {Capacity, PageSize, MaxSubscribers} \subseteq Nat \ {0}

Cursor(epoch, sequence) == [epoch |-> epoch, sequence |-> sequence]

Journal(epoch) ==
  [epoch |-> epoch, published |-> <<>>, evicted |-> 0, sequences |-> <<>>,
   subscribers |-> <<>>]

Newest(j) == Len(j.published)

\* The cursor from which everything that is left can be read.
Oldest(j) == Cursor(j.epoch, j.evicted)

Retained(j) == {j.published[i] : i \in j.evicted + 1 .. Newest(j)}

LastOf(j, a) == IF a \in DOMAIN j.sequences THEN j.sequences[a] ELSE 0

\* restore_activity_sequence, for every activity of a checkpoint.
Restored(j, sequences) == [j EXCEPT !.sequences = sequences]

-----------------------------------------------------------------------------
(* append_with_precommit.                                                  *)

Rotated(j) == Journal(j.epoch + 1)

Refused(j, event) == event.sequence # LastOf(j, event.activity) + 1

\* The journal is rotated before the precommit, and not back when that fails.
Prepared(j, event) ==
  IF event.activity \notin DOMAIN j.sequences /\ Cardinality(DOMAIN j.sequences) >= Capacity
  THEN Rotated(j) ELSE j

\* The oldest events go until the new one fits; how many that are depends on
\* the events' lengths in bytes.
Published(j, event) ==
  {[j EXCEPT !.published = Append(@, event), !.evicted = n,
             !.sequences = (event.activity :> event.sequence) @@ @] :
     n \in {m \in j.evicted .. Newest(j) : Newest(j) + 1 - m <= Capacity}}

-----------------------------------------------------------------------------
(* read_filtered.                                                          *)

\* Events that do not pass the filter are passed over, up to the first one
\* that does not fit the page.
PageEnd(j, from, include) ==
  Max({i \in from .. Newest(j) :
         Cardinality({k \in from + 1 .. i : j.published[k] \in include}) <= PageSize})

Stale(j, cursor) == cursor.epoch # j.epoch \/ cursor.sequence < j.evicted

Ahead(j, cursor) == cursor.epoch = j.epoch /\ cursor.sequence > Newest(j)

Page(j, cursor, include) ==
  LET from == Max({cursor.sequence, j.evicted})
      end == PageEnd(j, from, include)
  IN [events |-> Passing(j.published, from, end, include),
      next |-> Cursor(j.epoch, end)]

-----------------------------------------------------------------------------
(* subscribe, acknowledge and expire_idle.                                 *)

\* Any subscriber may have been silent for more than SUBSCRIBER_IDLE_MS.
ExpireIdle(j) == {[j EXCEPT !.subscribers = Restrict(@, kept)] :
                    kept \in SUBSET DOMAIN j.subscribers}

Subscribed(j, s) ==
  IF s \in DOMAIN j.subscribers THEN j
  ELSE [j EXCEPT !.subscribers = @ @@ (s :> Cursor(j.epoch, 0))]

IsFull(j, s) ==
  s \notin DOMAIN j.subscribers /\ Cardinality(DOMAIN j.subscribers) >= MaxSubscribers

Acknowledged(j, s, cursor) ==
  [j EXCEPT !.subscribers[s] = IF cursor.sequence >= @.sequence THEN cursor ELSE @]
=============================================================================
