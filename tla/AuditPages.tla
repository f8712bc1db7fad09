------------------------------- MODULE AuditPages -------------------------------
(***************************************************************************)
(* Reading the audit log page by page: AuditStore::query and export        *)
(* (src/src/dashboard/audit.rs), and the audit history of the desktop      *)
(* application (src/desktop/src/components/AuditHistory.tsx), which reads  *)
(* while records are appended, deleted and dropped by retention, and whose *)
(* user may ask for another filter while a page is still on its way.       *)
(*                                                                         *)
(* The log is what AuditStore keeps in memory; how it gets there and to    *)
(* the disk is in AuditStore.  A record is its number and what a filter    *)
(* tells it by; a page is bounded by a number of records, which stands for *)
(* the limit of bytes, too.                                                *)
(***************************************************************************)
EXTENDS Naturals, Sequences, FiniteSets, SequencesExt, Filtering

CONSTANTS
  Tags,      \* what filters tell records by
  None,
  PageLimit, \* records of a page
  MaxRecords, MaxReads  \* bounds: records appended, pages asked for

VARIABLES
  records,   \* AuditStore.records
  last,      \* the number given last
  filter,    \* the filter in the form, as it was submitted last
  page,      \* the page shown
  request,   \* the request in flight, None if there is none
  walk,      \* the pages read since a first page, for the properties
  reads

pageVars == <<records, last, filter, page, request, walk, reads>>

Filters == {{t} : t \in Tags} \cup {Tags \cup {"deletion"}}

Matches(f, r) == r.tag \in f

Meant(f) == {r \in ToSet(records) : Matches(f, r)}

Matching(f) == Selected(records, Meant(f))

Export(f) == Matching(f)

LastKept == IF records = <<>> THEN 0 ELSE Last(records).seq

\* query: what comes after the cursor, at most a page of it, and a cursor after
\* the last of it.  Mutant: the cursor is behind the last record of the log.
NextCursorAfterAll(items) == IF items = <<>> THEN None ELSE LastKept

NextCursor(items) == IF items = <<>> THEN None ELSE Last(items).seq

Query(f, cursor) ==
  LET after == IF cursor = None THEN 0 ELSE cursor
      rest == Selected(records, {r \in Meant(f) : r.seq > after})
      items == SubSeq(rest, 1, IF Len(rest) < PageLimit THEN Len(rest) ELSE PageLimit)
  IN [ahead |-> after > LastKept, items |-> items, next |-> NextCursor(items)]

NoPage == [ahead |-> FALSE, items |-> <<>>, next |-> None]

NoWalk == [filter |-> {}, base |-> {}, got |-> <<>>]

PagesInit ==
  /\ records = <<>> /\ last = 0
  /\ filter = Tags \cup {"deletion"} /\ page = NoPage /\ request = None
  /\ walk = NoWalk /\ reads = MaxReads

-----------------------------------------------------------------------------
(* The log.                                                                *)

With(tag) == Append(records, [seq |-> last + 1, tag |-> tag])

AppendRecord(tag) ==
  /\ last < MaxRecords
  /\ records' = With(tag) /\ last' = last + 1
  /\ UNCHANGED <<filter, page, request, walk, reads>>

\* Retention drops the oldest records.
DropOldest ==
  /\ records # <<>> /\ records' = Tail(records)
  /\ UNCHANGED <<last, filter, page, request, walk, reads>>

\* delete: nothing if nothing matches, else the deletion is recorded.
DeleteRecords(f) ==
  IF Matching(f) = <<>> THEN UNCHANGED <<records, last>>
  ELSE /\ last < MaxRecords /\ last' = last + 1
       /\ records' = Append(Selected(records, ToSet(records) \ Meant(f)),
                            [seq |-> last + 1, tag |-> "deletion"])

-----------------------------------------------------------------------------
(* AuditHistory.tsx.                                                       *)

\* read: one request at a time; while there is one, nothing is asked for.
Read(f, cursor) ==
  /\ reads > 0 /\ reads' = reads - 1
  /\ request' = [filter |-> f, cursor |-> cursor, answer |-> None]

\* submitFilter sets the filter, whether or not read does anything.
SubmitFilter(f) ==
  /\ filter' = f
  /\ IF request = None THEN Read(f, None) ELSE UNCHANGED <<request, reads>>
  /\ UNCHANGED <<records, last, page, walk>>

NextPage ==
  /\ request = None /\ page.next # None
  /\ Read(filter, page.next)
  /\ UNCHANGED <<records, last, filter, page, walk>>

\* deleteAudit, of what the filter selects or of everything, then reads again.
DeleteAudit(f) ==
  /\ request = None /\ f \in {filter, Tags \cup {"deletion"}}
  /\ DeleteRecords(f)
  /\ Read(filter, None)
  /\ UNCHANGED <<filter, page, walk>>

\* The daemon answers.
Answer ==
  /\ request # None /\ request.answer = None
  /\ request' = [request EXCEPT !.answer = Query(request.filter, request.cursor)]
  /\ walk' = IF request.cursor = None
             THEN [filter |-> request.filter, base |-> ToSet(Matching(request.filter)), got |-> <<>>]
             ELSE walk
  /\ UNCHANGED <<records, last, filter, page, reads>>

\* A walk is over when a page of another filter is read on from its cursor.
Receive ==
  /\ request # None /\ request.answer # None
  /\ IF request.answer.ahead THEN UNCHANGED <<page, walk>>
     ELSE /\ page' = request.answer
          /\ walk' = IF request.filter = walk.filter
                     THEN [walk EXCEPT !.got = @ \o request.answer.items]
                     ELSE NoWalk
  /\ request' = None
  /\ UNCHANGED <<records, last, filter, reads>>

\* The request fails: the page that was shown stays.
ReadFails ==
  /\ request # None
  /\ request' = None
  /\ walk' = IF request.cursor = None THEN NoWalk ELSE walk
  /\ page' = page
  /\ UNCHANGED <<records, last, filter, reads>>

PagesNext ==
  \/ \E t \in Tags : AppendRecord(t)
  \/ DropOldest \/ NextPage \/ Answer \/ Receive \/ ReadFails
  \/ \E f \in Filters : SubmitFilter(f) \/ DeleteAudit(f)

PagesSpec == PagesInit /\ [][PagesNext]_pageVars

-----------------------------------------------------------------------------
(* Properties.                                                             *)

\* docs/plans/2026-09-02-mesh-dashboard-activity-policy.md:218 "stable cursor
\* filtering": whoever reads page after page with one filter gets every record that
\* was there when the first page was read and has not been removed since, each once,
\* in order, and nothing the filter does not select; of a log that did not change it is
\* what export returns.
PagesAreComplete ==
  request = None /\ walk # NoWalk =>
    /\ \A i \in 1 .. Len(walk.got) - 1 : walk.got[i].seq < walk.got[i + 1].seq
    /\ \A r \in ToSet(walk.got) : Matches(walk.filter, r)
    /\ \A r \in walk.base \cap ToSet(records) :
         page.next = None \/ r.seq <= page.next => r \in ToSet(walk.got)
    /\ page.next = None /\ ToSet(Export(walk.filter)) = walk.base => walk.got = Export(walk.filter)
=================================================================================
