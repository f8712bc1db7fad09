------------------------------ MODULE Filtering ------------------------------
(***************************************************************************)
(* What a filter lets pass of a sequence, element by element: the loops of *)
(* EventJournal::read_filtered (src/src/dashboard/event_log.rs) and of     *)
(* AuditStore::query, export and delete (src/src/dashboard/audit.rs).      *)
(***************************************************************************)
EXTENDS Naturals, Sequences

\* Of the elements after one position and up to another those that are to be included.
Passing(q, from, end, include) ==
  LET passed[k \in 0 .. end - from] ==
        IF k = 0 THEN <<>>
        ELSE IF q[from + k] \in include THEN Append(passed[k - 1], q[from + k])
        ELSE passed[k - 1]
  IN passed[end - from]

Selected(q, include) == Passing(q, 0, Len(q), include)
=============================================================================
