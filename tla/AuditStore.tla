------------------------------ MODULE AuditStore ------------------------------
(***************************************************************************)
(* The audit log on disk (src/src/dashboard/audit.rs): numbered segment    *)
(* files of checksummed frames, an index that names the segments that      *)
(* count, and the rewriting of segments when records are deleted on        *)
(* request or are older than the retention period.  The index is replaced  *)
(* atomically; segments that it does not name are removed at the next      *)
(* start.  Every write may fail or be cut short, and the daemon may stop   *)
(* after any of them.                                                      *)
(***************************************************************************)
EXTENDS Naturals, FiniteSets, Worlds, Functions, FiniteSetsExt

CONSTANTS
  Tags,         \* what a record is about, as far as a filter tells records apart
  None,
  KeepDays,     \* days that retention keeps
  SegmentSize,  \* frames that fit a segment
  MaxDay, MaxSeq, MaxSegment,         \* bounds: days, record numbers, segment numbers
  MaxFaults, MaxCrashes, MaxTroubles  \* bounds: failed writes, stops, and both together

VARIABLES
  files,    \* files[n]: the frames of segment n, for the segments that exist
  index,    \* the index file
  store,    \* the store in memory, None while the daemon is down
  today,
  acked,    \* records whose append was acknowledged, and not deleted since
  deleted,  \* records (of Tags) whose deletion was acknowledged
  split,    \* a deletion replaced the index, and was reported as failed
  faults, crashes

vars == <<files, index, store, today, acked, deleted, split, faults, crashes>>

Frame(seq, day, tag) == [seq |-> seq, day |-> day, tag |-> tag]
Torn == Frame(0, 0, "torn")              \* a frame that was not written to its end
Tombstone == Frame(0, 0, "tombstone")    \* what retention leaves of what it removed

RecordsOf(frames) == SelectSeq(frames, LAMBDA f : f.tag \notin {"torn", "tombstone"})
TombstonesOf(frames) == SelectSeq(frames, LAMBDA f : f.tag = "tombstone")

Ascending(numbers) == SetToSortSeq(numbers, <)

Init ==
  /\ files = <<>> /\ index = None /\ store = None /\ today = 0
  /\ acked = {} /\ deleted = {} /\ split = FALSE
  /\ faults = MaxFaults /\ crashes = MaxCrashes

-----------------------------------------------------------------------------
(* What is on disk.                                                        *)

\* The segments that count, and the one that is appended to.
ActiveOn(d) == IF d.index = None THEN Ascending(DOMAIN d.files) ELSE d.index.active
CurrentOn(d) == IF d.index = None THEN 1 ELSE d.index.current

FramesIn(d, active) ==
  FoldLeft(LAMBDA s, n : IF n \in DOMAIN d.files THEN s \o d.files[n] ELSE s, <<>>, active)

\* read_segment: what was cut short at the end is cut off, elsewhere it is an error.
IsTorn(frames) == frames # <<>> /\ Last(frames) = Torn

CutOff(frames) == IF IsTorn(frames) THEN Front(frames) ELSE frames

\* AuditStore::open reads all active segments; only the current one may end
\* with a torn frame.
Opens(d) ==
  /\ \A n \in ToSet(ActiveOn(d)) :
       /\ n \in DOMAIN d.files
       /\ IsTorn(d.files[n]) => n = CurrentOn(d)
       /\ Torn \notin ToSet(CutOff(d.files[n]))
  /\ LET records == RecordsOf(FramesIn(d, ActiveOn(d)))
     IN \A i \in 1 .. Len(records) - 1 : records[i].seq < records[i + 1].seq

-----------------------------------------------------------------------------
(* The writes.                                                             *)

World ==
  [files |-> files, index |-> index, store |-> store, acked |-> acked,
   deleted |-> deleted, split |-> split, faults |-> faults, crashes |-> crashes,
   troubles |-> MaxTroubles - ((MaxFaults - faults) + (MaxCrashes - crashes)),
   out |-> "ok"]

CreateSegment(w, n) ==
  IF n \in DOMAIN w.files THEN Refuse(w)
  ELSE Written(w, [w EXCEPT !.files = @ @@ (n :> <<>>)])

\* append_frame: a frame may be torn, or not get to the disk at all.
AppendFrame(w, n, frame) ==
  LET put(f) == [w EXCEPT !.files[n] = Append(@, f)]
  IN Written(w, put(frame)) \cup Stopped(put(Torn)) \cup Faulty(put(Torn), put(Torn))

WriteIndex(w) ==
  Written(w, [w EXCEPT !.index = [current |-> w.store.current, active |-> w.store.active]])

Rotate(w) ==
  LET next == w.store.current + 1
      switch(v) == WriteIndex([v EXCEPT !.store.current = next, !.store.day = None,
                                        !.store.active = Append(@, next)])
  IN Then(CreateSegment(w, next), switch)

\* append_inner; the caller makes the store unavailable when it fails.
AppendInner(w, frame) ==
  LET full == Len(w.files[w.store.current]) = SegmentSize
      otherDay == w.store.day # None /\ w.store.day # frame.day
      write(v) == AppendFrame(v, v.store.current, frame)
      note(v) == WriteIndex([v EXCEPT !.store.day = frame.day,
                                      !.store.records = Append(@, frame)])
  IN Then(Then(IF full \/ otherDay THEN Rotate(w) ELSE {w}, write), note)

Broken(w) == Refuse([w EXCEPT !.store.available = FALSE])

LastSequence(s) == IF s.records = <<>> THEN 0 ELSE Last(s.records).seq

-----------------------------------------------------------------------------
(* The operations.                                                         *)

\* AuditStore::open: the torn end is cut off, segments that do not count are
\* removed, and a record of the recovery is appended.
Opened(w) ==
  LET active == ActiveOn(w)
      current == CurrentOn(w)
      torn == \E n \in ToSet(active) : IsTorn(w.files[n])
      whole == [w EXCEPT !.files = [n \in DOMAIN @ |->
                  IF n \in ToSet(active) THEN CutOff(@[n]) ELSE @[n]]]
      frames == FramesIn(whole, active)
      clean == [whole EXCEPT !.files = Restrict(@, ToSet(active))]
      last == RecordsOf(frames)
      memory == [current |-> current, active |-> active, available |-> TRUE,
                 records |-> last, tombstones |-> Len(TombstonesOf(frames)),
                 day |-> IF last = <<>> THEN None ELSE Last(last).day]
      load(v) == {[v EXCEPT !.store = memory]}
      create(v) ==
        IF current \in DOMAIN v.files THEN {v}
        ELSE Then(CreateSegment(v, current),
                  LAMBDA u : {[u EXCEPT !.store.active = Append(@, current)]})
      recover(v) ==
        IF torn THEN AppendInner(v, Frame(LastSequence(v.store) + 1,
                          IF last = <<>> THEN 0 ELSE Last(last).day, "recovery"))
        ELSE {v}
      cut == IF torn THEN Written(w, whole) ELSE {w}
      remove(v) == IF clean.files = v.files THEN {v} ELSE Written(v, [v EXCEPT !.files = clean.files])
      exit(v) == {[v EXCEPT !.out = "down"]}
  IN IF ~Opens(w) THEN Refuse(w)
     ELSE Else(Then(Then(Then(Then(Then(cut, remove), load), create), WriteIndex), recover), exit)

\* append: of the next record, with the time of the service.
Appended(w, tag) ==
  LET frame == Frame(LastSequence(w.store) + 1, today, tag)
      ack(v) == {[v EXCEPT !.acked = @ \cup {frame}]}
  IN Then(Else(AppendInner(w, frame), Broken), ack)

\* The frames of a rewritten log, in segments numbered from n on.
Chunks(frames, n) ==
  LET count == IF frames = <<>> THEN 1 ELSE (Len(frames) + SegmentSize - 1) \div SegmentSize
  IN [k \in n .. n + count - 1 |->
        SubSeq(frames, (k - n) * SegmentSize + 1,
               IF (k - n + 1) * SegmentSize < Len(frames) THEN (k - n + 1) * SegmentSize
               ELSE Len(frames))]

\* New segments, which no index names yet; a failure leaves some part of them.
Staged(w, new) ==
  LET part == [w EXCEPT !.files = @ @@ [n \in DOMAIN new |-> <<Torn>>]]
  IN Written(w, [w EXCEPT !.files = @ @@ new]) \cup Stopped(part) \cup Faulty(part, part)

Removed(w, numbers) ==
  IF numbers = {} THEN {w}
  ELSE Written(w, [w EXCEPT !.files = Restrict(@, DOMAIN @ \ numbers)])

\* delete: the log is written again without the records, and with a record of
\* the deletion.  An index that was not replaced for sure is taken for the old one.
Deleted(w, tags) ==
  LET s == w.store
      gone == {f \in ToSet(s.records) : f.tag \in tags}
      kept == SelectSeq(s.records, LAMBDA f : f.tag \notin tags)
              \o <<Frame(LastSequence(s) + 1, today, "deletion")>>
      new == Chunks(kept \o [i \in 1 .. s.tombstones |-> Tombstone],
                    Max(DOMAIN w.files) + 1)
      next == [s EXCEPT !.current = Max(DOMAIN new), !.active = Ascending(DOMAIN new),
                        !.records = kept, !.day = today]
      undo(v) == Refuse([v EXCEPT !.store = s, !.split = @ \/ v.index.active = next.active])
      switch(v) == Else(WriteIndex([v EXCEPT !.store = next, !.acked = @ \ gone]), undo)
      remove(v) == Removed(v, ToSet(s.active))
      ack(v) == {[v EXCEPT !.deleted = @ \cup {f \in gone : f.tag \in Tags}]}
  IN IF gone = {} THEN {w}
     ELSE Then(Then(Then(Staged(w, new), switch), remove), ack)

Expired(f) == f.tag \notin {"tombstone", "torn"} /\ f.day + KeepDays < today

\* Mutant: a segment with records to keep is kept as it is.
RestWhole(frames) == IF \A f \in ToSet(frames) : Expired(f) THEN <<>> ELSE frames

Rest(frames) == SelectSeq(frames, LAMBDA f : ~Expired(f))

Reloaded(w, gone) ==
  LET frames == FramesIn(w, w.store.active)
  IN {[w EXCEPT !.store.records = RecordsOf(frames),
                !.store.tombstones = Len(TombstonesOf(frames)),
                !.deleted = @ \cup gone]}

\* compact_retention: every segment with expired records is replaced by one
\* without them, and what was removed is noted in a segment of its own.
Compacted(w) ==
  LET old == {n \in ToSet(w.store.active) : \E f \in ToSet(w.files[n]) : Expired(f)}
      rest(n) == Rest(w.files[n])
      stays == {n \in old : rest(n) # <<>>}
      first == Max(DOMAIN w.files) + 1
      renamed(n) == first + Cardinality({m \in stays : m < n})
      tomb == first + Cardinality(stays)
      new == [k \in {renamed(n) : n \in stays} |->
                rest(CHOOSE n \in stays : renamed(n) = k)] @@ (tomb :> <<Tombstone>>)
      sealed == w.store.current
      others == SelectSeq(Front(w.store.active), LAMBDA n : n \notin old \/ n \in stays)
      active == [i \in 1 .. Len(others) |->
                   IF others[i] \in old THEN renamed(others[i]) ELSE others[i]]
                \o <<tomb, sealed>>
      gone == {f \in UNION {ToSet(w.files[n]) : n \in old} : Expired(f) /\ f.tag \in Tags}
      switch(v) == WriteIndex([v EXCEPT !.store.active = active, !.store.day = None,
                                        !.acked = @ \ gone])
  IN Then(Then(Then(Staged(w, new), switch), LAMBDA v : Removed(v, old)),
          LAMBDA v : Reloaded(v, gone))

Retained(w) ==
  IF \A f \in ToSet(w.store.records) : ~Expired(f) THEN {w}
  ELSE Else(Then(Rotate(w), Compacted), Broken)

-----------------------------------------------------------------------------
(* The actions.                                                            *)

Become(r) ==
  /\ files' = r.files /\ index' = r.index /\ acked' = r.acked
  /\ deleted' = r.deleted /\ split' = r.split
  /\ store' = IF r.out = "down" THEN None ELSE r.store
  /\ faults' = r.faults /\ crashes' = r.crashes

Bounded(w) == \A n \in DOMAIN w.files : n <= MaxSegment

Handle(W) ==
  /\ \E r \in {w \in W : Bounded(w)} : Become(r)
  /\ UNCHANGED today

InUse == store # None /\ store.available /\ LastSequence(store) < MaxSeq

OpenStore == store = None /\ Handle({w \in Opened(World) : w.out # "error"})

AppendRecord(tag) == InUse /\ Handle(Appended(World, tag))

\* The filter of a deletion: some tags, or everything.
DeleteRecords(tags) == InUse /\ Handle(Deleted(World, tags))

EnforceRetention == InUse /\ Handle(Retained(World))

Crash ==
  /\ store # None /\ crashes > 0 /\ World.troubles > 0
  /\ store' = None /\ crashes' = crashes - 1
  /\ UNCHANGED <<files, index, today, acked, deleted, split, faults>>

\* The daemon is stopped and started for repair when the store is unavailable.
Restart ==
  /\ store # None /\ ~store.available
  /\ store' = None
  /\ UNCHANGED <<files, index, today, acked, deleted, split, faults, crashes>>

NextDay ==
  /\ today < MaxDay /\ today' = today + 1
  /\ UNCHANGED <<files, index, store, acked, deleted, split, faults, crashes>>

Next ==
  \/ OpenStore
  \/ \E tag \in Tags : AppendRecord(tag) \/ DeleteRecords({tag})
  \/ DeleteRecords(Tags \cup {"deletion", "recovery"})
  \/ EnforceRetention
  \/ Crash \/ Restart \/ NextDay

Spec == Init /\ [][Next]_vars

-----------------------------------------------------------------------------
(* Properties.                                                             *)

Disk == [files |-> files, index |-> index]
OnDisk == ToSet(RecordsOf(FramesIn(Disk, ActiveOn(Disk))))

\* Whatever was cut short or failed, the store opens again: no segment that
\* counts is missing, torn in the middle or out of order (AuditStore::open
\* refuses that as CommittedCorruption or NonMonotonicSequence).
AlwaysOpens == Opens(Disk)

\* An acknowledged record is on disk until its deletion begins or it expires;
\* a restart, a recovery or a rewriting of the log does not lose it.
AckedSurvives == ~split => acked \subseteq OnDisk

\* What was deleted does not come back.
DeletedIsGone == ~split => deleted \cap OnDisk = {}

\* While the store is in use its records are those on disk: what is queried and
\* exported is what a restart will find.
ServedIsOnDisk ==
  store # None /\ store.available /\ ~split => ToSet(store.records) = OnDisk
=============================================================================
