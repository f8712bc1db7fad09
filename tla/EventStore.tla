------------------------------ MODULE EventStore ------------------------------
(***************************************************************************)
(* The segments in which batches of job events are stored                  *)
(* (src/src/registry_event_store.rs and its modules).  A batch is encoded  *)
(* as a body, the body is cut into parts, and each part becomes a segment  *)
(* that names the digest of the segment before it.  A batch is known by    *)
(* the digest of its last segment and is read backwards from there.        *)
(*                                                                         *)
(* A unit of a body is a number: an integer of the encoding, or a          *)
(* character of a string.  The digest is taken to be injective, so that a  *)
(* segment, in a tuple, is its own digest.  The writing and loading of the *)
(* files is the caller's and is external.                                  *)
(***************************************************************************)
EXTENDS Naturals, Sequences, FiniteSets, SequencesExt

CONSTANTS
  Jobs, Actors, None,
  Batches,        \* the sequences of events that are written
  MaxBody,        \* units of a body that fit a segment (MAX_BODY_BYTES)
  MaxWrites, MaxFaults   \* bounds: batches, and segments lost or changed on the disk

VARIABLES
  segments,       \* the files: digest -> what is read from the file of that name
  writer,         \* the batch that is being written, None between two
  attempted,      \* the batches whose writing began, with the digest they ended with
  damage          \* segments that may still be lost or changed

storeVars == <<segments, writer, attempted, damage>>

Zero == <<>>                       \* the digest of thirty-two zeros
SegmentDigest(bytes) == <<bytes>>

-----------------------------------------------------------------------------
(* The body: write_event_batch and read_event_batch.                       *)

EncodedString(s) == <<Len(s)>> \o s

Encoded(events) ==
  FoldLeft(LAMBDA body, e :
             body \o <<e.sequence>> \o EncodedString(e.kind) \o EncodedString(e.payload),
           <<Len(events)>>, events)

Rest(body, n) == SubSeq(body, n + 1, Len(body))

\* One value and what follows it, or nothing when the body ends too soon.
ReadString(body) ==
  IF body = <<>> \/ Head(body) > Len(body) - 1
  THEN [ok |-> FALSE]
  ELSE [ok |-> TRUE, value |-> SubSeq(body, 2, Head(body) + 1), rest |-> Rest(body, Head(body) + 1)]

ReadEvent(body) ==
  IF body = <<>> THEN [ok |-> FALSE]
  ELSE LET kind == ReadString(Tail(body))
       IN IF ~kind.ok THEN kind
          ELSE LET payload == ReadString(kind.rest)
               IN IF ~payload.ok THEN payload
                  ELSE [ok |-> TRUE, rest |-> payload.rest,
                        value |-> [sequence |-> Head(body), kind |-> kind.value,
                                   payload |-> payload.value]]

\* As many events as the body says, and nothing after them.
Decoded(body) ==
  IF body = <<>> \/ Head(body) > (Len(body) - 1) \div 3
  THEN [ok |-> FALSE]
  ELSE LET next(s, i) ==
             IF ~s.ok THEN s
             ELSE LET e == ReadEvent(s.rest)
                  IN IF e.ok THEN [ok |-> TRUE, rest |-> e.rest, events |-> Append(s.events, e.value)]
                     ELSE [ok |-> FALSE]
           all == FoldLeft(next, [ok |-> TRUE, rest |-> Tail(body), events |-> <<>>],
                           [i \in 1 .. Head(body) |-> i])
       IN IF all.ok /\ all.rest = <<>> THEN all ELSE [ok |-> FALSE]

-----------------------------------------------------------------------------
(* The header: SegmentHeader::validate and decode_segment.                 *)

IsValid(h) ==
  /\ h.origin \in 1 .. 4
  /\ h.origin # 1 => h.actor = None
  /\ h.terminal => h.last
  /\ h.first <=> h.part_index = 0
  /\ ~h.first => h.predecessor # Zero
  /\ h.body_length \in 1 .. MaxBody
  /\ ~h.last => h.body_length = MaxBody
  /\ h.event_count = 0 => h.first /\ h.last /\ h.body_length = 1
                          /\ h.first_sequence = 0 /\ h.last_sequence = 0
  /\ h.event_count = 1 => h.first_sequence = h.last_sequence

IsSegment(s) == IsValid(s.header) /\ Len(s.body) = s.header.body_length

FirstSequence(events) == IF events = <<>> THEN 0 ELSE Head(events).sequence
LastSequence(events) == IF events = <<>> THEN 0 ELSE Last(events).sequence

-----------------------------------------------------------------------------
(* Writing: write_event_segments and FragmentWriter.                       *)

\* The callback fails, or the process stops, before or after the file is there;
\* what was written of the batch stays.
StoreInit ==
  segments = <<>> /\ writer = None /\ attempted = {} /\ damage = MaxFaults

BeginWrite ==
  /\ writer = None /\ Cardinality(attempted) < MaxWrites
  /\ \E job \in Jobs, origin \in {1, 2}, actor \in Actors \cup {None}, terminal \in BOOLEAN,
        events \in Batches, predecessor \in {Zero} \cup ({b.tail : b \in attempted} \ {None}) :
       /\ origin # 1 => actor = None
       /\ \A b \in attempted : b.tail = predecessor => b.binding.job = job
       /\ LET binding == [job |-> job, predecessor |-> predecessor, origin |-> origin, actor |-> actor]
          IN writer' = [binding |-> binding, events |-> events, terminal |-> terminal,
                        rest |-> Encoded(events), predecessor |-> predecessor, part_index |-> 0]
  /\ UNCHANGED <<segments, attempted, damage>>

IsLastPart == Len(writer.rest) <= MaxBody

Part ==
  LET length == IF IsLastPart THEN Len(writer.rest) ELSE MaxBody
  IN [header |-> [job |-> writer.binding.job, predecessor |-> writer.predecessor,
                  origin |-> writer.binding.origin, actor |-> writer.binding.actor,
                  first |-> writer.part_index = 0, last |-> IsLastPart,
                  terminal |-> IsLastPart /\ writer.terminal,
                  event_count |-> Len(writer.events),
                  first_sequence |-> FirstSequence(writer.events),
                  last_sequence |-> LastSequence(writer.events),
                  part_index |-> writer.part_index, body_length |-> length],
      body |-> SubSeq(writer.rest, 1, length)]

Batch(w, tail) ==
  [binding |-> w.binding, events |-> w.events, terminal |-> w.terminal, tail |-> tail]

Emitted == [d \in DOMAIN segments \cup {SegmentDigest(Part)} |->
              IF d = SegmentDigest(Part) THEN Part ELSE segments[d]]

NextPart(w) ==
  [w EXCEPT !.predecessor = SegmentDigest(Part), !.part_index = @ + 1, !.rest = Rest(@, MaxBody)]

EmitPart ==
  /\ writer # None /\ IsValid(Part.header)
  /\ segments' = Emitted
  /\ IF IsLastPart
     THEN /\ writer' = None
          /\ attempted' = attempted \cup {Batch(writer, SegmentDigest(Part))}
     ELSE /\ writer' = NextPart(writer)
          /\ UNCHANGED attempted
  /\ UNCHANGED damage

EmissionFails ==
  /\ writer # None
  /\ segments' \in {segments, Emitted}
  /\ writer' = None
  /\ attempted' = attempted \cup {Batch(writer, None)}
  /\ UNCHANGED damage

-----------------------------------------------------------------------------
(* The disk loses a segment, or a unit of it.                              *)

LoseSegment ==
  /\ damage > 0
  /\ \E lost \in DOMAIN segments :
       segments' = [d \in DOMAIN segments \ {lost} |-> segments[d]]
  /\ damage' = damage - 1
  /\ UNCHANGED <<writer, attempted>>

SpoilSegment ==
  /\ damage > 0
  /\ \E d \in DOMAIN segments :
       \/ \E i \in 1 .. Len(segments[d].body) : segments' = [segments EXCEPT ![d].body[i] = @ + 1]
       \/ segments' = [segments EXCEPT ![d].body = Tail(@)]
       \/ \E job \in Jobs : segments' = [segments EXCEPT ![d].header.job = job]
  /\ damage' = damage - 1
  /\ UNCHANGED <<writer, attempted>>

StoreNext == BeginWrite \/ EmitPart \/ EmissionFails \/ LoseSegment \/ SpoilSegment

StoreSpec == StoreInit /\ [][StoreNext]_storeVars

-----------------------------------------------------------------------------
(* Reading: read_event_segment_batch.                                      *)

Agree(h, tail) ==
  /\ h.origin = tail.origin /\ h.actor = tail.actor
  /\ h.event_count = tail.event_count
  /\ h.first_sequence = tail.first_sequence /\ h.last_sequence = tail.last_sequence

\* What is read under a name is what was stored under it.  Mutant: it is not
\* compared with its name.
IsIntactUnread(d) == IsSegment(segments[d])
IsIntact(d) == IsSegment(segments[d]) /\ SegmentDigest(segments[d]) = d

\* The segments from the last part back to the first, or nothing.
RECURSIVE Chain(_, _, _, _, _)
Chain(d, job, tail, index, seen) ==
  IF d \in seen \/ d \notin DOMAIN segments \/ ~IsIntact(d) THEN [ok |-> FALSE]
  ELSE LET s == segments[d]
           expected == IF tail = None THEN s.header ELSE tail
           i == IF tail = None THEN s.header.part_index ELSE index
       IN IF \/ s.header.job # job
             \/ tail = None /\ ~s.header.last
             \/ tail # None /\ ~(Agree(s.header, tail) /\ s.header.part_index = i /\ ~s.header.last)
          THEN [ok |-> FALSE]
          ELSE IF i = 0
          THEN [ok |-> TRUE, parts |-> <<s>>, preceding |-> s.header.predecessor, header |-> expected]
          ELSE LET before == Chain(s.header.predecessor, job, expected, i - 1, seen \cup {d})
               IN IF before.ok THEN [before EXCEPT !.parts = Append(@, s)] ELSE before

ReadBatch(job, tail) ==
  LET chain == Chain(tail, job, None, 0, {})
  IN IF ~chain.ok THEN chain
     ELSE LET h == chain.header
              read == Decoded(FlattenSeq([i \in DOMAIN chain.parts |-> chain.parts[i].body]))
          IN IF \/ ~read.ok
                \/ Len(read.events) # h.event_count
                \/ FirstSequence(read.events) # h.first_sequence
                \/ LastSequence(read.events) # h.last_sequence
             THEN [ok |-> FALSE]
             ELSE [ok |-> TRUE, events |-> read.events, terminal |-> h.terminal,
                   binding |-> [job |-> job, predecessor |-> chain.preceding,
                                origin |-> h.origin, actor |-> h.actor]]

-----------------------------------------------------------------------------
(* Properties.                                                             *)

\* Whatever digest is read from, and whatever has been lost, changed or left by
\* a write that failed, a reader gets a whole batch, exactly as it was written
\* and bound, or an error; and a batch whose writing was acknowledged is read
\* back as long as the disk lost nothing.
ReadIsWritten ==
  /\ \A job \in Jobs, d \in DOMAIN segments :
       LET read == ReadBatch(job, d)
       IN read.ok => \E b \in attempted \cup (IF writer = None THEN {} ELSE {Batch(writer, None)}) :
                       /\ b.binding = read.binding /\ b.events = read.events
                       /\ b.terminal = read.terminal
                       /\ b.tail \in {None, d}
  /\ damage = MaxFaults =>
       \A b \in attempted : b.tail # None => ReadBatch(b.binding.job, b.tail).ok
===============================================================================
