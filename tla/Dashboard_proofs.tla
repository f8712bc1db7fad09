-------------------------- MODULE Dashboard_proofs --------------------------
(***************************************************************************)
(* The dashboard service: what a person approved is done at most once, a   *)
(* pause holds, the daemon starts again with all it held, what it records  *)
(* is audited and what is denied is not queued; for any jobs and any       *)
(* number of approvals, failed writes and stops.                           *)
(*                                                                         *)
(* A handler is a set of worlds, so the inductive invariant is stated of a *)
(* world (WorldOK), and there is one lemma for each operator that leads    *)
(* from worlds to worlds: it keeps WorldOK, wherever a write fails or the  *)
(* daemon stops.                                                           *)
(***************************************************************************)
EXTENDS Dashboard, TLAPS, FiniteSetTheorems, WellFoundedInduction

Services ==
  [up : {TRUE}, healthy : BOOLEAN, store : BOOLEAN, next : Nat \ {0},
   keys : SUBSET ({"offline", "cancel"} \X Activities), now : Checkpoints]

Disks == [ck : Checkpoints \cup {None}, last : Nat, written : SUBSET (Activities \cup {None})]

WorldType ==
  [svc : Services, disk : Disks, covers : Nat, asked : Seq(Activities),
   uses : [Nonces -> Nat], held : BOOLEAN, faults : 0 .. MaxFaults, crashes : Nat,
   troubles : Int, out : {"ok", "error", "down"}]

-----------------------------------------------------------------------------
(***************************************************************************)
(* What is kept by every write of every handler.                           *)
(***************************************************************************)

\* The service numbers audit records as the log does, or lags behind it.
Numbered(w) ==
  w.covers < w.svc.next /\ w.covers <= w.disk.last /\ w.svc.next <= w.disk.last + 1

\* In memory and on disk: what is open or granted was not acted on.
Unspent(c, w) ==
  /\ c.open \cup c.grants \cup c.pending \subseteq DOMAIN w.asked
  /\ c.open \cap c.grants = {}
  /\ \A n \in c.open \cup c.grants : w.uses[n] = 0

\* An event that was neither on disk nor in memory before the step is audited.
Traced(c, w) ==
  LET before == IF disk.ck = None THEN Fresh ELSE disk.ck
  IN \A a \in Activities :
       \/ c.activity[a] \in {before.activity[a], svc.now.activity[a]}
       \/ c.activity[a].state \in {"running", "reconnecting"}
       \/ a \in w.disk.written

\* What was denied before the step is not queued by it.
Undenied(c) ==
  \A a \in Activities :
    Denied(svc.now, a) /\ c.activity[a].state = "queued"
      => c.activity[a] = svc.now.activity[a]

SpentOnce(w) ==
  /\ Len(w.asked) <= MaxApprovals
  /\ \A n \in Nonces : w.uses[n] <= 1 /\ (n \notin DOMAIN w.asked => w.uses[n] = 0)

Holds(w) == w.held => w.disk.ck # None /\ w.disk.ck.paused /\ w.svc.now.paused

MemoryOK(w) == Unspent(w.svc.now, w) /\ Traced(w.svc.now, w) /\ Undenied(w.svc.now)

DiskOK(w) ==
  /\ w.disk.ck # None => Unspent(w.disk.ck, w)
  /\ w.disk.ck # disk.ck => w.disk.ck # None /\ Traced(w.disk.ck, w)

WorldOK(w) ==
  /\ w \in WorldType
  /\ Numbered(w) /\ SpentOnce(w) /\ Holds(w)
  /\ MemoryOK(w) /\ DiskOK(w)
  /\ None \notin w.svc.keys

\* The checkpoint is what the service holds, but for what time has ended.
SameContent(now, ck) ==
  /\ <<now.activity, now.blocked, now.rule, now.open>>
       = <<ck.activity, ck.blocked, ck.rule, ck.open>>
  /\ now.grants \ stale = ck.grants \ stale
  /\ now.pending \ late = ck.pending \ late

Same(w) ==
  w.faults = MaxFaults /\ w.disk.ck # None => SameContent(w.svc.now, w.disk.ck)

\* The world in which a handler starts, and those in which it may end.
Ready(w) == WorldOK(w) /\ w.out = "ok" /\ Same(w)
Settled(r) == WorldOK(r) /\ (r.out = "down" \/ Same(r))

\* Two worlds that differ in what went wrong and what is reported only.
Like(r, w) ==
  /\ r.svc = w.svc /\ r.disk = w.disk /\ r.covers = w.covers
  /\ r.asked = w.asked /\ r.uses = w.uses /\ r.held = w.held

\* Two worlds that agree on what a checkpoint saves, and on the checkpoint.
Noted(r, w) ==
  /\ r.svc.now = w.svc.now /\ r.disk.ck = w.disk.ck
  /\ r.asked = w.asked /\ r.uses = w.uses /\ r.held = w.held
  /\ w.disk.written \subseteq r.disk.written

LEMMA LikeIsOK ==
  ASSUME NEW w, WorldOK(w), NEW r \in WorldType, Like(r, w)
  PROVE  WorldOK(r)
BY DEF WorldOK, Like, Numbered, SpentOnce, Holds, MemoryOK, DiskOK, Unspent, Traced

LEMMA NotedIsOK ==
  ASSUME NEW w, WorldOK(w), NEW r \in WorldType, Noted(r, w), Numbered(r),
         r.svc.keys = w.svc.keys
  PROVE  WorldOK(r)
BY DEF WorldOK, Noted, SpentOnce, Holds, MemoryOK, DiskOK, Unspent, Traced, Undenied

LEMMA BoundsType == MaxApprovals \in Nat /\ MaxFaults \in Nat /\ MaxCrashes \in Nat /\ MaxTroubles \in Nat
BY DashboardAssumption

LEMMA WorldFields ==
  ASSUME NEW w \in WorldType
  PROVE  /\ w.svc \in Services /\ w.disk \in Disks /\ w.covers \in Nat
         /\ w.asked \in Seq(Activities) /\ w.uses \in [Nonces -> Nat]
         /\ w.held \in BOOLEAN /\ w.faults \in 0 .. MaxFaults /\ w.crashes \in Nat
         /\ w.troubles \in Int /\ w.out \in {"ok", "error", "down"}
         /\ w.svc.now \in Checkpoints /\ w.svc.next \in Nat \ {0}
         /\ w.svc.keys \subseteq {"offline", "cancel"} \X Activities
         /\ w.disk.ck \in Checkpoints \cup {None} /\ w.disk.last \in Nat
         /\ w.disk.written \subseteq Activities \cup {None}
BY DEF WorldType, Services, Disks

\* The service, or the disk, is exchanged.
LEMMA WithService ==
  ASSUME NEW w \in WorldType, NEW s \in Services
  PROVE  LET r == [w EXCEPT !.svc = s]
         IN /\ r \in WorldType /\ r.svc = s /\ r.disk = w.disk /\ r.covers = w.covers
            /\ r.asked = w.asked /\ r.uses = w.uses /\ r.held = w.held
            /\ r.faults = w.faults /\ r.out = w.out
BY DEF WorldType

LEMMA WithNow ==
  ASSUME NEW w \in WorldType, NEW c \in Checkpoints
  PROVE  LET r == [w EXCEPT !.svc.now = c]
         IN /\ r \in WorldType /\ r.svc.now = c /\ r.disk = w.disk /\ r.covers = w.covers
            /\ r.asked = w.asked /\ r.uses = w.uses /\ r.held = w.held
            /\ r.faults = w.faults /\ r.out = w.out
            /\ r.svc.next = w.svc.next /\ r.svc.keys = w.svc.keys
            /\ r.svc = [w.svc EXCEPT !.now = c]
<1> DEFINE s == [w.svc EXCEPT !.now = c]
<1>1. s \in Services /\ s.now = c /\ s.next = w.svc.next /\ s.keys = w.svc.keys
  BY WorldFields DEF Services
<1>2. [w EXCEPT !.svc.now = c] = [w EXCEPT !.svc = s]
  OBVIOUS
<1> HIDE DEF s
<1> QED BY <1>1, <1>2, WithService DEF s

LEMMA WithDisk ==
  ASSUME NEW w \in WorldType, NEW d \in Disks
  PROVE  LET r == [w EXCEPT !.disk = d]
         IN /\ r \in WorldType /\ r.svc = w.svc /\ r.disk = d /\ r.covers = w.covers
            /\ r.asked = w.asked /\ r.uses = w.uses /\ r.held = w.held
            /\ r.faults = w.faults /\ r.out = w.out
BY DEF WorldType

\* What is reported can be changed.
LEMMA ReportIsOK ==
  ASSUME NEW w, WorldOK(w), NEW o \in {"ok", "error", "down"}
  PROVE  LET r == [w EXCEPT !.out = o]
         IN WorldOK(r) /\ Like(r, w) /\ r.out = o /\ r.faults = w.faults
<1> DEFINE r == [w EXCEPT !.out = o]
<1>1. r \in WorldType /\ Like(r, w) /\ r.out = o /\ r.faults = w.faults
  BY DEF WorldOK, WorldType, Like
<1> QED BY <1>1, LikeIsOK

LEMMA StoppedIs ==
  ASSUME NEW w \in WorldType, NEW r \in Stopped(w)
  PROVE  r \in WorldType /\ Like(r, w) /\ r.out = "down" /\ r.faults = w.faults
<1>1. r = [w EXCEPT !.crashes = @ - 1, !.troubles = @ - 1, !.out = "down"] /\ w.crashes # 0
  BY DEF Stopped
<1>2. w.crashes - 1 \in Nat /\ w.troubles - 1 \in Int
  BY <1>1 DEF WorldType
<1> QED BY <1>1, <1>2 DEF WorldType, Like

LEMMA FaultyIs ==
  ASSUME NEW v \in WorldType, NEW w \in WorldType, NEW r \in Faulty(v, w)
  PROVE  /\ r \in WorldType
         /\ r.out = "error" /\ r.faults < MaxFaults
         /\ \/ Like(r, v) /\ r.faults < v.faults
            \/ Like(r, w) /\ r.faults < w.faults
<1>1. PICK u \in {v, w} :
        u.faults > 0 /\ r = [u EXCEPT !.faults = @ - 1, !.troubles = @ - 1, !.out = "error"]
  BY DEF Faulty
<1>2. u \in WorldType
  OBVIOUS
<1>3. Like(r, u) /\ r.out = "error" /\ r.faults = u.faults - 1
  BY <1>1, <1>2 DEF WorldType, Like
<1>4. u.faults - 1 \in 0 .. MaxFaults /\ u.faults - 1 < MaxFaults /\ u.troubles - 1 \in Int
  <2>1. u.faults \in 0 .. MaxFaults /\ u.troubles \in Int
    BY <1>2 DEF WorldType
  <2> QED BY <1>1, <2>1, BoundsType
<1>6. u.faults \in Nat
  BY <1>2, BoundsType DEF WorldType
<1>5. r \in WorldType
  BY <1>1, <1>2, <1>4 DEF WorldType
<1> QED BY <1>3, <1>4, <1>5, <1>6

\* A write takes effect, or the daemon stops, or it fails, before or after it.
LEMMA WrittenIs ==
  ASSUME NEW v \in WorldType, NEW w \in WorldType, NEW r \in Written(v, w)
  PROVE  /\ r \in WorldType
         /\ \/ r = w
            \/ Like(r, v) /\ r.out = "down"
            \/ Like(r, w) /\ r.out = "down"
            \/ Like(r, v) /\ r.out = "error" /\ r.faults < MaxFaults
            \/ Like(r, w) /\ r.out = "error" /\ r.faults < MaxFaults
BY StoppedIs, FaultyIs DEF Written

-----------------------------------------------------------------------------
(***************************************************************************)
(* The two writes.                                                         *)
(***************************************************************************)

\* A service that refuses to audit.
LEMMA IllIsOK ==
  ASSUME NEW w, WorldOK(w), NEW h \in BOOLEAN
  PROVE  LET refused == [w EXCEPT !.svc.healthy = FALSE]
             ill == [w EXCEPT !.svc.healthy = FALSE, !.svc.store = FALSE]
         IN /\ WorldOK(refused) /\ Noted(refused, w) /\ refused.faults = w.faults
            /\ WorldOK(ill) /\ Noted(ill, w) /\ ill.faults = w.faults
<1>1. w \in WorldType
  BY DEF WorldOK
<1>2. ASSUME NEW s \in Services, s.now = w.svc.now, s.next = w.svc.next, s.keys = w.svc.keys
      PROVE  LET r == [w EXCEPT !.svc = s]
             IN WorldOK(r) /\ Noted(r, w) /\ r.faults = w.faults
  <2> DEFINE r == [w EXCEPT !.svc = s]
  <2>1. /\ r \in WorldType /\ r.svc = s /\ r.disk = w.disk /\ r.covers = w.covers
        /\ r.asked = w.asked /\ r.uses = w.uses /\ r.held = w.held /\ r.faults = w.faults
    BY <1>1, WithService
  <2> HIDE DEF r
  <2>2. Noted(r, w) /\ Numbered(r) /\ r.svc.keys = w.svc.keys
    BY <1>2, <2>1 DEF Noted, Numbered, WorldOK
  <2> QED BY <2>1, <2>2, NotedIsOK DEF r
<1> DEFINE s1 == [w.svc EXCEPT !.healthy = FALSE]
           s2 == [s1 EXCEPT !.store = FALSE]
<1>3. s1 \in Services /\ s1.now = w.svc.now /\ s1.next = w.svc.next /\ s1.keys = w.svc.keys
  BY <1>1, WorldFields DEF Services
<1>4. s2 \in Services /\ s2.now = w.svc.now /\ s2.next = w.svc.next /\ s2.keys = w.svc.keys
  BY <1>3 DEF Services
<1>5. /\ [w EXCEPT !.svc.healthy = FALSE] = [w EXCEPT !.svc = s1]
      /\ [w EXCEPT !.svc.healthy = FALSE, !.svc.store = FALSE] = [w EXCEPT !.svc = s2]
  BY <1>1 DEF WorldType
<1> HIDE DEF s1, s2
<1> QED BY <1>2, <1>3, <1>4, <1>5

\* A record is appended, and the service counts it.
LEMMA LoggedIsOK ==
  ASSUME NEW w, WorldOK(w), NEW a \in Activities \cup {None}, w.svc.next > w.disk.last
  PROVE  LET done == Logged(w, a)
             counted == [done EXCEPT !.svc.next = @ + 1]
         IN /\ WorldOK(done) /\ Noted(done, w) /\ done.faults = w.faults
            /\ WorldOK(counted) /\ Noted(counted, w) /\ counted.faults = w.faults
            /\ a \in counted.disk.written
<1> DEFINE d == [w.disk EXCEPT !.last = w.svc.next, !.written = @ \cup {a}]
           s == [w.svc EXCEPT !.next = @ + 1]
           done == [w EXCEPT !.disk = d]
           counted == [done EXCEPT !.svc = s]
<1>1. w \in WorldType
  BY DEF WorldOK
<1>2. /\ d \in Disks /\ d.ck = w.disk.ck /\ d.last = w.svc.next
      /\ d.written = w.disk.written \cup {a}
  BY <1>1, WorldFields DEF Disks
<1>3. s \in Services /\ s.now = w.svc.now /\ s.next = w.svc.next + 1 /\ s.keys = w.svc.keys
  <2>1. w.svc \in Services /\ w.svc.next \in Nat \ {0}
    BY <1>1, WorldFields
  <2>2. w.svc.next + 1 \in Nat \ {0}
    BY <2>1
  <2> QED BY <2>1, <2>2 DEF Services
<1>4. Logged(w, a) = done
  BY <1>1 DEF WorldType, Disks, Logged
<1>5. /\ done \in WorldType /\ done.svc = w.svc /\ done.disk = d /\ done.covers = w.covers
      /\ done.asked = w.asked /\ done.uses = w.uses /\ done.held = w.held
      /\ done.faults = w.faults
  BY <1>1, <1>2, WithDisk
<1>6. [done EXCEPT !.svc.next = @ + 1] = counted
  BY <1>5
<1> HIDE DEF d, s, done
<1>7. /\ counted \in WorldType /\ counted.svc = s /\ counted.disk = d
      /\ counted.covers = w.covers /\ counted.asked = w.asked /\ counted.uses = w.uses
      /\ counted.held = w.held /\ counted.faults = w.faults
  BY <1>3, <1>5, WithService
<1> HIDE DEF counted
<1>8. w.svc.next \in Nat /\ w.disk.last \in Nat /\ w.covers \in Nat
  BY <1>1, WorldFields
<1>9. Numbered(done) /\ Numbered(counted)
  BY <1>2, <1>3, <1>5, <1>7, <1>8 DEF Numbered, WorldOK
<1>10. WorldOK(done) /\ Noted(done, w) /\ WorldOK(counted) /\ Noted(counted, w)
  BY <1>2, <1>3, <1>5, <1>7, <1>9, NotedIsOK DEF Noted
<1> QED BY <1>2, <1>4, <1>5, <1>6, <1>7, <1>10

\* Appending an audit record changes nothing that a checkpoint saves.
LEMMA AuditIs ==
  ASSUME NEW w, WorldOK(w), w.out = "ok", NEW a \in Activities \cup {None},
         NEW r \in Audit(w, a)
  PROVE  /\ WorldOK(r) /\ Noted(r, w)
         /\ r.out = "ok" => a \in r.disk.written /\ r.faults = w.faults
         /\ r.faults <= w.faults
<1> DEFINE done == Logged(w, a)
           ill(v) == [v EXCEPT !.svc.healthy = FALSE, !.svc.store = FALSE]
           counted == [done EXCEPT !.svc.next = @ + 1]
           refused == [w EXCEPT !.svc.healthy = FALSE]
<1>1. CASE r = [w EXCEPT !.out = "error"]
  <2>1. WorldOK(r) /\ Like(r, w) /\ r.out = "error" /\ r.faults = w.faults
    BY <1>1, ReportIsOK
  <2> QED BY <2>1, WorldFields DEF Like, Noted, WorldOK
<1>2. CASE r = [refused EXCEPT !.out = "error"]
  <2>1. WorldOK(refused) /\ Noted(refused, w) /\ refused.faults = w.faults
    BY IllIsOK
  <2>2. WorldOK(r) /\ Like(r, refused) /\ r.out = "error" /\ r.faults = refused.faults
    BY <1>2, <2>1, ReportIsOK
  <2> QED BY <2>1, <2>2, WorldFields DEF Like, Noted, WorldOK
<1>3. CASE /\ w.svc.next > w.disk.last
           /\ r \in {counted} \cup Stopped(done) \cup Faulty(ill(w), ill(done))
  <2>1. /\ WorldOK(done) /\ Noted(done, w) /\ done.faults = w.faults
        /\ WorldOK(counted) /\ Noted(counted, w) /\ counted.faults = w.faults
        /\ a \in counted.disk.written
    BY <1>3, LoggedIsOK
  <2>2. /\ WorldOK(ill(w)) /\ Noted(ill(w), w) /\ ill(w).faults = w.faults
        /\ WorldOK(ill(done)) /\ Noted(ill(done), done) /\ ill(done).faults = done.faults
    BY <2>1, IllIsOK
  <2> HIDE DEF done, counted, ill
  <2>3. CASE r = counted
    BY <2>1, <2>3, WorldFields DEF WorldOK
  <2>4. CASE r \in Stopped(done)
    <3>1. r \in WorldType /\ Like(r, done) /\ r.out = "down" /\ r.faults = done.faults
      BY <2>1, <2>4, StoppedIs DEF WorldOK
    <3> QED BY <2>1, <3>1, LikeIsOK, WorldFields DEF Noted, Like
  <2>5. CASE r \in Faulty(ill(w), ill(done))
    <3>1. PICK v \in {ill(w), ill(done)} :
             r \in WorldType /\ Like(r, v) /\ r.out = "error" /\ r.faults < v.faults
      BY <2>2, <2>5, FaultyIs DEF WorldOK
    <3>2. WorldOK(v) /\ Noted(v, w) /\ v.faults = w.faults
      BY <2>1, <2>2 DEF Noted
    <3>3. r.faults <= w.faults
      BY <3>1, <3>2, WorldFields DEF WorldOK
    <3> QED BY <3>1, <3>2, <3>3, LikeIsOK DEF Noted, Like
  <2> QED BY <1>3, <2>3, <2>4, <2>5
<1>4. w.svc.next \in Nat /\ w.disk.last \in Nat
  BY WorldFields DEF WorldOK
<1>5. \/ r = [w EXCEPT !.out = "error"]
      \/ r = [refused EXCEPT !.out = "error"]
      \/ /\ ~(w.svc.next <= w.disk.last)
         /\ r \in {counted} \cup Stopped(done) \cup Faulty(ill(w), ill(done))
  BY DEF Audit, Refuse
<1> HIDE DEF refused, counted, done, ill
<1> QED BY <1>1, <1>2, <1>3, <1>4, <1>5

\* Saving the checkpoint changes nothing but the disk, whatever comes of it.
LEMMA PersistIs ==
  ASSUME NEW w, WorldOK(w), w.out = "ok", NEW r \in Persist(w)
  PROVE  /\ WorldOK(r)
         /\ r.svc = w.svc /\ r.asked = w.asked /\ r.uses = w.uses /\ r.held = w.held
         /\ r.disk.written = w.disk.written
         /\ \/ r.out = "ok" /\ r.disk.ck = w.svc.now /\ r.faults = w.faults
            \/ r.out = "down"
            \/ r.out = "error" /\ r.faults < MaxFaults
<1> DEFINE saved == [w EXCEPT !.disk.ck = w.svc.now, !.covers = w.svc.next - 1]
<1>1. w \in WorldType
  BY DEF WorldOK
<1>2. /\ saved \in WorldType /\ saved.svc = w.svc /\ saved.asked = w.asked
      /\ saved.uses = w.uses /\ saved.held = w.held /\ saved.faults = w.faults
      /\ saved.out = "ok" /\ saved.covers = w.svc.next - 1
      /\ saved.disk.ck = w.svc.now /\ saved.disk.last = w.disk.last
      /\ saved.disk.written = w.disk.written
  <2> DEFINE d == [w.disk EXCEPT !.ck = w.svc.now]
  <2>1. d \in Disks /\ d.ck = w.svc.now /\ d.last = w.disk.last /\ d.written = w.disk.written
    BY <1>1, WorldFields DEF Disks
  <2>2. w.svc.next - 1 \in Nat
    BY <1>1, WorldFields
  <2>3. saved = [w EXCEPT !.disk = d, !.covers = w.svc.next - 1]
    BY DEF WorldType
  <2> HIDE DEF d
  <2> QED BY <1>1, <2>1, <2>2, <2>3 DEF WorldType
<1> HIDE DEF saved
<1>3. WorldOK(saved)
  <2>1. Numbered(saved)
    BY <1>1, <1>2, WorldFields DEF WorldOK, Numbered
  <2>2. SpentOnce(saved) /\ MemoryOK(saved) /\ None \notin saved.svc.keys
    BY <1>2 DEF WorldOK, SpentOnce, MemoryOK, Unspent, Traced
  <2>3. DiskOK(saved)
    BY <1>1, <1>2, <2>2, WorldFields, DashboardAssumption DEF DiskOK, MemoryOK
  <2>4. Holds(saved)
    BY <1>1, <1>2, WorldFields, DashboardAssumption DEF WorldOK, Holds
  <2> QED BY <1>2, <2>1, <2>2, <2>3, <2>4 DEF WorldOK
<1>4. /\ r \in WorldType
      /\ \/ r = saved
         \/ Like(r, w) /\ r.out = "down"
         \/ Like(r, saved) /\ r.out = "down"
         \/ Like(r, w) /\ r.out = "error" /\ r.faults < MaxFaults
         \/ Like(r, saved) /\ r.out = "error" /\ r.faults < MaxFaults
  <2>1. r \in Written(w, saved)
    BY DEF Persist, saved
  <2> QED BY <1>1, <1>2, <2>1, WrittenIs
<1>5. CASE r = saved
  BY <1>2, <1>3, <1>5
<1>6. CASE Like(r, w)
  BY <1>4, <1>6, <1>2, LikeIsOK DEF Like
<1>7. CASE Like(r, saved)
  BY <1>4, <1>7, <1>2, <1>3, LikeIsOK DEF Like
<1> QED BY <1>4, <1>5, <1>6, <1>7

Keys == {None} \cup ({"offline", "cancel"} \X Activities)

\* Two checkpoints that differ in the activities only.
SameRest(c, d) ==
  /\ c.pending = d.pending /\ c.bound = d.bound /\ c.grants = d.grants /\ c.open = d.open
  /\ c.blocked = d.blocked /\ c.rule = d.rule /\ c.paused = d.paused

\* The activities of c, with the next event of a.
NextEvent(c, a, state) == [c.activity EXCEPT ![a] = [state |-> state, odd |-> ~@.odd]]

\* Recording an event changes one activity and the checkpoint, or neither in memory.
LEMMA RecordIs ==
  ASSUME NEW w, WorldOK(w), w.out = "ok", NEW a \in Activities, NEW state \in States,
         NEW key \in Keys,
         state \in {"running", "reconnecting"} \/ a \in w.disk.written,
         state = "queued" => ~Denied(svc.now, a),
         NEW r \in Record(w, a, state, key)
  PROVE  /\ WorldOK(r)
         /\ r.asked = w.asked /\ r.uses = w.uses /\ r.held = w.held
         /\ r.disk.written = w.disk.written
         /\ SameRest(r.svc.now, w.svc.now)
         /\ \/ /\ r.out = "ok" /\ r.disk.ck = r.svc.now /\ r.faults = w.faults
               /\ r.svc.now.activity = NextEvent(w.svc.now, a, state)
            \/ r.out = "down"
            \/ /\ r.out = "error" /\ r.svc.now = w.svc.now
               /\ \/ r.faults < MaxFaults
                  \/ key # None /\ r.disk.ck = w.disk.ck /\ r.faults = w.faults
<1> DEFINE event == [state |-> state, odd |-> ~w.svc.now.activity[a].odd]
           A == [w.svc.now.activity EXCEPT ![a] = event]
           c == [w.svc.now EXCEPT !.activity = A]
           next == [w EXCEPT !.svc.now.activity[a] = event]
           undone(v) == [v EXCEPT !.svc.now.activity = w.svc.now.activity]
           kept(v) == [v EXCEPT !.svc.keys = IF key = None THEN @ ELSE @ \cup {key}]
<1>1. w \in WorldType /\ w.svc.now \in Checkpoints
  BY WorldFields DEF WorldOK
<1>2. A \in [Activities -> [state : States, odd : BOOLEAN]] /\ A = NextEvent(w.svc.now, a, state)
  BY <1>1 DEF Checkpoints, NextEvent
<1>3. c \in Checkpoints /\ c.activity = A /\ SameRest(c, w.svc.now)
  BY <1>1, <1>2 DEF Checkpoints, SameRest
<1>4. next = [w EXCEPT !.svc.now = c]
  OBVIOUS
<1>5. \A b \in Activities : A[b] = IF b = a THEN event ELSE w.svc.now.activity[b]
  BY <1>1, <1>2 DEF Checkpoints
<1> HIDE DEF A, c, next
<1>6. /\ next \in WorldType /\ next.svc.now = c /\ next.disk = w.disk
      /\ next.covers = w.covers /\ next.asked = w.asked /\ next.uses = w.uses
      /\ next.held = w.held /\ next.faults = w.faults /\ next.out = "ok"
      /\ next.svc.next = w.svc.next /\ next.svc.keys = w.svc.keys
  BY <1>1, <1>3, <1>4, WithNow
<1>7. Unspent(c, next) /\ Traced(c, next) /\ Undenied(c)
  <2>1. Unspent(c, next)
    BY <1>3, <1>6 DEF WorldOK, MemoryOK, Unspent, SameRest
  <2>2. Traced(c, next)
    BY <1>3, <1>5, <1>6 DEF WorldOK, MemoryOK, Traced
  <2>3. Undenied(c)
    BY <1>3, <1>5 DEF WorldOK, MemoryOK, Undenied
  <2> QED BY <2>1, <2>2, <2>3
<1>8. WorldOK(next)
  <2>1. DiskOK(next)
    BY <1>6 DEF WorldOK, DiskOK, Unspent, Traced
  <2>2. Numbered(next) /\ SpentOnce(next) /\ Holds(next)
    BY <1>3, <1>6 DEF WorldOK, Numbered, SpentOnce, Holds, SameRest
  <2> QED BY <1>6, <1>7, <2>1, <2>2 DEF WorldOK, MemoryOK
<1>9. CASE r = [w EXCEPT !.out = "error"] /\ key \in w.svc.keys
  <2>1. WorldOK(r) /\ Like(r, w) /\ r.out = "error" /\ r.faults = w.faults
    BY <1>9, ReportIsOK
  <2> QED BY <1>9, <2>1 DEF Like, SameRest, WorldOK
<1> DEFINE Goal ==
             /\ WorldOK(r)
             /\ r.asked = w.asked /\ r.uses = w.uses /\ r.held = w.held
             /\ r.disk.written = w.disk.written
             /\ SameRest(r.svc.now, w.svc.now)
             /\ \/ /\ r.out = "ok" /\ r.disk.ck = r.svc.now /\ r.faults = w.faults
                   /\ r.svc.now.activity = NextEvent(w.svc.now, a, state)
                \/ r.out = "down"
                \/ /\ r.out = "error" /\ r.svc.now = w.svc.now
                   /\ \/ r.faults < MaxFaults
                      \/ key # None /\ r.disk.ck = w.disk.ck /\ r.faults = w.faults
<1>10. ASSUME NEW v \in Persist(next), v.out = "ok", r = kept(v)
       PROVE  Goal
  <2>1. /\ WorldOK(v) /\ v.svc = next.svc /\ v.asked = w.asked /\ v.uses = w.uses
        /\ v.held = w.held /\ v.disk.written = w.disk.written
        /\ v.disk.ck = c /\ v.faults = w.faults
    BY <1>6, <1>8, <1>10, PersistIs
  <2> DEFINE k == IF key = None THEN v.svc.keys ELSE v.svc.keys \cup {key}
             s == [v.svc EXCEPT !.keys = k]
  <2>2. v \in WorldType
    BY <2>1 DEF WorldOK
  <2>3. k \subseteq {"offline", "cancel"} \X Activities /\ None \notin k
    BY <2>1, <2>2, WorldFields DEF Keys, WorldOK
  <2>4. s \in Services /\ s.now = c /\ s.next = v.svc.next /\ s.keys = k
    BY <1>6, <2>1, <2>2, <2>3, WorldFields DEF Services
  <2>5. r = [v EXCEPT !.svc = s]
    BY <1>10
  <2> HIDE DEF s, k
  <2>6. /\ r \in WorldType /\ r.svc = s /\ r.disk = v.disk /\ r.covers = v.covers
        /\ r.asked = w.asked /\ r.uses = w.uses /\ r.held = w.held
        /\ r.faults = v.faults /\ r.out = "ok"
    <3> DEFINE q == [v EXCEPT !.svc = s]
    <3>1. /\ q \in WorldType /\ q.svc = s /\ q.disk = v.disk /\ q.covers = v.covers
          /\ q.asked = v.asked /\ q.uses = v.uses /\ q.held = v.held
          /\ q.faults = v.faults /\ q.out = v.out
      BY <2>2, <2>4, WithService
    <3>2. r = q
      BY <2>5
    <3> HIDE DEF q
    <3> QED BY <1>10, <2>1, <3>1, <3>2
  <2>7. WorldOK(r)
    <3>1. Numbered(r) /\ SpentOnce(r) /\ Holds(r) /\ MemoryOK(r) /\ DiskOK(r)
      BY <1>6, <2>1, <2>4, <2>6
         DEF WorldOK, Numbered, SpentOnce, Holds, MemoryOK, DiskOK, Unspent, Traced
    <3> QED BY <2>3, <2>4, <2>6, <3>1 DEF WorldOK
  <2> QED BY <1>2, <1>3, <2>1, <2>4, <2>6, <2>7
<1>11. ASSUME NEW v \in Persist(next), v.out = "down", r = v
       PROVE  Goal
  <2>1. /\ WorldOK(v) /\ v.svc = next.svc /\ v.asked = w.asked /\ v.uses = w.uses
        /\ v.held = w.held /\ v.disk.written = w.disk.written
    BY <1>6, <1>8, PersistIs
  <2> QED BY <1>3, <1>6, <1>11, <2>1
<1>12. ASSUME NEW v \in Persist(next), v.out = "error",
              r = [undone([v EXCEPT !.out = "ok"]) EXCEPT !.out = "error"]
       PROVE  Goal
  <2>1. /\ WorldOK(v) /\ v.svc = next.svc /\ v.asked = w.asked /\ v.uses = w.uses
        /\ v.held = w.held /\ v.disk.written = w.disk.written /\ v.faults < MaxFaults
    BY <1>6, <1>8, <1>12, PersistIs
  <2> DEFINE u == [v EXCEPT !.out = "ok"]
             b == [u.svc.now EXCEPT !.activity = w.svc.now.activity]
             t == [u EXCEPT !.svc.now = b]
  <2>2. u \in WorldType /\ WorldOK(u) /\ Like(u, v) /\ u.faults = v.faults
    BY <2>1, ReportIsOK DEF WorldOK
  <2>3. b = w.svc.now
    <3>1. u.svc.now = c
      BY <1>6, <2>1, <2>2 DEF Like
    <3> QED BY <1>1, <1>3, <3>1 DEF Checkpoints, SameRest
  <2>4. r = [t EXCEPT !.out = "error"]
    BY <1>12
  <2> HIDE DEF u, b
  <2>5. /\ t \in WorldType /\ t.svc.now = w.svc.now /\ t.disk = u.disk
        /\ t.covers = u.covers /\ t.asked = w.asked /\ t.uses = w.uses
        /\ t.held = w.held /\ t.faults < MaxFaults
        /\ t.svc.next = u.svc.next /\ t.svc.keys = u.svc.keys
    BY <1>1, <2>1, <2>2, <2>3, WithNow DEF Like
  <2> HIDE DEF t
  <2>6. WorldOK(t)
    <3>1. Numbered(t) /\ SpentOnce(t) /\ DiskOK(t) /\ None \notin t.svc.keys
      BY <2>1, <2>2, <2>5 DEF WorldOK, Numbered, SpentOnce, DiskOK, Unspent, Traced, Like
    <3>2. Holds(t)
      BY <1>3, <1>6, <2>1, <2>2, <2>5 DEF WorldOK, Holds, SameRest, Like
    <3>3. MemoryOK(t)
      BY <2>1, <2>2, <2>5 DEF WorldOK, MemoryOK, Unspent, Traced, Like
    <3> QED BY <2>5, <3>1, <3>2, <3>3 DEF WorldOK
  <2>7. WorldOK(r) /\ Like(r, t) /\ r.out = "error" /\ r.faults = t.faults
    BY <2>4, <2>6, ReportIsOK
  <2> QED BY <2>1, <2>2, <2>5, <2>7 DEF SameRest, Like
<1>13. \/ r = [w EXCEPT !.out = "error"] /\ key \in w.svc.keys
       \/ \E v \in Persist(next) :
            \/ v.out = "ok" /\ r = kept(v)
            \/ v.out = "down" /\ r = v
            \/ v.out = "error" /\ r = [undone([v EXCEPT !.out = "ok"]) EXCEPT !.out = "error"]
  <2>1. CASE key \in w.svc.keys
    BY <2>1 DEF Record, Refuse
  <2>2. CASE key \notin w.svc.keys
    <3> DEFINE undo(v) == Refuse(undone(v))
    <3>1. PICK x \in Else(Persist(next), undo) : IF x.out = "ok" THEN r = kept(x) ELSE r = x
      BY <2>2 DEF Record, Then, next
    <3>2. PICK v \in Persist(next) :
             IF v.out = "error" THEN x \in Refuse(undone([v EXCEPT !.out = "ok"])) ELSE x = v
      BY <3>1 DEF Else
    <3>3. v \in WorldType
      BY <1>6, <1>8, PersistIs DEF WorldOK
    <3>4. CASE v.out = "error"
      <4> DEFINE u == undone([v EXCEPT !.out = "ok"])
      <4>1. x = [u EXCEPT !.out = "error"]
        BY <3>2, <3>4 DEF Refuse
      <4>2. u \in [{"svc", "disk", "covers", "asked", "uses", "held", "faults", "crashes",
                    "troubles", "out"} -> {u[f] : f \in DOMAIN u}]
        BY <3>3 DEF WorldType
      <4>3. x.out = "error"
        BY <4>1, <4>2
      <4> QED BY <3>1, <3>2, <3>4, <4>1, <4>3
    <3>5. CASE v.out # "error"
      BY <3>1, <3>2, <3>3, <3>5, WorldFields
    <3> QED BY <3>4, <3>5
  <2> QED BY <2>1, <2>2
<1> QED BY <1>9, <1>10, <1>11, <1>12, <1>13

-----------------------------------------------------------------------------
(***************************************************************************)
(* Handlers that record activities and change nothing else of the service. *)
(***************************************************************************)

Works(r, w) ==
  /\ WorldOK(r) /\ (Same(w) => r.out = "down" \/ Same(r))
  /\ r.asked = w.asked /\ r.uses = w.uses /\ r.held = w.held
  /\ SameRest(r.svc.now, w.svc.now)

LEMMA WorksOn ==
  ASSUME NEW w, NEW v, NEW r, Works(v, w), v.out = "ok", Works(r, v)
  PROVE  Works(r, w)
BY DEF Works, SameRest

LEMMA NotedIsSame ==
  ASSUME NEW w, NEW r, WorldOK(w), WorldOK(r), Noted(r, w), r.faults <= w.faults, Same(w)
  PROVE  Same(r)
<1>1. r.faults \in 0 .. MaxFaults /\ w.faults \in 0 .. MaxFaults
  BY WorldFields DEF WorldOK
<1>2. r.faults = MaxFaults => w.faults = MaxFaults
  BY <1>1, BoundsType
<1> QED BY <1>2 DEF Noted, Same

LEMMA ReportWorks ==
  ASSUME NEW w, WorldOK(w), NEW o \in {"ok", "error", "down"}
  PROVE  Works([w EXCEPT !.out = o], w)
<1> DEFINE r == [w EXCEPT !.out = o]
<1>1. WorldOK(r) /\ Like(r, w) /\ r.out = o /\ r.faults = w.faults
  BY ReportIsOK
<1> QED BY <1>1 DEF Works, Same, Like, SameRest

LEMMA AuditWorks ==
  ASSUME NEW w, WorldOK(w), w.out = "ok", NEW a \in Activities \cup {None},
         NEW r \in Audit(w, a)
  PROVE  Works(r, w)
<1>1. WorldOK(r) /\ Noted(r, w) /\ r.faults <= w.faults
  BY AuditIs
<1> QED BY <1>1, NotedIsSame DEF Works, Noted, SameRest

\* A failure is audited and reported, and that is all.
LEMMA SorryIs ==
  ASSUME NEW w, WorldOK(w), w.out = "ok", NEW a \in Activities \cup {None},
         NEW r \in Sorry(w, a)
  PROVE  Works(r, w) /\ Noted(r, w) /\ r.out # "ok" /\ r.faults <= w.faults
<1>1. PICK v \in Audit(w, a) : IF v.out = "ok" THEN r = [v EXCEPT !.out = "error"] ELSE r = v
  BY DEF Sorry, Then, Refuse
<1>2. WorldOK(v) /\ Noted(v, w) /\ v.faults <= w.faults /\ Works(v, w)
  BY AuditIs, AuditWorks
<1>3. CASE v.out = "ok"
  <2>1. r = [v EXCEPT !.out = "error"]
    BY <1>1, <1>3
  <2>2. WorldOK(r) /\ Like(r, v) /\ r.out = "error" /\ r.faults = v.faults /\ Works(r, v)
    BY <1>2, <2>1, ReportIsOK, ReportWorks
  <2> QED BY <1>2, <1>3, <2>2, WorksOn DEF Noted, Like
<1> QED BY <1>1, <1>2, <1>3

LEMMA RecordWorks ==
  ASSUME NEW w, WorldOK(w), w.out = "ok", NEW a \in Activities, NEW state \in States,
         NEW key \in Keys,
         state \in {"running", "reconnecting"} \/ a \in w.disk.written,
         state = "queued" => ~Denied(svc.now, a),
         NEW r \in Record(w, a, state, key)
  PROVE  Works(r, w)
<1>1. /\ WorldOK(r)
      /\ r.asked = w.asked /\ r.uses = w.uses /\ r.held = w.held
      /\ SameRest(r.svc.now, w.svc.now)
      /\ \/ r.out = "ok" /\ r.disk.ck = r.svc.now
         \/ r.out = "down"
         \/ /\ r.out = "error" /\ r.svc.now = w.svc.now
            /\ \/ r.faults < MaxFaults
               \/ key # None /\ r.disk.ck = w.disk.ck /\ r.faults = w.faults
  BY RecordIs
<1>2. r.faults \in 0 .. MaxFaults
  BY <1>1, WorldFields DEF WorldOK
<1>3. Same(w) => r.out = "down" \/ Same(r)
  BY <1>1, <1>2, BoundsType DEF Same, SameContent
<1> QED BY <1>1, <1>3 DEF Works

\* An end is audited and then recorded.
LEMMA AuditedRecordWorks ==
  ASSUME NEW w, WorldOK(w), w.out = "ok", NEW a \in Activities, NEW state \in States,
         NEW key \in Keys, state # "queued",
         NEW r \in Then(Audit(w, a), LAMBDA v : Record(v, a, state, key))
  PROVE  Works(r, w)
<1>1. PICK v \in Audit(w, a) : IF v.out = "ok" THEN r \in Record(v, a, state, key) ELSE r = v
  BY DEF Then
<1>2. Works(v, w) /\ WorldOK(v) /\ (v.out = "ok" => a \in v.disk.written)
  BY AuditWorks, AuditIs
<1>3. CASE v.out = "ok"
  BY <1>1, <1>2, <1>3, RecordWorks, WorksOn
<1> QED BY <1>1, <1>2, <1>3

LEMMA TransitionWorks ==
  ASSUME NEW w, WorldOK(w), w.out = "ok", NEW a \in Activities,
         NEW state \in {"running", "reconnecting", "succeeded", "failed"},
         NEW r \in Transition(w, a, state)
  PROVE  Works(r, w)
<1>1. state \in States /\ None \in Keys /\ state # "queued"
  BY DEF States, Terminal, Keys
<1>2. CASE r = w
  BY <1>2 DEF Works, SameRest
<1>3. CASE r = [w EXCEPT !.out = "error"]
  BY <1>3, ReportWorks
<1>4. CASE state \in Terminal /\ r \in Then(Audit(w, a), LAMBDA v : Record(v, a, state, None))
  BY <1>1, <1>4, AuditedRecordWorks
<1>5. CASE state \notin Terminal /\ r \in Record(w, a, state, None)
  <2>1. state \in {"running", "reconnecting"}
    BY <1>5 DEF Terminal
  <2> QED BY <1>1, <1>5, <2>1, RecordWorks
<1> QED BY <1>2, <1>3, <1>4, <1>5 DEF Transition, Refuse

LEMMA OfflineWorks ==
  ASSUME NEW w, WorldOK(w), w.out = "ok", NEW a \in Activities, NEW r \in Offline(w, a)
  PROVE  Works(r, w)
<1>1. "failed" \in States /\ <<"offline", a>> \in Keys
  BY DEF States, Terminal, Keys
<1>2. r \in Then(Audit(w, a), LAMBDA v : Record(v, a, "failed", <<"offline", a>>))
  BY DEF Offline
<1> QED BY <1>1, <1>2, AuditedRecordWorks

LEMMA InterruptedWorks ==
  ASSUME NEW w, WorldOK(w), w.out = "ok", NEW a \in Activities, NEW r \in Interrupted(w, a)
  PROVE  Works(r, w)
<1>1. "failed" \in States /\ None \in Keys
  BY DEF States, Terminal, Keys
<1>2. r \in Then(Audit(w, a), LAMBDA v : Record(v, a, "failed", None))
  BY DEF Interrupted
<1> QED BY <1>1, <1>2, AuditedRecordWorks

LEMMA CancelledWorks ==
  ASSUME NEW w, WorldOK(w), w.out = "ok", NEW a \in Activities, NEW r \in Cancelled(w, a)
  PROVE  Works(r, w)
<1> DEFINE recorded(v) == Record(v, a, "cancelled", <<"cancel", a>>)
           record(v) == Else(recorded(v), LAMBDA u : Sorry(u, a))
           ended == Then(Audit(w, a), record)
<1>1. "cancelled" \in States /\ <<"cancel", a>> \in Keys
  BY DEF States, Terminal, Keys
<1>2. CASE r = w
  BY <1>2 DEF Works, SameRest
<1>3. ASSUME NEW x \in ended
      PROVE  Works(x, w)
  <2>1. PICK v \in Audit(w, a) : IF v.out = "ok" THEN x \in record(v) ELSE x = v
    BY <1>3 DEF Then
  <2>2. Works(v, w) /\ WorldOK(v) /\ (v.out = "ok" => a \in v.disk.written)
    BY AuditWorks, AuditIs
  <2>3. CASE v.out = "ok"
    <3>1. PICK y \in recorded(v) : IF y.out = "error" THEN x \in Sorry([y EXCEPT !.out = "ok"], a) ELSE x = y
      BY <2>1, <2>3 DEF Else
    <3>2. Works(y, v)
      BY <1>1, <2>2, <2>3, RecordWorks
    <3>3. CASE y.out = "error"
      <4> DEFINE z == [y EXCEPT !.out = "ok"]
      <4>1. WorldOK(z) /\ z.out = "ok" /\ Works(z, y)
        BY <3>2, ReportIsOK, ReportWorks DEF Works
      <4>2. x \in Sorry(z, a)
        BY <3>1, <3>3
      <4> HIDE DEF z
      <4>3. Works(x, z)
        BY <4>1, <4>2, SorryIs
      <4>4. Works(x, y)
        BY <4>1, <4>3, WorksOn
      <4>5. Works(x, v)
        BY <3>2, <3>3, <4>4 DEF Works, SameRest
      <4> QED BY <2>2, <2>3, <4>5, WorksOn
    <3> QED BY <2>2, <2>3, <3>1, <3>2, <3>3, WorksOn
  <2> QED BY <2>1, <2>2, <2>3
<1>4. CASE r \in Then(ended, LAMBDA v : Audit(v, a))
  <2>1. PICK x \in ended : IF x.out = "ok" THEN r \in Audit(x, a) ELSE r = x
    BY <1>4 DEF Then
  <2>2. Works(x, w)
    BY <1>3
  <2> HIDE DEF ended
  <2>3. CASE x.out = "ok"
    BY <2>1, <2>2, <2>3, AuditWorks, WorksOn DEF Works
  <2> QED BY <2>1, <2>2, <2>3
<1> QED BY <1>2, <1>4 DEF Cancelled

-----------------------------------------------------------------------------
(***************************************************************************)
(* One activity after the other.  Each is a recursive function: that it is *)
(* defined, and what its values are, follows from the least number of      *)
(* which it would not be true.                                             *)
(***************************************************************************)

LEMMA LeastNumber ==
  ASSUME NEW S, S \subseteq Nat, S # {}
  PROVE  \E m \in S : \A n \in S : m <= n
<1>1. PICK m \in S : \A n \in S : <<n, m>> \notin OpToRel(<, Nat)
  BY NatLessThanWellFounded, WFMin
<1>2. \A n \in S : ~(n < m)
  BY <1>1 DEF OpToRel
<1> QED BY <1>2

\* Induction up to a number, of the set of those for which something is true.
LEMMA NumbersUpTo ==
  ASSUME NEW L \in Nat, NEW S, 0 \in S, \A k \in 1 .. L : k - 1 \in S => k \in S
  PROVE  \A k \in 0 .. L : k \in S
<1> DEFINE Bad == (0 .. L) \ S
<1>1. SUFFICES ASSUME Bad # {} PROVE FALSE
  OBVIOUS
<1>2. PICK k \in Bad : \A n \in Bad : k <= n
  <2>1. Bad \subseteq Nat
    OBVIOUS
  <2> HIDE DEF Bad
  <2> QED BY <1>1, <2>1, LeastNumber
<1>3. k \in 1 .. L /\ k - 1 \in 0 .. L /\ ~(k <= k - 1)
  OBVIOUS
<1> QED BY <1>2, <1>3

\* What every cancellation keeps, one after the other keeps (a pause).
LEMMA EachCancelledKeeps ==
  ASSUME NEW S, NEW w \in S, NEW order \in Seq(Activities),
         \A v \in S, a \in Activities : v.out = "ok" => Cancelled(v, a) \subseteq S
  PROVE  Each(w, order, Cancelled) \subseteq S
<1> DEFINE L == Len(order)
           Step(W, n) == Then(W, LAMBDA v : Cancelled(v, order[n]))
           Is(f, k) == f = [n \in 0 .. k |-> IF n = 0 THEN {w} ELSE Step(f[n - 1], n)]
           after == CHOOSE f : Is(f, L)
<1>1. Each(w, order, Cancelled) = after[L]
  BY DEF Each
<1>2. L \in Nat /\ \A n \in 1 .. L : order[n] \in Activities
  OBVIOUS
<1>3. ASSUME NEW W, NEW n \in 1 .. L, W \subseteq S
      PROVE  Step(W, n) \subseteq S
  <2>1. SUFFICES ASSUME NEW x \in Step(W, n) PROVE x \in S
    OBVIOUS
  <2>2. PICK v \in W : IF v.out = "ok" THEN x \in Cancelled(v, order[n]) ELSE x = v
    BY <2>1 DEF Then
  <2> QED BY <1>2, <1>3, <2>2
<1> HIDE DEF Step, L
<1>4. \E f : Is(f, L)
  <2> DEFINE Defined(k) == \E f : Is(f, k)
             K == {k \in 0 .. L : Defined(k)}
  <2>1. Defined(0)
    <3>1. Is([n \in 0 .. 0 |-> {w}], 0)
      OBVIOUS
    <3> QED BY <3>1
  <2>2. ASSUME NEW k \in 1 .. L, Defined(k - 1)
        PROVE  Defined(k)
    <3>0. PICK g : Is(g, k - 1)
      BY <2>2
    <3> DEFINE f == [n \in 0 .. k |-> IF n = k THEN Step(g[k - 1], k) ELSE g[n]]
    <3>1. \A n \in 0 .. k : f[n] = IF n = k THEN Step(g[k - 1], k) ELSE g[n]
      OBVIOUS
    <3>2. \A n \in 0 .. k - 1 : g[n] = IF n = 0 THEN {w} ELSE Step(g[n - 1], n)
      BY <3>0
    <3>3. f = [n \in 0 .. k |-> f[n]]
      OBVIOUS
    <3> HIDE DEF f
    <3>4. ASSUME NEW n \in 0 .. k
          PROVE  f[n] = IF n = 0 THEN {w} ELSE Step(f[n - 1], n)
      <4>1. CASE n = k
        <5>1. f[n - 1] = g[k - 1] /\ n # 0
          BY <1>2, <3>1, <4>1
        <5> QED BY <3>1, <4>1, <5>1
      <4>2. CASE n # k
        <5>1. n \in 0 .. k - 1 /\ f[n] = g[n] /\ (n # 0 => f[n - 1] = g[n - 1])
          BY <1>2, <3>1, <4>2
        <5> QED BY <3>2, <5>1
      <4> QED BY <4>1, <4>2
    <3>5. Is(f, k)
      BY <3>3, <3>4
    <3> QED BY <3>5
  <2> HIDE DEF Defined
  <2>3. 0 \in K /\ \A k \in 1 .. L : k - 1 \in K => k \in K
    BY <1>2, <2>1, <2>2
  <2>4. \A k \in 0 .. L : k \in K
    <3> HIDE DEF K
    <3> QED BY <1>2, <2>3, NumbersUpTo
  <2>5. Defined(L)
    BY <1>2, <2>4
  <2> QED BY <2>5 DEF Defined
<1>5. \A k \in 0 .. L : after[k] = IF k = 0 THEN {w} ELSE Step(after[k - 1], k)
  BY <1>4
<1> HIDE DEF after
<1>6. \A k \in 0 .. L : after[k] \subseteq S
  <2> DEFINE K == {k \in 0 .. L : after[k] \subseteq S}
  <2>1. 0 \in K
    <3>1. after[0] = {w}
      BY <1>2, <1>5
    <3> QED BY <1>2, <3>1
  <2>2. ASSUME NEW k \in 1 .. L, after[k - 1] \subseteq S
        PROVE  after[k] \subseteq S
    <3>1. after[k] = Step(after[k - 1], k)
      BY <1>2, <1>5
    <3> QED BY <1>3, <2>2, <3>1
  <2>3. \A k \in 1 .. L : k - 1 \in K => k \in K
    BY <2>2
  <2>4. \A k \in 0 .. L : k \in K
    <3> HIDE DEF K
    <3> QED BY <1>2, <2>1, <2>3, NumbersUpTo
  <2> QED BY <2>4
<1> QED BY <1>1, <1>2, <1>6

\* What every end of an activity keeps, one after the other keeps (a restart).
LEMMA EachInterruptedKeeps ==
  ASSUME NEW S, NEW w \in S, NEW order \in Seq(Activities),
         \A v \in S, a \in Activities : v.out = "ok" => Interrupted(v, a) \subseteq S
  PROVE  Each(w, order, Interrupted) \subseteq S
<1> DEFINE L == Len(order)
           Step(W, n) == Then(W, LAMBDA v : Interrupted(v, order[n]))
           Is(f, k) == f = [n \in 0 .. k |-> IF n = 0 THEN {w} ELSE Step(f[n - 1], n)]
           after == CHOOSE f : Is(f, L)
<1>1. Each(w, order, Interrupted) = after[L]
  BY DEF Each
<1>2. L \in Nat /\ \A n \in 1 .. L : order[n] \in Activities
  OBVIOUS
<1>3. ASSUME NEW W, NEW n \in 1 .. L, W \subseteq S
      PROVE  Step(W, n) \subseteq S
  <2>1. SUFFICES ASSUME NEW x \in Step(W, n) PROVE x \in S
    OBVIOUS
  <2>2. PICK v \in W : IF v.out = "ok" THEN x \in Interrupted(v, order[n]) ELSE x = v
    BY <2>1 DEF Then
  <2> QED BY <1>2, <1>3, <2>2
<1> HIDE DEF Step, L
<1>4. \E f : Is(f, L)
  <2> DEFINE Defined(k) == \E f : Is(f, k)
             K == {k \in 0 .. L : Defined(k)}
  <2>1. Defined(0)
    <3>1. Is([n \in 0 .. 0 |-> {w}], 0)
      OBVIOUS
    <3> QED BY <3>1
  <2>2. ASSUME NEW k \in 1 .. L, Defined(k - 1)
        PROVE  Defined(k)
    <3>0. PICK g : Is(g, k - 1)
      BY <2>2
    <3> DEFINE f == [n \in 0 .. k |-> IF n = k THEN Step(g[k - 1], k) ELSE g[n]]
    <3>1. \A n \in 0 .. k : f[n] = IF n = k THEN Step(g[k - 1], k) ELSE g[n]
      OBVIOUS
    <3>2. \A n \in 0 .. k - 1 : g[n] = IF n = 0 THEN {w} ELSE Step(g[n - 1], n)
      BY <3>0
    <3>3. f = [n \in 0 .. k |-> f[n]]
      OBVIOUS
    <3> HIDE DEF f
    <3>4. ASSUME NEW n \in 0 .. k
          PROVE  f[n] = IF n = 0 THEN {w} ELSE Step(f[n - 1], n)
      <4>1. CASE n = k
        <5>1. f[n - 1] = g[k - 1] /\ n # 0
          BY <1>2, <3>1, <4>1
        <5> QED BY <3>1, <4>1, <5>1
      <4>2. CASE n # k
        <5>1. n \in 0 .. k - 1 /\ f[n] = g[n] /\ (n # 0 => f[n - 1] = g[n - 1])
          BY <1>2, <3>1, <4>2
        <5> QED BY <3>2, <5>1
      <4> QED BY <4>1, <4>2
    <3>5. Is(f, k)
      BY <3>3, <3>4
    <3> QED BY <3>5
  <2> HIDE DEF Defined
  <2>3. 0 \in K /\ \A k \in 1 .. L : k - 1 \in K => k \in K
    BY <1>2, <2>1, <2>2
  <2>4. \A k \in 0 .. L : k \in K
    <3> HIDE DEF K
    <3> QED BY <1>2, <2>3, NumbersUpTo
  <2>5. Defined(L)
    BY <1>2, <2>4
  <2> QED BY <2>5 DEF Defined
<1>5. \A k \in 0 .. L : after[k] = IF k = 0 THEN {w} ELSE Step(after[k - 1], k)
  BY <1>4
<1> HIDE DEF after
<1>6. \A k \in 0 .. L : after[k] \subseteq S
  <2> DEFINE K == {k \in 0 .. L : after[k] \subseteq S}
  <2>1. 0 \in K
    <3>1. after[0] = {w}
      BY <1>2, <1>5
    <3> QED BY <1>2, <3>1
  <2>2. ASSUME NEW k \in 1 .. L, after[k - 1] \subseteq S
        PROVE  after[k] \subseteq S
    <3>1. after[k] = Step(after[k - 1], k)
      BY <1>2, <1>5
    <3> QED BY <1>3, <2>2, <3>1
  <2>3. \A k \in 1 .. L : k - 1 \in K => k \in K
    BY <2>2
  <2>4. \A k \in 0 .. L : k \in K
    <3> HIDE DEF K
    <3> QED BY <1>2, <2>1, <2>3, NumbersUpTo
  <2> QED BY <2>4
<1> QED BY <1>1, <1>2, <1>6

LEMMA EachCancelledWorks ==
  ASSUME NEW w, WorldOK(w), w.out = "ok", NEW order \in Seq(Activities),
         NEW r \in Each(w, order, Cancelled)
  PROVE  Works(r, w)
<1> DEFINE S == {x \in WorldType : Works(x, w)}
<1>1. w \in S
  BY DEF Works, SameRest, WorldOK
<1>2. ASSUME NEW v \in S, NEW a \in Activities, v.out = "ok"
      PROVE  Cancelled(v, a) \subseteq S
  <2> SUFFICES ASSUME NEW x \in Cancelled(v, a) PROVE x \in S
    OBVIOUS
  <2>1. Works(v, w) /\ WorldOK(v)
    BY DEF Works
  <2>2. Works(x, v)
    BY <1>2, <2>1, CancelledWorks
  <2>3. Works(x, w) /\ x \in WorldType
    BY <1>2, <2>1, <2>2, WorksOn DEF Works, WorldOK
  <2> QED BY <2>3
<1> HIDE DEF S
<1>3. r \in S
  BY <1>1, <1>2, EachCancelledKeeps
<1> QED BY <1>3 DEF S

LEMMA EachInterruptedWorks ==
  ASSUME NEW w, WorldOK(w), w.out = "ok", NEW order \in Seq(Activities),
         NEW r \in Each(w, order, Interrupted)
  PROVE  Works(r, w)
<1> DEFINE S == {x \in WorldType : Works(x, w)}
<1>1. w \in S
  BY DEF Works, SameRest, WorldOK
<1>2. ASSUME NEW v \in S, NEW a \in Activities, v.out = "ok"
      PROVE  Interrupted(v, a) \subseteq S
  <2> SUFFICES ASSUME NEW x \in Interrupted(v, a) PROVE x \in S
    OBVIOUS
  <2>1. Works(v, w) /\ WorldOK(v)
    BY DEF Works
  <2>2. Works(x, v)
    BY <1>2, <2>1, InterruptedWorks
  <2>3. Works(x, w) /\ x \in WorldType
    BY <1>2, <2>1, <2>2, WorksOn DEF Works, WorldOK
  <2> QED BY <2>3
<1> HIDE DEF S
<1>3. r \in S
  BY <1>1, <1>2, EachInterruptedKeeps
<1> QED BY <1>3 DEF S

\* The orders in which activities are taken are sequences of them.
LEMMA OrdersAreSequences ==
  ASSUME NEW S \in SUBSET Activities, NEW order \in Orders(S)
  PROVE  order \in Seq(Activities)
<1>1. IsFiniteSet(S)
  <2>1. IsFiniteSet({"pause", "resume", "cancel", "put", "drop", "erase"})
    <3>1. IsFiniteSet({"pause"} \cup {"resume"}) /\ IsFiniteSet({"cancel"} \cup {"put"})
          /\ IsFiniteSet({"drop"} \cup {"erase"})
      BY FS_Singleton, FS_Union
    <3>2. IsFiniteSet(({"pause"} \cup {"resume"}) \cup ({"cancel"} \cup {"put"}))
      BY <3>1, FS_Union
    <3>3. IsFiniteSet((({"pause"} \cup {"resume"}) \cup ({"cancel"} \cup {"put"}))
                        \cup ({"drop"} \cup {"erase"}))
      BY <3>1, <3>2, FS_Union
    <3>4. (({"pause"} \cup {"resume"}) \cup ({"cancel"} \cup {"put"}))
            \cup ({"drop"} \cup {"erase"})
            = {"pause", "resume", "cancel", "put", "drop", "erase"}
      OBVIOUS
    <3> QED BY <3>3, <3>4
  <2>2. IsFiniteSet(AdminOps) /\ IsFiniteSet(Jobs)
    BY <2>1, DashboardAssumption, FS_Subset
  <2> QED BY <2>2, FS_Union, FS_Subset DEF Activities
<1> DEFINE n == Cardinality(S)
<1>2. n \in Nat /\ \E f : f \in [1 .. n -> S] /\ IsInjective(f)
  <2>1. n \in Nat /\ ExistsBijection(1 .. n, S)
    BY <1>1, FS_CardinalityType
  <2> QED BY <2>1 DEF ExistsBijection, Bijection, Injection, IsInjective
<1> DEFINE q == SetToSeq(S)
<1>3. q \in [1 .. n -> S]
  BY <1>2 DEF SetToSeq
<1> HIDE DEF n, q
<1>4. q \in Seq(Activities) /\ Len(q) = n
  BY <1>2, <1>3
<1>5. Reverse(q) \in Seq(Activities)
  <2>1. \A i \in 1 .. n : q[(n - i) + 1] \in Activities
    BY <1>2, <1>3
  <2> QED BY <1>2, <1>4, <2>1 DEF Reverse
<1> QED BY <1>4, <1>5 DEF Orders, q

-----------------------------------------------------------------------------
(***************************************************************************)
(* What a handler holds in memory is exchanged.                            *)
(***************************************************************************)

\* Two worlds that differ in what a checkpoint saves only.
Kin(r, w) ==
  /\ r \in WorldType
  /\ r.disk = w.disk /\ r.covers = w.covers /\ r.asked = w.asked /\ r.uses = w.uses
  /\ r.held = w.held /\ r.faults = w.faults /\ r.out = w.out
  /\ r.svc.next = w.svc.next /\ r.svc.keys = w.svc.keys

LEMMA NowIsOK ==
  ASSUME NEW w, WorldOK(w), NEW r, Kin(r, w), NEW c, c = r.svc.now,
         Unspent(c, w), Traced(c, w), Undenied(c), w.held => c.paused
  PROVE  WorldOK(r)
<1>2. Numbered(r) /\ SpentOnce(r) /\ Holds(r) /\ DiskOK(r) /\ None \notin r.svc.keys
  BY DEF WorldOK, Kin, Numbered, SpentOnce, Holds, DiskOK, Unspent, Traced
<1>3. MemoryOK(r)
  BY DEF MemoryOK, Kin, Unspent, Traced
<1> QED BY <1>2, <1>3 DEF WorldOK, Kin

\* The worlds that handlers make of w before they write.
Holding(w, c) == [w EXCEPT !.svc.now = c]

Created(w, a, n) ==
  [w EXCEPT !.asked = Append(@, a), !.svc.now.open = (@ \ late) \cup {n},
            !.svc.now.pending = @ \cup {n}]

Uncreated(y, w) ==
  [y EXCEPT !.svc.now.open = w.svc.now.open, !.svc.now.pending = w.svc.now.pending]

LEMMA HoldingAgain ==
  ASSUME NEW w \in WorldType, NEW c, NEW r, r = Holding(w, c)
  PROVE  r.svc.now = c /\ \A d : Holding(r, d) = Holding(w, d)
BY DEF Holding, WorldType, Services

\* What the service holds is exchanged for c, without a new event.
LEMMA ChangedIs ==
  ASSUME NEW w, WorldOK(w), NEW c \in Checkpoints, c.activity = w.svc.now.activity,
         Unspent(c, w), w.held => c.paused,
         NEW r, r = Holding(w, c)
  PROVE  WorldOK(r) /\ Kin(r, w) /\ r.svc.now = c
<1>1. w \in WorldType
  BY DEF WorldOK
<1> DEFINE q == [w EXCEPT !.svc.now = c]
<1>2. /\ q \in WorldType /\ q.svc.now = c /\ q.disk = w.disk /\ q.covers = w.covers
      /\ q.asked = w.asked /\ q.uses = w.uses /\ q.held = w.held
      /\ q.faults = w.faults /\ q.out = w.out
      /\ q.svc.next = w.svc.next /\ q.svc.keys = w.svc.keys
  BY <1>1, WithNow
<1>3. r = q
  BY DEF Holding
<1> HIDE DEF q
<1>4. Kin(r, w) /\ r.svc.now = c
  BY <1>2, <1>3 DEF Kin
<1>5. Traced(c, w) /\ Undenied(c)
  BY DEF WorldOK, MemoryOK, Traced, Undenied
<1> QED BY <1>4, <1>5, NowIsOK

\* A handler that has failed to write is done, whatever it undoes.
LEMMA FaultSettles ==
  ASSUME NEW w, WorldOK(w), w.faults < MaxFaults
  PROVE  Same(w) /\ Settled(w)
BY BoundsType, WorldFields DEF Same, Settled, WorldOK

LEMMA WorksSettles ==
  ASSUME NEW w, Same(w), NEW r, Works(r, w)
  PROVE  Settled(r)
BY DEF Works, Settled

LEMMA RefuseSettles ==
  ASSUME NEW w, Ready(w), NEW r \in Refuse(w)
  PROVE  Settled(r) /\ r.out # "ok" /\ Like(r, w)
<1>1. r = [w EXCEPT !.out = "error"]
  BY DEF Refuse
<1> QED BY <1>1, ReportWorks, ReportIsOK, WorksSettles DEF Ready

LEMMA SorrySettles ==
  ASSUME NEW w, Ready(w), NEW a \in Activities \cup {None}, NEW r \in Sorry(w, a)
  PROVE  Settled(r) /\ r.out # "ok"
BY SorryIs, WorksSettles DEF Ready

LEMMA AuditSettles ==
  ASSUME NEW w, Ready(w), NEW a \in Activities \cup {None}, NEW r \in Audit(w, a)
  PROVE  /\ Settled(r) /\ Noted(r, w)
         /\ r.out = "ok" => Ready(r) /\ a \in r.disk.written /\ r.faults = w.faults
BY AuditIs, AuditWorks, WorksSettles DEF Ready, Settled

\* A checkpoint that is written is what the service holds.
LEMMA PersistSettles ==
  ASSUME NEW w, WorldOK(w), w.out = "ok", NEW r \in Persist(w)
  PROVE  /\ Settled(r)
         /\ r.svc = w.svc /\ r.asked = w.asked /\ r.uses = w.uses /\ r.held = w.held
         /\ r.disk.written = w.disk.written
         /\ r.out = "ok" => Ready(r) /\ r.disk.ck = w.svc.now
         /\ r.out = "error" => r.faults < MaxFaults
<1>1. /\ WorldOK(r)
      /\ r.svc = w.svc /\ r.asked = w.asked /\ r.uses = w.uses /\ r.held = w.held
      /\ r.disk.written = w.disk.written
      /\ \/ r.out = "ok" /\ r.disk.ck = w.svc.now
         \/ r.out = "down"
         \/ r.out = "error" /\ r.faults < MaxFaults
  BY PersistIs
<1>2. r.out = "ok" => Same(r)
  BY <1>1 DEF Same, SameContent
<1> QED BY <1>1, <1>2, FaultSettles DEF Settled, Ready

\* An event that is written without a key is all there is to write.
LEMMA RecordSettles ==
  ASSUME NEW w, WorldOK(w), w.out = "ok", NEW a \in Activities, NEW state \in States,
         state \in {"running", "reconnecting"} \/ a \in w.disk.written,
         state = "queued" => ~Denied(svc.now, a),
         NEW r \in Record(w, a, state, None)
  PROVE  /\ Settled(r)
         /\ r.asked = w.asked /\ r.uses = w.uses /\ r.held = w.held
         /\ r.disk.written = w.disk.written
         /\ SameRest(r.svc.now, w.svc.now)
         /\ r.out = "ok" => Ready(r) /\ r.disk.ck = r.svc.now
         /\ r.out = "error" => r.faults < MaxFaults /\ r.svc.now = w.svc.now
<1>1. /\ WorldOK(r)
      /\ r.asked = w.asked /\ r.uses = w.uses /\ r.held = w.held
      /\ r.disk.written = w.disk.written
      /\ SameRest(r.svc.now, w.svc.now)
      /\ \/ r.out = "ok" /\ r.disk.ck = r.svc.now
         \/ r.out = "down"
         \/ r.out = "error" /\ r.svc.now = w.svc.now /\ r.faults < MaxFaults
  BY RecordIs DEF Keys
<1>2. r.out = "ok" => Same(r)
  BY <1>1 DEF Same, SameContent
<1> QED BY <1>1, <1>2, FaultSettles DEF Settled, Ready

\* What is done about a failed write starts with that world.
LEMMA FaultReady ==
  ASSUME NEW w, WorldOK(w), w.faults < MaxFaults
  PROVE  LET r == [w EXCEPT !.out = "ok"]
         IN Ready(r) /\ Like(r, w) /\ r.faults < MaxFaults
<1> DEFINE r == [w EXCEPT !.out = "ok"]
<1>1. WorldOK(r) /\ Like(r, w) /\ r.out = "ok" /\ r.faults = w.faults
  BY ReportIsOK
<1> HIDE DEF r
<1>2. Ready(r) /\ Like(r, w) /\ r.faults < MaxFaults
  BY <1>1, FaultSettles DEF Ready
<1> QED BY <1>2 DEF r

-----------------------------------------------------------------------------
(***************************************************************************)
(* Requests for access, and what is decided.                               *)
(***************************************************************************)

\* An approval with the next number is asked for.
LEMMA CreatedIsOK ==
  ASSUME NEW w, WorldOK(w), NEW a \in Activities, Len(w.asked) < MaxApprovals,
         NEW n, n = Len(w.asked) + 1, NEW r, r = Created(w, a, n)
  PROVE  /\ WorldOK(r) /\ r.disk = w.disk /\ r.out = w.out /\ r.faults = w.faults
         /\ r.asked = Append(w.asked, a) /\ r.uses = w.uses /\ r.held = w.held
         /\ r.svc.now.activity = w.svc.now.activity /\ r.svc.now.grants = w.svc.now.grants
<1> DEFINE o == (w.svc.now.open \ late) \cup {n}
           p == w.svc.now.pending \cup {n}
           c == [w.svc.now EXCEPT !.open = o, !.pending = p]
           v == [w EXCEPT !.asked = Append(@, a)]
<1>1. w \in WorldType /\ w.svc.now \in Checkpoints /\ w.asked \in Seq(Activities)
  BY WorldFields DEF WorldOK
<1>2. /\ n \in Nat /\ n \in Nonces /\ n \notin DOMAIN w.asked
      /\ DOMAIN Append(w.asked, a) = DOMAIN w.asked \cup {n}
      /\ Append(w.asked, a) \in Seq(Activities) /\ Len(Append(w.asked, a)) = n
  BY <1>1, BoundsType DEF Nonces
<1>3. o \in SUBSET Nat /\ p \in SUBSET Nat
  BY <1>1, <1>2 DEF Checkpoints
<1>4. w.svc.now.open \cup w.svc.now.grants \cup w.svc.now.pending \subseteq DOMAIN w.asked
  BY DEF WorldOK, MemoryOK, Unspent
<1>5. /\ v \in WorldType /\ v.svc = w.svc /\ v.disk = w.disk /\ v.covers = w.covers
      /\ v.asked = Append(w.asked, a) /\ v.uses = w.uses /\ v.held = w.held
      /\ v.faults = w.faults /\ v.out = w.out
  BY <1>1, <1>2 DEF WorldType
<1>6. r = Holding(v, c)
  BY <1>1 DEF WorldType, Services, Created, Holding
<1> HIDE DEF v, o, p
<1>7. /\ c \in Checkpoints /\ c.open = o /\ c.pending = p
      /\ c.grants = w.svc.now.grants /\ c.activity = w.svc.now.activity
      /\ c.paused = w.svc.now.paused
  BY <1>1, <1>3 DEF Checkpoints
<1> HIDE DEF c
<1>8. WorldOK(v)
  <2>1. SpentOnce(v)
    <3>1. n <= MaxApprovals
      BY <1>1, BoundsType
    <3> QED BY <1>2, <1>5, <3>1 DEF WorldOK, SpentOnce
  <2>2. MemoryOK(v) /\ DiskOK(v)
    BY <1>2, <1>5 DEF WorldOK, MemoryOK, DiskOK, Unspent, Traced
  <2>3. Numbered(v) /\ Holds(v)
    BY <1>5 DEF WorldOK, Numbered, Holds
  <2> QED BY <1>5, <2>1, <2>2, <2>3 DEF WorldOK
<1>9. Unspent(c, v)
  <2>1. w.uses[n] = 0
    BY <1>2 DEF WorldOK, SpentOnce
  <2>2. n \notin w.svc.now.grants
    BY <1>2, <1>4
  <2> QED BY <1>2, <1>4, <1>5, <1>7, <2>1, <2>2 DEF WorldOK, MemoryOK, Unspent, o, p
<1>10. v.held => c.paused
  BY <1>5, <1>7 DEF WorldOK, Holds
<1>11. WorldOK(r) /\ Kin(r, v) /\ r.svc.now = c
  BY <1>5, <1>6, <1>7, <1>8, <1>9, <1>10, ChangedIs
<1> QED BY <1>5, <1>7, <1>11 DEF Kin

\* A request that could not be saved is taken back.
LEMMA TakenBack ==
  ASSUME NEW w, WorldOK(w), NEW y, Ready(y), y.faults < MaxFaults, NEW a,
         y.asked = Append(w.asked, a), y.uses = w.uses,
         y.svc.now.grants = w.svc.now.grants,
         NEW z, z = Uncreated(y, w)
  PROVE  Ready(z)
<1> DEFINE c == [y.svc.now EXCEPT !.open = w.svc.now.open, !.pending = w.svc.now.pending]
<1>1. /\ y \in WorldType /\ y.svc.now \in Checkpoints /\ w.svc.now \in Checkpoints
      /\ w.asked \in Seq(Activities) /\ WorldOK(y) /\ y.out = "ok"
  BY WorldFields DEF WorldOK, Ready
<1>2. z = Holding(y, c)
  BY <1>1 DEF WorldType, Services, Uncreated, Holding
<1>3. /\ c \in Checkpoints /\ c.open = w.svc.now.open /\ c.pending = w.svc.now.pending
      /\ c.grants = w.svc.now.grants /\ c.activity = y.svc.now.activity
      /\ c.paused = y.svc.now.paused
  BY <1>1 DEF Checkpoints
<1> HIDE DEF c
<1>4. DOMAIN w.asked \subseteq DOMAIN y.asked
  BY <1>1
<1>5. Unspent(c, y)
  BY <1>3, <1>4 DEF WorldOK, MemoryOK, Unspent
<1>6. y.held => c.paused
  BY <1>1, <1>3 DEF WorldOK, Holds
<1>7. WorldOK(z) /\ Kin(z, y)
  BY <1>1, <1>2, <1>3, <1>5, <1>6, ChangedIs
<1> QED BY <1>1, <1>7, FaultSettles DEF Ready, Kin

LEMMA AskSettles ==
  ASSUME NEW w, Ready(w), NEW a \in Activities, Len(w.asked) < MaxApprovals,
         NEW r \in Ask(w, a)
  PROVE  Settled(r) /\ (r.out = "ok" => Ready(r) /\ r.asked = Append(w.asked, a))
<1> DEFINE n == Len(w.asked) + 1
           undo(v) == Sorry(Uncreated(v, w), a)
           recorded(v) == Record(Created(v, a, n), a, "awaiting", None)
           denied(v) == Record(v, a, "denied", None)
<1>1. {"awaiting", "denied"} \subseteq States
  BY DEF States, Terminal
<1>2. PICK v \in Audit(w, a) :
         IF v.out = "ok" THEN r \in Else(recorded(v), undo) \/ r \in Then(denied(v), Refuse)
         ELSE r = v
  BY DEF Ask, Then, Created, Uncreated
<1>3. /\ Settled(v) /\ Noted(v, w) /\ w \in WorldType /\ WorldOK(w)
      /\ v.out = "ok" => Ready(v) /\ a \in v.disk.written
  BY AuditSettles DEF Ready, WorldOK
<1>4. CASE v.out = "ok" /\ r \in Then(denied(v), Refuse)
  <2>1. PICK x \in denied(v) : IF x.out = "ok" THEN r \in Refuse(x) ELSE r = x
    BY <1>4 DEF Then
  <2>2. Settled(x) /\ (x.out = "ok" => Ready(x))
    BY <1>1, <1>3, <1>4, RecordSettles DEF Ready
  <2> QED BY <2>1, <2>2, RefuseSettles
<1>5. CASE v.out = "ok" /\ r \in Else(recorded(v), undo)
  <2>1. PICK x \in recorded(v) :
           IF x.out = "error" THEN r \in Sorry(Uncreated([x EXCEPT !.out = "ok"], w), a) ELSE r = x
    BY <1>5 DEF Else
  <2> DEFINE u == Created(v, a, n)
  <2>2. /\ WorldOK(u) /\ u.disk = v.disk /\ u.out = "ok" /\ u.asked = Append(w.asked, a)
        /\ u.uses = w.uses /\ u.held = w.held /\ u.svc.now.grants = w.svc.now.grants
    <3>1. /\ v.asked = w.asked /\ WorldOK(v) /\ v.out = "ok" /\ v.uses = w.uses
          /\ v.held = w.held /\ v.svc.now = w.svc.now
      BY <1>3, <1>5 DEF Ready, Noted
    <3>2. n = Len(v.asked) + 1 /\ Len(v.asked) < MaxApprovals
      BY <3>1
    <3>3. u = Created(v, a, n)
      OBVIOUS
    <3> HIDE DEF u, n
    <3> QED BY <3>1, <3>2, <3>3, CreatedIsOK
  <2>3. x \in Record(u, a, "awaiting", None)
    OBVIOUS
  <2> HIDE DEF u
  <2>4. /\ Settled(x) /\ x.asked = u.asked /\ x.uses = u.uses /\ x.held = u.held
        /\ x.out = "error" => x.faults < MaxFaults
        /\ x.out = "ok" => Ready(x)
        /\ SameRest(x.svc.now, u.svc.now)
    BY <1>1, <1>3, <1>5, <2>2, <2>3, RecordSettles
  <2>5. CASE x.out = "error"
    <3> DEFINE y == [x EXCEPT !.out = "ok"]
               z == Uncreated(y, w)
    <3>1. Ready(y) /\ Like(y, x) /\ y.faults < MaxFaults
      BY <2>4, <2>5, FaultReady DEF Settled
    <3>2. r \in Sorry(z, a)
      BY <2>1, <2>5
    <3> HIDE DEF y
    <3>3. y.asked = Append(w.asked, a) /\ y.uses = w.uses /\ y.svc.now.grants = w.svc.now.grants
      BY <2>2, <2>4, <3>1 DEF Like, SameRest
    <3>4. z = Uncreated(y, w)
      OBVIOUS
    <3> HIDE DEF z
    <3>5. Ready(z)
      BY <1>3, <3>1, <3>3, <3>4, TakenBack
    <3> QED BY <3>2, <3>5, SorrySettles
  <2> QED BY <2>1, <2>2, <2>4, <2>5
<1> QED BY <1>2, <1>3, <1>4, <1>5

\* The approval is bound to the content that was asked for.
LEMMA BindSettles ==
  ASSUME NEW w, Ready(w), NEW r \in Bind(w)
  PROVE  Settled(r)
<1> DEFINE n == Len(w.asked)
           bound(v, B) == [v EXCEPT !.svc.now.bound = B]
           u == bound(w, w.svc.now.bound \cup {n})
           undo(v) == Refuse(bound(v, v.svc.now.bound \ {n}))
<1>1. /\ WorldOK(w) /\ w.out = "ok" /\ w \in WorldType
      /\ w.svc.now \in Checkpoints /\ n \in Nat
  BY WorldFields DEF Ready, WorldOK
<1>2. ASSUME NEW v, WorldOK(v), NEW B \in SUBSET Nat, NEW z, z = bound(v, B)
      PROVE  WorldOK(z) /\ Kin(z, v)
  <2> DEFINE c == [v.svc.now EXCEPT !.bound = B]
  <2>1. v.svc.now \in Checkpoints
    BY <1>2, WorldFields DEF WorldOK
  <2>2. /\ c \in Checkpoints /\ c.open = v.svc.now.open /\ c.grants = v.svc.now.grants
        /\ c.pending = v.svc.now.pending /\ c.activity = v.svc.now.activity
        /\ c.paused = v.svc.now.paused
    BY <2>1 DEF Checkpoints
  <2>3. z = Holding(v, c)
    BY <1>2 DEF Holding
  <2> HIDE DEF c
  <2>4. Unspent(c, v) /\ (v.held => c.paused)
    BY <1>2, <2>2 DEF WorldOK, MemoryOK, Unspent, Holds
  <2> QED BY <1>2, <2>2, <2>3, <2>4, ChangedIs
<1>3. PICK v \in Persist(u) :
        IF v.out = "error" THEN r \in undo([v EXCEPT !.out = "ok"]) ELSE r = v
  BY DEF Bind, Else
<1>4. WorldOK(u) /\ u.out = "ok"
  <2>1. w.svc.now.bound \cup {n} \in SUBSET Nat
    BY <1>1 DEF Checkpoints
  <2>2. u = bound(w, w.svc.now.bound \cup {n})
    OBVIOUS
  <2> HIDE DEF n, u, bound
  <2>3. WorldOK(u) /\ Kin(u, w)
    BY <1>1, <1>2, <2>1, <2>2
  <2> QED BY <1>1, <2>3 DEF Kin
<1> HIDE DEF u
<1>5. /\ Settled(v)
      /\ v.out = "error" => v.faults < MaxFaults
  BY <1>3, <1>4, PersistSettles
<1>6. CASE v.out = "error"
  <2> DEFINE y == [v EXCEPT !.out = "ok"]
             z == bound(y, y.svc.now.bound \ {n})
  <2>1. Ready(y) /\ y.faults < MaxFaults
    BY <1>5, <1>6, FaultReady DEF Settled
  <2>2. r \in Refuse(z)
    BY <1>3, <1>6
  <2> HIDE DEF y
  <2>3. y.svc.now.bound \ {n} \in SUBSET Nat /\ WorldOK(y) /\ y.out = "ok"
    BY <2>1, WorldFields DEF Ready, WorldOK, Checkpoints
  <2>4. z = bound(y, y.svc.now.bound \ {n})
    OBVIOUS
  <2> HIDE DEF z, bound
  <2>5. WorldOK(z) /\ Kin(z, y)
    BY <1>2, <2>3, <2>4
  <2>6. Ready(z)
    BY <2>1, <2>3, <2>5, FaultSettles DEF Ready, Kin
  <2> QED BY <2>2, <2>6, RefuseSettles
<1> QED BY <1>3, <1>5, <1>6

LEMMA AskedSettles ==
  ASSUME NEW w, Ready(w), NEW a \in Activities, Len(w.asked) < MaxApprovals,
         NEW r \in Asked(w, a)
  PROVE  Settled(r)
<1>1. CASE r \in Refuse(w)
  BY <1>1, RefuseSettles
<1>2. CASE r \in Then(Ask(w, a), Bind)
  <2>1. PICK v \in Ask(w, a) : IF v.out = "ok" THEN r \in Bind(v) ELSE r = v
    BY <1>2 DEF Then
  <2> QED BY <2>1, AskSettles, BindSettles
<1>3. CASE r \in Ask(w, a)
  BY <1>3, AskSettles
<1> QED BY <1>1, <1>2, <1>3 DEF Asked

\* What was approved is done.
Counted(w, n) == [w EXCEPT !.uses[n] = @ + 1]

LEMMA CountedIsReady ==
  ASSUME NEW w, Ready(w), w.disk.ck = w.svc.now,
         NEW n \in Nonces, n \in DOMAIN w.asked, w.uses[n] = 0,
         n \notin w.svc.now.open \cup w.svc.now.grants, NEW r, r = Counted(w, n)
  PROVE  Ready(r) /\ r.asked = w.asked /\ r.svc = w.svc
<1> DEFINE U == [w.uses EXCEPT ![n] = @ + 1]
<1>1. WorldOK(w) /\ w \in WorldType
  BY DEF Ready, WorldOK
<1>2. U \in [Nonces -> Nat] /\ U[n] = 1 /\ \A k \in Nonces \ {n} : U[k] = w.uses[k]
  BY <1>1, WorldFields
<1>3. r = [w EXCEPT !.uses = U]
  BY DEF Counted
<1> HIDE DEF U
<1>4. /\ r \in WorldType /\ r.svc = w.svc /\ r.disk = w.disk /\ r.covers = w.covers
      /\ r.asked = w.asked /\ r.uses = U /\ r.held = w.held /\ r.out = w.out
      /\ r.faults = w.faults
  BY <1>1, <1>2, <1>3 DEF WorldType
<1>5. DOMAIN w.asked \subseteq Nonces
  <2>1. w.asked \in Seq(Activities) /\ Len(w.asked) <= MaxApprovals
    BY <1>1, WorldFields DEF WorldOK, SpentOnce
  <2> QED BY <2>1, BoundsType DEF Nonces
<1>6. SpentOnce(r)
  BY <1>1, <1>2, <1>4 DEF WorldOK, SpentOnce
<1>7. Unspent(r.svc.now, r)
  BY <1>1, <1>2, <1>4, <1>5 DEF WorldOK, MemoryOK, Unspent
<1>8. MemoryOK(r) /\ DiskOK(r)
  BY <1>1, <1>4, <1>7 DEF WorldOK, MemoryOK, DiskOK, Traced
<1>9. Numbered(r) /\ Holds(r) /\ None \notin r.svc.keys
  BY <1>1, <1>4 DEF WorldOK, Numbered, Holds
<1>10. WorldOK(r)
  BY <1>4, <1>6, <1>8, <1>9 DEF WorldOK
<1>11. Same(r) /\ r.out = "ok"
  BY <1>4 DEF Ready, Same
<1> QED BY <1>4, <1>10, <1>11 DEF Ready

\* The approval is marked as decided, and what it gives is given.
Spent(w, n, a, decision) ==
  [w EXCEPT !.svc.now.open = @ \ {n},
            !.svc.now.pending = @ \ {n},
            !.svc.now.grants = IF decision = "allow" /\ a \in AdminOps THEN @ \cup {n} ELSE @,
            !.svc.now.blocked = IF decision = "block" THEN @ \cup {a} ELSE @]

Granted(w, n, a, decision) ==
  IF decision = "allow" /\ a \in AdminOps THEN w.svc.now.grants \cup {n} ELSE w.svc.now.grants

LEMMA SpentIsOK ==
  ASSUME NEW w, Ready(w), NEW n \in w.svc.now.open, NEW a \in Activities,
         NEW decision \in Decisions, NEW r, r = Spent(w, n, a, decision)
  PROVE  /\ WorldOK(r) /\ Kin(r, w)
         /\ r.svc.now.open = w.svc.now.open \ {n}
         /\ r.svc.now.grants = Granted(w, n, a, decision)
         /\ r.svc.now.activity = w.svc.now.activity
         /\ r.svc.now.paused = w.svc.now.paused
<1> DEFINE o == w.svc.now.open \ {n}
           p == w.svc.now.pending \ {n}
           g == IF decision = "allow" /\ a \in AdminOps THEN w.svc.now.grants \cup {n}
                ELSE w.svc.now.grants
           b == IF decision = "block" THEN w.svc.now.blocked \cup {a} ELSE w.svc.now.blocked
           c == [w.svc.now EXCEPT !.open = o, !.pending = p, !.grants = g, !.blocked = b]
<1>1. WorldOK(w) /\ w \in WorldType /\ w.svc.now \in Checkpoints
  BY WorldFields DEF Ready, WorldOK
<1>2. o \in SUBSET Nat /\ p \in SUBSET Nat /\ g \in SUBSET Nat /\ b \in SUBSET Activities
  BY <1>1 DEF Checkpoints
<1>3. r = Holding(w, c)
  <2> DEFINE c1 == [w.svc.now EXCEPT !.open = o]
             c2 == [c1 EXCEPT !.pending = p]
             c3 == [c2 EXCEPT !.grants = g]
             w1 == [w EXCEPT !.svc.now.open = o]
             w2 == [w1 EXCEPT !.svc.now.pending = p]
             w3 == [w2 EXCEPT !.svc.now.grants = g]
  <2>1. r = [w3 EXCEPT !.svc.now.blocked = b]
    BY DEF Spent
  <2>2. w1 = Holding(w, c1)
    BY DEF Holding
  <2> HIDE DEF w1, c1
  <2>3. w2 = Holding(w, c2)
    <3>1. w1.svc.now = c1 /\ \A d : Holding(w1, d) = Holding(w, d)
      BY <1>1, <2>2, HoldingAgain
    <3> QED BY <3>1 DEF Holding
  <2> HIDE DEF w2, c2
  <2>4. w3 = Holding(w, c3)
    <3>1. w2.svc.now = c2 /\ \A d : Holding(w2, d) = Holding(w, d)
      BY <1>1, <2>3, HoldingAgain
    <3> QED BY <3>1 DEF Holding
  <2> HIDE DEF w3, c3
  <2>5. w3.svc.now = c3 /\ \A d : Holding(w3, d) = Holding(w, d)
    BY <1>1, <2>4, HoldingAgain
  <2>6. r = Holding(w, [c3 EXCEPT !.blocked = b])
    BY <2>1, <2>5 DEF Holding
  <2> QED BY <2>6 DEF c1, c2, c3
<1>4. Unspent(w.svc.now, w)
  BY <1>1 DEF WorldOK, MemoryOK
<1> HIDE DEF o, p, g, b
<1>5. /\ c \in Checkpoints /\ c.open = o /\ c.pending = p /\ c.grants = g
      /\ c.activity = w.svc.now.activity /\ c.paused = w.svc.now.paused
  BY <1>1, <1>2 DEF Checkpoints
<1> HIDE DEF c
<1>6. Unspent(c, w)
  BY <1>4, <1>5 DEF Unspent, o, p, g
<1>7. w.held => c.paused
  BY <1>1, <1>5 DEF WorldOK, Holds
<1>8. WorldOK(r) /\ Kin(r, w) /\ r.svc.now = c
  BY <1>1, <1>3, <1>5, <1>6, <1>7, ChangedIs
<1> QED BY <1>5, <1>8 DEF o, g, Granted

LEMMA SettleSettles ==
  ASSUME NEW w, Ready(w), NEW n \in w.svc.now.open, NEW a \in Activities,
         n \in Nonces, a \in w.disk.written, ~Denied(svc.now, a),
         NEW decision \in Decisions, NEW r \in Settle(w, n, a, decision)
  PROVE  Settled(r)
<1> DEFINE undone(v) == [v EXCEPT !.svc.now = w.svc.now]
           undo(v) == Sorry(undone(v), a)
           state == IF decision = "allow" THEN "queued" ELSE "denied"
           u == Spent(w, n, a, decision)
           counts == decision = "allow" /\ a \in Jobs
<1>1. /\ WorldOK(w) /\ w \in WorldType /\ w.out = "ok" /\ w.svc.now \in Checkpoints
      /\ Unspent(w.svc.now, w)
  BY WorldFields DEF Ready, WorldOK, MemoryOK
<1>2. PICK x \in Else(Record(u, a, state, None), undo) :
        IF x.out = "ok" THEN r = [x EXCEPT !.uses[n] = IF counts THEN @ + 1 ELSE @] ELSE r = x
  BY DEF Settle, Spent, Then
<1>3. PICK v \in Record(u, a, state, None) :
        IF v.out = "error" THEN x \in Sorry(undone([v EXCEPT !.out = "ok"]), a) ELSE x = v
  BY DEF Else
<1>4. u = Spent(w, n, a, decision)
  OBVIOUS
<1>5. state \in States /\ state \in {"queued", "denied"}
  BY DEF States, Terminal
<1> HIDE DEF u, state, counts
<1>6. /\ WorldOK(u) /\ Kin(u, w) /\ u.svc.now.open = w.svc.now.open \ {n}
      /\ u.svc.now.grants = Granted(w, n, a, decision)
      /\ u.svc.now.activity = w.svc.now.activity
      /\ u.svc.now.paused = w.svc.now.paused
  BY <1>4, SpentIsOK
<1>7. u.out = "ok" /\ a \in u.disk.written
  BY <1>1, <1>6 DEF Kin
<1>8. /\ Settled(v) /\ v.asked = w.asked /\ v.uses = w.uses /\ v.held = w.held
      /\ SameRest(v.svc.now, u.svc.now)
      /\ v.out = "ok" => Ready(v) /\ v.disk.ck = v.svc.now
      /\ v.out = "error" => v.faults < MaxFaults /\ v.svc.now = u.svc.now
  <2>1. /\ Settled(v) /\ v.asked = u.asked /\ v.uses = u.uses /\ v.held = u.held
        /\ SameRest(v.svc.now, u.svc.now)
        /\ v.out = "ok" => Ready(v) /\ v.disk.ck = v.svc.now
        /\ v.out = "error" => v.faults < MaxFaults /\ v.svc.now = u.svc.now
    BY <1>5, <1>6, <1>7, RecordSettles
  <2> QED BY <1>6, <2>1 DEF Kin
<1>9. CASE v.out = "ok" /\ counts
  <2>1. x = v /\ r = [v EXCEPT !.uses[n] = @ + 1]
    BY <1>2, <1>3, <1>9
  <2>2. r = Counted(v, n)
    BY <2>1 DEF Counted
  <2>3. n \notin v.svc.now.open \cup v.svc.now.grants
    <3>1. a \notin AdminOps
      BY <1>9, DashboardAssumption DEF counts
    <3> QED BY <1>1, <1>6, <1>8, <3>1 DEF SameRest, Unspent, Granted
  <2>4. n \in DOMAIN v.asked /\ v.uses[n] = 0
    BY <1>1, <1>8 DEF Unspent
  <2>5. Ready(r)
    BY <1>8, <1>9, <2>2, <2>3, <2>4, CountedIsReady
  <2> QED BY <2>5 DEF Ready, Settled
<1>10. CASE v.out = "ok" /\ ~counts
  <2>1. x = v /\ r = [v EXCEPT !.uses[n] = @]
    BY <1>2, <1>3, <1>10
  <2>2. v \in WorldType
    BY <1>8 DEF Settled, WorldOK
  <2>3. r = v
    BY <2>1, <2>2 DEF WorldType
  <2> QED BY <1>8, <2>3
<1>11. CASE v.out = "error"
  <2> DEFINE y == [v EXCEPT !.out = "ok"]
             z == undone(y)
  <2>1. Ready(y) /\ Like(y, v) /\ y.faults < MaxFaults
    BY <1>8, <1>11, FaultReady DEF Settled
  <2>2. x \in Sorry(z, a)
    BY <1>3, <1>11
  <2>3. z = Holding(y, w.svc.now)
    BY DEF Holding
  <2> HIDE DEF y, z
  <2>4. y.svc.now.activity = w.svc.now.activity /\ Unspent(w.svc.now, y)
    BY <1>1, <1>6, <1>8, <1>11, <2>1 DEF Like, Unspent
  <2>5. y.held => w.svc.now.paused
    BY <1>6, <1>8, <1>11, <2>1 DEF Ready, WorldOK, Holds, Like
  <2>6. WorldOK(z) /\ Kin(z, y)
    BY <1>1, <2>1, <2>3, <2>4, <2>5, ChangedIs DEF Ready
  <2>7. Ready(z)
    BY <2>1, <2>6, FaultSettles DEF Ready, Kin
  <2>8. Settled(x) /\ x.out # "ok"
    BY <2>2, <2>7, SorrySettles
  <2> QED BY <1>2, <2>8
<1>12. CASE v.out = "down"
  BY <1>2, <1>3, <1>8, <1>12
<1> QED BY <1>8, <1>9, <1>10, <1>11, <1>12, WorldFields DEF Settled, WorldOK

\* An approval whose minutes have passed is dropped, and its activity fails.
Dropped(w, n) == [w EXCEPT !.svc.now.pending = @ \ {n}]

LEMMA ExpiredIsReady ==
  ASSUME NEW w, Ready(w), NEW n \in late, NEW r, r = Dropped(w, n)
  PROVE  Ready(r)
<1> DEFINE c == [w.svc.now EXCEPT !.pending = @ \ {n}]
<1>1. WorldOK(w) /\ w \in WorldType /\ w.svc.now \in Checkpoints /\ w.out = "ok" /\ Same(w)
  BY WorldFields DEF Ready, WorldOK
<1>2. r = Holding(w, c)
  BY DEF Holding, Dropped
<1>3. /\ c \in Checkpoints /\ c.open = w.svc.now.open /\ c.grants = w.svc.now.grants
      /\ c.pending = w.svc.now.pending \ {n} /\ c.activity = w.svc.now.activity
      /\ c.paused = w.svc.now.paused /\ c.blocked = w.svc.now.blocked
      /\ c.rule = w.svc.now.rule
  BY <1>1 DEF Checkpoints
<1> HIDE DEF c
<1>4. Unspent(c, w) /\ (w.held => c.paused)
  BY <1>1, <1>3 DEF WorldOK, MemoryOK, Unspent, Holds
<1>5. WorldOK(r) /\ Kin(r, w) /\ r.svc.now = c
  BY <1>1, <1>2, <1>3, <1>4, ChangedIs
<1>6. SameContent(w.svc.now, w.disk.ck) => SameContent(c, w.disk.ck)
  BY <1>3 DEF SameContent
<1>7. Same(r)
  BY <1>1, <1>5, <1>6 DEF Same, Kin
<1> QED BY <1>1, <1>5, <1>7 DEF Ready, Kin

LEMMA DecidedSettles ==
  ASSUME NEW w, Ready(w), w.svc.now = svc.now, NEW n \in Nonces, n \in w.svc.now.pending,
         NEW decision \in Decisions, NEW r \in Decided(w, n, decision)
  PROVE  Settled(r)
<1> DEFINE a == w.asked[n]
           expire(v) == Then(Transition(Dropped(v, n), a, "failed"), Refuse)
<1>1. a \in Activities
  BY WorldFields DEF Ready, WorldOK, MemoryOK, Unspent
<1>2. CASE r \in Refuse(w)
  BY <1>2, RefuseSettles
<1>3. CASE r \in Sorry(w, a)
  BY <1>1, <1>3, SorrySettles
<1>4. ASSUME ~Denied(w.svc.now, a),
             NEW v \in Audit(w, a),
             IF v.out # "ok" THEN r = v
             ELSE IF n \notin v.svc.now.open THEN r \in Sorry(v, a)
             ELSE IF n \in late THEN r \in expire(v)
             ELSE r \in Settle(v, n, a, decision)
      PROVE  Settled(r)
  <2>1. /\ Settled(v) /\ Noted(v, w)
        /\ v.out = "ok" => Ready(v) /\ a \in v.disk.written
    BY <1>1, AuditSettles
  <2>2. CASE v.out = "ok" /\ n \notin v.svc.now.open
    BY <1>1, <1>4, <2>1, <2>2, SorrySettles
  <2>3. CASE v.out = "ok" /\ n \in late /\ r \in expire(v)
    <3> DEFINE x == Dropped(v, n)
    <3>1. Ready(x)
      BY <2>1, <2>3, ExpiredIsReady
    <3>2. PICK y \in Transition(x, a, "failed") : IF y.out = "ok" THEN r \in Refuse(y) ELSE r = y
      BY <2>3 DEF Then
    <3> HIDE DEF x, a
    <3>3. Works(y, x)
      BY <1>1, <3>1, TransitionWorks DEF Ready
    <3>4. Settled(y) /\ (y.out = "ok" => Ready(y))
      BY <3>1, <3>3, WorksSettles DEF Ready, Settled
    <3> QED BY <3>2, <3>4, RefuseSettles
  <2>4. CASE v.out = "ok" /\ n \in v.svc.now.open /\ r \in Settle(v, n, a, decision)
    <3>1. ~Denied(svc.now, a)
      BY <1>4
    <3> HIDE DEF a
    <3> QED BY <1>1, <2>1, <2>4, <3>1, SettleSettles
  <2> QED BY <1>4, <2>1, <2>2, <2>3, <2>4
<1>5. \/ r \in Refuse(w)
      \/ r \in Sorry(w, a)
      \/ /\ ~Denied(w.svc.now, a)
         /\ \E v \in Audit(w, a) :
              IF v.out # "ok" THEN r = v
              ELSE IF n \notin v.svc.now.open THEN r \in Sorry(v, a)
              ELSE IF n \in late THEN r \in expire(v)
              ELSE r \in Settle(v, n, a, decision)
  BY DEF Decided, Then, Dropped
<1> QED BY <1>2, <1>3, <1>4, <1>5

-----------------------------------------------------------------------------
(***************************************************************************)
(* Administrative operations: the grant is spent first.                    *)
(***************************************************************************)

Granting(w, G) == [w EXCEPT !.svc.now.grants = G]

LEMMA GrantingIs ==
  ASSUME NEW w, WorldOK(w), NEW G \in SUBSET DOMAIN w.asked,
         G \cap w.svc.now.open = {}, \A n \in G : w.uses[n] = 0, NEW r, r = Granting(w, G)
  PROVE  /\ WorldOK(r) /\ Kin(r, w) /\ r.svc.now.grants = G
         /\ r.svc.now.open = w.svc.now.open /\ r.svc.now.pending = w.svc.now.pending
         /\ r.svc.now.activity = w.svc.now.activity
         /\ r.svc.now.blocked = w.svc.now.blocked /\ r.svc.now.rule = w.svc.now.rule
<1> DEFINE c == [w.svc.now EXCEPT !.grants = G]
<1>1. w \in WorldType /\ w.svc.now \in Checkpoints /\ w.asked \in Seq(Activities)
  BY WorldFields DEF WorldOK
<1>2. r = Holding(w, c)
  BY DEF Holding, Granting
<1>3. G \in SUBSET Nat
  <2>1. DOMAIN w.asked \subseteq Nat
    BY <1>1
  <2> QED BY <2>1
<1>4. /\ c \in Checkpoints /\ c.open = w.svc.now.open /\ c.grants = G
      /\ c.pending = w.svc.now.pending /\ c.activity = w.svc.now.activity
      /\ c.paused = w.svc.now.paused /\ c.blocked = w.svc.now.blocked
      /\ c.rule = w.svc.now.rule
  BY <1>1, <1>3 DEF Checkpoints
<1> HIDE DEF c
<1>5. Unspent(c, w) /\ (w.held => c.paused)
  BY <1>4 DEF WorldOK, MemoryOK, Unspent, Holds
<1>6. WorldOK(r) /\ Kin(r, w) /\ r.svc.now = c
  BY <1>2, <1>4, <1>5, ChangedIs
<1> QED BY <1>4, <1>6

\* Grants whose minutes have passed are dropped.
LEMMA FreshIsReady ==
  ASSUME NEW w, Ready(w), NEW r, r = Granting(w, w.svc.now.grants \ stale)
  PROVE  /\ Ready(r) /\ r.svc.now.grants = w.svc.now.grants \ stale
         /\ r.asked = w.asked /\ r.uses = w.uses /\ r.svc.now.open = w.svc.now.open
<1> DEFINE G == w.svc.now.grants \ stale
<1>1. WorldOK(w) /\ w.out = "ok" /\ Same(w) /\ Unspent(w.svc.now, w)
  BY DEF Ready, WorldOK, MemoryOK
<1>2. G \in SUBSET DOMAIN w.asked /\ G \cap w.svc.now.open = {} /\ \A n \in G : w.uses[n] = 0
  BY <1>1 DEF Unspent
<1>3. r = Granting(w, G)
  OBVIOUS
<1> HIDE DEF G
<1>4. /\ WorldOK(r) /\ Kin(r, w) /\ r.svc.now.grants = G
      /\ r.svc.now.open = w.svc.now.open /\ r.svc.now.pending = w.svc.now.pending
      /\ r.svc.now.activity = w.svc.now.activity
      /\ r.svc.now.blocked = w.svc.now.blocked /\ r.svc.now.rule = w.svc.now.rule
  BY <1>1, <1>2, <1>3, GrantingIs
<1>5. SameContent(w.svc.now, w.disk.ck) => SameContent(r.svc.now, w.disk.ck)
  BY <1>4 DEF SameContent, G
<1>6. Same(r)
  BY <1>1, <1>4, <1>5 DEF Same, Kin
<1> QED BY <1>1, <1>4, <1>6 DEF Ready, Kin, G

\* A use of a grant: the checkpoint without it is written first.
LEMMA SpendSettles ==
  ASSUME NEW w, Ready(w), NEW n \in w.svc.now.grants, NEW r, NEW x,
         NEW v \in Persist(Granting(w, w.svc.now.grants \ {n})),
         IF v.out = "error"
         THEN x \in Refuse(Granting([v EXCEPT !.out = "ok"], w.svc.now.grants)) ELSE x = v,
         IF x.out = "ok" THEN r = Counted(x, n) ELSE r = x
  PROVE  Settled(r) /\ (r.out = "ok" => Ready(r))
<1> DEFINE G == w.svc.now.grants \ {n}
           u == Granting(w, G)
<1>1. WorldOK(w) /\ w.out = "ok" /\ Unspent(w.svc.now, w) /\ w \in WorldType
  BY DEF Ready, WorldOK, MemoryOK
<1>2. G \in SUBSET DOMAIN w.asked /\ G \cap w.svc.now.open = {} /\ \A k \in G : w.uses[k] = 0
  BY <1>1 DEF Unspent
<1>3. u = Granting(w, G) /\ v \in Persist(u)
  OBVIOUS
<1>4. n \notin G /\ n \notin w.svc.now.open /\ n \in DOMAIN w.asked /\ w.uses[n] = 0
  BY <1>1 DEF Unspent
<1> HIDE DEF u, G
<1>5. /\ WorldOK(u) /\ Kin(u, w) /\ u.svc.now.grants = G
      /\ u.svc.now.open = w.svc.now.open
  BY <1>1, <1>2, <1>3, GrantingIs
<1>6. /\ Settled(v)
      /\ v.svc = u.svc /\ v.asked = w.asked /\ v.uses = w.uses
      /\ v.out = "ok" => Ready(v) /\ v.disk.ck = u.svc.now
      /\ v.out = "error" => v.faults < MaxFaults
  BY <1>1, <1>3, <1>5, PersistSettles DEF Kin
<1>7. CASE v.out = "ok"
  <2>1. n \in Nonces
    <3>1. w.asked \in Seq(Activities) /\ Len(w.asked) <= MaxApprovals
      BY <1>1, WorldFields DEF WorldOK, SpentOnce
    <3> QED BY <1>4, <3>1, BoundsType DEF Nonces
  <2>2. /\ Ready(v) /\ v.disk.ck = v.svc.now /\ n \in DOMAIN v.asked /\ v.uses[n] = 0
        /\ n \notin v.svc.now.open \cup v.svc.now.grants
    BY <1>4, <1>5, <1>6, <1>7
  <2>3. Ready(r)
    BY <1>7, <2>1, <2>2, CountedIsReady
  <2> QED BY <2>3 DEF Ready, Settled
<1>8. CASE v.out = "error"
  <2> DEFINE y == [v EXCEPT !.out = "ok"]
             z == Granting(y, w.svc.now.grants)
  <2>1. Ready(y) /\ Like(y, v) /\ y.faults < MaxFaults
    BY <1>6, <1>8, FaultReady DEF Settled
  <2>2. x \in Refuse(z) /\ z = Granting(y, w.svc.now.grants)
    BY <1>8
  <2> HIDE DEF y, z
  <2>3. /\ w.svc.now.grants \in SUBSET DOMAIN y.asked
        /\ w.svc.now.grants \cap y.svc.now.open = {}
        /\ \A k \in w.svc.now.grants : y.uses[k] = 0
    BY <1>1, <1>5, <1>6, <2>1 DEF Unspent, Like
  <2>4. WorldOK(z) /\ Kin(z, y)
    BY <2>1, <2>2, <2>3, GrantingIs DEF Ready
  <2>5. Ready(z)
    BY <2>1, <2>4, FaultSettles DEF Ready, Kin
  <2> QED BY <2>2, <2>5, RefuseSettles
<1>9. CASE v.out = "down"
  BY <1>6, <1>9
<1> QED BY <1>6, <1>7, <1>8, <1>9, WorldFields DEF Settled, WorldOK

LEMMA AuthorizedSettles ==
  ASSUME NEW w, Ready(w), NEW op, NEW r \in Authorized(w, op)
  PROVE  Settled(r) /\ (r.out = "ok" => Ready(r))
<1> DEFINE fresh == Granting(w, w.svc.now.grants \ stale)
           G == fresh.svc.now.grants
<1>1. CASE r \in Sorry(w, None)
  BY <1>1, SorrySettles
<1>2. CASE r = w
  BY <1>2 DEF Ready, Settled
<1>3. CASE r \in Refuse(fresh)
  BY <1>3, FreshIsReady, RefuseSettles
<1>4. ASSUME NEW n \in G, r \in Then(Else(Persist(Granting(fresh, G \ {n})),
                                          LAMBDA v : Refuse(Granting(v, G))),
                                     LAMBDA v : {Counted(v, n)})
      PROVE  Settled(r) /\ (r.out = "ok" => Ready(r))
  <2>1. Ready(fresh)
    BY FreshIsReady
  <2>2. \E v \in Persist(Granting(fresh, G \ {n})) : \E x :
          /\ IF v.out = "error" THEN x \in Refuse(Granting([v EXCEPT !.out = "ok"], G))
             ELSE x = v
          /\ IF x.out = "ok" THEN r = Counted(x, n) ELSE r = x
    <3>1. PICK x \in Else(Persist(Granting(fresh, G \ {n})), LAMBDA v : Refuse(Granting(v, G))) :
            IF x.out = "ok" THEN r = Counted(x, n) ELSE r = x
      BY <1>4 DEF Then
    <3> QED BY <3>1 DEF Else
  <2> HIDE DEF fresh
  <2> QED BY <1>4, <2>1, <2>2, SpendSettles
<1>5. \/ r \in Sorry(w, None) \/ r = w \/ r \in Refuse(fresh)
      \/ \E n \in G : r \in Then(Else(Persist(Granting(fresh, G \ {n})),
                                      LAMBDA v : Refuse(Granting(v, G))),
                                 LAMBDA v : {Counted(v, n)})
  BY DEF Authorized, Granting, Counted
<1> QED BY <1>1, <1>2, <1>3, <1>4, <1>5

LEMMA CancellationSettles ==
  ASSUME NEW w, Ready(w), NEW a \in Activities, NEW op,
         NEW r \in Then(Authorized(w, op), LAMBDA v : Cancelled(v, a))
  PROVE  Settled(r)
<1>1. PICK v \in Authorized(w, op) : IF v.out = "ok" THEN r \in Cancelled(v, a) ELSE r = v
  BY DEF Then
<1>2. Settled(v) /\ (v.out = "ok" => Ready(v))
  BY AuthorizedSettles
<1>3. CASE v.out = "ok"
  <2>1. Works(r, v)
    BY <1>1, <1>2, <1>3, CancelledWorks DEF Ready
  <2> QED BY <1>2, <1>3, <2>1, WorksSettles DEF Ready
<1> QED BY <1>1, <1>2, <1>3

\* An error can be answered: whatever was written stays as it is.
LEMMA ErrorReady ==
  ASSUME NEW w, Settled(w), w.out = "error"
  PROVE  LET r == [w EXCEPT !.out = "ok"] IN Ready(r) /\ Like(r, w)
<1> DEFINE r == [w EXCEPT !.out = "ok"]
<1>1. WorldOK(r) /\ Like(r, w) /\ r.out = "ok" /\ r.faults = w.faults
  BY ReportIsOK DEF Settled
<1> HIDE DEF r
<1>2. Ready(r) /\ Like(r, w)
  BY <1>1 DEF Settled, Ready, Same, Like
<1> QED BY <1>2 DEF r

\* The service lets requests in or not, and a pause is acknowledged or not.
Pausing(w, p, h) == [w EXCEPT !.svc.now.paused = p, !.held = h]

LEMMA PausingIsReady ==
  ASSUME NEW w, Ready(w), NEW p \in BOOLEAN, NEW h \in BOOLEAN,
         h => p /\ w.disk.ck # None /\ w.disk.ck.paused, NEW r, r = Pausing(w, p, h)
  PROVE  Ready(r) /\ r.svc.now.paused = p /\ r.held = h
<1> DEFINE c == [w.svc.now EXCEPT !.paused = p]
           v == [w EXCEPT !.held = h]
<1>1. /\ w \in WorldType /\ w.svc.now \in Checkpoints /\ WorldOK(w) /\ w.out = "ok"
      /\ Same(w)
  BY WorldFields DEF WorldOK, Ready
<1>2. r = [w EXCEPT !.held = h, !.svc.now = c]
  BY <1>1 DEF WorldType, Pausing
<1>3. /\ c \in Checkpoints /\ c.open = w.svc.now.open /\ c.grants = w.svc.now.grants
      /\ c.pending = w.svc.now.pending /\ c.activity = w.svc.now.activity
      /\ c.paused = p /\ c.blocked = w.svc.now.blocked /\ c.rule = w.svc.now.rule
  BY <1>1 DEF Checkpoints
<1>4. /\ v \in WorldType /\ v.svc = w.svc /\ v.disk = w.disk /\ v.covers = w.covers
      /\ v.asked = w.asked /\ v.uses = w.uses /\ v.held = h /\ v.faults = w.faults
      /\ v.out = w.out
  BY <1>1 DEF WorldType
<1>5. r = [v EXCEPT !.svc.now = c]
  BY <1>1, <1>2, <1>4
<1> HIDE DEF c, v
<1>6. /\ r \in WorldType /\ r.svc.now = c /\ r.disk = v.disk /\ r.covers = v.covers
      /\ r.asked = v.asked /\ r.uses = v.uses /\ r.held = v.held
      /\ r.faults = v.faults /\ r.out = v.out
      /\ r.svc.next = v.svc.next /\ r.svc.keys = v.svc.keys
  <2> DEFINE q == [v EXCEPT !.svc.now = c]
  <2>1. /\ q \in WorldType /\ q.svc.now = c /\ q.disk = v.disk /\ q.covers = v.covers
        /\ q.asked = v.asked /\ q.uses = v.uses /\ q.held = v.held
        /\ q.faults = v.faults /\ q.out = v.out
        /\ q.svc.next = v.svc.next /\ q.svc.keys = v.svc.keys
    BY <1>3, <1>4, WithNow
  <2>2. r = q
    BY <1>5
  <2> HIDE DEF q
  <2> QED BY <2>1, <2>2
<1>7. Holds(r)
  BY <1>3, <1>4, <1>6 DEF Holds
<1>8. MemoryOK(r) /\ DiskOK(r)
  BY <1>1, <1>3, <1>4, <1>6
     DEF WorldOK, MemoryOK, DiskOK, Unspent, Traced, Undenied
<1>9. Numbered(r) /\ SpentOnce(r) /\ None \notin r.svc.keys
  BY <1>1, <1>4, <1>6 DEF WorldOK, Numbered, SpentOnce
<1>10. Same(r)
  BY <1>1, <1>3, <1>4, <1>6 DEF Same, SameContent
<1> QED BY <1>1, <1>3, <1>4, <1>6, <1>7, <1>8, <1>9, <1>10 DEF WorldOK, Ready

\* A pause or its end that fails is taken back.
LEMMA PausingFails ==
  ASSUME NEW w, Settled(w), w.out = "error", NEW p \in BOOLEAN, NEW h \in BOOLEAN,
         h => p /\ w.held,
         NEW r \in Sorry(Pausing([w EXCEPT !.out = "ok"], p, h), None)
  PROVE  Settled(r) /\ r.out # "ok"
<1> DEFINE y == [w EXCEPT !.out = "ok"]
           z == Pausing(y, p, h)
<1>1. Ready(y) /\ Like(y, w)
  BY ErrorReady
<1>2. r \in Sorry(z, None) /\ z = Pausing(y, p, h)
  OBVIOUS
<1> HIDE DEF y, z
<1>3. h => y.disk.ck # None /\ y.disk.ck.paused
  BY <1>1 DEF Ready, WorldOK, Holds, Like
<1>4. Ready(z)
  BY <1>1, <1>2, <1>3, PausingIsReady
<1> QED BY <1>2, <1>4, SorrySettles

\* A pause is acknowledged when it is on disk.
LEMMA PausedSettles ==
  ASSUME NEW w, Ready(w), NEW order \in Seq(Activities), NEW r \in Paused(w, order)
  PROVE  Settled(r)
<1> DEFINE closing(v) == [v EXCEPT !.svc.now.paused = TRUE]
           each(v) == Each(closing(v), order, Cancelled)
           reopened(v) == [v EXCEPT !.svc.now.paused = FALSE, !.held = FALSE]
           undo(v) == Sorry(reopened(v), None)
<1>1. PICK v \in Audit(w, None) :
        IF v.out = "ok" THEN r \in Then(Else(Then(each(v), Local), undo),
                                        LAMBDA x : {[x EXCEPT !.held = TRUE]})
        ELSE r = v
  BY DEF Paused, Then
<1>2. Settled(v) /\ (v.out = "ok" => Ready(v))
  BY AuditSettles
<1>3. CASE v.out = "ok"
  <2>1. PICK x \in Else(Then(each(v), Local), undo) :
           IF x.out = "ok" THEN r = [x EXCEPT !.held = TRUE] ELSE r = x
    BY <1>1, <1>3 DEF Then
  <2>2. PICK s \in Then(each(v), Local) :
           IF s.out = "error" THEN x \in Sorry(reopened([s EXCEPT !.out = "ok"]), None)
           ELSE x = s
    BY <2>1 DEF Else
  <2>3. PICK e \in each(v) : IF e.out = "ok" THEN s \in Persist(e) ELSE s = e
    BY <2>2 DEF Then, Local
  <2> DEFINE u == closing(v)
  <2>4. Ready(u) /\ u.svc.now.paused = TRUE
    <3>1. v \in WorldType /\ v.held \in BOOLEAN
      BY <1>2, <1>3, WorldFields DEF Ready, WorldOK
    <3>2. u = Pausing(v, TRUE, v.held)
      BY <3>1 DEF Pausing, WorldType, Services
    <3>3. v.held => v.disk.ck # None /\ v.disk.ck.paused
      BY <1>2, <1>3 DEF Ready, WorldOK, Holds
    <3> HIDE DEF u
    <3> QED BY <1>2, <1>3, <3>1, <3>2, <3>3, PausingIsReady
  <2>5. e \in Each(u, order, Cancelled)
    BY <2>3
  <2> HIDE DEF u, each
  <2>6. Works(e, u) /\ Settled(e) /\ e.svc.now.paused = TRUE
    <3>1. Works(e, u)
      BY <2>4, <2>5, EachCancelledWorks DEF Ready
    <3> QED BY <2>4, <3>1, WorksSettles DEF Ready, Works, SameRest
  <2>7. /\ Settled(s)
        /\ s.out = "ok" => Ready(s) /\ s.disk.ck = s.svc.now /\ s.svc.now.paused = TRUE
    <3>1. CASE e.out = "ok"
      BY <2>3, <2>6, <3>1, PersistSettles DEF Settled
    <3>2. CASE e.out # "ok"
      BY <2>3, <2>6, <3>2
    <3> QED BY <3>1, <3>2
  <2>8. CASE s.out = "error"
    <3>1. x \in Sorry(Pausing([s EXCEPT !.out = "ok"], FALSE, FALSE), None)
      BY <2>2, <2>8 DEF Pausing
    <3>2. Settled(x) /\ x.out # "ok"
      BY <2>7, <2>8, <3>1, PausingFails
    <3> QED BY <2>1, <3>2
  <2>9. CASE s.out = "ok"
    <3>1. r = [s EXCEPT !.held = TRUE]
      BY <2>1, <2>2, <2>9
    <3>2. s \in WorldType /\ s.svc.now \in Checkpoints
      BY <2>7, <2>9, WorldFields DEF Ready, WorldOK
    <3>3. r = Pausing(s, TRUE, TRUE)
      <4>1. [s EXCEPT !.svc.now.paused = TRUE] = s
        BY <2>7, <2>9, <3>2 DEF WorldType, Services, Checkpoints
      <4> QED BY <3>1, <4>1 DEF Pausing
    <3>4. s.disk.ck # None /\ s.disk.ck.paused
      BY <2>7, <2>9, <3>2, DashboardAssumption
    <3>5. Ready(r)
      BY <2>7, <2>9, <3>3, <3>4, PausingIsReady
    <3> QED BY <3>5 DEF Ready, Settled
  <2>10. CASE s.out = "down"
    BY <2>1, <2>2, <2>7, <2>10
  <2> QED BY <2>7, <2>8, <2>9, <2>10, WorldFields DEF Settled, WorldOK
<1> QED BY <1>1, <1>2, <1>3

LEMMA ResumedSettles ==
  ASSUME NEW w, Ready(w), NEW r \in Resumed(w)
  PROVE  Settled(r)
<1> DEFINE opened(v) == [v EXCEPT !.svc.now.paused = FALSE, !.held = FALSE]
           closed(v) == [v EXCEPT !.svc.now.paused = TRUE]
           undo(v) == Sorry(closed(v), None)
<1>1. PICK v \in Audit(w, None) :
        IF v.out = "ok" THEN r \in Else(Persist(opened(v)), undo) ELSE r = v
  BY DEF Resumed, Then, Local
<1>2. Settled(v) /\ (v.out = "ok" => Ready(v))
  BY AuditSettles
<1>3. CASE v.out = "ok"
  <2>1. PICK s \in Persist(opened(v)) :
           IF s.out = "error" THEN r \in Sorry(closed([s EXCEPT !.out = "ok"]), None)
           ELSE r = s
    BY <1>1, <1>3 DEF Else
  <2> DEFINE u == opened(v)
  <2>2. u = Pausing(v, FALSE, FALSE) /\ s \in Persist(u)
    BY DEF Pausing
  <2> HIDE DEF u
  <2>3. Ready(u)
    BY <1>2, <1>3, <2>2, PausingIsReady
  <2>4. Settled(s)
    BY <2>2, <2>3, PersistSettles DEF Ready
  <2>5. CASE s.out = "error"
    <3> DEFINE y == [s EXCEPT !.out = "ok"]
    <3>1. Ready(y) /\ Like(y, s)
      BY <2>4, <2>5, ErrorReady
    <3>2. y \in WorldType /\ y.held \in BOOLEAN /\ y.held = s.held
      BY <3>1, WorldFields DEF Ready, WorldOK, Like
    <3>3. r \in Sorry(closed(y), None)
      BY <2>1, <2>5
    <3> HIDE DEF y
    <3>4. closed(y) = Pausing(y, TRUE, y.held)
      BY <3>2 DEF Pausing, WorldType, Services
    <3> HIDE DEF closed
    <3>5. r \in Sorry(Pausing([s EXCEPT !.out = "ok"], TRUE, s.held), None)
      BY <3>2, <3>3, <3>4 DEF y
    <3> QED BY <2>4, <2>5, <3>2, <3>5, PausingFails
  <2> QED BY <2>1, <2>4, <2>5
<1> QED BY <1>1, <1>2, <1>3

\* A policy rule is put or dropped.
Ruling(w, x) == [w EXCEPT !.svc.now.rule = x]

LEMMA RulingIsOK ==
  ASSUME NEW w, WorldOK(w), NEW x \in BOOLEAN, NEW r, r = Ruling(w, x)
  PROVE  WorldOK(r) /\ Kin(r, w)
<1> DEFINE c == [w.svc.now EXCEPT !.rule = x]
<1>1. w \in WorldType /\ w.svc.now \in Checkpoints
  BY WorldFields DEF WorldOK
<1>2. r = Holding(w, c)
  BY DEF Holding, Ruling
<1>3. /\ c \in Checkpoints /\ c.open = w.svc.now.open /\ c.grants = w.svc.now.grants
      /\ c.pending = w.svc.now.pending /\ c.activity = w.svc.now.activity
      /\ c.paused = w.svc.now.paused
  BY <1>1 DEF Checkpoints
<1> HIDE DEF c
<1>4. Unspent(c, w) /\ (w.held => c.paused)
  BY <1>3 DEF WorldOK, MemoryOK, Unspent, Holds
<1> QED BY <1>2, <1>3, <1>4, ChangedIs

LEMMA RuledSettles ==
  ASSUME NEW w, Ready(w), NEW on \in BOOLEAN, NEW r \in Ruled(w, on)
  PROVE  Settled(r)
<1> DEFINE undo(v) == Sorry(Ruling(v, w.svc.now.rule), None)
<1>1. CASE r \in Refuse(w)
  BY <1>1, RefuseSettles
<1>2. CASE r \in Then(Audit(w, None), LAMBDA v : Else(Persist(Ruling(v, on)), undo))
  <2>1. PICK v \in Audit(w, None) :
          IF v.out = "ok" THEN r \in Else(Persist(Ruling(v, on)), undo) ELSE r = v
    BY <1>2 DEF Then
  <2>2. Settled(v) /\ (v.out = "ok" => Ready(v))
    BY AuditSettles
  <2>3. CASE v.out = "ok"
    <3>1. PICK s \in Persist(Ruling(v, on)) :
             IF s.out = "error" THEN r \in undo([s EXCEPT !.out = "ok"]) ELSE r = s
      BY <2>1, <2>3 DEF Else
    <3> DEFINE u == Ruling(v, on)
    <3>2. WorldOK(u) /\ u.out = "ok" /\ s \in Persist(u)
      <4>1. u = Ruling(v, on) /\ s \in Persist(u)
        OBVIOUS
      <4> HIDE DEF u
      <4>2. WorldOK(u) /\ Kin(u, v)
        BY <2>2, <2>3, <4>1, RulingIsOK DEF Ready
      <4> QED BY <2>3, <4>1, <4>2 DEF Kin
    <3> HIDE DEF u
    <3>3. Settled(s) /\ (s.out = "error" => s.faults < MaxFaults)
      BY <3>2, PersistSettles
    <3>4. CASE s.out = "error"
      <4> DEFINE y == [s EXCEPT !.out = "ok"]
                 z == Ruling(y, w.svc.now.rule)
      <4>1. Ready(y) /\ y.faults < MaxFaults
        BY <3>3, <3>4, FaultReady DEF Settled
      <4>2. r \in Sorry(z, None) /\ z = Ruling(y, w.svc.now.rule)
        BY <3>1, <3>4
      <4>3. w.svc.now.rule \in BOOLEAN
        BY WorldFields DEF Ready, WorldOK, Checkpoints
      <4> HIDE DEF y, z
      <4>4. WorldOK(z) /\ Kin(z, y)
        BY <4>1, <4>2, <4>3, RulingIsOK DEF Ready
      <4>5. Ready(z)
        BY <4>1, <4>4, FaultSettles DEF Ready, Kin
      <4> QED BY <4>2, <4>5, SorrySettles
    <3> QED BY <3>1, <3>3, <3>4
  <2> QED BY <2>1, <2>2, <2>3
<1> QED BY <1>1, <1>2 DEF Ruled, Local, Ruling

\* Audit records are deleted, and the deletion is recorded.
LEMMA ErasedSettles ==
  ASSUME NEW w, Ready(w), NEW r \in Erased(w)
  PROVE  Settled(r)
<1> DEFINE d == [w.disk EXCEPT !.last = @ + 1]
           done == [w EXCEPT !.disk.last = @ + 1]
<1>1. w \in WorldType /\ WorldOK(w) /\ w.disk \in Disks /\ w.disk.last \in Nat /\ Same(w)
  BY WorldFields DEF Ready, WorldOK
<1>2. r \in Refuse(w) \/ r = w \/ r \in Written(w, done)
  BY DEF Erased
<1>3. done = [w EXCEPT !.disk = d]
  OBVIOUS
<1>4. d \in Disks /\ d.ck = w.disk.ck /\ d.last = w.disk.last + 1 /\ d.written = w.disk.written
  BY <1>1 DEF Disks
<1> HIDE DEF d, done
<1>5. /\ done \in WorldType /\ done.svc = w.svc /\ done.disk = d /\ done.covers = w.covers
      /\ done.asked = w.asked /\ done.uses = w.uses /\ done.held = w.held
      /\ done.faults = w.faults /\ done.out = w.out
  BY <1>1, <1>3, <1>4, WithDisk
<1>6. Numbered(done)
  <2>1. w.covers \in Nat /\ w.svc.next \in Nat
    BY <1>1, WorldFields
  <2> QED BY <1>1, <1>4, <1>5, <2>1 DEF WorldOK, Numbered
<1>7. WorldOK(done)
  <2>1. Noted(done, w) /\ done.svc.keys = w.svc.keys
    BY <1>4, <1>5 DEF Noted
  <2> QED BY <1>1, <1>5, <1>6, <2>1, NotedIsOK
<1>8. Same(done)
  BY <1>1, <1>4, <1>5 DEF Same
<1>9. CASE r \in Written(w, done)
  <2>1. /\ r \in WorldType
        /\ \/ r = done
           \/ Like(r, w) /\ r.out = "down"
           \/ Like(r, done) /\ r.out = "down"
           \/ Like(r, w) /\ r.out = "error" /\ r.faults < MaxFaults
           \/ Like(r, done) /\ r.out = "error" /\ r.faults < MaxFaults
    BY <1>1, <1>5, <1>9, WrittenIs
  <2>2. WorldOK(r)
    BY <1>1, <1>7, <2>1, LikeIsOK
  <2> QED BY <1>8, <2>1, <2>2, FaultSettles DEF Settled
<1> QED BY <1>2, <1>9, RefuseSettles DEF Ready, Settled

-----------------------------------------------------------------------------
(***************************************************************************)
(* The inductive invariant of the daemon, and its steps.                   *)
(***************************************************************************)

\* The state is that of a world, or the service is down.
StateType ==
  /\ svc \in Services \cup {Down}
  /\ disk \in Disks /\ asked \in Seq(Activities) /\ uses \in [Nonces -> Nat]
  /\ held \in BOOLEAN /\ faults \in 0 .. MaxFaults /\ crashes \in Nat

\* What is on disk serves the next daemon, and what is in memory this one.
FilesOK ==
  /\ disk.ck # None => Unspent(disk.ck, World)
  /\ held => disk.ck # None /\ disk.ck.paused
  /\ SpentOnce(World)

LifeOK ==
  svc.up =>
    /\ svc.next <= disk.last + 1 /\ None \notin svc.keys
    /\ Unspent(svc.now, World)
    /\ held => svc.now.paused
    /\ Same(World)

DashInv == StateType /\ FilesOK /\ LifeOK

LEMMA FreshIs ==
  /\ Fresh \in Checkpoints /\ Fresh.activity \in [Activities -> [state : States, odd : BOOLEAN]]
  /\ Fresh.open = {} /\ Fresh.grants = {} /\ Fresh.pending = {}
  /\ Fresh.blocked = {} /\ Fresh.rule = FALSE
<1>1. [state |-> "none", odd |-> FALSE] \in [state : States, odd : BOOLEAN]
  BY DEF States
<1> QED BY <1>1 DEF Fresh, Checkpoints

LEMMA DownIs == ~Down.up /\ Down.now = Fresh
BY DEF Down, Service

LEMMA ServiceIs ==
  ASSUME NEW c \in Checkpoints, NEW last \in Nat
  PROVE  LET s == Service(c, last)
         IN s \in Services /\ s.now = c /\ s.next = last + 1 /\ s.keys = {}
BY DEF Service, Services

\* The world that a handler starts with.
LEMMA WorldIs ==
  ASSUME StateType
  PROVE  /\ World.svc = svc /\ World.disk = [disk EXCEPT !.written = {}]
         /\ World.disk \in Disks /\ World.disk.ck = disk.ck /\ World.disk.last = disk.last
         /\ World.covers = 0 /\ World.asked = asked /\ World.uses = uses
         /\ World.held = held /\ World.faults = faults /\ World.crashes = crashes
         /\ World.troubles \in Int /\ World.out = "ok"
<1>1. Troubles \in Int
  BY BoundsType DEF StateType, Troubles
<1>2. /\ [disk EXCEPT !.written = {}] \in Disks
      /\ [disk EXCEPT !.written = {}].ck = disk.ck
      /\ [disk EXCEPT !.written = {}].last = disk.last
  BY DEF StateType, Disks
<1> QED BY <1>1, <1>2 DEF World

LEMMA WorldIsReady ==
  ASSUME DashInv, svc.up
  PROVE  Ready(World) /\ World.svc = svc
<1>1. svc \in Services /\ svc.next \in Nat \ {0} /\ disk.last \in Nat
  BY DownIs DEF DashInv, StateType, Services, Disks
<1>2. /\ World.svc = svc
      /\ World.disk \in Disks /\ World.disk.ck = disk.ck /\ World.disk.last = disk.last
      /\ World.covers = 0 /\ World.asked = asked /\ World.uses = uses
      /\ World.held = held /\ World.faults = faults /\ World.crashes = crashes
      /\ World.troubles \in Int /\ World.out = "ok"
  BY WorldIs DEF DashInv
<1>3. World \in WorldType
  BY <1>1, <1>2 DEF DashInv, StateType, WorldType, World
<1>4. Numbered(World)
  BY <1>1, <1>2 DEF Numbered, DashInv, LifeOK
<1>5. MemoryOK(World)
  BY <1>1, <1>2 DEF MemoryOK, Traced, Undenied, DashInv, LifeOK
<1>6. DiskOK(World) /\ Holds(World) /\ SpentOnce(World) /\ None \notin World.svc.keys
  BY <1>2 DEF DiskOK, Holds, DashInv, LifeOK, FilesOK
<1> QED BY <1>2, <1>3, <1>4, <1>5, <1>6 DEF Ready, WorldOK, DashInv, LifeOK

\* A step into a world that a handler may end in.
StepOK ==
  /\ DashInv'
  /\ disk'.ck # disk.ck => disk'.ck # None /\ Traced(disk'.ck, [disk |-> disk'])
  /\ svc'.up => Undenied(svc'.now)

\* What the state keeps of a world.
Intact(w) ==
  /\ w \in WorldType /\ Numbered(w) /\ SpentOnce(w) /\ Holds(w)
  /\ Unspent(w.svc.now, w)
  /\ w.disk.ck # None => Unspent(w.disk.ck, w)
  /\ None \notin w.svc.keys

LEMMA BecomeIsSound ==
  ASSUME NEW r, Intact(r), r.out = "down" \/ Same(r), Become(r), UNCHANGED <<late, stale>>
  PROVE  /\ DashInv'
         /\ disk'.ck = r.disk.ck /\ disk'.written = r.disk.written
         /\ svc'.up => svc'.now = r.svc.now
<1>1. /\ r \in WorldType /\ r.svc \in Services /\ r.disk \in Disks
      /\ r.svc.next \in Nat /\ r.disk.last \in Nat /\ r.covers \in Nat
      /\ r.covers < r.svc.next /\ r.covers <= r.disk.last /\ r.svc.next <= r.disk.last + 1
  BY WorldFields DEF Intact, Numbered
<1> DEFINE s == [r.svc EXCEPT !.next = @ - r.covers]
           d == [r.disk EXCEPT !.last = @ - r.covers]
<1>2. r.svc.next - r.covers \in Nat \ {0} /\ r.disk.last - r.covers \in Nat
      /\ r.svc.next - r.covers <= (r.disk.last - r.covers) + 1
  BY <1>1
<1>3. /\ s \in Services /\ s.now = r.svc.now /\ s.keys = r.svc.keys
      /\ s.next = r.svc.next - r.covers /\ s.up
  BY <1>1, <1>2 DEF Services
<1>4. /\ d \in Disks /\ d.ck = r.disk.ck /\ d.written = r.disk.written
      /\ d.last = r.disk.last - r.covers
  BY <1>1, <1>2 DEF Disks
<1>5. /\ svc' = IF r.out = "down" THEN Down ELSE s
      /\ disk' = d
      /\ asked' = r.asked /\ uses' = r.uses
      /\ held' = r.held /\ faults' = r.faults /\ crashes' = r.crashes
      /\ late' = late /\ stale' = stale
  BY DEF Become
<1> HIDE DEF s, d
<1>6. StateType'
  BY <1>1, <1>3, <1>4, <1>5, WorldFields DEF StateType
<1>7. /\ World'.svc = svc' /\ World'.disk.ck = disk'.ck
      /\ World'.asked = asked' /\ World'.uses = uses' /\ World'.faults = faults'
  BY <1>4, <1>5 DEF World, Disks
<1>8. FilesOK'
  BY <1>1, <1>4, <1>5, <1>7 DEF FilesOK, Intact, Holds, SpentOnce, Unspent
<1>9. LifeOK'
  <2>1. CASE r.out = "down"
    BY <1>5, <2>1, DownIs DEF LifeOK
  <2>2. CASE r.out # "down"
    <3>1. svc' = s /\ svc'.next <= disk'.last + 1 /\ None \notin svc'.keys
      BY <1>1, <1>2, <1>3, <1>4, <1>5, <2>2 DEF Intact
    <3>2. Unspent(svc.now, World)'
      BY <1>1, <1>3, <1>5, <1>7, <3>1 DEF Intact, Unspent
    <3>3. held' => svc'.now.paused
      BY <1>1, <1>3, <1>5, <3>1 DEF Intact, Holds
    <3>4. Same(World)'
      BY <1>3, <1>4, <1>5, <1>7, <2>2, <3>1 DEF Same, SameContent
    <3> QED BY <3>1, <3>2, <3>3, <3>4 DEF LifeOK
  <2> QED BY <2>1, <2>2
<1> QED BY <1>3, <1>4, <1>5, <1>6, <1>8, <1>9, DownIs DEF DashInv

LEMMA BecomeIsOK ==
  ASSUME NEW r, Settled(r), Become(r), UNCHANGED <<late, stale>>
  PROVE  StepOK
<1>1. Intact(r) /\ WorldOK(r) /\ (r.out = "down" \/ Same(r))
  BY DEF Settled, WorldOK, MemoryOK, DiskOK, Intact
<1>2. /\ DashInv' /\ disk'.ck = r.disk.ck /\ disk'.written = r.disk.written
      /\ svc'.up => svc'.now = r.svc.now
  BY <1>1, BecomeIsSound
<1>3. disk'.ck # disk.ck => disk'.ck # None /\ Traced(disk'.ck, [disk |-> disk'])
  BY <1>1, <1>2 DEF WorldOK, DiskOK, Traced
<1>4. svc'.up => Undenied(svc'.now)
  BY <1>1, <1>2 DEF WorldOK, MemoryOK
<1> QED BY <1>2, <1>3, <1>4 DEF StepOK

\* Every world that a daemon may start into.
LEMMA StartedSettles ==
  ASSUME DashInv, ~svc.up, NEW order \in Seq(Activities), NEW r \in Started(World, order)
  PROVE  Settled(r)
<1> DEFINE now == IF World.disk.ck = None THEN Fresh ELSE World.disk.ck
           s == Service(now, World.disk.last)
           loaded == [World EXCEPT !.svc = s]
<1>1. /\ World.svc = svc
      /\ World.disk \in Disks /\ World.disk.ck = disk.ck /\ World.disk.last = disk.last
      /\ World.covers = 0 /\ World.asked = asked /\ World.uses = uses
      /\ World.held = held /\ World.faults = faults /\ World.crashes = crashes
      /\ World.troubles \in Int /\ World.out = "ok"
  BY WorldIs DEF DashInv
<1>2. svc = Down /\ disk \in Disks /\ disk.last \in Nat /\ disk.ck \in Checkpoints \cup {None}
  BY DEF DashInv, StateType, Services, Disks
<1>3. now \in Checkpoints /\ now = IF disk.ck = None THEN Fresh ELSE disk.ck
  BY <1>1, <1>2, FreshIs
<1>4. World.disk.last = disk.last
  BY <1>1
<1> HIDE DEF now
<1>5. s \in Services /\ s.now = now /\ s.next = disk.last + 1 /\ s.keys = {}
  BY <1>2, <1>3, <1>4, ServiceIs
<1> HIDE DEF s
<1>6. World \in [svc : {svc}, disk : Disks, covers : Nat, asked : Seq(Activities),
                 uses : [Nonces -> Nat], held : BOOLEAN, faults : 0 .. MaxFaults,
                 crashes : Nat, troubles : Int, out : {"ok", "error", "down"}]
  BY <1>1, <1>2 DEF World, DashInv, StateType
<1>7. /\ loaded.svc = s /\ loaded.disk = World.disk /\ loaded.covers = World.covers
      /\ loaded.asked = World.asked /\ loaded.uses = World.uses /\ loaded.held = World.held
      /\ loaded.faults = World.faults /\ loaded.out = World.out
  BY <1>6
<1>8. loaded \in WorldType
  BY <1>5, <1>6 DEF WorldType
<1> HIDE DEF loaded
<1>9. Numbered(loaded)
  BY <1>1, <1>2, <1>5, <1>7 DEF Numbered
<1>10. MemoryOK(loaded)
  <2>1. Unspent(now, loaded)
    BY <1>1, <1>3, <1>7, FreshIs DEF DashInv, FilesOK, Unspent
  <2>2. Traced(now, loaded)
    BY <1>3 DEF Traced
  <2>3. Undenied(now)
    BY <1>2, FreshIs, DownIs DEF Undenied, Denied
  <2> QED BY <1>5, <1>7, <2>1, <2>2, <2>3 DEF MemoryOK
<1>11. SpentOnce(loaded) /\ Holds(loaded) /\ DiskOK(loaded)
  BY <1>1, <1>3, <1>5, <1>7 DEF DashInv, FilesOK, SpentOnce, Holds, DiskOK, Unspent
<1>12. Ready(loaded)
  <2>1. Same(loaded)
    BY <1>1, <1>3, <1>5, <1>7 DEF Same, SameContent
  <2> QED BY <1>1, <1>5, <1>7, <1>8, <1>9, <1>10, <1>11, <2>1 DEF Ready, WorldOK
<1>13. PICK x \in Each(loaded, order, Interrupted) :
          IF x.out = "error" THEN r = [[x EXCEPT !.out = "ok"] EXCEPT !.out = "down"] ELSE r = x
  BY DEF Started, Else, loaded, s, now
<1>14. Works(x, loaded) /\ Settled(x)
  BY <1>12, EachInterruptedWorks, WorksSettles DEF Ready
<1>15. CASE x.out = "error"
  <2> DEFINE y == [x EXCEPT !.out = "ok"]
  <2>1. WorldOK(y)
    BY <1>14, ReportIsOK DEF Settled
  <2>2. r = [y EXCEPT !.out = "down"]
    BY <1>13, <1>15
  <2> HIDE DEF y
  <2>3. WorldOK(r) /\ r.out = "down"
    BY <2>1, <2>2, ReportIsOK
  <2> QED BY <2>3 DEF Settled
<1> QED BY <1>13, <1>14, <1>15

\* Every request of the client and every call of the execution layer.
LEMMA RequestsAreOK ==
  ASSUME DashInv,
         \/ \E a \in Activities :
              RequestApproval(a) \/ RecordTargetOffline(a) \/ CancelActivity(a)
         \/ \E n \in Nonces, d \in Decisions : DecideApproval(n, d)
         \/ \E a \in Jobs, state \in {"running", "reconnecting", "succeeded", "failed"} :
              TransitionActivity(a, state)
  PROVE  StepOK
<1>1. svc.up /\ UNCHANGED <<late, stale>>
  BY DEF RequestApproval, RecordTargetOffline, CancelActivity, DecideApproval,
         TransitionActivity, Handle
<1>2. Ready(World) /\ World.svc = svc /\ WorldOK(World) /\ World.out = "ok"
  BY <1>1, WorldIsReady DEF Ready
<1>3. ASSUME NEW a \in Activities, RequestApproval(a)
      PROVE  StepOK
  <2>1. PICK r \in Asked(World, a) : Become(r)
    BY <1>3 DEF RequestApproval, Handle
  <2>2. Len(World.asked) < MaxApprovals
    BY <1>3, WorldIs DEF RequestApproval, DashInv
  <2> QED BY <1>1, <1>2, <2>1, <2>2, AskedSettles, BecomeIsOK
<1>4. ASSUME NEW a \in Activities, RecordTargetOffline(a)
      PROVE  StepOK
  <2>1. PICK r \in Offline(World, a) : Become(r)
    BY <1>4 DEF RecordTargetOffline, Handle
  <2>2. Settled(r)
    BY <1>2, <2>1, OfflineWorks, WorksSettles DEF Ready
  <2> QED BY <1>1, <2>1, <2>2, BecomeIsOK
<1>5. ASSUME NEW a \in Activities, CancelActivity(a)
      PROVE  StepOK
  <2>1. PICK r \in Then(Authorized(World, "cancel"), LAMBDA v : Cancelled(v, a)) : Become(r)
    BY <1>5 DEF CancelActivity, Handle
  <2>2. Settled(r)
    BY <1>2, <2>1, CancellationSettles
  <2> QED BY <1>1, <2>1, <2>2, BecomeIsOK
<1>6. ASSUME NEW n \in Nonces, NEW d \in Decisions, DecideApproval(n, d)
      PROVE  StepOK
  <2>1. PICK r \in Decided(World, n, d) : Become(r)
    BY <1>6 DEF DecideApproval, Handle
  <2>2. World.svc.now = svc.now /\ n \in World.svc.now.pending
    BY <1>2, <1>6 DEF DecideApproval
  <2>3. Settled(r)
    BY <1>2, <2>1, <2>2, DecidedSettles
  <2> QED BY <1>1, <2>1, <2>3, BecomeIsOK
<1>7. ASSUME NEW a \in Jobs, NEW state \in {"running", "reconnecting", "succeeded", "failed"},
             TransitionActivity(a, state)
      PROVE  StepOK
  <2>1. PICK r \in Transition(World, a, state) : Become(r)
    BY <1>7 DEF TransitionActivity, Handle
  <2>2. a \in Activities
    BY DEF Activities
  <2>3. Settled(r)
    BY <1>2, <2>1, <2>2, TransitionWorks, WorksSettles DEF Ready
  <2> QED BY <1>1, <2>1, <2>3, BecomeIsOK
<1> QED BY <1>3, <1>4, <1>5, <1>6, <1>7

\* Every administrative operation on the service itself.
LEMMA OperationsAreOK ==
  ASSUME DashInv,
         \/ \E existing \in {"finish", "cancel"} : Pause(existing)
         \/ Resume
         \/ \E op \in {"put", "drop"} : ChangeRule(op)
         \/ DeleteAudit
  PROVE  StepOK
<1>1. svc.up /\ UNCHANGED <<late, stale>>
  BY DEF Pause, Resume, ChangeRule, DeleteAudit, Handle
<1>2. Ready(World)
  BY <1>1, WorldIsReady
<1>3. ASSUME NEW existing \in {"finish", "cancel"}, Pause(existing)
      PROVE  StepOK
  <2>1. PICK order \in IF existing = "finish" THEN {<<>>} ELSE Orders(Activities) :
           Handle(Then(Authorized(World, "pause"), LAMBDA v : Paused(v, order)))
    BY <1>3 DEF Pause
  <2>2. order \in Seq(Activities)
    <3>1. CASE order = <<>>
      BY <3>1
    <3>2. CASE order \in Orders(Activities)
      BY <3>2, OrdersAreSequences
    <3> QED BY <2>1, <3>1, <3>2
  <2>3. PICK r \in Then(Authorized(World, "pause"), LAMBDA v : Paused(v, order)) : Become(r)
    BY <2>1 DEF Handle
  <2>4. PICK v \in Authorized(World, "pause") :
           IF v.out = "ok" THEN r \in Paused(v, order) ELSE r = v
    BY <2>3 DEF Then
  <2>5. Settled(r)
    BY <1>2, <2>2, <2>4, AuthorizedSettles, PausedSettles
  <2> QED BY <1>1, <2>3, <2>5, BecomeIsOK
<1>4. ASSUME Resume
      PROVE  StepOK
  <2>1. PICK r \in Then(Authorized(World, "resume"), Resumed) : Become(r)
    BY <1>4 DEF Resume, Handle
  <2>2. PICK v \in Authorized(World, "resume") :
           IF v.out = "ok" THEN r \in Resumed(v) ELSE r = v
    BY <2>1 DEF Then
  <2>3. Settled(r)
    BY <1>2, <2>2, AuthorizedSettles, ResumedSettles
  <2> QED BY <1>1, <2>1, <2>3, BecomeIsOK
<1>5. ASSUME NEW op \in {"put", "drop"}, ChangeRule(op)
      PROVE  StepOK
  <2>1. PICK r \in Then(Authorized(World, op), LAMBDA v : Ruled(v, op = "put")) : Become(r)
    BY <1>5 DEF ChangeRule, Handle
  <2>2. PICK v \in Authorized(World, op) :
           IF v.out = "ok" THEN r \in Ruled(v, op = "put") ELSE r = v
    BY <2>1 DEF Then
  <2>3. (op = "put") \in BOOLEAN
    OBVIOUS
  <2>4. Settled(r)
    BY <1>2, <2>2, <2>3, AuthorizedSettles, RuledSettles
  <2> QED BY <1>1, <2>1, <2>4, BecomeIsOK
<1>6. ASSUME DeleteAudit
      PROVE  StepOK
  <2>1. PICK r \in Then(Authorized(World, "erase"), Erased) : Become(r)
    BY <1>6 DEF DeleteAudit, Handle
  <2>2. PICK v \in Authorized(World, "erase") :
           IF v.out = "ok" THEN r \in Erased(v) ELSE r = v
    BY <2>1 DEF Then
  <2>3. Settled(r)
    BY <1>2, <2>2, AuthorizedSettles, ErasedSettles
  <2> QED BY <1>1, <2>1, <2>3, BecomeIsOK
<1> QED BY <1>3, <1>4, <1>5, <1>6

LEMMA StartIsOK ==
  ASSUME DashInv, Start
  PROVE  StepOK
<1> DEFINE saved == IF disk.ck = None THEN Fresh ELSE disk.ck
           lost == {a \in Activities : saved.activity[a].state \in {"queued", "running"}}
<1>1. PICK order \in Orders(lost) : \E r \in Started(World, order) : Become(r)
  BY DEF Start
<1>2. ~svc.up /\ UNCHANGED <<late, stale>>
  BY DEF Start
<1>3. order \in Seq(Activities)
  <2>1. lost \in SUBSET Activities
    OBVIOUS
  <2> HIDE DEF lost
  <2> QED BY <2>1, OrdersAreSequences
<1>4. PICK r \in Started(World, order) : Become(r)
  BY <1>1
<1>5. Settled(r)
  BY <1>2, <1>3, StartedSettles
<1> QED BY <1>2, <1>4, <1>5, BecomeIsOK

LEMMA CrashIsOK ==
  ASSUME DashInv, Crash
  PROVE  StepOK
<1>1. /\ svc' = Down /\ disk' = disk /\ asked' = asked /\ uses' = uses /\ held' = held
      /\ faults' = faults /\ crashes' = crashes - 1 /\ crashes > 0
  BY DEF Crash
<1>2. StateType'
  BY <1>1 DEF DashInv, StateType
<1>3. World'.asked = World.asked /\ World'.uses = World.uses
  BY <1>1 DEF World
<1>4. FilesOK'
  BY <1>1, <1>3 DEF DashInv, FilesOK, SpentOnce, Unspent
<1> QED BY <1>1, <1>2, <1>4, DownIs DEF StepOK, DashInv, LifeOK

\* Time passes, or nothing happens.
LEMMA TimeIsOK ==
  ASSUME DashInv,
         UNCHANGED <<svc, disk, asked, uses, held, faults, crashes>>,
         late \subseteq late', stale \subseteq stale'
  PROVE  DashInv'
<1>1. World' = World
  BY DEF World, Troubles
<1>2. StateType' /\ FilesOK'
  BY <1>1 DEF DashInv, StateType, FilesOK, SpentOnce, Unspent
<1>3. ASSUME NEW c, NEW d, SameContent(c, d)
      PROVE  SameContent(c, d)'
  BY <1>3 DEF SameContent
<1>4. Same(World) => Same(World)'
  BY <1>1, <1>3 DEF Same
<1> QED BY <1>1, <1>2, <1>4 DEF DashInv, LifeOK, Unspent

LEMMA InitIsOK == Init => DashInv
<1> SUFFICES ASSUME Init PROVE DashInv
  OBVIOUS
<1>1. svc \in Services /\ svc.now = Fresh /\ svc.next = 1 /\ svc.keys = {}
  BY FreshIs, ServiceIs DEF Init
<1>2. disk \in Disks /\ disk.ck = None /\ disk.last = 0
  BY DEF Init, Disks
<1>3. StateType
  <2>1. asked \in Seq(Activities) /\ uses \in [Nonces -> Nat]
    BY DEF Init
  <2>2. held \in BOOLEAN
    BY DEF Init
  <2>3. faults \in 0 .. MaxFaults /\ crashes \in Nat
    BY BoundsType DEF Init
  <2> QED BY <1>1, <1>2, <2>1, <2>2, <2>3 DEF StateType
<1>4. World.asked = <<>> /\ World.uses = uses /\ World.disk.ck = None
  BY <1>2, <1>3, WorldIs DEF Init
<1>5. FilesOK
  <2>1. SpentOnce(World)
    BY <1>4, BoundsType DEF Init, SpentOnce
  <2> QED BY <1>2, <2>1 DEF Init, FilesOK
<1>6. LifeOK
  BY <1>1, <1>2, <1>4, FreshIs DEF LifeOK, Unspent, Same, Init
<1> QED BY <1>3, <1>5, <1>6 DEF DashInv

\* Every step keeps the invariant, audits what it records, and queues nothing
\* that is denied.
LEMMA NextIsOK ==
  ASSUME DashInv, [Next]_vars
  PROVE  /\ DashInv'
         /\ StepOK \/ (svc' = svc /\ disk' = disk)
<1>1. CASE \/ \E a \in Activities :
                RequestApproval(a) \/ RecordTargetOffline(a) \/ CancelActivity(a)
           \/ \E n \in Nonces, d \in Decisions : DecideApproval(n, d)
           \/ \E a \in Jobs, state \in {"running", "reconnecting", "succeeded", "failed"} :
                TransitionActivity(a, state)
  BY <1>1, RequestsAreOK DEF StepOK
<1>2. CASE \/ \E existing \in {"finish", "cancel"} : Pause(existing)
           \/ Resume
           \/ \E op \in {"put", "drop"} : ChangeRule(op)
           \/ DeleteAudit
  BY <1>2, OperationsAreOK DEF StepOK
<1>3. CASE Start
  BY <1>3, StartIsOK DEF StepOK
<1>4. CASE Crash
  BY <1>4, CrashIsOK DEF StepOK
<1>5. CASE \E n \in Nonces : Expire(n) \/ ExpireGrant(n)
  BY <1>5, TimeIsOK DEF Expire, ExpireGrant
<1>6. CASE UNCHANGED vars
  BY <1>6, TimeIsOK DEF vars
<1> QED BY <1>1, <1>2, <1>3, <1>4, <1>5, <1>6 DEF Next

\* The state of the daemon and its files stays as it should be: the types, the
\* numbering of the audit log, and what connects the checkpoint, the memory and
\* what was acted on.
THEOREM DashboardIsSound == Spec => []DashInv
<1>1. DashInv /\ [Next]_vars => DashInv'
  BY NextIsOK
<1> QED BY <1>1, InitIsOK, PTL DEF Spec

\* What a person approved once is done at most once: decide_approval and
\* authorize_admin save that it is spent before it is acted on, and no write
\* that fails and no restart brings it back.
THEOREM ApprovalIsSpentOnce == Spec => []ApprovalSpentOnce
<1>1. DashInv => ApprovalSpentOnce
  BY WorldIs DEF DashInv, FilesOK, StateType, SpentOnce, ApprovalSpentOnce
<1> QED BY <1>1, DashboardIsSound, PTL

\* An acknowledged pause lets no request in until a resume or a failure touches
\* it, also after a restart (pause, new_persistent).
THEOREM PauseIsHeld == Spec => []PauseHolds
<1>1. DashInv => PauseHolds
  BY DEF DashInv, FilesOK, LifeOK, PauseHolds
<1> QED BY <1>1, DashboardIsSound, PTL

\* The checkpoint never names an audit record that the log lacks, and without a
\* failed write it is what the service holds (new_persistent can always start).
THEOREM DaemonStartsWithAll == Spec => []StartsWithAll
<1>1. DashInv => StartsWithAll
  <2> SUFFICES ASSUME DashInv PROVE StartsWithAll
    OBVIOUS
  <2>1. disk.last >= 0
    BY DEF DashInv, StateType, Disks
  <2>2. svc.up /\ faults = MaxFaults /\ disk.ck # None => SameContent(svc.now, disk.ck)
    BY WorldIs DEF DashInv, LifeOK, Same
  <2> QED BY <2>1, <2>2 DEF StartsWithAll, SameContent
<1> QED BY <1>1, DashboardIsSound, PTL

LEMMA ActivitiesIs ==
  ASSUME DashInv
  PROVE  DOMAIN svc.now.activity = Activities
BY FreshIs, DownIs DEF DashInv, StateType, Services, Checkpoints

\* An event on disk that was neither there nor in memory before the step has an
\* audit record of the same step (request_approval, decide_approval,
\* cancel_activity, reconcile_after_restart audit before they save).
THEOREM WhatIsRecordedIsAudited == Spec => EventsAreAudited
<1> DEFINE Audited(a) ==
             LET before == IF disk.ck = None THEN Fresh ELSE disk.ck
                 event == disk'.ck.activity[a]
             IN /\ disk'.ck # disk.ck
                /\ event \notin {before.activity[a], svc.now.activity[a]}
                /\ event.state \notin {"running", "reconnecting"}
                => a \in disk'.written
<1>1. DashInv /\ [Next]_vars => [\A a \in DOMAIN svc.now.activity : Audited(a)]_vars
  <2> SUFFICES ASSUME DashInv, [Next]_vars, NEW a \in DOMAIN svc.now.activity
               PROVE  Audited(a)
    OBVIOUS
  <2>1. a \in Activities
    BY ActivitiesIs
  <2>2. disk' = disk \/ StepOK
    BY NextIsOK
  <2>3. CASE disk' = disk
    BY <2>3
  <2>4. CASE StepOK
    BY <2>1, <2>4 DEF StepOK, Traced
  <2> QED BY <2>2, <2>3, <2>4
<1> QED BY <1>1, DashboardIsSound, PTL DEF Spec, EventsAreAudited

\* What a rule or a blocking decision denies is not queued by a later decision
\* (decide_approval evaluates the policy again).
THEOREM DeniedIsNotQueued == Spec => DenyOverrides
<1> DEFINE Kept(a) ==
             Denied(svc.now, a) /\ svc'.up /\ svc'.now.activity[a].state = "queued"
               => svc'.now.activity[a] = svc.now.activity[a]
<1>1. DashInv /\ [Next]_vars => [\A a \in DOMAIN svc.now.activity : Kept(a)]_vars
  <2> SUFFICES ASSUME DashInv, [Next]_vars, NEW a \in DOMAIN svc.now.activity
               PROVE  Kept(a)
    OBVIOUS
  <2>1. a \in Activities
    BY ActivitiesIs
  <2>2. svc' = svc \/ StepOK
    BY NextIsOK
  <2>3. CASE svc' = svc
    BY <2>3
  <2>4. CASE StepOK
    BY <2>1, <2>4 DEF StepOK, Undenied
  <2> QED BY <2>2, <2>3, <2>4
<1> QED BY <1>1, DashboardIsSound, PTL DEF Spec, DenyOverrides
=============================================================================
