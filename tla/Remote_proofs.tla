---------------------------- MODULE Remote_proofs ----------------------------
(***************************************************************************)
(* Workers of approved activities: what is shown as succeeded was          *)
(* completed, what is shown at work is worked on, and nothing is left      *)
(* behind at the registry; for any jobs, approvals, lost calls, failed     *)
(* writes and stops of the daemon.                                         *)
(*                                                                         *)
(* A worker reads and writes the states of activities in handlers of the   *)
(* service, so there is one lemma for each operator on worlds: which       *)
(* states it may show and save, and when it may report an error (Calm).    *)
(***************************************************************************)
EXTENDS RemoteExecution, Dashboard_proofs

\* A world of a handler that may show the states A and find the states B in the
\* checkpoint, and that reports no error unless a write has failed.
Calm(w, A, B) ==
  /\ w \in WorldType /\ Numbered(w) /\ None \notin w.svc.keys
  /\ w.faults <= faults /\ w.crashes <= crashes
  /\ w.out = "down" => w.crashes < MaxCrashes
  /\ \A b \in Activities : w.svc.now.activity[b].state \in A[b]
  /\ w.disk.ck # None => \A b \in Activities : w.disk.ck.activity[b].state \in B[b]
  /\ w.faults = MaxFaults /\ w.out # "down" =>
       w.svc.healthy /\ w.svc.store /\ w.svc.next = w.disk.last + 1

\* The states that no worker has to show.
Quiet == {"none", "awaiting", "queued", "failed", "denied", "cancelled"}

\* What is shown may be saved, and an activity may always be quiet.
Allowed(A, B) == \A b \in Activities : Quiet \subseteq A[b] /\ A[b] \subseteq B[b]

\* The failures that are left are at most those there were.
Counts == faults \in 0 .. MaxFaults /\ crashes \in 0 .. MaxCrashes

-----------------------------------------------------------------------------
(***************************************************************************)
(* The writes.                                                             *)
(***************************************************************************)

\* Two worlds that differ in what went wrong and in what no worker reads.
LEMMA AlikeIsCalm ==
  ASSUME NEW A, NEW B, NEW w, Calm(w, A, B),
         NEW r \in WorldType, r.svc = w.svc, r.disk = w.disk, r.covers = w.covers,
         r.faults <= w.faults, r.crashes <= w.crashes, w.out # "down",
         r.out = "down" => r.crashes < MaxCrashes,
         Counts
  PROVE  Calm(r, A, B)
<1>1. /\ r.faults \in 0 .. MaxFaults /\ w.faults \in 0 .. MaxFaults
      /\ r.crashes \in Nat /\ w.crashes \in Nat
  BY WorldFields DEF Calm
<1>2. r.faults <= faults /\ r.crashes <= crashes
  BY <1>1, BoundsType DEF Calm, Counts
<1>3. r.faults = MaxFaults => w.faults = MaxFaults
  BY <1>1, BoundsType
<1> QED BY <1>2, <1>3 DEF Calm, Numbered

LEMMA ReportIsCalm ==
  ASSUME NEW A, NEW B, NEW w, Calm(w, A, B), Counts, w.out # "down", NEW o \in {"ok", "error"},
         NEW r, r = [w EXCEPT !.out = o]
  PROVE  Calm(r, A, B) /\ r.out = o /\ r.svc = w.svc /\ r.faults = w.faults
<1>1. /\ r \in WorldType /\ r.svc = w.svc /\ r.disk = w.disk /\ r.covers = w.covers
      /\ r.faults = w.faults /\ r.crashes = w.crashes /\ r.out = o
  BY DEF Calm, WorldType
<1>2. w.faults \in 0 .. MaxFaults /\ w.crashes \in Nat
  BY WorldFields DEF Calm
<1>3. r.faults <= w.faults /\ r.crashes <= w.crashes /\ r.out # "down"
  BY <1>1, <1>2, BoundsType
<1>4. Calm(r, A, B)
  BY <1>1, <1>3, AlikeIsCalm
<1> QED BY <1>1, <1>4

LEMMA StoppedIsCalm ==
  ASSUME NEW A, NEW B, NEW w, Calm(w, A, B), Counts, w.out # "down", NEW r \in Stopped(w)
  PROVE  Calm(r, A, B) /\ r.out = "down" /\ r.svc = w.svc
<1>1. r = [w EXCEPT !.crashes = @ - 1, !.troubles = @ - 1, !.out = "down"] /\ w.crashes # 0
  BY DEF Stopped
<1>2. w \in WorldType /\ w.crashes \in Nat /\ w.faults \in 0 .. MaxFaults
  BY WorldFields DEF Calm
<1>3. r \in WorldType /\ Like(r, w) /\ r.out = "down" /\ r.faults = w.faults
  BY <1>2, StoppedIs
<1>4. r.crashes = w.crashes - 1
  BY <1>1, <1>2 DEF WorldType
<1>5. w.crashes <= MaxCrashes
  BY <1>2, BoundsType DEF Calm, Counts
<1>6. r.faults <= w.faults /\ r.crashes <= w.crashes /\ r.crashes < MaxCrashes
  BY <1>2, <1>3, <1>4, <1>5, BoundsType
<1>7. Calm(r, A, B)
  BY <1>3, <1>6, AlikeIsCalm DEF Like
<1> QED BY <1>3, <1>7 DEF Like

LEMMA FaultyIsCalm ==
  ASSUME NEW A, NEW B, NEW v, Calm(v, A, B), NEW w, Calm(w, A, B), Counts,
         v.out # "down", w.out # "down", NEW r \in Faulty(v, w)
  PROVE  /\ Calm(r, A, B) /\ r.out = "error" /\ r.faults < MaxFaults
         /\ r.svc \in {v.svc, w.svc}
<1>1. PICK u \in {v, w} :
        u.faults > 0 /\ r = [u EXCEPT !.faults = @ - 1, !.troubles = @ - 1, !.out = "error"]
  BY DEF Faulty
<1>2. Calm(u, A, B) /\ u.out # "down" /\ u \in WorldType
  BY DEF Calm
<1>3. /\ r.svc = u.svc /\ r.disk = u.disk /\ r.covers = u.covers /\ r.crashes = u.crashes
      /\ r.faults = u.faults - 1 /\ r.out = "error"
  BY <1>1, <1>2 DEF WorldType
<1>4. r \in WorldType /\ r.faults < MaxFaults
  BY <1>2, FaultyIs DEF Calm
<1>5. u.faults \in 0 .. MaxFaults /\ u.crashes \in Nat
  BY <1>2, WorldFields
<1>6. Calm(r, A, B)
  BY <1>2, <1>3, <1>4, <1>5, BoundsType, AlikeIsCalm
<1> QED BY <1>1, <1>3, <1>4, <1>6

LEMMA WrittenIsCalm ==
  ASSUME NEW A, NEW B, NEW v, Calm(v, A, B), NEW w, Calm(w, A, B), Counts,
         v.out = "ok", w.out = "ok", NEW r \in Written(v, w)
  PROVE  /\ Calm(r, A, B) /\ r.svc \in {v.svc, w.svc}
         /\ r.out = "ok" => r = w
         /\ r.out = "error" => r.faults < MaxFaults
<1>1. r = w \/ r \in Stopped(v) \/ r \in Stopped(w) \/ r \in Faulty(v, w)
  BY DEF Written
<1>2. CASE r \in Stopped(v)
  BY <1>2, StoppedIsCalm
<1>3. CASE r \in Stopped(w)
  BY <1>3, StoppedIsCalm
<1>4. CASE r \in Faulty(v, w)
  BY <1>4, FaultyIsCalm
<1> QED BY <1>1, <1>2, <1>3, <1>4

\* The service is exchanged for one that may be at its place.
LEMMA ServedIsCalm ==
  ASSUME NEW A, NEW B, NEW w, Calm(w, A, B), NEW s \in Services, None \notin s.keys,
         s.next = w.svc.next,
         \A b \in Activities : s.now.activity[b].state \in A[b],
         w.faults = MaxFaults /\ w.out # "down" => s.healthy /\ s.store,
         NEW r, r = [w EXCEPT !.svc = s]
  PROVE  /\ Calm(r, A, B) /\ r.svc = s /\ r.disk = w.disk /\ r.faults = w.faults
         /\ r.out = w.out
<1>1. /\ r \in WorldType /\ r.svc = s /\ r.disk = w.disk /\ r.covers = w.covers
      /\ r.faults = w.faults /\ r.crashes = w.crashes /\ r.out = w.out
  BY DEF Calm, WorldType
<1> QED BY <1>1 DEF Calm, Numbered

\* What the service holds is exchanged.
LEMMA HoldingIsCalm ==
  ASSUME NEW A, NEW B, NEW w, Calm(w, A, B), NEW c \in Checkpoints,
         \A b \in Activities : c.activity[b].state \in A[b],
         NEW r, r = Holding(w, c)
  PROVE  Calm(r, A, B) /\ r.svc.now = c /\ r.disk = w.disk /\ r.faults = w.faults /\ r.out = w.out
<1> DEFINE s == [w.svc EXCEPT !.now = c]
<1>1. w \in WorldType /\ w.svc \in Services /\ None \notin w.svc.keys
  BY WorldFields DEF Calm
<1>2. /\ s \in Services /\ s.now = c /\ s.next = w.svc.next /\ s.keys = w.svc.keys
      /\ s.healthy = w.svc.healthy /\ s.store = w.svc.store
  BY <1>1 DEF Services
<1>3. r = [w EXCEPT !.svc = s]
  BY DEF Holding
<1>4. w.faults = MaxFaults /\ w.out # "down" => s.healthy /\ s.store
  BY <1>2 DEF Calm
<1> HIDE DEF s
<1> QED BY <1>1, <1>2, <1>3, <1>4, ServedIsCalm

\* One part of what the service holds, other than the activities.
Opening(w, S) == [w EXCEPT !.svc.now.open = S]
Awaiting(w, S) == [w EXCEPT !.svc.now.pending = S]
Binding(w, S) == [w EXCEPT !.svc.now.bound = S]
Blocking(w, S) == [w EXCEPT !.svc.now.blocked = S]
Closing(w, b) == [w EXCEPT !.svc.now.paused = b]

LEMMA PartIsCalm ==
  ASSUME NEW A, NEW B, NEW w, Calm(w, A, B), NEW c \in Checkpoints,
         c.activity = w.svc.now.activity, NEW r, r = Holding(w, c)
  PROVE  /\ Calm(r, A, B) /\ r.svc.now.activity = w.svc.now.activity
         /\ r.faults = w.faults /\ r.out = w.out
<1>1. \A a \in Activities : c.activity[a].state \in A[a]
  BY DEF Calm
<1> QED BY <1>1, HoldingIsCalm

LEMMA ApprovalsAreCalm ==
  ASSUME NEW A, NEW B, NEW w, Calm(w, A, B), NEW S \in SUBSET Nat,
         NEW r, r \in {Opening(w, S), Awaiting(w, S), Binding(w, S), Granting(w, S)}
  PROVE  /\ Calm(r, A, B) /\ r.svc.now.activity = w.svc.now.activity
         /\ r.faults = w.faults /\ r.out = w.out
<1> DEFINE c1 == [w.svc.now EXCEPT !.open = S]
           c2 == [w.svc.now EXCEPT !.pending = S]
           c3 == [w.svc.now EXCEPT !.bound = S]
           c4 == [w.svc.now EXCEPT !.grants = S]
<1>1. w.svc.now \in Checkpoints
  BY WorldFields DEF Calm
<1>2. /\ c1 \in Checkpoints /\ c1.activity = w.svc.now.activity
      /\ c2 \in Checkpoints /\ c2.activity = w.svc.now.activity
      /\ c3 \in Checkpoints /\ c3.activity = w.svc.now.activity
      /\ c4 \in Checkpoints /\ c4.activity = w.svc.now.activity
  BY <1>1 DEF Checkpoints
<1>3. PICK c \in {c1, c2, c3, c4} : r = Holding(w, c)
  BY DEF Holding, Opening, Awaiting, Binding, Granting
<1>4. c \in Checkpoints /\ c.activity = w.svc.now.activity
  BY <1>2, <1>3
<1> HIDE DEF c1, c2, c3, c4
<1> QED BY <1>3, <1>4, PartIsCalm

LEMMA BlockingIsCalm ==
  ASSUME NEW A, NEW B, NEW w, Calm(w, A, B), NEW S \in SUBSET Activities,
         NEW r, r = Blocking(w, S)
  PROVE  Calm(r, A, B) /\ r.out = w.out
<1> DEFINE c == [w.svc.now EXCEPT !.blocked = S]
<1>1. w.svc.now \in Checkpoints
  BY WorldFields DEF Calm
<1>2. c \in Checkpoints /\ c.activity = w.svc.now.activity
  BY <1>1 DEF Checkpoints
<1>3. r = Holding(w, c)
  BY DEF Holding, Blocking
<1> HIDE DEF c
<1> QED BY <1>2, <1>3, PartIsCalm

LEMMA ClosingIsCalm ==
  ASSUME NEW A, NEW B, NEW w, Calm(w, A, B),
         NEW r, r \in {Closing(w, TRUE), Closing(w, FALSE)}
  PROVE  Calm(r, A, B) /\ r.out = w.out
<1> DEFINE c1 == [w.svc.now EXCEPT !.paused = TRUE]
           c2 == [w.svc.now EXCEPT !.paused = FALSE]
<1>1. w.svc.now \in Checkpoints
  BY WorldFields DEF Calm
<1>2. /\ c1 \in Checkpoints /\ c1.activity = w.svc.now.activity
      /\ c2 \in Checkpoints /\ c2.activity = w.svc.now.activity
  BY <1>1 DEF Checkpoints
<1>3. PICK c \in {c1, c2} : r = Holding(w, c)
  BY DEF Holding, Closing
<1>4. c \in Checkpoints /\ c.activity = w.svc.now.activity
  BY <1>2, <1>3
<1> HIDE DEF c1, c2
<1> QED BY <1>3, <1>4, PartIsCalm

\* An approval is asked for, a use is counted, an acknowledged pause is noted.
Asking(w, a) == [w EXCEPT !.asked = Append(@, a)]
Told(w, b) == [w EXCEPT !.held = b]

LEMMA HistoryIsCalm ==
  ASSUME NEW A, NEW B, NEW w, Calm(w, A, B), NEW r \in WorldType, r.svc = w.svc,
         r.disk = w.disk, r.covers = w.covers, r.faults = w.faults,
         r.crashes = w.crashes, r.out = w.out
  PROVE  Calm(r, A, B)
BY DEF Calm, Numbered

LEMMA AskingIsCalm ==
  ASSUME NEW A, NEW B, NEW w, Calm(w, A, B), NEW a \in Activities, NEW r, r = Asking(w, a)
  PROVE  Calm(r, A, B) /\ r.svc = w.svc /\ r.out = w.out
<1>1. Append(w.asked, a) \in Seq(Activities)
  BY WorldFields DEF Calm
<1>2. /\ r \in WorldType /\ r.svc = w.svc /\ r.disk = w.disk /\ r.covers = w.covers
      /\ r.faults = w.faults /\ r.crashes = w.crashes /\ r.out = w.out
  BY <1>1 DEF Calm, WorldType, Asking
<1> QED BY <1>2, HistoryIsCalm

LEMMA UsesAreCalm ==
  ASSUME NEW A, NEW B, NEW w, Calm(w, A, B), NEW U \in [Nonces -> Nat],
         NEW r, r = [w EXCEPT !.uses = U]
  PROVE  Calm(r, A, B) /\ r.svc = w.svc /\ r.out = w.out
<1>1. /\ r \in WorldType /\ r.svc = w.svc /\ r.disk = w.disk /\ r.covers = w.covers
      /\ r.faults = w.faults /\ r.crashes = w.crashes /\ r.out = w.out
  BY DEF Calm, WorldType
<1> QED BY <1>1, HistoryIsCalm

LEMMA CountedIsCalm ==
  ASSUME NEW A, NEW B, NEW w, Calm(w, A, B), NEW n, NEW r, r = Counted(w, n)
  PROVE  Calm(r, A, B) /\ r.svc = w.svc /\ r.out = w.out
<1> DEFINE u == w.uses
           U == [u EXCEPT ![n] = @ + 1]
<1>1. u \in [Nonces -> Nat]
  BY WorldFields DEF Calm
<1>2. r = [w EXCEPT !.uses = U]
  BY DEF Counted
<1> HIDE DEF u
<1>3. U \in [Nonces -> Nat]
  <2>1. CASE n \in Nonces
    <3>1. u[n] + 1 \in Nat
      BY <1>1, <2>1
    <3> QED BY <1>1, <3>1
  <2>2. CASE n \notin Nonces
    BY <1>1, <2>2
  <2> QED BY <2>1, <2>2
<1> HIDE DEF U
<1> QED BY <1>2, <1>3, UsesAreCalm

LEMMA ToldIsCalm ==
  ASSUME NEW A, NEW B, NEW w, Calm(w, A, B),
         NEW r, r = Told(w, TRUE)
  PROVE  Calm(r, A, B) /\ r.svc = w.svc /\ r.out = w.out
<1>1. /\ r \in WorldType /\ r.svc = w.svc /\ r.disk = w.disk /\ r.covers = w.covers
      /\ r.faults = w.faults /\ r.crashes = w.crashes /\ r.out = w.out
  BY DEF Calm, WorldType, Told
<1> QED BY <1>1, HistoryIsCalm

-----------------------------------------------------------------------------
(***************************************************************************)
(* The two files.                                                          *)
(***************************************************************************)

LEMMA AuditIsCalm ==
  ASSUME NEW A, NEW B, NEW w, Calm(w, A, B), Counts, w.out = "ok",
         NEW a \in Activities \cup {None}, NEW r \in Audit(w, a)
  PROVE  /\ Calm(r, A, B) /\ r.svc.now = w.svc.now
         /\ r.out = "error" => r.faults < MaxFaults
<1> DEFINE done == Logged(w, a)
           ill(v) == [v EXCEPT !.svc.healthy = FALSE, !.svc.store = FALSE]
           counted == [done EXCEPT !.svc.next = @ + 1]
           refused == [w EXCEPT !.svc.healthy = FALSE]
<1>1. /\ w \in WorldType /\ w.svc \in Services /\ w.svc.next \in Nat \ {0}
      /\ w.disk.last \in Nat /\ w.faults \in 0 .. MaxFaults
  BY WorldFields DEF Calm
<1>2. CASE r = [w EXCEPT !.out = "error"] /\ ~w.svc.healthy
  <2>1. Calm(r, A, B) /\ r.svc = w.svc /\ r.faults = w.faults
    BY <1>2, ReportIsCalm
  <2>2. w.faults # MaxFaults
    BY <1>2 DEF Calm
  <2> QED BY <1>1, <2>1, <2>2, BoundsType
<1>3. CASE /\ r = [refused EXCEPT !.out = "error"]
           /\ ~w.svc.store \/ w.svc.next <= w.disk.last
  <2> DEFINE s == [w.svc EXCEPT !.healthy = FALSE]
  <2>1. w.faults # MaxFaults
    BY <1>1, <1>3 DEF Calm
  <2>2. /\ s \in Services /\ s.now = w.svc.now /\ s.next = w.svc.next /\ s.keys = w.svc.keys
    BY <1>1 DEF Services
  <2>3. refused = [w EXCEPT !.svc = s]
    OBVIOUS
  <2> HIDE DEF s, refused
  <2>4. Calm(refused, A, B) /\ refused.svc = s /\ refused.faults = w.faults /\ refused.out = "ok"
    <3>1. /\ None \notin s.keys /\ s.next = w.svc.next
          /\ \A b \in Activities : s.now.activity[b].state \in A[b]
      BY <2>2 DEF Calm
    <3> QED BY <2>1, <2>2, <2>3, <3>1, ServedIsCalm
  <2>5. Calm(r, A, B) /\ r.svc = s /\ r.faults = w.faults
    BY <1>3, <2>4, ReportIsCalm
  <2> QED BY <1>1, <2>1, <2>2, <2>5, BoundsType
<1>4. CASE /\ w.svc.next > w.disk.last
           /\ r \in {counted} \cup Stopped(done) \cup Faulty(ill(w), ill(done))
  <2> DEFINE d == [w.disk EXCEPT !.last = w.svc.next, !.written = @ \cup {a}]
  <2>1. d \in Disks /\ d.ck = w.disk.ck /\ d.last = w.svc.next
    BY <1>1, WorldFields DEF Disks
  <2>2. done = [w EXCEPT !.disk = d]
    BY <1>1 DEF WorldType, Disks, Logged
  <2> HIDE DEF d, done
  <2>3. /\ done \in WorldType /\ done.svc = w.svc /\ done.disk = d /\ done.covers = w.covers
        /\ done.faults = w.faults /\ done.crashes = w.crashes /\ done.out = "ok"
    BY <1>1, <2>1, <2>2 DEF WorldType
  <2> DEFINE s == [w.svc EXCEPT !.next = @ + 1]
             t(v) == [[v.svc EXCEPT !.healthy = FALSE] EXCEPT !.store = FALSE]
  <2>4. /\ s \in Services /\ s.now = w.svc.now /\ s.next = w.svc.next + 1
        /\ s.keys = w.svc.keys /\ s.healthy = w.svc.healthy /\ s.store = w.svc.store
    <3>1. w.svc.next + 1 \in Nat \ {0}
      BY <1>1
    <3> QED BY <1>1, <3>1 DEF Services
  <2>5. counted = [done EXCEPT !.svc = s]
    BY <2>3
  <2> HIDE DEF s, counted
  <2>6. /\ counted \in WorldType /\ counted.svc = s /\ counted.disk = d
        /\ counted.covers = w.covers /\ counted.faults = w.faults
        /\ counted.crashes = w.crashes /\ counted.out = "ok"
    BY <2>3, <2>4, <2>5 DEF WorldType
  <2>7. Calm(counted, A, B) /\ counted.svc.now = w.svc.now
    <3>1. w.covers \in Nat /\ w.covers < w.svc.next /\ w.svc.next <= w.disk.last + 1
      BY <1>1, WorldFields DEF Calm, Numbered
    <3>2. Numbered(counted)
      BY <1>1, <2>1, <2>4, <2>6, <3>1 DEF Numbered
    <3> QED BY <1>4, <2>1, <2>4, <2>6, <3>2 DEF Calm
  <2>8. CASE r \in Stopped(done)
    <3>1. r = [done EXCEPT !.crashes = @ - 1, !.troubles = @ - 1, !.out = "down"] /\ done.crashes # 0
      BY <2>8 DEF Stopped
    <3>2. r \in WorldType /\ Like(r, done) /\ r.out = "down" /\ r.faults = done.faults
      BY <2>3, <2>8, StoppedIs
    <3>3. r.crashes = w.crashes - 1
      BY <2>3, <3>1 DEF WorldType
    <3>4. w.crashes \in Nat /\ w.crashes <= crashes /\ w.covers \in Nat /\ w.covers < w.svc.next
      BY <1>1, WorldFields DEF Calm, Numbered
    <3>5. r.crashes <= crashes /\ r.crashes < MaxCrashes
      BY <3>3, <3>4, BoundsType DEF Counts
    <3>6. Numbered(r)
      BY <1>1, <2>1, <2>3, <3>2, <3>4 DEF Numbered, Like
    <3> QED BY <2>1, <2>3, <3>2, <3>5, <3>6 DEF Calm, Like
  <2>9. ASSUME NEW u \in {w, done}, NEW f, f = ill(u),
               r = [f EXCEPT !.faults = @ - 1, !.troubles = @ - 1, !.out = "error"],
               f.faults > 0
        PROVE  Calm(r, A, B) /\ r.svc.now = w.svc.now /\ r.faults < MaxFaults
    <3>1. /\ u \in WorldType /\ u.svc = w.svc /\ u.disk \in {w.disk, d} /\ u.covers = w.covers
          /\ u.faults = w.faults /\ u.crashes = w.crashes /\ u.out = "ok"
      BY <1>1, <2>3
    <3>2. /\ t(u) \in Services /\ t(u).now = w.svc.now /\ t(u).next = w.svc.next
          /\ t(u).keys = w.svc.keys
      BY <1>1, <3>1 DEF Services
    <3>3. f = [u EXCEPT !.svc = t(u)]
      BY <2>9, <3>1 DEF WorldType
    <3> HIDE DEF t
    <3>4. /\ f.svc = t(u) /\ f.disk = u.disk /\ f.covers = u.covers
          /\ f.faults = u.faults /\ f.crashes = u.crashes /\ f \in WorldType
      BY <3>1, <3>2, <3>3 DEF WorldType
    <3>5. /\ r.svc = f.svc /\ r.disk = f.disk /\ r.covers = f.covers /\ r.crashes = f.crashes
          /\ r.faults = f.faults - 1 /\ r.out = "error"
      BY <2>9, <3>4 DEF WorldType
    <3>6. f.troubles - 1 \in Int /\ f.faults - 1 \in 0 .. MaxFaults
      <4>1. f.troubles \in Int /\ f.faults \in 0 .. MaxFaults
        BY <3>4 DEF WorldType
      <4> QED BY <2>9, <4>1, BoundsType
    <3>7. r \in WorldType
      BY <2>9, <3>4, <3>6 DEF WorldType
    <3>8. r.faults < MaxFaults /\ r.faults # MaxFaults /\ r.faults <= faults
      <4>1. w.faults <= faults
        BY DEF Calm
      <4> QED BY <1>1, <3>1, <3>4, <3>5, <4>1, BoundsType DEF Counts
    <3>9. Numbered(r)
      <4>1. w.covers \in Nat /\ w.covers < w.svc.next /\ w.covers <= w.disk.last
            /\ w.svc.next <= w.disk.last + 1
        BY <1>1, WorldFields DEF Calm, Numbered
      <4>2. u.disk.last \in {w.disk.last, w.svc.next}
        BY <2>1, <3>1
      <4> QED BY <1>1, <3>1, <3>2, <3>4, <3>5, <4>1, <4>2 DEF Numbered
    <3>10. r.disk.ck = w.disk.ck
      BY <2>1, <3>1, <3>4, <3>5
    <3>11. r.svc.now = w.svc.now /\ r.svc.keys = w.svc.keys /\ r.crashes = w.crashes
      BY <3>1, <3>2, <3>4, <3>5
    <3> QED BY <3>5, <3>7, <3>8, <3>9, <3>10, <3>11 DEF Calm
  <2>10. CASE r \in Faulty(ill(w), ill(done))
    <3>1. PICK f \in {ill(w), ill(done)} :
            f.faults > 0 /\ r = [f EXCEPT !.faults = @ - 1, !.troubles = @ - 1, !.out = "error"]
      BY <2>10 DEF Faulty
    <3> QED BY <2>9, <3>1
  <2> QED BY <1>4, <2>6, <2>7, <2>8, <2>10
<1>5. \/ r = [w EXCEPT !.out = "error"] /\ ~w.svc.healthy
      \/ /\ r = [refused EXCEPT !.out = "error"]
         /\ ~w.svc.store \/ w.svc.next <= w.disk.last
      \/ /\ ~(w.svc.next <= w.disk.last)
         /\ r \in {counted} \cup Stopped(done) \cup Faulty(ill(w), ill(done))
  BY DEF Audit, Refuse
<1> HIDE DEF refused, counted, done, ill
<1> QED BY <1>1, <1>2, <1>3, <1>4, <1>5

LEMMA PersistIsCalm ==
  ASSUME NEW A, NEW B, NEW w, Calm(w, A, B), Allowed(A, B), Counts, w.out = "ok",
         NEW r \in Persist(w)
  PROVE  Calm(r, A, B) /\ r.svc = w.svc /\ (r.out = "error" => r.faults < MaxFaults)
<1> DEFINE saved == [w EXCEPT !.disk.ck = w.svc.now, !.covers = w.svc.next - 1]
           d == [w.disk EXCEPT !.ck = w.svc.now]
<1>1. w \in WorldType /\ w.svc.next \in Nat \ {0} /\ w.disk.last \in Nat
  BY WorldFields DEF Calm
<1>2. d \in Disks /\ d.ck = w.svc.now /\ d.last = w.disk.last
  BY <1>1, WorldFields DEF Disks
<1>3. w.svc.next - 1 \in Nat
  BY <1>1
<1>4. saved = [w EXCEPT !.disk = d, !.covers = w.svc.next - 1]
  BY <1>1 DEF WorldType
<1>5. r \in Written(w, saved)
  BY DEF Persist
<1> HIDE DEF d, saved
<1>6. /\ saved \in WorldType /\ saved.svc = w.svc /\ saved.disk = d
      /\ saved.covers = w.svc.next - 1 /\ saved.faults = w.faults
      /\ saved.crashes = w.crashes /\ saved.out = "ok"
  BY <1>1, <1>2, <1>3, <1>4 DEF WorldType
<1>7. Numbered(saved)
  BY <1>1, <1>2, <1>6 DEF Calm, Numbered
<1>8. Calm(saved, A, B)
  BY <1>2, <1>6, <1>7 DEF Calm, Allowed
<1> QED BY <1>5, <1>6, <1>8, WrittenIsCalm

LEMMA SorryIsCalm ==
  ASSUME NEW A, NEW B, NEW w, Calm(w, A, B), Counts, w.out = "ok",
         NEW a \in Activities \cup {None}, NEW r \in Sorry(w, a)
  PROVE  Calm(r, A, B) /\ r.out # "ok" /\ r.svc.now = w.svc.now
<1>1. PICK v \in Audit(w, a) : IF v.out = "ok" THEN r = [v EXCEPT !.out = "error"] ELSE r = v
  BY DEF Sorry, Then, Refuse
<1>2. Calm(v, A, B) /\ v.svc.now = w.svc.now
  BY AuditIsCalm
<1>3. CASE v.out = "ok"
  BY <1>1, <1>2, <1>3, ReportIsCalm
<1> QED BY <1>1, <1>2, <1>3

LEMMA RefuseIsCalm ==
  ASSUME NEW A, NEW B, NEW w, Calm(w, A, B), Counts, w.out # "down", NEW r \in Refuse(w)
  PROVE  Calm(r, A, B) /\ r.out = "error" /\ r.svc = w.svc /\ r.faults = w.faults
BY ReportIsCalm DEF Refuse

\* A new event shows its state, or nothing new in memory.
LEMMA RecordIsCalm ==
  ASSUME NEW A, NEW B, NEW w, Calm(w, A, B), Allowed(A, B), Counts, w.out = "ok",
         NEW a \in Activities, NEW state \in States, state \in A[a], NEW key \in Keys,
         NEW r \in Record(w, a, state, key)
  PROVE  /\ Calm(r, A, B)
         /\ r.out = "ok" => r.svc.now.activity[a].state = state
         /\ r.out = "error" /\ key = None => r.faults < MaxFaults
<1> DEFINE event == [state |-> state, odd |-> ~w.svc.now.activity[a].odd]
           E == [w.svc.now.activity EXCEPT ![a] = event]
           c == [w.svc.now EXCEPT !.activity = E]
           next == [w EXCEPT !.svc.now.activity[a] = event]
           undone(v) == [v EXCEPT !.svc.now.activity = w.svc.now.activity]
           kept(v) == [v EXCEPT !.svc.keys = IF key = None THEN @ ELSE @ \cup {key}]
<1>1. w \in WorldType /\ w.svc.now \in Checkpoints
  BY WorldFields DEF Calm
<1>2. E \in [Activities -> [state : States, odd : BOOLEAN]]
  BY <1>1 DEF Checkpoints
<1>3. c \in Checkpoints /\ c.activity = E
  BY <1>1, <1>2 DEF Checkpoints
<1>4. next = Holding(w, c)
  BY DEF Holding
<1>5. \A b \in Activities : E[b] = IF b = a THEN event ELSE w.svc.now.activity[b]
  BY <1>1 DEF Checkpoints
<1>6. E[a].state = state /\ \A b \in Activities : E[b].state \in A[b]
  BY <1>5 DEF Calm
<1> HIDE DEF E, c, next
<1>7. Calm(next, A, B) /\ next.svc.now = c /\ next.out = "ok"
  BY <1>3, <1>4, <1>6, HoldingIsCalm
<1>8. CASE r = [w EXCEPT !.out = "error"] /\ key \in w.svc.keys
  BY <1>8, ReportIsCalm DEF Calm
<1>9. CASE key \notin w.svc.keys
  <2> DEFINE undo(v) == Refuse(undone(v))
  <2>1. PICK x \in Else(Persist(next), undo) : IF x.out = "ok" THEN r = kept(x) ELSE r = x
    BY <1>9 DEF Record, Then, next
  <2>2. PICK v \in Persist(next) :
           IF v.out = "error" THEN x \in Refuse(undone([v EXCEPT !.out = "ok"])) ELSE x = v
    BY <2>1 DEF Else
  <2>3. Calm(v, A, B) /\ v.svc = next.svc /\ (v.out = "error" => v.faults < MaxFaults)
    BY <1>7, <2>2, PersistIsCalm
  <2>4. CASE v.out = "error"
    <3> DEFINE u == [v EXCEPT !.out = "ok"]
               b == [u.svc.now EXCEPT !.activity = w.svc.now.activity]
               t == undone(u)
    <3>1. Calm(u, A, B) /\ u.out = "ok" /\ u.svc = v.svc /\ u.faults = v.faults
      BY <2>3, <2>4, ReportIsCalm
    <3>2. u.svc.now \in Checkpoints
      BY <3>1, WorldFields DEF Calm
    <3>3. b \in Checkpoints /\ b.activity = w.svc.now.activity
      BY <1>1, <3>2 DEF Checkpoints
    <3>4. t = Holding(u, b)
      BY DEF Holding
    <3>5. x \in Refuse(t)
      BY <2>2, <2>4
    <3>6. \A e \in Activities : b.activity[e].state \in A[e]
      BY <3>3 DEF Calm
    <3> HIDE DEF u, b, t
    <3>7. Calm(t, A, B) /\ t.faults = u.faults /\ t.out = "ok"
      BY <3>1, <3>3, <3>4, <3>6, HoldingIsCalm
    <3>8. Calm(x, A, B) /\ x.out = "error" /\ x.faults = t.faults
      BY <3>5, <3>7, RefuseIsCalm
    <3> QED BY <2>1, <2>3, <2>4, <3>1, <3>7, <3>8
  <2>5. CASE v.out = "down"
    BY <2>1, <2>2, <2>3, <2>5
  <2>6. CASE v.out = "ok"
    <3> DEFINE k == IF key = None THEN v.svc.keys ELSE v.svc.keys \cup {key}
               s == [v.svc EXCEPT !.keys = k]
    <3>1. v.svc \in Services /\ None \notin v.svc.keys
      BY <2>3, WorldFields DEF Calm
    <3>2. k \subseteq {"offline", "cancel"} \X Activities /\ None \notin k
      BY <3>1 DEF Keys, Services
    <3>3. /\ s \in Services /\ s.now = c /\ s.next = v.svc.next /\ s.keys = k
          /\ s.healthy = v.svc.healthy /\ s.store = v.svc.store
      BY <1>7, <2>3, <3>1, <3>2 DEF Services
    <3>4. r = [v EXCEPT !.svc = s]
      BY <2>1, <2>2, <2>6
    <3> HIDE DEF k, s
    <3>5. v.faults = MaxFaults => s.healthy /\ s.store
      BY <2>3, <2>6, <3>3 DEF Calm
    <3>6. \A e \in Activities : s.now.activity[e].state \in A[e]
      BY <1>3, <1>6, <3>3
    <3>7. Calm(r, A, B) /\ r.svc = s /\ r.out = v.out
      BY <2>3, <3>2, <3>3, <3>4, <3>5, <3>6, ServedIsCalm
    <3> QED BY <1>3, <1>6, <2>6, <3>3, <3>7
  <2>7. v.out \in {"ok", "error", "down"}
    BY <2>3, WorldFields DEF Calm
  <2> QED BY <2>4, <2>5, <2>6, <2>7
<1>10. key \in w.svc.keys => r = [w EXCEPT !.out = "error"]
  BY DEF Record, Refuse
<1> QED BY <1>8, <1>9, <1>10

\* What is audited and then recorded.
LEMMA AuditedRecordIsCalm ==
  ASSUME NEW A, NEW B, NEW w, Calm(w, A, B), Allowed(A, B), Counts, w.out = "ok",
         NEW a \in Activities, NEW state \in States, state \in A[a], NEW key \in Keys,
         NEW r \in Then(Audit(w, a), LAMBDA v : Record(v, a, state, key))
  PROVE  /\ Calm(r, A, B)
         /\ r.out = "ok" => r.svc.now.activity[a].state = state
         /\ r.out = "error" /\ key = None => r.faults < MaxFaults
<1>1. PICK v \in Audit(w, a) : IF v.out = "ok" THEN r \in Record(v, a, state, key) ELSE r = v
  BY DEF Then
<1>2. Calm(v, A, B) /\ (v.out = "error" => v.faults < MaxFaults)
  BY AuditIsCalm
<1>3. CASE v.out = "ok"
  BY <1>1, <1>2, <1>3, RecordIsCalm
<1> QED BY <1>1, <1>2, <1>3

\* A legal move is shown unless a write has failed.
LEMMA TransitionIsCalm ==
  ASSUME NEW A, NEW B, NEW w, Calm(w, A, B), Allowed(A, B), Counts, w.out = "ok",
         NEW a \in Activities, NEW state \in States, state \in A[a],
         NEW r \in Transition(w, a, state)
  PROVE  /\ Calm(r, A, B)
         /\ r.out = "ok" => r.svc.now.activity[a].state = state
         /\ r.out = "error" =>
              \/ r.faults < MaxFaults
              \/ /\ <<w.svc.now.activity[a].state, state>> \notin Moves
                 /\ r.svc = w.svc
<1>1. None \in Keys
  BY DEF Keys
<1>2. CASE r = w /\ w.svc.now.activity[a].state = state
  BY <1>2
<1>3. CASE r \in Refuse(w) /\ <<w.svc.now.activity[a].state, state>> \notin Moves
  BY <1>3, RefuseIsCalm
<1>4. CASE r \in Then(Audit(w, a), LAMBDA v : Record(v, a, state, None))
  <2>1. PICK v \in Audit(w, a) : IF v.out = "ok" THEN r \in Record(v, a, state, None) ELSE r = v
    BY <1>4 DEF Then
  <2>2. Calm(v, A, B) /\ (v.out = "error" => v.faults < MaxFaults)
    BY AuditIsCalm
  <2>3. CASE v.out = "ok"
    BY <1>1, <2>1, <2>2, <2>3, RecordIsCalm
  <2> QED BY <2>1, <2>2, <2>3
<1>5. CASE r \in Record(w, a, state, None)
  BY <1>1, <1>5, RecordIsCalm
<1> QED BY <1>2, <1>3, <1>4, <1>5 DEF Transition

-----------------------------------------------------------------------------
(***************************************************************************)
(* Requests for access, and what is decided: all they show is quiet.       *)
(***************************************************************************)

LEMMA QuietIs ==
  /\ Quiet \subseteq States /\ None \in Keys
  /\ {"awaiting", "queued", "failed", "denied", "cancelled"} \subseteq Quiet
BY DEF Quiet, States, Terminal, Keys

LEMMA PartsAre ==
  ASSUME NEW w \in WorldType
  PROVE  /\ w.svc.now.open \in SUBSET Nat /\ w.svc.now.pending \in SUBSET Nat
         /\ w.svc.now.bound \in SUBSET Nat /\ w.svc.now.grants \in SUBSET Nat
         /\ w.svc.now.blocked \in SUBSET Activities /\ w.svc.now.rule \in BOOLEAN
         /\ w.svc.now.paused \in BOOLEAN /\ w.asked \in Seq(Activities)
         /\ w.uses \in [Nonces -> Nat] /\ w.held \in BOOLEAN /\ Len(w.asked) \in Nat
BY WorldFields DEF Checkpoints

\* A handler that failed goes on to report it.
LEMMA AgainIsCalm ==
  ASSUME NEW A, NEW B, NEW v, Calm(v, A, B), Counts, v.out = "error",
         NEW u, u = [v EXCEPT !.out = "ok"]
  PROVE  Calm(u, A, B) /\ u.out = "ok" /\ u.svc = v.svc /\ u.faults = v.faults
BY ReportIsCalm

LEMMA AskIsCalm ==
  ASSUME NEW A, NEW B, NEW w, Calm(w, A, B), Allowed(A, B), Counts, w.out = "ok",
         NEW a \in Activities, NEW r \in Ask(w, a)
  PROVE  Calm(r, A, B)
<1> DEFINE n == Len(w.asked) + 1
           undo(v) == Sorry(Uncreated(v, w), a)
           recorded(v) == Record(Created(v, a, n), a, "awaiting", None)
           denied(v) == Record(v, a, "denied", None)
<1>1. "awaiting" \in States /\ "denied" \in States /\ "awaiting" \in A[a] /\ "denied" \in A[a]
  BY QuietIs DEF Allowed
<1>2. PICK v \in Audit(w, a) :
         IF v.out = "ok" THEN r \in Else(recorded(v), undo) \/ r \in Then(denied(v), Refuse)
         ELSE r = v
  BY DEF Ask, Then, Created, Uncreated
<1>3. Calm(v, A, B) /\ v \in WorldType /\ w \in WorldType
  BY AuditIsCalm DEF Calm
<1>4. CASE v.out = "ok" /\ r \in Then(denied(v), Refuse)
  <2>1. PICK x \in denied(v) : IF x.out = "ok" THEN r \in Refuse(x) ELSE r = x
    BY <1>4 DEF Then
  <2>2. Calm(x, A, B)
    BY <1>1, <1>3, <1>4, QuietIs, RecordIsCalm
  <2> QED BY <2>1, <2>2, RefuseIsCalm
<1>5. CASE v.out = "ok" /\ r \in Else(recorded(v), undo)
  <2>1. PICK x \in recorded(v) :
           IF x.out = "error" THEN r \in Sorry(Uncreated([x EXCEPT !.out = "ok"], w), a) ELSE r = x
    BY <1>5 DEF Else
  <2> DEFINE u == Created(v, a, n)
             v1 == Asking(v, a)
             o == (v.svc.now.open \ late) \cup {n}
             v2 == Opening(v1, o)
             p == v.svc.now.pending \cup {n}
             v3 == Awaiting(v2, p)
  <2>2. u = v3
    BY <1>3 DEF Created, Asking, Opening, Awaiting, WorldType, Services, Checkpoints
  <2>3. o \in SUBSET Nat /\ p \in SUBSET Nat
    BY <1>3, PartsAre
  <2>4. x \in Record(u, a, "awaiting", None)
    OBVIOUS
  <2> HIDE DEF u, o, p, n
  <2>5. Calm(v1, A, B) /\ v1.out = "ok"
    BY <1>3, <1>5, AskingIsCalm
  <2> HIDE DEF v1
  <2>6. Calm(v2, A, B) /\ v2.out = "ok"
    BY <2>3, <2>5, ApprovalsAreCalm
  <2> HIDE DEF v2
  <2>7. Calm(u, A, B) /\ u.out = "ok"
    BY <2>2, <2>3, <2>6, ApprovalsAreCalm
  <2>8. Calm(x, A, B)
    BY <1>1, <2>4, <2>7, QuietIs, RecordIsCalm
  <2>9. CASE x.out = "error"
    <3> DEFINE y == [x EXCEPT !.out = "ok"]
               y1 == Opening(y, w.svc.now.open)
               z == Uncreated(y, w)
    <3>1. Calm(y, A, B) /\ y.out = "ok"
      BY <2>8, <2>9, AgainIsCalm
    <3>2. r \in Sorry(z, a)
      BY <2>1, <2>9
    <3> HIDE DEF y
    <3>3. z = Awaiting(y1, w.svc.now.pending) /\ y1 = Opening(y, w.svc.now.open)
      BY DEF Uncreated, Opening, Awaiting
    <3> HIDE DEF z, y1
    <3>4. w.svc.now.open \in SUBSET Nat /\ w.svc.now.pending \in SUBSET Nat
      BY <1>3, PartsAre
    <3>5. Calm(y1, A, B) /\ y1.out = "ok"
      BY <3>1, <3>3, <3>4, ApprovalsAreCalm
    <3>6. Calm(z, A, B) /\ z.out = "ok"
      BY <3>3, <3>4, <3>5, ApprovalsAreCalm
    <3> QED BY <3>2, <3>6, SorryIsCalm
  <2> QED BY <2>1, <2>8, <2>9
<1> QED BY <1>2, <1>3, <1>4, <1>5

LEMMA BindIsCalm ==
  ASSUME NEW A, NEW B, NEW w, Calm(w, A, B), Allowed(A, B), Counts, w.out = "ok",
         NEW r \in Bind(w)
  PROVE  Calm(r, A, B)
<1> DEFINE n == Len(w.asked)
           S0 == w.svc.now.bound \cup {n}
           u == Binding(w, S0)
           undo(v) == Refuse(Binding(v, v.svc.now.bound \ {n}))
<1>1. w \in WorldType /\ S0 \in SUBSET Nat
  BY PartsAre DEF Calm
<1>2. PICK v \in Persist(u) :
        IF v.out = "error" THEN r \in undo([v EXCEPT !.out = "ok"]) ELSE r = v
  BY DEF Bind, Binding, Else
<1> HIDE DEF S0
<1>3. Calm(u, A, B) /\ u.out = "ok"
  BY <1>1, ApprovalsAreCalm
<1> HIDE DEF u
<1>4. Calm(v, A, B)
  BY <1>2, <1>3, PersistIsCalm
<1>5. CASE v.out = "error"
  <2> DEFINE y == [v EXCEPT !.out = "ok"]
             S == y.svc.now.bound \ {n}
             z == Binding(y, S)
  <2>1. Calm(y, A, B) /\ y.out = "ok"
    BY <1>4, <1>5, AgainIsCalm
  <2>2. r \in Refuse(z)
    BY <1>2, <1>5
  <2> HIDE DEF y
  <2>3. S \in SUBSET Nat
    BY <2>1, PartsAre DEF Calm
  <2> HIDE DEF S
  <2>4. Calm(z, A, B) /\ z.out = "ok"
    BY <2>1, <2>3, ApprovalsAreCalm
  <2> QED BY <2>2, <2>4, RefuseIsCalm
<1> QED BY <1>2, <1>4, <1>5

LEMMA AskedIsCalm ==
  ASSUME NEW A, NEW B, NEW w, Calm(w, A, B), Allowed(A, B), Counts, w.out = "ok",
         NEW a \in Activities, NEW r \in Asked(w, a)
  PROVE  Calm(r, A, B)
<1>1. CASE r \in Refuse(w)
  BY <1>1, RefuseIsCalm
<1>2. CASE r \in Then(Ask(w, a), Bind)
  <2>1. PICK v \in Ask(w, a) : IF v.out = "ok" THEN r \in Bind(v) ELSE r = v
    BY <1>2 DEF Then
  <2>2. Calm(v, A, B)
    BY AskIsCalm
  <2> QED BY <2>1, <2>2, BindIsCalm
<1>3. CASE r \in Ask(w, a)
  BY <1>3, AskIsCalm
<1> QED BY <1>1, <1>2, <1>3 DEF Asked

\* A decision is noted, and what it gives is given.
LEMMA SpentIsCalm ==
  ASSUME NEW A, NEW B, NEW w, Calm(w, A, B), NEW n, NEW a \in Activities, NEW decision,
         n \in Nat, NEW r, r = Spent(w, n, a, decision)
  PROVE  Calm(r, A, B) /\ r.out = w.out
<1> DEFINE o == w.svc.now.open \ {n}
           p == w.svc.now.pending \ {n}
           g == IF decision = "allow" /\ a \in AdminOps THEN w.svc.now.grants \cup {n}
                ELSE w.svc.now.grants
           b == IF decision = "block" THEN w.svc.now.blocked \cup {a} ELSE w.svc.now.blocked
           w1 == Opening(w, o)
           w2 == Awaiting(w1, p)
           w3 == Granting(w2, g)
<1>1. w \in WorldType
  BY DEF Calm
<1>2. o \in SUBSET Nat /\ p \in SUBSET Nat /\ g \in SUBSET Nat /\ b \in SUBSET Activities
  BY <1>1, PartsAre
<1>3. r = Blocking(w3, b)
  BY <1>1 DEF Spent, Blocking, Granting, Awaiting, Opening, WorldType, Services, Checkpoints
<1> HIDE DEF o, p, g, b
<1>4. Calm(w1, A, B) /\ w1.out = w.out
  BY <1>2, ApprovalsAreCalm
<1> HIDE DEF w1
<1>5. Calm(w2, A, B) /\ w2.out = w.out
  BY <1>2, <1>4, ApprovalsAreCalm
<1> HIDE DEF w2
<1>6. Calm(w3, A, B) /\ w3.out = w.out
  BY <1>2, <1>5, ApprovalsAreCalm
<1> HIDE DEF w3
<1> QED BY <1>2, <1>3, <1>6, BlockingIsCalm

LEMMA SettleIsCalm ==
  ASSUME NEW A, NEW B, NEW w, Calm(w, A, B), Allowed(A, B), Counts, w.out = "ok",
         NEW n \in Nat, NEW a \in Activities, NEW decision,
         NEW r \in Settle(w, n, a, decision)
  PROVE  Calm(r, A, B)
<1> DEFINE undo(v) == Sorry(Holding(v, w.svc.now), a)
           state == IF decision = "allow" THEN "queued" ELSE "denied"
           u == Spent(w, n, a, decision)
           counts == decision = "allow" /\ a \in Jobs
<1>1. PICK x \in Else(Record(u, a, state, None), undo) :
        IF x.out = "ok" THEN r = [x EXCEPT !.uses[n] = IF counts THEN @ + 1 ELSE @] ELSE r = x
  BY DEF Settle, Spent, Then, Holding
<1>2. PICK v \in Record(u, a, state, None) :
        IF v.out = "error" THEN x \in Sorry(Holding([v EXCEPT !.out = "ok"], w.svc.now), a)
        ELSE x = v
  BY DEF Else
<1>3. u = Spent(w, n, a, decision)
  OBVIOUS
<1>4. state \in States /\ state \in A[a] /\ None \in Keys
  BY QuietIs DEF Allowed
<1> HIDE DEF u, state, counts
<1>5. Calm(u, A, B) /\ u.out = "ok"
  BY <1>3, SpentIsCalm
<1>6. Calm(v, A, B)
  BY <1>2, <1>4, <1>5, RecordIsCalm
<1>7. Calm(x, A, B)
  <2>1. CASE v.out = "error"
    <3> DEFINE y == [v EXCEPT !.out = "ok"]
               z == Holding(y, w.svc.now)
    <3>1. Calm(y, A, B) /\ y.out = "ok"
      BY <1>6, <2>1, AgainIsCalm
    <3>2. x \in Sorry(z, a)
      BY <1>2, <2>1
    <3>3. w.svc.now \in Checkpoints /\ \A b \in Activities : w.svc.now.activity[b].state \in A[b]
      BY WorldFields DEF Calm
    <3> HIDE DEF y
    <3>4. Calm(z, A, B) /\ z.out = "ok"
      BY <3>1, <3>3, HoldingIsCalm
    <3> HIDE DEF z
    <3> QED BY <3>2, <3>4, SorryIsCalm
  <2> QED BY <1>2, <1>6, <2>1
<1>8. CASE x.out = "ok"
  <2> DEFINE U == [x.uses EXCEPT ![n] = IF counts THEN @ + 1 ELSE @]
  <2>1. x.uses \in [Nonces -> Nat]
    BY <1>7, WorldFields DEF Calm
  <2>2. U \in [Nonces -> Nat]
    <3>1. CASE n \in Nonces
      <4>1. x.uses[n] \in Nat /\ x.uses[n] + 1 \in Nat
        BY <2>1, <3>1
      <4> QED BY <2>1, <4>1
    <3>2. CASE n \notin Nonces
      BY <2>1, <3>2
    <3> QED BY <3>1, <3>2
  <2>3. r = [x EXCEPT !.uses = U]
    BY <1>1, <1>8
  <2> HIDE DEF U
  <2> QED BY <1>7, <2>2, <2>3, UsesAreCalm
<1> QED BY <1>1, <1>7, <1>8

LEMMA DecidedIsCalm ==
  ASSUME NEW A, NEW B, NEW w, Calm(w, A, B), Allowed(A, B), Counts, w.out = "ok",
         NEW n \in Nat, w.asked[n] \in Activities, NEW decision,
         NEW r \in Decided(w, n, decision)
  PROVE  Calm(r, A, B)
<1> DEFINE a == w.asked[n]
           dropped(v) == Awaiting(v, v.svc.now.pending \ {n})
           expire(v) == Then(Transition(dropped(v), a, "failed"), Refuse)
<1>1. CASE r \in Refuse(w)
  BY <1>1, RefuseIsCalm
<1>2. CASE r \in Sorry(w, a)
  BY <1>2, SorryIsCalm
<1>3. ASSUME NEW v \in Audit(w, a),
             IF v.out # "ok" THEN r = v
             ELSE r \in Sorry(v, a) \/ r \in expire(v) \/ r \in Settle(v, n, a, decision)
      PROVE  Calm(r, A, B)
  <2>1. Calm(v, A, B)
    BY AuditIsCalm
  <2>2. CASE v.out = "ok" /\ r \in Sorry(v, a)
    BY <2>1, <2>2, SorryIsCalm
  <2>3. CASE v.out = "ok" /\ r \in Settle(v, n, a, decision)
    <3> HIDE DEF a
    <3>1. a \in Activities
      BY DEF a
    <3> QED BY <2>1, <2>3, <3>1, SettleIsCalm
  <2>4. CASE v.out = "ok" /\ r \in expire(v)
    <3> DEFINE x == dropped(v)
               p == v.svc.now.pending \ {n}
    <3>1. PICK y \in Transition(x, a, "failed") : IF y.out = "ok" THEN r \in Refuse(y) ELSE r = y
      BY <2>4 DEF Then
    <3>2. p \in SUBSET Nat /\ x = Awaiting(v, p)
      BY <2>1, PartsAre DEF Calm
    <3>3. a \in Activities /\ "failed" \in A[a] /\ "failed" \in States
      BY QuietIs DEF Allowed, States, Terminal
    <3> HIDE DEF x, p, a
    <3>4. Calm(x, A, B) /\ x.out = "ok"
      BY <2>1, <2>4, <3>2, ApprovalsAreCalm
    <3>5. Calm(y, A, B)
      BY <3>1, <3>3, <3>4, TransitionIsCalm
    <3> QED BY <3>1, <3>5, RefuseIsCalm
  <2> QED BY <1>3, <2>1, <2>2, <2>3, <2>4
<1>4. \/ r \in Refuse(w)
      \/ r \in Sorry(w, a)
      \/ \E v \in Audit(w, a) :
           IF v.out # "ok" THEN r = v
           ELSE r \in Sorry(v, a) \/ r \in expire(v) \/ r \in Settle(v, n, a, decision)
  BY DEF Decided, Then, Awaiting
<1> QED BY <1>1, <1>2, <1>3, <1>4

-----------------------------------------------------------------------------
(***************************************************************************)
(* Administrative operations.                                              *)
(***************************************************************************)

\* A grant is spent.
LEMMA SpendIsCalm ==
  ASSUME NEW A, NEW B, NEW w, Calm(w, A, B), Allowed(A, B), Counts, w.out = "ok",
         NEW n, NEW r, NEW x,
         NEW v \in Persist(Granting(w, w.svc.now.grants \ {n})),
         IF v.out = "error"
         THEN x \in Refuse(Granting([v EXCEPT !.out = "ok"], w.svc.now.grants)) ELSE x = v,
         IF x.out = "ok" THEN r = Counted(x, n) ELSE r = x
  PROVE  Calm(r, A, B)
<1> DEFINE G == w.svc.now.grants \ {n}
           H == w.svc.now.grants
           u == Granting(w, G)
<1>1. G \in SUBSET Nat /\ H \in SUBSET Nat
  BY PartsAre DEF Calm
<1>2. v \in Persist(u)
  OBVIOUS
<1> HIDE DEF G
<1>3. Calm(u, A, B) /\ u.out = "ok"
  BY <1>1, ApprovalsAreCalm
<1> HIDE DEF u
<1>4. Calm(v, A, B)
  BY <1>2, <1>3, PersistIsCalm
<1>5. CASE v.out = "error"
  <2> DEFINE y == [v EXCEPT !.out = "ok"]
             z == Granting(y, H)
  <2>1. Calm(y, A, B) /\ y.out = "ok"
    BY <1>4, <1>5, AgainIsCalm
  <2>2. x \in Refuse(z)
    BY <1>5
  <2> HIDE DEF y, H
  <2>3. Calm(z, A, B) /\ z.out = "ok"
    BY <1>1, <2>1, ApprovalsAreCalm
  <2> HIDE DEF z
  <2>4. Calm(x, A, B) /\ x.out = "error"
    BY <2>2, <2>3, RefuseIsCalm
  <2> QED BY <2>4
<1>6. CASE v.out # "error"
  BY <1>4, <1>6, CountedIsCalm
<1> QED BY <1>5, <1>6

LEMMA AuthorizedIsCalm ==
  ASSUME NEW A, NEW B, NEW w, Calm(w, A, B), Allowed(A, B), Counts, w.out = "ok",
         NEW op, NEW r \in Authorized(w, op)
  PROVE  Calm(r, A, B)
<1> DEFINE F == w.svc.now.grants \ stale
           fresh == Granting(w, F)
           G == fresh.svc.now.grants
<1>1. F \in SUBSET Nat
  BY PartsAre DEF Calm
<1>2. Calm(fresh, A, B) /\ fresh.out = "ok"
  <2> HIDE DEF F
  <2> QED BY <1>1, ApprovalsAreCalm
<1>3. CASE r \in Sorry(w, None)
  BY <1>3, SorryIsCalm
<1>4. CASE r \in Refuse(fresh)
  <2> HIDE DEF fresh
  <2> QED BY <1>2, <1>4, RefuseIsCalm
<1>5. ASSUME NEW n \in G, r \in Then(Else(Persist(Granting(fresh, G \ {n})),
                                          LAMBDA v : Refuse(Granting(v, G))),
                                     LAMBDA v : {Counted(v, n)})
      PROVE  Calm(r, A, B)
  <2>1. \E v \in Persist(Granting(fresh, G \ {n})) : \E x :
          /\ IF v.out = "error" THEN x \in Refuse(Granting([v EXCEPT !.out = "ok"], G))
             ELSE x = v
          /\ IF x.out = "ok" THEN r = Counted(x, n) ELSE r = x
    <3>1. PICK x \in Else(Persist(Granting(fresh, G \ {n})), LAMBDA v : Refuse(Granting(v, G))) :
            IF x.out = "ok" THEN r = Counted(x, n) ELSE r = x
      BY <1>5 DEF Then
    <3> QED BY <3>1 DEF Else
  <2> HIDE DEF fresh
  <2> QED BY <1>2, <2>1, SpendIsCalm
<1>6. \/ r \in Sorry(w, None) \/ r = w \/ r \in Refuse(fresh)
      \/ \E n \in G : r \in Then(Else(Persist(Granting(fresh, G \ {n})),
                                      LAMBDA v : Refuse(Granting(v, G))),
                                 LAMBDA v : {Counted(v, n)})
  BY DEF Authorized, Granting, Counted
<1> QED BY <1>3, <1>4, <1>5, <1>6

LEMMA CancelledIsCalm ==
  ASSUME NEW A, NEW B, NEW w, Calm(w, A, B), Allowed(A, B), Counts, w.out = "ok",
         NEW a \in Activities, NEW r \in Cancelled(w, a)
  PROVE  Calm(r, A, B)
<1> DEFINE recorded(v) == Record(v, a, "cancelled", <<"cancel", a>>)
           record(v) == Else(recorded(v), LAMBDA u : Sorry(u, a))
           ended == Then(Audit(w, a), record)
<1>1. "cancelled" \in States /\ <<"cancel", a>> \in Keys /\ "cancelled" \in A[a]
  BY QuietIs DEF Keys, Allowed
<1>2. ASSUME NEW x \in ended
      PROVE  Calm(x, A, B)
  <2>1. PICK v \in Audit(w, a) : IF v.out = "ok" THEN x \in record(v) ELSE x = v
    BY <1>2 DEF Then
  <2>2. Calm(v, A, B)
    BY AuditIsCalm
  <2>3. CASE v.out = "ok"
    <3>1. PICK y \in recorded(v) :
            IF y.out = "error" THEN x \in Sorry([y EXCEPT !.out = "ok"], a) ELSE x = y
      BY <2>1, <2>3 DEF Else
    <3>2. Calm(y, A, B)
      BY <1>1, <2>2, <2>3, RecordIsCalm
    <3>3. CASE y.out = "error"
      <4> DEFINE z == [y EXCEPT !.out = "ok"]
      <4>1. Calm(z, A, B) /\ z.out = "ok"
        BY <3>2, <3>3, AgainIsCalm
      <4>2. x \in Sorry(z, a)
        BY <3>1, <3>3
      <4> HIDE DEF z
      <4> QED BY <4>1, <4>2, SorryIsCalm
    <3> QED BY <3>1, <3>2, <3>3
  <2> QED BY <2>1, <2>2, <2>3
<1>3. CASE r \in Then(ended, LAMBDA v : Audit(v, a))
  <2>1. PICK x \in ended : IF x.out = "ok" THEN r \in Audit(x, a) ELSE r = x
    BY <1>3 DEF Then
  <2>2. Calm(x, A, B)
    BY <1>2
  <2> HIDE DEF ended
  <2> QED BY <2>1, <2>2, AuditIsCalm
<1> QED BY <1>3 DEF Cancelled

LEMMA EachCancelledIsCalm ==
  ASSUME NEW A, NEW B, NEW w, Calm(w, A, B), Allowed(A, B), Counts, w.out = "ok",
         NEW order \in Seq(Activities), NEW r \in Each(w, order, Cancelled)
  PROVE  Calm(r, A, B)
<1> DEFINE S == {x \in WorldType : Calm(x, A, B)}
<1>1. w \in S
  BY DEF Calm
<1>2. ASSUME NEW v \in S, NEW a \in Activities, v.out = "ok"
      PROVE  Cancelled(v, a) \subseteq S
  <2> SUFFICES ASSUME NEW x \in Cancelled(v, a) PROVE x \in S
    OBVIOUS
  <2>1. Calm(x, A, B)
    BY <1>2, CancelledIsCalm
  <2> QED BY <2>1 DEF Calm
<1> HIDE DEF S
<1>3. r \in S
  BY <1>1, <1>2, EachCancelledKeeps
<1> QED BY <1>3 DEF S

LEMMA InterruptedIsCalm ==
  ASSUME NEW A, NEW B, NEW w, Calm(w, A, B), Allowed(A, B), Counts, w.out = "ok",
         NEW a \in Activities, NEW r \in Interrupted(w, a)
  PROVE  Calm(r, A, B)
<1>1. "failed" \in States /\ "failed" \in A[a] /\ None \in Keys
  BY QuietIs DEF Allowed
<1>2. PICK v \in Audit(w, a) : IF v.out = "ok" THEN r \in Record(v, a, "failed", None) ELSE r = v
  BY DEF Interrupted, Then
<1>3. Calm(v, A, B)
  BY AuditIsCalm
<1> QED BY <1>1, <1>2, <1>3, RecordIsCalm

LEMMA EachInterruptedIsCalm ==
  ASSUME NEW A, NEW B, NEW w, Calm(w, A, B), Allowed(A, B), Counts, w.out = "ok",
         NEW order \in Seq(Activities), NEW r \in Each(w, order, Interrupted)
  PROVE  Calm(r, A, B)
<1> DEFINE S == {x \in WorldType : Calm(x, A, B)}
<1>1. w \in S
  BY DEF Calm
<1>2. ASSUME NEW v \in S, NEW a \in Activities, v.out = "ok"
      PROVE  Interrupted(v, a) \subseteq S
  <2> SUFFICES ASSUME NEW x \in Interrupted(v, a) PROVE x \in S
    OBVIOUS
  <2>1. Calm(x, A, B)
    BY <1>2, InterruptedIsCalm
  <2> QED BY <2>1 DEF Calm
<1> HIDE DEF S
<1>3. r \in S
  BY <1>1, <1>2, EachInterruptedKeeps
<1> QED BY <1>3 DEF S

\* Requests are let in again, and no pause is acknowledged.
Opened(w) == Told(Closing(w, FALSE), FALSE)

LEMMA OpenedIsCalm ==
  ASSUME NEW A, NEW B, NEW w, Calm(w, A, B), NEW r, r = Opened(w)
  PROVE  Calm(r, A, B) /\ r.out = w.out
<1> DEFINE u == Closing(w, FALSE)
<1>1. u \in {Closing(w, TRUE), Closing(w, FALSE)} /\ r = [u EXCEPT !.held = FALSE]
  BY DEF Opened, Told
<1> HIDE DEF u
<1>2. Calm(u, A, B) /\ u.out = w.out
  BY <1>1, ClosingIsCalm
<1>3. /\ r \in WorldType /\ r.svc = u.svc /\ r.disk = u.disk /\ r.covers = u.covers
      /\ r.faults = u.faults /\ r.crashes = u.crashes /\ r.out = u.out
  BY <1>1, <1>2 DEF Calm, WorldType
<1> QED BY <1>2, <1>3, HistoryIsCalm

\* A pause that fails is taken back.
LEMMA TakenBackIsCalm ==
  ASSUME NEW A, NEW B, NEW w, Calm(w, A, B), Counts, w.out = "error",
         NEW r \in Sorry(Opened([w EXCEPT !.out = "ok"]), None)
  PROVE  Calm(r, A, B)
<1> DEFINE y == [w EXCEPT !.out = "ok"]
           z == Opened(y)
<1>1. Calm(y, A, B) /\ y.out = "ok"
  BY AgainIsCalm
<1>2. r \in Sorry(z, None)
  OBVIOUS
<1> HIDE DEF y
<1>3. Calm(z, A, B) /\ z.out = "ok"
  BY <1>1, OpenedIsCalm
<1> HIDE DEF z
<1> QED BY <1>2, <1>3, SorryIsCalm

LEMMA PausedIsCalm ==
  ASSUME NEW A, NEW B, NEW w, Calm(w, A, B), Allowed(A, B), Counts, w.out = "ok",
         NEW order \in Seq(Activities), NEW r \in Paused(w, order)
  PROVE  Calm(r, A, B)
<1> DEFINE each(v) == Each(Closing(v, TRUE), order, Cancelled)
           undo(v) == Sorry(Opened(v), None)
<1>1. PICK v \in Audit(w, None) :
        IF v.out = "ok" THEN r \in Then(Else(Then(each(v), Local), undo),
                                        LAMBDA x : {Told(x, TRUE)})
        ELSE r = v
  BY DEF Paused, Then, Told, Closing, Opened
<1>2. Calm(v, A, B)
  BY AuditIsCalm
<1>3. CASE v.out = "ok"
  <2>1. PICK x \in Else(Then(each(v), Local), undo) :
           IF x.out = "ok" THEN r = Told(x, TRUE) ELSE r = x
    BY <1>1, <1>3 DEF Then
  <2>2. PICK s \in Then(each(v), Local) :
           IF s.out = "error" THEN x \in Sorry(Opened([s EXCEPT !.out = "ok"]), None)
           ELSE x = s
    BY <2>1 DEF Else
  <2>3. PICK e \in each(v) : IF e.out = "ok" THEN s \in Persist(e) ELSE s = e
    BY <2>2 DEF Then, Local
  <2> DEFINE u == Closing(v, TRUE)
  <2>4. u = Closing(v, TRUE) /\ e \in Each(u, order, Cancelled)
    BY <2>3
  <2> HIDE DEF u, each
  <2>5. Calm(u, A, B) /\ u.out = "ok"
    BY <1>2, <1>3, <2>4, ClosingIsCalm
  <2>6. Calm(e, A, B)
    BY <2>4, <2>5, EachCancelledIsCalm
  <2>7. Calm(s, A, B)
    <3>1. CASE e.out = "ok"
      BY <2>3, <2>6, <3>1, PersistIsCalm
    <3> QED BY <2>3, <2>6, <3>1
  <2>8. Calm(x, A, B)
    <3>1. CASE s.out = "error"
      BY <2>2, <2>7, <3>1, TakenBackIsCalm
    <3> QED BY <2>2, <2>7, <3>1
  <2>9. CASE x.out = "ok"
    <3>1. r = Told(x, TRUE)
      BY <2>1, <2>9
    <3> QED BY <2>8, <3>1, ToldIsCalm
  <2> QED BY <2>1, <2>8, <2>9
<1> QED BY <1>1, <1>2, <1>3

LEMMA ResumedIsCalm ==
  ASSUME NEW A, NEW B, NEW w, Calm(w, A, B), Allowed(A, B), Counts, w.out = "ok",
         NEW r \in Resumed(w)
  PROVE  Calm(r, A, B)
<1> DEFINE undo(v) == Sorry(Closing(v, TRUE), None)
<1>1. PICK v \in Audit(w, None) :
        IF v.out = "ok" THEN r \in Else(Persist(Opened(v)), undo) ELSE r = v
  BY DEF Resumed, Then, Local, Told, Closing, Opened
<1>2. Calm(v, A, B)
  BY AuditIsCalm
<1>3. CASE v.out = "ok"
  <2>1. PICK s \in Persist(Opened(v)) :
           IF s.out = "error" THEN r \in Sorry(Closing([s EXCEPT !.out = "ok"], TRUE), None)
           ELSE r = s
    BY <1>1, <1>3 DEF Else
  <2> DEFINE u == Opened(v)
  <2>2. Calm(u, A, B) /\ u.out = "ok" /\ s \in Persist(u)
    BY <1>2, <1>3, OpenedIsCalm
  <2> HIDE DEF u
  <2>3. Calm(s, A, B)
    BY <2>2, PersistIsCalm
  <2>4. CASE s.out = "error"
    <3> DEFINE y == [s EXCEPT !.out = "ok"]
               z == Closing(y, TRUE)
    <3>1. Calm(y, A, B) /\ y.out = "ok"
      BY <2>3, <2>4, AgainIsCalm
    <3>2. z = Closing(y, TRUE) /\ r \in Sorry(z, None)
      BY <2>1, <2>4
    <3> HIDE DEF y, z
    <3>3. Calm(z, A, B) /\ z.out = "ok"
      BY <3>1, <3>2, ClosingIsCalm
    <3> QED BY <3>2, <3>3, SorryIsCalm
  <2> QED BY <2>1, <2>3, <2>4
<1> QED BY <1>1, <1>2, <1>3

-----------------------------------------------------------------------------
(***************************************************************************)
(* A failure that cannot be audited, and a start.                          *)
(***************************************************************************)

\* A checkpoint is written as a whole, and nothing else changes.
LEMMA PersistRests ==
  ASSUME NEW A, NEW B, NEW w, Calm(w, A, B), w.out = "ok", NEW r \in Persist(w)
  PROVE  /\ r \in WorldType /\ r.svc = w.svc
         /\ r.asked = w.asked /\ r.uses = w.uses /\ r.held = w.held
         /\ r.disk.ck \in {w.disk.ck, w.svc.now}
<1> DEFINE saved == [w EXCEPT !.disk.ck = w.svc.now, !.covers = w.svc.next - 1]
           d == [w.disk EXCEPT !.ck = w.svc.now]
<1>1. w \in WorldType /\ w.svc.next \in Nat \ {0}
  BY WorldFields DEF Calm
<1>2. d \in Disks /\ d.ck = w.svc.now
  BY <1>1, WorldFields DEF Disks
<1>3. w.svc.next - 1 \in Nat
  BY <1>1
<1>4. saved = [w EXCEPT !.disk = d, !.covers = w.svc.next - 1] /\ r \in Written(w, saved)
  BY <1>1 DEF WorldType, Persist
<1> HIDE DEF d, saved
<1>5. /\ saved \in WorldType /\ saved.svc = w.svc /\ saved.disk = d
      /\ saved.asked = w.asked /\ saved.uses = w.uses /\ saved.held = w.held
  BY <1>1, <1>2, <1>3, <1>4 DEF WorldType
<1>6. r \in WorldType /\ (r = saved \/ Like(r, w) \/ Like(r, saved))
  BY <1>1, <1>4, <1>5, WrittenIs
<1> QED BY <1>2, <1>5, <1>6 DEF Like

\* Recording an event changes one activity, in memory and on disk.
LEMMA RecordRests ==
  ASSUME NEW A, NEW B, NEW w, Calm(w, A, B), w.out = "ok",
         NEW a \in Activities, NEW state \in States, state \in A[a],
         NEW r \in Record(w, a, state, None)
  PROVE  /\ r.asked = w.asked /\ r.uses = w.uses /\ r.held = w.held
         /\ SameRest(r.svc.now, w.svc.now)
         /\ r.disk.ck = w.disk.ck \/ (r.disk.ck # None /\ SameRest(r.disk.ck, w.svc.now))
<1> DEFINE event == [state |-> state, odd |-> ~w.svc.now.activity[a].odd]
           E == [w.svc.now.activity EXCEPT ![a] = event]
           c == [w.svc.now EXCEPT !.activity = E]
           next == [w EXCEPT !.svc.now.activity[a] = event]
           undone(v) == [v EXCEPT !.svc.now.activity = w.svc.now.activity]
           kept(v) == [v EXCEPT !.svc.keys = @]
           undo(v) == Refuse(undone(v))
<1>1. w \in WorldType /\ w.svc.now \in Checkpoints /\ None \notin w.svc.keys
  BY WorldFields DEF Calm
<1>2. E \in [Activities -> [state : States, odd : BOOLEAN]]
  BY <1>1 DEF Checkpoints
<1>3. c \in Checkpoints /\ c.activity = E /\ SameRest(c, w.svc.now) /\ c # None
  BY <1>1, <1>2, DashboardAssumption DEF Checkpoints, SameRest
<1>4. next = Holding(w, c)
  BY DEF Holding
<1>5. \A b \in Activities : E[b] = IF b = a THEN event ELSE w.svc.now.activity[b]
  BY <1>1 DEF Checkpoints
<1>6. \A b \in Activities : E[b].state \in A[b]
  BY <1>5 DEF Calm
<1> HIDE DEF E, c
<1>7. Calm(next, A, B) /\ next.svc.now = c /\ next.out = "ok" /\ next.disk = w.disk
  <2> HIDE DEF next
  <2> QED BY <1>3, <1>4, <1>6, HoldingIsCalm
<1>8. next.asked = w.asked /\ next.uses = w.uses /\ next.held = w.held
  BY <1>1 DEF WorldType
<1>9. PICK x \in Else(Persist(next), undo) : IF x.out = "ok" THEN r = kept(x) ELSE r = x
  BY <1>1 DEF Record, Then, next
<1> HIDE DEF next
<1>10. PICK v \in Persist(next) :
         IF v.out = "error" THEN x \in Refuse(undone([v EXCEPT !.out = "ok"])) ELSE x = v
  BY <1>9 DEF Else
<1>11. /\ v \in WorldType /\ v.svc.now = c
       /\ v.asked = w.asked /\ v.uses = w.uses /\ v.held = w.held
       /\ v.disk.ck = w.disk.ck \/ (v.disk.ck # None /\ SameRest(v.disk.ck, w.svc.now))
  <2>1. /\ v \in WorldType /\ v.svc = next.svc
        /\ v.asked = next.asked /\ v.uses = next.uses /\ v.held = next.held
        /\ v.disk.ck \in {next.disk.ck, next.svc.now}
    BY <1>7, PersistRests
  <2> QED BY <1>3, <1>7, <1>8, <2>1
<1>12. /\ x.asked = w.asked /\ x.uses = w.uses /\ x.held = w.held /\ x.disk = v.disk
       /\ SameRest(x.svc.now, w.svc.now)
       /\ x.svc \in Services /\ x \in WorldType
  <2>1. CASE v.out = "error"
    <3> DEFINE b == [v.svc.now EXCEPT !.activity = w.svc.now.activity]
               s == [v.svc EXCEPT !.now = b]
    <3>1. x = [v EXCEPT !.out = "error", !.svc = s]
      BY <1>10, <1>11, <2>1 DEF Refuse, WorldType
    <3>2. b \in Checkpoints /\ SameRest(b, c)
      BY <1>1, <1>3, <1>11 DEF Checkpoints, SameRest
    <3> HIDE DEF b
    <3>3. s \in Services /\ s.now = b
      BY <1>11, <3>2, WorldFields DEF Services
    <3> HIDE DEF s
    <3>4. /\ x \in WorldType /\ x.svc = s /\ x.disk = v.disk
          /\ x.asked = v.asked /\ x.uses = v.uses /\ x.held = v.held
      BY <1>11, <3>1, <3>3 DEF WorldType
    <3> QED BY <1>3, <1>11, <3>2, <3>3, <3>4 DEF SameRest
  <2>2. CASE v.out # "error"
    BY <1>3, <1>10, <1>11, <2>2, WorldFields
  <2> QED BY <2>1, <2>2
<1>13. r = x
  <2>1. kept(x) = x
    BY <1>12 DEF WorldType, Services
  <2> QED BY <1>9, <2>1
<1> QED BY <1>11, <1>12, <1>13

\* The failure is shown without an audit record after a write has failed.
LEMMA UnauditableIsCalm ==
  ASSUME NEW A, NEW B, NEW w, Calm(w, A, B), Allowed(A, B), Counts, w.out = "ok",
         NEW a \in Activities, w.faults < MaxFaults, NEW r \in Unauditable(w, a)
  PROVE  /\ Calm(r, A, B)
         /\ r.asked = w.asked /\ r.uses = w.uses /\ r.held = w.held
         /\ SameRest(r.svc.now, w.svc.now)
         /\ r.disk.ck = w.disk.ck \/ (r.disk.ck # None /\ SameRest(r.disk.ck, w.svc.now))
<1> DEFINE s == [w.svc EXCEPT !.healthy = FALSE]
           u == [w EXCEPT !.svc.healthy = FALSE]
<1>1. CASE r = w
  BY <1>1 DEF SameRest
<1>2. CASE r \in Record(u, a, "failed", None)
  <2>1. w \in WorldType /\ w.svc \in Services /\ w.faults \in 0 .. MaxFaults
    BY WorldFields DEF Calm
  <2>2. s \in Services /\ s.now = w.svc.now /\ s.next = w.svc.next /\ s.keys = w.svc.keys
    BY <2>1 DEF Services
  <2>3. u = [w EXCEPT !.svc = s]
    OBVIOUS
  <2> HIDE DEF s
  <2>4. /\ u.asked = w.asked /\ u.uses = w.uses /\ u.held = w.held
    BY <2>1 DEF WorldType
  <2> HIDE DEF u
  <2>5. /\ w.faults # MaxFaults /\ None \notin s.keys
        /\ \A b \in Activities : s.now.activity[b].state \in A[b]
    BY <2>1, <2>2, BoundsType DEF Calm
  <2>6. Calm(u, A, B) /\ u.svc = s /\ u.disk = w.disk /\ u.out = "ok"
    BY <2>2, <2>3, <2>5, ServedIsCalm
  <2>7. "failed" \in States /\ "failed" \in A[a] /\ None \in Keys
    BY QuietIs DEF Allowed
  <2>8. Calm(r, A, B)
    BY <1>2, <2>6, <2>7, RecordIsCalm
  <2>9. /\ r.asked = u.asked /\ r.uses = u.uses /\ r.held = u.held
        /\ SameRest(r.svc.now, u.svc.now)
        /\ r.disk.ck = u.disk.ck \/ (r.disk.ck # None /\ SameRest(r.disk.ck, u.svc.now))
    BY <1>2, <2>6, <2>7, RecordRests
  <2> QED BY <2>2, <2>4, <2>6, <2>8, <2>9
<1> QED BY <1>1, <1>2 DEF Unauditable

\* The daemon starts with what the checkpoint has, and ends what was at work.
LEMMA StartedIsCalm ==
  ASSUME DashInv, ~svc.up, Counts, crashes < MaxCrashes, NEW A, NEW B, Allowed(A, B),
         disk.ck # None =>
           \A b \in Activities : disk.ck.activity[b].state \in A[b],
         NEW order \in Seq(Activities), NEW r \in Started(World, order)
  PROVE  Calm(r, A, B)
<1> DEFINE now == IF World.disk.ck = None THEN Fresh ELSE World.disk.ck
           s == Service(now, World.disk.last)
           loaded == [World EXCEPT !.svc = s]
<1>1. /\ World.disk \in Disks /\ World.disk.ck = disk.ck /\ World.disk.last = disk.last
      /\ World.covers = 0 /\ World.asked = asked /\ World.uses = uses
      /\ World.held = held /\ World.faults = faults /\ World.crashes = crashes
      /\ World.troubles \in Int /\ World.out = "ok"
  BY WorldIs DEF DashInv
<1>2. disk.last \in Nat /\ disk.ck \in Checkpoints \cup {None}
  BY DEF DashInv, StateType, Disks
<1>3. now \in Checkpoints /\ now = IF disk.ck = None THEN Fresh ELSE disk.ck
  BY <1>1, <1>2, FreshIs
<1>4. \A b \in Activities : now.activity[b].state \in A[b]
  BY <1>3 DEF Fresh, Allowed, Quiet
<1> HIDE DEF now
<1>5. /\ s \in Services /\ s.now = now /\ s.next = disk.last + 1 /\ s.keys = {}
      /\ s.healthy /\ s.store
  BY <1>1, <1>2, <1>3, ServiceIs DEF Service
<1> HIDE DEF s
<1>6. World \in [svc : {svc}, disk : Disks, covers : Nat, asked : Seq(Activities),
                 uses : [Nonces -> Nat], held : BOOLEAN, faults : 0 .. MaxFaults,
                 crashes : Nat, troubles : Int, out : {"ok", "error", "down"}]
  BY <1>1, WorldIs DEF World, DashInv, StateType
<1>7. /\ loaded.svc = s /\ loaded.disk = World.disk /\ loaded.covers = 0
      /\ loaded.faults = faults /\ loaded.crashes = crashes /\ loaded.out = "ok"
  BY <1>1, <1>6
<1>8. loaded \in WorldType
  BY <1>5, <1>6 DEF WorldType
<1>9. PICK x \in Each(loaded, order, Interrupted) :
        IF x.out = "error" THEN r = [[x EXCEPT !.out = "ok"] EXCEPT !.out = "down"] ELSE r = x
  BY DEF Started, Else, loaded, s, now
<1> HIDE DEF loaded
<1>10. Numbered(loaded) /\ faults <= faults /\ crashes <= crashes
  BY <1>1, <1>2, <1>5, <1>7, BoundsType DEF Numbered, Counts
<1>11. Calm(loaded, A, B)
  BY <1>1, <1>4, <1>5, <1>7, <1>8, <1>10 DEF Calm, Allowed
<1>12. Calm(x, A, B)
  BY <1>7, <1>11, EachInterruptedIsCalm
<1>13. CASE x.out = "error"
  <2>1. /\ r \in WorldType /\ r.svc = x.svc /\ r.disk = x.disk /\ r.covers = x.covers
        /\ r.faults = x.faults /\ r.crashes = x.crashes /\ r.out = "down"
    BY <1>9, <1>12, <1>13 DEF Calm, WorldType
  <2>2. /\ x.crashes \in Nat /\ x.faults \in 0 .. MaxFaults /\ x.crashes <= crashes
    BY <1>12, WorldFields DEF Calm
  <2>3. r.faults <= x.faults /\ r.crashes <= x.crashes /\ r.crashes < MaxCrashes
    BY <2>1, <2>2, BoundsType DEF Counts
  <2> QED BY <1>12, <1>13, <2>1, <2>3, AlikeIsCalm
<1> QED BY <1>9, <1>12, <1>13

-----------------------------------------------------------------------------
(***************************************************************************)
(* What a handler does to the states of activities.                        *)
(***************************************************************************)

\* The states there are, and S for a; those, and what the checkpoint has.
Shown(a, S) ==
  [b \in Activities |-> Quiet \cup {State(b)} \cup (IF b = a THEN S ELSE {})]

Saved(a, S) ==
  [b \in Activities |-> Shown(a, S)[b] \cup
                          (IF disk.ck = None THEN {} ELSE {disk.ck.activity[b].state})]

\* The daemon, between two handlers.
Daily ==
  /\ DashInv /\ Counts
  /\ svc.up /\ faults = MaxFaults =>
       svc.healthy /\ svc.store /\ svc.next = disk.last + 1
  /\ ~svc.up => crashes < MaxCrashes

\* A step that shows nothing but the states S of a, and quiet ones.
Moved(a, S) ==
  /\ Daily'
  /\ faults' <= faults /\ crashes' <= crashes
  /\ \A b \in Activities : State(b)' \in Saved(a, S)[b]
  /\ crashes = MaxCrashes => \A b \in Activities : State(b)' \in Shown(a, S)[b]
  /\ disk'.ck # None => \A b \in Activities : disk'.ck.activity[b].state \in Saved(a, S)[b]

LEMMA StatesAreAllowed ==
  ASSUME NEW a, NEW S
  PROVE  Allowed(Shown(a, S), Saved(a, S))
BY DEF Allowed, Shown, Saved

LEMMA WorldIsCalm ==
  ASSUME Daily, svc.up, NEW a, NEW S
  PROVE  /\ Calm(World, Shown(a, S), Saved(a, S)) /\ World.out = "ok" /\ Ready(World)
         /\ World.svc = svc /\ World.disk.ck = disk.ck
         /\ World.faults = faults /\ World.asked = asked /\ World.uses = uses
         /\ World.held = held
<1>1. Ready(World) /\ World.svc = svc
  BY WorldIsReady DEF Daily
<1>2. /\ World.disk.ck = disk.ck /\ World.disk.last = disk.last
      /\ World.faults = faults /\ World.crashes = crashes /\ World.out = "ok"
      /\ World.asked = asked /\ World.uses = uses /\ World.held = held
  BY WorldIs DEF Daily, DashInv
<1>3. World \in WorldType /\ Numbered(World) /\ None \notin World.svc.keys
  BY <1>1 DEF Ready, WorldOK
<1>4. faults <= faults /\ crashes <= crashes
  BY BoundsType DEF Daily, Counts
<1>5. \A b \in Activities : World.svc.now.activity[b].state \in Shown(a, S)[b]
  BY <1>1 DEF Shown, State
<1>6. World.disk.ck # None =>
        \A b \in Activities : World.disk.ck.activity[b].state \in Saved(a, S)[b]
  BY <1>2 DEF Saved
<1>7. Calm(World, Shown(a, S), Saved(a, S))
  BY <1>1, <1>2, <1>3, <1>4, <1>5, <1>6 DEF Calm, Daily
<1> QED BY <1>1, <1>2, <1>7

\* The state takes what the handler ends in.
LEMMA BecomeIsDaily ==
  ASSUME Daily, NEW A, NEW B, Allowed(A, B), NEW r, Calm(r, A, B), Become(r), DashInv'
  PROVE  /\ Daily' /\ faults' <= faults /\ crashes' <= crashes /\ faults' = r.faults
         /\ svc'.up <=> r.out # "down"
         /\ svc'.up => svc'.now = r.svc.now
         /\ \A b \in Activities : State(b)' \in A[b]
         /\ disk'.ck # None => \A b \in Activities : disk'.ck.activity[b].state \in B[b]
<1>1. /\ r \in WorldType /\ r.svc \in Services /\ r.disk \in Disks
      /\ r.svc.next \in Nat /\ r.disk.last \in Nat /\ r.covers \in Nat
      /\ r.covers < r.svc.next /\ r.covers <= r.disk.last
      /\ r.faults \in 0 .. MaxFaults /\ r.crashes \in Nat
  BY WorldFields DEF Calm, Numbered
<1> DEFINE s == [r.svc EXCEPT !.next = @ - r.covers]
           d == [r.disk EXCEPT !.last = @ - r.covers]
<1>2. /\ s.now = r.svc.now /\ s.up /\ s.next = r.svc.next - r.covers
      /\ s.healthy = r.svc.healthy /\ s.store = r.svc.store
  BY <1>1 DEF Services
<1>3. d.ck = r.disk.ck /\ d.last = r.disk.last - r.covers
  BY <1>1 DEF Disks
<1>4. /\ svc' = IF r.out = "down" THEN Down ELSE s
      /\ disk' = d /\ faults' = r.faults /\ crashes' = r.crashes
  BY DEF Become
<1> HIDE DEF s, d
<1>5. /\ svc'.up <=> r.out # "down"
      /\ svc'.up => svc'.now = r.svc.now
      /\ ~svc'.up => svc'.now = Fresh
  BY <1>2, <1>4, DownIs
<1>6. Counts' /\ faults' <= faults /\ crashes' <= crashes
  BY <1>1, <1>4, BoundsType DEF Calm, Daily, Counts
<1>7. svc'.up /\ faults' = MaxFaults =>
        svc'.healthy /\ svc'.store /\ svc'.next = disk'.last + 1
  <2> SUFFICES ASSUME svc'.up, faults' = MaxFaults
               PROVE  svc'.healthy /\ svc'.store /\ svc'.next = disk'.last + 1
    OBVIOUS
  <2>1. r.svc.healthy /\ r.svc.store /\ r.svc.next = r.disk.last + 1
    BY <1>4, <1>5 DEF Calm
  <2>2. svc' = s /\ disk' = d
    BY <1>4, <1>5
  <2>3. svc'.healthy /\ svc'.store
    BY <1>2, <2>1, <2>2
  <2>4. r.svc.next - r.covers = (r.disk.last - r.covers) + 1
    BY <1>1, <2>1
  <2>5. svc'.next = disk'.last + 1
    BY <1>2, <1>3, <2>2, <2>4
  <2> QED BY <2>3, <2>5
<1>8. ~svc'.up => crashes' < MaxCrashes
  BY <1>4, <1>5 DEF Calm
<1>9. \A b \in Activities : State(b)' \in A[b]
  <2>1. CASE svc'.up
    BY <1>5, <2>1 DEF Calm, State
  <2>2. CASE ~svc'.up
    BY <1>5, <2>2 DEF State, Fresh, Allowed, Quiet
  <2> QED BY <2>1, <2>2
<1>10. disk'.ck # None => \A b \in Activities : disk'.ck.activity[b].state \in B[b]
  BY <1>3, <1>4 DEF Calm
<1>11. faults' = r.faults
  BY <1>4
<1> QED BY <1>5, <1>6, <1>7, <1>8, <1>9, <1>10, <1>11 DEF Daily

LEMMA BecomeIsMoved ==
  ASSUME Daily, NEW a, NEW S, NEW r, Calm(r, Shown(a, S), Saved(a, S)), Become(r), DashInv'
  PROVE  /\ Moved(a, S)
         /\ svc'.up <=> r.out # "down"
         /\ svc'.up => svc'.now = r.svc.now
         /\ faults' = r.faults
<1> DEFINE A == Shown(a, S)
           B == Saved(a, S)
<1>1. Allowed(A, B)
  BY StatesAreAllowed
<1>2. \A b \in Activities : A[b] \subseteq B[b]
  BY <1>1 DEF Allowed
<1>3. Calm(r, A, B)
  OBVIOUS
<1> HIDE DEF A, B
<1>4. /\ Daily' /\ faults' <= faults /\ crashes' <= crashes /\ faults' = r.faults
      /\ svc'.up <=> r.out # "down"
      /\ svc'.up => svc'.now = r.svc.now
      /\ \A b \in Activities : State(b)' \in A[b]
      /\ disk'.ck # None => \A b \in Activities : disk'.ck.activity[b].state \in B[b]
  BY <1>1, <1>3, BecomeIsDaily
<1>5. \A b \in Activities : State(b)' \in B[b]
  BY <1>2, <1>4
<1>6. Moved(a, S)
  BY <1>4, <1>5 DEF Moved, A, B
<1> QED BY <1>4, <1>6

LEMMA HandlerMoves ==
  ASSUME Daily, NEW a, NEW S, NEW r, Calm(r, Shown(a, S), Saved(a, S)), Settled(r),
         Become(r), UNCHANGED <<late, stale>>
  PROVE  /\ Moved(a, S)
         /\ svc'.up <=> r.out # "down"
         /\ svc'.up => svc'.now = r.svc.now
         /\ faults' = r.faults
<1>1. DashInv'
  BY BecomeIsOK DEF StepOK
<1> QED BY <1>1, BecomeIsMoved

\* Requests for access, decisions, pauses and resumes.
LEMMA OthersMove ==
  ASSUME Daily,
         \/ \E a \in Jobs : RequestApproval(a)
         \/ \E n \in Nonces, d \in {"allow", "deny"} : DecideApproval(n, d)
         \/ \E existing \in {"finish", "cancel"} : Pause(existing)
         \/ Resume
  PROVE  Moved(None, {})
<1> DEFINE A == Shown(None, {})
           B == Saved(None, {})
<1>1. svc.up /\ UNCHANGED <<late, stale>>
  BY DEF RequestApproval, DecideApproval, Pause, Resume, Handle
<1>2. /\ Calm(World, A, B) /\ World.out = "ok" /\ Ready(World)
      /\ World.svc = svc /\ World.asked = asked
  BY <1>1, WorldIsCalm
<1>3. Allowed(A, B) /\ Counts
  BY StatesAreAllowed DEF Daily
<1>4. ASSUME NEW r, Calm(r, A, B), Settled(r), Become(r)
      PROVE  Moved(None, {})
  BY <1>1, <1>4, HandlerMoves
<1> HIDE DEF A, B
<1>5. ASSUME NEW a \in Jobs, RequestApproval(a)
      PROVE  Moved(None, {})
  <2>1. PICK r \in Asked(World, a) : Become(r)
    BY <1>5 DEF RequestApproval, Handle
  <2>2. Len(World.asked) < MaxApprovals /\ a \in Activities
    BY <1>2, <1>5 DEF RequestApproval, Activities
  <2>3. Settled(r)
    BY <1>2, <2>1, <2>2, AskedSettles
  <2>4. Calm(r, A, B)
    BY <1>2, <1>3, <2>1, <2>2, AskedIsCalm
  <2> QED BY <1>4, <2>1, <2>3, <2>4
<1>6. ASSUME NEW n \in Nonces, NEW d \in {"allow", "deny"}, DecideApproval(n, d)
      PROVE  Moved(None, {})
  <2>1. PICK r \in Decided(World, n, d) : Become(r)
    BY <1>6 DEF DecideApproval, Handle
  <2>2. World.svc.now = svc.now /\ n \in World.svc.now.pending /\ d \in Decisions
    BY <1>2, <1>6 DEF DecideApproval, Decisions
  <2>3. Settled(r)
    BY <1>2, <2>1, <2>2, DecidedSettles
  <2>4. World.asked[n] \in Activities
    BY <1>2, <2>2, WorldFields DEF Ready, WorldOK, MemoryOK, Unspent
  <2>5. n \in Nat
    BY BoundsType DEF Nonces
  <2>6. Calm(r, A, B)
    BY <1>2, <1>3, <2>1, <2>4, <2>5, DecidedIsCalm
  <2> QED BY <1>4, <2>1, <2>3, <2>6
<1>7. ASSUME NEW existing \in {"finish", "cancel"}, Pause(existing)
      PROVE  Moved(None, {})
  <2>1. PICK order \in IF existing = "finish" THEN {<<>>} ELSE Orders(Activities) :
           Handle(Then(Authorized(World, "pause"), LAMBDA v : Paused(v, order)))
    BY <1>7 DEF Pause
  <2>2. order \in Seq(Activities)
    <3>1. CASE order = <<>>
      BY <3>1
    <3>2. CASE order \in Orders(Activities)
      BY <3>2, OrdersAreSequences
    <3> QED BY <2>1, <3>1, <3>2
  <2>3. PICK r \in Then(Authorized(World, "pause"), LAMBDA v : Paused(v, order)) : Become(r)
    BY <2>1 DEF Handle
  <2>4. PICK v \in Authorized(World, "pause") :
           IF v.out = "ok" THEN r \in Paused(v, order) ELSE r = v
    BY <2>3 DEF Then
  <2>5. Settled(r)
    BY <1>2, <2>2, <2>4, AuthorizedSettles, PausedSettles
  <2>6. Calm(v, A, B)
    BY <1>2, <1>3, <2>4, AuthorizedIsCalm
  <2>7. Calm(r, A, B)
    BY <1>3, <2>2, <2>4, <2>6, PausedIsCalm
  <2> QED BY <1>4, <2>3, <2>5, <2>7
<1>8. ASSUME Resume
      PROVE  Moved(None, {})
  <2>1. PICK r \in Then(Authorized(World, "resume"), Resumed) : Become(r)
    BY <1>8 DEF Resume, Handle
  <2>2. PICK v \in Authorized(World, "resume") :
           IF v.out = "ok" THEN r \in Resumed(v) ELSE r = v
    BY <2>1 DEF Then
  <2>3. Settled(r)
    BY <1>2, <2>2, AuthorizedSettles, ResumedSettles
  <2>4. Calm(v, A, B)
    BY <1>2, <1>3, <2>2, AuthorizedIsCalm
  <2>5. Calm(r, A, B)
    BY <1>3, <2>2, <2>4, ResumedIsCalm
  <2> QED BY <1>4, <2>1, <2>3, <2>5
<1> QED BY <1>5, <1>6, <1>7, <1>8

\* The start and the stop of the daemon.
LEMMA LivesMove ==
  ASSUME Daily, Start \/ Crash
  PROVE  Moved(None, {})
<1>1. CASE Start
  <2> DEFINE saved == IF disk.ck = None THEN Fresh ELSE disk.ck
             lost == {a \in Activities : saved.activity[a].state \in {"queued", "running"}}
             A == Saved(None, {})
  <2>1. PICK order \in Orders(lost) : \E r \in Started(World, order) : Become(r)
    BY <1>1 DEF Start
  <2>2. ~svc.up /\ UNCHANGED <<late, stale>>
    BY <1>1 DEF Start
  <2>3. order \in Seq(Activities)
    <3>1. lost \in SUBSET Activities
      OBVIOUS
    <3> HIDE DEF lost
    <3> QED BY <3>1, OrdersAreSequences
  <2>4. PICK r \in Started(World, order) : Become(r)
    BY <2>1
  <2>5. DashInv /\ Counts /\ crashes < MaxCrashes
    BY <2>2 DEF Daily
  <2>6. Allowed(A, A)
    BY DEF Allowed, Shown, Saved
  <2>7. disk.ck # None => \A b \in Activities : disk.ck.activity[b].state \in A[b]
    BY DEF Saved
  <2> HIDE DEF A, lost, saved
  <2>8. Calm(r, A, A)
    BY <2>2, <2>3, <2>4, <2>5, <2>6, <2>7, StartedIsCalm
  <2>9. DashInv'
    BY <2>2, <2>3, <2>4, <2>5, StartedSettles, BecomeIsOK DEF StepOK
  <2>10. /\ Daily' /\ faults' <= faults /\ crashes' <= crashes
         /\ \A b \in Activities : State(b)' \in A[b]
         /\ disk'.ck # None => \A b \in Activities : disk'.ck.activity[b].state \in A[b]
    BY <2>4, <2>6, <2>8, <2>9, BecomeIsDaily
  <2>11. crashes # MaxCrashes
    BY <2>5, BoundsType DEF Counts
  <2> QED BY <2>10, <2>11 DEF Moved, A
<1>2. CASE Crash
  <2>1. /\ svc.up /\ svc' = Down /\ crashes' = crashes - 1 /\ crashes > 0
        /\ disk' = disk /\ faults' = faults
    BY <1>2 DEF Crash
  <2>2. DashInv'
    BY <1>2, CrashIsOK DEF StepOK, Daily
  <2>3. Counts' /\ crashes' <= crashes /\ crashes' < MaxCrashes /\ faults' <= faults
    BY <2>1, BoundsType DEF Daily, Counts
  <2>4. ~svc'.up /\ svc'.now = Fresh
    BY <2>1, DownIs
  <2>5. \A b \in Activities : State(b)' = "none"
    BY <2>4 DEF State, Fresh
  <2>6. \A b \in Activities : "none" \in Shown(None, {})[b] /\ "none" \in Saved(None, {})[b]
    BY DEF Shown, Saved, Quiet
  <2>7. disk'.ck # None => \A b \in Activities : disk'.ck.activity[b].state \in Saved(None, {})[b]
    BY <2>1 DEF Saved
  <2> QED BY <2>2, <2>3, <2>4, <2>5, <2>6, <2>7 DEF Moved, Daily
<1> QED BY <1>1, <1>2

-----------------------------------------------------------------------------
(***************************************************************************)
(* The workers.                                                            *)
(***************************************************************************)

Phases == {"idle", "lease", "run", "start", "poll", "away", "back", "end", "clean",
           "settle", "read", "mark", "fail", "leave"}
Failures == {"none", "refused", "disconnected", "cancelled", "audit_unavailable"}

Workers ==
  [phase : Phases, away : BOOLEAN, sent : BOOLEAN, seen : {"none"} \cup Kinds,
   failure : Failures, read : States]

WorkersType ==
  /\ worker \in [Jobs -> Workers] /\ token \subseteq Jobs
  /\ remote \in [Jobs -> {"none", "running"} \cup Kinds] /\ leased \subseteq Jobs
  /\ losses \in 0 .. MaxLosses

\* A success, shown or saved, is that of the job, and so is what a worker saw.
RealOK(a) ==
  /\ State(a) = "succeeded" => remote[a] = "completed"
  /\ disk.ck # None /\ disk.ck.activity[a].state = "succeeded" => remote[a] = "completed"
  /\ worker[a].seen # "none" => remote[a] = worker[a].seen
  /\ worker[a].phase = "end" => worker[a].seen # "none"

\* The worker has shown the end, or has nothing to show.
Over(w) ==
  \/ w.phase \in {"idle", "leave"}
  \/ w.phase \in {"clean", "settle"} /\ w.failure = "none"

AtWork == {"running", "reconnecting"}

WorkOK(a) ==
  /\ worker[a].failure = "audit_unavailable" => faults < MaxFaults
  /\ faults = MaxFaults /\ crashes = MaxCrashes /\ Over(worker[a]) => State(a) \notin AtWork

\* The phases in which the worker holds the device.
Hold == {"start", "poll", "away", "back", "end", "clean"}

LeftOK(a) ==
  Undisturbed =>
    /\ remote[a] = "running" => worker[a].sent /\ worker[a].phase \in Hold
    /\ a \in leased => worker[a].phase \in Hold \cup {"run"}

JobOK(a) == RealOK(a) /\ WorkOK(a) /\ LeftOK(a)

\* The inductive invariant.
RemoteInv ==
  /\ Daily /\ WorkersType
  /\ ~svc.up => worker = [a \in Jobs |-> Idle]
  /\ \A a \in Jobs : JobOK(a)

LEMMA IdleIs ==
  /\ Idle \in Workers /\ Idle.phase = "idle" /\ Idle.seen = "none" /\ Idle.failure = "none"
  /\ \A a \in Jobs : [b \in Jobs |-> Idle][a] = Idle
BY DEF Idle, Workers, Phases, Failures, States

LEMMA LossesType == MaxLosses \in Nat
BY LossesAssumption

\* What is shown of an activity stays real.
LEMMA RealKeeps ==
  ASSUME NEW a \in Jobs, NEW b, NEW S, Moved(b, S), RealOK(a),
         b = a /\ "succeeded" \in S => remote[a] = "completed",
         remote[a] = "completed" => remote'[a] = "completed",
         worker'[a].seen # "none" => remote'[a] = worker'[a].seen,
         worker'[a].phase = "end" => worker'[a].seen # "none"
  PROVE  RealOK(a)'
<1>1. a \in Activities
  BY DEF Activities
<1>2. "succeeded" \in Saved(b, S)[a] => remote[a] = "completed"
  BY <1>1 DEF Saved, Shown, Quiet, RealOK
<1>3. /\ State(a)' \in Saved(b, S)[a]
      /\ disk'.ck # None => disk'.ck.activity[a].state \in Saved(b, S)[a]
  BY <1>1 DEF Moved
<1> QED BY <1>2, <1>3 DEF RealOK, State

\* No worker but the one that makes the step finds its activity changed.
LEMMA OthersKeep ==
  ASSUME Daily, NEW b, NEW S, Moved(b, S), WorkersType, WorkersType',
         NEW a \in Jobs, a # b \/ S = {}, JobOK(a),
         worker'[a] = worker[a] \/ (~svc'.up /\ worker'[a] = Idle),
         remote'[a] = remote[a], a \in leased' <=> a \in leased, losses' <= losses
  PROVE  JobOK(a)'
<1>1. a \in Activities
  BY DEF Activities
<1>2. RealOK(a)'
  BY RealKeeps, IdleIs DEF JobOK, RealOK
<1>3. /\ faults' <= faults /\ faults \in 0 .. MaxFaults /\ faults' \in 0 .. MaxFaults
      /\ crashes' <= crashes /\ crashes \in 0 .. MaxCrashes /\ crashes' \in 0 .. MaxCrashes
      /\ losses \in 0 .. MaxLosses /\ losses' \in 0 .. MaxLosses
      /\ ~svc'.up => crashes' < MaxCrashes
  BY DEF Moved, Daily, Counts, WorkersType
<1>4. /\ faults' = MaxFaults => faults = MaxFaults
      /\ crashes' = MaxCrashes => crashes = MaxCrashes /\ svc'.up
      /\ losses' = MaxLosses => losses = MaxLosses
      /\ faults < MaxFaults => faults' < MaxFaults
  BY <1>3, BoundsType, LossesType
<1>5. crashes' = MaxCrashes => State(a)' \in Quiet \cup {State(a)} /\ worker'[a] = worker[a]
  BY <1>1, <1>4 DEF Moved, Shown
<1>6. WorkOK(a)'
  BY <1>4, <1>5, IdleIs DEF JobOK, WorkOK, AtWork, Quiet
<1>7. LeftOK(a)'
  BY <1>4, <1>5 DEF JobOK, LeftOK, Undisturbed
<1> QED BY <1>2, <1>6, <1>7 DEF JobOK

\* A step for activity a.
LEMMA JobKeeps ==
  ASSUME RemoteInv, NEW a \in Jobs, NEW S, Moved(a, S), WorkersType',
         ~svc'.up => worker' = [b \in Jobs |-> Idle],
         \A b \in Jobs \ {a} :
           /\ worker'[b] = worker[b] \/ (~svc'.up /\ worker'[b] = Idle)
           /\ remote'[b] = remote[b] /\ (b \in leased' <=> b \in leased),
         losses' <= losses, JobOK(a)'
  PROVE  RemoteInv'
<1>1. ASSUME NEW b \in Jobs, b # a
      PROVE  JobOK(b)'
  BY <1>1, OthersKeep DEF RemoteInv
<1>2. Daily'
  BY DEF Moved
<1> QED BY <1>1, <1>2 DEF RemoteInv

\* A step that leaves the service alone.
LEMMA StillMoves ==
  ASSUME Daily, UNCHANGED daemon, NEW a
  PROVE  Moved(a, {})
<1>1. /\ svc' = svc /\ disk' = disk /\ faults' = faults /\ crashes' = crashes
      /\ UNCHANGED <<svc, disk, asked, uses, held, faults, crashes>>
      /\ late \subseteq late' /\ stale \subseteq stale'
  BY DEF daemon, vars
<1>2. DashInv'
  BY <1>1, TimeIsOK DEF Daily
<1>3. Daily'
  BY <1>1, <1>2 DEF Daily, Counts
<1>4. faults' <= faults /\ crashes' <= crashes
  BY <1>1, BoundsType DEF Daily, Counts
<1>5. \A b \in Activities : State(b)' \in Shown(a, {})[b] /\ State(b)' \in Saved(a, {})[b]
  BY <1>1 DEF State, Shown, Saved
<1>6. disk'.ck # None => \A b \in Activities : disk'.ck.activity[b].state \in Saved(a, {})[b]
  BY <1>1 DEF Saved
<1> QED BY <1>3, <1>4, <1>5, <1>6 DEF Moved

\* A step of the worker of a, or one for a, that leaves the service alone.
LEMMA TurnKeeps ==
  ASSUME RemoteInv, NEW a \in Jobs, NEW w \in Workers, svc.up, UNCHANGED daemon,
         worker' = [worker EXCEPT ![a] = w],
         NEW T \in SUBSET Jobs, token' = T,
         NEW m \in {"none", "running"} \cup Kinds, remote' = [remote EXCEPT ![a] = m],
         leased' \in {leased, leased \cup {a}, leased \ {a}},
         losses' \in 0 .. MaxLosses, losses' <= losses,
         remote[a] = "completed" => m = "completed",
         w.seen # "none" => m = w.seen,
         w.phase = "end" => w.seen # "none",
         w.failure = "audit_unavailable" => worker[a].failure = "audit_unavailable",
         Over(w) => Over(worker[a]) \/ State(a) \notin AtWork,
         Undisturbed /\ losses' = losses =>
           /\ m = "running" => w.sent /\ w.phase \in Hold
           /\ a \in leased' => w.phase \in Hold \cup {"run"}
  PROVE  RemoteInv'
<1>1. worker'[a] = w /\ remote'[a] = m /\ WorkersType'
  BY DEF RemoteInv, WorkersType
<1>2. Moved(a, {})
  BY StillMoves DEF RemoteInv
<1>3. svc' = svc /\ disk' = disk /\ faults' = faults /\ crashes' = crashes
  BY DEF daemon, vars
<1>4. RealOK(a)'
  BY <1>1, <1>2, RealKeeps DEF RemoteInv, JobOK
<1>5. WorkOK(a)'
  BY <1>1, <1>3 DEF RemoteInv, JobOK, WorkOK, State
<1>6. LeftOK(a)'
  <2>1. Undisturbed' => Undisturbed /\ losses' = losses
    BY <1>3, LossesType DEF Undisturbed, RemoteInv, WorkersType
  <2> QED BY <1>1, <2>1 DEF LeftOK
<1>7. \A b \in Jobs \ {a} :
        worker'[b] = worker[b] /\ remote'[b] = remote[b] /\ (b \in leased' <=> b \in leased)
  BY DEF RemoteInv, WorkersType
<1> QED BY <1>1, <1>2, <1>3, <1>4, <1>5, <1>6, <1>7, JobKeeps DEF JobOK

LEMMA WorkerLives ==
  ASSUME RemoteInv, NEW a \in Jobs, worker[a].phase # "idle"
  PROVE  svc.up
BY IdleIs DEF RemoteInv

LEMMA WorkerFields ==
  ASSUME WorkersType, NEW a \in Jobs
  PROVE  /\ worker[a] \in Workers
         /\ worker[a].phase \in Phases /\ worker[a].failure \in Failures
         /\ worker[a].seen \in {"none"} \cup Kinds
         /\ worker[a].away \in BOOLEAN /\ worker[a].sent \in BOOLEAN
         /\ remote[a] \in {"none", "running"} \cup Kinds
         /\ losses \in 0 .. MaxLosses /\ token \in SUBSET Jobs
BY DEF WorkersType, Workers

\* The worker goes to phase p: what it has seen and sent stays.
LEMMA PhaseIs ==
  ASSUME NEW w \in Workers, NEW p \in Phases, NEW v, v = [w EXCEPT !.phase = p]
  PROVE  /\ v \in Workers /\ v.phase = p /\ v.seen = w.seen /\ v.sent = w.sent
         /\ v.failure = w.failure /\ v.away = w.away
BY DEF Workers

LEMMA FailedIs ==
  ASSUME WorkersType, NEW a \in Jobs, NEW f \in Failures, NEW v, v = Failed(a, f)
  PROVE  /\ v \in Workers /\ v.seen = worker[a].seen /\ v.sent = worker[a].sent
         /\ v.failure = f
         /\ v.phase = IF worker[a].phase = "lease" THEN "settle" ELSE "clean"
BY WorkerFields DEF Failed, Workers, Phases

LEMMA LossIs ==
  ASSUME WorkersType, NEW E, Lost(E)
  PROVE  losses' \in 0 .. MaxLosses /\ losses' < losses /\ losses' <= losses
BY LossesType DEF Lost, WorkersType

LEMMA StartExecutionKeeps ==
  ASSUME RemoteInv, NEW a \in Jobs, StartExecution(a)
  PROVE  RemoteInv'
<1> DEFINE w == [worker[a] EXCEPT !.phase = "lease"]
           T == token \ {a}
<1>1. WorkersType /\ svc.up /\ worker[a].phase = "idle" /\ JobOK(a)
  BY DEF StartExecution, RemoteInv
<1>2. /\ UNCHANGED daemon /\ worker' = [worker EXCEPT ![a] = w] /\ token' = T
      /\ UNCHANGED <<remote, leased, losses>>
  BY <1>1 DEF StartExecution, WorkersType
<1>3. w \in Workers /\ w.phase = "lease" /\ w.seen = worker[a].seen /\ w.failure = worker[a].failure
  BY <1>1, WorkerFields DEF Workers, Phases
<1>4. T \in SUBSET Jobs
  BY <1>1 DEF WorkersType
<1> HIDE DEF w, T
<1>5. PICK m : m = remote[a]
  OBVIOUS
<1>6. remote' = [remote EXCEPT ![a] = m] /\ m \in {"none", "running"} \cup Kinds
  BY <1>1, <1>2, <1>5 DEF WorkersType
<1>7. leased' = leased /\ losses' \in 0 .. MaxLosses /\ losses' <= losses
  BY <1>1, <1>2, LossesType DEF WorkersType
<1>8. /\ w.seen # "none" => m = w.seen
      /\ ~Over(w)
      /\ Undisturbed => m # "running" /\ a \notin leased'
  BY <1>1, <1>2, <1>3, <1>5 DEF JobOK, RealOK, LeftOK, Over, Hold
<1> QED BY <1>1, <1>2, <1>3, <1>4, <1>5, <1>6, <1>7, <1>8, TurnKeeps

\* The worker and the registry: what is common to its steps.
LEMMA RegistryKeeps ==
  ASSUME RemoteInv, NEW a \in Jobs, NEW w \in Workers, worker[a].phase # "idle",
         Turns(a, w),
         NEW m \in {"none", "running"} \cup Kinds, remote' = [remote EXCEPT ![a] = m],
         leased' \in {leased, leased \cup {a}, leased \ {a}},
         losses' \in 0 .. MaxLosses, losses' <= losses,
         remote[a] = "completed" => m = "completed",
         w.seen # "none" => m = w.seen,
         w.phase = "end" => w.seen # "none",
         w.failure = "audit_unavailable" => worker[a].failure = "audit_unavailable",
         Over(w) => Over(worker[a]) \/ State(a) \notin AtWork,
         Undisturbed /\ losses' = losses =>
           /\ m = "running" => w.sent /\ w.phase \in Hold
           /\ a \in leased' => w.phase \in Hold \cup {"run"}
  PROVE  RemoteInv'
<1>1. svc.up
  BY WorkerLives
<1>2. UNCHANGED daemon /\ worker' = [worker EXCEPT ![a] = w]
  BY DEF Turns
<1>3. PICK T \in SUBSET Jobs : token' = T
  BY DEF Turns, RemoteInv, WorkersType
<1> QED BY <1>1, <1>2, <1>3, TurnKeeps

\* Steps that leave the registry alone, too.
LEMMA AloneKeeps ==
  ASSUME RemoteInv, NEW a \in Jobs, NEW w \in Workers, worker[a].phase # "idle",
         Turns(a, w), UNCHANGED <<remote, leased>>,
         losses' \in 0 .. MaxLosses, losses' <= losses,
         w.seen # "none" => remote[a] = w.seen,
         w.phase = "end" => w.seen # "none",
         w.failure = "audit_unavailable" => worker[a].failure = "audit_unavailable",
         Over(w) => Over(worker[a]) \/ State(a) \notin AtWork,
         Undisturbed /\ losses' = losses =>
           /\ remote[a] = "running" => w.sent /\ w.phase \in Hold
           /\ a \in leased => w.phase \in Hold \cup {"run"}
  PROVE  RemoteInv'
<1>1. PICK m : m = remote[a]
  OBVIOUS
<1>2. remote' = [remote EXCEPT ![a] = m] /\ m \in {"none", "running"} \cup Kinds
  BY <1>1 DEF RemoteInv, WorkersType
<1> QED BY <1>1, <1>2, RegistryKeeps

LEMMA AcquireLeaseKeeps ==
  ASSUME RemoteInv, NEW a \in Jobs, AcquireLease(a)
  PROVE  RemoteInv'
<1>1. /\ WorkersType /\ worker[a].phase = "lease" /\ RealOK(a) /\ JobOK(a)
  BY DEF AcquireLease, RemoteInv, JobOK
<1>2. /\ worker[a] \in Workers /\ losses \in 0 .. MaxLosses
      /\ losses \in Nat /\ losses <= losses
  BY <1>1, WorkerFields, LossesType
<1>3. Undisturbed => remote[a] # "running" /\ a \notin leased
  BY <1>1 DEF JobOK, LeftOK, Hold
<1>4. /\ worker[a].seen # "none" => remote[a] = worker[a].seen
  BY <1>1 DEF RealOK
<1>5. remote' = remote /\ leased' \in {leased, leased \cup {a}}
  BY DEF AcquireLease, Answered, Lost
<1>6. PICK m : m = remote[a]
  OBVIOUS
<1>7. remote' = [remote EXCEPT ![a] = m] /\ m \in {"none", "running"} \cup Kinds
  BY <1>1, <1>5, <1>6 DEF WorkersType
<1>8. CASE /\ Answered(leased' = leased \cup {a} /\ UNCHANGED remote)
           /\ Turns(a, IF a \in token
                       THEN [worker[a] EXCEPT !.phase = "clean", !.failure = "cancelled"]
                       ELSE [worker[a] EXCEPT !.phase = "run"])
  <2>1. PICK w : w = IF a \in token
                     THEN [worker[a] EXCEPT !.phase = "clean", !.failure = "cancelled"]
                     ELSE [worker[a] EXCEPT !.phase = "run"]
    OBVIOUS
  <2>2. /\ w \in Workers /\ w.seen = worker[a].seen /\ w.phase \in {"clean", "run"}
        /\ w.phase = "clean" => w.failure = "cancelled"
        /\ w.failure = "audit_unavailable" => worker[a].failure = "audit_unavailable"
    BY <1>2, <2>1 DEF Workers, Phases, Failures
  <2>3. Turns(a, w) /\ losses' = losses
    BY <1>8, <2>1 DEF Answered
  <2>4. ~Over(w) /\ w.phase \in Hold \cup {"run"} /\ w.phase # "end"
    BY <2>2 DEF Over, Hold
  <2> QED BY <1>1, <1>2, <1>3, <1>4, <1>5, <1>6, <1>7, <2>2, <2>3, <2>4, RegistryKeeps
<1>9. CASE Answered(UNCHANGED <<remote, leased>>) /\ Turns(a, Failed(a, "refused"))
  <2>1. PICK w : w = Failed(a, "refused")
    OBVIOUS
  <2>2. w \in Workers /\ w.seen = worker[a].seen /\ w.phase = "settle" /\ w.failure = "refused"
    BY <1>1, <2>1, FailedIs DEF Failures
  <2>3. Turns(a, w) /\ UNCHANGED <<remote, leased, losses>> /\ ~Over(w)
    BY <1>9, <2>1, <2>2 DEF Answered, Over
  <2> QED BY <1>1, <1>2, <1>3, <1>4, <2>2, <2>3, AloneKeeps
<1>10. CASE /\ Lost(leased' = leased \cup {a} /\ UNCHANGED remote)
            /\ Turns(a, Failed(a, "disconnected"))
  <2>1. PICK w : w = Failed(a, "disconnected")
    OBVIOUS
  <2>2. w \in Workers /\ w.seen = worker[a].seen /\ w.phase = "settle" /\ w.failure = "disconnected"
    BY <1>1, <2>1, FailedIs DEF Failures
  <2>3. losses' \in 0 .. MaxLosses /\ losses' <= losses /\ losses' # losses
    BY <1>1, <1>2, <1>10, LossesType DEF Lost
  <2>4. Turns(a, w) /\ ~Over(w)
    BY <1>10, <2>1, <2>2 DEF Over
  <2> QED BY <1>1, <1>4, <1>5, <1>6, <1>7, <2>2, <2>3, <2>4, RegistryKeeps
<1> QED BY <1>8, <1>9, <1>10 DEF AcquireLease

LEMMA SubmitJobKeeps ==
  ASSUME RemoteInv, NEW a \in Jobs, SubmitJob(a)
  PROVE  RemoteInv'
<1> DEFINE sent == [worker[a] EXCEPT !.sent = TRUE]
           accepted == [remote EXCEPT ![a] = IF @ = "none" THEN "running" ELSE @]
<1>1. /\ WorkersType /\ worker[a].phase = "run" /\ RealOK(a) /\ JobOK(a)
  BY DEF SubmitJob, RemoteInv, JobOK
<1>2. /\ worker[a] \in Workers /\ losses \in 0 .. MaxLosses
      /\ losses \in Nat /\ losses <= losses
      /\ worker[a].seen \in {"none"} \cup Kinds
  BY <1>1, WorkerFields, LossesType
<1>3. Undisturbed => remote[a] # "running"
  BY <1>1 DEF JobOK, LeftOK, Hold
<1>4. worker[a].seen # "none" => remote[a] = worker[a].seen
  BY <1>1 DEF RealOK
<1>5. leased' = leased /\ remote' \in {remote, accepted}
  BY DEF SubmitJob, Answered, Lost
<1>6. PICK m : m = remote'[a]
  OBVIOUS
<1>7. /\ remote' = [remote EXCEPT ![a] = m] /\ m \in {"none", "running"} \cup Kinds
      /\ m = remote[a] \/ remote[a] = "none"
  BY <1>1, <1>5, <1>6 DEF WorkersType
<1>8. /\ remote[a] = "completed" => m = "completed"
      /\ worker[a].seen # "none" => m = worker[a].seen
  BY <1>2, <1>4, <1>7 DEF Kinds
<1>9. CASE /\ UNCHANGED losses
           /\ Turns(a, IF a \in token
                       THEN [sent EXCEPT !.phase = "clean", !.failure = "cancelled"]
                       ELSE [sent EXCEPT !.phase = "start"])
  <2>1. PICK w : w = IF a \in token
                     THEN [sent EXCEPT !.phase = "clean", !.failure = "cancelled"]
                     ELSE [sent EXCEPT !.phase = "start"]
    OBVIOUS
  <2>2. /\ w \in Workers /\ w.seen = worker[a].seen /\ w.phase \in {"clean", "start"}
        /\ w.sent
        /\ w.phase = "clean" => w.failure = "cancelled"
        /\ w.failure = "audit_unavailable" => worker[a].failure = "audit_unavailable"
    BY <1>2, <2>1 DEF Workers, Phases, Failures
  <2>3. Turns(a, w) /\ losses' = losses
    BY <1>9, <2>1
  <2>4. ~Over(w) /\ w.phase \in Hold /\ w.phase # "end"
    BY <2>2 DEF Over, Hold
  <2> QED BY <1>1, <1>2, <1>5, <1>7, <1>8, <2>2, <2>3, <2>4, RegistryKeeps
<1>10. CASE Answered(UNCHANGED <<remote, leased>>) /\ Turns(a, Failed(a, "refused"))
  <2>1. PICK w : w = Failed(a, "refused")
    OBVIOUS
  <2>2. w \in Workers /\ w.seen = worker[a].seen /\ w.phase = "clean" /\ w.failure = "refused"
    BY <1>1, <2>1, FailedIs DEF Failures
  <2>3. /\ Turns(a, w) /\ UNCHANGED <<remote, leased, losses>> /\ ~Over(w)
        /\ w.phase \in Hold
    BY <1>10, <2>1, <2>2 DEF Answered, Over, Hold
  <2> QED BY <1>1, <1>2, <1>3, <1>4, <2>2, <2>3, AloneKeeps
<1>11. CASE losses > 0 /\ losses' = losses - 1 /\ Turns(a, Failed(a, "disconnected"))
  <2>1. PICK w : w = Failed(a, "disconnected")
    OBVIOUS
  <2>2. w \in Workers /\ w.seen = worker[a].seen /\ w.phase = "clean" /\ w.failure = "disconnected"
    BY <1>1, <2>1, FailedIs DEF Failures
  <2>3. losses' \in 0 .. MaxLosses /\ losses' <= losses /\ losses' # losses
    BY <1>2, <1>11, LossesType
  <2>4. Turns(a, w) /\ ~Over(w)
    BY <1>11, <2>1, <2>2 DEF Over
  <2> QED BY <1>1, <1>5, <1>7, <1>8, <2>2, <2>3, <2>4, RegistryKeeps
<1> QED BY <1>9, <1>10, <1>11 DEF SubmitJob, Answered, Lost

\* The execution fails while the worker holds the device.
LEMMA FailingKeeps ==
  ASSUME RemoteInv, NEW a \in Jobs, worker[a].phase = "poll",
         NEW f \in {"cancelled", "disconnected"}, Turns(a, Failed(a, f)),
         UNCHANGED <<remote, leased, losses>>
  PROVE  RemoteInv'
<1>1. WorkersType /\ RealOK(a) /\ LeftOK(a) /\ losses' \in 0 .. MaxLosses /\ losses' <= losses
  BY LossesType DEF RemoteInv, JobOK, WorkersType
<1>2. PICK w : w = Failed(a, f)
  OBVIOUS
<1>3. /\ w \in Workers /\ w.seen = worker[a].seen /\ w.sent = worker[a].sent
      /\ w.phase = "clean" /\ w.failure = f
  BY <1>1, <1>2, FailedIs DEF Failures
<1>4. Turns(a, w) /\ ~Over(w) /\ w.phase \in Hold
  BY <1>2, <1>3 DEF Over, Hold
<1>5. Undisturbed =>
        /\ remote[a] = "running" => w.sent /\ w.phase \in Hold
        /\ a \in leased => w.phase \in Hold \cup {"run"}
  BY <1>1, <1>3, <1>4 DEF LeftOK, Hold
<1>6. w.seen # "none" => remote[a] = w.seen
  BY <1>1, <1>3 DEF RealOK
<1> QED BY <1>1, <1>3, <1>4, <1>5, <1>6, AloneKeeps

\* The worker goes on among the phases in which it holds the device.
LEMMA GoingOnKeeps ==
  ASSUME RemoteInv, NEW a \in Jobs, worker[a].phase = "poll",
         NEW w \in Workers, Turns(a, w),
         w.sent = worker[a].sent, w.failure = worker[a].failure,
         w.phase \in {"poll", "away", "back", "end"},
         w.seen # "none" => remote[a] = w.seen,
         w.phase = "end" => w.seen # "none",
         UNCHANGED <<remote, leased>>, losses' \in 0 .. MaxLosses, losses' <= losses
  PROVE  RemoteInv'
<1>1. LeftOK(a)
  BY DEF RemoteInv, JobOK
<1>2. ~Over(w) /\ w.phase \in Hold
  BY DEF Over, Hold
<1>3. Undisturbed =>
        /\ remote[a] = "running" => w.sent /\ w.phase \in Hold
        /\ a \in leased => w.phase \in Hold \cup {"run"}
  BY <1>1, <1>2 DEF LeftOK
<1> QED BY <1>2, <1>3, AloneKeeps

LEMMA PollEventsKeeps ==
  ASSUME RemoteInv, NEW a \in Jobs, PollEvents(a)
  PROVE  RemoteInv'
<1> DEFINE seen == IF remote[a] \in Kinds THEN remote[a] ELSE "none"
           shows == [worker[a] EXCEPT
                       !.seen = seen,
                       !.phase = IF worker[a].away THEN "back"
                                 ELSE IF seen = "none" THEN "poll" ELSE "end"]
           missed == [worker[a] EXCEPT !.phase = IF worker[a].away THEN "poll" ELSE "away"]
<1>1. /\ WorkersType /\ worker[a].phase = "poll" /\ UNCHANGED <<remote, leased>>
      /\ worker[a].seen # "none" => remote[a] = worker[a].seen
      /\ losses \in 0 .. MaxLosses /\ losses \in Nat
  BY LossesType DEF PollEvents, RemoteInv, JobOK, RealOK, WorkersType
<1>2. worker[a] \in Workers
  BY <1>1, WorkerFields
<1>3. \/ Turns(a, Failed(a, "cancelled")) /\ UNCHANGED losses
      \/ Turns(a, shows) /\ UNCHANGED losses
      \/ losses > 0 /\ losses' = losses - 1 /\ Turns(a, missed)
  BY DEF PollEvents
<1>4. CASE Turns(a, Failed(a, "cancelled")) /\ UNCHANGED losses
  BY <1>1, <1>4, FailingKeeps
<1>5. CASE Turns(a, shows) /\ UNCHANGED losses
  <2>1. /\ shows \in Workers /\ shows.sent = worker[a].sent /\ shows.failure = worker[a].failure
        /\ shows.seen = seen /\ shows.phase \in {"poll", "back", "end"}
        /\ shows.phase = "end" => seen # "none"
    BY <1>2 DEF Workers, Phases
  <2>2. seen # "none" => remote[a] = seen
    OBVIOUS
  <2>3. losses' \in 0 .. MaxLosses /\ losses' <= losses
    BY <1>1, <1>5
  <2> HIDE DEF shows, seen
  <2> QED BY <1>1, <1>5, <2>1, <2>2, <2>3, GoingOnKeeps
<1>6. CASE losses > 0 /\ losses' = losses - 1 /\ Turns(a, missed)
  <2>1. /\ missed \in Workers /\ missed.sent = worker[a].sent /\ missed.failure = worker[a].failure
        /\ missed.seen = worker[a].seen /\ missed.phase \in {"poll", "away"}
    BY <1>2 DEF Workers, Phases
  <2>2. losses' \in 0 .. MaxLosses /\ losses' <= losses
    BY <1>1, <1>6, LossesType
  <2> HIDE DEF missed
  <2> QED BY <1>1, <1>6, <2>1, <2>2, GoingOnKeeps
<1> QED BY <1>3, <1>4, <1>5, <1>6

LEMMA CleanUpKeeps ==
  ASSUME RemoteInv, NEW a \in Jobs, CleanUp(a)
  PROVE  RemoteInv'
<1> DEFINE cancel == [remote EXCEPT ![a] = IF @ = "running" THEN "cancelled" ELSE @]
<1>1. /\ WorkersType /\ worker[a].phase = "clean" /\ RealOK(a) /\ LeftOK(a)
      /\ losses \in 0 .. MaxLosses /\ losses \in Nat
  BY LossesType DEF CleanUp, RemoteInv, JobOK, WorkersType
<1>2. worker[a] \in Workers /\ worker[a].seen \in {"none"} \cup Kinds
  BY <1>1, WorkerFields
<1>3. worker[a].seen # "none" => remote[a] = worker[a].seen
  BY <1>1 DEF RealOK
<1>4. CASE worker[a].sent
  <2>1. PICK w : w = [worker[a] EXCEPT !.sent = FALSE]
    OBVIOUS
  <2>2. /\ w \in Workers /\ w.seen = worker[a].seen /\ w.phase = "clean"
        /\ w.failure = worker[a].failure
    BY <1>1, <1>2, <2>1 DEF Workers
  <2>3. /\ Turns(a, w) /\ leased' = leased
        /\ \/ remote' = cancel /\ losses' = losses
           \/ remote' \in {remote, cancel} /\ losses' = losses - 1 /\ losses > 0
    BY <1>1, <1>4, <2>1 DEF CleanUp, Answered, Lost
  <2>4. PICK m : m = remote'[a]
    OBVIOUS
  <2>5. /\ remote' = [remote EXCEPT ![a] = m] /\ m \in {"none", "running"} \cup Kinds
        /\ m = remote[a] \/ (remote[a] = "running" /\ m = "cancelled")
        /\ losses' = losses => m # "running"
    BY <1>1, <2>3, <2>4 DEF WorkersType, Kinds
  <2>6. /\ remote[a] = "completed" => m = "completed"
        /\ w.seen # "none" => m = w.seen
    BY <1>2, <1>3, <2>2, <2>5 DEF Kinds
  <2>7. losses' \in 0 .. MaxLosses /\ losses' <= losses
    BY <1>1, <2>3, LossesType
  <2>8. w.phase \in Hold /\ (Over(w) => Over(worker[a]))
    BY <1>1, <2>2 DEF Over, Hold
  <2> QED BY <1>1, <2>2, <2>3, <2>5, <2>6, <2>7, <2>8, RegistryKeeps
<1>5. CASE ~worker[a].sent
  <2>1. PICK w : w = [worker[a] EXCEPT !.phase = "settle"]
    OBVIOUS
  <2>2. /\ w \in Workers /\ w.seen = worker[a].seen /\ w.phase = "settle"
        /\ w.failure = worker[a].failure
    BY <1>2, <2>1, PhaseIs DEF Phases
  <2>3. /\ Turns(a, w) /\ remote' = remote
        /\ \/ leased' = leased \ {a} /\ losses' = losses
           \/ leased' \in {leased, leased \ {a}} /\ losses' = losses - 1 /\ losses > 0
    BY <1>1, <1>5, <2>1 DEF CleanUp, Answered, Lost
  <2>4. PICK m : m = remote[a]
    OBVIOUS
  <2>5. /\ remote' = [remote EXCEPT ![a] = m] /\ m \in {"none", "running"} \cup Kinds
        /\ Undisturbed => m # "running"
    BY <1>1, <1>5, <2>3, <2>4 DEF WorkersType, LeftOK
  <2>6. losses' = losses => a \notin leased'
    BY <1>1, <2>3, LossesType
  <2>7. losses' \in 0 .. MaxLosses /\ losses' <= losses
    BY <1>1, <2>3, LossesType
  <2>8. Over(w) => Over(worker[a])
    BY <1>1, <2>2 DEF Over
  <2>9. leased' \in {leased, leased \ {a}}
    BY <2>3
  <2>10. worker[a].phase # "idle" /\ Turns(a, w)
    BY <1>1, <2>3
  <2>11. /\ remote[a] = "completed" => m = "completed"
         /\ w.seen # "none" => m = w.seen
         /\ w.phase # "end"
    BY <1>3, <2>2, <2>4
  <2>12. Undisturbed /\ losses' = losses =>
           /\ m = "running" => w.sent /\ w.phase \in Hold
           /\ a \in leased' => w.phase \in Hold \cup {"run"}
    BY <2>5, <2>6
  <2> QED BY <2>2, <2>5, <2>7, <2>8, <2>9, <2>10, <2>11, <2>12, RegistryKeeps
<1> QED BY <1>4, <1>5

LEMMA LeavingKeeps ==
  ASSUME RemoteInv, NEW a \in Jobs, NEW w \in Workers, Turns(a, w),
         worker[a].phase \in {"settle", "read", "mark", "fail", "leave"},
         w.phase \in {"idle", "read", "mark", "fail", "leave"},
         w.seen \in {worker[a].seen, "none"},
         w.failure \in {worker[a].failure, "none"},
         w.phase \in {"idle", "leave"} => Over(worker[a]) \/ State(a) \notin AtWork,
         UNCHANGED <<remote, leased, losses>>
  PROVE  RemoteInv'
<1>1. RealOK(a) /\ LeftOK(a) /\ losses' \in 0 .. MaxLosses /\ losses' <= losses
  BY LossesType DEF RemoteInv, JobOK, WorkersType
<1>2. Undisturbed => remote[a] # "running" /\ a \notin leased
  BY <1>1 DEF LeftOK, Hold
<1>3. w.seen # "none" => remote[a] = w.seen
  BY <1>1 DEF RealOK
<1>4. Over(w) => Over(worker[a]) \/ State(a) \notin AtWork
  BY DEF Over
<1> QED BY <1>1, <1>2, <1>3, <1>4, AloneKeeps

\* A handler of the worker that shows one state of its activity.
LEMMA ShowingIs ==
  ASSUME RemoteInv, svc.up, NEW a \in Jobs,
         NEW state \in {"running", "reconnecting", "succeeded", "failed"},
         NEW r \in Transition(World, a, state), Become(r), UNCHANGED <<late, stale>>
  PROVE  /\ Moved(a, {state}) /\ (svc'.up <=> r.out # "down")
         /\ r.out \in {"ok", "error", "down"}
         /\ r.out = "ok" => State(a)' = state
         /\ r.out = "error" =>
              \/ faults' < MaxFaults
              \/ <<State(a), state>> \notin Moves /\ State(a)' = State(a)
<1> DEFINE A == Shown(a, {state})
           B == Saved(a, {state})
<1>1. Daily /\ a \in Activities /\ Counts
  BY DEF RemoteInv, Activities, Daily
<1>2. /\ Calm(World, A, B) /\ World.out = "ok" /\ Ready(World) /\ World.svc = svc
  BY <1>1, WorldIsCalm
<1>3. Allowed(A, B) /\ state \in A[a]
  BY <1>1, StatesAreAllowed DEF Shown
<1> HIDE DEF A, B
<1>4. /\ Calm(r, A, B)
      /\ r.out = "ok" => r.svc.now.activity[a].state = state
      /\ r.out = "error" =>
           \/ r.faults < MaxFaults
           \/ <<World.svc.now.activity[a].state, state>> \notin Moves /\ r.svc = World.svc
  <2>1. state \in States
    BY DEF States, Terminal
  <2> QED BY <1>1, <1>2, <1>3, <2>1, TransitionIsCalm
<1>5. Settled(r)
  BY <1>1, <1>2, TransitionWorks, WorksSettles DEF Ready
<1>6. Calm(r, Shown(a, {state}), Saved(a, {state}))
  BY <1>4 DEF A, B
<1>7. /\ Moved(a, {state}) /\ (svc'.up <=> r.out # "down")
      /\ svc'.up => svc'.now = r.svc.now
      /\ faults' = r.faults
  BY <1>1, <1>5, <1>6, HandlerMoves
<1>8. r.out \in {"ok", "error", "down"}
  BY <1>4, WorldFields DEF Calm
<1>9. r.out = "ok" => State(a)' = state
  BY <1>4, <1>7 DEF State
<1>10. ASSUME r.out = "error"
       PROVE  \/ faults' < MaxFaults
              \/ <<State(a), state>> \notin Moves /\ State(a)' = State(a)
  <2>1. CASE r.faults < MaxFaults
    BY <1>7, <2>1
  <2>2. CASE <<World.svc.now.activity[a].state, state>> \notin Moves /\ r.svc = World.svc
    <3>1. svc'.now = svc.now
      BY <1>2, <1>7, <1>10, <2>2
    <3> QED BY <1>2, <2>2, <3>1 DEF State
  <2> QED BY <1>4, <1>10, <2>1, <2>2
<1> QED BY <1>7, <1>8, <1>9, <1>10

\* The worker becomes w in a handler of the dashboard, or ends with the daemon.
LEMMA ShownKeeps ==
  ASSUME RemoteInv, NEW a \in Jobs, NEW S, Moved(a, S), NEW w \in Workers,
         UNCHANGED <<remote, leased, losses>>,
         IF svc'.up THEN worker' = [worker EXCEPT ![a] = w] /\ UNCHANGED token
         ELSE worker' = [b \in Jobs |-> Idle] /\ token' = {},
         "succeeded" \in S => remote[a] = "completed",
         w.seen = worker[a].seen,
         w.phase = "end" => w.seen # "none",
         svc'.up =>
           /\ w.failure = "audit_unavailable" => faults' < MaxFaults
           /\ faults' = MaxFaults /\ crashes' = MaxCrashes /\ Over(w) => State(a)' \notin AtWork
           /\ Undisturbed' =>
                /\ remote[a] = "running" => w.sent /\ w.phase \in Hold
                /\ a \in leased => w.phase \in Hold \cup {"run"}
  PROVE  RemoteInv'
<1>1. WorkersType /\ RealOK(a) /\ losses' <= losses
  BY LossesType DEF RemoteInv, WorkersType, JobOK
<1>2. WorkersType'
  BY <1>1, IdleIs DEF WorkersType
<1>3. svc'.up => worker'[a] = w
  BY <1>1 DEF WorkersType
<1>4. ~svc'.up => worker'[a] = Idle
  BY IdleIs
<1>5. RealOK(a)'
  BY <1>1, <1>3, <1>4, IdleIs, RealKeeps DEF RealOK
<1>6. ~svc'.up => crashes' # MaxCrashes
  BY BoundsType DEF Moved, Daily, Counts
<1>7. WorkOK(a)'
  BY <1>3, <1>4, <1>6, IdleIs DEF WorkOK
<1>8. LeftOK(a)'
  BY <1>3, <1>6 DEF LeftOK, Undisturbed
<1>9. \A b \in Jobs \ {a} :
        /\ worker'[b] = worker[b] \/ (~svc'.up /\ worker'[b] = Idle)
        /\ remote'[b] = remote[b] /\ (b \in leased' <=> b \in leased)
  BY <1>1, IdleIs DEF WorkersType
<1> QED BY <1>1, <1>2, <1>5, <1>7, <1>8, <1>9, JobKeeps DEF JobOK

\* transition_execution by a worker that holds the device, and what follows.
LEMMA ShowsKeeps ==
  ASSUME RemoteInv, NEW a \in Jobs, worker[a].phase \in {"start", "away", "back", "end"},
         NEW state \in {"running", "reconnecting", "succeeded", "failed"},
         NEW next \in Workers, Shows(a, state, next),
         state = "succeeded" => remote[a] = "completed",
         next.seen = worker[a].seen, next.failure = worker[a].failure,
         next.phase \in Hold, next.phase = "end" => next.seen # "none",
         next.sent = worker[a].sent \/ remote[a] # "running",
         state \in AtWork => ~Over(next)
  PROVE  RemoteInv'
<1> DEFINE f == IF <<State(a), state>> \in Moves THEN "audit_unavailable" ELSE "disconnected"
           after(r) == IF r.out = "ok" THEN next ELSE Failed(a, f)
<1>1. /\ WorkersType /\ RealOK(a) /\ WorkOK(a) /\ LeftOK(a) /\ svc.up
  BY WorkerLives DEF RemoteInv, JobOK
<1>2. PICK r \in Transition(World, a, state) :
        /\ Become(r) /\ UNCHANGED <<late, stale, remote, leased, losses>>
        /\ IF svc'.up THEN worker' = [worker EXCEPT ![a] = after(r)] /\ UNCHANGED token
           ELSE worker' = [b \in Jobs |-> Idle] /\ token' = {}
  BY DEF Shows, Handled
<1>3. /\ Moved(a, {state}) /\ (svc'.up <=> r.out # "down")
      /\ r.out \in {"ok", "error", "down"}
      /\ r.out = "ok" => State(a)' = state
      /\ r.out = "error" =>
           \/ faults' < MaxFaults
           \/ <<State(a), state>> \notin Moves /\ State(a)' = State(a)
  BY <1>1, <1>2, ShowingIs
<1>4. faults' <= faults /\ faults \in 0 .. MaxFaults /\ faults' \in 0 .. MaxFaults
  BY <1>3 DEF RemoteInv, Daily, Counts, Moved
<1>5. Undisturbed' => Undisturbed
  <2>1. crashes' <= crashes /\ crashes \in 0 .. MaxCrashes /\ crashes' \in 0 .. MaxCrashes
    BY <1>3 DEF RemoteInv, Daily, Counts, Moved
  <2> QED BY <1>2, <1>4, <2>1, BoundsType DEF Undisturbed
<1>6. Undisturbed =>
        /\ remote[a] = "running" => worker[a].sent
        /\ worker[a].phase \in Hold
  BY <1>1 DEF LeftOK, Hold
<1>7. CASE r.out = "ok"
  <2>1. after(r) = next
    BY <1>7
  <2>2. next.failure = "audit_unavailable" => faults' < MaxFaults
    BY <1>1, <1>4, BoundsType DEF WorkOK
  <2>3. Over(next) => State(a)' \notin AtWork
    BY <1>3, <1>7
  <2>4. Undisturbed' =>
          /\ remote[a] = "running" => next.sent /\ next.phase \in Hold
          /\ a \in leased => next.phase \in Hold \cup {"run"}
    BY <1>5, <1>6
  <2>5. IF svc'.up THEN worker' = [worker EXCEPT ![a] = next] /\ UNCHANGED token
        ELSE worker' = [b \in Jobs |-> Idle] /\ token' = {}
    BY <1>2, <2>1
  <2> HIDE DEF after, f
  <2> QED BY <1>2, <1>3, <2>2, <2>3, <2>4, <2>5, ShownKeeps
<1>8. CASE r.out # "ok"
  <2>1. PICK w : w = Failed(a, f)
    OBVIOUS
  <2>2. f \in Failures /\ f # "none"
    BY DEF Failures
  <2>3. /\ w \in Workers /\ w.seen = worker[a].seen /\ w.sent = worker[a].sent
        /\ w.phase = "clean" /\ w.failure = f
    BY <1>1, <2>1, <2>2, FailedIs
  <2>4. svc'.up /\ w.failure = "audit_unavailable" => faults' < MaxFaults
    <3>1. svc'.up => r.out = "error"
      BY <1>3, <1>8
    <3> QED BY <1>3, <2>3, <3>1
  <2>5. ~Over(w) /\ w.phase \in Hold
    BY <2>2, <2>3 DEF Over, Hold
  <2>6. Undisturbed' =>
          /\ remote[a] = "running" => w.sent /\ w.phase \in Hold
          /\ a \in leased => w.phase \in Hold \cup {"run"}
    BY <1>5, <1>6, <2>3, <2>5
  <2>7. IF svc'.up THEN worker' = [worker EXCEPT ![a] = w] /\ UNCHANGED token
        ELSE worker' = [b \in Jobs |-> Idle] /\ token' = {}
    BY <1>2, <1>8, <2>1
  <2> HIDE DEF after, f
  <2> QED BY <1>2, <1>3, <2>3, <2>4, <2>5, <2>6, <2>7, ShownKeeps
<1> QED BY <1>7, <1>8

LEMMA ShowingKeeps ==
  ASSUME RemoteInv, NEW a \in Jobs,
         ShowStarted(a) \/ ShowAway(a) \/ ShowBack(a) \/ ShowEnd(a)
  PROVE  RemoteInv'
<1>1. WorkersType /\ RealOK(a)
  BY DEF RemoteInv, JobOK
<1>2. /\ worker[a] \in Workers /\ worker[a].seen \in {"none"} \cup Kinds
      /\ worker[a].seen # "none" => remote[a] = worker[a].seen
  BY <1>1, WorkerFields DEF RealOK
<1>3. CASE ShowStarted(a)
  <2>1. PICK next : next = [worker[a] EXCEPT !.phase = "poll"]
    OBVIOUS
  <2>2. worker[a].phase \in {"start", "away", "back", "end"} /\ Shows(a, "running", next)
    BY <1>3, <2>1 DEF ShowStarted
  <2>3. /\ next \in Workers /\ next.seen = worker[a].seen /\ next.failure = worker[a].failure
        /\ next.sent = worker[a].sent /\ next.phase = "poll"
    BY <1>2, <2>1 DEF Workers, Phases
  <2> QED BY <2>2, <2>3, ShowsKeeps DEF Hold, Over
<1>4. CASE ShowAway(a)
  <2>1. PICK next : next = [worker[a] EXCEPT !.phase = "poll", !.away = TRUE]
    OBVIOUS
  <2>2. worker[a].phase \in {"start", "away", "back", "end"} /\ Shows(a, "reconnecting", next)
    BY <1>4, <2>1 DEF ShowAway
  <2>3. /\ next \in Workers /\ next.seen = worker[a].seen /\ next.failure = worker[a].failure
        /\ next.sent = worker[a].sent /\ next.phase = "poll"
    BY <1>2, <2>1 DEF Workers, Phases
  <2> QED BY <2>2, <2>3, ShowsKeeps DEF Hold, Over
<1>5. CASE ShowBack(a)
  <2>1. PICK next : next = [worker[a] EXCEPT
                              !.away = FALSE,
                              !.phase = IF worker[a].seen = "none" THEN "poll" ELSE "end"]
    OBVIOUS
  <2>2. worker[a].phase \in {"start", "away", "back", "end"} /\ Shows(a, "running", next)
    BY <1>5, <2>1 DEF ShowBack
  <2>3. /\ next \in Workers /\ next.seen = worker[a].seen /\ next.failure = worker[a].failure
        /\ next.sent = worker[a].sent /\ next.phase \in {"poll", "end"}
        /\ next.phase = "end" => next.seen # "none"
    BY <1>2, <2>1 DEF Workers, Phases
  <2>4. next.phase \in Hold /\ ~Over(next)
    BY <2>3 DEF Hold, Over
  <2> QED BY <2>2, <2>3, <2>4, ShowsKeeps
<1>6. CASE ShowEnd(a)
  <2>1. PICK next : next = [worker[a] EXCEPT !.sent = FALSE, !.phase = "clean"]
    OBVIOUS
  <2>2. PICK state : state = IF worker[a].seen = "completed" THEN "succeeded" ELSE "failed"
    OBVIOUS
  <2>3. worker[a].phase = "end" /\ Shows(a, state, next)
    BY <1>6, <2>1, <2>2 DEF ShowEnd
  <2>4. /\ next \in Workers /\ next.seen = worker[a].seen /\ next.failure = worker[a].failure
        /\ next.phase = "clean"
    BY <1>2, <2>1 DEF Workers, Phases
  <2>5. worker[a].seen # "none" /\ remote[a] # "running"
    BY <1>1, <1>2, <2>3 DEF RealOK, Kinds
  <2>6. /\ state \in {"succeeded", "failed"} /\ state \notin AtWork
        /\ state = "succeeded" => remote[a] = "completed"
    BY <1>2, <2>2 DEF AtWork
  <2> QED BY <2>3, <2>4, <2>5, <2>6, ShowsKeeps DEF Hold
<1> QED BY <1>3, <1>4, <1>5, <1>6

\* The failure is shown without an audit record.
LEMMA UnauditableMoves ==
  ASSUME RemoteInv, svc.up, NEW a \in Jobs, faults < MaxFaults,
         NEW r \in Unauditable(World, a), Become(r), UNCHANGED <<late, stale>>
  PROVE  Moved(a, {})
<1> DEFINE A == Shown(a, {})
           B == Saved(a, {})
<1>1. Daily /\ DashInv /\ a \in Activities /\ Counts
  BY DEF RemoteInv, Activities, Daily
<1>2. PICK v : v = World
  OBVIOUS
<1>3. /\ Calm(v, A, B) /\ v.out = "ok" /\ Ready(v) /\ v.faults = faults
  BY <1>1, <1>2, WorldIsCalm
<1>4. Allowed(A, B)
  BY StatesAreAllowed
<1>5. r \in Unauditable(v, a) /\ v.faults < MaxFaults
  BY <1>2, <1>3
<1> HIDE DEF A, B
<1>6. /\ Calm(r, A, B)
      /\ r.asked = v.asked /\ r.uses = v.uses /\ r.held = v.held
      /\ SameRest(r.svc.now, v.svc.now)
      /\ r.disk.ck = v.disk.ck \/ (r.disk.ck # None /\ SameRest(r.disk.ck, v.svc.now))
  BY <1>1, <1>3, <1>4, <1>5, UnauditableIsCalm
<1>7. r.faults < MaxFaults
  <2>1. r.faults \in 0 .. MaxFaults /\ r.faults <= faults /\ faults \in 0 .. MaxFaults
    BY <1>1, <1>6, WorldFields DEF Calm, Counts
  <2> QED BY <2>1, BoundsType
<1>8. Intact(r)
  <2>1. WorldOK(v)
    BY <1>3 DEF Ready
  <2>2. SpentOnce(r)
    BY <1>6, <2>1 DEF WorldOK, SpentOnce
  <2>3. Unspent(v.svc.now, v) /\ (v.disk.ck # None => Unspent(v.disk.ck, v))
    BY <2>1 DEF WorldOK, MemoryOK, DiskOK
  <2>4. Unspent(r.svc.now, r)
    BY <1>6, <2>3 DEF Unspent, SameRest
  <2>5. r.disk.ck # None => Unspent(r.disk.ck, r)
    BY <1>6, <2>3 DEF Unspent, SameRest
  <2>6. Holds(r)
    BY <1>6, <2>1 DEF WorldOK, Holds, SameRest
  <2> QED BY <1>6, <2>2, <2>4, <2>5, <2>6 DEF Intact, Calm
<1>9. Same(r)
  BY <1>6, <1>7, WorldFields, BoundsType DEF Same, Calm
<1>10. DashInv'
  BY <1>8, <1>9, BecomeIsSound
<1>11. Calm(r, Shown(a, {}), Saved(a, {}))
  BY <1>6 DEF A, B
<1> QED BY <1>1, <1>10, <1>11, BecomeIsMoved

\* The worker becomes w in a handler, after which it leaves the device alone.
LEMMA EndingKeeps ==
  ASSUME RemoteInv, NEW a \in Jobs, worker[a].phase \in {"settle", "mark", "fail"},
         NEW S, Moved(a, S), "succeeded" \notin S,
         NEW p \in {"read", "fail", "leave"},
         UNCHANGED <<remote, leased, losses>>,
         IF svc'.up THEN worker' = [worker EXCEPT ![a] = [worker[a] EXCEPT !.phase = p]]
                         /\ UNCHANGED token
         ELSE worker' = [b \in Jobs |-> Idle] /\ token' = {},
         svc'.up /\ p = "leave" /\ faults' = MaxFaults /\ crashes' = MaxCrashes =>
           State(a)' \notin AtWork
  PROVE  RemoteInv'
<1>1. PICK w : w = [worker[a] EXCEPT !.phase = p]
  OBVIOUS
<1>2. WorkersType /\ WorkOK(a) /\ LeftOK(a)
  BY DEF RemoteInv, JobOK
<1>3. worker[a] \in Workers
  BY <1>2, WorkerFields
<1>4. /\ w \in Workers /\ w.phase = p /\ w.seen = worker[a].seen /\ w.sent = worker[a].sent
      /\ w.failure = worker[a].failure
  BY <1>1, <1>3, PhaseIs DEF Phases
<1>5. /\ faults' <= faults /\ faults \in 0 .. MaxFaults /\ faults' \in 0 .. MaxFaults
      /\ crashes' <= crashes /\ crashes \in 0 .. MaxCrashes /\ crashes' \in 0 .. MaxCrashes
  BY DEF RemoteInv, Daily, Counts, Moved
<1>6. w.failure = "audit_unavailable" => faults' < MaxFaults
  BY <1>2, <1>4, <1>5, BoundsType DEF WorkOK
<1>7. Undisturbed' => Undisturbed
  BY <1>5, BoundsType DEF Undisturbed
<1>8. Undisturbed' => remote[a] # "running" /\ a \notin leased
  BY <1>2, <1>7 DEF LeftOK, Hold
<1>9. Over(w) => p = "leave"
  BY <1>4 DEF Over
<1>10. IF svc'.up THEN worker' = [worker EXCEPT ![a] = w] /\ UNCHANGED token
       ELSE worker' = [b \in Jobs |-> Idle] /\ token' = {}
  BY <1>1
<1>11. w.phase # "end"
  BY <1>4
<1>12. svc'.up =>
         /\ w.failure = "audit_unavailable" => faults' < MaxFaults
         /\ faults' = MaxFaults /\ crashes' = MaxCrashes /\ Over(w) => State(a)' \notin AtWork
         /\ Undisturbed' =>
              /\ remote[a] = "running" => w.sent /\ w.phase \in Hold
              /\ a \in leased => w.phase \in Hold \cup {"run"}
  BY <1>6, <1>8, <1>9
<1> QED BY <1>4, <1>10, <1>11, <1>12, ShownKeeps

LEMMA AfterFailureKeeps ==
  ASSUME RemoteInv, NEW a \in Jobs,
         ShowUnauditable(a) \/ ReadState(a) \/ MarkQueued(a) \/ ShowFailed(a) \/ Leave(a)
  PROVE  RemoteInv'
<1>1. WorkersType /\ WorkOK(a) /\ Daily /\ worker[a] \in Workers
  BY WorkerFields DEF RemoteInv, JobOK
<1>2. CASE ShowUnauditable(a) /\ worker[a].failure = "audit_unavailable"
  <2>1. worker[a].phase = "settle" /\ svc.up
    BY <1>2, WorkerLives DEF ShowUnauditable
  <2>2. PICK r \in Unauditable(World, a) :
          /\ Become(r) /\ UNCHANGED <<late, stale, remote, leased, losses>>
          /\ IF svc'.up THEN worker' = [worker EXCEPT ![a] = [worker[a] EXCEPT !.phase = "read"]]
                             /\ UNCHANGED token
             ELSE worker' = [b \in Jobs |-> Idle] /\ token' = {}
    BY <1>2 DEF ShowUnauditable, Handled
  <2>3. Moved(a, {})
    BY <1>1, <1>2, <2>1, <2>2, UnauditableMoves DEF WorkOK
  <2> QED BY <2>1, <2>2, <2>3, EndingKeeps
<1>3. CASE ShowUnauditable(a) /\ worker[a].failure # "audit_unavailable"
  <2>1. PICK w : w = IF worker[a].failure = "none"
                     THEN [worker[a] EXCEPT !.phase = "leave"]
                     ELSE [worker[a] EXCEPT !.phase = "read"]
    OBVIOUS
  <2>2. /\ w \in Workers /\ w.seen = worker[a].seen /\ w.failure = worker[a].failure
        /\ w.phase \in {"read", "leave"}
        /\ w.phase = "leave" => worker[a].failure = "none"
    BY <1>1, <2>1 DEF Workers, Phases
  <2>3. worker[a].phase = "settle" /\ Turns(a, w) /\ UNCHANGED <<remote, leased, losses>>
    BY <1>1, <1>3, <2>1 DEF ShowUnauditable, Workers
  <2>4. w.phase = "leave" => Over(worker[a])
    BY <2>2, <2>3 DEF Over
  <2> QED BY <2>2, <2>3, <2>4, LeavingKeeps
<1>4. CASE ReadState(a)
  <2> DEFINE p == IF State(a) = "queued" THEN "mark"
                  ELSE IF State(a) \in Terminal THEN "leave" ELSE "fail"
  <2>1. PICK w : w = [worker[a] EXCEPT !.read = State(a), !.phase = p]
    OBVIOUS
  <2>2. State(a) \in States
    BY <1>1, FreshIs, DownIs DEF State, Daily, DashInv, StateType, Services, Checkpoints, Activities
  <2>3. /\ w \in Workers /\ w.seen = worker[a].seen /\ w.failure = worker[a].failure
        /\ w.phase = p
    BY <1>1, <2>1, <2>2 DEF Workers, Phases
  <2>4. worker[a].phase = "read" /\ Turns(a, w) /\ UNCHANGED <<remote, leased, losses>>
    BY <1>4, <2>1 DEF ReadState
  <2>5. p \in {"mark", "leave", "fail"} /\ (p = "leave" => State(a) \notin AtWork)
    BY DEF Terminal, AtWork
  <2> QED BY <2>3, <2>4, <2>5, LeavingKeeps
<1>5. CASE MarkQueued(a)
  <2>1. worker[a].phase = "mark" /\ svc.up
    BY <1>5, WorkerLives DEF MarkQueued
  <2>2. PICK r \in Transition(World, a, "reconnecting") :
          /\ Become(r) /\ UNCHANGED <<late, stale, remote, leased, losses>>
          /\ IF svc'.up THEN worker' = [worker EXCEPT ![a] = [worker[a] EXCEPT !.phase = "fail"]]
                             /\ UNCHANGED token
             ELSE worker' = [b \in Jobs |-> Idle] /\ token' = {}
    BY <1>5 DEF MarkQueued, Handled
  <2>3. Moved(a, {"reconnecting"})
    BY <2>1, <2>2, ShowingIs
  <2> QED BY <2>1, <2>2, <2>3, EndingKeeps
<1>6. CASE ShowFailed(a)
  <2>1. worker[a].phase = "fail" /\ svc.up
    BY <1>6, WorkerLives DEF ShowFailed
  <2>2. PICK r \in Transition(World, a, "failed") :
          /\ Become(r) /\ UNCHANGED <<late, stale, remote, leased, losses>>
          /\ IF svc'.up THEN worker' = [worker EXCEPT ![a] = [worker[a] EXCEPT !.phase = "leave"]]
                             /\ UNCHANGED token
             ELSE worker' = [b \in Jobs |-> Idle] /\ token' = {}
    BY <1>6 DEF ShowFailed, Handled
  <2>3. /\ Moved(a, {"failed"}) /\ (svc'.up <=> r.out # "down")
        /\ r.out \in {"ok", "error", "down"}
        /\ r.out = "ok" => State(a)' = "failed"
        /\ r.out = "error" =>
             \/ faults' < MaxFaults
             \/ <<State(a), "failed">> \notin Moves /\ State(a)' = State(a)
    BY <2>1, <2>2, ShowingIs
  <2>4. <<State(a), "failed">> \notin Moves => State(a) \notin AtWork
    BY DEF Moves, AtWork
  <2>5. faults' <= MaxFaults /\ faults' \in Nat
    BY <2>3, BoundsType DEF Moved, Daily, Counts
  <2>6. svc'.up /\ faults' = MaxFaults => State(a)' \notin AtWork
    BY <2>3, <2>4, <2>5, BoundsType DEF AtWork
  <2> QED BY <2>1, <2>2, <2>3, <2>6, EndingKeeps
<1>7. CASE Leave(a)
  <2>1. worker[a].phase = "leave" /\ Turns(a, Idle) /\ UNCHANGED <<remote, leased, losses>>
    BY <1>7 DEF Leave
  <2>2. Over(worker[a])
    BY <2>1 DEF Over
  <2> QED BY <2>1, <2>2, IdleIs, LeavingKeeps
<1> QED BY <1>2, <1>3, <1>4, <1>5, <1>6, <1>7

LEMMA WorkerStepKeeps ==
  ASSUME RemoteInv, NEW a \in Jobs, WorkerStep(a) \/ Deadline(a)
  PROVE  RemoteInv'
<1>1. CASE Deadline(a)
  BY <1>1, FailingKeeps DEF Deadline
<1>2. CASE WorkerStep(a)
  BY <1>2, AcquireLeaseKeeps, SubmitJobKeeps, ShowingKeeps, PollEventsKeeps, CleanUpKeeps,
     AfterFailureKeeps DEF WorkerStep
<1> QED BY <1>1, <1>2

\* Handlers for no worker, and the start and the stop of the daemon.
LEMMA OtherKeeps ==
  ASSUME RemoteInv, NEW a, Moved(a, {}), UNCHANGED <<remote, leased, losses>>,
         token' \subseteq Jobs,
         IF svc'.up THEN worker' = worker ELSE worker' = [b \in Jobs |-> Idle]
  PROVE  RemoteInv'
<1>1. WorkersType /\ losses' <= losses /\ Daily
  BY LossesType DEF RemoteInv, WorkersType
<1>2. WorkersType'
  BY <1>1, IdleIs DEF WorkersType
<1>3. ASSUME NEW b \in Jobs
      PROVE  JobOK(b)'
  <2>1. worker'[b] = worker[b] \/ (~svc'.up /\ worker'[b] = Idle)
    BY IdleIs
  <2> QED BY <1>1, <1>2, <2>1, OthersKeep DEF RemoteInv
<1> QED BY <1>2, <1>3 DEF RemoteInv, Moved

LEMMA CancelExecutionKeeps ==
  ASSUME RemoteInv, NEW a \in Jobs, CancelExecution(a)
  PROVE  RemoteInv'
<1> DEFINE A == Shown(a, {})
           B == Saved(a, {})
<1>1. /\ svc.up /\ UNCHANGED <<late, stale, remote, leased, losses>>
      /\ Daily /\ Counts /\ a \in Activities
  BY DEF CancelExecution, RemoteInv, Daily, Activities
<1>2. PICK r \in Then(Authorized(World, "cancel"), LAMBDA v : Cancelled(v, a)) :
        /\ Become(r)
        /\ IF svc'.up THEN UNCHANGED worker ELSE worker' = [b \in Jobs |-> Idle]
        /\ token' \in {{}, token, token \cup {a}}
  BY DEF CancelExecution
<1>3. /\ Calm(World, A, B) /\ World.out = "ok" /\ Ready(World)
  BY <1>1, WorldIsCalm
<1>4. Allowed(A, B)
  BY StatesAreAllowed
<1> HIDE DEF A, B
<1>5. Settled(r)
  BY <1>1, <1>2, <1>3, CancellationSettles
<1>6. PICK v \in Authorized(World, "cancel") :
        IF v.out = "ok" THEN r \in Cancelled(v, a) ELSE r = v
  BY <1>2 DEF Then
<1>7. Calm(v, A, B)
  BY <1>1, <1>3, <1>4, AuthorizedIsCalm
<1>8. Calm(r, A, B)
  BY <1>1, <1>4, <1>6, <1>7, CancelledIsCalm
<1>9. Calm(r, Shown(a, {}), Saved(a, {}))
  BY <1>8 DEF A, B
<1>10. Moved(a, {})
  BY <1>1, <1>2, <1>5, <1>9, HandlerMoves
<1>11. token' \subseteq Jobs
  BY <1>2 DEF RemoteInv, WorkersType
<1> QED BY <1>1, <1>2, <1>10, <1>11, OtherKeeps

LEMMA OtherRequestKeeps ==
  ASSUME RemoteInv, OtherRequest
  PROVE  RemoteInv'
<1>1. Daily /\ Alive /\ UNCHANGED <<remote, leased, losses>>
  BY DEF RemoteInv, OtherRequest
<1>2. Moved(None, {})
  BY <1>1, OthersMove, LivesMove DEF OtherRequest
<1>3. token' \subseteq Jobs
  BY <1>1 DEF Alive, RemoteInv, WorkersType
<1> QED BY <1>1, <1>2, <1>3, OtherKeeps DEF Alive

LEMMA JobEndsKeeps ==
  ASSUME RemoteInv, NEW a \in Jobs, JobEnds(a)
  PROVE  RemoteInv'
<1>1. PICK kind \in {"completed", "rejected"} : remote' = [remote EXCEPT ![a] = kind]
  BY DEF JobEnds
<1>2. /\ remote[a] = "running" /\ UNCHANGED daemon
      /\ UNCHANGED <<worker, token, leased, losses>>
  BY DEF JobEnds
<1>3. Daily /\ WorkersType /\ JobOK(a) /\ losses' <= losses
  BY <1>2, LossesType DEF RemoteInv, WorkersType
<1>4. WorkersType'
  BY <1>1, <1>2, <1>3 DEF WorkersType, Kinds
<1>5. Moved(a, {})
  BY <1>2, <1>3, StillMoves
<1>6. worker[a].seen = "none"
  BY <1>2, <1>3, WorkerFields DEF JobOK, RealOK, Kinds
<1>7. RealOK(a)'
  BY <1>2, <1>3, <1>5, <1>6, RealKeeps DEF JobOK, RealOK
<1>8. svc' = svc /\ faults' = faults /\ crashes' = crashes
  BY <1>2 DEF daemon, vars
<1>9. WorkOK(a)'
  BY <1>2, <1>3, <1>8 DEF JobOK, WorkOK, State
<1>10. LeftOK(a)'
  BY <1>1, <1>2, <1>3, <1>8 DEF JobOK, LeftOK, Undisturbed, WorkersType
<1>11. ~svc'.up => worker' = [b \in Jobs |-> Idle]
  BY <1>2, <1>8 DEF RemoteInv
<1>12. \A b \in Jobs \ {a} :
         worker'[b] = worker[b] /\ remote'[b] = remote[b] /\ (b \in leased' <=> b \in leased)
  BY <1>1, <1>2, <1>3 DEF WorkersType
<1> QED BY <1>3, <1>4, <1>5, <1>7, <1>9, <1>10, <1>11, <1>12, JobKeeps DEF JobOK

LEMMA RemoteNextKeeps ==
  ASSUME RemoteInv, [RemoteNext]_rvars
  PROVE  RemoteInv'
<1>1. CASE UNCHANGED rvars
  <2>1. /\ UNCHANGED daemon /\ UNCHANGED <<worker, token, remote, leased, losses>>
        /\ svc' = svc
    BY <1>1 DEF rvars, daemon, vars
  <2>2. Moved(None, {}) /\ Daily'
    BY <2>1, StillMoves DEF RemoteInv, Moved
  <2>3. WorkersType' /\ (~svc'.up => worker' = [b \in Jobs |-> Idle]) /\ losses' <= losses
    BY <2>1, LossesType DEF RemoteInv, WorkersType
  <2>4. ASSUME NEW b \in Jobs
        PROVE  JobOK(b)'
    BY <2>1, <2>2, <2>3, OthersKeep DEF RemoteInv
  <2> QED BY <2>2, <2>3, <2>4 DEF RemoteInv
<1> QED BY <1>1, StartExecutionKeeps, WorkerStepKeeps, CancelExecutionKeeps, JobEndsKeeps,
           OtherRequestKeeps DEF RemoteNext

LEMMA RemoteInitIsOK == RemoteInit => RemoteInv
<1> SUFFICES ASSUME RemoteInit PROVE RemoteInv
  OBVIOUS
<1>1. DashInv /\ disk.ck = None /\ disk.last = 0
  BY InitIsOK DEF RemoteInit, Init
<1>2. /\ svc.now = Fresh /\ svc.up /\ svc.healthy /\ svc.store /\ svc.next = 1
  BY ServiceIs DEF RemoteInit, Init, Service
<1>3. faults = MaxFaults /\ crashes = MaxCrashes /\ Counts
  BY BoundsType DEF RemoteInit, Init, Counts
<1>4. Daily
  BY <1>1, <1>2, <1>3 DEF Daily
<1>5. WorkersType
  BY IdleIs, LossesType DEF RemoteInit, WorkersType
<1>6. ASSUME NEW a \in Jobs
      PROVE  JobOK(a)
  <2>1. worker[a] = Idle /\ remote[a] = "none" /\ a \notin leased
    BY DEF RemoteInit
  <2>2. State(a) = "none"
    BY <1>2 DEF State, Fresh, Activities
  <2> QED BY <1>1, <2>1, <2>2, IdleIs DEF JobOK, RealOK, WorkOK, LeftOK, AtWork, Idle
<1> QED BY <1>2, <1>4, <1>5, <1>6 DEF RemoteInv

LEMMA RemoteIsSound == RemoteSpec => []RemoteInv
<1>1. RemoteInv /\ [RemoteNext]_rvars => RemoteInv'
  BY RemoteNextKeeps
<1> QED BY <1>1, RemoteInitIsOK, PTL DEF RemoteSpec

\* An activity is shown as succeeded only if its job was completed, for any jobs
\* and approvals, and whatever calls are lost, writes fail and daemons stop: a
\* job that was submitted is never replaced by another, so what a worker saw is
\* still true when it shows it (run_remote_job, transition_execution).
THEOREM SuccessIsReal == RemoteSpec => []SucceededIsReal
<1>1. RemoteInv => SucceededIsReal
  BY DEF RemoteInv, JobOK, RealOK, SucceededIsReal
<1> QED BY <1>1, RemoteIsSound, PTL

\* Without a failed write and a stop of the daemon no activity is shown at work
\* when its worker is gone: a worker leaves only after it has shown an end, or
\* has found one, and nobody else puts an activity to work (run_remote_job).
THEOREM NobodyWorksAlone == RemoteSpec => []AtWorkIsWorkedOn
<1>1. RemoteInv => AtWorkIsWorkedOn
  BY DEF RemoteInv, JobOK, WorkOK, AtWorkIsWorkedOn, Over, AtWork
<1> QED BY <1>1, RemoteIsSound, PTL

\* A worker that is gone has left neither a running job nor a lease at the
\* registry, when no call was lost, no write failed and the daemon never stopped
\* (RemoteCleanupGuard): it holds them only in the phases that the guard ends.
THEOREM WorkersLeaveNothing == RemoteSpec => []NothingLeftRunning
<1>1. RemoteInv => NothingLeftRunning
  BY DEF RemoteInv, JobOK, LeftOK, Hold, NothingLeftRunning
<1> QED BY <1>1, RemoteIsSound, PTL
=============================================================================
