--------------------------- MODULE Promises_proofs ---------------------------
(***************************************************************************)
(* Registry: what its clients are promised.  What was accepted survives a   *)
(* crash (AcceptedIsDurable), a granted lease is kept (GrantKept), nobody   *)
(* who waits is overtaken (NoOvertaking), and while no write has failed a   *)
(* deferred release always has a writer to wait for (DeferredHasWriter).    *)
(*                                                                         *)
(* The methods of the lease book are summed up by one relation, Evolves:    *)
(* they end leases on the devices they release or had deferred, and promote *)
(* first waiters under fresh ids.  Handlers chain several of them; what a   *)
(* chain does is said by Steps, which composes, and Orderly.                *)
(***************************************************************************)
EXTENDS Registry_proofs

(***************************************************************************)
(* Accepted work: the state on disk is ahead of memory only in what memory  *)
(* has finished with.                                                       *)
(***************************************************************************)
Kept(s, t) ==
  /\ t.requests = s.requests /\ t.pending = s.pending /\ t.done = s.done
  /\ t.job = s.job
  /\ t.apple_pending \subseteq s.apple_pending
  /\ t.cancelled \subseteq s.cancelled

Durable == Kept(stDisk, st)

(***************************************************************************)
(* Leases.                                                                  *)
(***************************************************************************)

\* On each device the lease and the queue stay, or the lease ends and the first
\* waiter, if there is one, is promoted under an id of its own.
Advances(b, c, S) ==
  /\ c.next_id >= b.next_id
  /\ \A d \in Devices :
       \/ c.active[d] = b.active[d] /\ c.waiting[d] = b.waiting[d]
       \/ /\ d \in S /\ b.waiting[d] = << >>
          /\ c.active[d] = NoLease /\ c.waiting[d] = << >>
       \/ /\ d \in S /\ b.waiting[d] # << >>
          /\ c.active[d].id \in (b.next_id + 1) .. c.next_id
          /\ c.active[d].client = Head(b.waiting[d])
          /\ c.waiting[d] = Tail(b.waiting[d])

\* What every method that releases the devices of R does: releases that were
\* deferred may be done as well, and releases of R may be deferred.
Evolves(b, c, R) ==
  /\ Advances(b, c, R \cup b.pending_release)
  /\ c.pending_release \subseteq b.pending_release \cup R

Numbered(b) == \A d \in Devices : b.active[d].id <= b.next_id

\* What a chain of methods does to leases outside of R.
Steps(b, c, R) ==
  /\ c.next_id >= b.next_id
  /\ Numbered(b) => Numbered(c)
  /\ \A d \in Devices : c.active[d] # b.active[d] =>
        c.active[d] = NoLease \/ c.active[d].id > b.next_id
  /\ \A d \in Devices \ (R \cup b.pending_release) : Leased(b, d) =>
        c.active[d] = b.active[d] /\ d \notin c.pending_release

Deferred(b) == \A d \in b.pending_release : Fenced(b, d)
Tidy(b, c)  == Deferred(b) => Deferred(c)

\* A waiter who still waits is still before those who were behind it, none of
\* whom holds the device.
OrderlyOn(b, c, d) ==
  \A i, k \in DOMAIN b.waiting[d] : i < k =>
    \A m \in DOMAIN c.waiting[d] : c.waiting[d][m] = b.waiting[d][i] =>
      /\ c.active[d].client # b.waiting[d][k]
      /\ \A n \in DOMAIN c.waiting[d] :
           c.waiting[d][n] = b.waiting[d][k] => m < n

Orderly(b, c) == \A d \in Devices : OrderlyOn(b, c, d)

\* The grants that are firm are leases that neither the clock nor a deferred
\* release is about to end, in memory and on disk.
FirmIn(b, d) == b.active[d].id = granted[d].id /\ d \notin b.pending_release

GInv ==
  /\ Numbered(book) /\ Numbered(bookDisk)
  /\ up => \A l \in overdue : l <= book.next_id
  /\ \A d \in Devices : granted[d].firm =>
       /\ granted[d].id # 0 /\ granted[d].id \notin overdue
       /\ FirmIn(book, d) /\ FirmIn(bookDisk, d)

DInv == faults = 0 => Deferred(book) /\ Deferred(bookDisk)

OrderlyStep == up /\ up' => Orderly(book, book')

-----------------------------------------------------------------------------
(***************************************************************************)
(* The methods of the book.                                                 *)
(***************************************************************************)
LEMMA ReleaseNowAdvances ==
  ASSUME NEW b, GoodBook(b), NEW S \in SUBSET Devices, NEW c \in ReleaseNow(b, S)
  PROVE  Advances(b, c, S)
<1> DEFINE P == {d \in S : b.waiting[d] # << >>}
           After(ids, d) == IF d \in P
                            THEN [id |-> ids[d], client |-> Head(b.waiting[d])]
                            ELSE IF d \in S THEN NoLease ELSE b.active[d]
           Queue(d) == IF d \in P THEN Tail(b.waiting[d]) ELSE b.waiting[d]
<1>1. PICK ids \in FreshIds(b, P) :
        c = [b EXCEPT !.next_id = b.next_id + Cardinality(P),
                      !.active  = [d \in Devices |-> After(ids, d)],
                      !.waiting = [d \in Devices |-> Queue(d)]]
  BY DEF ReleaseNow
<1>2. b \in Book /\ P \in SUBSET Devices
  BY DEF GoodBook
<1>3. Cardinality(P) \in Nat /\ b.next_id \in Nat
  BY <1>2, FreshIdsType DEF Book
<1>4. /\ c.next_id = b.next_id + Cardinality(P)
      /\ \A d \in Devices : c.active[d] = After(ids, d) /\ c.waiting[d] = Queue(d)
  BY <1>1, <1>2 DEF Book
<1>5. \A d \in P : ids[d] \in (b.next_id + 1) .. c.next_id
  BY <1>4 DEF FreshIds
<1>6. c.next_id >= b.next_id
  BY <1>3, <1>4
<1>7. ASSUME NEW d \in Devices
      PROVE  \/ c.active[d] = b.active[d] /\ c.waiting[d] = b.waiting[d]
             \/ /\ d \in S /\ b.waiting[d] = << >>
                /\ c.active[d] = NoLease /\ c.waiting[d] = << >>
             \/ /\ d \in S /\ b.waiting[d] # << >>
                /\ c.active[d].id \in (b.next_id + 1) .. c.next_id
                /\ c.active[d].client = Head(b.waiting[d])
                /\ c.waiting[d] = Tail(b.waiting[d])
  <2>1. CASE d \in P
    <3>1. /\ c.active[d] = [id |-> ids[d], client |-> Head(b.waiting[d])]
          /\ c.waiting[d] = Tail(b.waiting[d])
      BY <1>4, <2>1
    <3>2. ids[d] \in (b.next_id + 1) .. c.next_id
      BY <1>5, <2>1
    <3>3. d \in S /\ b.waiting[d] # << >>
      BY <2>1
    <3> QED BY <3>1, <3>2, <3>3
  <2>2. CASE d \notin P
    BY <1>4, <2>2
  <2> QED BY <2>1, <2>2
<1> QED BY <1>6, <1>7 DEF Advances

\* A change that leaves ids, leases and queues alone.
SameLeases(b, c) ==
  /\ c.next_id = b.next_id
  /\ c.active = b.active /\ c.waiting = b.waiting

LEMMA AdvancesFromSame ==
  ASSUME NEW b, NEW e, SameLeases(b, e), NEW c, NEW S, NEW R, Advances(e, c, S),
         S \subseteq R
  PROVE  Advances(b, c, R)
BY DEF Advances, SameLeases

LEMMA SameLeasesAdvance ==
  ASSUME NEW b \in Book, NEW c, SameLeases(b, c), NEW S
  PROVE  Advances(b, c, S)
BY DEF Advances, SameLeases, Book

LEMMA ReleaseEvolves ==
  ASSUME NEW b, GoodBook(b), NEW S \in SUBSET Devices, NEW c \in Release(b, S)
  PROVE  GoodBook(c) /\ Evolves(b, c, S) /\ Tidy(b, c)
<1> DEFINE F == {d \in S : Fenced(b, d)}
           e == [b EXCEPT !.pending_release = b.pending_release \cup F]
<1>1. c \in ReleaseNow(e, S \ F)
  BY DEF Release
<1>2. b \in Book
  BY DEF GoodBook
<1>3. /\ SameLeases(b, e) /\ e \in Book
  BY <1>2 DEF SameLeases, Book
<1>4. GoodBook(e)
  BY <1>3 DEF GoodBook, QueueOK, Leased, SameLeases
<1>5. Advances(e, c, S \ F)
  BY <1>1, <1>4, ReleaseNowAdvances
<1>6. /\ GoodBook(c) /\ c.writers = b.writers
      /\ c.pending_release = b.pending_release \cup F
  BY ReleaseIsGood
<1> HIDE DEF e
<1>7. Advances(b, c, S \cup b.pending_release)
  BY <1>3, <1>5, AdvancesFromSame
<1>8. Tidy(b, c)
  BY <1>6 DEF Tidy, Deferred, Fenced
<1> QED BY <1>6, <1>7, <1>8 DEF Evolves

LEMMA DropWritersEvolves ==
  ASSUME NEW b, GoodBook(b), NEW S \in SUBSET Devices, NEW c \in DropWriters(b, S)
  PROVE  GoodBook(c) /\ Evolves(b, c, {}) /\ Tidy(b, c)
<1> DEFINE w == [d \in Devices |-> IF d \in S THEN None ELSE b.writers[d]]
           e == [b EXCEPT !.writers = w,
                          !.pending_release = b.pending_release \ S,
                          !.pending_detach  = b.pending_detach \ S]
<1>1. c \in ReleaseNow(e, S \cap b.pending_release)
  BY DEF DropWriters
<1>2. b \in Book /\ w \in [Devices -> Jobs \cup {None}]
  BY DEF GoodBook, Book
<1> HIDE DEF w
<1>3. /\ SameLeases(b, e) /\ e \in Book
      /\ e.pending_release = b.pending_release \ S
  BY <1>2 DEF SameLeases, Book
<1>4. GoodBook(e)
  BY <1>3 DEF GoodBook, QueueOK, Leased, SameLeases
<1>5. /\ Advances(e, c, S \cap b.pending_release)
      /\ c.pending_release = e.pending_release
  BY <1>1, <1>4, ReleaseNowAdvances, ReleaseNowIsGood
<1>6. GoodBook(c) /\ c.writers = [d \in Devices |-> IF d \in S THEN None ELSE b.writers[d]]
  BY DropWritersIsGood
<1> HIDE DEF e
<1>7. Advances(b, c, {} \cup b.pending_release)
  BY <1>3, <1>5, AdvancesFromSame
<1>8. b.pending_release \subseteq Devices
  BY <1>2 DEF Book
<1>9. Tidy(b, c)
  BY <1>3, <1>5, <1>6, <1>8 DEF Tidy, Deferred, Fenced
<1> QED BY <1>3, <1>5, <1>6, <1>7, <1>9 DEF Evolves

LEMMA ForceReleaseEvolves ==
  ASSUME NEW b, GoodBook(b), NEW d \in Devices, NEW c \in ForceRelease(b, d)
  PROVE  GoodBook(c) /\ Evolves(b, c, {d}) /\ Tidy(b, c)
<1> DEFINE e == [b EXCEPT !.writers[d] = None,
                          !.pending_release = b.pending_release \ {d},
                          !.pending_detach  = b.pending_detach \ {d}]
<1>1. c \in ReleaseNow(e, {d})
  BY DEF ForceRelease
<1>2. b \in Book
  BY DEF GoodBook
<1>3. /\ SameLeases(b, e) /\ e \in Book
      /\ e.pending_release = b.pending_release \ {d}
  BY <1>2 DEF SameLeases, Book
<1>4. GoodBook(e)
  BY <1>3 DEF GoodBook, QueueOK, Leased, SameLeases
<1>5. Advances(e, c, {d}) /\ c.pending_release = e.pending_release
  BY <1>1, <1>4, ReleaseNowAdvances, ReleaseNowIsGood
<1>6. GoodBook(c) /\ c.writers = [b.writers EXCEPT ![d] = None]
  BY ForceReleaseIsGood
<1> HIDE DEF e
<1>7. Advances(b, c, {d} \cup b.pending_release)
  BY <1>3, <1>5, AdvancesFromSame
<1>8. b.writers \in [Devices -> Jobs \cup {None}] /\ b.pending_release \subseteq Devices
  BY <1>2 DEF Book
<1>9. Tidy(b, c)
  BY <1>3, <1>5, <1>6, <1>8 DEF Tidy, Deferred, Fenced
<1> QED BY <1>3, <1>5, <1>6, <1>7, <1>9 DEF Evolves

LEMMA DetachInventoryEvolves ==
  ASSUME NEW b, GoodBook(b), NEW S \in SUBSET Devices,
         NEW c \in DetachInventory(b, S)
  PROVE  GoodBook(c) /\ Evolves(b, c, S) /\ Tidy(b, c)
<1> DEFINE e == [b EXCEPT !.pending_detach =
                             b.pending_detach \cup {d \in S : Fenced(b, d)}]
<1>1. c \in Release(e, S)
  BY DEF DetachInventory
<1>2. b \in Book
  BY DEF GoodBook
<1>3. /\ SameLeases(b, e) /\ e \in Book /\ e.writers = b.writers
      /\ e.pending_release = b.pending_release
  BY <1>2 DEF SameLeases, Book
<1>4. GoodBook(e)
  BY <1>3 DEF GoodBook, QueueOK, Leased, SameLeases
<1> HIDE DEF e
<1>5. GoodBook(c) /\ Evolves(e, c, S) /\ Tidy(e, c)
  BY <1>1, <1>4, ReleaseEvolves
<1>6. Advances(b, c, S \cup b.pending_release)
  BY <1>3, <1>5, AdvancesFromSame DEF Evolves
<1> QED BY <1>3, <1>5, <1>6 DEF Evolves, Tidy, Deferred, Fenced

LEMMA SetWriterEvolves ==
  ASSUME NEW b, GoodBook(b), NEW d \in Devices, NEW j \in Jobs
  PROVE  /\ GoodBook(SetWriter(b, d, j))
         /\ Evolves(b, SetWriter(b, d, j), {}) /\ Tidy(b, SetWriter(b, d, j))
<1> DEFINE c == SetWriter(b, d, j)
<1>1. b \in Book
  BY DEF GoodBook
<1>2. /\ SameLeases(b, c) /\ c.pending_release = b.pending_release
      /\ c.writers = [b.writers EXCEPT ![d] = j]
  BY <1>1 DEF SameLeases, SetWriter, Book
<1>3. GoodBook(c)
  BY SetWriterIsGood
<1> HIDE DEF c
<1>4. Advances(b, c, {} \cup b.pending_release)
  BY <1>1, <1>2, SameLeasesAdvance
<1>5. /\ b.pending_release \subseteq Devices /\ j # None
      /\ b.writers \in [Devices -> Jobs \cup {None}]
  BY <1>1, NoneAssumption DEF Book
<1>6. Tidy(b, c)
  BY <1>2, <1>5 DEF Tidy, Deferred, Fenced
<1> QED BY <1>2, <1>3, <1>4, <1>6 DEF Evolves, c

\* The devices whose lease has passed its expiry.
LateIn(b, late) == {d \in Devices : Leased(b, d) /\ b.active[d].id \in late}

LEMMA ExpireEvolves ==
  ASSUME NEW b, GoodBook(b), NEW late, NEW c \in Expire(b, late)
  PROVE  GoodBook(c) /\ Evolves(b, c, LateIn(b, late)) /\ Tidy(b, c)
<1>1. c \in Release(b, LateIn(b, late)) /\ LateIn(b, late) \in SUBSET Devices
  BY DEF Expire, LateIn
<1> QED BY <1>1, ReleaseEvolves

LEMMA ReconciledEvolves ==
  ASSUME NEW s, NEW b, GoodBook(b), NEW c \in ReconciledBooks(s, b)
  PROVE  GoodBook(c) /\ Evolves(b, c, {}) /\ Tidy(b, c)
<1>1. c \in DropWriters(b, Orphans(s, b)) /\ Orphans(s, b) \in SUBSET Devices
  BY DEF ReconciledBooks, Orphans
<1> QED BY <1>1, DropWritersEvolves

-----------------------------------------------------------------------------
(***************************************************************************)
(* Steps: chains of methods.                                                *)
(***************************************************************************)
LEMMA StepsByEvolving ==
  ASSUME NEW b, GoodBook(b), NEW c, GoodBook(c), NEW R, Evolves(b, c, R)
  PROVE  Steps(b, c, R)
<1>1. /\ b.next_id \in Nat /\ c.next_id \in Nat
      /\ \A d \in Devices : b.active[d].id \in Nat
  BY DEF GoodBook, Book, Lease, NoLease
<1>2. c.next_id >= b.next_id
  BY DEF Evolves, Advances
<1>3. ASSUME NEW d \in Devices, c.active[d] # b.active[d]
      PROVE  /\ d \in R \cup b.pending_release
             /\ \/ c.active[d] = NoLease
                \/ c.active[d].id > b.next_id /\ c.active[d].id <= c.next_id
  BY <1>1, <1>3 DEF Evolves, Advances
<1>4. ASSUME Numbered(b) PROVE Numbered(c)
  <2> SUFFICES ASSUME NEW d \in Devices PROVE c.active[d].id <= c.next_id
    BY DEF Numbered
  <2>1. CASE c.active[d] = b.active[d]
    BY <1>1, <1>2, <1>4, <2>1 DEF Numbered
  <2>2. CASE c.active[d] = NoLease
    BY <1>1, <2>2 DEF NoLease
  <2> QED BY <1>3, <2>1, <2>2
<1>5. c.pending_release \subseteq b.pending_release \cup R
  BY DEF Evolves
<1> QED BY <1>2, <1>3, <1>4, <1>5 DEF Steps

LEMMA StepsByStanding ==
  ASSUME NEW b, GoodBook(b), NEW c, SameLeases(b, c),
         c.pending_release = b.pending_release, NEW R
  PROVE  Steps(b, c, R)
BY DEF Steps, SameLeases, Numbered, GoodBook, Book

LEMMA StepsAreTransitive ==
  ASSUME NEW b, GoodBook(b), NEW c, GoodBook(c), NEW e, GoodBook(e),
         NEW R, Steps(b, c, R), NEW Q, Steps(c, e, Q)
  PROVE  Steps(b, e, R \cup Q)
<1>1. b.next_id \in Nat /\ c.next_id \in Nat /\ e.next_id \in Nat
  BY DEF GoodBook, Book
<1>2. /\ \A d \in Devices : c.active[d].id \in Nat /\ e.active[d].id \in Nat
      /\ b.pending_release \subseteq Devices
  BY DEF GoodBook, Book, Lease, NoLease
<1>3. e.next_id >= b.next_id
  BY <1>1 DEF Steps
<1>4. ASSUME NEW d \in Devices, e.active[d] # b.active[d]
      PROVE  e.active[d] = NoLease \/ e.active[d].id > b.next_id
  <2>1. CASE e.active[d] = c.active[d]
    BY <1>4, <2>1 DEF Steps
  <2>2. CASE e.active[d] # c.active[d]
    BY <1>1, <1>2, <2>2 DEF Steps
  <2> QED BY <2>1, <2>2
<1>5. ASSUME NEW d \in Devices \ ((R \cup Q) \cup b.pending_release), Leased(b, d)
      PROVE  e.active[d] = b.active[d] /\ d \notin e.pending_release
  <2>1. c.active[d] = b.active[d] /\ d \notin c.pending_release
    BY <1>5 DEF Steps
  <2> QED BY <1>5, <2>1 DEF Steps, Leased
<1> QED BY <1>3, <1>4, <1>5 DEF Steps

LEMMA StepsWiden ==
  ASSUME NEW b, NEW c, NEW R, Steps(b, c, R), NEW Q, R \subseteq Q
  PROVE  Steps(b, c, Q)
BY DEF Steps

LEMMA InsertSteps ==
  ASSUME NEW b, GoodBook(b), NEW d \in Devices, NEW cl \in Clients, ~Leased(b, d)
  PROVE  /\ Steps(b, Insert(b, d, cl), {}) /\ Tidy(b, Insert(b, d, cl))
         /\ Insert(b, d, cl).active[d] = [id |-> b.next_id + 1, client |-> cl]
         /\ Insert(b, d, cl).waiting = b.waiting
         /\ Insert(b, d, cl).pending_release = b.pending_release
<1> DEFINE l == [id |-> b.next_id + 1, client |-> cl]
           c == Insert(b, d, cl)
<1>1. b \in Book
  BY DEF GoodBook
<1>2. /\ c.active = [b.active EXCEPT ![d] = l]
      /\ c.next_id = b.next_id + 1 /\ c.waiting = b.waiting
      /\ c.writers = b.writers /\ c.pending_release = b.pending_release
  BY <1>1 DEF Insert, Book
<1>3. /\ b.next_id \in Nat
      /\ \A f \in Devices : b.active[f].id \in Nat
      /\ b.active \in [Devices -> Lease \cup {NoLease}]
  BY <1>1 DEF Book, Lease, NoLease
<1>4. c.active[d] = l /\ \A f \in Devices \ {d} : c.active[f] = b.active[f]
  BY <1>2, <1>3
<1> HIDE DEF c
<1>5. Numbered(b) => Numbered(c)
  <2> SUFFICES ASSUME Numbered(b), NEW f \in Devices
               PROVE  c.active[f].id <= c.next_id
    BY DEF Numbered
  <2>1. CASE f = d
    BY <1>2, <1>3, <1>4, <2>1
  <2>2. CASE f # d
    BY <1>2, <1>3, <1>4, <2>2 DEF Numbered
  <2> QED BY <2>1, <2>2
<1>6. Steps(b, c, {})
  BY <1>2, <1>3, <1>4, <1>5 DEF Steps, Leased
<1>7. Tidy(b, c)
  BY <1>2 DEF Tidy, Deferred, Fenced
<1> QED BY <1>2, <1>4, <1>6, <1>7 DEF c

LEMMA QueuesStep ==
  ASSUME NEW b, GoodBook(b), NEW d \in Devices, NEW cl
  PROVE  /\ Steps(b, Enqueue(b, d, cl), {}) /\ Tidy(b, Enqueue(b, d, cl))
         /\ Steps(b, LeaveQueues(b, cl), {}) /\ Tidy(b, LeaveQueues(b, cl))
<1>1. b \in Book
  BY DEF GoodBook
<1> DEFINE Same(c) == /\ c.next_id = b.next_id /\ c.active = b.active
                      /\ c.writers = b.writers
                      /\ c.pending_release = b.pending_release
<1>2. Same(Enqueue(b, d, cl)) /\ Same(LeaveQueues(b, cl))
  BY <1>1 DEF Enqueue, LeaveQueues, Book
<1>3. ASSUME NEW c, Same(c) PROVE Steps(b, c, {}) /\ Tidy(b, c)
  BY <1>1, <1>3 DEF Steps, Tidy, Deferred, Fenced, Numbered, Book
<1> QED BY <1>2, <1>3

-----------------------------------------------------------------------------
(***************************************************************************)
(* Orderly: what a method does to those who wait, after what was done       *)
(* before it in the same handler.                                           *)
(***************************************************************************)
LEMMA OrderlyAtFirst == ASSUME NEW b, GoodBook(b) PROVE Orderly(b, b)
BY DEF GoodBook, QueueOK, Orderly, OrderlyOn

LEMMA OrderlyOnSame ==
  ASSUME NEW a, NEW b, NEW c, NEW d \in Devices, OrderlyOn(a, b, d),
         c.active[d].client = b.active[d].client, c.waiting[d] = b.waiting[d]
  PROVE  OrderlyOn(a, c, d)
BY DEF OrderlyOn

\* A promotion takes the first of the queue, before whom nobody was.
LEMMA OrderlyEvolves ==
  ASSUME NEW a, NEW b, GoodBook(b), Orderly(a, b), NEW c, NEW R, Evolves(b, c, R)
  PROVE  Orderly(a, c)
<1> SUFFICES ASSUME NEW d \in Devices PROVE OrderlyOn(a, c, d)
  BY DEF Orderly
<1>1. OrderlyOn(a, b, d) /\ b.waiting[d] \in Seq(Clients)
  BY DEF Orderly, GoodBook, Book
<1>2. CASE c.active[d] = b.active[d] /\ c.waiting[d] = b.waiting[d]
  BY <1>1, <1>2, OrderlyOnSame
<1>3. CASE c.waiting[d] = << >>
  BY <1>3 DEF OrderlyOn
<1>4. CASE /\ b.waiting[d] # << >>
           /\ c.active[d].client = Head(b.waiting[d])
           /\ c.waiting[d] = Tail(b.waiting[d])
  <2> DEFINE q == b.waiting[d]
  <2>1. q \in Seq(Clients) /\ q # << >>
    BY <1>1, <1>4
  <2>2. /\ Len(q) \in Nat \ {0} /\ 1 \in DOMAIN q /\ Head(q) = q[1]
        /\ DOMAIN q = 1 .. Len(q)
        /\ \A m \in DOMAIN Tail(q) : /\ m \in Nat /\ m >= 1 /\ m + 1 \in DOMAIN q
                                     /\ Tail(q)[m] = q[m + 1]
    BY <2>1
  <2>3. /\ OrderlyOn(a, b, d) /\ b.waiting[d] = q
        /\ c.active[d].client = q[1] /\ c.waiting[d] = Tail(q)
    BY <1>1, <1>4, <2>2
  <2> HIDE DEF q
  <2> SUFFICES ASSUME NEW i \in DOMAIN a.waiting[d], NEW k \in DOMAIN a.waiting[d],
                      i < k, NEW m \in DOMAIN c.waiting[d],
                      c.waiting[d][m] = a.waiting[d][i]
               PROVE  /\ c.active[d].client # a.waiting[d][k]
                      /\ \A n \in DOMAIN c.waiting[d] :
                           c.waiting[d][n] = a.waiting[d][k] => m < n
    BY DEF OrderlyOn
  <2>4. m \in Nat /\ m >= 1 /\ m + 1 \in DOMAIN q /\ q[m + 1] = a.waiting[d][i]
    BY <2>2, <2>3
  <2>5. \A n \in DOMAIN q : q[n] = a.waiting[d][k] => m + 1 < n
    BY <2>3, <2>4 DEF OrderlyOn
  <2>6. c.active[d].client # a.waiting[d][k]
    BY <2>2, <2>3, <2>4, <2>5
  <2>7. ASSUME NEW n \in DOMAIN c.waiting[d], c.waiting[d][n] = a.waiting[d][k]
        PROVE  m < n
    <3>1. n \in Nat /\ n + 1 \in DOMAIN q /\ q[n + 1] = a.waiting[d][k]
      BY <2>2, <2>3, <2>7
    <3> QED BY <2>4, <2>5, <3>1
  <2> QED BY <2>6, <2>7
<1> QED BY <1>2, <1>3, <1>4 DEF Evolves, Advances

LEMMA OrderlyLeaveQueues ==
  ASSUME NEW a, NEW b, GoodBook(b), Orderly(a, b), NEW cl
  PROVE  Orderly(a, LeaveQueues(b, cl))
<1> DEFINE c == LeaveQueues(b, cl)
<1>1. /\ c.active = b.active
      /\ \A d \in Devices : c.waiting[d] = Without(b.waiting[d], cl)
  BY DEF LeaveQueues, GoodBook, Book
<1> HIDE DEF c
<1>2. ASSUME NEW d \in Devices PROVE OrderlyOn(a, c, d)
  <2>1. OrderlyOn(a, b, d) /\ b.waiting[d] \in Seq(Clients)
    BY DEF Orderly, GoodBook, Book
  <2> DEFINE q == b.waiting[d]
             w == Without(q, cl)
  <2>2. PICK at \in [DOMAIN w -> DOMAIN q] :
          /\ \A i \in DOMAIN w : w[i] = q[at[i]]
          /\ \A i, k \in DOMAIN w : i < k => at[i] < at[k]
    BY <2>1, WithoutKeepsOrder
  <2>3. w \in Seq(Clients)
    BY <2>1, WithoutKeepsOrder
  <2>4. /\ \A i \in DOMAIN w : i \in Nat
        /\ \A i \in DOMAIN q : i \in Nat
    BY <2>1, <2>3
  <2>5. c.waiting[d] = w /\ c.active[d] = b.active[d] /\ b.waiting[d] = q
    BY <1>1
  <2> HIDE DEF q, w
  <2>6. \A m, n \in DOMAIN w : at[m] < at[n] => m < n
    <3> SUFFICES ASSUME NEW m \in DOMAIN w, NEW n \in DOMAIN w, at[m] < at[n], ~(m < n)
                 PROVE  FALSE
      OBVIOUS
    <3>1. m = n \/ n < m
      BY <2>4
    <3>2. at[m] \in Nat /\ at[n] \in Nat
      BY <2>2, <2>4
    <3> QED BY <2>2, <3>1, <3>2
  <2> SUFFICES ASSUME NEW i \in DOMAIN a.waiting[d], NEW k \in DOMAIN a.waiting[d],
                      i < k, NEW m \in DOMAIN w, w[m] = a.waiting[d][i]
               PROVE  /\ b.active[d].client # a.waiting[d][k]
                      /\ \A n \in DOMAIN w : w[n] = a.waiting[d][k] => m < n
    BY <2>5 DEF OrderlyOn
  <2>7. at[m] \in DOMAIN q /\ q[at[m]] = a.waiting[d][i]
    BY <2>2
  <2>8. /\ b.active[d].client # a.waiting[d][k]
        /\ \A n \in DOMAIN q : q[n] = a.waiting[d][k] => at[m] < n
    BY <2>1, <2>5, <2>7 DEF OrderlyOn
  <2>9. ASSUME NEW n \in DOMAIN w, w[n] = a.waiting[d][k] PROVE m < n
    BY <2>2, <2>6, <2>8, <2>9
  <2> QED BY <2>8, <2>9
<1> QED BY <1>2 DEF Orderly, c

\* Nobody waits for a device that is free.
LEMMA OrderlyInsert ==
  ASSUME NEW a, NEW b, GoodBook(b), Orderly(a, b), NEW d \in Devices,
         NEW cl \in Clients, ~Leased(b, d)
  PROVE  Orderly(a, Insert(b, d, cl))
<1> DEFINE c == Insert(b, d, cl)
<1>1. /\ c.waiting = b.waiting
      /\ \A f \in Devices \ {d} : c.active[f] = b.active[f]
  BY InsertSteps, InsertIsGood
<1>2. b.waiting[d] = << >>
  BY DEF GoodBook, QueueOK
<1> HIDE DEF c
<1>3. OrderlyOn(a, c, d)
  BY <1>1, <1>2 DEF OrderlyOn
<1>4. \A f \in Devices \ {d} : OrderlyOn(a, c, f)
  BY <1>1, OrderlyOnSame DEF Orderly
<1> QED BY <1>3, <1>4 DEF Orderly, c

\* A client that joins a queue was not in it when the handler began, or it holds
\* the device by now.
LEMMA OrderlyEnqueue ==
  ASSUME NEW a, GoodBook(a), NEW b, GoodBook(b), NEW R, Evolves(a, b, R),
         NEW d \in Devices, NEW cl \in Clients,
         Leased(b, d), d \notin HeldBy(b, cl), ~Waits(b, d, cl)
  PROVE  Orderly(a, Enqueue(b, d, cl))
<1> DEFINE c == Enqueue(b, d, cl)
           q == b.waiting[d]
           p == a.waiting[d]
<1>1. q \in Seq(Clients) /\ p \in Seq(Clients)
  BY DEF GoodBook, Book
<1>2. /\ c.active = b.active /\ c.waiting[d] = Append(q, cl)
      /\ \A f \in Devices \ {d} : c.waiting[f] = b.waiting[f]
  BY DEF Enqueue, GoodBook, Book
<1>3. Orderly(a, b)
  BY OrderlyAtFirst, OrderlyEvolves
<1>4. \A i \in DOMAIN p : p[i] # cl
  <2> SUFFICES ASSUME NEW i \in DOMAIN p, p[i] = cl PROVE FALSE
    OBVIOUS
  <2>1. \A m \in DOMAIN q : q[m] # cl
    BY DEF Waits
  <2>2. b.active[d].client # cl
    BY DEF HeldBy
  <2>3. CASE q = p
    BY <2>1, <2>3
  <2>4. CASE p = << >>
    BY <2>4
  <2>5. CASE p # << >> /\ b.active[d].client = Head(p) /\ q = Tail(p)
    <3>1. /\ Head(p) = p[1] /\ i \in 1 .. Len(p)
          /\ \A n \in 2 .. Len(p) : n - 1 \in DOMAIN Tail(p) /\ Tail(p)[n - 1] = p[n]
      BY <1>1, <2>5
    <3>2. i # 1
      BY <2>2, <2>5, <3>1
    <3>3. i \in 2 .. Len(p)
      BY <3>1, <3>2
    <3> QED BY <2>1, <2>5, <3>1, <3>3
  <2> QED BY <2>3, <2>4, <2>5 DEF Evolves, Advances
<1> HIDE DEF c
<1>5. OrderlyOn(a, c, d)
  <2>1. OrderlyOn(a, b, d)
    BY <1>3 DEF Orderly
  <2>2. /\ Len(q) \in Nat /\ DOMAIN q = 1 .. Len(q)
        /\ DOMAIN Append(q, cl) = 1 .. Len(q) + 1
        /\ \A n \in 1 .. Len(q) : Append(q, cl)[n] = q[n]
        /\ Append(q, cl)[Len(q) + 1] = cl
    BY <1>1
  <2> SUFFICES ASSUME NEW i \in DOMAIN p, NEW k \in DOMAIN p, i < k,
                      NEW m \in DOMAIN Append(q, cl), Append(q, cl)[m] = p[i]
               PROVE  /\ b.active[d].client # p[k]
                      /\ \A n \in DOMAIN Append(q, cl) :
                           Append(q, cl)[n] = p[k] => m < n
    BY <1>2 DEF OrderlyOn
  <2>3. m \in 1 .. Len(q) /\ q[m] = p[i]
    BY <1>4, <2>2
  <2>4. /\ b.active[d].client # p[k]
        /\ \A n \in DOMAIN q : q[n] = p[k] => m < n
    BY <2>1, <2>2, <2>3 DEF OrderlyOn
  <2>5. ASSUME NEW n \in DOMAIN Append(q, cl), Append(q, cl)[n] = p[k] PROVE m < n
    <3>1. CASE n \in 1 .. Len(q)
      BY <2>2, <2>4, <2>5, <3>1
    <3>2. CASE n = Len(q) + 1
      BY <2>2, <2>3, <3>2
    <3> QED BY <2>2, <3>1, <3>2
  <2> QED BY <2>4, <2>5
<1>6. \A f \in Devices \ {d} : OrderlyOn(a, c, f)
  BY <1>2, <1>3, OrderlyOnSame DEF Orderly
<1> QED BY <1>5, <1>6 DEF Orderly, c

-----------------------------------------------------------------------------
(***************************************************************************)
(* Accepted work survives (AcceptedIsDurable).                              *)
(***************************************************************************)
LEMMA KeptSame == \A s : Kept(s, s)
BY DEF Kept

LEMMA KeptIsTransitive ==
  ASSUME NEW s, NEW t, NEW u, Kept(s, t), Kept(t, u) PROVE Kept(s, u)
BY DEF Kept

\* Memory goes from st through s to st'; what is saved is s.
LEMMA SaveKeepsDurable ==
  ASSUME Durable, NEW s, Kept(st, s), Kept(s, st'), stDisk' \in {stDisk, s}
  PROVE  Durable'
BY DEF Durable, Kept

LEMMA RestIsDurable == ASSUME st' = stDisk' PROVE Durable'
BY DEF Durable, Kept

LEMMA BothKeepDurable ==
  ASSUME Durable, Kept(st, st'), stDisk' \in {stDisk, st'} PROVE Durable'
BY SaveKeepsDurable, KeptSame

LEMMA ForgetPeersKept ==
  ASSUME NEW s \in DurableState, NEW S PROVE Kept(s, ForgetPeers(s, S))
BY DEF ForgetPeers, Kept, DurableState

LEMMA DispatchedKept ==
  ASSUME NEW s \in DurableState, NEW j PROVE Kept(s, Dispatched(s, j))
BY DEF Dispatched, Kept, DurableState

LEMMA AddEventKept ==
  ASSUME NEW s \in DurableState, NEW j, NEW n, NEW k
  PROVE  Kept(s, AddEvent(s, j, n, k))
BY DEF AddEvent, Kept, DurableState

LEMMA DeduplicatedKept ==
  ASSUME NEW s \in DurableState, NEW j, NEW n, NEW k
  PROVE  Kept(s, Deduplicated(s, j, n, k))
BY AddEventKept, KeptSame DEF Deduplicated

LEMMA ReconciledKept ==
  ASSUME NEW s \in DurableState, NEW b PROVE Kept(s, ReconciledState(s, b))
BY ForgetPeersKept DEF ReconciledState

\* The tail of a heartbeat: what is saved is s, and memory undoes no more than
\* the dispatch of s.
LEMMA FinishHeartbeatKeepsDurable ==
  ASSUME Durable, NEW a, NEW s \in DurableState, Kept(st, s), NEW b, NEW bd,
         NEW reply, FinishHeartbeat(a, s, b, bd, reply)
  PROVE  Durable'
<1> DEFINE undone == [s EXCEPT !.dispatched = s.dispatched \ {reply.job}]
<1>1. undone \in DurableState /\ Kept(s, undone)
  BY DEF DurableState, Kept
<1>2. Kept(s, ReconciledState(undone, b))
  BY <1>1, ReconciledKept, KeptIsTransitive
<1>3. stDisk' \in {stDisk, s} /\ st' \in {s, ReconciledState(undone, b)}
  BY DEF FinishHeartbeat
<1> HIDE DEF undone
<1> QED BY <1>2, <1>3, KeptSame, SaveKeepsDurable

LEMMA DispatchAppleKeepsDurable ==
  ASSUME Durable, NEW a, NEW s \in DurableState, Kept(st, s), NEW r,
         NEW j \in Jobs \cup {None}, DispatchApple(a, s, r, j)
  PROVE  Durable'
<1> DEFINE over == [s EXCEPT !.apple_pending = s.apple_pending \ {j}]
           next == AddEvent(over, j, 1, "rejected")
<1>1. ASSUME NEW b, NEW bd, NEW reply, FinishHeartbeat(a, s, b, bd, reply)
      PROVE  Durable'
  BY <1>1, FinishHeartbeatKeepsDurable
<1>2. ASSUME j # None, NEW b, NEW bd, NEW reply,
             FinishHeartbeat(a, Dispatched(s, j), b, bd, reply)
      PROVE  Durable'
  <2>1. Dispatched(s, j) \in DurableState /\ Kept(st, Dispatched(s, j))
    BY DispatchedType, DispatchedKept, KeptIsTransitive
  <2> QED BY <1>2, <2>1, FinishHeartbeatKeepsDurable
<1>3. ASSUME j \in Jobs, NEW b, NEW bd, NEW reply,
             FinishHeartbeat(a, next, b, bd, reply)
      PROVE  Durable'
  <2>1. over \in DurableState /\ Kept(s, over)
    BY DEF DurableState, Kept
  <2> HIDE DEF over
  <2>2. "rejected" \in Kinds /\ 1 \in Nat
    BY DEF Kinds
  <2>3. next \in DurableState
    BY <1>3, <2>1, <2>2, AddEventType
  <2>4. Kept(st, next)
    BY <2>1, AddEventKept, KeptIsTransitive
  <2> HIDE DEF next
  <2> QED BY <1>3, <2>3, <2>4, FinishHeartbeatKeepsDurable
<1>4. CASE st' = s /\ UNCHANGED stDisk
  BY <1>4, SaveKeepsDurable, KeptSame
<1>5. j \in Mutating => j \in Jobs /\ j # None
  BY RegistryAssumption, NoneAssumption
<1> HIDE DEF next
<1> QED BY <1>1, <1>2, <1>3, <1>4, <1>5
        DEF DispatchApple, DispatchWriter, RejectApple, next

LEMMA HeartbeatDispatchKeepsDurable ==
  ASSUME IInv, Durable, NEW a, HeartbeatDispatch(a) PROVE Durable'
<1>1. PICK r \in OneOf(PendingRuns(hb[a].host)),
           j \in OneOf(PendingApple(hb[a].host)) :
        DispatchApple(a, Dispatched(st, r), r, j)
  BY DEF HeartbeatDispatch
<1>2. st \in DurableState
  BY DEF IInv, StatesOK
<1>3. r \in Runs \cup {None} /\ j \in Jobs \cup {None}
  BY <1>2 DEF OneOf, PendingRuns, PendingApple, DurableState
<1>4. Dispatched(st, r) \in DurableState /\ Kept(st, Dispatched(st, r))
  BY <1>2, <1>3, DispatchedType, DispatchedKept
<1> QED BY <1>1, <1>3, <1>4, DispatchAppleKeepsDurable

LEMMA StartedCommitKeepsDurable ==
  ASSUME IInv, Durable, NEW accepted \in BOOLEAN, StartedCommit(accepted)
  PROVE  Durable'
<1> DEFINE j == prog.job
           acked == [st EXCEPT !.acknowledged = st.acknowledged \cup {j}]
<1>1. /\ prog # NoProgress
      /\ st' = Deduplicated(acked, j, 1, "started") /\ SaveState(accepted)
  BY DEF StartedCommit
<1>2. j \in Jobs
  BY <1>1 DEF IInv, ProgressOK
<1>3. acked \in DurableState /\ Kept(st, acked)
  BY <1>2 DEF IInv, StatesOK, DurableState, Kept
<1> HIDE DEF acked, j
<1>4. Kept(st, st')
  BY <1>1, <1>3, DeduplicatedKept, KeptIsTransitive
<1>5. stDisk' \in {stDisk, st'}
  BY <1>1 DEF SaveState
<1> QED BY <1>4, <1>5, BothKeepDurable

LEMMA TerminalBeginKeepsDurable ==
  ASSUME IInv, Durable, NEW a, NEW j \in Jobs, NEW k \in Kinds,
         TerminalBegin(a, j, k)
  PROVE  Durable'
<1> DEFINE over == [st EXCEPT !.apple_pending = st.apple_pending \ {j},
                              !.cancelled = st.cancelled \ {j}]
           last == Deduplicated(over, j, 2, k)
<1>1. /\ st' = ForgetPeers(last, WrittenBy(book, j) \cap book.pending_detach)
      /\ stDisk' = stDisk
  BY DEF TerminalBegin
<1>2. over \in DurableState /\ Kept(st, over)
  BY DEF IInv, StatesOK, DurableState, Kept
<1> HIDE DEF over
<1>3. last \in DurableState /\ Kept(over, last)
  BY <1>2, DeduplicatedType, DeduplicatedKept
<1> HIDE DEF last
<1>4. Kept(st, st')
  BY <1>1, <1>2, <1>3, ForgetPeersKept, KeptIsTransitive
<1> QED BY <1>1, <1>4, BothKeepDurable

LEMMA HeartbeatInventoryKeepsDurable ==
  ASSUME IInv, Durable, NEW a, NEW h, NEW S, HeartbeatInventory(a, h, S)
  PROVE  Durable'
<1>1. stDisk' = stDisk /\ Kept(st, st')
  BY DEF HeartbeatInventory, IInv, StatesOK, DurableState, Kept
<1> QED BY <1>1, BothKeepDurable

\* An operation on leases leaves the accepted work as it is.
LEMMA LeaseKeepsDurable ==
  ASSUME IInv, Durable, NEW saved, SaveBoth(saved),
         st' = st \/ \E S : st' = ForgetPeers(st, S)
  PROVE  Durable'
<1>1. Kept(st, st')
  BY KeptSame, ForgetPeersKept DEF IInv, StatesOK
<1> QED BY <1>1, SaveBothChooses, BothKeepDurable

LEMMA PersistKeepsDurable ==
  ASSUME NEW s, NEW chk, PersistOrPanic(s, chk) PROVE Durable'
BY PersistChooses, RestIsDurable

LEMMA AgentRequestKeepsDurable ==
  ASSUME IInv, Durable, NEW a, AgentRequest(a) PROVE Durable'
<1>1. "completed" \in Kinds
  BY DEF Kinds
<1>2. ASSUME HeartbeatExpire(a) \/ \E j \in Jobs, accepted \in BOOLEAN :
               StartedBegin(a, j, accepted)
      PROVE  Durable'
  <2>1. UNCHANGED <<st, stDisk>>
    BY <1>2 DEF HeartbeatExpire, StartedBegin
  <2> QED BY <2>1 DEF Durable, Kept
<1>3. ASSUME NEW j, NEW l, NEW active, ValidateLease(a, j, l, active)
      PROVE  Durable'
  <2>1. st' = st /\ \E saved \in BOOLEAN : SaveBoth(saved)
    BY <1>3 DEF ValidateLease
  <2> QED BY <2>1, LeaseKeepsDurable
<1>4. ASSUME NEW d, AgentDetach(a, d) PROVE Durable'
  <2>1. st' = ForgetPeers(st, {d}) /\ \E saved \in BOOLEAN : SaveBoth(saved)
    BY <1>4 DEF AgentDetach
  <2> QED BY <2>1, LeaseKeepsDurable
<1> QED BY <1>1, <1>2, <1>3, <1>4, HeartbeatInventoryKeepsDurable,
           HeartbeatDispatchKeepsDurable, TerminalBeginKeepsDurable
        DEF AgentRequest

LEMMA ClientRequestKeepsDurable ==
  ASSUME IInv, Durable, NEW c, ClientRequest(c) PROVE Durable'
<1>1. ASSUME \/ \E d \in Devices : AcquireLease(c, d) \/ QueueLease(c, d)
             \/ \E l \in LeaseIds : RenewLease(c, l) \/ ReleaseLease(c, l)
             \/ DisconnectClient(c)
      PROVE  Durable'
  <2>1. st' = st /\ \E saved \in BOOLEAN : SaveBoth(saved)
    BY <1>1 DEF AcquireLease, QueueLease, RenewLease, ReleaseLease, DisconnectClient
  <2> QED BY <2>1, LeaseKeepsDurable
<1>2. ASSUME NEW j, NEW l, AppleRunCheck(c, j, l) PROVE Durable'
  BY <1>2 DEF AppleRunCheck, Durable, Kept
<1>3. ASSUME NEW j, NEW l, AppleRunSubmit(c, j, l) PROVE Durable'
  <2>1. UNCHANGED <<st, stDisk>> \/ \E s, chk : PersistOrPanic(s, chk)
    BY <1>3 DEF AppleRunSubmit
  <2> QED BY <2>1, PersistKeepsDurable DEF Durable, Kept
<1>4. ASSUME NEW j, AppleCancel(c, j) PROVE Durable'
  BY <1>4, PersistKeepsDurable DEF AppleCancel
<1> QED BY <1>1, <1>2, <1>3, <1>4 DEF ClientRequest

LEMMA DurableIsInductive == IInv /\ Durable /\ [Next]_vars => Durable'
<1> SUFFICES ASSUME IInv, Durable, [Next]_vars PROVE Durable'
  OBVIOUS
<1>1. ASSUME NEW r, Run(r) \/ Complete(r) PROVE Durable'
  <2>1. \E s, chk : PersistOrPanic(s, chk)
    BY <1>1 DEF Run, Complete
  <2> QED BY <2>1, PersistKeepsDurable
<1>2. ASSUME ProgressCommit PROVE Durable'
  <2>1. ASSUME NEW accepted, TerminalCommit(accepted) PROVE Durable'
    <3>1. st' = st /\ stDisk' \in {stDisk, st}
      BY <2>1 DEF TerminalCommit
    <3> QED BY <3>1, BothKeepDurable, KeptSame
  <2> QED BY <1>2, <2>1, StartedCommitKeepsDurable DEF ProgressCommit
<1>3. CASE UNCHANGED <<st, stDisk>>
  BY <1>3 DEF Durable, Kept
<1>4. CASE Environment
  <2>1. ASSUME Crash \/ Restart PROVE st' = stDisk'
    BY <2>1 DEF Crash, LoseMemory, Restart
  <2>2. ASSUME ~(Crash \/ Restart) PROVE UNCHANGED <<st, stDisk>>
    BY <1>4, <2>2 DEF Environment, ReplyTaken, HostGoesOffline, ClockMoves
  <2> QED BY <1>3, <2>1, <2>2, RestIsDurable
<1>5. CASE UNCHANGED vars
  BY <1>3, <1>5 DEF vars
<1> QED BY <1>1, <1>2, <1>4, <1>5, AgentRequestKeepsDurable,
           ClientRequestKeepsDurable DEF Next

\* What a client was told is accepted is on disk: whatever heartbeat, progress
\* or lease operation failed to save, and wherever the registry crashed, a
\* manifest job, its completion, an Apple job and its cancellation are found
\* again by the next start (persist_state, load_state).
THEOREM AcceptedWorkIsDurable == Spec => []AcceptedIsDurable
<1>1. Init => Durable
  BY DEF Init, Durable, Kept
<1>2. Durable => AcceptedIsDurable
  BY DEF Durable, Kept, AcceptedIsDurable
<1> QED BY <1>1, <1>2, IInvHolds, DurableIsInductive, PTL DEF Spec

-----------------------------------------------------------------------------
(***************************************************************************)
(* What one step of the registry does to the two books and to the grants.   *)
(***************************************************************************)
Late == LateIn(book, overdue)

\* The step may end leases in R, and the file is left alone or brought along.
BookMoves(R) ==
  /\ Steps(book, book', R) /\ Orderly(book, book')
  /\ bookDisk' = bookDisk \/ Steps(book, bookDisk', R)
  /\ faults' = 0 => /\ faults = 0 /\ Tidy(book, book')
                    /\ bookDisk' = bookDisk \/ Tidy(book, bookDisk')

\* A firm grant is one there was, on a device the step does not release, or a
\* new one that is in memory and on disk.
Grants(R) ==
  \A d \in Devices : granted'[d].firm =>
    \/ /\ granted'[d] = granted[d] /\ granted[d].id \notin overdue'
       /\ d \notin R
    \/ /\ granted'[d].id = book'.active[d].id /\ granted'[d].id # 0
       /\ granted'[d].id \notin overdue'
       /\ d \notin book'.pending_release /\ bookDisk' = book'

Promised == GInv' /\ DInv' /\ OrderlyStep

\* A device with a firm grant is leased and is neither late nor deferred.
LEMMA FirmIsSafe ==
  ASSUME GInv, NEW d \in Devices, granted[d].firm
  PROVE  /\ Leased(book, d) /\ d \notin Late \cup book.pending_release
         /\ Leased(bookDisk, d) /\ d \notin bookDisk.pending_release
BY DEF GInv, FirmIn, Late, LateIn, Leased, NoLease

LEMMA MovesKeepPromises ==
  ASSUME IInv, IInv', GInv, DInv, up, NEW R, BookMoves(Late \cup R), Grants(R),
         overdue' \subseteq overdue
  PROVE  Promised
<1>1. OrderlyStep
  BY DEF BookMoves, OrderlyStep
<1>2. DInv'
  BY DEF BookMoves, DInv, Tidy
<1>3. Numbered(book') /\ Numbered(bookDisk')
  BY DEF BookMoves, GInv, Steps
<1>4. \A l \in overdue' : l <= book'.next_id
  <2>1. /\ book.next_id \in Nat /\ book'.next_id \in Nat
        /\ book'.next_id >= book.next_id
    BY DEF IInv, BooksOK, GoodBook, Book, BookMoves, Steps
  <2>2. \A l \in overdue' : l \in Nat /\ l <= book.next_id
    BY DEF IInv, CountersOK, GInv
  <2> QED BY <2>1, <2>2
<1>5. ASSUME NEW d \in Devices, granted'[d].firm
      PROVE  /\ granted'[d].id # 0 /\ granted'[d].id \notin overdue'
             /\ FirmIn(book, d)' /\ FirmIn(bookDisk, d)'
  <2>1. CASE /\ granted'[d] = granted[d] /\ granted[d].id \notin overdue'
             /\ d \notin R
    <3>1. /\ granted[d].id # 0 /\ FirmIn(book, d) /\ FirmIn(bookDisk, d)
      BY <1>5, <2>1 DEF GInv
    <3>2. /\ Leased(book, d) /\ d \notin Late \cup R \cup book.pending_release
      BY <1>5, <2>1, FirmIsSafe
    <3>3. book'.active[d] = book.active[d] /\ d \notin book'.pending_release
      BY <3>2 DEF BookMoves, Steps
    <3>4. \/ bookDisk' = bookDisk
          \/ bookDisk'.active[d] = book.active[d] /\ d \notin bookDisk'.pending_release
      BY <3>2 DEF BookMoves, Steps
    <3> QED BY <2>1, <3>1, <3>3, <3>4 DEF FirmIn
  <2>2. CASE /\ granted'[d].id = book'.active[d].id /\ granted'[d].id # 0
             /\ granted'[d].id \notin overdue'
             /\ d \notin book'.pending_release /\ bookDisk' = book'
    BY <2>2 DEF FirmIn
  <2> QED BY <1>5, <2>1, <2>2 DEF Grants
<1> QED BY <1>1, <1>2, <1>3, <1>4, <1>5 DEF Promised, GInv

-----------------------------------------------------------------------------
(***************************************************************************)
(* Operations on leases.                                                    *)
(***************************************************************************)
LEMMA ExpiredMoves ==
  ASSUME IInv, NEW b \in Expire(book, overdue)
  PROVE  /\ GoodBook(b) /\ Evolves(book, b, Late)
         /\ Steps(book, b, Late) /\ Tidy(book, b) /\ Orderly(book, b)
<1>1. GoodBook(book)
  BY DEF IInv, BooksOK
<1>2. GoodBook(b) /\ Evolves(book, b, Late) /\ Tidy(book, b)
  BY <1>1, ExpireEvolves DEF Late
<1> QED BY <1>1, <1>2, StepsByEvolving, OrderlyAtFirst, OrderlyEvolves

LEMMA ReleaseNowFrees ==
  ASSUME NEW b, GoodBook(b), NEW S \in SUBSET Devices, NEW c \in ReleaseNow(b, S),
         NEW d \in S
  PROVE  c.active[d] = NoLease \/ c.active[d].id > b.next_id
<1> DEFINE P == {e \in S : b.waiting[e] # << >>}
           After(ids, e) == IF e \in P
                            THEN [id |-> ids[e], client |-> Head(b.waiting[e])]
                            ELSE IF e \in S THEN NoLease ELSE b.active[e]
           Queue(e) == IF e \in P THEN Tail(b.waiting[e]) ELSE b.waiting[e]
<1>1. PICK ids \in FreshIds(b, P) :
        c = [b EXCEPT !.next_id = b.next_id + Cardinality(P),
                      !.active  = [e \in Devices |-> After(ids, e)],
                      !.waiting = [e \in Devices |-> Queue(e)]]
  BY DEF ReleaseNow
<1>2. b \in Book /\ P \in SUBSET Devices
  BY DEF GoodBook
<1>3. Cardinality(P) \in Nat /\ b.next_id \in Nat
  BY <1>2, FreshIdsType DEF Book
<1>4. c.active[d] = After(ids, d)
  BY <1>1, <1>2 DEF Book
<1>5. d \in P => ids[d] \in (b.next_id + 1) .. (b.next_id + Cardinality(P))
  BY DEF FreshIds
<1>6. d \in P => ids[d] > b.next_id
  BY <1>3, <1>5
<1> HIDE DEF P
<1> QED BY <1>4, <1>6

\* What is still leased after an expiry, and not deferred, is not overdue.
LEMMA ExpiredIsNotLate ==
  ASSUME IInv, GInv, up, NEW b \in Expire(book, overdue), NEW d \in Devices,
         Leased(b, d), d \notin b.pending_release
  PROVE  b.active[d].id \notin overdue
<1> DEFINE F == {e \in Late : Fenced(book, e)}
           e == [book EXCEPT !.pending_release = book.pending_release \cup F]
<1>1. GoodBook(book) /\ book \in Book /\ Late \in SUBSET Devices
  BY DEF IInv, BooksOK, GoodBook, Late, LateIn
<1>2. b \in Release(book, Late) /\ b \in ReleaseNow(e, Late \ F)
  BY DEF Expire, Release, Late, LateIn
<1>3. e \in Book /\ SameLeases(book, e)
  BY <1>1 DEF Book, SameLeases
<1>4. GoodBook(e)
  BY <1>1, <1>3 DEF GoodBook, QueueOK, Leased, SameLeases
<1>5. d \notin F
  BY <1>1, <1>2, ReleaseIsGood
<1> HIDE DEF e
<1>6. /\ book.next_id \in Nat /\ \A l \in overdue : l <= book.next_id
      /\ b.active[d].id \in Nat
  BY <1>1, ExpiredMoves DEF GInv, Book, GoodBook, Lease, NoLease
<1>7. CASE d \in Late
  <2>1. d \in Late \ F /\ Late \ F \in SUBSET Devices
    BY <1>1, <1>5, <1>7
  <2>2. b.active[d] = NoLease \/ b.active[d].id > e.next_id
    BY <1>2, <1>4, <2>1, ReleaseNowFrees
  <2> QED BY <1>3, <1>6, <2>2 DEF SameLeases, Leased
<1>8. CASE b.active[d] = book.active[d] /\ d \notin Late
  BY <1>8 DEF Late, LateIn, Leased
<1>9. CASE b.active[d] # book.active[d]
  BY <1>6, <1>9, ExpiredMoves DEF Steps, Leased
<1> QED BY <1>7, <1>8, <1>9

\* Expiry, then an operation, then the files.
LEMMA LeaseMoves ==
  ASSUME IInv, IInv', NEW b \in Expire(book, overdue), NEW R,
         Steps(b, book', R), Tidy(b, book'), Orderly(book, book'),
         bookDisk' \in {bookDisk, book'}, faults' \in {faults, faults + 1}
  PROVE  BookMoves(Late \cup R)
<1>1. GoodBook(book) /\ GoodBook(book') /\ faults \in Nat
  BY RegistryAssumption DEF IInv, BooksOK, CountersOK
<1>2. Steps(book, book', Late \cup R)
  BY <1>1, ExpiredMoves, StepsAreTransitive
<1>3. Tidy(book, book')
  BY ExpiredMoves DEF Tidy
<1> QED BY <1>1, <1>2, <1>3 DEF BookMoves

LEMMA EvolvingMoves ==
  ASSUME IInv, IInv', NEW b \in Expire(book, overdue), NEW R,
         Evolves(b, book', R), Tidy(b, book'),
         bookDisk' \in {bookDisk, book'}, faults' \in {faults, faults + 1}
  PROVE  BookMoves(Late \cup R)
<1>1. GoodBook(b) /\ GoodBook(book') /\ Orderly(book, b)
  BY ExpiredMoves DEF IInv, BooksOK
<1>2. Steps(b, book', R) /\ Orderly(book, book')
  BY <1>1, StepsByEvolving, OrderlyEvolves
<1> QED BY <1>2, LeaseMoves

LEMMA SavesChoose ==
  /\ \A saved : SaveBook(saved) =>
       /\ bookDisk' \in {bookDisk, book'} /\ faults' \in {faults, faults + 1}
       /\ saved => bookDisk' = book'
  /\ \A saved : SaveBoth(saved) =>
       /\ bookDisk' \in {bookDisk, book'} /\ faults' \in {faults, faults + 1}
       /\ saved => bookDisk' = book'
  /\ \A saved : SaveState(saved) =>
       faults' \in {faults, faults + 1} /\ (~saved => faults' = faults + 1)
BY DEF SaveBook, SaveBoth, SaveState, Fault

\* An expiry on its own: heartbeats, Validate, AppleRun and Renew.
LEMMA ExpiryMoves ==
  ASSUME IInv, IInv', book' \in Expire(book, overdue),
         bookDisk' \in {bookDisk, book'}, faults' \in {faults, faults + 1}
  PROVE  BookMoves(Late)
<1>1. GoodBook(book') /\ SameLeases(book', book')
  BY DEF IInv, BooksOK, SameLeases
<1>2. Steps(book', book', {}) /\ Tidy(book', book') /\ Orderly(book, book')
  BY <1>1, StepsByStanding, ExpiredMoves DEF Tidy
<1>3. BookMoves(Late \cup {})
  BY <1>2, LeaseMoves
<1> QED BY <1>3

LEMMA GrantsSame ==
  ASSUME GInv, granted' = granted, overdue' = overdue PROVE Grants({})
BY DEF Grants, GInv

LEMMA ExpiryKeepsPromises ==
  ASSUME IInv, IInv', GInv, DInv, up, book' \in Expire(book, overdue),
         bookDisk' \in {bookDisk, book'}, faults' \in {faults, faults + 1},
         granted' = granted, overdue' = overdue
  PROVE  Promised
<1>1. BookMoves(Late \cup {}) /\ Grants({})
  BY ExpiryMoves, GrantsSame
<1> QED BY <1>1, MovesKeepPromises

\* The new lease is later than every lease the clock has passed.
LEMMA InsertedIsFirm ==
  ASSUME IInv, GInv, up, NEW b \in Expire(book, overdue), NEW d \in Devices,
         NEW c \in Clients, book' = Insert(b, d, c), ~Leased(b, d),
         overdue' = overdue
  PROVE  /\ book'.active[d] = [id |-> b.next_id + 1, client |-> c]
         /\ Told(book', d).id # 0 /\ Told(book', d).id \notin overdue'
<1>1. book'.active[d] = [id |-> b.next_id + 1, client |-> c]
  BY ExpiredMoves, InsertSteps
<1>2. /\ book.next_id \in Nat /\ b.next_id \in Nat /\ b.next_id >= book.next_id
      /\ overdue \subseteq Nat
  BY ExpiredMoves DEF IInv, BooksOK, CountersOK, GoodBook, Book, Steps
<1>3. Told(book', d).id = b.next_id + 1
  BY <1>1 DEF Told
<1>4. \A l \in overdue : l \in Nat /\ l <= book.next_id
  BY <1>2 DEF GInv
<1> QED BY <1>1, <1>2, <1>3, <1>4

LEMMA ToldIsFirm ==
  ASSUME NEW d, NEW b, granted'[d] = Told(b, d), granted'[d].firm
  PROVE  granted'[d].id = b.active[d].id /\ d \notin b.pending_release
<1>1. granted'[d].id = b.active[d].id
  BY DEF Told
<1>2. ASSUME d \in b.pending_release PROVE FALSE
  <2> DEFINE P == d \notin b.pending_release
  <2>1. P = FALSE
    BY <1>2
  <2>2. Told(b, d) = [id |-> b.active[d].id, firm |-> P]
    BY DEF Told
  <2> HIDE DEF P
  <2>3. Told(b, d).firm = FALSE
    BY <2>1, <2>2
  <2> QED BY <2>3
<1> QED BY <1>1, <1>2

LEMMA NewGrant ==
  ASSUME GInv, overdue' = overdue, NEW R,
         \A d \in Devices : granted'[d].firm =>
           \/ granted'[d] = granted[d] /\ d \notin R
           \/ /\ granted'[d] = Told(book', d) /\ bookDisk' = book'
              /\ granted'[d].id # 0 /\ granted'[d].id \notin overdue'
  PROVE  Grants(R)
<1> SUFFICES ASSUME NEW d \in Devices, granted'[d].firm
             PROVE  \/ /\ granted'[d] = granted[d] /\ granted[d].id \notin overdue'
                       /\ d \notin R
                    \/ /\ granted'[d].id = book'.active[d].id /\ granted'[d].id # 0
                       /\ granted'[d].id \notin overdue'
                       /\ d \notin book'.pending_release /\ bookDisk' = book'
  BY DEF Grants
<1>1. CASE granted'[d] = granted[d] /\ d \notin R
  BY <1>1 DEF GInv
<1>2. CASE /\ granted'[d] = Told(book', d) /\ bookDisk' = book'
           /\ granted'[d].id # 0 /\ granted'[d].id \notin overdue'
  BY <1>2, ToldIsFirm
<1> QED BY <1>1, <1>2

LEMMA AcquireLeaseKeepsPromises ==
  ASSUME IInv, IInv', GInv, DInv, NEW c \in Clients, NEW d \in Devices,
         AcquireLease(c, d)
  PROVE  Promised
<1>1. PICK b \in Expire(book, overdue), saved \in BOOLEAN :
        /\ book' = IF Leased(b, d) THEN b ELSE Insert(b, d, c)
        /\ SaveBoth(saved)
        /\ granted' = IF saved /\ ~Leased(b, d)
                      THEN [granted EXCEPT ![d] = Told(book', d)]
                      ELSE granted
  BY DEF AcquireLease
<1>2. up /\ overdue' = overdue
  BY DEF AcquireLease, Ready
<1>3. CASE Leased(b, d)
  BY <1>1, <1>2, <1>3, SavesChoose, ExpiryKeepsPromises
<1>4. CASE ~Leased(b, d)
  <2>1. GoodBook(b) /\ Orderly(book, b)
    BY ExpiredMoves
  <2>2. /\ Steps(b, book', {}) /\ Tidy(b, book') /\ Orderly(book, book')
    BY <1>1, <1>4, <2>1, InsertSteps, OrderlyInsert
  <2>3. BookMoves(Late \cup {})
    BY <1>1, <2>2, SavesChoose, LeaseMoves
  <2>4. Told(book', d).id # 0 /\ Told(book', d).id \notin overdue'
    BY <1>1, <1>2, <1>4, InsertedIsFirm
  <2>5. ASSUME NEW e \in Devices, granted'[e].firm, granted'[e] # granted[e]
        PROVE  e = d /\ granted'[e] = Told(book', e) /\ bookDisk' = book'
    <3>1. granted \in [Devices -> Grant]
      BY DEF IInv, CountersOK
    <3>2. saved
      BY <1>1, <2>5
    <3> QED BY <1>1, <1>4, <2>5, <3>1, <3>2, SavesChoose
  <2>6. Grants({})
    BY <1>2, <2>4, <2>5, NewGrant
  <2> QED BY <1>2, <2>3, <2>6, MovesKeepPromises
<1> QED BY <1>3, <1>4

LEMMA QueueLeaseKeepsPromises ==
  ASSUME IInv, IInv', GInv, DInv, NEW c \in Clients, NEW d \in Devices,
         QueueLease(c, d)
  PROVE  Promised
<1>1. PICK b \in Expire(book, overdue), saved \in BOOLEAN :
        /\ book' = IF ~Leased(b, d) THEN Insert(b, d, c)
                   ELSE IF d \in HeldBy(b, c) \/ Waits(b, d, c) THEN b
                   ELSE Enqueue(b, d, c)
        /\ SaveBoth(saved)
        /\ granted' = IF saved /\ d \in HeldBy(book', c)
                      THEN [granted EXCEPT ![d] = Told(book', d)]
                      ELSE granted
  BY DEF QueueLease
<1>2. up /\ overdue' = overdue
  BY DEF QueueLease, Ready
<1>3. GoodBook(b) /\ Orderly(book, b) /\ Evolves(book, b, Late) /\ GoodBook(book)
  BY ExpiredMoves DEF IInv, BooksOK
<1>4. /\ Steps(b, book', {}) /\ Tidy(b, book') /\ Orderly(book, book')
  <2>1. CASE ~Leased(b, d)
    BY <1>1, <1>3, <2>1, InsertSteps, OrderlyInsert
  <2>2. CASE book' = b
    BY <1>3, <2>2, StepsByStanding DEF SameLeases, Tidy
  <2>3. CASE Leased(b, d) /\ d \notin HeldBy(b, c) /\ ~Waits(b, d, c)
    <3>1. book' = Enqueue(b, d, c)
      BY <1>1, <2>3
    <3> QED BY <1>3, <2>3, <3>1, QueuesStep, OrderlyEnqueue
  <2> QED BY <1>1, <2>1, <2>2, <2>3
<1>5. BookMoves(Late \cup {})
  BY <1>1, <1>4, SavesChoose, LeaseMoves
<1>6. ASSUME d \in HeldBy(book', c), Told(book', d).firm
      PROVE  Told(book', d).id # 0 /\ Told(book', d).id \notin overdue'
  <2>1. CASE ~Leased(b, d)
    BY <1>1, <1>2, <2>1, InsertedIsFirm
  <2>2. CASE Leased(b, d)
    <3>1. book'.active = b.active /\ book'.pending_release = b.pending_release
      <4>1. Enqueue(b, d, c).active = b.active
            /\ Enqueue(b, d, c).pending_release = b.pending_release
        BY <1>3 DEF Enqueue, GoodBook, Book
      <4> QED BY <1>1, <2>2, <4>1
    <3>2. b.active[d].id \notin overdue
      BY <1>2, <1>6, <2>2, <3>1, ExpiredIsNotLate DEF Told
    <3>3. b.active[d].id # 0
      BY <1>3, <2>2 DEF GoodBook, Book, Lease, Leased
    <3> QED BY <1>2, <3>1, <3>2, <3>3 DEF Told
  <2> QED BY <2>1, <2>2
<1>7. ASSUME NEW e \in Devices, granted'[e].firm, granted'[e] # granted[e]
      PROVE  /\ e = d /\ granted'[e] = Told(book', e) /\ bookDisk' = book'
             /\ d \in HeldBy(book', c)
  <2>1. granted \in [Devices -> Grant]
    BY DEF IInv, CountersOK
  <2>2. saved /\ d \in HeldBy(book', c)
    BY <1>1, <1>7
  <2> QED BY <1>1, <1>7, <2>1, <2>2, SavesChoose
<1>8. Grants({})
  <2>1. ASSUME NEW e \in Devices, granted'[e].firm, granted'[e] # granted[e]
        PROVE  /\ granted'[e] = Told(book', e) /\ bookDisk' = book'
               /\ granted'[e].id # 0 /\ granted'[e].id \notin overdue'
    BY <1>6, <1>7, <2>1
  <2> QED BY <1>2, <2>1, NewGrant
<1> QED BY <1>2, <1>5, <1>8, MovesKeepPromises

\* A renewal takes its lease from among the overdue ones.
LEMMA RenewLeaseKeepsPromises ==
  ASSUME IInv, IInv', GInv, DInv, NEW c \in Clients, NEW l \in LeaseIds,
         RenewLease(c, l)
  PROVE  Promised
<1>1. PICK b \in Expire(book, overdue), saved \in BOOLEAN :
        /\ book' = b /\ SaveBoth(saved)
        /\ overdue' = IF Holding(b, c, l) = {} THEN overdue ELSE overdue \ {l}
        /\ granted' = [d \in Devices |-> IF saved /\ d \in Holding(b, c, l)
                                         THEN Told(b, d) ELSE granted[d]]
  BY DEF RenewLease
<1>2. up /\ overdue' \subseteq overdue
  BY <1>1 DEF RenewLease, Ready
<1>3. BookMoves(Late \cup {})
  BY <1>1, SavesChoose, ExpiryMoves
<1>4. ASSUME NEW d \in Devices, granted'[d].firm
      PROVE  \/ granted'[d] = granted[d] /\ granted[d].id \notin overdue'
             \/ /\ granted'[d].id = book'.active[d].id /\ granted'[d].id # 0
                /\ granted'[d].id \notin overdue'
                /\ d \notin book'.pending_release /\ bookDisk' = book'
  <2>1. CASE saved /\ d \in Holding(b, c, l)
    <3>1. /\ granted'[d] = Told(b, d) /\ b.active[d] = [id |-> l, client |-> c]
          /\ overdue' = overdue \ {l} /\ bookDisk' = book'
      BY <1>1, <2>1, SavesChoose DEF Holding
    <3>2. l # 0
      BY RegistryAssumption DEF LeaseIds
    <3>3. granted'[d].id = b.active[d].id /\ d \notin b.pending_release
      BY <1>4, <3>1, ToldIsFirm
    <3> QED BY <1>1, <3>1, <3>2, <3>3
  <2>2. CASE ~(saved /\ d \in Holding(b, c, l))
    <3>1. granted'[d] = granted[d]
      BY <1>1, <2>2
    <3> QED BY <1>2, <1>4, <3>1 DEF GInv
  <2> QED BY <2>1, <2>2
<1>5. Grants({})
  BY <1>4 DEF Grants
<1> QED BY <1>2, <1>3, <1>5, MovesKeepPromises

LEMMA ReleaseLeaseKeepsPromises ==
  ASSUME IInv, IInv', GInv, DInv, NEW c \in Clients, NEW l \in LeaseIds,
         ReleaseLease(c, l)
  PROVE  Promised
<1>1. PICK b \in Expire(book, overdue), saved \in BOOLEAN :
        /\ book' \in Release(b, Holding(b, c, l)) /\ SaveBoth(saved)
        /\ granted' = IF Holding(b, c, l) = {} THEN granted ELSE Ungrant({l})
  BY DEF ReleaseLease
<1> DEFINE R == Holding(b, c, l)
<1>2. up /\ overdue' = overdue
  BY DEF ReleaseLease, Ready
<1>3. GoodBook(b) /\ R \in SUBSET Devices
  BY ExpiredMoves DEF Holding
<1>4. Evolves(b, book', R) /\ Tidy(b, book')
  BY <1>1, <1>3, ReleaseEvolves
<1>5. BookMoves(Late \cup R)
  BY <1>1, <1>4, SavesChoose, EvolvingMoves
<1>6. ASSUME NEW d \in Devices, granted'[d].firm
      PROVE  /\ granted'[d] = granted[d] /\ granted[d].id \notin overdue'
             /\ d \notin R
  <2>1. CASE R = {}
    BY <1>1, <1>2, <1>6, <2>1 DEF GInv
  <2>2. CASE R # {}
    <3>1. granted'[d] = IF granted[d].id = l THEN NoGrant ELSE granted[d]
      BY <1>1, <2>2 DEF Ungrant
    <3>2. granted'[d] = granted[d] /\ granted[d].id # l
      BY <1>6, <3>1 DEF NoGrant
    <3>3. b.active[d] = book.active[d] /\ book.active[d].id = granted[d].id
      BY <1>6, <3>2, FirmIsSafe, ExpiredMoves DEF Steps, GInv, FirmIn
    <3> QED BY <1>2, <1>6, <3>2, <3>3 DEF Holding, GInv
  <2> QED BY <2>1, <2>2
<1>7. Grants(R)
  BY <1>6 DEF Grants
<1> QED BY <1>2, <1>5, <1>7, MovesKeepPromises

LEMMA DisconnectClientKeepsPromises ==
  ASSUME IInv, IInv', GInv, DInv, NEW c \in Clients, DisconnectClient(c)
  PROVE  Promised
<1>1. PICK b \in Expire(book, overdue), saved \in BOOLEAN :
        /\ book' \in Release(LeaveQueues(b, c), HeldBy(b, c)) /\ SaveBoth(saved)
        /\ granted' = [d \in Devices |-> IF d \in HeldBy(b, c) THEN NoGrant
                                         ELSE granted[d]]
  BY DEF DisconnectClient
<1> DEFINE R == HeldBy(b, c)
           q == LeaveQueues(b, c)
<1>2. up /\ overdue' = overdue
  BY DEF DisconnectClient, Ready
<1>3. GoodBook(b) /\ GoodBook(q) /\ R \in SUBSET Devices /\ Orderly(book, b)
  BY ExpiredMoves, LeaveQueuesIsGood DEF HeldBy
<1>4. Steps(b, q, {}) /\ Tidy(b, q) /\ Orderly(book, q)
  <2>1. CASE Devices = {}
    BY <1>3, <2>1 DEF Steps, Tidy, Deferred, Orderly, LeaveQueues, GoodBook, Book,
                      Numbered
  <2>2. CASE \E d \in Devices : TRUE
    BY <1>3, <2>2, QueuesStep, OrderlyLeaveQueues
  <2> QED BY <2>1, <2>2
<1>5. GoodBook(book') /\ Evolves(q, book', R) /\ Tidy(q, book')
  BY <1>1, <1>3, ReleaseEvolves
<1> HIDE DEF q
<1>6. Steps(b, book', {} \cup R) /\ Tidy(b, book') /\ Orderly(book, book')
  <2>1. Steps(q, book', R)
    BY <1>3, <1>5, StepsByEvolving
  <2>2. Steps(b, book', {} \cup R)
    BY <1>3, <1>4, <1>5, <2>1, StepsAreTransitive
  <2> QED BY <1>3, <1>4, <1>5, <2>2, OrderlyEvolves DEF Tidy
<1>7. BookMoves(Late \cup ({} \cup R))
  BY <1>1, <1>6, SavesChoose, LeaseMoves
<1>8. Grants(R)
  BY <1>1, <1>2 DEF Grants, GInv, NoGrant
<1>9. BookMoves(Late \cup R)
  BY <1>7
<1> QED BY <1>2, <1>8, <1>9, MovesKeepPromises

LEMMA ValidateLeaseKeepsPromises ==
  ASSUME IInv, IInv', GInv, DInv, NEW a, NEW j, NEW l, NEW active,
         ValidateLease(a, j, l, active)
  PROVE  Promised
<1>1. /\ up /\ UNCHANGED <<overdue, granted>> /\ book' \in Expire(book, overdue)
      /\ \E saved \in BOOLEAN : SaveBoth(saved)
  BY DEF ValidateLease, Ready
<1> QED BY <1>1, SavesChoose, ExpiryKeepsPromises

LEMMA AgentDetachKeepsPromises ==
  ASSUME IInv, IInv', GInv, DInv, NEW a, NEW d \in Devices, AgentDetach(a, d)
  PROVE  Promised
<1>1. PICK b \in Expire(book, overdue), saved \in BOOLEAN :
        book' \in ForceRelease(b, d) /\ SaveBoth(saved)
  BY DEF AgentDetach
<1>2. up /\ overdue' = overdue /\ granted' = [granted EXCEPT ![d] = NoGrant]
  BY DEF AgentDetach, Ready
<1>3. GoodBook(b)
  BY ExpiredMoves
<1>4. Evolves(b, book', {d}) /\ Tidy(b, book')
  BY <1>1, <1>3, ForceReleaseEvolves
<1>5. BookMoves(Late \cup {d})
  BY <1>1, <1>4, SavesChoose, EvolvingMoves
<1>6. Grants({d})
  <2>1. granted \in [Devices -> Grant]
    BY DEF IInv, CountersOK
  <2> QED BY <1>2, <2>1 DEF Grants, GInv, NoGrant
<1> QED BY <1>2, <1>5, <1>6, MovesKeepPromises

-----------------------------------------------------------------------------
(***************************************************************************)
(* The other handlers.                                                      *)
(***************************************************************************)
LEMMA QuietMovesKeepPromises ==
  ASSUME IInv, IInv', GInv, DInv, up, BookMoves(Late \cup {}),
         UNCHANGED <<granted, overdue>>
  PROVE  Promised
BY GrantsSame, MovesKeepPromises

LEMMA BooksStay ==
  ASSUME IInv, book' = book, bookDisk' \in {bookDisk, book},
         faults' \in {faults, faults + 1}
  PROVE  BookMoves(Late \cup {})
<1>1. GoodBook(book) /\ faults \in Nat
  BY RegistryAssumption DEF IInv, BooksOK, CountersOK
<1>2. Steps(book, book, Late \cup {}) /\ Orderly(book, book) /\ Tidy(book, book)
  BY <1>1, StepsByStanding, OrderlyAtFirst DEF SameLeases, Tidy
<1> QED BY <1>1, <1>2 DEF BookMoves

\* The process is gone, and with it what the clients were told but for the disk.
LEMMA FellKeepsPromises ==
  ASSUME IInv, GInv, DInv, ~up', book' = bookDisk, bookDisk' = bookDisk,
         UNCHANGED <<granted, overdue>>, faults' \in {faults, faults + 1}
  PROVE  Promised
<1>1. faults \in Nat
  BY RegistryAssumption DEF IInv, CountersOK
<1>2. DInv' /\ OrderlyStep
  BY <1>1 DEF DInv, OrderlyStep
<1>3. GInv'
  BY DEF GInv, FirmIn
<1> QED BY <1>2, <1>3 DEF Promised

LEMMA PersistKeepsPromises ==
  ASSUME IInv, IInv', GInv, DInv, up, NEW s, NEW chk, PersistOrPanic(s, chk),
         UNCHANGED <<granted, overdue>>
  PROVE  Promised
<1>1. CASE SaveState(TRUE) /\ UNCHANGED <<book, bookDisk>>
  BY <1>1, SavesChoose, BooksStay, QuietMovesKeepPromises
<1>2. CASE Panic(s)
  <2>1. /\ ~up' /\ book' = bookDisk /\ bookDisk' = bookDisk /\ faults' = faults + 1
    BY <1>2 DEF Panic, LoseMemory, Fault
  <2> QED BY <2>1, FellKeepsPromises
<1> QED BY <1>1, <1>2 DEF PersistOrPanic

\* A method that is all a handler does to the book.
LEMMA DirectMoves ==
  ASSUME IInv, IInv', NEW R, Evolves(book, book', R), Tidy(book, book'),
         bookDisk' \in {bookDisk, book'}, faults' \in {faults, faults + 1}
  PROVE  BookMoves(Late \cup R)
<1>1. GoodBook(book) /\ GoodBook(book') /\ faults \in Nat
  BY RegistryAssumption DEF IInv, BooksOK, CountersOK
<1>2. Steps(book, book', R) /\ Orderly(book, book')
  BY <1>1, StepsByEvolving, OrderlyAtFirst, OrderlyEvolves
<1>3. Steps(book, book', Late \cup R)
  BY <1>2, StepsWiden
<1> QED BY <1>1, <1>2, <1>3 DEF BookMoves

LEMMA HeartbeatInventoryKeepsPromises ==
  ASSUME IInv, IInv', GInv, DInv, NEW a, NEW h, NEW S, HeartbeatInventory(a, h, S)
  PROVE  Promised
<1> DEFINE R == {d \in Devices : st.device_peers[d] = a /\ d \notin S}
           kept == [book EXCEPT !.pending_detach = book.pending_detach \ S]
<1>1. PICK b \in DetachInventory(kept, R), saved \in BOOLEAN :
        book' = b /\ SaveBook(saved)
  BY DEF HeartbeatInventory
<1>2. /\ up /\ overdue' = overdue
      /\ granted' = [d \in Devices |-> IF d \in R THEN NoGrant ELSE granted[d]]
  BY DEF HeartbeatInventory, Ready
<1>3. /\ kept \in Book /\ SameLeases(book, kept) /\ kept.writers = book.writers
      /\ kept.pending_release = book.pending_release
  BY DEF SameLeases, IInv, BooksOK, GoodBook, Book
<1>4. R \in SUBSET Devices
  OBVIOUS
<1> HIDE DEF kept, R
<1>5. GoodBook(kept)
  BY <1>3, SameQueuesAreGood DEF IInv, BooksOK, SameLeases
<1>6. Evolves(kept, book', R) /\ Tidy(kept, book')
  BY <1>1, <1>4, <1>5, DetachInventoryEvolves
<1>7. Advances(book, book', R \cup book.pending_release)
  BY <1>3, <1>6, AdvancesFromSame DEF Evolves
<1>8. Evolves(book, book', R) /\ Tidy(book, book')
  BY <1>3, <1>6, <1>7 DEF Evolves, Tidy, Deferred, Fenced
<1>9. BookMoves(Late \cup R)
  BY <1>1, <1>8, SavesChoose, DirectMoves
<1>10. Grants(R)
  BY <1>2 DEF Grants, GInv, NoGrant
<1> QED BY <1>2, <1>9, <1>10, MovesKeepPromises

LEMMA HeartbeatExpireKeepsPromises ==
  ASSUME IInv, IInv', GInv, DInv, NEW a, HeartbeatExpire(a)
  PROVE  Promised
<1>1. /\ up /\ UNCHANGED <<overdue, granted>> /\ book' \in Expire(book, overdue)
      /\ \E saved \in BOOLEAN : SaveBook(saved)
  BY DEF HeartbeatExpire
<1> QED BY <1>1, SavesChoose, ExpiryKeepsPromises

LEMMA AppleRunCheckKeepsPromises ==
  ASSUME IInv, IInv', GInv, DInv, NEW c, NEW j, NEW l, AppleRunCheck(c, j, l)
  PROVE  Promised
<1>1. /\ up /\ UNCHANGED <<overdue, granted>> /\ book' \in Expire(book, overdue)
      /\ \E saved \in BOOLEAN : SaveBook(saved)
  BY DEF AppleRunCheck
<1> QED BY <1>1, SavesChoose, ExpiryKeepsPromises

\* The tail of a heartbeat that has brought the book to b.
LEMMA FinishHeartbeatMoves ==
  ASSUME IInv, IInv', NEW a, NEW s, NEW b, GoodBook(b),
         Steps(book, b, Late), Tidy(book, b), Orderly(book, b),
         NEW bd \in {bookDisk, b}, NEW reply, FinishHeartbeat(a, s, b, bd, reply)
  PROVE  BookMoves(Late \cup {})
<1> DEFINE undone == [s EXCEPT !.dispatched = s.dispatched \ {reply.job}]
<1>1. /\ faults' \in {faults, faults + 1}
      /\ \/ book' = b /\ bookDisk' = bd
         \/ book' \in ReconciledBooks(undone, b) /\ bookDisk' \in {bd, book'}
  BY DEF FinishHeartbeat, Fault
<1>2. GoodBook(book) /\ faults \in Nat
  BY RegistryAssumption DEF IInv, BooksOK, CountersOK
<1> HIDE DEF undone
<1>3. /\ Steps(book, book', Late) /\ Tidy(book, book') /\ Orderly(book, book')
      /\ bookDisk' \in {bookDisk, b, book'}
  <2>1. CASE book' = b /\ bookDisk' = bd
    BY <2>1
  <2>2. CASE book' \in ReconciledBooks(undone, b) /\ bookDisk' \in {bd, book'}
    <3>1. GoodBook(book') /\ Evolves(b, book', {}) /\ Tidy(b, book')
      BY <2>2, ReconciledEvolves
    <3>2. Steps(b, book', {}) /\ Orderly(book, book')
      BY <3>1, StepsByEvolving, OrderlyEvolves
    <3>3. Steps(book, book', Late \cup {})
      BY <1>2, <3>1, <3>2, StepsAreTransitive
    <3>4. Late \cup {} = Late
      OBVIOUS
    <3> QED BY <2>2, <3>1, <3>2, <3>3, <3>4 DEF Tidy
  <2> QED BY <1>1, <2>1, <2>2
<1>4. Late \cup {} = Late
  OBVIOUS
<1> QED BY <1>1, <1>2, <1>3, <1>4 DEF BookMoves

LEMMA SetWriterMoves ==
  ASSUME IInv, NEW b \in Expire(book, overdue), NEW j \in Jobs
  PROVE  LET c == SetWriter(b, DeviceOf[j], j)
         IN  /\ GoodBook(c) /\ Steps(book, c, Late) /\ Tidy(book, c)
             /\ Orderly(book, c)
<1> DEFINE c == SetWriter(b, DeviceOf[j], j)
<1>1. DeviceOf[j] \in Devices /\ GoodBook(b) /\ GoodBook(book)
  BY RegistryAssumption, ExpiredMoves DEF IInv, BooksOK
<1>2. GoodBook(c) /\ Evolves(b, c, {}) /\ Tidy(b, c)
  BY <1>1, SetWriterEvolves
<1> HIDE DEF c
<1>3. Steps(b, c, {}) /\ Orderly(book, c)
  BY <1>1, <1>2, StepsByEvolving, ExpiredMoves, OrderlyEvolves
<1>4. Steps(book, c, Late \cup {}) /\ Late \cup {} = Late
  BY <1>1, <1>2, <1>3, ExpiredMoves, StepsAreTransitive
<1>5. Tidy(book, c)
  BY <1>2, ExpiredMoves DEF Tidy
<1> QED BY <1>2, <1>3, <1>4, <1>5 DEF c

LEMMA DispatchAppleMoves ==
  ASSUME IInv, IInv', NEW a, NEW s, NEW r, NEW j, DispatchApple(a, s, r, j)
  PROVE  BookMoves(Late \cup {})
<1>1. GoodBook(book) /\ faults \in Nat
  BY RegistryAssumption DEF IInv, BooksOK, CountersOK
<1>2. ASSUME NEW t, NEW reply, FinishHeartbeat(a, t, book, bookDisk, reply)
      PROVE  BookMoves(Late \cup {})
  <2>1. Steps(book, book, Late) /\ Orderly(book, book) /\ Tidy(book, book)
    BY <1>1, StepsByStanding, OrderlyAtFirst DEF SameLeases, Tidy
  <2> QED BY <1>1, <1>2, <2>1, FinishHeartbeatMoves
<1>3. ASSUME j \in Mutating, NEW b \in Expire(book, overdue),
             DispatchWriter(a, s, b, r, j)
      PROVE  BookMoves(Late \cup {})
  <2> DEFINE c == SetWriter(b, DeviceOf[j], j)
  <2>1. /\ GoodBook(c) /\ Steps(book, c, Late) /\ Tidy(book, c)
        /\ Orderly(book, c)
    BY <1>3, RegistryAssumption, SetWriterMoves
  <2>2. \/ \E t, reply : FinishHeartbeat(a, t, c, c, reply)
        \/ Fault /\ book' = c /\ bookDisk' \in {bookDisk, c}
    BY <1>3 DEF DispatchWriter
  <2> HIDE DEF c
  <2>3. CASE Fault /\ book' = c /\ bookDisk' \in {bookDisk, c}
    <3>1. Late \cup {} = Late
      OBVIOUS
    <3> QED BY <1>1, <2>1, <2>3, <3>1 DEF BookMoves, Fault
  <2> QED BY <2>1, <2>2, <2>3, FinishHeartbeatMoves
<1>4. ASSUME NEW b \in Expire(book, overdue), RejectApple(a, s, b, r, j)
      PROVE  BookMoves(Late \cup {})
  <2>1. \E t, reply : FinishHeartbeat(a, t, b, bookDisk, reply)
    BY <1>4 DEF RejectApple
  <2> QED BY <1>4, <2>1, ExpiredMoves, FinishHeartbeatMoves
<1> QED BY <1>2, <1>3, <1>4 DEF DispatchApple

LEMMA HeartbeatDispatchKeepsPromises ==
  ASSUME IInv, IInv', GInv, DInv, NEW a, HeartbeatDispatch(a)
  PROVE  Promised
<1>1. /\ \E s, r, j : DispatchApple(a, s, r, j)
      /\ up /\ UNCHANGED <<granted, overdue>>
  BY DEF HeartbeatDispatch, Ready
<1> QED BY <1>1, DispatchAppleMoves, QuietMovesKeepPromises

LEMMA StartedBeginKeepsPromises ==
  ASSUME IInv, IInv', GInv, DInv, NEW a, NEW j \in Jobs, NEW accepted,
         StartedBegin(a, j, accepted)
  PROVE  Promised
<1>1. up /\ UNCHANGED <<granted, overdue>>
  BY DEF StartedBegin, Ready
<1>2. GoodBook(book) /\ faults \in Nat
  BY RegistryAssumption DEF IInv, BooksOK, CountersOK
<1>3. CASE book' = book /\ SaveBook(accepted)
  BY <1>1, <1>3, SavesChoose, BooksStay, QuietMovesKeepPromises
<1>4. ASSUME NEW b \in Expire(book, overdue),
             book' = SetWriter(b, DeviceOf[j], j), SaveBook(accepted)
      PROVE  Promised
  <2>1. /\ Steps(book, book', Late) /\ Tidy(book, book') /\ Orderly(book, book')
    BY <1>4, SetWriterMoves
  <2>2. bookDisk' \in {bookDisk, book'} /\ faults' \in {faults, faults + 1}
    BY <1>4, SavesChoose
  <2>3. Late \cup {} = Late
    OBVIOUS
  <2>4. BookMoves(Late \cup {})
    BY <1>2, <2>1, <2>2, <2>3 DEF BookMoves
  <2> QED BY <1>1, <2>4, QuietMovesKeepPromises
<1>5. ASSUME NEW saved, book' \in Expire(book, overdue), SaveBook(saved)
      PROVE  Promised
  BY <1>1, <1>5, SavesChoose, ExpiryKeepsPromises
<1> QED BY <1>3, <1>4, <1>5 DEF StartedBegin

\* A writer that is dropped because its job could not be acknowledged takes no
\* lease along, but leaves a release deferred with nobody to wait for.
LEMMA StartedCommitKeepsPromises ==
  ASSUME IInv, IInv', GInv, DInv, NEW accepted \in BOOLEAN, StartedCommit(accepted)
  PROVE  Promised
<1> DEFINE w == [d \in Devices |-> IF book.writers[d] = prog.job THEN None
                                   ELSE book.writers[d]]
           dropped == [book EXCEPT !.writers = w]
<1>1. up /\ UNCHANGED <<granted, overdue>> /\ SaveState(accepted)
  BY DEF StartedCommit
<1>2. \/ UNCHANGED <<book, bookDisk>>
      \/ ~accepted /\ book' = dropped /\ bookDisk' \in {bookDisk, dropped}
  BY DEF StartedCommit
<1>3. CASE UNCHANGED <<book, bookDisk>>
  BY <1>1, <1>3, SavesChoose, BooksStay, QuietMovesKeepPromises
<1>4. CASE ~accepted /\ book' = dropped /\ bookDisk' \in {bookDisk, dropped}
  <2>1. GoodBook(book) /\ book \in Book /\ faults \in Nat
    BY RegistryAssumption DEF IInv, BooksOK, CountersOK, GoodBook
  <2>2. SameLeases(book, dropped) /\ dropped.pending_release = book.pending_release
    BY <2>1 DEF SameLeases, Book
  <2> HIDE DEF dropped
  <2>3. Steps(book, book', Late \cup {})
    BY <1>4, <2>1, <2>2, StepsByStanding
  <2>4. Orderly(book, book')
    BY <1>4, <2>1, <2>2, OrderlyAtFirst DEF SameLeases, Orderly, OrderlyOn
  <2>5. faults' # 0
    BY <1>1, <1>4, <2>1, SavesChoose
  <2>6. BookMoves(Late \cup {})
    BY <1>4, <2>3, <2>4, <2>5 DEF BookMoves
  <2> QED BY <1>1, <2>6, QuietMovesKeepPromises
<1> QED BY <1>2, <1>3, <1>4

LEMMA TerminalBeginKeepsPromises ==
  ASSUME IInv, IInv', GInv, DInv, NEW a, NEW j, NEW k, TerminalBegin(a, j, k)
  PROVE  Promised
<1>1. /\ up /\ UNCHANGED <<granted, overdue, bookDisk, faults>>
      /\ book' \in DropWriters(book, WrittenBy(book, j))
  BY DEF TerminalBegin, Ready
<1>2. GoodBook(book) /\ WrittenBy(book, j) \in SUBSET Devices
  BY DEF IInv, BooksOK, WrittenBy
<1>3. Evolves(book, book', {}) /\ Tidy(book, book')
  BY <1>1, <1>2, DropWritersEvolves
<1>4. BookMoves(Late \cup {})
  BY <1>1, <1>3, DirectMoves
<1> QED BY <1>1, <1>4, QuietMovesKeepPromises

LEMMA TerminalCommitKeepsPromises ==
  ASSUME IInv, IInv', GInv, DInv, NEW accepted, TerminalCommit(accepted)
  PROVE  Promised
<1>1. /\ up /\ UNCHANGED <<granted, overdue, book>>
      /\ bookDisk' \in {bookDisk, book} /\ faults' \in {faults, faults + 1}
  BY DEF TerminalCommit, Fault
<1> QED BY <1>1, BooksStay, QuietMovesKeepPromises

\* The clock passes, or is set back before, the expiry of a lease.
LEMMA ClockMovesKeepsPromises ==
  ASSUME IInv, GInv, DInv, NEW l, ClockMoves(l)
  PROVE  Promised
<1>1. /\ UNCHANGED <<book, bookDisk, faults>> /\ up /\ l \in ActiveIds(book)
      /\ overdue' \subseteq overdue \cup {l}
      /\ granted' = Ungrant({l})
  BY DEF ClockMoves
<1>2. GoodBook(book)
  BY DEF IInv, BooksOK
<1>3. l <= book.next_id
  BY <1>1 DEF GInv, Numbered, ActiveIds
<1>4. \A d \in Devices : granted'[d].firm =>
        granted'[d] = granted[d] /\ granted[d].id # l
  BY <1>1 DEF Ungrant, NoGrant
<1>5. GInv'
  BY <1>1, <1>3, <1>4 DEF GInv, FirmIn, Numbered
<1>6. DInv' /\ OrderlyStep
  BY <1>1, <1>2, OrderlyAtFirst DEF DInv, OrderlyStep, Deferred, Fenced
<1> QED BY <1>5, <1>6 DEF Promised

\* A start ends the leases that are late and what waited for orphaned writers.
LEMMA RestartKeepsPromises ==
  ASSUME IInv, IInv', GInv, DInv, Restart
  PROVE  Promised
<1>1. /\ ~up /\ bookDisk' = book' /\ faults' = faults
  BY DEF Restart
<1>2. PICK late \in SUBSET ActiveIds(bookDisk) :
        /\ overdue' = late /\ granted' = Ungrant(late)
        /\ \E b \in Expire(bookDisk, late) : book' \in ReconciledBooks(stDisk, b)
  BY DEF Restart
<1>3. PICK b \in Expire(bookDisk, late) : book' \in ReconciledBooks(stDisk, b)
  BY <1>2
<1> DEFINE L == LateIn(bookDisk, late)
<1>4. GoodBook(bookDisk)
  BY DEF IInv, BooksOK
<1>5. GoodBook(b) /\ Steps(bookDisk, b, L) /\ Tidy(bookDisk, b)
  BY <1>4, ExpireEvolves, StepsByEvolving
<1>6. GoodBook(book') /\ Steps(b, book', {}) /\ Tidy(b, book')
  BY <1>3, <1>5, ReconciledEvolves, StepsByEvolving
<1> HIDE DEF L
<1>7. Steps(bookDisk, book', L \cup {}) /\ Tidy(bookDisk, book')
  BY <1>4, <1>5, <1>6, StepsAreTransitive DEF Tidy
<1>8. Numbered(book') /\ Numbered(bookDisk')
  BY <1>1, <1>7 DEF GInv, Steps
<1>9. \A l \in overdue' : l <= book'.next_id
  <2>1. \A l \in late : l \in Nat /\ l <= bookDisk.next_id
    BY <1>4 DEF GInv, Numbered, ActiveIds, GoodBook, Book, Lease, NoLease
  <2>2. /\ bookDisk.next_id \in Nat /\ book'.next_id \in Nat
        /\ book'.next_id >= bookDisk.next_id
    BY <1>4, <1>6, <1>7 DEF Steps, GoodBook, Book
  <2> QED BY <1>2, <2>1, <2>2
<1>10. ASSUME NEW d \in Devices, granted'[d].firm
       PROVE  /\ granted'[d].id # 0 /\ granted'[d].id \notin overdue'
              /\ FirmIn(book, d)' /\ FirmIn(bookDisk, d)'
  <2>1. granted'[d] = granted[d] /\ granted[d].id \notin late
    BY <1>2, <1>10 DEF Ungrant, NoGrant
  <2>2. granted[d].id # 0 /\ FirmIn(bookDisk, d)
    BY <1>10, <2>1 DEF GInv
  <2>3. Leased(bookDisk, d) /\ d \notin (L \cup {}) \cup bookDisk.pending_release
    BY <1>10, <2>1, <2>2, FirmIsSafe DEF L, LateIn, FirmIn
  <2>4. book'.active[d] = bookDisk.active[d] /\ d \notin book'.pending_release
    BY <1>7, <2>3 DEF Steps
  <2> QED BY <1>1, <1>2, <2>1, <2>2, <2>4 DEF FirmIn
<1>11. GInv'
  BY <1>8, <1>9, <1>10 DEF GInv
<1>12. DInv' /\ OrderlyStep
  BY <1>1, <1>7 DEF DInv, OrderlyStep, Tidy
<1> QED BY <1>11, <1>12 DEF Promised

LEMMA StandingKeepsPromises ==
  ASSUME IInv, GInv, DInv, UNCHANGED <<up, book, bookDisk, overdue, faults, granted>>
  PROVE  Promised
<1>1. GInv' /\ DInv'
  BY DEF GInv, DInv, Numbered, FirmIn, Deferred, Fenced
<1>2. OrderlyStep
  BY OrderlyAtFirst DEF OrderlyStep, IInv, BooksOK
<1> QED BY <1>1, <1>2 DEF Promised

LEMMA PromisesAreInductive ==
  ASSUME IInv, IInv', GInv, DInv, [Next]_vars PROVE Promised
<1>1. ASSUME NEW a \in Agents, AgentRequest(a) PROVE Promised
  BY <1>1, HeartbeatInventoryKeepsPromises, HeartbeatExpireKeepsPromises,
     HeartbeatDispatchKeepsPromises, StartedBeginKeepsPromises,
     TerminalBeginKeepsPromises, ValidateLeaseKeepsPromises,
     AgentDetachKeepsPromises DEF AgentRequest
<1>2. ASSUME NEW c \in Clients, ClientRequest(c) PROVE Promised
  <2>1. ASSUME NEW j, NEW l, AppleRunSubmit(c, j, l) PROVE Promised
    <3>1. /\ up /\ UNCHANGED <<granted, overdue>>
          /\ \/ UNCHANGED <<up, book, bookDisk, faults>>
             \/ \E s, chk : PersistOrPanic(s, chk)
      BY <2>1 DEF AppleRunSubmit, Ready
    <3> QED BY <3>1, PersistKeepsPromises, StandingKeepsPromises
  <2>2. ASSUME NEW j, AppleCancel(c, j) PROVE Promised
    BY <2>2, PersistKeepsPromises DEF AppleCancel, Ready
  <2> QED BY <1>2, <2>1, <2>2, AcquireLeaseKeepsPromises, QueueLeaseKeepsPromises,
             RenewLeaseKeepsPromises, ReleaseLeaseKeepsPromises,
             DisconnectClientKeepsPromises, AppleRunCheckKeepsPromises
          DEF ClientRequest
<1>3. ASSUME NEW r \in Runs, Run(r) \/ Complete(r) PROVE Promised
  BY <1>3, PersistKeepsPromises DEF Run, Complete, Ready
<1>4. CASE ProgressCommit
  BY <1>4, StartedCommitKeepsPromises, TerminalCommitKeepsPromises
     DEF ProgressCommit
<1>5. CASE Environment
  <2>1. CASE Crash
    <3>1. /\ ~up' /\ book' = bookDisk
          /\ UNCHANGED <<bookDisk, granted, overdue, faults>>
      BY <2>1 DEF Crash, LoseMemory
    <3> QED BY <3>1, FellKeepsPromises
  <2>2. ASSUME NEW l, ClockMoves(l) PROVE Promised
    BY <2>2, ClockMovesKeepsPromises
  <2>3. CASE \/ \E a \in Agents : ReplyTaken(a)
             \/ \E h \in Hosts : HostGoesOffline(h)
    <3>1. UNCHANGED <<up, book, bookDisk, overdue, faults, granted>>
      BY <2>3 DEF ReplyTaken, HostGoesOffline
    <3> QED BY <3>1, StandingKeepsPromises
  <2> QED BY <1>5, <2>1, <2>2, <2>3, RestartKeepsPromises DEF Environment
<1>6. CASE UNCHANGED vars
  BY <1>6, StandingKeepsPromises DEF vars
<1> QED BY <1>1, <1>2, <1>3, <1>4, <1>5, <1>6 DEF Next

LEMMA PromisesHold == Spec => [](IInv /\ GInv /\ DInv)
<1>1. Init => GInv /\ DInv
  <2>1. ASSUME Init PROVE GInv
    BY <2>1 DEF Init, GInv, Numbered, EmptyBook, NoLease, NoGrant
  <2>2. ASSUME Init PROVE DInv
    BY <2>2 DEF Init, DInv, Deferred, EmptyBook
  <2> QED BY <2>1, <2>2
<1>2. IInv /\ IInv' /\ GInv /\ DInv /\ [Next]_vars => GInv' /\ DInv'
  BY PromisesAreInductive DEF Promised
<1> QED BY <1>1, <1>2, IInvHolds, PTL DEF Spec

\* A lease that a client was told it holds is its active lease, in memory and in
\* the file that a start reads, until the client gives it up, the clock passes
\* its expiry or its device is detached (LeaseBook, expire and start_inner).
THEOREM GrantIsKept == Spec => []GrantKept
<1>1. GInv => GrantKept
  BY DEF GInv, GrantKept, FirmIn
<1> QED BY <1>1, PromisesHold, PTL

\* As long as every write has succeeded, a release is deferred only for a device
\* that a job still writes to.  A "started" that cannot be saved is what breaks
\* it: AppleProgress drops the writer it has set and leaves pending_release as it
\* is.
THEOREM DeferredReleaseHasWriter == Spec => [](faults = 0 => DeferredHasWriter)
<1>1. DInv => (faults = 0 => DeferredHasWriter)
  BY DEF DInv, Deferred, DeferredHasWriter
<1> QED BY <1>1, PromisesHold, PTL

\* Whoever still waits for a device was not overtaken: no step of a running
\* registry leaves the device with a client that queued for it later (the Vec of
\* waiters in release_device_now, Queue and Disconnect).
THEOREM NobodyIsOvertaken == Spec => NoOvertaking
<1> DEFINE Fair == \A d \in Devices : \A i, k \in DOMAIN book.waiting[d] :
                     up /\ up' /\ i < k /\ Waits(book', d, book.waiting[d][i])
                       => book'.active[d].client # book.waiting[d][k]
<1>1. OrderlyStep => Fair
  BY DEF OrderlyStep, Orderly, OrderlyOn, Waits
<1>2. IInv /\ IInv' /\ GInv /\ DInv /\ [Next]_vars => Fair
  BY <1>1, PromisesAreInductive DEF Promised
<1> HIDE DEF Fair
<1>3. Spec => [][Fair]_vars
  BY <1>2, PromisesHold, PTL DEF Spec
<1> QED BY <1>3 DEF NoOvertaking, Fair
=============================================================================
