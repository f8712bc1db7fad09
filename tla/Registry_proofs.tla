-------------------------- MODULE Registry_proofs --------------------------
(***************************************************************************)
(* Registry: type correctness and the order of the waiting queues, for any  *)
(* finite set of devices, any clients, agents, hosts and jobs, and any      *)
(* number of failed writes and crashes.                                     *)
(*                                                                         *)
(* TypeOK is not inductive: a job is assigned to the agent of an eligible   *)
(* host, so a host with a current entry must have one (HostsOK), which a    *)
(* heartbeat that is half done relies on; and the second half of an         *)
(* AppleProgress is about the job of the first (ProgressOK).  The queues    *)
(* must be in order on disk as well, since a restart reads them back.       *)
(***************************************************************************)
EXTENDS Registry, TLAPS, FiniteSetTheorems

(***************************************************************************)
(* The lease book.  A book is good when it is well typed and its queues    *)
(* are in order; every operator of LeaseBook leads from good books to good *)
(* books, and says here what it leaves alone.                              *)
(***************************************************************************)
GoodBook(b) == b \in Book /\ QueueOK(b)

\* The book of a registry that never ran is good.
LEMMA EmptyBookIsGood == GoodBook(EmptyBook)
BY DEF GoodBook, EmptyBook, Book, QueueOK, Leased, NoLease

\* Ids handed out by promotions are positive, and their number is a number.
LEMMA FreshIdsType ==
  ASSUME NEW b \in Book, NEW P \in SUBSET Devices, NEW ids \in FreshIds(b, P)
  PROVE  /\ Cardinality(P) \in Nat
         /\ ids \in [P -> Nat \ {0}]
<1>1. IsFiniteSet(P)
  BY FiniteDevices, FS_Subset
<1>2. Cardinality(P) \in Nat
  BY <1>1, FS_CardinalityType
<1>3. b.next_id \in Nat
  BY DEF Book
<1>4. ids \in [P -> (b.next_id + 1) .. (b.next_id + Cardinality(P))]
  BY DEF FreshIds
<1> QED
  BY <1>2, <1>3, <1>4

\* A lease of a client is a lease.
LEMMA ClientLeaseIsLease ==
  ASSUME NEW n \in Nat \ {0}, NEW c \in Clients
  PROVE  [id |-> n, client |-> c] \in Lease /\ [id |-> n, client |-> c] # NoLease
BY DEF Lease, NoLease

\* release_device_now: it types, keeps queues in order and touches neither the
\* writers nor what is deferred for them.
LEMMA ReleaseNowIsGood ==
  ASSUME NEW b, GoodBook(b), NEW S \in SUBSET Devices, NEW c \in ReleaseNow(b, S)
  PROVE  /\ GoodBook(c)
         /\ c.writers = b.writers
         /\ c.pending_release = b.pending_release
         /\ c.pending_detach = b.pending_detach
         /\ \A d \in Devices \ S : c.active[d] = b.active[d]
<1> DEFINE P == {d \in S : b.waiting[d] # << >>}
           After(ids, d) == IF d \in P
                            THEN [id |-> ids[d], client |-> Head(b.waiting[d])]
                            ELSE IF d \in S THEN NoLease ELSE b.active[d]
           Queue(d) == IF d \in P THEN Tail(b.waiting[d]) ELSE b.waiting[d]
<1>1. PICK ids \in FreshIds(b, P) :
        c = [b EXCEPT !.next_id = b.next_id + Cardinality(P),
                      !.active  = [d \in Devices |-> After(ids, d)],
                      !.waiting = [d \in Devices |-> Queue(d)]]
  BY DEF ReleaseNow
<1>2. b \in Book
  BY DEF GoodBook
<1>3. Cardinality(P) \in Nat /\ ids \in [P -> Nat \ {0}]
  <2>1. P \in SUBSET Devices
    OBVIOUS
  <2> QED BY <1>2, <2>1, FreshIdsType
<1>4. \A d \in P : b.waiting[d] \in Seq(Clients) /\ b.waiting[d] # << >>
  BY <1>2 DEF Book
<1>5. \A d \in P : /\ Head(b.waiting[d]) \in Clients
                   /\ Tail(b.waiting[d]) \in Seq(Clients)
  BY <1>4
<1>6. \A d \in P : After(ids, d) \in Lease /\ After(ids, d) # NoLease
  BY <1>3, <1>5, ClientLeaseIsLease
<1>7. \A d \in Devices : After(ids, d) \in Lease \cup {NoLease}
  BY <1>6, <1>2 DEF Book
<1>8. \A d \in Devices : Queue(d) \in Seq(Clients)
  BY <1>5, <1>2 DEF Book
<1>9. /\ c.active = [d \in Devices |-> After(ids, d)]
      /\ c.waiting = [d \in Devices |-> Queue(d)]
      /\ c.writers = b.writers
      /\ c.pending_release = b.pending_release
      /\ c.pending_detach = b.pending_detach
      /\ c.next_id = b.next_id + Cardinality(P)
  BY <1>1, <1>2 DEF Book
<1>10. c \in Book
  <2>1. c.active \in [Devices -> Lease \cup {NoLease}]
    BY <1>7, <1>9
  <2>2. c.waiting \in [Devices -> Seq(Clients)]
    BY <1>8, <1>9
  <2>3. c.next_id \in Nat
    BY <1>2, <1>3, <1>9 DEF Book
  <2> QED
    BY <1>1, <1>2, <2>1, <2>2, <2>3, <1>9 DEF Book
<1>11. QueueOK(c)
  <2> SUFFICES ASSUME NEW d \in Devices
               PROVE  /\ c.waiting[d] # << >> => Leased(c, d)
                      /\ \A i \in DOMAIN c.waiting[d] :
                           /\ c.waiting[d][i] # c.active[d].client
                           /\ \A k \in DOMAIN c.waiting[d] :
                                c.waiting[d][i] = c.waiting[d][k] => i = k
    BY DEF QueueOK
  <2>1. CASE d \in P
    <3> DEFINE q == b.waiting[d]
    <3>1. q \in Seq(Clients) /\ q # << >> /\ Len(q) \in Nat \ {0}
      BY <2>1, <1>4
    <3>2. /\ c.waiting[d] = Tail(q)
          /\ c.active[d] = [id |-> ids[d], client |-> Head(q)]
      BY <2>1, <1>9
    <3>3. \A i \in 1 .. Len(q), k \in 1 .. Len(q) : q[i] = q[k] => i = k
      BY <3>1 DEF GoodBook, QueueOK
    <3>4. /\ DOMAIN Tail(q) = 1 .. Len(q) - 1
          /\ \A i \in 1 .. Len(q) - 1 : Tail(q)[i] = q[i + 1]
          /\ Head(q) = q[1]
      BY <3>1
    <3>5. Leased(c, d)
      BY <2>1, <1>6, <1>9 DEF Leased
    <3>6. ASSUME NEW i \in DOMAIN c.waiting[d]
          PROVE  /\ c.waiting[d][i] # c.active[d].client
                 /\ \A k \in DOMAIN c.waiting[d] :
                      c.waiting[d][i] = c.waiting[d][k] => i = k
      <4>1. i \in 1 .. Len(q) - 1 /\ i + 1 \in 1 .. Len(q) /\ 1 \in 1 .. Len(q)
        BY <3>1, <3>2, <3>4
      <4>2. c.waiting[d][i] = q[i + 1] /\ c.active[d].client = q[1]
        BY <3>2, <3>4, <4>1
      <4>3. q[i + 1] # q[1]
        BY <3>3, <4>1
      <4>4. ASSUME NEW k \in DOMAIN c.waiting[d],
                   c.waiting[d][i] = c.waiting[d][k]
            PROVE  i = k
        <5>1. k \in 1 .. Len(q) - 1 /\ k + 1 \in 1 .. Len(q)
          BY <3>1, <3>2, <3>4
        <5>2. q[i + 1] = q[k + 1]
          BY <4>2, <4>4, <5>1, <3>2, <3>4
        <5>3. i + 1 = k + 1
          BY <3>3, <4>1, <5>1, <5>2
        <5> QED BY <4>1, <5>1, <5>3
      <4> QED BY <4>2, <4>3, <4>4
    <3> QED BY <3>5, <3>6
  <2>2. CASE d \in S \ P
    <3>1. c.waiting[d] = << >>
      BY <2>2, <1>9
    <3> QED BY <3>1
  <2>3. CASE d \notin S
    <3>1. c.waiting[d] = b.waiting[d] /\ c.active[d] = b.active[d]
      BY <2>3, <1>9
    <3> QED BY <3>1 DEF GoodBook, QueueOK, Leased
  <2> QED BY <2>1, <2>2, <2>3
<1>12. \A d \in Devices \ S : c.active[d] = b.active[d]
  BY <1>9
<1> QED
  BY <1>9, <1>10, <1>11, <1>12 DEF GoodBook

\* release_device.
LEMMA ReleaseIsGood ==
  ASSUME NEW b, GoodBook(b), NEW S \in SUBSET Devices, NEW c \in Release(b, S)
  PROVE  /\ GoodBook(c)
         /\ c.writers = b.writers
         /\ c.pending_release = b.pending_release \cup {d \in S : Fenced(b, d)}
         /\ c.pending_detach = b.pending_detach
         /\ \A d \in Devices : d \notin S \/ Fenced(b, d) => c.active[d] = b.active[d]
<1> DEFINE F == {d \in S : Fenced(b, d)}
           e == [b EXCEPT !.pending_release = b.pending_release \cup F]
<1>1. c \in ReleaseNow(e, S \ F)
  BY DEF Release
<1>2. b \in Book
  BY DEF GoodBook
<1>3. /\ e.active = b.active /\ e.waiting = b.waiting /\ e.writers = b.writers
      /\ e.pending_detach = b.pending_detach
      /\ e.pending_release = b.pending_release \cup F
  BY <1>2 DEF Book
<1>4. e \in Book
  BY <1>2 DEF Book
<1>5. QueueOK(e)
  BY <1>3 DEF GoodBook, QueueOK, Leased
<1>6. GoodBook(e)
  BY <1>4, <1>5 DEF GoodBook
<1> HIDE DEF e
<1>7. S \ F \in SUBSET Devices
  OBVIOUS
<1>8. /\ GoodBook(c)
      /\ c.writers = e.writers
      /\ c.pending_release = e.pending_release
      /\ c.pending_detach = e.pending_detach
      /\ \A d \in Devices \ (S \ F) : c.active[d] = e.active[d]
  BY <1>1, <1>6, <1>7, ReleaseNowIsGood
<1> QED BY <1>3, <1>8

\* expire.
LEMMA ExpireIsGood ==
  ASSUME NEW b, GoodBook(b), NEW late, NEW c \in Expire(b, late)
  PROVE  /\ GoodBook(c)
         /\ c.writers = b.writers
         /\ c.pending_detach = b.pending_detach
         /\ \A d \in Devices : Fenced(b, d) => c.active[d] = b.active[d]
<1> DEFINE S == {d \in Devices : Leased(b, d) /\ b.active[d].id \in late}
<1>1. c \in Release(b, S) /\ S \in SUBSET Devices
  BY DEF Expire
<1> HIDE DEF S
<1> QED BY <1>1, ReleaseIsGood

\* The tail of reconcile_runtime_state and of terminal progress.
LEMMA DropWritersIsGood ==
  ASSUME NEW b, GoodBook(b), NEW S \in SUBSET Devices, NEW c \in DropWriters(b, S)
  PROVE  /\ GoodBook(c)
         /\ c.writers = [d \in Devices |-> IF d \in S THEN None ELSE b.writers[d]]
         /\ \A d \in Devices \ S : c.active[d] = b.active[d]
<1> DEFINE w == [d \in Devices |-> IF d \in S THEN None ELSE b.writers[d]]
           e == [b EXCEPT !.writers = w,
                          !.pending_release = b.pending_release \ S,
                          !.pending_detach  = b.pending_detach \ S]
<1>1. c \in ReleaseNow(e, S \cap b.pending_release)
  BY DEF DropWriters
<1>2. b \in Book
  BY DEF GoodBook
<1>3. w \in [Devices -> Jobs \cup {None}]
  BY <1>2 DEF Book
<1> HIDE DEF w
<1>4. e.active = b.active /\ e.waiting = b.waiting /\ e.writers = w
  BY <1>2 DEF Book
<1>5. e \in Book
  BY <1>2, <1>3 DEF Book
<1>6. QueueOK(e)
  BY <1>4 DEF GoodBook, QueueOK, Leased
<1>7. GoodBook(e)
  BY <1>5, <1>6 DEF GoodBook
<1> HIDE DEF e
<1>8. S \cap b.pending_release \in SUBSET Devices
  OBVIOUS
<1>9. /\ GoodBook(c) /\ c.writers = e.writers
      /\ \A d \in Devices \ (S \cap b.pending_release) : c.active[d] = e.active[d]
  BY <1>1, <1>7, <1>8, ReleaseNowIsGood
<1> QED BY <1>4, <1>9 DEF w

\* force_release_device.
LEMMA ForceReleaseIsGood ==
  ASSUME NEW b, GoodBook(b), NEW d \in Devices, NEW c \in ForceRelease(b, d)
  PROVE  /\ GoodBook(c)
         /\ c.writers = [b.writers EXCEPT ![d] = None]
         /\ \A f \in Devices \ {d} : c.active[f] = b.active[f]
<1> DEFINE w == [b.writers EXCEPT ![d] = None]
           e == [b EXCEPT !.writers[d] = None,
                          !.pending_release = b.pending_release \ {d},
                          !.pending_detach  = b.pending_detach \ {d}]
<1>1. c \in ReleaseNow(e, {d})
  BY DEF ForceRelease
<1>2. b \in Book
  BY DEF GoodBook
<1>3. /\ e.active = b.active /\ e.waiting = b.waiting /\ e.writers = w
      /\ e \in Book
  BY <1>2 DEF Book
<1>4. QueueOK(e)
  BY <1>3 DEF GoodBook, QueueOK, Leased
<1>5. GoodBook(e)
  BY <1>3, <1>4 DEF GoodBook
<1> HIDE DEF e, w
<1>6. {d} \in SUBSET Devices
  OBVIOUS
<1>7. /\ GoodBook(c) /\ c.writers = e.writers
      /\ \A f \in Devices \ {d} : c.active[f] = e.active[f]
  BY <1>1, <1>5, <1>6, ReleaseNowIsGood
<1> QED BY <1>3, <1>7 DEF w

\* detach_inventory.
LEMMA DetachInventoryIsGood ==
  ASSUME NEW b, GoodBook(b), NEW S \in SUBSET Devices,
         NEW c \in DetachInventory(b, S)
  PROVE  /\ GoodBook(c)
         /\ c.writers = b.writers
         /\ \A d \in Devices : Fenced(b, d) => c.active[d] = b.active[d]
<1> DEFINE e == [b EXCEPT !.pending_detach =
                             b.pending_detach \cup {d \in S : Fenced(b, d)}]
<1>1. c \in Release(e, S)
  BY DEF DetachInventory
<1>2. b \in Book
  BY DEF GoodBook
<1>3. /\ e.active = b.active /\ e.waiting = b.waiting /\ e.writers = b.writers
      /\ e \in Book
  BY <1>2 DEF Book
<1>4. QueueOK(e)
  BY <1>3 DEF GoodBook, QueueOK, Leased
<1>5. GoodBook(e)
  BY <1>3, <1>4 DEF GoodBook
<1> HIDE DEF e
<1>6. /\ GoodBook(c) /\ c.writers = e.writers
      /\ \A d \in Devices : Fenced(e, d) => c.active[d] = e.active[d]
  BY <1>1, <1>5, ReleaseIsGood
<1> QED BY <1>3, <1>6 DEF Fenced

\* Leases and queues that stay as they are stay in order, whatever happens to
\* writers and to what is deferred.
LEMMA SameQueuesAreGood ==
  ASSUME NEW b, GoodBook(b), NEW c \in Book,
         c.active = b.active, c.waiting = b.waiting
  PROVE  GoodBook(c)
BY DEF GoodBook, QueueOK, Leased

LEMMA SetWriterIsGood ==
  ASSUME NEW b, GoodBook(b), NEW d \in Devices, NEW j \in Jobs
  PROVE  /\ GoodBook(SetWriter(b, d, j))
         /\ SetWriter(b, d, j).active = b.active
         /\ SetWriter(b, d, j).writers = [b.writers EXCEPT ![d] = j]
<1> DEFINE c == SetWriter(b, d, j)
<1>1. b \in Book
  BY DEF GoodBook
<1>2. /\ c \in Book /\ c.active = b.active /\ c.waiting = b.waiting
      /\ c.writers = [b.writers EXCEPT ![d] = j]
  BY <1>1 DEF Book, SetWriter
<1> HIDE DEF c
<1>3. GoodBook(c)
  BY <1>2, SameQueuesAreGood
<1> QED BY <1>2, <1>3 DEF c

\* insert gives a free device to a client: nobody waits for it.
LEMMA InsertIsGood ==
  ASSUME NEW b, GoodBook(b), NEW d \in Devices, NEW cl \in Clients, ~Leased(b, d)
  PROVE  /\ GoodBook(Insert(b, d, cl))
         /\ Insert(b, d, cl).writers = b.writers
         /\ \A f \in Devices \ {d} : Insert(b, d, cl).active[f] = b.active[f]
<1> DEFINE l == [id |-> b.next_id + 1, client |-> cl]
           c == Insert(b, d, cl)
<1>1. b \in Book
  BY DEF GoodBook
<1>2. l \in Lease
  BY <1>1 DEF Book, Lease
<1>3. /\ c.active = [b.active EXCEPT ![d] = l]
      /\ c.next_id = b.next_id + 1 /\ c.waiting = b.waiting
      /\ c.writers = b.writers
  BY <1>1 DEF Insert, Book
<1>4. c \in Book
  <2> DEFINE next == [b.active EXCEPT ![d] = l]
  <2>1. next \in [Devices -> Lease \cup {NoLease}]
    BY <1>1, <1>2 DEF Book
  <2>2. c = [b EXCEPT !.next_id = b.next_id + 1, !.active = next]
    BY <1>1 DEF Insert, Book
  <2>3. b.next_id + 1 \in Nat
    BY <1>1 DEF Book
  <2> HIDE DEF next, c
  <2> QED BY <1>1, <2>1, <2>2, <2>3 DEF Book
<1>5. b.waiting[d] = << >>
  BY DEF GoodBook, QueueOK
<1>6. QueueOK(c)
  <2> SUFFICES ASSUME NEW f \in Devices
               PROVE  /\ c.waiting[f] # << >> => Leased(c, f)
                      /\ \A i \in DOMAIN c.waiting[f] :
                           /\ c.waiting[f][i] # c.active[f].client
                           /\ \A k \in DOMAIN c.waiting[f] :
                                c.waiting[f][i] = c.waiting[f][k] => i = k
    BY DEF QueueOK
  <2>1. CASE f = d
    BY <2>1, <1>3, <1>5
  <2>2. CASE f # d
    <3>1. c.waiting[f] = b.waiting[f] /\ c.active[f] = b.active[f]
      BY <2>2, <1>1, <1>3 DEF Book
    <3> QED BY <3>1 DEF GoodBook, QueueOK, Leased
  <2> QED BY <2>1, <2>2
<1> QED BY <1>1, <1>3, <1>4, <1>6 DEF GoodBook, Book

\* Queue: a client that is neither the holder nor waiting gets in line.
LEMMA EnqueueIsGood ==
  ASSUME NEW b, GoodBook(b), NEW d \in Devices, NEW cl \in Clients,
         Leased(b, d), d \notin HeldBy(b, cl), ~Waits(b, d, cl)
  PROVE  /\ GoodBook(Enqueue(b, d, cl))
         /\ Enqueue(b, d, cl).writers = b.writers
         /\ Enqueue(b, d, cl).active = b.active
<1> DEFINE c == Enqueue(b, d, cl)
           q == b.waiting[d]
<1>1. b \in Book
  BY DEF GoodBook
<1>2. q \in Seq(Clients) /\ Len(q) \in Nat
  BY <1>1 DEF Book
<1>3. /\ c.waiting = [b.waiting EXCEPT ![d] = Append(q, cl)]
      /\ c.active = b.active /\ c.writers = b.writers
      /\ c \in Book
  <2>1. Append(q, cl) \in Seq(Clients)
    BY <1>2
  <2>2. [b.waiting EXCEPT ![d] = Append(q, cl)] \in [Devices -> Seq(Clients)]
    BY <1>1, <2>1 DEF Book
  <2>3. c = [b EXCEPT !.waiting = [b.waiting EXCEPT ![d] = Append(q, cl)]]
    BY <1>1 DEF Enqueue, Book
  <2> QED BY <1>1, <2>2, <2>3 DEF Book
<1>4. QueueOK(c)
  <2> SUFFICES ASSUME NEW f \in Devices
               PROVE  /\ c.waiting[f] # << >> => Leased(c, f)
                      /\ \A i \in DOMAIN c.waiting[f] :
                           /\ c.waiting[f][i] # c.active[f].client
                           /\ \A k \in DOMAIN c.waiting[f] :
                                c.waiting[f][i] = c.waiting[f][k] => i = k
    BY DEF QueueOK
  <2>1. CASE f = d
    <3>1. c.waiting[f] = Append(q, cl) /\ c.active[f] = b.active[d]
      BY <2>1, <1>1, <1>3 DEF Book
    <3>2. /\ DOMAIN Append(q, cl) = 1 .. Len(q) + 1
          /\ \A i \in 1 .. Len(q) : Append(q, cl)[i] = q[i]
          /\ Append(q, cl)[Len(q) + 1] = cl
      BY <1>2
    <3>3. DOMAIN q = 1 .. Len(q)
      BY <1>2
    <3>4. \A i \in 1 .. Len(q) : q[i] # cl /\ q[i] # b.active[d].client
      BY <3>3 DEF Waits, GoodBook, QueueOK
    <3>5. \A i, k \in 1 .. Len(q) : q[i] = q[k] => i = k
      BY <3>3 DEF GoodBook, QueueOK
    <3>6. b.active[d].client # cl
      BY DEF HeldBy
    <3>7. Leased(c, f)
      BY <2>1, <1>3 DEF Leased
    <3>8. \A i \in 1 .. Len(q) + 1 : i \in 1 .. Len(q) \/ i = Len(q) + 1
      BY <1>2
    <3>9. \A i \in 1 .. Len(q) + 1 :
            /\ Append(q, cl)[i] # b.active[d].client
            /\ \A k \in 1 .. Len(q) + 1 :
                 Append(q, cl)[i] = Append(q, cl)[k] => i = k
      BY <3>2, <3>4, <3>5, <3>6, <3>8
    <3> QED BY <3>1, <3>2, <3>7, <3>9
  <2>2. CASE f # d
    <3>1. c.waiting[f] = b.waiting[f] /\ c.active[f] = b.active[f]
      BY <2>2, <1>1, <1>3 DEF Book
    <3> QED BY <3>1 DEF GoodBook, QueueOK, Leased
  <2> QED BY <2>1, <2>2
<1> QED BY <1>3, <1>4 DEF GoodBook

\* A queue that one client leaves: every entry is an entry of the old queue, and
\* different entries were different entries.
LEMMA WithoutKeepsOrder ==
  ASSUME NEW q \in Seq(Clients), NEW cl
  PROVE  /\ Without(q, cl) \in Seq(Clients)
         /\ Without(q, cl) # << >> => q # << >>
         /\ \E at \in [DOMAIN Without(q, cl) -> DOMAIN q] :
              /\ \A i \in DOMAIN Without(q, cl) : Without(q, cl)[i] = q[at[i]]
              /\ \A i, k \in DOMAIN Without(q, cl) : i < k => at[i] < at[k]
<1> DEFINE w == Without(q, cl)
<1>1. Len(q) \in Nat /\ DOMAIN q = 1 .. Len(q)
  OBVIOUS
<1>2. CASE \E i \in DOMAIN q : q[i] = cl
  <2> DEFINE k == CHOOSE i \in DOMAIN q : q[i] = cl
             at == [i \in 1 .. Len(q) - 1 |-> IF i < k THEN i ELSE i + 1]
  <2>1. k \in DOMAIN q
    BY <1>2
  <2>2. w = [i \in 1 .. Len(q) - 1 |-> IF i < k THEN q[i] ELSE q[i + 1]]
    BY <1>2 DEF Without
  <2> HIDE DEF k, w
  <2>3. Len(q) - 1 \in Nat /\ k \in 1 .. Len(q)
    BY <1>1, <2>1
  <2>4. \A i \in 1 .. Len(q) - 1 : i \in 1 .. Len(q) /\ i + 1 \in 1 .. Len(q)
    BY <2>3
  <2>5. \A i \in 1 .. Len(q) - 1 : w[i] \in Clients
    BY <2>2, <2>4
  <2>6. w \in Seq(Clients) /\ DOMAIN w = 1 .. Len(q) - 1
    BY <2>2, <2>3, <2>5
  <2>7. at \in [DOMAIN w -> DOMAIN q]
    BY <2>4, <2>6, <1>1
  <2>8. \A i \in DOMAIN w : w[i] = q[at[i]]
    BY <2>2, <2>6
  <2>9. \A i, m \in DOMAIN w : i < m => at[i] < at[m]
    BY <2>3, <2>6
  <2> HIDE DEF at
  <2>10. q # << >>
    BY <2>1, <1>1
  <2> QED BY <2>6, <2>7, <2>8, <2>9, <2>10 DEF w
<1>3. CASE ~ \E i \in DOMAIN q : q[i] = cl
  <2> DEFINE at == [i \in DOMAIN q |-> i]
  <2>1. w = q
    BY <1>3 DEF Without
  <2>2. at \in [DOMAIN w -> DOMAIN q]
    BY <2>1
  <2>3. \A i \in DOMAIN w : w[i] = q[at[i]]
    BY <2>1
  <2>4. \A i, k \in DOMAIN w : i < k => at[i] < at[k]
    BY <2>1
  <2> HIDE DEF at, w
  <2> QED BY <2>1, <2>2, <2>3, <2>4 DEF w
<1> QED BY <1>2, <1>3

LEMMA LeaveQueuesIsGood ==
  ASSUME NEW b, GoodBook(b), NEW cl
  PROVE  /\ GoodBook(LeaveQueues(b, cl))
         /\ LeaveQueues(b, cl).writers = b.writers
         /\ LeaveQueues(b, cl).active = b.active
<1> DEFINE c == LeaveQueues(b, cl)
<1>1. b \in Book
  BY DEF GoodBook
<1>2. \A d \in Devices : b.waiting[d] \in Seq(Clients)
  BY <1>1 DEF Book
<1>3. \A d \in Devices : Without(b.waiting[d], cl) \in Seq(Clients)
  BY <1>2, WithoutKeepsOrder
<1>4. /\ c.waiting = [d \in Devices |-> Without(b.waiting[d], cl)]
      /\ c.active = b.active /\ c.writers = b.writers
  BY <1>1 DEF LeaveQueues, Book
<1>5. c \in Book
  BY <1>1, <1>3 DEF LeaveQueues, Book
<1>6. QueueOK(c)
  <2> SUFFICES ASSUME NEW d \in Devices
               PROVE  /\ c.waiting[d] # << >> => Leased(c, d)
                      /\ \A i \in DOMAIN c.waiting[d] :
                           /\ c.waiting[d][i] # c.active[d].client
                           /\ \A k \in DOMAIN c.waiting[d] :
                                c.waiting[d][i] = c.waiting[d][k] => i = k
    BY DEF QueueOK
  <2> DEFINE q == b.waiting[d]
             w == c.waiting[d]
  <2>1. w = Without(q, cl) /\ q \in Seq(Clients)
    BY <1>2, <1>4
  <2> HIDE DEF q, w
  <2>2. w # << >> => q # << >>
    BY <2>1, WithoutKeepsOrder
  <2>3. PICK at \in [DOMAIN w -> DOMAIN q] :
          /\ \A i \in DOMAIN w : w[i] = q[at[i]]
          /\ \A i, k \in DOMAIN w : i < k => at[i] < at[k]
    BY <2>1, WithoutKeepsOrder
  <2>4. w \in Seq(Clients)
    BY <2>1, WithoutKeepsOrder
  <2>5. \A i \in DOMAIN q : /\ q[i] # b.active[d].client
                           /\ \A k \in DOMAIN q : q[i] = q[k] => i = k
    BY DEF GoodBook, QueueOK, q
  <2>6. \A i \in DOMAIN w : w[i] # b.active[d].client
    BY <2>3, <2>5
  <2>7. ASSUME NEW i \in DOMAIN w, NEW k \in DOMAIN w, w[i] = w[k]
        PROVE  i = k
    <3>1. at[i] = at[k]
      BY <2>3, <2>5, <2>7
    <3>2. i \in Nat /\ k \in Nat /\ at[i] \in Nat /\ at[k] \in Nat
      <4>1. DOMAIN w = 1 .. Len(w) /\ DOMAIN q = 1 .. Len(q)
            /\ Len(w) \in Nat /\ Len(q) \in Nat
        BY <2>1, <2>4
      <4> QED BY <4>1, <2>3
    <3>3. ~(i < k) /\ ~(k < i)
      BY <3>1, <3>2, <2>3
    <3> QED BY <3>2, <3>3
  <2>8. q # << >> => Leased(b, d)
    BY DEF GoodBook, QueueOK, q
  <2> QED BY <2>2, <2>6, <2>7, <2>8, <1>4 DEF w, Leased
<1> QED BY <1>4, <1>5, <1>6 DEF GoodBook

-----------------------------------------------------------------------------
(***************************************************************************)
(* The registry.                                                           *)
(***************************************************************************)


WireType == [job    : Jobs \cup Runs \cup {None},
             run    : Runs \cup {None},
             apple  : Jobs \cup {None},
             grant  : Nat,
             cancel : SUBSET Jobs]

BooksOK  == GoodBook(book) /\ GoodBook(bookDisk)
StatesOK == st \in DurableState /\ stDisk \in DurableState

\* The handlers' own variables, ...
HandlersOK ==
  /\ up \in BOOLEAN
  /\ entries \in [Hosts -> [current : BOOLEAN, devices : SUBSET Devices]]
  /\ hb \in [Agents -> Beats]
  /\ checked \subseteq [client : Clients, job : Mutating, lease : Nat]
  /\ wire \in [Agents -> WireType]

\* ... the AppleProgress that is half done, ...
ProgressOK ==
  /\ prog \in [job : Jobs \cup {None}, restored : BOOLEAN, terminal : BOOLEAN]
  /\ prog # NoProgress => prog.job \in Jobs

\* ... the environment's, ...
CountersOK ==
  /\ overdue \subseteq Nat
  /\ faults \in 0 .. MaxFaults /\ crashes \in 0 .. MaxCrashes
  /\ granted \in [Devices -> Grant]

\* ... and the owners of the hosts that have reported since the start.
HostsOK ==
  /\ \A h \in Hosts : entries[h].current => st.host_peers[h] \in Agents
  /\ \A a \in Agents : hb[a] # IdleBeat => st.host_peers[hb[a].host] = a
  /\ ~up => entries = NoEntries /\ hb = [a \in Agents |-> IdleBeat]

IInv == /\ BooksOK /\ StatesOK /\ HandlersOK /\ ProgressOK /\ CountersOK
        /\ HostsOK

-----------------------------------------------------------------------------
(***************************************************************************)
(* What the operators on DurableState return.                               *)
(***************************************************************************)
LEMMA EmptyStateType == EmptyState \in DurableState
BY DEF EmptyState, DurableState, NoJob

LEMMA ForgetPeersType ==
  ASSUME NEW s \in DurableState, NEW S
  PROVE  /\ ForgetPeers(s, S) \in DurableState
         /\ ForgetPeers(s, S).host_peers = s.host_peers
BY DEF ForgetPeers, DurableState

LEMMA DispatchedType ==
  ASSUME NEW s \in DurableState, NEW j \in Jobs \cup Runs \cup {None}
  PROVE  /\ Dispatched(s, j) \in DurableState
         /\ Dispatched(s, j).host_peers = s.host_peers
BY DEF Dispatched, DurableState

LEMMA AddEventType ==
  ASSUME NEW s \in DurableState, NEW j \in Jobs, NEW n \in Nat, NEW k \in Kinds
  PROVE  /\ AddEvent(s, j, n, k) \in DurableState
         /\ AddEvent(s, j, n, k).host_peers = s.host_peers
<1> DEFINE ev == [sequence |-> n, kind |-> k]
           new == [s.events EXCEPT ![j] = Append(s.events[j], ev)]
<1>1. ev \in Event
  BY DEF Event
<1>2. s.events \in [Jobs -> Seq(Event)]
  BY DEF DurableState
<1>3. Append(s.events[j], ev) \in Seq(Event)
  BY <1>1, <1>2
<1>4. new \in [Jobs -> Seq(Event)]
  BY <1>2, <1>3
<1>5. AddEvent(s, j, n, k) = [s EXCEPT !.events = new]
  BY <1>2 DEF AddEvent, DurableState
<1> HIDE DEF new
<1> QED BY <1>4, <1>5 DEF DurableState

LEMMA DeduplicatedType ==
  ASSUME NEW s \in DurableState, NEW j \in Jobs, NEW n \in Nat, NEW k \in Kinds
  PROVE  /\ Deduplicated(s, j, n, k) \in DurableState
         /\ Deduplicated(s, j, n, k).host_peers = s.host_peers
BY AddEventType DEF Deduplicated

\* reconcile_runtime_state keeps both halves of the state in order.
LEMMA ReconciledIsGood ==
  ASSUME NEW s \in DurableState, NEW b, GoodBook(b),
         NEW c \in ReconciledBooks(s, b)
  PROVE  /\ GoodBook(c)
         /\ ReconciledState(s, b) \in DurableState
         /\ ReconciledState(s, b).host_peers = s.host_peers
<1>1. Orphans(s, b) \in SUBSET Devices
  BY DEF Orphans
<1>2. GoodBook(c)
  BY <1>1, DropWritersIsGood DEF ReconciledBooks
<1> QED BY <1>2, ForgetPeersType DEF ReconciledState

LEMMA CancelledType ==
  ASSUME st \in DurableState, NEW j \in Jobs
  PROVE  Cancelled(j) \in DurableState /\ Cancelled(j).host_peers = st.host_peers
<1> DEFINE yes == [st EXCEPT !.cancelled = st.cancelled \cup {j}]
           no  == [st EXCEPT !.apple_pending = st.apple_pending \ {j}]
<1>1. yes \in DurableState /\ yes.host_peers = st.host_peers
  BY DEF DurableState
<1>2. no \in DurableState /\ no.host_peers = st.host_peers
  BY DEF DurableState
<1>3. "cancelled" \in Kinds /\ 1 \in Nat
  BY DEF Kinds
<1>4. Cancelled(j) = IF j \in st.dispatched THEN yes
                     ELSE AddEvent(no, j, 1, "cancelled")
  BY DEF Cancelled
<1> HIDE DEF yes, no
<1> QED BY <1>1, <1>2, <1>3, <1>4, AddEventType

LEMMA ToldType ==
  ASSUME NEW b, GoodBook(b), NEW d \in Devices
  PROVE  Told(b, d) \in Grant
<1>1. b \in Book
  BY DEF GoodBook
<1>2. b.active[d].id \in Nat
  BY <1>1 DEF Book, Lease, NoLease
<1>3. (d \notin b.pending_release) \in BOOLEAN
  OBVIOUS
<1> QED BY <1>2, <1>3 DEF Told, Grant

LEMMA NoGrantType == NoGrant \in Grant
BY DEF NoGrant, Grant

-----------------------------------------------------------------------------
(***************************************************************************)
(* What a write leaves behind, whether it is reported to fail or not.       *)
(***************************************************************************)
LEMMA FaultType == ASSUME CountersOK, Fault PROVE faults' \in 0 .. MaxFaults
BY RegistryAssumption DEF CountersOK, Fault

LEMMA SaveBookType ==
  ASSUME BooksOK, CountersOK, GoodBook(book'), NEW saved, SaveBook(saved)
  PROVE  GoodBook(bookDisk') /\ faults' \in 0 .. MaxFaults
<1>1. CASE saved /\ bookDisk' = book' /\ UNCHANGED faults
  BY <1>1 DEF CountersOK
<1>2. CASE ~saved /\ Fault /\ bookDisk' \in {bookDisk, book'}
  BY <1>2, FaultType DEF BooksOK
<1> QED BY <1>1, <1>2 DEF SaveBook

LEMMA SaveStateType ==
  ASSUME StatesOK, CountersOK, st' \in DurableState, NEW saved, SaveState(saved)
  PROVE  stDisk' \in DurableState /\ faults' \in 0 .. MaxFaults
<1>1. CASE saved /\ stDisk' = st' /\ UNCHANGED faults
  BY <1>1 DEF CountersOK
<1>2. CASE ~saved /\ Fault /\ stDisk' \in {stDisk, st'}
  BY <1>2, FaultType DEF StatesOK
<1> QED BY <1>1, <1>2 DEF SaveState

LEMMA SaveBothType ==
  ASSUME BooksOK, StatesOK, CountersOK, GoodBook(book'), st' \in DurableState,
         NEW saved, SaveBoth(saved)
  PROVE  /\ GoodBook(bookDisk') /\ stDisk' \in DurableState
         /\ faults' \in 0 .. MaxFaults
<1>1. CASE saved /\ bookDisk' = book' /\ stDisk' = st' /\ UNCHANGED faults
  BY <1>1 DEF CountersOK
<1>2. CASE ~saved /\ Fault /\ bookDisk' \in {bookDisk, book'} /\ UNCHANGED stDisk
  BY <1>2, FaultType DEF BooksOK, StatesOK
<1>3. CASE ~saved /\ Fault /\ bookDisk' = book' /\ stDisk' \in {stDisk, st'}
  BY <1>3, FaultType DEF StatesOK
<1> QED BY <1>1, <1>2, <1>3 DEF SaveBoth

LEMMA EmptyMemoryType ==
  /\ FALSE \in BOOLEAN
  /\ NoEntries \in [Hosts -> [current : BOOLEAN, devices : SUBSET Devices]]
  /\ [a \in Agents |-> IdleBeat] \in [Agents -> Beats]
  /\ NoProgress \in [job : Jobs \cup {None}, restored : BOOLEAN,
                     terminal : BOOLEAN]
<1>1. [current |-> FALSE, devices |-> {}]
        \in [current : BOOLEAN, devices : SUBSET Devices]
  OBVIOUS
<1>2. NoEntries \in [Hosts -> [current : BOOLEAN, devices : SUBSET Devices]]
  BY <1>1 DEF NoEntries
<1>3. IdleBeat \in Beats
  BY DEF Beats
<1> QED BY <1>2, <1>3 DEF NoProgress

\* The end of the process: what the files hold is in order, and nothing else
\* is left.
LEMMA LoseMemoryIsGood ==
  ASSUME LoseMemory, GoodBook(bookDisk'), stDisk' \in DurableState,
         wire' \in [Agents -> WireType], CountersOK'
  PROVE  IInv'
<1>1. /\ up' = FALSE /\ book' = bookDisk' /\ st' = stDisk'
      /\ entries' = NoEntries /\ hb' = [a \in Agents |-> IdleBeat]
      /\ checked' = {} /\ prog' = NoProgress
  BY DEF LoseMemory
<1>2. BooksOK' /\ StatesOK'
  BY <1>1 DEF BooksOK, StatesOK
<1>3. HandlersOK'
  BY <1>1, EmptyMemoryType DEF HandlersOK
<1>4. ProgressOK'
  BY <1>1, EmptyMemoryType DEF ProgressOK
<1>5. HostsOK'
  BY <1>1 DEF HostsOK, NoEntries
<1> QED BY <1>2, <1>3, <1>4, <1>5 DEF IInv

\* persist_state(..).unwrap(): the new state is saved, or the process is gone.
LEMMA PersistOrPanicIsGood ==
  ASSUME IInv, Ready, NEW s \in DurableState, s.host_peers = st.host_peers,
         NEW chk \in SUBSET [client : Clients, job : Mutating, lease : Nat],
         PersistOrPanic(s, chk), UNCHANGED <<overdue, crashes, wire, granted>>
  PROVE  IInv'
<1>1. CASE Panic(s)
  <2>1. Fault /\ stDisk' \in {stDisk, s} /\ bookDisk' = bookDisk /\ LoseMemory
    BY <1>1 DEF Panic
  <2>2. stDisk' \in DurableState /\ GoodBook(bookDisk')
    BY <2>1 DEF IInv, StatesOK, BooksOK
  <2>3. CountersOK'
    BY <2>1, FaultType DEF IInv, CountersOK
  <2>4. wire' \in [Agents -> WireType]
    BY DEF IInv, HandlersOK
  <2> QED BY <2>1, <2>2, <2>3, <2>4, LoseMemoryIsGood
<1>2. CASE /\ st' = s /\ SaveState(TRUE)
           /\ checked' = chk
           /\ UNCHANGED <<up, book, bookDisk, entries, hb, prog>>
  <2>1. stDisk' \in DurableState /\ faults' \in 0 .. MaxFaults
    BY <1>2, SaveStateType DEF IInv
  <2>2. BooksOK' /\ StatesOK'
    BY <1>2, <2>1 DEF IInv, BooksOK, StatesOK
  <2>3. HandlersOK'
    BY <1>2 DEF IInv, HandlersOK
  <2>4. ProgressOK' /\ CountersOK'
    BY <1>2, <2>1 DEF IInv, ProgressOK, CountersOK
  <2>5. HostsOK'
    BY <1>2 DEF IInv, HostsOK
  <2> QED BY <2>2, <2>3, <2>4, <2>5 DEF IInv
<1> QED BY <1>1, <1>2 DEF PersistOrPanic

-----------------------------------------------------------------------------
(***************************************************************************)
(* The lease operations: each ends with SaveBoth.                           *)
(***************************************************************************)
LEMMA LeaseStepIsGood ==
  ASSUME IInv, LeaseFrame, GoodBook(book'), st' \in DurableState,
         st'.host_peers = st.host_peers, NEW saved, SaveBoth(saved),
         overdue' \subseteq Nat, granted' \in [Devices -> Grant]
  PROVE  IInv'
<1>1. UNCHANGED <<up, entries, hb, checked, wire, prog, crashes>>
  BY DEF LeaseFrame
<1>2. /\ GoodBook(bookDisk') /\ stDisk' \in DurableState
      /\ faults' \in 0 .. MaxFaults
  BY SaveBothType DEF IInv
<1>3. BooksOK' /\ StatesOK'
  BY <1>2 DEF BooksOK, StatesOK
<1>4. HandlersOK'
  BY <1>1 DEF IInv, HandlersOK
<1>5. ProgressOK' /\ CountersOK'
  BY <1>1, <1>2 DEF IInv, ProgressOK, CountersOK
<1>6. HostsOK'
  BY <1>1 DEF IInv, HostsOK
<1> QED BY <1>3, <1>4, <1>5, <1>6 DEF IInv

\* Changes to the history of grants keep its type.
LEMMA GrantedType ==
  ASSUME IInv
  PROVE  /\ granted \in [Devices -> Grant]
         /\ \A d \in Devices : \A b : GoodBook(b) =>
              [granted EXCEPT ![d] = Told(b, d)] \in [Devices -> Grant]
         /\ \A d \in Devices :
              [granted EXCEPT ![d] = NoGrant] \in [Devices -> Grant]
         /\ \A ids : Ungrant(ids) \in [Devices -> Grant]
         /\ \A S : [d \in Devices |-> IF d \in S THEN NoGrant ELSE granted[d]]
                     \in [Devices -> Grant]
<1>1. granted \in [Devices -> Grant]
  BY DEF IInv, CountersOK
<1> QED BY <1>1, ToldType, NoGrantType DEF Ungrant

LEMMA AcquireLeaseIsGood ==
  ASSUME IInv, NEW c \in Clients, NEW d \in Devices, AcquireLease(c, d)
  PROVE  IInv'
<1>1. PICK b \in Expire(book, overdue), saved \in BOOLEAN :
        /\ book' = IF Leased(b, d) THEN b ELSE Insert(b, d, c)
        /\ st' = st
        /\ SaveBoth(saved)
        /\ granted' = IF saved /\ ~Leased(b, d)
                      THEN [granted EXCEPT ![d] = Told(book', d)]
                      ELSE granted
  BY DEF AcquireLease
<1>2. LeaseFrame /\ overdue' = overdue
  BY DEF AcquireLease
<1>3. GoodBook(b)
  BY ExpireIsGood DEF IInv, BooksOK
<1>4. GoodBook(book')
  BY <1>1, <1>3, InsertIsGood
<1>5. st' \in DurableState /\ st'.host_peers = st.host_peers
  BY <1>1 DEF IInv, StatesOK
<1>6. granted' \in [Devices -> Grant]
  BY <1>1, <1>4, GrantedType
<1>7. overdue' \subseteq Nat
  BY <1>2 DEF IInv, CountersOK
<1> QED BY <1>1, <1>2, <1>4, <1>5, <1>6, <1>7, LeaseStepIsGood

LEMMA QueueLeaseIsGood ==
  ASSUME IInv, NEW c \in Clients, NEW d \in Devices, QueueLease(c, d)
  PROVE  IInv'
<1>1. PICK b \in Expire(book, overdue), saved \in BOOLEAN :
        /\ book' = IF ~Leased(b, d) THEN Insert(b, d, c)
                   ELSE IF d \in HeldBy(b, c) \/ Waits(b, d, c) THEN b
                   ELSE Enqueue(b, d, c)
        /\ st' = st
        /\ SaveBoth(saved)
        /\ granted' = IF saved /\ d \in HeldBy(book', c)
                      THEN [granted EXCEPT ![d] = Told(book', d)]
                      ELSE granted
  BY DEF QueueLease
<1>2. LeaseFrame /\ overdue' = overdue
  BY DEF QueueLease
<1>3. GoodBook(b)
  BY ExpireIsGood DEF IInv, BooksOK
<1>4. GoodBook(book')
  BY <1>1, <1>3, InsertIsGood, EnqueueIsGood
<1>5. st' \in DurableState /\ st'.host_peers = st.host_peers
  BY <1>1 DEF IInv, StatesOK
<1>6. granted' \in [Devices -> Grant]
  BY <1>1, <1>4, GrantedType
<1>7. overdue' \subseteq Nat
  BY <1>2 DEF IInv, CountersOK
<1> QED BY <1>1, <1>2, <1>4, <1>5, <1>6, <1>7, LeaseStepIsGood

LEMMA RenewLeaseIsGood ==
  ASSUME IInv, NEW c \in Clients, NEW l \in LeaseIds, RenewLease(c, l)
  PROVE  IInv'
<1>1. PICK b \in Expire(book, overdue), saved \in BOOLEAN :
        /\ book' = b
        /\ st' = st
        /\ SaveBoth(saved)
        /\ overdue' = IF Holding(b, c, l) = {} THEN overdue ELSE overdue \ {l}
        /\ granted' = [d \in Devices |-> IF saved /\ d \in Holding(b, c, l)
                                         THEN Told(b, d) ELSE granted[d]]
  BY DEF RenewLease
<1>2. LeaseFrame
  BY DEF RenewLease
<1>3. GoodBook(b) /\ GoodBook(book')
  BY <1>1, ExpireIsGood DEF IInv, BooksOK
<1>4. st' \in DurableState /\ st'.host_peers = st.host_peers
  BY <1>1 DEF IInv, StatesOK
<1>5. granted' \in [Devices -> Grant]
  <2>1. granted \in [Devices -> Grant]
    BY DEF IInv, CountersOK
  <2>2. \A d \in Devices : Told(b, d) \in Grant
    BY <1>3, ToldType
  <2> QED BY <1>1, <2>1, <2>2
<1>6. overdue' \subseteq Nat
  BY <1>1 DEF IInv, CountersOK
<1> QED BY <1>1, <1>2, <1>3, <1>4, <1>5, <1>6, LeaseStepIsGood

LEMMA ReleaseLeaseIsGood ==
  ASSUME IInv, NEW c \in Clients, NEW l \in LeaseIds, ReleaseLease(c, l)
  PROVE  IInv'
<1>1. PICK b \in Expire(book, overdue), saved \in BOOLEAN :
        /\ book' \in Release(b, Holding(b, c, l))
        /\ st' = st
        /\ SaveBoth(saved)
        /\ granted' = IF Holding(b, c, l) = {} THEN granted ELSE Ungrant({l})
  BY DEF ReleaseLease
<1>2. LeaseFrame /\ overdue' = overdue
  BY DEF ReleaseLease
<1>3. GoodBook(b)
  BY ExpireIsGood DEF IInv, BooksOK
<1>4. Holding(b, c, l) \in SUBSET Devices
  BY DEF Holding
<1>5. GoodBook(book')
  BY <1>1, <1>3, <1>4, ReleaseIsGood
<1>6. st' \in DurableState /\ st'.host_peers = st.host_peers
  BY <1>1 DEF IInv, StatesOK
<1>7. granted' \in [Devices -> Grant]
  BY <1>1, GrantedType
<1>8. overdue' \subseteq Nat
  BY <1>2 DEF IInv, CountersOK
<1> QED BY <1>1, <1>2, <1>5, <1>6, <1>7, <1>8, LeaseStepIsGood

LEMMA DisconnectClientIsGood ==
  ASSUME IInv, NEW c \in Clients, DisconnectClient(c)
  PROVE  IInv'
<1>1. PICK b \in Expire(book, overdue), saved \in BOOLEAN :
        /\ book' \in Release(LeaveQueues(b, c), HeldBy(b, c))
        /\ st' = st
        /\ SaveBoth(saved)
        /\ granted' = [d \in Devices |-> IF d \in HeldBy(b, c) THEN NoGrant
                                         ELSE granted[d]]
  BY DEF DisconnectClient
<1>2. LeaseFrame /\ overdue' = overdue
  BY DEF DisconnectClient
<1>3. GoodBook(LeaveQueues(b, c))
  BY ExpireIsGood, LeaveQueuesIsGood DEF IInv, BooksOK
<1>4. HeldBy(b, c) \in SUBSET Devices
  BY DEF HeldBy
<1>5. GoodBook(book')
  BY <1>1, <1>3, <1>4, ReleaseIsGood
<1>6. st' \in DurableState /\ st'.host_peers = st.host_peers
  BY <1>1 DEF IInv, StatesOK
<1>7. granted' \in [Devices -> Grant]
  BY <1>1, GrantedType
<1>8. overdue' \subseteq Nat
  BY <1>2 DEF IInv, CountersOK
<1> QED BY <1>1, <1>2, <1>5, <1>6, <1>7, <1>8, LeaseStepIsGood

LEMMA ValidateLeaseIsGood ==
  ASSUME IInv, NEW a, NEW j, NEW l, NEW active, ValidateLease(a, j, l, active)
  PROVE  IInv'
<1>1. PICK b \in Expire(book, overdue), saved \in BOOLEAN :
        book' = b /\ st' = st /\ SaveBoth(saved)
  BY DEF ValidateLease
<1>2. LeaseFrame /\ UNCHANGED <<overdue, granted>>
  BY DEF ValidateLease
<1>3. GoodBook(book')
  BY <1>1, ExpireIsGood DEF IInv, BooksOK
<1>4. st' \in DurableState /\ st'.host_peers = st.host_peers
  BY <1>1 DEF IInv, StatesOK
<1>5. overdue' \subseteq Nat /\ granted' \in [Devices -> Grant]
  BY <1>2 DEF IInv, CountersOK
<1> QED BY <1>1, <1>2, <1>3, <1>4, <1>5, LeaseStepIsGood

LEMMA AgentDetachIsGood ==
  ASSUME IInv, NEW a \in Agents, NEW d \in Devices, AgentDetach(a, d)
  PROVE  IInv'
<1>1. PICK b \in Expire(book, overdue), saved \in BOOLEAN :
        /\ book' \in ForceRelease(b, d)
        /\ st' = ForgetPeers(st, {d})
        /\ SaveBoth(saved)
  BY DEF AgentDetach
<1>2. /\ LeaseFrame /\ overdue' = overdue
      /\ granted' = [granted EXCEPT ![d] = NoGrant]
  BY DEF AgentDetach
<1>3. GoodBook(book')
  BY <1>1, ExpireIsGood, ForceReleaseIsGood DEF IInv, BooksOK
<1>4. st' \in DurableState /\ st'.host_peers = st.host_peers
  BY <1>1, ForgetPeersType DEF IInv, StatesOK
<1>5. overdue' \subseteq Nat /\ granted' \in [Devices -> Grant]
  BY <1>2, GrantedType DEF IInv, CountersOK
<1> QED BY <1>1, <1>2, <1>3, <1>4, <1>5, LeaseStepIsGood

-----------------------------------------------------------------------------
(***************************************************************************)
(* Jobs: Run, Complete, AppleRun and AppleCancel.                           *)
(***************************************************************************)
LEMMA RunIsGood == ASSUME IInv, NEW r \in Runs, Run(r) PROVE IInv'
<1> DEFINE s == [st EXCEPT !.requests = st.requests \cup {r},
                           !.pending  = st.pending \cup {r}]
<1>1. /\ Ready /\ PersistOrPanic(s, checked)
      /\ UNCHANGED <<overdue, crashes, wire, granted>>
  BY DEF Run
<1>2. s \in DurableState /\ s.host_peers = st.host_peers
  BY DEF IInv, StatesOK, DurableState
<1>3. checked \in SUBSET [client : Clients, job : Mutating, lease : Nat]
  BY DEF IInv, HandlersOK
<1> HIDE DEF s
<1> QED BY <1>1, <1>2, <1>3, PersistOrPanicIsGood

LEMMA CompleteIsGood == ASSUME IInv, NEW r \in Runs, Complete(r) PROVE IInv'
<1> DEFINE s == [st EXCEPT !.pending = st.pending \ {r},
                           !.done    = st.done \cup {r}]
<1>1. /\ Ready /\ PersistOrPanic(s, checked)
      /\ UNCHANGED <<overdue, crashes, wire, granted>>
  BY DEF Complete
<1>2. s \in DurableState /\ s.host_peers = st.host_peers
  BY DEF IInv, StatesOK, DurableState
<1>3. checked \in SUBSET [client : Clients, job : Mutating, lease : Nat]
  BY DEF IInv, HandlersOK
<1> HIDE DEF s
<1> QED BY <1>1, <1>2, <1>3, PersistOrPanicIsGood

LEMMA AppleCancelIsGood ==
  ASSUME IInv, NEW c \in Clients, NEW j \in Jobs, AppleCancel(c, j)
  PROVE  IInv'
<1>1. /\ Ready /\ PersistOrPanic(Cancelled(j), checked)
      /\ UNCHANGED <<overdue, crashes, wire, granted>>
  BY DEF AppleCancel
<1>2. /\ Cancelled(j) \in DurableState
      /\ Cancelled(j).host_peers = st.host_peers
  BY CancelledType DEF IInv, StatesOK
<1>3. checked \in SUBSET [client : Clients, job : Mutating, lease : Nat]
  BY DEF IInv, HandlersOK
<1> QED BY <1>1, <1>2, <1>3, PersistOrPanicIsGood

LEMMA AppleRunCheckIsGood ==
  ASSUME IInv, NEW c \in Clients, NEW j \in Jobs, NEW l \in LeaseIds \cup {0},
         AppleRunCheck(c, j, l)
  PROVE  IInv'
<1> DEFINE request == [client |-> c, job |-> j, lease |-> l]
<1>1. PICK b \in Expire(book, overdue), saved \in BOOLEAN :
        /\ book' = b
        /\ SaveBook(saved)
        /\ checked' \in {checked, checked \cup {request}}
  BY DEF AppleRunCheck
<1>2. /\ j \in Mutating
      /\ UNCHANGED <<up, st, stDisk, entries, hb, prog, overdue, crashes, wire,
                     granted>>
  BY DEF AppleRunCheck
<1>3. GoodBook(book')
  BY <1>1, ExpireIsGood DEF IInv, BooksOK
<1>4. GoodBook(bookDisk') /\ faults' \in 0 .. MaxFaults
  BY <1>1, <1>3, SaveBookType DEF IInv
<1>5. BooksOK' /\ StatesOK'
  BY <1>2, <1>3, <1>4 DEF IInv, BooksOK, StatesOK
<1>6. request \in [client : Clients, job : Mutating, lease : Nat]
  BY <1>2, RegistryAssumption DEF LeaseIds
<1>7. HandlersOK'
  <2>1. checked' \subseteq [client : Clients, job : Mutating, lease : Nat]
    BY <1>1, <1>6 DEF IInv, HandlersOK
  <2> QED BY <1>2, <2>1 DEF IInv, HandlersOK
<1>8. ProgressOK' /\ CountersOK'
  BY <1>2, <1>4 DEF IInv, ProgressOK, CountersOK
<1>9. HostsOK'
  BY <1>2 DEF IInv, HostsOK
<1> QED BY <1>5, <1>7, <1>8, <1>9 DEF IInv

\* The host that takes a job is one whose owner is known (HostsOK).
LEMMA AppleRunSubmitIsGood ==
  ASSUME IInv, NEW c \in Clients, NEW j \in Jobs, NEW l \in LeaseIds \cup {0},
         AppleRunSubmit(c, j, l)
  PROVE  IInv'
<1> DEFINE request == [client |-> c, job |-> j, lease |-> l]
           info(h) == [client |-> c, lease |-> l, host |-> h,
                       agent |-> st.host_peers[h]]
           accepted(h) == [st EXCEPT !.job[j] = info(h),
                                     !.apple_pending = st.apple_pending \cup {j},
                                     !.events[j] = << >>]
<1>1. Ready /\ UNCHANGED <<overdue, crashes, wire, granted>>
  BY DEF AppleRunSubmit
<1>2. checked \ {request} \in SUBSET [client : Clients, job : Mutating, lease : Nat]
  BY DEF IInv, HandlersOK
<1>3. CASE \E h \in EligibleHosts(j) : PersistOrPanic(accepted(h), checked \ {request})
  <2>1. PICK h \in EligibleHosts(j) : PersistOrPanic(accepted(h), checked \ {request})
    BY <1>3
  <2>2. h \in Hosts /\ st.host_peers[h] \in Agents
    BY DEF EligibleHosts, IInv, HostsOK
  <2>3. info(h) \in JobInfo
    BY <2>2, RegistryAssumption DEF JobInfo, LeaseIds
  <2> DEFINE jobs == [st.job EXCEPT ![j] = info(h)]
             evs  == [st.events EXCEPT ![j] = << >>]
  <2>4. jobs \in [Jobs -> JobInfo \cup {NoJob}] /\ evs \in [Jobs -> Seq(Event)]
    BY <2>3 DEF IInv, StatesOK, DurableState
  <2> DEFINE new == [st EXCEPT !.job = jobs,
                               !.apple_pending = st.apple_pending \cup {j},
                               !.events = evs]
  <2>5. accepted(h) = new
    OBVIOUS
  <2> HIDE DEF accepted, request, info
  <2>6. new \in DurableState /\ new.host_peers = st.host_peers
    <3> HIDE DEF jobs, evs
    <3> QED BY <2>4 DEF IInv, StatesOK, DurableState
  <2> HIDE DEF new
  <2> QED BY <1>1, <1>2, <2>1, <2>5, <2>6, PersistOrPanicIsGood
<1>4. CASE /\ checked' = checked \ {request}
           /\ UNCHANGED <<up, book, bookDisk, st, stDisk, entries, hb, prog, faults>>
  <2>1. HandlersOK'
    BY <1>1, <1>2, <1>4 DEF IInv, HandlersOK
  <2>2. BooksOK' /\ StatesOK' /\ ProgressOK' /\ CountersOK' /\ HostsOK'
    BY <1>1, <1>4 DEF IInv, BooksOK, StatesOK, ProgressOK, CountersOK, HostsOK
  <2> QED BY <2>1, <2>2 DEF IInv
<1> QED BY <1>3, <1>4 DEF AppleRunSubmit

-----------------------------------------------------------------------------
(***************************************************************************)
(* Heartbeat and AppleProgress.                                             *)
(***************************************************************************)
LEMMA HeartbeatInventoryIsGood ==
  ASSUME IInv, NEW a \in Agents, NEW h \in Hosts, NEW S \in SUBSET Devices,
         HeartbeatInventory(a, h, S)
  PROVE  IInv'
<1> DEFINE detached == {d \in Devices : st.device_peers[d] = a /\ d \notin S}
           peers == [d \in Devices |-> IF d \in S THEN a
                                       ELSE IF d \in Gone(detached) THEN None
                                       ELSE st.device_peers[d]]
           kept == [book EXCEPT !.pending_detach = book.pending_detach \ S]
           beat == [pc |-> "expire", host |-> h, devices |-> S]
<1>1. /\ up /\ st.host_peers[h] \in {None, a} /\ hb[a] = IdleBeat
      /\ st' = [st EXCEPT !.host_peers[h] = a, !.device_peers = peers]
      /\ granted' = [d \in Devices |-> IF d \in detached THEN NoGrant
                                       ELSE granted[d]]
      /\ UNCHANGED <<up, stDisk, entries, checked, prog, overdue, crashes, wire>>
  BY DEF HeartbeatInventory, Ready
<1>2. PICK b \in DetachInventory(kept, detached), saved \in BOOLEAN :
        /\ book' = b
        /\ SaveBook(saved)
        /\ hb' = IF saved THEN [hb EXCEPT ![a] = beat] ELSE hb
  BY DEF HeartbeatInventory
<1>3. GoodBook(kept)
  <2>1. kept \in Book /\ kept.active = book.active /\ kept.waiting = book.waiting
    BY DEF IInv, BooksOK, GoodBook, Book
  <2> HIDE DEF kept
  <2> QED BY <2>1, SameQueuesAreGood DEF IInv, BooksOK
<1>4. GoodBook(book')
  <2>1. detached \in SUBSET Devices
    OBVIOUS
  <2> HIDE DEF kept, detached
  <2> QED BY <1>2, <1>3, <2>1, DetachInventoryIsGood
<1>5. GoodBook(bookDisk') /\ faults' \in 0 .. MaxFaults
  BY <1>2, <1>4, SaveBookType DEF IInv
<1>6. st' \in DurableState /\ st'.host_peers = [st.host_peers EXCEPT ![h] = a]
  <2> DEFINE owners == [st.host_peers EXCEPT ![h] = a]
  <2>1. peers \in [Devices -> Agents \cup {None}]
    BY DEF IInv, StatesOK, DurableState
  <2>2. owners \in [Hosts -> Agents \cup {None}]
    BY DEF IInv, StatesOK, DurableState
  <2>3. st' = [st EXCEPT !.host_peers = owners, !.device_peers = peers]
    BY <1>1
  <2> HIDE DEF peers, owners
  <2>4. st' \in DurableState /\ st'.host_peers = owners
    BY <2>1, <2>2, <2>3 DEF IInv, StatesOK, DurableState
  <2> QED BY <2>4 DEF owners
<1>7. BooksOK' /\ StatesOK'
  BY <1>1, <1>4, <1>5, <1>6 DEF IInv, BooksOK, StatesOK
<1>8. HandlersOK'
  <2>1. beat \in Beats
    BY DEF Beats
  <2>2. hb' \in [Agents -> Beats]
    BY <1>2, <2>1 DEF IInv, HandlersOK
  <2> QED BY <1>1, <2>2 DEF IInv, HandlersOK
<1>9. ProgressOK' /\ CountersOK'
  <2>1. granted' \in [Devices -> Grant]
    BY <1>1, GrantedType
  <2> QED BY <1>1, <1>5, <2>1 DEF IInv, ProgressOK, CountersOK
<1>10. HostsOK'
  <2>1. st.host_peers \in [Hosts -> Agents \cup {None}] /\ a # None
    BY RegistryAssumption DEF IInv, StatesOK, DurableState
  <2>2. \A g \in Hosts : st'.host_peers[g] = IF g = h THEN a ELSE st.host_peers[g]
    BY <1>6, <2>1
  <2>3. \A g \in Hosts : entries'[g].current => st'.host_peers[g] \in Agents
    BY <1>1, <2>2 DEF IInv, HostsOK
  <2>4. ASSUME NEW e \in Agents, hb'[e] # IdleBeat
        PROVE  st'.host_peers[hb'[e].host] = e
    <3>1. hb \in [Agents -> Beats]
      BY DEF IInv, HandlersOK
    <3>2. CASE hb'[e] = hb[e]
      <4>1. hb[e].host \in Hosts /\ st.host_peers[hb[e].host] = e
        BY <2>4, <3>1, <3>2 DEF IInv, HostsOK, Beats
      <4>2. hb[e].host = h => e = a
        BY <1>1, <4>1, RegistryAssumption
      <4> QED BY <2>2, <3>2, <4>1, <4>2
    <3>3. CASE hb'[e] # hb[e]
      <4>1. e = a /\ hb'[e] = beat
        BY <1>2, <3>1, <3>3
      <4> QED BY <2>2, <4>1
    <3> QED BY <3>2, <3>3
  <2> QED BY <1>1, <2>3, <2>4 DEF HostsOK
<1> QED BY <1>7, <1>8, <1>9, <1>10 DEF IInv

\* The record of a heartbeat under way.
LEMMA BeatType ==
  ASSUME IInv, NEW a \in Agents, hb[a].pc \in {"expire", "dispatch"}
  PROVE  /\ hb[a] # IdleBeat
         /\ hb[a] \in [pc : {"expire", "dispatch"}, host : Hosts,
                       devices : SUBSET Devices]
         /\ st.host_peers[hb[a].host] = a
<1>1. hb[a] # IdleBeat
  BY DEF IdleBeat
<1>2. hb[a] \in Beats
  BY DEF IInv, HandlersOK
<1> QED BY <1>1, <1>2 DEF Beats, IInv, HostsOK

LEMMA HeartbeatExpireIsGood ==
  ASSUME IInv, NEW a \in Agents, HeartbeatExpire(a)
  PROVE  IInv'
<1> DEFINE entry == [current |-> TRUE, devices |-> hb[a].devices]
           on    == [entries EXCEPT ![hb[a].host] = entry]
<1>1. PICK b \in Expire(book, overdue), saved \in BOOLEAN :
        /\ book' = b
        /\ SaveBook(saved)
        /\ \/ entries' = on /\ hb' = [hb EXCEPT ![a].pc = "dispatch"]
           \/ entries' = entries /\ hb' = [hb EXCEPT ![a] = IdleBeat]
  BY DEF HeartbeatExpire
<1>2. /\ up /\ hb[a].pc = "expire"
      /\ UNCHANGED <<up, st, stDisk, checked, prog, overdue, crashes, wire, granted>>
  BY DEF HeartbeatExpire
<1>3. GoodBook(book')
  BY <1>1, ExpireIsGood DEF IInv, BooksOK
<1>4. GoodBook(bookDisk') /\ faults' \in 0 .. MaxFaults
  BY <1>1, <1>3, SaveBookType DEF IInv
<1>5. BooksOK' /\ StatesOK'
  BY <1>2, <1>3, <1>4 DEF IInv, BooksOK, StatesOK
<1>6. /\ hb[a] \in [pc : {"expire", "dispatch"}, host : Hosts,
                    devices : SUBSET Devices]
      /\ st.host_peers[hb[a].host] = a
  BY <1>2, BeatType
<1>7. hb \in [Agents -> Beats]
  BY DEF IInv, HandlersOK
<1>8. HandlersOK'
  <2>1. entry \in [current : BOOLEAN, devices : SUBSET Devices]
    BY <1>6
  <2>2. entries' \in [Hosts -> [current : BOOLEAN, devices : SUBSET Devices]]
    <3>1. on \in [Hosts -> [current : BOOLEAN, devices : SUBSET Devices]]
      <4> HIDE DEF entry
      <4> QED BY <2>1 DEF IInv, HandlersOK
    <3> QED BY <1>1, <3>1 DEF IInv, HandlersOK
  <2>3. [hb[a] EXCEPT !.pc = "dispatch"] \in Beats /\ IdleBeat \in Beats
    BY <1>6 DEF Beats
  <2>4. hb' \in [Agents -> Beats]
    BY <1>1, <1>7, <2>3
  <2> QED BY <1>2, <2>2, <2>4 DEF IInv, HandlersOK
<1>9. ProgressOK' /\ CountersOK'
  BY <1>2, <1>4 DEF IInv, ProgressOK, CountersOK
<1>10. HostsOK'
  <2>1. ASSUME NEW g \in Hosts, entries'[g].current
        PROVE  st'.host_peers[g] \in Agents
    <3>1. CASE entries' = entries
      BY <1>2, <2>1, <3>1 DEF IInv, HostsOK
    <3>2. CASE entries' = on
      <4>1. entries \in [Hosts -> [current : BOOLEAN, devices : SUBSET Devices]]
        BY DEF IInv, HandlersOK
      <4>2. g = hb[a].host \/ entries[g].current
        BY <2>1, <3>2, <4>1
      <4> QED BY <1>2, <1>6, <4>2 DEF IInv, HostsOK
    <3> QED BY <1>1, <3>1, <3>2
  <2>2. ASSUME NEW e \in Agents, hb'[e] # IdleBeat
        PROVE  st'.host_peers[hb'[e].host] = e
    <3>1. hb[e] # IdleBeat /\ hb'[e].host = hb[e].host
      <4>1. CASE e = a
        BY <1>1, <1>6, <1>7, <2>2, <4>1 DEF IdleBeat
      <4>2. CASE e # a
        BY <1>1, <1>7, <2>2, <4>2
      <4> QED BY <4>1, <4>2
    <3> QED BY <1>2, <3>1 DEF IInv, HostsOK
  <2> QED BY <1>2, <2>1, <2>2 DEF HostsOK
<1> QED BY <1>5, <1>8, <1>9, <1>10 DEF IInv

\* The tail of a heartbeat, whether its save succeeds or what it did is undone.
LEMMA FinishHeartbeatIsGood ==
  ASSUME IInv, NEW a \in Agents,
         NEW s \in DurableState, s.host_peers = st.host_peers,
         NEW b, GoodBook(b), NEW bd, GoodBook(bd),
         NEW reply \in WireType, FinishHeartbeat(a, s, b, bd, reply)
  PROVE  /\ GoodBook(book') /\ GoodBook(bookDisk')
         /\ st' \in DurableState /\ st'.host_peers = st.host_peers
         /\ stDisk' \in DurableState
         /\ wire' \in [Agents -> WireType]
         /\ faults' \in 0 .. MaxFaults
<1>1. CASE /\ st' = s /\ stDisk' = s
           /\ book' = b /\ bookDisk' = bd
           /\ wire' = [wire EXCEPT ![a] = reply]
           /\ UNCHANGED faults
  <2>1. wire' \in [Agents -> WireType]
    BY <1>1 DEF IInv, HandlersOK
  <2> QED BY <1>1, <2>1 DEF IInv, CountersOK
<1> DEFINE undone == [s EXCEPT !.dispatched = s.dispatched \ {reply.job}]
<1>2. CASE /\ Fault
           /\ stDisk' \in {stDisk, s}
           /\ UNCHANGED wire
           /\ \/ st' = s /\ book' = b /\ bookDisk' = bd
              \/ /\ st' = ReconciledState(undone, b)
                 /\ book' \in ReconciledBooks(undone, b)
                 /\ bookDisk' \in {bd, book'}
  <2>1. undone \in DurableState /\ undone.host_peers = s.host_peers
    BY DEF DurableState
  <2>2. /\ stDisk' \in DurableState /\ wire' \in [Agents -> WireType]
        /\ faults' \in 0 .. MaxFaults
    BY <1>2, FaultType DEF IInv, StatesOK, HandlersOK
  <2>3. CASE st' = s /\ book' = b /\ bookDisk' = bd
    BY <2>2, <2>3
  <2>4. CASE /\ st' = ReconciledState(undone, b)
             /\ book' \in ReconciledBooks(undone, b)
             /\ bookDisk' \in {bd, book'}
    <3> HIDE DEF undone
    <3>1. /\ GoodBook(book') /\ st' \in DurableState
          /\ st'.host_peers = undone.host_peers
      BY <2>1, <2>4, ReconciledIsGood
    <3> QED BY <2>1, <2>2, <2>4, <3>1
  <2> QED BY <1>2, <2>3, <2>4
<1> QED BY <1>1, <1>2 DEF FinishHeartbeat

LEMMA ResponseType ==
  ASSUME NEW job \in Jobs \cup Runs \cup {None}, NEW run \in Runs \cup {None},
         NEW apple \in Jobs \cup {None}, NEW grant \in Nat,
         NEW cancel \in SUBSET Jobs
  PROVE  Response(job, run, apple, grant, cancel) \in WireType
BY DEF Response, WireType

LEMMA DispatchAppleIsGood ==
  ASSUME IInv, NEW a \in Agents, NEW r \in Runs \cup {None},
         NEW j \in Jobs \cup {None}, NEW s \in DurableState,
         s.host_peers = st.host_peers, s.job = st.job,
         DispatchApple(a, s, r, j)
  PROVE  /\ GoodBook(book') /\ GoodBook(bookDisk')
         /\ st' \in DurableState /\ st'.host_peers = st.host_peers
         /\ stDisk' \in DurableState
         /\ wire' \in [Agents -> WireType]
         /\ faults' \in 0 .. MaxFaults
<1>1. GoodBook(book) /\ GoodBook(bookDisk)
  BY DEF IInv, BooksOK
<1>2. s.cancelled \in SUBSET Jobs /\ None \notin Jobs /\ Mutating \subseteq Jobs
  BY NoneAssumption, RegistryAssumption DEF DurableState
<1>3. /\ Dispatched(s, j) \in DurableState
      /\ Dispatched(s, j).host_peers = st.host_peers
  BY DispatchedType
<1>4. CASE /\ j = None
           /\ FinishHeartbeat(a, s, book, bookDisk,
                              Response(r, r, None, 0, s.cancelled))
  <2>1. Response(r, r, None, 0, s.cancelled) \in WireType
    BY <1>2, ResponseType
  <2> QED BY <1>1, <1>4, <2>1, FinishHeartbeatIsGood
<1>5. CASE /\ j \notin Mutating \cup {None}
           /\ FinishHeartbeat(a, Dispatched(s, j), book, bookDisk,
                              Response(j, r, j, 0, s.cancelled))
  <2>1. Response(j, r, j, 0, s.cancelled) \in WireType
    BY <1>2, ResponseType
  <2> QED BY <1>1, <1>3, <1>5, <2>1, FinishHeartbeatIsGood
<1>6. ASSUME j \in Mutating, NEW b \in Expire(book, overdue),
             DispatchWriter(a, s, b, r, j)
      PROVE  /\ GoodBook(book') /\ GoodBook(bookDisk')
             /\ st' \in DurableState /\ st'.host_peers = st.host_peers
             /\ stDisk' \in DurableState
             /\ wire' \in [Agents -> WireType]
             /\ faults' \in 0 .. MaxFaults
  <2> DEFINE fenced == SetWriter(b, DeviceOf[j], j)
             reply == Response(j, r, j, s.job[j].lease, s.cancelled)
  <2>1. GoodBook(b) /\ DeviceOf[j] \in Devices
    BY <1>1, <1>2, <1>6, ExpireIsGood, RegistryAssumption
  <2>2. GoodBook(fenced)
    BY <1>2, <1>6, <2>1, SetWriterIsGood
  <2>3. s.job[j].lease \in Nat
    BY <1>2, <1>6 DEF DurableState, JobInfo, NoJob
  <2>4. reply \in WireType
    BY <1>2, <1>6, <2>3, ResponseType
  <2> HIDE DEF fenced, reply
  <2>5. CASE FinishHeartbeat(a, Dispatched(s, j), fenced, fenced, reply)
    BY <1>3, <2>2, <2>4, <2>5, FinishHeartbeatIsGood
  <2>6. CASE /\ Fault
             /\ st' = s /\ UNCHANGED stDisk
             /\ book' = fenced /\ bookDisk' \in {bookDisk, fenced}
             /\ UNCHANGED wire
    BY <1>1, <2>2, <2>6, FaultType DEF IInv, StatesOK, HandlersOK
  <2> QED BY <1>6, <2>5, <2>6 DEF DispatchWriter, fenced, reply
<1>7. ASSUME j \in Mutating, NEW b \in Expire(book, overdue),
             RejectApple(a, s, b, r, j)
      PROVE  /\ GoodBook(book') /\ GoodBook(bookDisk')
             /\ st' \in DurableState /\ st'.host_peers = st.host_peers
             /\ stDisk' \in DurableState
             /\ wire' \in [Agents -> WireType]
             /\ faults' \in 0 .. MaxFaults
  <2> DEFINE over == [s EXCEPT !.apple_pending = s.apple_pending \ {j}]
             reply == Response(j, r, None, 0, s.cancelled)
  <2>1. over \in DurableState /\ over.host_peers = st.host_peers
    BY DEF DurableState
  <2>2. "rejected" \in Kinds /\ 1 \in Nat
    BY DEF Kinds
  <2>3. reply \in WireType
    BY <1>2, <1>7, ResponseType
  <2>4. GoodBook(b)
    BY <1>1, <1>7, ExpireIsGood
  <2>5. FinishHeartbeat(a, AddEvent(over, j, 1, "rejected"), b, bookDisk, reply)
    BY <1>7 DEF RejectApple
  <2> HIDE DEF over, reply
  <2>6. /\ AddEvent(over, j, 1, "rejected") \in DurableState
        /\ AddEvent(over, j, 1, "rejected").host_peers = st.host_peers
    BY <1>2, <1>7, <2>1, <2>2, AddEventType
  <2> QED BY <1>1, <2>3, <2>4, <2>5, <2>6, FinishHeartbeatIsGood
<1> QED BY <1>4, <1>5, <1>6, <1>7 DEF DispatchApple

LEMMA HeartbeatDispatchIsGood ==
  ASSUME IInv, NEW a \in Agents, HeartbeatDispatch(a)
  PROVE  IInv'
<1>1. PICK r \in OneOf(PendingRuns(hb[a].host)),
           j \in OneOf(PendingApple(hb[a].host)) :
        DispatchApple(a, Dispatched(st, r), r, j)
  BY DEF HeartbeatDispatch
<1>2. /\ up /\ hb' = [hb EXCEPT ![a] = IdleBeat]
      /\ UNCHANGED <<up, entries, checked, prog, overdue, crashes, granted>>
  BY DEF HeartbeatDispatch, Ready
<1>3. st \in DurableState
  BY DEF IInv, StatesOK
<1>4. r \in Runs \cup {None} /\ j \in Jobs \cup {None}
  BY <1>3 DEF OneOf, PendingRuns, PendingApple, DurableState
<1>5. /\ Dispatched(st, r) \in DurableState
      /\ Dispatched(st, r).host_peers = st.host_peers
  BY <1>3, <1>4, DispatchedType
<1>6. Dispatched(st, r).job = st.job
  BY <1>3 DEF Dispatched, DurableState
<1>7. /\ GoodBook(book') /\ GoodBook(bookDisk')
      /\ st' \in DurableState /\ st'.host_peers = st.host_peers
      /\ stDisk' \in DurableState
      /\ wire' \in [Agents -> WireType]
      /\ faults' \in 0 .. MaxFaults
  BY <1>1, <1>4, <1>5, <1>6, DispatchAppleIsGood
<1>8. BooksOK' /\ StatesOK'
  BY <1>7 DEF BooksOK, StatesOK
<1>9. HandlersOK'
  <2>1. hb' \in [Agents -> Beats]
    BY <1>2 DEF IInv, HandlersOK, Beats
  <2> QED BY <1>2, <1>7, <2>1 DEF IInv, HandlersOK
<1>10. ProgressOK' /\ CountersOK'
  BY <1>2, <1>7 DEF IInv, ProgressOK, CountersOK
<1>11. HostsOK'
  <2>1. \A e \in Agents : hb'[e] # IdleBeat => hb'[e] = hb[e]
    BY <1>2 DEF IInv, HandlersOK
  <2> QED BY <1>2, <1>7, <2>1 DEF IInv, HostsOK
<1> QED BY <1>8, <1>9, <1>10, <1>11 DEF IInv

LEMMA StartedBeginIsGood ==
  ASSUME IInv, NEW a \in Agents, NEW j \in Jobs, NEW accepted \in BOOLEAN,
         StartedBegin(a, j, accepted)
  PROVE  IInv'
<1>1. /\ up
      /\ UNCHANGED <<up, st, stDisk, entries, hb, checked, overdue, crashes, wire,
                     granted>>
  BY DEF StartedBegin, Ready
<1>2. GoodBook(book) /\ GoodBook(bookDisk)
  BY DEF IInv, BooksOK
<1>3. /\ GoodBook(book')
      /\ \E saved \in BOOLEAN : SaveBook(saved)
      /\ \/ prog' = NoProgress
         \/ \E restored \in BOOLEAN :
               prog' = [job |-> j, restored |-> restored, terminal |-> FALSE]
  <2>1. CASE /\ book' = book /\ SaveBook(accepted)
             /\ prog' = IF accepted THEN [job |-> j, restored |-> FALSE,
                                          terminal |-> FALSE]
                        ELSE NoProgress
    BY <1>2, <2>1
  <2>2. ASSUME NEW b \in Expire(book, overdue), j \in Mutating,
               book' = SetWriter(b, DeviceOf[j], j),
               SaveBook(accepted),
               prog' = IF accepted
                       THEN [job |-> j, terminal |-> FALSE,
                             restored |-> ~Fenced(b, DeviceOf[j])]
                       ELSE NoProgress
        PROVE  /\ GoodBook(book')
               /\ \E saved \in BOOLEAN : SaveBook(saved)
               /\ \/ prog' = NoProgress
                  \/ \E restored \in BOOLEAN :
                        prog' = [job |-> j, restored |-> restored,
                                 terminal |-> FALSE]
    <3>1. GoodBook(b) /\ DeviceOf[j] \in Devices
      BY <1>2, <2>2, ExpireIsGood, RegistryAssumption
    <3>2. GoodBook(book')
      BY <2>2, <3>1, SetWriterIsGood
    <3>3. (~Fenced(b, DeviceOf[j])) \in BOOLEAN
      OBVIOUS
    <3> QED BY <2>2, <3>2, <3>3
  <2>3. ASSUME NEW b \in Expire(book, overdue), book' = b,
               \E saved \in BOOLEAN : SaveBook(saved),
               prog' = NoProgress
        PROVE  GoodBook(book')
    BY <1>2, <2>3, ExpireIsGood
  <2> QED BY <2>1, <2>2, <2>3 DEF StartedBegin
<1>4. GoodBook(bookDisk') /\ faults' \in 0 .. MaxFaults
  BY <1>3, SaveBookType DEF IInv
<1>5. BooksOK' /\ StatesOK'
  BY <1>1, <1>3, <1>4 DEF IInv, BooksOK, StatesOK
<1>6. HandlersOK' /\ HostsOK' /\ CountersOK'
  BY <1>1, <1>4 DEF IInv, HandlersOK, HostsOK, CountersOK
<1>7. ProgressOK'
  <2>1. CASE prog' = NoProgress
    BY <2>1, EmptyMemoryType DEF ProgressOK
  <2>2. ASSUME NEW restored \in BOOLEAN,
               prog' = [job |-> j, restored |-> restored, terminal |-> FALSE]
        PROVE  ProgressOK'
    BY <2>2 DEF ProgressOK
  <2> QED BY <1>3, <2>1, <2>2
<1> QED BY <1>5, <1>6, <1>7 DEF IInv

LEMMA StartedCommitIsGood ==
  ASSUME IInv, NEW accepted \in BOOLEAN, StartedCommit(accepted)
  PROVE  IInv'
<1> DEFINE j == prog.job
           acked == [st EXCEPT !.acknowledged = st.acknowledged \cup {j}]
           s == Deduplicated(acked, j, 1, "started")
           writers == [d \in Devices |-> IF book.writers[d] = j THEN None
                                         ELSE book.writers[d]]
           dropped == [book EXCEPT !.writers = writers]
<1>1. /\ up /\ prog # NoProgress
      /\ st' = s
      /\ SaveState(accepted)
      /\ \/ book' = dropped /\ bookDisk' \in {bookDisk, dropped}
         \/ book' = book /\ bookDisk' = bookDisk
      /\ prog' = NoProgress
      /\ UNCHANGED <<up, entries, hb, checked, overdue, crashes, wire, granted>>
  BY DEF StartedCommit
<1>2. j \in Jobs
  BY <1>1 DEF IInv, ProgressOK
<1>3. st' \in DurableState /\ st'.host_peers = st.host_peers
  <2>1. acked \in DurableState /\ acked.host_peers = st.host_peers
    BY <1>2 DEF IInv, StatesOK, DurableState
  <2>2. "started" \in Kinds /\ 1 \in Nat
    BY DEF Kinds
  <2> HIDE DEF acked
  <2> QED BY <1>1, <1>2, <2>1, <2>2, DeduplicatedType
<1>4. stDisk' \in DurableState /\ faults' \in 0 .. MaxFaults
  BY <1>1, <1>3, SaveStateType DEF IInv
<1>5. GoodBook(book') /\ GoodBook(bookDisk')
  <2>1. GoodBook(book) /\ GoodBook(bookDisk)
    BY DEF IInv, BooksOK
  <2>2. writers \in [Devices -> Jobs \cup {None}]
    BY <2>1 DEF GoodBook, Book
  <2>3. /\ dropped \in Book /\ dropped.active = book.active
        /\ dropped.waiting = book.waiting
    <3> HIDE DEF writers
    <3> QED BY <2>1, <2>2 DEF GoodBook, Book
  <2> HIDE DEF dropped
  <2>4. GoodBook(dropped)
    BY <2>1, <2>3, SameQueuesAreGood
  <2> QED BY <1>1, <2>1, <2>4
<1>6. BooksOK' /\ StatesOK'
  BY <1>3, <1>4, <1>5 DEF BooksOK, StatesOK
<1>7. ProgressOK'
  BY <1>1, EmptyMemoryType DEF ProgressOK
<1>8. HandlersOK' /\ CountersOK' /\ HostsOK'
  BY <1>1, <1>3, <1>4 DEF IInv, HandlersOK, CountersOK, HostsOK
<1> QED BY <1>6, <1>7, <1>8 DEF IInv

LEMMA TerminalBeginIsGood ==
  ASSUME IInv, NEW a \in Agents, NEW j \in Jobs, NEW k \in Kinds,
         TerminalBegin(a, j, k)
  PROVE  IInv'
<1> DEFINE over == [st EXCEPT !.apple_pending = st.apple_pending \ {j},
                              !.cancelled = st.cancelled \ {j}]
<1>1. /\ up
      /\ book' \in DropWriters(book, WrittenBy(book, j))
      /\ st' = ForgetPeers(Deduplicated(over, j, 2, k),
                           WrittenBy(book, j) \cap book.pending_detach)
      /\ prog' = [job |-> j, restored |-> FALSE, terminal |-> TRUE]
      /\ UNCHANGED <<up, bookDisk, stDisk, entries, hb, checked, wire, overdue,
                     faults, crashes, granted>>
  BY DEF TerminalBegin, Ready
<1>2. GoodBook(book')
  <2>1. WrittenBy(book, j) \in SUBSET Devices
    BY DEF WrittenBy
  <2> QED BY <1>1, <2>1, DropWritersIsGood DEF IInv, BooksOK
<1>3. st' \in DurableState /\ st'.host_peers = st.host_peers
  <2>1. over \in DurableState /\ over.host_peers = st.host_peers
    BY DEF IInv, StatesOK, DurableState
  <2> HIDE DEF over
  <2>2. /\ Deduplicated(over, j, 2, k) \in DurableState
        /\ Deduplicated(over, j, 2, k).host_peers = over.host_peers
    BY <2>1, DeduplicatedType
  <2> QED BY <1>1, <2>1, <2>2, ForgetPeersType
<1>4. BooksOK' /\ StatesOK'
  BY <1>1, <1>2, <1>3 DEF IInv, BooksOK, StatesOK
<1>5. ProgressOK'
  BY <1>1 DEF ProgressOK
<1>6. HandlersOK' /\ CountersOK' /\ HostsOK'
  BY <1>1, <1>3 DEF IInv, HandlersOK, CountersOK, HostsOK
<1> QED BY <1>4, <1>5, <1>6 DEF IInv

LEMMA TerminalCommitIsGood ==
  ASSUME IInv, NEW accepted \in BOOLEAN, TerminalCommit(accepted)
  PROVE  IInv'
<1>1. /\ up /\ book' = book /\ st' = st
      /\ bookDisk' \in {bookDisk, book} /\ stDisk' \in {stDisk, st}
      /\ faults' = faults \/ Fault
      /\ prog' = NoProgress
      /\ UNCHANGED <<up, entries, hb, checked, overdue, crashes, wire, granted>>
  BY DEF TerminalCommit
<1>2. BooksOK' /\ StatesOK'
  BY <1>1 DEF IInv, BooksOK, StatesOK
<1>3. faults' \in 0 .. MaxFaults
  BY <1>1, FaultType DEF IInv, CountersOK
<1>4. ProgressOK'
  BY <1>1, EmptyMemoryType DEF ProgressOK
<1>5. HandlersOK' /\ CountersOK' /\ HostsOK'
  BY <1>1, <1>3 DEF IInv, HandlersOK, CountersOK, HostsOK
<1> QED BY <1>2, <1>4, <1>5 DEF IInv

-----------------------------------------------------------------------------
(***************************************************************************)
(* The environment.                                                         *)
(***************************************************************************)
LEMMA ReplyTakenIsGood == ASSUME IInv, NEW a \in Agents, ReplyTaken(a) PROVE IInv'
<1>1. /\ wire' = [wire EXCEPT ![a] = ErrorResponse]
      /\ UNCHANGED <<up, book, bookDisk, st, stDisk, entries, hb, checked, prog,
                     overdue, faults, crashes, granted>>
  BY DEF ReplyTaken
<1>2. ErrorResponse \in WireType
  BY ResponseType DEF ErrorResponse
<1>3. wire' \in [Agents -> WireType]
  BY <1>1, <1>2 DEF IInv, HandlersOK
<1> QED BY <1>1, <1>3 DEF IInv, BooksOK, StatesOK, HandlersOK, ProgressOK,
                          CountersOK, HostsOK

LEMMA HostGoesOfflineIsGood ==
  ASSUME IInv, NEW h \in Hosts, HostGoesOffline(h)
  PROVE  IInv'
<1>1. /\ up /\ entries' = [entries EXCEPT ![h].current = FALSE]
      /\ UNCHANGED <<up, book, bookDisk, st, stDisk, hb, checked, prog, wire,
                     overdue, faults, crashes, granted>>
  BY DEF HostGoesOffline
<1>2. entries \in [Hosts -> [current : BOOLEAN, devices : SUBSET Devices]]
  BY DEF IInv, HandlersOK
<1>3. [entries[h] EXCEPT !.current = FALSE]
        \in [current : BOOLEAN, devices : SUBSET Devices]
  BY <1>2
<1>4. entries' \in [Hosts -> [current : BOOLEAN, devices : SUBSET Devices]]
  BY <1>1, <1>2, <1>3
<1>5. HandlersOK'
  BY <1>1, <1>4 DEF IInv, HandlersOK
<1>6. HostsOK'
  <2>1. \A g \in Hosts : entries'[g].current => entries[g].current
    BY <1>1, <1>2, <1>3
  <2> QED BY <1>1, <2>1 DEF IInv, HostsOK
<1> QED BY <1>1, <1>5, <1>6 DEF IInv, BooksOK, StatesOK, ProgressOK, CountersOK

LEMMA ClockMovesIsGood ==
  ASSUME IInv, NEW l \in LeaseIds, ClockMoves(l)
  PROVE  IInv'
<1>1. /\ overdue' \subseteq overdue \cup {l}
      /\ granted' = Ungrant({l})
      /\ UNCHANGED <<up, book, bookDisk, st, stDisk, entries, hb, checked, prog,
                     wire, faults, crashes>>
  BY DEF ClockMoves
<1>2. l \in Nat
  BY RegistryAssumption DEF LeaseIds
<1>3. overdue' \subseteq Nat /\ granted' \in [Devices -> Grant]
  BY <1>1, <1>2, GrantedType DEF IInv, CountersOK
<1> QED BY <1>1, <1>3 DEF IInv, BooksOK, StatesOK, HandlersOK, ProgressOK,
                          CountersOK, HostsOK

LEMMA CrashIsGood == ASSUME IInv, Crash PROVE IInv'
<1>1. /\ LoseMemory /\ crashes < MaxCrashes /\ crashes' = crashes + 1
      /\ UNCHANGED <<wire, bookDisk, stDisk, overdue, faults, granted>>
  BY DEF Crash
<1>2. crashes' \in 0 .. MaxCrashes
  BY <1>1, RegistryAssumption DEF IInv, CountersOK
<1>3. CountersOK'
  BY <1>1, <1>2 DEF IInv, CountersOK
<1> QED BY <1>1, <1>3, LoseMemoryIsGood DEF IInv, BooksOK, StatesOK, HandlersOK

LEMMA RestartIsGood == ASSUME IInv, Restart PROVE IInv'
<1>0. PICK late \in SUBSET ActiveIds(bookDisk) :
        /\ overdue' = late
        /\ granted' = Ungrant(late)
        /\ \E b \in Expire(bookDisk, late) :
             /\ book' \in ReconciledBooks(stDisk, b)
             /\ st' = ReconciledState(stDisk, b)
  BY DEF Restart
<1>1. PICK b \in Expire(bookDisk, late) :
        /\ book' \in ReconciledBooks(stDisk, b)
        /\ st' = ReconciledState(stDisk, b)
  BY <1>0
<1>2. /\ ~up /\ up' = TRUE /\ bookDisk' = book' /\ stDisk' = st'
      /\ UNCHANGED <<wire, entries, hb, checked, prog, faults, crashes>>
  BY DEF Restart
<1>3. GoodBook(bookDisk) /\ stDisk \in DurableState
  BY DEF IInv, BooksOK, StatesOK
<1>4. GoodBook(b)
  BY <1>3, ExpireIsGood
<1>5. GoodBook(book') /\ st' \in DurableState
  BY <1>1, <1>3, <1>4, ReconciledIsGood
<1>6. BooksOK' /\ StatesOK'
  BY <1>2, <1>5 DEF BooksOK, StatesOK
<1>7. CountersOK'
  <2>1. late \subseteq Nat
    BY <1>3 DEF ActiveIds, GoodBook, Book, Lease, NoLease
  <2>2. granted' \in [Devices -> Grant]
    BY <1>0, GrantedType
  <2> QED BY <1>0, <1>2, <2>1, <2>2 DEF IInv, CountersOK
<1>8. HandlersOK' /\ ProgressOK'
  BY <1>2 DEF IInv, HandlersOK, ProgressOK
<1>9. HostsOK'
  BY <1>2 DEF IInv, HostsOK, NoEntries
<1> QED BY <1>6, <1>7, <1>8, <1>9 DEF IInv

-----------------------------------------------------------------------------
(***************************************************************************)
(* The invariant and the two theorems.                                      *)
(***************************************************************************)
LEMMA IInvHoldsInitially == Init => IInv
<1> SUFFICES ASSUME Init PROVE IInv
  OBVIOUS
<1>1. BooksOK /\ StatesOK
  BY EmptyBookIsGood, EmptyStateType DEF Init, BooksOK, StatesOK
<1>2. ErrorResponse \in WireType
  BY ResponseType DEF ErrorResponse
<1>3. HandlersOK /\ ProgressOK
  BY <1>2, EmptyMemoryType DEF Init, HandlersOK, ProgressOK
<1>4. CountersOK
  BY NoGrantType, RegistryAssumption DEF Init, CountersOK
<1>5. HostsOK
  BY DEF Init, HostsOK, NoEntries
<1> QED BY <1>1, <1>3, <1>4, <1>5 DEF IInv

LEMMA IInvIsInductive == IInv /\ [Next]_vars => IInv'
<1> SUFFICES ASSUME IInv, [Next]_vars PROVE IInv'
  OBVIOUS
<1>1. ASSUME NEW a \in Agents, AgentRequest(a) PROVE IInv'
  <2>1. "completed" \in Kinds
    BY DEF Kinds
  <2> QED BY <1>1, <2>1, HeartbeatInventoryIsGood, HeartbeatExpireIsGood,
             HeartbeatDispatchIsGood, StartedBeginIsGood, TerminalBeginIsGood,
             ValidateLeaseIsGood, AgentDetachIsGood DEF AgentRequest
<1>2. ASSUME NEW c \in Clients, ClientRequest(c) PROVE IInv'
  BY <1>2, AcquireLeaseIsGood, QueueLeaseIsGood, RenewLeaseIsGood,
     ReleaseLeaseIsGood, DisconnectClientIsGood, AppleRunCheckIsGood,
     AppleRunSubmitIsGood, AppleCancelIsGood DEF ClientRequest
<1>3. ASSUME NEW r \in Runs, Run(r) \/ Complete(r) PROVE IInv'
  BY <1>3, RunIsGood, CompleteIsGood
<1>4. CASE ProgressCommit
  BY <1>4, StartedCommitIsGood, TerminalCommitIsGood DEF ProgressCommit
<1>5. CASE Environment
  BY <1>5, ReplyTakenIsGood, HostGoesOfflineIsGood, ClockMovesIsGood, CrashIsGood,
     RestartIsGood DEF Environment
<1>6. CASE UNCHANGED vars
  BY <1>6 DEF vars, IInv, BooksOK, StatesOK, HandlersOK, ProgressOK, CountersOK,
              HostsOK
<1> QED BY <1>1, <1>2, <1>3, <1>4, <1>5, <1>6 DEF Next

LEMMA IInvHolds == Spec => []IInv
BY IInvHoldsInitially, IInvIsInductive, PTL DEF Spec

\* Every variable keeps its type, for any devices, clients, jobs and bounds.
THEOREM TypeCorrect == Spec => []TypeOK
<1>1. IInv => TypeOK
  BY DEF IInv, BooksOK, GoodBook, StatesOK, HandlersOK, ProgressOK, CountersOK,
         WireType, TypeOK
<1> QED BY <1>1, IInvHolds, PTL

\* No queue is ever left behind an idle device, names its holder or names a
\* client twice, in memory or on disk: release_device_now, expire, lease(),
\* reconcile_runtime_state and terminal progress all keep it so, through failed
\* writes and crashes.
THEOREM WaitersStayBehindHolder == Spec => []WaitersBehindHolder
<1>1. IInv => WaitersBehindHolder
  BY DEF IInv, BooksOK, GoodBook, WaitersBehindHolder
<1> QED BY <1>1, IInvHolds, PTL

-----------------------------------------------------------------------------
(***************************************************************************)
(* Registry: a writer never outlives the lease it was fenced under, in      *)
(* memory and in the files a crash leaves behind (WriterHoldsLease).        *)
(*                                                                         *)
(* What makes it inductive (FInv): a fenced device is leased, so that no    *)
(* new lease is put over a writer; memory and disk agree on what each job   *)
(* named, so that it does not matter which of the two files is older; and   *)
(* a pending job is a known one, so that a job that is dispatched has named *)
(* a lease at all.                                                          *)
(***************************************************************************)


Guarded(b, s) ==
  \A d \in Devices : Fenced(b, d) =>
    /\ Leased(b, d)
    /\ DeviceOf[b.writers[d]] = d
    /\ HoldsLease(s, b, b.writers[d])

Known(s, t) == \A j \in t.apple_pending : s.job[j] # NoJob

FInv == /\ Guarded(book, st) /\ Guarded(bookDisk, st)
        /\ stDisk.job = st.job
        /\ Known(st, st) /\ Known(st, stDisk)

\* A method of the book adds no writer and leaves the leases of writers alone.
KeepsWriters(b, c) ==
  \A d \in Devices : Fenced(c, d) =>
    c.writers[d] = b.writers[d] /\ c.active[d] = b.active[d]

\* A change to the state that is about no job's lease.
KeepsJobs(s, t) == t.job = s.job /\ t.apple_pending \subseteq s.apple_pending

-----------------------------------------------------------------------------
LEMMA KeepsWritersIsEnough ==
  ASSUME NEW b, NEW c, NEW s, NEW t,
         Guarded(b, s), KeepsWriters(b, c), t.job = s.job
  PROVE  Guarded(c, t)
BY DEF Guarded, KeepsWriters, Fenced, Leased, HoldsLease, LeaseOf

LEMMA KeepsWritersIsTransitive ==
  ASSUME NEW b, NEW c, NEW e, KeepsWriters(b, c), KeepsWriters(c, e)
  PROVE  KeepsWriters(b, e)
BY DEF KeepsWriters, Fenced

LEMMA ExpireKeepsWriters ==
  ASSUME NEW b, GoodBook(b), NEW late, NEW c \in Expire(b, late)
  PROVE  GoodBook(c) /\ KeepsWriters(b, c)
BY ExpireIsGood DEF KeepsWriters, Fenced

LEMMA ReleaseKeepsWriters ==
  ASSUME NEW b, GoodBook(b), NEW S \in SUBSET Devices, NEW c \in Release(b, S)
  PROVE  GoodBook(c) /\ KeepsWriters(b, c)
BY ReleaseIsGood DEF KeepsWriters, Fenced

LEMMA DropWritersKeepsWriters ==
  ASSUME NEW b, GoodBook(b), NEW S \in SUBSET Devices, NEW c \in DropWriters(b, S)
  PROVE  GoodBook(c) /\ KeepsWriters(b, c)
<1>1. /\ GoodBook(c)
      /\ c.writers = [d \in Devices |-> IF d \in S THEN None ELSE b.writers[d]]
      /\ \A d \in Devices \ S : c.active[d] = b.active[d]
  BY DropWritersIsGood
<1>2. \A d \in Devices : Fenced(c, d) => d \notin S /\ c.writers[d] = b.writers[d]
  BY <1>1 DEF Fenced
<1> QED BY <1>1, <1>2 DEF KeepsWriters

LEMMA ForceReleaseKeepsWriters ==
  ASSUME NEW b, GoodBook(b), NEW d \in Devices, NEW c \in ForceRelease(b, d)
  PROVE  GoodBook(c) /\ KeepsWriters(b, c)
<1>1. b.writers \in [Devices -> Jobs \cup {None}]
  BY DEF GoodBook, Book
<1>2. /\ GoodBook(c) /\ c.writers = [b.writers EXCEPT ![d] = None]
      /\ \A f \in Devices \ {d} : c.active[f] = b.active[f]
  BY ForceReleaseIsGood
<1> QED BY <1>1, <1>2 DEF KeepsWriters, Fenced

LEMMA DetachInventoryKeepsWriters ==
  ASSUME NEW b, GoodBook(b), NEW S \in SUBSET Devices,
         NEW c \in DetachInventory(b, S)
  PROVE  GoodBook(c) /\ KeepsWriters(b, c)
BY DetachInventoryIsGood DEF KeepsWriters, Fenced

LEMMA ReconciledKeepsWriters ==
  ASSUME NEW s, NEW b, GoodBook(b), NEW c \in ReconciledBooks(s, b)
  PROVE  GoodBook(c) /\ KeepsWriters(b, c)
<1>1. Orphans(s, b) \in SUBSET Devices
  BY DEF Orphans
<1> QED BY <1>1, DropWritersKeepsWriters DEF ReconciledBooks

\* A device that is free has no writer, so a new lease meets none.
LEMMA InsertKeepsWriters ==
  ASSUME NEW b, GoodBook(b), NEW s, Guarded(b, s), NEW d \in Devices,
         NEW c \in Clients, ~Leased(b, d)
  PROVE  GoodBook(Insert(b, d, c)) /\ KeepsWriters(b, Insert(b, d, c))
<1>1. ~Fenced(b, d)
  BY DEF Guarded
<1>2. /\ GoodBook(Insert(b, d, c)) /\ Insert(b, d, c).writers = b.writers
      /\ \A f \in Devices \ {d} : Insert(b, d, c).active[f] = b.active[f]
  BY InsertIsGood
<1> QED BY <1>1, <1>2 DEF KeepsWriters, Fenced

\* A writer is set for a known job that holds the device's lease.
LEMMA SetWriterIsGuarded ==
  ASSUME NEW b, GoodBook(b), NEW s \in DurableState, Guarded(b, s),
         NEW j \in Jobs, s.job[j] # NoJob, HoldsLease(s, b, j)
  PROVE  Guarded(SetWriter(b, DeviceOf[j], j), s)
<1> DEFINE d == DeviceOf[j]
           c == SetWriter(b, d, j)
<1>1. d \in Devices /\ b.writers \in [Devices -> Jobs \cup {None}]
  BY RegistryAssumption DEF GoodBook, Book
<1>2. c.active = b.active /\ c.writers = [b.writers EXCEPT ![d] = j]
  BY <1>1, SetWriterIsGood
<1>3. s.job[j] \in JobInfo
  BY DEF DurableState
<1>4. b.active[d] # NoLease
  BY <1>3, NoneAssumption DEF HoldsLease, LeaseOf, JobInfo, NoLease
<1> HIDE DEF c
<1>5. ASSUME NEW f \in Devices, Fenced(c, f)
      PROVE  /\ Leased(c, f) /\ DeviceOf[c.writers[f]] = f
             /\ HoldsLease(s, c, c.writers[f])
  <2>1. CASE f = d
    BY <1>1, <1>2, <1>4, <2>1 DEF Leased, HoldsLease
  <2>2. CASE f # d
    <3>1. c.writers[f] = b.writers[f] /\ c.active[f] = b.active[f]
      BY <1>1, <1>2, <2>2
    <3> QED BY <1>2, <1>5, <3>1 DEF Guarded, Fenced, Leased, HoldsLease
  <2> QED BY <2>1, <2>2
<1> QED BY <1>5 DEF Guarded, c

-----------------------------------------------------------------------------
(***************************************************************************)
(* The operators on DurableState that leave the jobs alone.                 *)
(***************************************************************************)
LEMMA ForgetPeersKeepsJobs ==
  ASSUME NEW s \in DurableState, NEW S PROVE KeepsJobs(s, ForgetPeers(s, S))
BY DEF ForgetPeers, KeepsJobs, DurableState

LEMMA DispatchedKeepsJobs ==
  ASSUME NEW s \in DurableState, NEW j PROVE KeepsJobs(s, Dispatched(s, j))
BY DEF Dispatched, KeepsJobs, DurableState

LEMMA AddEventKeepsJobs ==
  ASSUME NEW s \in DurableState, NEW j, NEW n, NEW k
  PROVE  KeepsJobs(s, AddEvent(s, j, n, k))
BY DEF AddEvent, KeepsJobs, DurableState

LEMMA KeepsJobsIsTransitive ==
  ASSUME NEW s, NEW t, NEW u, KeepsJobs(s, t), KeepsJobs(t, u)
  PROVE  KeepsJobs(s, u)
BY DEF KeepsJobs

LEMMA CancelledKeepsJobs ==
  ASSUME st \in DurableState, NEW j \in Jobs PROVE KeepsJobs(st, Cancelled(j))
<1> DEFINE yes == [st EXCEPT !.cancelled = st.cancelled \cup {j}]
           no  == [st EXCEPT !.apple_pending = st.apple_pending \ {j}]
<1>1. KeepsJobs(st, yes)
  BY DEF DurableState, KeepsJobs
<1>2. no \in DurableState /\ KeepsJobs(st, no)
  BY DEF DurableState, KeepsJobs
<1>3. Cancelled(j) = IF j \in st.dispatched THEN yes
                     ELSE AddEvent(no, j, 1, "cancelled")
  BY DEF Cancelled
<1> HIDE DEF yes, no
<1> QED BY <1>1, <1>2, <1>3, AddEventKeepsJobs, KeepsJobsIsTransitive

-----------------------------------------------------------------------------
(***************************************************************************)
(* Steps.                                                                   *)
(***************************************************************************)
LEMMA StepKeepsFInv ==
  ASSUME FInv, Guarded(book', st), Guarded(bookDisk', st),
         st'.job = st.job, stDisk'.job = st.job, Known(st, st'), Known(st, stDisk')
  PROVE  FInv'
BY DEF FInv, Guarded, Known, HoldsLease, LeaseOf, Fenced, Leased

\* The book changes without a new writer, the state without a new job, and a
\* file holds what it held or what the memory holds.
LEMMA SaveKeepsFInv ==
  ASSUME FInv, KeepsWriters(book, book'), bookDisk' \in {bookDisk, book'},
         KeepsJobs(st, st'), stDisk' \in {stDisk, st'}
  PROVE  FInv'
<1>1. Guarded(book', st) /\ Guarded(bookDisk', st)
  BY KeepsWritersIsEnough DEF FInv
<1>2. /\ st'.job = st.job /\ stDisk'.job = st.job
      /\ Known(st, st') /\ Known(st, stDisk')
  BY DEF FInv, KeepsJobs, Known
<1> QED BY <1>1, <1>2, StepKeepsFInv

LEMMA SaveBookChooses ==
  ASSUME NEW saved, SaveBook(saved) PROVE bookDisk' \in {bookDisk, book'}
BY DEF SaveBook

LEMMA SaveBothChooses ==
  ASSUME NEW saved, SaveBoth(saved)
  PROVE  bookDisk' \in {bookDisk, book'} /\ stDisk' \in {stDisk, st'}
BY DEF SaveBoth

LEMMA KeepsSame ==
  /\ \A b : KeepsWriters(b, b)
  /\ \A s : KeepsJobs(s, s)
BY DEF KeepsWriters, KeepsJobs

\* A lease operation: expiry, then the operation, then both files.
LEMMA LeaseKeepsFInv ==
  ASSUME IInv, FInv, NEW b \in Expire(book, overdue), NEW saved, SaveBoth(saved),
         KeepsWriters(b, book'), KeepsJobs(st, st')
  PROVE  FInv'
<1>1. KeepsWriters(book, b)
  BY ExpireKeepsWriters DEF IInv, BooksOK
<1>2. KeepsWriters(book, book')
  BY <1>1, KeepsWritersIsTransitive
<1> QED BY <1>2, SaveBothChooses, SaveKeepsFInv

\* The expired book is in order and still guarded.
LEMMA ExpiredIsGuarded ==
  ASSUME IInv, FInv, NEW b \in Expire(book, overdue)
  PROVE  GoodBook(b) /\ Guarded(b, st)
BY ExpireKeepsWriters, KeepsWritersIsEnough DEF IInv, BooksOK, FInv

LEMMA AcquireLeaseKeepsFInv ==
  ASSUME IInv, FInv, NEW c \in Clients, NEW d \in Devices, AcquireLease(c, d)
  PROVE  FInv'
<1>1. PICK b \in Expire(book, overdue), saved \in BOOLEAN :
        /\ book' = IF Leased(b, d) THEN b ELSE Insert(b, d, c)
        /\ st' = st /\ SaveBoth(saved)
  BY DEF AcquireLease
<1>2. KeepsWriters(b, book')
  BY <1>1, ExpiredIsGuarded, InsertKeepsWriters, KeepsSame
<1> QED BY <1>1, <1>2, LeaseKeepsFInv, KeepsSame

LEMMA QueueLeaseKeepsFInv ==
  ASSUME IInv, FInv, NEW c \in Clients, NEW d \in Devices, QueueLease(c, d)
  PROVE  FInv'
<1>1. PICK b \in Expire(book, overdue), saved \in BOOLEAN :
        /\ book' = IF ~Leased(b, d) THEN Insert(b, d, c)
                   ELSE IF d \in HeldBy(b, c) \/ Waits(b, d, c) THEN b
                   ELSE Enqueue(b, d, c)
        /\ st' = st /\ SaveBoth(saved)
  BY DEF QueueLease
<1>2. GoodBook(b) /\ Guarded(b, st)
  BY ExpiredIsGuarded
<1>3. KeepsWriters(b, book')
  <2>1. CASE ~Leased(b, d)
    BY <1>1, <1>2, <2>1, InsertKeepsWriters
  <2>2. CASE Leased(b, d) /\ (d \in HeldBy(b, c) \/ Waits(b, d, c))
    BY <1>1, <2>2, KeepsSame
  <2>3. CASE Leased(b, d) /\ d \notin HeldBy(b, c) /\ ~Waits(b, d, c)
    <3>1. book' = Enqueue(b, d, c)
      BY <1>1, <2>3
    <3>2. book'.writers = b.writers /\ book'.active = b.active
      BY <1>2, <2>3, <3>1, EnqueueIsGood
    <3> QED BY <3>2 DEF KeepsWriters
  <2> QED BY <2>1, <2>2, <2>3
<1> QED BY <1>1, <1>3, LeaseKeepsFInv, KeepsSame

LEMMA RenewLeaseKeepsFInv ==
  ASSUME IInv, FInv, NEW c, NEW l, RenewLease(c, l)
  PROVE  FInv'
<1>1. PICK b \in Expire(book, overdue), saved \in BOOLEAN :
        book' = b /\ st' = st /\ SaveBoth(saved)
  BY DEF RenewLease
<1> QED BY <1>1, LeaseKeepsFInv, KeepsSame

LEMMA ReleaseLeaseKeepsFInv ==
  ASSUME IInv, FInv, NEW c, NEW l, ReleaseLease(c, l)
  PROVE  FInv'
<1>1. PICK b \in Expire(book, overdue), saved \in BOOLEAN :
        book' \in Release(b, Holding(b, c, l)) /\ st' = st /\ SaveBoth(saved)
  BY DEF ReleaseLease
<1>2. Holding(b, c, l) \in SUBSET Devices
  BY DEF Holding
<1>3. KeepsWriters(b, book')
  BY <1>1, <1>2, ExpiredIsGuarded, ReleaseKeepsWriters
<1> QED BY <1>1, <1>3, LeaseKeepsFInv, KeepsSame

LEMMA DisconnectClientKeepsFInv ==
  ASSUME IInv, FInv, NEW c, DisconnectClient(c)
  PROVE  FInv'
<1>1. PICK b \in Expire(book, overdue), saved \in BOOLEAN :
        /\ book' \in Release(LeaveQueues(b, c), HeldBy(b, c))
        /\ st' = st /\ SaveBoth(saved)
  BY DEF DisconnectClient
<1> DEFINE q == LeaveQueues(b, c)
<1>2. GoodBook(q) /\ q.writers = b.writers /\ q.active = b.active
  BY ExpiredIsGuarded, LeaveQueuesIsGood
<1>3. KeepsWriters(b, q)
  BY <1>2 DEF KeepsWriters
<1>4. HeldBy(b, c) \in SUBSET Devices
  BY DEF HeldBy
<1>5. KeepsWriters(q, book')
  BY <1>1, <1>2, <1>4, ReleaseKeepsWriters
<1>6. KeepsWriters(b, book')
  BY <1>3, <1>5, KeepsWritersIsTransitive
<1> QED BY <1>1, <1>6, LeaseKeepsFInv, KeepsSame

LEMMA ValidateLeaseKeepsFInv ==
  ASSUME IInv, FInv, NEW a, NEW j, NEW l, NEW active, ValidateLease(a, j, l, active)
  PROVE  FInv'
<1>1. PICK b \in Expire(book, overdue), saved \in BOOLEAN :
        book' = b /\ st' = st /\ SaveBoth(saved)
  BY DEF ValidateLease
<1> QED BY <1>1, LeaseKeepsFInv, KeepsSame

LEMMA AgentDetachKeepsFInv ==
  ASSUME IInv, FInv, NEW a, NEW d \in Devices, AgentDetach(a, d)
  PROVE  FInv'
<1>1. PICK b \in Expire(book, overdue), saved \in BOOLEAN :
        /\ book' \in ForceRelease(b, d)
        /\ st' = ForgetPeers(st, {d})
        /\ SaveBoth(saved)
  BY DEF AgentDetach
<1>2. KeepsWriters(b, book')
  BY <1>1, ExpiredIsGuarded, ForceReleaseKeepsWriters
<1>3. KeepsJobs(st, st')
  BY <1>1, ForgetPeersKeepsJobs DEF IInv, StatesOK
<1> QED BY <1>1, <1>2, <1>3, LeaseKeepsFInv

-----------------------------------------------------------------------------
(***************************************************************************)
(* Jobs.                                                                    *)
(***************************************************************************)

\* The new state is in memory and on disk, or the process is gone and the disk
\* holds the old or the new one.
LEMMA PersistChooses ==
  ASSUME NEW s, NEW chk, PersistOrPanic(s, chk)
  PROVE  /\ bookDisk' = bookDisk /\ book' \in {book, bookDisk}
         /\ stDisk' \in {stDisk, s} /\ st' = stDisk'
BY DEF PersistOrPanic, Panic, LoseMemory, SaveState

LEMMA PersistKeepsFInv ==
  ASSUME FInv, NEW s, KeepsJobs(st, s), NEW chk, PersistOrPanic(s, chk)
  PROVE  FInv'
<1>1. /\ bookDisk' = bookDisk /\ book' \in {book, bookDisk}
      /\ stDisk' \in {stDisk, s} /\ st' = stDisk'
  BY PersistChooses
<1>2. s.job = st.job /\ Known(st, s)
  BY DEF FInv, KeepsJobs, Known
<1> QED BY <1>1, <1>2, StepKeepsFInv DEF FInv

LEMMA RunKeepsFInv == ASSUME IInv, FInv, NEW r, Run(r) PROVE FInv'
<1> DEFINE s == [st EXCEPT !.requests = st.requests \cup {r},
                           !.pending  = st.pending \cup {r}]
<1>1. PersistOrPanic(s, checked)
  BY DEF Run
<1>2. KeepsJobs(st, s)
  BY DEF IInv, StatesOK, DurableState, KeepsJobs
<1> QED BY <1>1, <1>2, PersistKeepsFInv

LEMMA CompleteKeepsFInv == ASSUME IInv, FInv, NEW r, Complete(r) PROVE FInv'
<1> DEFINE s == [st EXCEPT !.pending = st.pending \ {r},
                           !.done    = st.done \cup {r}]
<1>1. PersistOrPanic(s, checked)
  BY DEF Complete
<1>2. KeepsJobs(st, s)
  BY DEF IInv, StatesOK, DurableState, KeepsJobs
<1> QED BY <1>1, <1>2, PersistKeepsFInv

LEMMA AppleCancelKeepsFInv ==
  ASSUME IInv, FInv, NEW c, NEW j \in Jobs, AppleCancel(c, j)
  PROVE  FInv'
<1>1. PersistOrPanic(Cancelled(j), checked)
  BY DEF AppleCancel
<1>2. KeepsJobs(st, Cancelled(j))
  BY CancelledKeepsJobs DEF IInv, StatesOK
<1> QED BY <1>1, <1>2, PersistKeepsFInv

LEMMA AppleRunCheckKeepsFInv ==
  ASSUME IInv, FInv, NEW c, NEW j, NEW l, AppleRunCheck(c, j, l)
  PROVE  FInv'
<1>1. PICK b \in Expire(book, overdue), saved \in BOOLEAN :
        book' = b /\ SaveBook(saved) /\ UNCHANGED <<st, stDisk>>
  BY DEF AppleRunCheck
<1>2. KeepsWriters(book, book')
  BY <1>1, ExpireKeepsWriters DEF IInv, BooksOK
<1> QED BY <1>1, <1>2, SaveBookChooses, SaveKeepsFInv, KeepsSame

\* A job that becomes known now is no device's writer yet.
LEMMA AppleRunSubmitKeepsFInv ==
  ASSUME IInv, FInv, NEW c \in Clients, NEW j \in Jobs, NEW l,
         AppleRunSubmit(c, j, l)
  PROVE  FInv'
<1> DEFINE request == [client |-> c, job |-> j, lease |-> l]
           info(h) == [client |-> c, lease |-> l, host |-> h,
                       agent |-> st.host_peers[h]]
           accepted(h) == [st EXCEPT !.job[j] = info(h),
                                     !.apple_pending = st.apple_pending \cup {j},
                                     !.events[j] = << >>]
<1>1. CASE UNCHANGED <<up, book, bookDisk, st, stDisk, entries, hb, prog, faults>>
  BY <1>1 DEF FInv, Guarded, Known, Fenced, Leased, HoldsLease, LeaseOf
<1>2. ASSUME st.job[j] = NoJob,
             NEW h, PersistOrPanic(accepted(h), checked \ {request})
      PROVE  FInv'
  <2> DEFINE s == accepted(h)
  <2>1. /\ s.job = [st.job EXCEPT ![j] = info(h)]
        /\ s.apple_pending = st.apple_pending \cup {j}
    BY DEF IInv, StatesOK, DurableState
  <2>2. /\ s.job[j] # NoJob
        /\ \A k \in Jobs \ {j} : s.job[k] = st.job[k]
    <3>1. info(h).client # NoJob.client
      BY NoneAssumption DEF NoJob
    <3> HIDE DEF info, s
    <3> QED BY <2>1, <3>1 DEF IInv, StatesOK, DurableState
  <2> HIDE DEF accepted
  <2>3. ASSUME NEW b, GoodBook(b), Guarded(b, st) PROVE Guarded(b, s)
    <3>1. \A d \in Devices : b.writers[d] \in Jobs \cup {None}
      BY <2>3 DEF GoodBook, Book
    <3>2. ASSUME NEW d \in Devices, Fenced(b, d)
          PROVE  b.writers[d] \in Jobs \ {j}
      <4>1. b.active[d] = LeaseOf(st, b.writers[d]) /\ b.active[d] # NoLease
        BY <2>3, <3>2 DEF Guarded, HoldsLease, Leased
      <4>2. b.writers[d] # j
        BY <1>2, <4>1 DEF LeaseOf, NoJob, NoLease
      <4> QED BY <3>1, <3>2, <4>2 DEF Fenced
    <3> QED BY <2>2, <2>3, <3>2 DEF Guarded, HoldsLease, LeaseOf
  <2>4. /\ bookDisk' = bookDisk /\ book' \in {book, bookDisk}
        /\ stDisk' \in {stDisk, s} /\ st' = stDisk'
    BY <1>2, PersistChooses
  <2>5. Guarded(book, s) /\ Guarded(bookDisk, s)
    BY <2>3 DEF IInv, BooksOK, FInv
  <2>6. Known(s, s)
    <3>1. \A k \in st.apple_pending : k \in Jobs /\ st.job[k] # NoJob
      BY DEF FInv, Known, IInv, StatesOK, DurableState
    <3> QED BY <2>1, <2>2, <3>1 DEF Known
  <2>7. CASE stDisk' = s
    <3>1. st' = s
      BY <2>4, <2>7
    <3> HIDE DEF s
    <3>2. Guarded(book', st') /\ Guarded(bookDisk', st')
      BY <2>4, <2>5, <3>1
    <3> QED BY <2>6, <2>7, <3>1, <3>2 DEF FInv
  <2>8. CASE stDisk' = stDisk
    <3>1. Guarded(book', st) /\ Guarded(bookDisk', st)
      BY <2>4 DEF FInv
    <3> QED BY <2>4, <2>8, <3>1, StepKeepsFInv DEF FInv
  <2> QED BY <2>4, <2>7, <2>8
<1> QED BY <1>1, <1>2 DEF AppleRunSubmit

-----------------------------------------------------------------------------
(***************************************************************************)
(* Heartbeat.                                                               *)
(***************************************************************************)
LEMMA HeartbeatInventoryKeepsFInv ==
  ASSUME IInv, FInv, NEW a, NEW h, NEW S, HeartbeatInventory(a, h, S)
  PROVE  FInv'
<1> DEFINE detached == {d \in Devices : st.device_peers[d] = a /\ d \notin S}
           kept == [book EXCEPT !.pending_detach = book.pending_detach \ S]
<1>1. PICK b \in DetachInventory(kept, detached), saved \in BOOLEAN :
        book' = b /\ SaveBook(saved)
  BY DEF HeartbeatInventory
<1>2. kept \in Book /\ kept.active = book.active /\ kept.waiting = book.waiting
      /\ kept.writers = book.writers
  BY DEF IInv, BooksOK, GoodBook, Book
<1>3. detached \in SUBSET Devices
  OBVIOUS
<1>4. stDisk' = stDisk /\ KeepsJobs(st, st')
  BY DEF HeartbeatInventory, IInv, StatesOK, DurableState, KeepsJobs
<1> HIDE DEF kept, detached
<1>5. GoodBook(kept)
  BY <1>2, SameQueuesAreGood DEF IInv, BooksOK
<1>6. KeepsWriters(kept, book')
  BY <1>1, <1>3, <1>5, DetachInventoryKeepsWriters
<1>7. KeepsWriters(book, book')
  BY <1>2, <1>6 DEF KeepsWriters
<1> QED BY <1>1, <1>4, <1>7, SaveBookChooses, SaveKeepsFInv

LEMMA HeartbeatExpireKeepsFInv ==
  ASSUME IInv, FInv, NEW a, HeartbeatExpire(a)
  PROVE  FInv'
<1>1. PICK b \in Expire(book, overdue), saved \in BOOLEAN :
        book' = b /\ SaveBook(saved)
  BY DEF HeartbeatExpire
<1>2. UNCHANGED <<st, stDisk>>
  BY DEF HeartbeatExpire
<1>3. KeepsWriters(book, book')
  BY <1>1, ExpireKeepsWriters DEF IInv, BooksOK
<1> QED BY <1>1, <1>2, <1>3, SaveBookChooses, SaveKeepsFInv, KeepsSame

\* The tail of a heartbeat, whether its save succeeds or what it did is undone.
LEMMA FinishHeartbeatKeepsFInv ==
  ASSUME IInv, FInv, NEW a, NEW s \in DurableState, KeepsJobs(st, s),
         NEW b, GoodBook(b), Guarded(b, st),
         NEW bd, Guarded(bd, st), NEW reply,
         FinishHeartbeat(a, s, b, bd, reply)
  PROVE  FInv'
<1> DEFINE undone == [s EXCEPT !.dispatched = s.dispatched \ {reply.job}]
<1>1. s.job = st.job /\ Known(st, s)
  BY DEF FInv, KeepsJobs, Known
<1>2. CASE /\ st' = s /\ stDisk' \in {stDisk, s} /\ book' = b /\ bookDisk' = bd
  BY <1>1, <1>2, StepKeepsFInv DEF FInv
<1>3. CASE /\ stDisk' \in {stDisk, s}
           /\ st' = ReconciledState(undone, b)
           /\ book' \in ReconciledBooks(undone, b)
           /\ bookDisk' \in {bd, book'}
  <2>1. undone \in DurableState /\ KeepsJobs(s, undone)
    BY DEF DurableState, KeepsJobs
  <2> HIDE DEF undone
  <2>2. KeepsJobs(undone, st')
    BY <1>3, <2>1, ForgetPeersKeepsJobs DEF ReconciledState
  <2>3. st'.job = st.job /\ Known(st, st')
    BY <1>1, <2>1, <2>2 DEF KeepsJobs, Known
  <2>4. KeepsWriters(b, book')
    BY <1>3, ReconciledKeepsWriters
  <2>5. Guarded(book', st) /\ Guarded(bookDisk', st)
    BY <1>3, <2>4, KeepsWritersIsEnough
  <2>6. stDisk'.job = st.job /\ Known(st, stDisk')
    BY <1>1, <1>3 DEF FInv
  <2> QED BY <2>3, <2>5, <2>6, StepKeepsFInv
<1> QED BY <1>2, <1>3 DEF FinishHeartbeat

LEMMA DispatchWriterKeepsFInv ==
  ASSUME IInv, FInv, NEW a, NEW r, NEW s \in DurableState, KeepsJobs(st, s),
         NEW j \in Jobs, st.job[j] # NoJob,
         NEW b \in Expire(book, overdue), DispatchWriter(a, s, b, r, j)
  PROVE  FInv'
<1> DEFINE fenced == SetWriter(b, DeviceOf[j], j)
           reply == Response(j, r, j, s.job[j].lease, s.cancelled)
<1>1. GoodBook(b) /\ Guarded(b, st)
  BY ExpiredIsGuarded
<1>2. HoldsLease(st, b, j)
  BY DEF DispatchWriter, HoldsLease, LeaseOf, KeepsJobs
<1>3. Guarded(fenced, st)
  BY <1>1, <1>2, SetWriterIsGuarded DEF IInv, StatesOK
<1>4. GoodBook(fenced)
  BY <1>1, SetWriterIsGood, RegistryAssumption
<1> HIDE DEF fenced, reply
<1>5. CASE FinishHeartbeat(a, Dispatched(s, j), fenced, fenced, reply)
  <2>1. KeepsJobs(st, Dispatched(s, j))
    BY DispatchedKeepsJobs, KeepsJobsIsTransitive
  <2>2. Dispatched(s, j) \in DurableState
    BY DispatchedType
  <2> QED BY <1>3, <1>4, <1>5, <2>1, <2>2, FinishHeartbeatKeepsFInv
<1>6. CASE /\ st' = s /\ UNCHANGED stDisk
           /\ book' = fenced /\ bookDisk' \in {bookDisk, fenced}
  <2>1. s.job = st.job /\ Known(st, s)
    BY DEF FInv, KeepsJobs, Known
  <2> QED BY <1>3, <1>6, <2>1, StepKeepsFInv DEF FInv
<1> QED BY <1>5, <1>6 DEF DispatchWriter, fenced, reply

LEMMA RejectAppleKeepsFInv ==
  ASSUME IInv, FInv, NEW a, NEW r, NEW s \in DurableState, KeepsJobs(st, s),
         NEW j \in Jobs, NEW b \in Expire(book, overdue),
         RejectApple(a, s, b, r, j)
  PROVE  FInv'
<1> DEFINE over == [s EXCEPT !.apple_pending = s.apple_pending \ {j}]
           next == AddEvent(over, j, 1, "rejected")
<1>1. GoodBook(b) /\ Guarded(b, st) /\ Guarded(bookDisk, st)
  BY ExpiredIsGuarded DEF FInv
<1>2. over \in DurableState /\ KeepsJobs(s, over)
  BY DEF DurableState, KeepsJobs
<1>3. FinishHeartbeat(a, next, b, bookDisk, Response(j, r, None, 0, s.cancelled))
  BY DEF RejectApple
<1> HIDE DEF over
<1>4. next \in DurableState
  <2>1. "rejected" \in Kinds /\ 1 \in Nat
    BY DEF Kinds
  <2> QED BY <1>2, <2>1, AddEventType
<1>5. KeepsJobs(st, next)
  BY <1>2, AddEventKeepsJobs, KeepsJobsIsTransitive
<1> HIDE DEF next
<1> QED BY <1>1, <1>3, <1>4, <1>5, FinishHeartbeatKeepsFInv

LEMMA HeartbeatDispatchKeepsFInv ==
  ASSUME IInv, FInv, NEW a, HeartbeatDispatch(a)
  PROVE  FInv'
<1>1. PICK r \in OneOf(PendingRuns(hb[a].host)),
           j \in OneOf(PendingApple(hb[a].host)) :
        DispatchApple(a, Dispatched(st, r), r, j)
  BY DEF HeartbeatDispatch
<1> DEFINE s == Dispatched(st, r)
<1>2. st \in DurableState /\ GoodBook(book) /\ Guarded(book, st)
      /\ Guarded(bookDisk, st)
  BY DEF IInv, StatesOK, BooksOK, FInv
<1>3. r \in Runs \cup {None} /\ j \in Jobs \cup {None}
  BY <1>2 DEF OneOf, PendingRuns, PendingApple, DurableState
<1>4. s \in DurableState /\ KeepsJobs(st, s)
  BY <1>2, <1>3, DispatchedType, DispatchedKeepsJobs
<1>5. j \in Jobs => st.job[j] # NoJob
  BY NoneAssumption DEF OneOf, PendingApple, FInv, Known
<1> HIDE DEF s
<1>6. CASE FinishHeartbeat(a, s, book, bookDisk, Response(r, r, None, 0, s.cancelled))
  BY <1>2, <1>4, <1>6, FinishHeartbeatKeepsFInv
<1>7. CASE FinishHeartbeat(a, Dispatched(s, j), book, bookDisk,
                           Response(j, r, j, 0, s.cancelled))
  <2>1. Dispatched(s, j) \in DurableState /\ KeepsJobs(st, Dispatched(s, j))
    BY <1>3, <1>4, DispatchedType, DispatchedKeepsJobs, KeepsJobsIsTransitive
  <2> QED BY <1>2, <1>7, <2>1, FinishHeartbeatKeepsFInv
<1>8. ASSUME j \in Mutating, NEW b \in Expire(book, overdue),
             DispatchWriter(a, s, b, r, j) \/ RejectApple(a, s, b, r, j)
      PROVE  FInv'
  <2>1. j \in Jobs
    BY <1>8, RegistryAssumption
  <2> QED BY <1>4, <1>5, <1>8, <2>1, DispatchWriterKeepsFInv, RejectAppleKeepsFInv
<1> QED BY <1>1, <1>6, <1>7, <1>8 DEF DispatchApple, s

-----------------------------------------------------------------------------
(***************************************************************************)
(* AppleProgress.                                                           *)
(***************************************************************************)
LEMMA DeduplicatedKeepsJobs ==
  ASSUME NEW s \in DurableState, NEW j, NEW n, NEW k
  PROVE  KeepsJobs(s, Deduplicated(s, j, n, k))
BY AddEventKeepsJobs, KeepsSame DEF Deduplicated

LEMMA StartedBeginKeepsFInv ==
  ASSUME IInv, FInv, NEW a, NEW j \in Jobs, NEW accepted \in BOOLEAN,
         StartedBegin(a, j, accepted)
  PROVE  FInv'
<1>1. UNCHANGED <<st, stDisk>> /\ st.job[j] # NoJob
  BY DEF StartedBegin, KnownAgent
<1>2. ASSUME Guarded(book', st), NEW saved, SaveBook(saved)
      PROVE  FInv'
  BY <1>1, <1>2, SaveBookChooses, StepKeepsFInv DEF FInv
<1>3. CASE book' = book /\ SaveBook(accepted)
  <2>1. Guarded(book', st)
    BY <1>3 DEF FInv
  <2> QED BY <1>2, <1>3, <2>1
<1>4. ASSUME NEW b \in Expire(book, overdue), CanWrite(st, b, j),
             book' = SetWriter(b, DeviceOf[j], j), SaveBook(accepted)
      PROVE  FInv'
  <2>1. GoodBook(b) /\ Guarded(b, st) /\ HoldsLease(st, b, j)
    BY <1>4, ExpiredIsGuarded DEF CanWrite
  <2>2. Guarded(book', st)
    BY <1>1, <1>4, <2>1, SetWriterIsGuarded DEF IInv, StatesOK
  <2> QED BY <1>2, <1>4, <2>2
<1>5. ASSUME NEW b \in Expire(book, overdue), book' = b,
             NEW saved \in BOOLEAN, SaveBook(saved)
      PROVE  FInv'
  <2>1. Guarded(book', st)
    BY <1>5, ExpiredIsGuarded
  <2> QED BY <1>2, <1>5, <2>1
<1> QED BY <1>3, <1>4, <1>5 DEF StartedBegin

LEMMA StartedCommitKeepsFInv ==
  ASSUME IInv, FInv, NEW accepted \in BOOLEAN, StartedCommit(accepted)
  PROVE  FInv'
<1> DEFINE j == prog.job
           acked == [st EXCEPT !.acknowledged = st.acknowledged \cup {j}]
           writers == [d \in Devices |-> IF book.writers[d] = j THEN None
                                         ELSE book.writers[d]]
           dropped == [book EXCEPT !.writers = writers]
<1>1. /\ prog # NoProgress
      /\ st' = Deduplicated(acked, j, 1, "started")
      /\ SaveState(accepted)
      /\ \/ book' = dropped /\ bookDisk' \in {bookDisk, dropped}
         \/ book' = book /\ bookDisk' = bookDisk
  BY DEF StartedCommit
<1>2. KeepsJobs(st, st')
  <2>1. j \in Jobs
    BY <1>1 DEF IInv, ProgressOK
  <2>2. acked \in DurableState /\ KeepsJobs(st, acked)
    BY <2>1 DEF IInv, StatesOK, DurableState, KeepsJobs
  <2> HIDE DEF acked, j
  <2> QED BY <1>1, <2>2, DeduplicatedKeepsJobs, KeepsJobsIsTransitive
<1>3. KeepsWriters(book, dropped)
  <2>1. dropped.writers = writers /\ dropped.active = book.active
    BY DEF IInv, BooksOK, GoodBook, Book
  <2> HIDE DEF dropped
  <2> QED BY <2>1 DEF KeepsWriters, Fenced
<1>4. stDisk' \in {stDisk, st'}
  BY <1>1 DEF SaveState
<1>5. KeepsWriters(book, book') /\ bookDisk' \in {bookDisk, book'}
  BY <1>1, <1>3, KeepsSame
<1> QED BY <1>2, <1>4, <1>5, SaveKeepsFInv

LEMMA TerminalBeginKeepsFInv ==
  ASSUME IInv, FInv, NEW a, NEW j \in Jobs, NEW k \in Kinds, TerminalBegin(a, j, k)
  PROVE  FInv'
<1> DEFINE over == [st EXCEPT !.apple_pending = st.apple_pending \ {j},
                              !.cancelled = st.cancelled \ {j}]
           last == Deduplicated(over, j, 2, k)
<1>1. /\ book' \in DropWriters(book, WrittenBy(book, j))
      /\ st' = ForgetPeers(last, WrittenBy(book, j) \cap book.pending_detach)
      /\ UNCHANGED <<bookDisk, stDisk>>
  BY DEF TerminalBegin
<1>2. WrittenBy(book, j) \in SUBSET Devices
  BY DEF WrittenBy
<1>3. KeepsWriters(book, book')
  BY <1>1, <1>2, DropWritersKeepsWriters DEF IInv, BooksOK
<1>4. over \in DurableState /\ KeepsJobs(st, over)
  BY DEF IInv, StatesOK, DurableState, KeepsJobs
<1> HIDE DEF over
<1>5. last \in DurableState /\ KeepsJobs(over, last)
  BY <1>4, DeduplicatedType, DeduplicatedKeepsJobs
<1> HIDE DEF last
<1>6. KeepsJobs(last, st')
  BY <1>1, <1>5, ForgetPeersKeepsJobs
<1>7. KeepsJobs(st, st')
  BY <1>4, <1>5, <1>6, KeepsJobsIsTransitive
<1> QED BY <1>1, <1>3, <1>7, SaveKeepsFInv

LEMMA TerminalCommitKeepsFInv ==
  ASSUME FInv, NEW accepted, TerminalCommit(accepted)
  PROVE  FInv'
<1>1. /\ book' = book /\ st' = st
      /\ bookDisk' \in {bookDisk, book} /\ stDisk' \in {stDisk, st}
  BY DEF TerminalCommit
<1> QED BY <1>1, SaveKeepsFInv, KeepsSame

-----------------------------------------------------------------------------
(***************************************************************************)
(* Crash and restart, and the theorem.                                      *)
(***************************************************************************)
LEMMA CrashKeepsFInv == ASSUME FInv, Crash PROVE FInv'
<1>1. /\ book' = bookDisk /\ st' = stDisk
      /\ UNCHANGED <<bookDisk, stDisk>>
  BY DEF Crash, LoseMemory
<1> QED BY <1>1, StepKeepsFInv DEF FInv

LEMMA RestartKeepsFInv == ASSUME IInv, FInv, Restart PROVE FInv'
<1>1. PICK late \in SUBSET ActiveIds(bookDisk) :
        \E b \in Expire(bookDisk, late) :
          /\ book' \in ReconciledBooks(stDisk, b)
          /\ st' = ReconciledState(stDisk, b)
  BY DEF Restart
<1>2. PICK b \in Expire(bookDisk, late) :
        /\ book' \in ReconciledBooks(stDisk, b)
        /\ st' = ReconciledState(stDisk, b)
  BY <1>1
<1>3. bookDisk' = book' /\ stDisk' = st'
  BY DEF Restart
<1>4. GoodBook(b) /\ KeepsWriters(bookDisk, b)
  BY ExpireKeepsWriters DEF IInv, BooksOK
<1>5. KeepsWriters(bookDisk, book')
  BY <1>2, <1>4, ReconciledKeepsWriters, KeepsWritersIsTransitive
<1>6. Guarded(book', st)
  BY <1>5, KeepsWritersIsEnough DEF FInv
<1>7. KeepsJobs(stDisk, st')
  BY <1>2, ForgetPeersKeepsJobs DEF ReconciledState, IInv, StatesOK
<1>8. st'.job = st.job /\ Known(st, st')
  BY <1>7 DEF FInv, KeepsJobs, Known
<1> QED BY <1>3, <1>6, <1>8, StepKeepsFInv

LEMMA FInvHoldsInitially == Init => FInv
BY DEF Init, FInv, Guarded, Known, EmptyBook, EmptyState, Fenced

LEMMA FInvIsInductive == IInv /\ FInv /\ [Next]_vars => FInv'
<1> SUFFICES ASSUME IInv, FInv, [Next]_vars PROVE FInv'
  OBVIOUS
<1>1. ASSUME NEW a \in Agents, AgentRequest(a) PROVE FInv'
  <2>1. "completed" \in Kinds
    BY DEF Kinds
  <2> QED BY <1>1, <2>1, HeartbeatInventoryKeepsFInv, HeartbeatExpireKeepsFInv,
             HeartbeatDispatchKeepsFInv, StartedBeginKeepsFInv,
             TerminalBeginKeepsFInv, ValidateLeaseKeepsFInv, AgentDetachKeepsFInv
          DEF AgentRequest
<1>2. ASSUME NEW c \in Clients, ClientRequest(c) PROVE FInv'
  BY <1>2, AcquireLeaseKeepsFInv, QueueLeaseKeepsFInv, RenewLeaseKeepsFInv,
     ReleaseLeaseKeepsFInv, DisconnectClientKeepsFInv, AppleRunCheckKeepsFInv,
     AppleRunSubmitKeepsFInv, AppleCancelKeepsFInv DEF ClientRequest
<1>3. ASSUME NEW r \in Runs, Run(r) \/ Complete(r) PROVE FInv'
  BY <1>3, RunKeepsFInv, CompleteKeepsFInv
<1>4. CASE ProgressCommit
  BY <1>4, StartedCommitKeepsFInv, TerminalCommitKeepsFInv DEF ProgressCommit
<1>5. CASE UNCHANGED <<book, bookDisk, st, stDisk>>
  BY <1>5, StepKeepsFInv DEF FInv
<1>6. CASE Environment
  <2>1. CASE Crash \/ Restart
    BY <2>1, CrashKeepsFInv, RestartKeepsFInv
  <2>2. CASE ~(Crash \/ Restart)
    <3>1. UNCHANGED <<book, bookDisk, st, stDisk>>
      BY <1>6, <2>2 DEF Environment, ReplyTaken, HostGoesOffline, ClockMoves
    <3> QED BY <1>5, <3>1
  <2> QED BY <2>1, <2>2
<1>7. CASE UNCHANGED vars
  BY <1>5, <1>7 DEF vars
<1> QED BY <1>1, <1>2, <1>3, <1>4, <1>6, <1>7 DEF Next

\* A job that writes to a device always holds the device's lease, the one it
\* named when it was submitted, in memory and on disk: no release, expiry,
\* promotion, detach, failed write, crash or restart takes the lease from under
\* a writer (release_device, reconcile_runtime_state, the fencing in Heartbeat
\* and in AppleProgress).
THEOREM WriterKeepsLease == Spec => []WriterHoldsLease
<1>1. FInv => WriterHoldsLease
  BY DEF FInv, Guarded, WriterHoldsLease, WriterHolds, HoldsLease, LeaseOf
<1>2. Spec => []FInv
  BY IInvHolds, FInvHoldsInitially, FInvIsInductive, PTL DEF Spec
<1> QED BY <1>1, <1>2, PTL

=============================================================================
