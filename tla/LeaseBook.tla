----------------------------- MODULE LeaseBook -----------------------------
(***************************************************************************)
(* The registry's lease book (src/src/registry_runtime.rs, LeaseBook): who  *)
(* holds each device, who waits for it, and which job is writing to it.     *)
(*                                                                         *)
(* Every operator takes a book and returns the SET of books the method can  *)
(* leave behind.  The only choice is the order in which several devices     *)
(* are released by one call: the code walks a HashMap, so the waiters it    *)
(* promotes get their fresh lease ids in any order.                         *)
(*                                                                         *)
(* Expiry is data abstracted to what the code tests: a lease carries no     *)
(* expires_at_ms; the environment decides which lease ids are overdue       *)
(* (now >= expires_at_ms).  The Vec of waiters becomes one queue for each   *)
(* device, since the code only ever looks for the first waiter of a device. *)
(*                                                                         *)
(* An operator whose comment starts with "Mutant" is a bug this code could  *)
(* have; nothing uses it but the runs that show a property catches it.      *)
(***************************************************************************)
EXTENDS Integers, Sequences, FiniteSets

CONSTANTS Devices,      \* device ids that agents report
          Clients,      \* peers that ask for leases
          Jobs,         \* Apple jobs, one for each idempotency key
          None          \* absence of a client, a job, an agent, ...

ASSUME FiniteDevices == IsFiniteSet(Devices)
ASSUME NoneAssumption == None \notin Clients \cup Jobs

Lease   == [id : Nat \ {0}, client : Clients]
NoLease == [id |-> 0, client |-> None]

(* pending_release and pending_detach remember what to do with a device     *)
(* once the job that writes to it has ended.                                *)
Book == [next_id         : Nat,
         active          : [Devices -> Lease \cup {NoLease}],
         waiting         : [Devices -> Seq(Clients)],
         writers         : [Devices -> Jobs \cup {None}],
         pending_release : SUBSET Devices,
         pending_detach  : SUBSET Devices]

EmptyBook == [next_id         |-> 0,
              active          |-> [d \in Devices |-> NoLease],
              waiting         |-> [d \in Devices |-> << >>],
              writers         |-> [d \in Devices |-> None],
              pending_release |-> {},
              pending_detach  |-> {}]

Leased(b, d) == b.active[d] # NoLease
Fenced(b, d) == b.writers[d] # None

ActiveIds(b) == {b.active[d].id : d \in {e \in Devices : Leased(b, e)}}

\* Mutant of Holding: the lease id is not compared.
HoldingAny(b, c, l) == {d \in Devices : b.active[d].client = c}

\* The devices whose active lease is l and belongs to c.
Holding(b, c, l) == {d \in Devices : b.active[d] = [id |-> l, client |-> c]}
HeldBy(b, c)     == {d \in Devices : Leased(b, d) /\ b.active[d].client = c}

(***************************************************************************)
(* insert: the next id goes to c on d.                                      *)
(***************************************************************************)
Insert(b, d, c) ==
  [b EXCEPT !.next_id = b.next_id + 1,
            !.active[d] = [id |-> b.next_id + 1, client |-> c]]

\* The ids that the promotions of one call hand out, in any order.
FreshIds(b, promoted) ==
  {f \in [promoted -> (b.next_id + 1) .. (b.next_id + Cardinality(promoted))] :
      \A d, e \in promoted : f[d] = f[e] => d = e}

\* Mutant of ReleaseNow: the last waiter is promoted.
ReleaseNowLast(b, S) ==
  LET last(d) == Len(b.waiting[d])
      promoted == {d \in S : b.waiting[d] # << >>}
  IN  {[b EXCEPT !.next_id = b.next_id + Cardinality(promoted),
                 !.active  = [d \in Devices |->
                    IF d \in promoted
                    THEN [id |-> ids[d], client |-> b.waiting[d][last(d)]]
                    ELSE IF d \in S THEN NoLease ELSE b.active[d]],
                 !.waiting = [d \in Devices |->
                    IF d \in promoted THEN SubSeq(b.waiting[d], 1, last(d) - 1)
                    ELSE b.waiting[d]]] :
        ids \in FreshIds(b, promoted)}

\* Mutant of ReleaseNow: nobody is promoted.
ReleaseNowIdle(b, S) ==
  {[b EXCEPT !.active = [d \in Devices |-> IF d \in S THEN NoLease
                                           ELSE b.active[d]]]}

(***************************************************************************)
(* release_device_now, for each device of S: the lease ends and the first   *)
(* waiter of the device, if any, is promoted to a lease of its own.         *)
(***************************************************************************)
ReleaseNow(b, S) ==
  LET promoted == {d \in S : b.waiting[d] # << >>}
      after(ids, d) == IF d \in promoted
                       THEN [id |-> ids[d], client |-> Head(b.waiting[d])]
                       ELSE IF d \in S THEN NoLease ELSE b.active[d]
  IN  {[b EXCEPT !.next_id = b.next_id + Cardinality(promoted),
                 !.active  = [d \in Devices |-> after(ids, d)],
                 !.waiting = [d \in Devices |-> IF d \in promoted
                                                THEN Tail(b.waiting[d])
                                                ELSE b.waiting[d]]] :
        ids \in FreshIds(b, promoted)}

\* Mutant of Release: a writer does not defer it.
ReleaseAnyway(b, S) == ReleaseNow(b, S)

(***************************************************************************)
(* release_device, for each device of S: a device with a writer keeps its   *)
(* lease until the writer is done.                                          *)
(***************************************************************************)
Release(b, S) ==
  LET fenced == {d \in S : Fenced(b, d)}
  IN  ReleaseNow([b EXCEPT !.pending_release = b.pending_release \cup fenced],
                 S \ fenced)

\* expire: every overdue lease is released.
Expire(b, overdue) ==
  Release(b, {d \in Devices : Leased(b, d) /\ b.active[d].id \in overdue})

\* Mutant of DropWriters: pending_release is not cleared.
DropWritersKeep(b, S) ==
  ReleaseNow([b EXCEPT !.writers = [d \in Devices |-> IF d \in S THEN None
                                                      ELSE b.writers[d]],
                       !.pending_detach  = b.pending_detach \ S],
             S \cap b.pending_release)

(***************************************************************************)
(* The writers of the devices in S are dropped and what was deferred for    *)
(* them is done: the common tail of reconcile_runtime_state and of terminal *)
(* progress.                                                                *)
(***************************************************************************)
DropWriters(b, S) ==
  ReleaseNow([b EXCEPT !.writers = [d \in Devices |-> IF d \in S THEN None
                                                      ELSE b.writers[d]],
                       !.pending_release = b.pending_release \ S,
                       !.pending_detach  = b.pending_detach \ S],
             S \cap b.pending_release)

\* force_release_device: nothing is deferred.
ForceRelease(b, d) ==
  ReleaseNow([b EXCEPT !.writers[d] = None,
                       !.pending_release = b.pending_release \ {d},
                       !.pending_detach  = b.pending_detach \ {d}],
             {d})

\* detach_inventory, for each device of S.
DetachInventory(b, S) ==
  Release([b EXCEPT !.pending_detach =
                       b.pending_detach \cup {d \in S : Fenced(b, d)}], S)

SetWriter(b, d, j) == [b EXCEPT !.writers[d] = j]

(***************************************************************************)
(* The queue operations of lease().                                         *)
(***************************************************************************)
Waits(b, d, c) == \E i \in DOMAIN b.waiting[d] : b.waiting[d][i] = c

Enqueue(b, d, c) == [b EXCEPT !.waiting[d] = Append(b.waiting[d], c)]

\* A queue without the entry of c, which is there at most once.
Without(q, c) ==
  IF \E i \in DOMAIN q : q[i] = c
  THEN LET k == CHOOSE i \in DOMAIN q : q[i] = c
       IN  [i \in 1 .. Len(q) - 1 |-> IF i < k THEN q[i] ELSE q[i + 1]]
  ELSE q

LeaveQueues(b, c) ==
  [b EXCEPT !.waiting = [d \in Devices |-> Without(b.waiting[d], c)]]

(***************************************************************************)
(* What must hold of a book at rest, in memory and on disk.                 *)
(***************************************************************************)

\* A device with waiters is leased to somebody who is not waiting for it, and
\* nobody waits for a device twice.
QueueOK(b) ==
  \A d \in Devices :
    /\ b.waiting[d] # << >> => Leased(b, d)
    /\ \A i \in DOMAIN b.waiting[d] :
         /\ b.waiting[d][i] # b.active[d].client
         /\ \A k \in DOMAIN b.waiting[d] :
              b.waiting[d][i] = b.waiting[d][k] => i = k

=============================================================================
