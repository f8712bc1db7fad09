--------------------------- MODULE ControllerSessions ---------------------------
(***************************************************************************)
(* The sessions a controller signs for another machine, and the file that  *)
(* remembers which of them were used (controller_session in                *)
(* src/src/lib.rs; `devicelane controller-session` runs issue and consume  *)
(* in processes of their own).  A consumer reads the clock, verifies, and  *)
(* then waits for the lock of the file; another process may hold it, and   *)
(* may be cut off while it writes.                                         *)
(*                                                                         *)
(* A session stands for its id together with its challenge; a signature,   *)
(* an endpoint, a peer or a challenge that is not the expected one is      *)
(* refused before anything is changed, and is left out.                    *)
(***************************************************************************)
EXTENDS Naturals, FiniteSets, Functions

CONSTANTS
  Assertions,   \* sessions that may be issued
  Consumers,    \* processes that consume, each with its process id
  None,
  MaxEntries,   \* max_entries of the file
  MaxLifetime,  \* the longest lifetime that may be asked for
  MaxClock, MaxCutOffs, MaxAttempts  \* bounds: time, processes cut off, attempts to consume

VARIABLES
  clock,
  issued,     \* session -> when it was issued and when it expires
  cache,      \* the file: session -> when it expires; None before there is one
  leftover,   \* process ids whose temporary file is there
  consumer,   \* what each process is at
  accepted,   \* session -> how often it was accepted, for the properties
  latest,     \* the latest time by which entries were dropped, for the properties
  attempts, cutOffs

sessionVars ==
  <<clock, issued, cache, leftover, consumer, accepted, latest, attempts, cutOffs>>

Out == [phase |-> "out"]

SessionInit ==
  /\ clock = 1 /\ issued = [k \in {} |-> None] /\ cache = None /\ leftover = {}
  /\ consumer = [c \in Consumers |-> Out]
  /\ accepted = [k \in Assertions |-> 0] /\ latest = 0
  /\ attempts = MaxAttempts /\ cutOffs = MaxCutOffs

Tick ==
  /\ clock < MaxClock /\ clock' = clock + 1
  /\ UNCHANGED <<issued, cache, leftover, consumer, accepted, latest, attempts, cutOffs>>

\* issue_controller_session.
Issue(k) ==
  /\ k \notin DOMAIN issued
  /\ \E lifetime \in 1 .. MaxLifetime :
       issued' = [j \in DOMAIN issued \cup {k} |->
                    IF j = k THEN [at |-> clock, expires |-> clock + lifetime] ELSE issued[j]]
  /\ UNCHANGED <<clock, cache, leftover, consumer, accepted, latest, attempts, cutOffs>>

\* verify_controller_session, with the time that the command read first.
Verify(c, k) ==
  /\ consumer[c] = Out /\ attempts > 0 /\ attempts' = attempts - 1
  /\ k \in DOMAIN issued /\ issued[k].at <= clock /\ clock <= issued[k].expires
  /\ consumer' = [consumer EXCEPT ![c] = [phase |-> "waiting", session |-> k, now |-> clock]]
  /\ UNCHANGED <<clock, issued, cache, leftover, accepted, latest, cutOffs>>

\* Entries that have not expired.  Mutant: an entry is dropped at its last moment.
KeptBefore(entries, now) == Restrict(entries, {k \in DOMAIN entries : entries[k] > now})

Kept(entries, now) == Restrict(entries, {k \in DOMAIN entries : entries[k] >= now})

\* consume_locked, under the exclusive lock.  The temporary file has the process id
\* in its name and must not be there yet.
Consume(c) ==
  /\ consumer[c] # Out
  /\ LET k == consumer[c].session
         now == consumer[c].now
         entries == Kept(IF cache = None THEN [j \in {} |-> 0] ELSE cache, now)
         added == [j \in DOMAIN entries \cup {k} |->
                     IF j = k THEN issued[k].expires ELSE entries[j]]
         refused == k \in DOMAIN entries \/ Cardinality(DOMAIN entries) >= MaxEntries
                      \/ c \in leftover
     IN \/ /\ refused
           /\ UNCHANGED <<cache, leftover, accepted, latest, cutOffs>>
        \/ /\ ~refused
           /\ cache' = added
           /\ accepted' = [accepted EXCEPT ![k] = @ + 1]
           /\ latest' = IF now > latest THEN now ELSE latest
           /\ UNCHANGED <<leftover, cutOffs>>
        \/ \* The process is cut off before or after the file is replaced, or its write
           \* fails, and the temporary file is removed.
           /\ ~refused /\ cutOffs > 0 /\ cutOffs' = cutOffs - 1
           /\ \/ leftover' = leftover \cup {c} /\ UNCHANGED <<cache, latest>>
              \/ /\ cache' = added /\ latest' = IF now > latest THEN now ELSE latest
                 /\ UNCHANGED leftover
              \/ UNCHANGED <<cache, leftover, latest>>
           /\ UNCHANGED accepted
  /\ consumer' = [consumer EXCEPT ![c] = Out]
  /\ UNCHANGED <<clock, issued, attempts>>

SessionNext ==
  \/ Tick
  \/ \E k \in Assertions : Issue(k)
  \/ \E c \in Consumers : Consume(c) \/ \E k \in Assertions : Verify(c, k)

SessionSpec == SessionInit /\ [][SessionNext]_sessionVars

-----------------------------------------------------------------------------
(* Properties.                                                             *)

\* A session is accepted once, up to and including the last moment at which it
\* verifies, by whichever process and however they overlap or are cut off - unless
\* another process has dropped it after it expired while the second consumer, which
\* verified it in time, still waited for the lock.
AcceptedOnce ==
  /\ \A k \in DOMAIN issued : accepted[k] > 1 => latest > issued[k].expires
  /\ cache # None => Cardinality(DOMAIN cache) <= MaxEntries
=================================================================================
