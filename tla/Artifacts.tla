------------------------------- MODULE Artifacts -------------------------------
(***************************************************************************)
(* The upload of an artifact by the agent of a job and its download by the *)
(* client (ArtifactRegister, ArtifactWrite, ArtifactInfo and ArtifactRead  *)
(* of src/src/registry_runtime.rs; publish_artifact of                     *)
(* src/src/bin/mesh-agent.rs; artifact-download of                         *)
(* src/src/bin/mesh-cli.rs).  The agent repeats a request whose answer it  *)
(* did not get in time, while the first one may still be on its way; the   *)
(* registry may fail to save its index, or restart.                        *)
(*                                                                         *)
(* A chunk is one number, and an artifact is the chunks 1 .. Size in their *)
(* order; its digest tells exactly that sequence from every other one.     *)
(***************************************************************************)
EXTENDS Naturals, Sequences, FiniteSets

CONSTANTS
  None,
  Size,             \* chunks of the artifact
  MaxAttempts,      \* of one request (retry_artifact_rpc)
  MaxArtifactFaults \* bound: failed writes and restarts

VARIABLES
  entry,     \* the artifact in the memory of the registry, None when not registered
  saved,     \* the artifact in the index file
  partial,   \* the file of the artifact: the chunks in it
  wire,      \* requests on their way to the registry, the number of each
  publisher, \* the agent: the request it is at, its attempts, and what came of it
  download,  \* the client: what it has read, None before it knows the artifact
  trouble

artifactVars == <<entry, saved, partial, wire, publisher, download, trouble>>

Whole == [i \in 1 .. Size |-> i]

\* Request 0 registers the artifact, request i writes chunk i.
Requests == 0 .. Size

ArtifactInit ==
  /\ entry = None /\ saved = None /\ partial = <<>>
  /\ wire = [r \in Requests |-> 0]
  /\ publisher = [at |-> 0, attempts |-> 0, waits |-> FALSE, state |-> "publishing"]
  /\ download = None
  /\ trouble = MaxArtifactFaults

-----------------------------------------------------------------------------
(* The registry.  An answer is "ok", an error, or lost with its connection.*)

\* Answers reach the agent that still waits for them.
Answered(r, ok) ==
  \/ publisher' = publisher      \* too late, or lost
  \/ /\ publisher.waits /\ publisher.at = r
     /\ publisher' =
          IF ~ok THEN [publisher EXCEPT !.waits = FALSE, !.state = "failed"]
          ELSE IF r = Size THEN [publisher EXCEPT !.waits = FALSE, !.state = "published"]
          ELSE [publisher EXCEPT !.waits = FALSE, !.attempts = 0, !.at = r + 1]

\* The index is saved, or it cannot be: the memory keeps what it has.
Persisted(e, r) ==
  \/ saved' = e /\ Answered(r, TRUE) /\ UNCHANGED trouble
  \/ trouble > 0 /\ trouble' = trouble - 1 /\ UNCHANGED saved /\ Answered(r, FALSE)

Registered == [confirmed |-> 0, published |-> FALSE]

ServeRegister ==
  /\ wire[0] > 0
  /\ wire' = [wire EXCEPT ![0] = @ - 1]
  /\ entry' = IF entry = None THEN Registered ELSE entry
  /\ Persisted(entry', 0)
  /\ UNCHANGED <<partial, download>>

\* A chunk that was written already.
IsReplay(r) == r - 1 < entry.confirmed

\* The answer to a replay waits for the index as well: the write it repeats may
\* have failed to save it.  Mutant: it does not.
ReplayedAtOnce(r) == UNCHANGED <<saved, trouble>> /\ Answered(r, TRUE)

Replayed(r) == Persisted(entry, r)

Refused(r) == UNCHANGED <<entry, saved, partial, trouble>> /\ Answered(r, FALSE)

\* seek, write_all and set_len: what was behind the chunk is cut off.
Written(r) == Append(SubSeq(partial, 1, r - 1), r)

WriteFails(r) ==
  /\ trouble > 0 /\ trouble' = trouble - 1
  /\ partial' \in {partial, Written(r)}
  /\ UNCHANGED <<entry, saved>>
  /\ Answered(r, FALSE)

\* If the last chunk does not make it whole, the file is cut back.
Accepted(r) ==
  IF r = Size /\ Written(r) # Whole
  THEN /\ partial' \in {Written(r), SubSeq(Written(r), 1, r - 1)}
       /\ UNCHANGED <<entry, saved, trouble>> /\ Answered(r, FALSE)
  ELSE /\ partial' = Written(r)
       /\ entry' = [confirmed |-> r, published |-> entry.published \/ r = Size]
       /\ Persisted(entry', r)

ServeWrite ==
  /\ \E r \in 1 .. Size :
       /\ wire[r] > 0
       /\ wire' = [wire EXCEPT ![r] = @ - 1]
       /\ IF entry = None THEN Refused(r)
          ELSE IF IsReplay(r)
          THEN IF Len(partial) >= r /\ partial[r] = r
               THEN Replayed(r) /\ UNCHANGED <<entry, partial>>
               ELSE Refused(r)
          ELSE IF r - 1 # entry.confirmed THEN Refused(r)
          ELSE Accepted(r) \/ WriteFails(r)
  /\ UNCHANGED download

\* The registry stops and another one loads the index.
RegistryRestarts ==
  /\ trouble > 0 /\ trouble' = trouble - 1
  /\ entry' = saved
  /\ wire' = [r \in Requests |-> 0]
  /\ UNCHANGED <<saved, partial, publisher, download>>

-----------------------------------------------------------------------------
(* The agent: publish_artifact_with and retry_artifact_rpc.                *)

SendRequest ==
  /\ publisher.state = "publishing" /\ ~publisher.waits
  /\ publisher' = [publisher EXCEPT !.waits = TRUE, !.attempts = @ + 1]
  /\ wire' = [wire EXCEPT ![publisher.at] = @ + 1]
  /\ UNCHANGED <<entry, saved, partial, download, trouble>>

\* No answer in time, or no connection: once more, three times in all.
RequestTimesOut ==
  /\ publisher.waits
  /\ publisher' = IF publisher.attempts < MaxAttempts
                  THEN [publisher EXCEPT !.waits = FALSE]
                  ELSE [publisher EXCEPT !.waits = FALSE, !.state = "failed"]
  /\ UNCHANGED <<entry, saved, partial, wire, download, trouble>>

-----------------------------------------------------------------------------
(* The client.                                                             *)

ArtifactInfo ==
  /\ download = None /\ entry # None /\ entry.published
  /\ download' = <<>>
  /\ UNCHANGED <<entry, saved, partial, wire, publisher, trouble>>

\* An error ends the program; the next one begins again.
ArtifactRead ==
  /\ download # None /\ Len(download) < Size
  /\ IF entry # None /\ entry.published /\ Len(partial) > Len(download)
     THEN download' = Append(download, partial[Len(download) + 1])
     ELSE download' = None
  /\ UNCHANGED <<entry, saved, partial, wire, publisher, trouble>>

ArtifactNext ==
  \/ ServeRegister \/ ServeWrite \/ RegistryRestarts
  \/ SendRequest \/ RequestTimesOut
  \/ ArtifactInfo \/ ArtifactRead

ArtifactSpec == ArtifactInit /\ [][ArtifactNext]_artifactVars

-----------------------------------------------------------------------------
(* Properties.                                                             *)

\* What the agent reports as published is published in the index file and whole
\* in its own, whatever was repeated, lost or answered late, so that a registry
\* that restarts serves it; and whatever the index says is confirmed is there.
PublishedIsDurable ==
  /\ publisher.state = "published" => saved # None /\ saved.published
  /\ \A e \in {entry, saved} \ {None} :
       /\ e.confirmed <= Len(partial)
       /\ \A i \in 1 .. e.confirmed : partial[i] = i
       /\ e.published => partial = Whole
  /\ download # None => \A i \in 1 .. Len(download) : download[i] = i
===============================================================================
