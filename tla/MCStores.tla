------------------------------- MODULE MCStores -------------------------------
(***************************************************************************)
(* The components that keep something on disk, each on its own: they share *)
(* no state, and one run explores one after the other.                     *)
(***************************************************************************)
EXTENDS Registry, Stores, TLC

CONSTANTS StoreJobs, StoreActors, MaxBody, MaxWrites, MaxDamage   \* EventStore

VARIABLES
  part,  \* the component that runs
  segments, writer, attempted, damage

leaseVars == vars
eventVars == <<segments, writer, attempted, damage>>

\* One event, and two of which the second spans segments.
JobEvent(n, kind, payload) == [sequence |-> n, kind |-> kind, payload |-> payload]
Batches ==
  {<<>>, <<JobEvent(1, <<>>, <<1>>)>>,
   <<JobEvent(1, <<0>>, <<>>), JobEvent(2, <<1>>, <<3, 0>>)>>}

Events ==
  INSTANCE EventStore WITH Jobs <- StoreJobs, Actors <- StoreActors, MaxFaults <- MaxDamage

\* The registry without jobs: its clients queue for devices that come and go, and it
\* crashes once.
MCDeviceOf == [j \in {} |-> None]
MCRunHost == [r \in {} |-> None]

Parts == {"audit", "events", "file", "artifact", "chunks", "workspace", "leases"}

StoresInit ==
  /\ part \in Parts
  /\ Init /\ WorkspaceInit /\ Audit!Init
  /\ Events!StoreInit /\ Artifact!ArtifactInit /\ Chunked!ChunkInit
  /\ File!FileInit /\ (part # "file" => written = 0)

AuditStep ==
  /\ part = "audit" /\ Audit!Next
  /\ UNCHANGED <<part, leaseVars, eventVars, fileVars, artifactVars, chunkVars, workspaceVars>>

EventStep ==
  /\ part = "events" /\ Events!StoreNext
  /\ UNCHANGED <<part, leaseVars, auditVars, fileVars, artifactVars, chunkVars, workspaceVars>>

FileStep ==
  /\ part = "file" /\ File!FileNext
  /\ UNCHANGED <<part, leaseVars, auditVars, eventVars, artifactVars, chunkVars, workspaceVars>>

ArtifactStep ==
  /\ part = "artifact" /\ Artifact!ArtifactNext
  /\ UNCHANGED <<part, leaseVars, auditVars, eventVars, fileVars, chunkVars, workspaceVars>>

ChunkStep ==
  /\ part = "chunks" /\ Chunked!ChunkNext
  /\ UNCHANGED <<part, leaseVars, auditVars, eventVars, fileVars, artifactVars, workspaceVars>>

WorkspaceStep ==
  /\ part = "workspace" /\ WorkspaceNext
  /\ UNCHANGED <<part, leaseVars, auditVars, eventVars, fileVars, artifactVars, chunkVars>>

LeaseStep ==
  /\ part = "leases" /\ Next
  /\ UNCHANGED <<part, auditVars, eventVars, fileVars, artifactVars, chunkVars, workspaceVars>>

StoresNext ==
  \/ AuditStep \/ EventStep \/ FileStep \/ ArtifactStep \/ ChunkStep \/ WorkspaceStep
  \/ LeaseStep

StoresSpec ==
  StoresInit
    /\ [][StoresNext]_<<part, auditVars, eventVars, fileVars, artifactVars, chunkVars,
                         workspaceVars, leaseVars>>

\* What the event segments give back is what was written: registry_event_store.
ReadIsWritten == Events!ReadIsWritten

ClientSymmetry == Permutations(Clients)
=============================================================================
