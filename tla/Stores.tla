-------------------------------- MODULE Stores --------------------------------
(***************************************************************************)
(* What the programs keep on disk, apart from the registry's own files and *)
(* its event segments: the audit log, files that are saved as a whole,     *)
(* uploads by offset and by chunks, and workspace leases.  They share no   *)
(* state.                                                                  *)
(***************************************************************************)
EXTENDS Workspaces

CONSTANTS Tags, KeepDays, SegmentSize, MaxDay, MaxSeq, MaxSegment,
          MaxAuditFaults, MaxAuditCrashes, MaxTroubles            \* AuditStore
CONSTANTS MaxSaves, MaxFileFaults                                 \* AtomicFile
CONSTANTS Size, MaxAttempts, MaxArtifactFaults                    \* Artifacts
CONSTANTS Owners, FileChunks, MaxStoreFaults                      \* ChunkStore
CONSTANT  Nothing   \* no file, no entry, no save

SaveSteps ==
  {"stage", "write", "clear", "retire", "replace", "sync", "forget", "keep", "last sync"}

\* Nothing is none of what it stands in for; an artifact is not empty
\* (ArtifactRegister, src/src/registry_runtime.rs:856).
ASSUME StoresAssumption ==
  /\ Nothing \notin [generation : Nat, value : Nat]
  /\ Nothing \notin [contents : [generation : Nat, value : Nat], step : SaveSteps]
  /\ Nothing \notin [confirmed : Nat, published : BOOLEAN]
  /\ Nothing \notin [chunks : SUBSET FileChunks, published : BOOLEAN]
  /\ Size \in Nat \ {0} /\ FileChunks # {}

VARIABLES
  files, index, store, today, acked, deleted, split, auditFaults, auditCrashes,
  dir, saver, written, possible, fileFaults,
  entry, saved, partial, sent, publisher, download, trouble,
  uploaded, temporary, final, past, answered, storeFaults

auditVars ==
  <<files, index, store, today, acked, deleted, split, auditFaults, auditCrashes>>
fileVars == <<dir, saver, written, possible, fileFaults>>
artifactVars == <<entry, saved, partial, sent, publisher, download, trouble>>
chunkVars == <<uploaded, temporary, final, past, answered, storeFaults>>

Audit ==
  INSTANCE AuditStore WITH
    None <- Nothing, faults <- auditFaults, crashes <- auditCrashes,
    MaxFaults <- MaxAuditFaults, MaxCrashes <- MaxAuditCrashes
File == INSTANCE AtomicFile WITH None <- Nothing
Artifact == INSTANCE Artifacts WITH None <- Nothing, wire <- sent
Chunked == INSTANCE ChunkStore WITH None <- Nothing

\* The audit log opens again, keeps what it acknowledged, keeps nothing it deleted and
\* serves what is on disk: audit.rs.
AuditLogHolds ==
  Audit!AlwaysOpens /\ Audit!AckedSurvives /\ Audit!DeletedIsGone /\ Audit!ServedIsOnDisk

\* Both ways to upload an artifact, by offset over the network and by chunks in one
\* process, publish what was sent in full, and nothing else: registry_runtime.rs, lib.rs.
UploadsArePublished == Artifact!PublishedIsDurable /\ Chunked!CompleteIsPublished

\* A load gives what was saved last: atomic_write, load_json_with_fallback.
LoadIsLatest == File!LoadIsLatest
=============================================================================
