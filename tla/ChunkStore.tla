------------------------------- MODULE ChunkStore -------------------------------
(***************************************************************************)
(* The artifact store that assembles uploads from chunks in any order      *)
(* (artifacts::ArtifactStore of src/src/lib.rs).  An upload belongs to a   *)
(* session; uploads of one artifact by two sessions share the file, which  *)
(* is named by the digest of the artifact.  The chunks of the artifact are *)
(* 1 .. Size, and any other contents of a chunk are 0.                     *)
(***************************************************************************)
EXTENDS Naturals, FiniteSets

CONSTANTS
  Owners,          \* the sessions
  FileChunks, None,    \* chunks of the artifact
  MaxStoreFaults   \* bound: failed writes and renames

VARIABLES
  uploaded,   \* session -> its entry, None before it is registered
  temporary,  \* whether the temporary file is whole, None without one
  final,      \* whether the file of the artifact is there
  past,       \* the sessions whose entry has expired
  answered,   \* session -> every chunk that was acknowledged since it was registered
  storeFaults

chunkVars == <<uploaded, temporary, final, past, answered, storeFaults>>

NewUpload == [chunks |-> {}, published |-> FALSE]

ChunkInit ==
  /\ uploaded = [o \in Owners |-> None]
  /\ temporary = None /\ final = FALSE /\ past = {}
  /\ answered = [o \in Owners |-> {}]
  /\ storeFaults = MaxStoreFaults

-----------------------------------------------------------------------------

\* An upload registered again begins anew, also when it was published.
RegisterUpload ==
  /\ \E o \in Owners :
       /\ uploaded' = [uploaded EXCEPT ![o] = NewUpload]
       /\ answered' = [answered EXCEPT ![o] = {}]
       /\ past' = past \ {o}
  /\ UNCHANGED <<temporary, final, storeFaults>>

Expire ==
  /\ \E o \in Owners \ past : uploaded[o] # None /\ past' = past \cup {o}
  /\ UNCHANGED <<uploaded, temporary, final, answered, storeFaults>>

IsOpen(o) == uploaded[o] # None /\ o \notin past

Completes(o, i) == uploaded[o].chunks \cup {i} = FileChunks

Acknowledge(o, i) == answered' = [answered EXCEPT ![o] = @ \cup {i}]

Stored(o, i) ==
  uploaded' = [uploaded EXCEPT ![o] = [chunks |-> @.chunks \cup {i},
                                       published |-> @.published \/ Completes(o, i)]]

\* The file cannot be written or renamed: the chunk that completes the upload is
\* not kept.
NotKept(o, i) == UNCHANGED uploaded

PublishFails(o, i) ==
  /\ storeFaults > 0 /\ storeFaults' = storeFaults - 1
  /\ temporary' \in {temporary, FALSE, TRUE}
  /\ NotKept(o, i)
  /\ UNCHANGED <<final, answered>>

WriteChunk ==
  /\ \E o \in Owners, i \in FileChunks :
       /\ IsOpen(o)
       /\ IF i \in uploaded[o].chunks
          THEN /\ Acknowledge(o, i)
               /\ UNCHANGED <<uploaded, temporary, final, storeFaults>>
          ELSE IF Completes(o, i)
          THEN \/ /\ Stored(o, i) /\ Acknowledge(o, i)
                  /\ temporary' = None /\ final' = TRUE
                  /\ UNCHANGED storeFaults
               \/ PublishFails(o, i)
          ELSE /\ Stored(o, i) /\ Acknowledge(o, i)
               /\ UNCHANGED <<temporary, final, storeFaults>>
  /\ UNCHANGED past

ChunkNext == RegisterUpload \/ Expire \/ WriteChunk

ChunkSpec == ChunkInit /\ [][ChunkNext]_chunkVars

-----------------------------------------------------------------------------
(* Properties.                                                             *)

MissingChunks(o) == FileChunks \ uploaded[o].chunks

\* An upload that misses nothing, or whose every chunk was acknowledged, is
\* published, and the file of the artifact is there, also after a write that
\* failed was repeated: the uploader has nothing left to send.
CompleteIsPublished ==
  \A o \in Owners : uploaded[o] # None =>
    /\ MissingChunks(o) = {} \/ answered[o] = FileChunks => uploaded[o].published
    /\ uploaded[o].published => final
===============================================================================
