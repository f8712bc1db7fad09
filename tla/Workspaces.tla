------------------------------- MODULE Workspaces -------------------------------
(***************************************************************************)
(* The write leases of workspace sessions and the upload of manifests      *)
(* (workspace::WorkspaceManager of src/src/lib.rs).  A manager keeps the   *)
(* leases it knows in memory and a file per session on the disk; several   *)
(* managers, in processes of their own, may share the directory, and a     *)
(* process may stop between two steps.  A lease is never given back.       *)
(***************************************************************************)
EXTENDS Naturals, FiniteSets

CONSTANTS
  Managers, Sessions, Writers, Nobody,
  MaxUploads, MaxStops   \* bounds

\* Nobody is told apart from a client, from what is in a file and from a lease.
ASSUME NobodyIsApart ==
  /\ Nobody \notin Writers
  /\ \A w \in SUBSET Writers : w # Nobody
  /\ \A l \in [session : Sessions, client : Writers] : l # Nobody

VARIABLES
  held,       \* manager -> session -> the client that writes, as the manager knows it
  leaseFile,  \* session -> what is in its lease file: Nobody without a file, {} while it is
              \* empty, a client in braces after
  acquiring,  \* manager -> the lease whose file it has created and not yet written
  uploads,    \* the files that were written: [session, client]
  stops

workspaceVars == <<held, leaseFile, acquiring, uploads, stops>>

WorkspaceInit ==
  /\ held = [m \in Managers |-> [s \in Sessions |-> Nobody]]
  /\ leaseFile = [s \in Sessions |-> Nobody]
  /\ acquiring = [m \in Managers |-> Nobody]
  /\ uploads = {} /\ stops = 0

-----------------------------------------------------------------------------

Hold(m, s, c) == held' = [held EXCEPT ![m][s] = c]

\* acquire_write_lease up to the file: it is created, or it is there and must
\* name the client.  Mutant: a file that is there is taken over.
MayTakeAny(s, c) == leaseFile[s] # Nobody

MayTake(s, c) == leaseFile[s] = {c}

AcquireWriteLease ==
  /\ \E m \in Managers, s \in Sessions, c \in Writers :
       /\ acquiring[m] = Nobody /\ held[m][s] \in {Nobody, c}
       /\ \/ /\ leaseFile[s] = Nobody
             /\ leaseFile' = [leaseFile EXCEPT ![s] = {}]
             /\ acquiring' = [acquiring EXCEPT ![m] = [session |-> s, client |-> c]]
             /\ UNCHANGED held
          \/ /\ MayTake(s, c)
             /\ Hold(m, s, c)
             /\ UNCHANGED <<leaseFile, acquiring>>
  /\ UNCHANGED <<uploads, stops>>

\* The name is written and the lease remembered.
WriteLease ==
  /\ \E m \in Managers :
       /\ acquiring[m] # Nobody
       /\ leaseFile' = [leaseFile EXCEPT ![acquiring[m].session] = {acquiring[m].client}]
       /\ Hold(m, acquiring[m].session, acquiring[m].client)
       /\ acquiring' = [acquiring EXCEPT ![m] = Nobody]
  /\ UNCHANGED <<uploads, stops>>

\* The name cannot be written: the empty file stays.
WriteLeaseFails ==
  /\ stops < MaxStops /\ stops' = stops + 1
  /\ \E m \in Managers :
       acquiring[m] # Nobody /\ acquiring' = [acquiring EXCEPT ![m] = Nobody]
  /\ UNCHANGED <<held, leaseFile, uploads>>

\* upload_manifest: as many of the files as can be written.
UploadManifest ==
  /\ \E m \in Managers, s \in Sessions, c \in Writers :
       /\ acquiring[m] = Nobody /\ held[m][s] = c
       /\ Cardinality(uploads) < MaxUploads
       /\ uploads' = uploads \cup {[session |-> s, client |-> c]}
  /\ UNCHANGED <<held, leaseFile, acquiring, stops>>

\* A process stops; a manager of the same directory starts with an empty memory.
ManagerRestarts ==
  /\ stops < MaxStops /\ stops' = stops + 1
  /\ \E m \in Managers :
       /\ held' = [held EXCEPT ![m] = [s \in Sessions |-> Nobody]]
       /\ acquiring' = [acquiring EXCEPT ![m] = Nobody]
  /\ UNCHANGED <<leaseFile, uploads>>

WorkspaceNext ==
  \/ AcquireWriteLease \/ WriteLease \/ WriteLeaseFails
  \/ UploadManifest \/ ManagerRestarts

WorkspaceSpec == WorkspaceInit /\ [][WorkspaceNext]_workspaceVars

-----------------------------------------------------------------------------
(* Properties.                                                             *)

\* One client ever writes to a session, whichever managers it goes through and
\* wherever they stop, and it is the one the file of the session names.
WorkspaceHasOneWriter ==
  /\ \A u, v \in uploads : u.session = v.session => u.client = v.client
  /\ \A m \in Managers, s \in Sessions :
       held[m][s] # Nobody => leaseFile[s] = {held[m][s]}
===============================================================================
