----------------------------- MODULE Stores_proofs -----------------------------
(***************************************************************************)
(* What is kept on disk: sessions have one writer, uploads are published   *)
(* in full, and a load gives what was saved last.                          *)
(***************************************************************************)
EXTENDS Stores, Sequences, TLAPS

-----------------------------------------------------------------------------
(* Workspaces: one client writes to a session, whichever managers it goes  *)
(* through and wherever they stop.  The property is about what was written *)
(* and what managers remember, and is inductive only with the file in      *)
(* between (WInv): between the creation of a lease file and the writing of *)
(* its name it is empty, one manager is at it, and nobody holds the        *)
(* session or has written to it yet.                                       *)


Lease == [session : Sessions, client : Writers]
Named == {{c} : c \in Writers}

WTypeOK ==
  /\ held \in [Managers -> [Sessions -> Writers \cup {Nobody}]]
  /\ leaseFile \in [Sessions -> {Nobody, {}} \cup Named]
  /\ acquiring \in [Managers -> Lease \cup {Nobody}]
  /\ uploads \subseteq Lease

\* A lease whose file was created and not yet written.
EmptyWhileAcquired ==
  /\ \A m \in Managers : acquiring[m] # Nobody => leaseFile[acquiring[m].session] = {}
  /\ \A m, n \in Managers :
       /\ acquiring[m] # Nobody /\ acquiring[n] # Nobody
       /\ acquiring[m].session = acquiring[n].session
       => m = n

HeldIsNamed ==
  \A m \in Managers, s \in Sessions : held[m][s] # Nobody => leaseFile[s] = {held[m][s]}

WrittenIsNamed == \A u \in uploads : leaseFile[u.session] = {u.client}

WInv == WTypeOK /\ EmptyWhileAcquired /\ HeldIsNamed /\ WrittenIsNamed

-----------------------------------------------------------------------------
LEMMA WInvHoldsInitially == WorkspaceInit => WInv
BY DEF WorkspaceInit, WInv, WTypeOK, EmptyWhileAcquired, HeldIsNamed, WrittenIsNamed

LEMMA AcquireWriteLeaseIsGood ==
  ASSUME WInv, AcquireWriteLease PROVE WInv'
<1>1. PICK m \in Managers, s \in Sessions, c \in Writers :
        /\ acquiring[m] = Nobody /\ held[m][s] \in {Nobody, c}
        /\ \/ /\ leaseFile[s] = Nobody
              /\ leaseFile' = [leaseFile EXCEPT ![s] = {}]
              /\ acquiring' = [acquiring EXCEPT ![m] = [session |-> s, client |-> c]]
              /\ UNCHANGED held
           \/ /\ MayTake(s, c)
              /\ Hold(m, s, c)
              /\ UNCHANGED <<leaseFile, acquiring>>
  BY DEF AcquireWriteLease
<1>2. uploads' = uploads
  BY DEF AcquireWriteLease
<1>3. CASE /\ leaseFile[s] = Nobody
           /\ leaseFile' = [leaseFile EXCEPT ![s] = {}]
           /\ acquiring' = [acquiring EXCEPT ![m] = [session |-> s, client |-> c]]
           /\ UNCHANGED held
  <2>1. [session |-> s, client |-> c] \in Lease
    BY DEF Lease
  <2>2. WTypeOK'
    BY <1>2, <1>3, <2>1 DEF WInv, WTypeOK
  <2>3. \A d \in Writers : leaseFile[s] # {d}
    BY <1>3, NobodyIsApart
  <2>4. leaseFile[s] # {}
    BY <1>3, NobodyIsApart
  <2>5. EmptyWhileAcquired'
    BY <1>3, <2>1, <2>4 DEF WInv, WTypeOK, EmptyWhileAcquired, Lease
  <2>6. HeldIsNamed'
    BY <1>3, <2>3 DEF WInv, WTypeOK, HeldIsNamed
  <2>7. WrittenIsNamed'
    BY <1>2, <1>3, <2>3 DEF WInv, WTypeOK, WrittenIsNamed, Lease
  <2> QED BY <2>2, <2>5, <2>6, <2>7 DEF WInv
<1>4. CASE MayTake(s, c) /\ Hold(m, s, c) /\ UNCHANGED <<leaseFile, acquiring>>
  <2>1. WTypeOK'
    BY <1>2, <1>4 DEF WInv, WTypeOK, Hold
  <2>2. HeldIsNamed'
    BY <1>4 DEF WInv, WTypeOK, HeldIsNamed, Hold, MayTake
  <2> QED BY <1>2, <1>4, <2>1, <2>2 DEF WInv, EmptyWhileAcquired, WrittenIsNamed
<1> QED BY <1>1, <1>3, <1>4

LEMMA WriteLeaseIsGood ==
  ASSUME WInv, WriteLease PROVE WInv'
<1>1. PICK m \in Managers :
        /\ acquiring[m] # Nobody
        /\ leaseFile' = [leaseFile EXCEPT ![acquiring[m].session] = {acquiring[m].client}]
        /\ Hold(m, acquiring[m].session, acquiring[m].client)
        /\ acquiring' = [acquiring EXCEPT ![m] = Nobody]
  BY DEF WriteLease
<1> DEFINE s == acquiring[m].session
           c == acquiring[m].client
<1>2. s \in Sessions /\ c \in Writers /\ leaseFile[s] = {}
  BY <1>1 DEF WInv, WTypeOK, EmptyWhileAcquired, Lease
<1>3. uploads' = uploads
  BY DEF WriteLease
<1>4. WTypeOK'
  BY <1>1, <1>2, <1>3 DEF WInv, WTypeOK, Hold, Named
<1>5. EmptyWhileAcquired'
  BY <1>1, <1>2 DEF WInv, WTypeOK, EmptyWhileAcquired, Lease
<1>6. HeldIsNamed'
  <2> SUFFICES ASSUME NEW n \in Managers, NEW t \in Sessions, held'[n][t] # Nobody
               PROVE  leaseFile'[t] = {held'[n][t]}
    BY DEF HeldIsNamed
  <2>1. CASE t = s
    <3>1. held[n][s] = Nobody
      BY <1>2 DEF WInv, HeldIsNamed
    <3> QED BY <1>1, <1>2, <2>1, <3>1 DEF WInv, WTypeOK, Hold
  <2>2. CASE t # s
    BY <1>1, <1>2, <2>2 DEF WInv, WTypeOK, HeldIsNamed, Hold
  <2> QED BY <2>1, <2>2
<1>7. WrittenIsNamed'
  BY <1>1, <1>2, <1>3 DEF WInv, WTypeOK, WrittenIsNamed, Lease
<1> QED BY <1>4, <1>5, <1>6, <1>7 DEF WInv

LEMMA WriteLeaseFailsIsGood ==
  ASSUME WInv, WriteLeaseFails PROVE WInv'
<1>1. PICK m \in Managers : acquiring' = [acquiring EXCEPT ![m] = Nobody]
  BY DEF WriteLeaseFails
<1>2. UNCHANGED <<held, leaseFile, uploads>>
  BY DEF WriteLeaseFails
<1>3. EmptyWhileAcquired'
  BY <1>1, <1>2 DEF WInv, WTypeOK, EmptyWhileAcquired
<1> QED BY <1>1, <1>2, <1>3 DEF WInv, WTypeOK, HeldIsNamed, WrittenIsNamed

LEMMA UploadManifestIsGood ==
  ASSUME WInv, UploadManifest PROVE WInv'
<1>1. PICK m \in Managers, s \in Sessions, c \in Writers :
        /\ held[m][s] = c
        /\ uploads' = uploads \cup {[session |-> s, client |-> c]}
  BY DEF UploadManifest
<1>2. UNCHANGED <<held, leaseFile, acquiring>>
  BY DEF UploadManifest
<1>3. leaseFile[s] = {c}
  BY <1>1, NobodyIsApart DEF WInv, HeldIsNamed
<1>4. WrittenIsNamed'
  BY <1>1, <1>2, <1>3 DEF WInv, WrittenIsNamed
<1>5. WTypeOK'
  BY <1>1, <1>2 DEF WInv, WTypeOK, Lease
<1> QED BY <1>2, <1>4, <1>5 DEF WInv, EmptyWhileAcquired, HeldIsNamed

LEMMA ManagerRestartsIsGood ==
  ASSUME WInv, ManagerRestarts PROVE WInv'
<1>1. PICK m \in Managers :
        /\ held' = [held EXCEPT ![m] = [s \in Sessions |-> Nobody]]
        /\ acquiring' = [acquiring EXCEPT ![m] = Nobody]
  BY DEF ManagerRestarts
<1>2. UNCHANGED <<leaseFile, uploads>>
  BY DEF ManagerRestarts
<1>3. WTypeOK'
  BY <1>1, <1>2 DEF WInv, WTypeOK
<1>4. EmptyWhileAcquired'
  BY <1>1, <1>2 DEF WInv, WTypeOK, EmptyWhileAcquired
<1>5. HeldIsNamed'
  BY <1>1, <1>2 DEF WInv, WTypeOK, HeldIsNamed
<1> QED BY <1>2, <1>3, <1>4, <1>5 DEF WInv, WrittenIsNamed

LEMMA WInvIsInductive ==
  ASSUME WInv, [WorkspaceNext]_workspaceVars PROVE WInv'
<1>1. CASE UNCHANGED workspaceVars
  BY <1>1 DEF workspaceVars, WInv, WTypeOK, EmptyWhileAcquired, HeldIsNamed, WrittenIsNamed
<1> QED BY <1>1, AcquireWriteLeaseIsGood, WriteLeaseIsGood, WriteLeaseFailsIsGood,
           UploadManifestIsGood, ManagerRestartsIsGood DEF WorkspaceNext

\* Only one client ever writes to the files of a session, for any managers,
\* sessions and clients: a lease file names whoever made it first, also when the
\* manager that made it stopped before it wrote the name or after.
THEOREM WorkspaceKeepsItsWriter ==
  WorkspaceSpec => []WorkspaceHasOneWriter
<1>1. WInv => WorkspaceHasOneWriter
  <2> SUFFICES ASSUME WInv, NEW u \in uploads, NEW v \in uploads, u.session = v.session
               PROVE  u.client = v.client
    BY DEF WInv, HeldIsNamed, WorkspaceHasOneWriter
  <2>1. {u.client} = {v.client}
    BY DEF WInv, WrittenIsNamed
  <2> QED BY <2>1
<1>2. WInv /\ [WorkspaceNext]_workspaceVars => WInv'
  BY WInvIsInductive
<1> QED BY <1>1, <1>2, WInvHoldsInitially, PTL DEF WorkspaceSpec

-----------------------------------------------------------------------------
(* Uploads by chunks.  An upload is published exactly when it has every    *)
(* chunk (CInv): the step that adds the last one also puts the file in     *)
(* place, or else it adds nothing.                                         *)

Upload == [chunks : SUBSET FileChunks, published : BOOLEAN]

CTypeOK ==
  /\ uploaded \in [Owners -> Upload \cup {Nothing}]
  /\ answered \in [Owners -> SUBSET FileChunks]

PublishedWithAll(o) ==
  uploaded[o] # Nothing =>
    /\ answered[o] \subseteq uploaded[o].chunks
    /\ uploaded[o].published <=> uploaded[o].chunks = FileChunks
    /\ uploaded[o].published => final

CInv == CTypeOK /\ \A o \in Owners : PublishedWithAll(o)

LEMMA CInvHoldsInitially == Chunked!ChunkInit => CInv
BY DEF Chunked!ChunkInit, CInv, CTypeOK, PublishedWithAll

LEMMA RegisterUploadIsGood ==
  ASSUME CInv, Chunked!RegisterUpload PROVE CInv'
<1>1. PICK o \in Owners :
        /\ uploaded' = [uploaded EXCEPT ![o] = Chunked!NewUpload]
        /\ answered' = [answered EXCEPT ![o] = {}]
  BY DEF Chunked!RegisterUpload
<1>2. Chunked!NewUpload \in Upload
  BY DEF Chunked!NewUpload, Upload
<1>3. CTypeOK'
  BY <1>1, <1>2 DEF CInv, CTypeOK
<1>4. ASSUME NEW p \in Owners PROVE PublishedWithAll(p)'
  <2>1. PublishedWithAll(p) /\ final' = final
    BY DEF CInv, Chunked!RegisterUpload
  <2>2. CASE p = o
    BY <1>1, <2>2, StoresAssumption DEF CInv, CTypeOK, PublishedWithAll, Chunked!NewUpload
  <2>3. CASE p # o
    BY <1>1, <2>1, <2>3 DEF CInv, CTypeOK, PublishedWithAll
  <2> QED BY <2>2, <2>3
<1> QED BY <1>3, <1>4 DEF CInv

\* A chunk is kept and acknowledged, and the file is there if it is the last one.
LEMMA StoredIsGood ==
  ASSUME CInv, NEW o \in Owners, NEW i \in FileChunks, uploaded[o] # Nothing,
         Chunked!Stored(o, i), Chunked!Acknowledge(o, i),
         Chunked!Completes(o, i) => final', final => final'
  PROVE  CInv'
<1> DEFINE e == uploaded[o]
           n == [chunks |-> e.chunks \cup {i}, published |-> e.published \/ Chunked!Completes(o, i)]
<1>1. e \in Upload
  BY DEF CInv, CTypeOK
<1>2. uploaded' = [uploaded EXCEPT ![o] = n]
  BY DEF Chunked!Stored
<1>3. answered' = [answered EXCEPT ![o] = @ \cup {i}]
  BY DEF Chunked!Acknowledge
<1>4. n \in Upload
  BY <1>1 DEF Upload, Chunked!Completes
<1>5. CTypeOK'
  BY <1>2, <1>3, <1>4 DEF CInv, CTypeOK
<1>6. ASSUME NEW p \in Owners PROVE PublishedWithAll(p)'
  <2>1. PublishedWithAll(p)
    BY DEF CInv
  <2>2. CASE p = o
    <3>1. answered[o] \subseteq e.chunks /\ (e.published <=> e.chunks = FileChunks)
          /\ (e.published => final)
      BY <2>1, <2>2 DEF PublishedWithAll
    <3>2. answered'[o] = answered[o] \cup {i} /\ uploaded'[o] = n
      BY <1>2, <1>3 DEF CInv, CTypeOK
    <3>3. n.chunks = e.chunks \cup {i}
          /\ (n.published <=> e.published \/ e.chunks \cup {i} = FileChunks)
      BY DEF Chunked!Completes
    <3>4. e.published => e.chunks \cup {i} = FileChunks
      BY <3>1
    <3>5. n.published => final'
      BY <3>1, <3>3 DEF Chunked!Completes
    <3> HIDE DEF n, e
    <3> QED BY <2>2, <3>1, <3>2, <3>3, <3>4, <3>5 DEF PublishedWithAll
  <2>3. CASE p # o
    BY <1>2, <1>3, <2>1, <2>3 DEF CInv, CTypeOK, PublishedWithAll
  <2> QED BY <2>2, <2>3
<1> QED BY <1>5, <1>6 DEF CInv

LEMMA WriteChunkIsGood ==
  ASSUME CInv, Chunked!WriteChunk PROVE CInv'
<1>1. PICK o \in Owners, i \in FileChunks :
        /\ Chunked!IsOpen(o)
        /\ IF i \in uploaded[o].chunks
           THEN /\ Chunked!Acknowledge(o, i)
                /\ UNCHANGED <<uploaded, temporary, final, storeFaults>>
           ELSE IF Chunked!Completes(o, i)
           THEN \/ /\ Chunked!Stored(o, i) /\ Chunked!Acknowledge(o, i)
                   /\ temporary' = Nothing /\ final' = TRUE
                   /\ UNCHANGED storeFaults
                \/ Chunked!PublishFails(o, i)
           ELSE /\ Chunked!Stored(o, i) /\ Chunked!Acknowledge(o, i)
                /\ UNCHANGED <<temporary, final, storeFaults>>
  BY DEF Chunked!WriteChunk
<1>2. uploaded[o] # Nothing
  BY <1>1 DEF Chunked!IsOpen
<1>3. CASE i \in uploaded[o].chunks
  <2>1. answered' = [answered EXCEPT ![o] = @ \cup {i}] /\ UNCHANGED <<uploaded, final>>
    BY <1>1, <1>3 DEF Chunked!Acknowledge
  <2>2. CTypeOK'
    BY <2>1 DEF CInv, CTypeOK
  <2>3. \A p \in Owners : PublishedWithAll(p)'
    BY <1>3, <2>1 DEF CInv, CTypeOK, PublishedWithAll
  <2> QED BY <2>2, <2>3 DEF CInv
<1>4. CASE i \notin uploaded[o].chunks /\ Chunked!PublishFails(o, i)
  <2>1. UNCHANGED <<uploaded, answered, final>>
    BY <1>4 DEF Chunked!PublishFails, Chunked!NotKept
  <2> QED BY <2>1 DEF CInv, CTypeOK, PublishedWithAll
<1>5. CASE i \notin uploaded[o].chunks /\ ~Chunked!PublishFails(o, i)
  <2>1. Chunked!Stored(o, i) /\ Chunked!Acknowledge(o, i)
        /\ (Chunked!Completes(o, i) => final') /\ (final => final')
    BY <1>1, <1>5
  <2> QED BY <1>2, <2>1, StoredIsGood
<1> QED BY <1>3, <1>4, <1>5

LEMMA CInvIsInductive ==
  ASSUME CInv, [Chunked!ChunkNext]_chunkVars PROVE CInv'
<1>1. CASE UNCHANGED chunkVars
  BY <1>1 DEF chunkVars, CInv, CTypeOK, PublishedWithAll
<1>2. CASE Chunked!Expire
  BY <1>2 DEF Chunked!Expire, CInv, CTypeOK, PublishedWithAll
<1> QED BY <1>1, <1>2, RegisterUploadIsGood, WriteChunkIsGood DEF Chunked!ChunkNext

LEMMA CInvMeansPublished == CInv => Chunked!CompleteIsPublished
<1> SUFFICES ASSUME CInv, NEW o \in Owners, uploaded[o] # Nothing
             PROVE  /\ Chunked!MissingChunks(o) = {} \/ answered[o] = FileChunks
                         => uploaded[o].published
                    /\ uploaded[o].published => final
  BY DEF Chunked!CompleteIsPublished
<1>1. uploaded[o].chunks \subseteq FileChunks
  BY DEF CInv, CTypeOK, Upload
<1>2. PublishedWithAll(o)
  BY DEF CInv
<1>3. ASSUME Chunked!MissingChunks(o) = {} \/ answered[o] = FileChunks
      PROVE  uploaded[o].chunks = FileChunks
  BY <1>1, <1>2, <1>3 DEF PublishedWithAll, Chunked!MissingChunks
<1> QED BY <1>2, <1>3 DEF PublishedWithAll

-----------------------------------------------------------------------------
(* Uploads by offset.  The file is always the first chunks of the artifact *)
(* in their order (PartialIsPrefix), the index file is never ahead of the  *)
(* memory, and an entry is published exactly when its last chunk is        *)
(* confirmed (AInv).  That is why an answer to the last chunk, also a      *)
(* repeated one, leaves a published entry in the index file.               *)

Entry == [confirmed : 0 .. Size, published : BOOLEAN]
Publisher == [at : 0 .. Size, attempts : Nat, waits : BOOLEAN,
              state : {"publishing", "failed", "published"}]

ATypeOK ==
  /\ entry \in Entry \cup {Nothing}
  /\ saved \in Entry \cup {Nothing}
  /\ publisher \in Publisher

CountsUp(s) == s \in Seq(Nat) /\ \A i \in 1 .. Len(s) : s[i] = i

PartialIsPrefix == CountsUp(partial) /\ Len(partial) <= Size

EntryIsThere(e) ==
  e # Nothing => e.confirmed <= Len(partial) /\ (e.published <=> e.confirmed = Size)

SavedIsBehind == saved # Nothing => entry # Nothing /\ saved.confirmed <= entry.confirmed

PublishedIsSaved == publisher.state = "published" => saved # Nothing /\ saved.published

DownloadIsPrefix == download # Nothing => CountsUp(download)

AInv ==
  /\ ATypeOK
  /\ PartialIsPrefix
  /\ EntryIsThere(entry)
  /\ EntryIsThere(saved)
  /\ SavedIsBehind
  /\ PublishedIsSaved
  /\ DownloadIsPrefix

LEMMA AInvHoldsInitially == Artifact!ArtifactInit => AInv
BY StoresAssumption
DEF Artifact!ArtifactInit, AInv, ATypeOK, PartialIsPrefix, CountsUp, EntryIsThere,
    SavedIsBehind, PublishedIsSaved, DownloadIsPrefix, Publisher

\* A chunk that is written where the confirmed ones end continues the file.
LEMMA WrittenContinues ==
  ASSUME AInv, NEW r \in 1 .. Size, r - 1 <= Len(partial)
  PROVE  CountsUp(Artifact!Written(r)) /\ Len(Artifact!Written(r)) = r
<1> DEFINE s == SubSeq(partial, 1, r - 1)
<1>1. partial \in Seq(Nat) /\ r \in Nat \ {0}
  BY StoresAssumption DEF AInv, PartialIsPrefix, CountsUp
<1>2. s \in Seq(Nat) /\ Len(s) = r - 1 /\ \A i \in 1 .. r - 1 : s[i] = partial[i]
  BY <1>1
<1>3. \A i \in 1 .. r - 1 : s[i] = i
  BY <1>1, <1>2 DEF AInv, PartialIsPrefix, CountsUp
<1>4. Artifact!Written(r) = Append(s, r)
  BY DEF Artifact!Written
<1> HIDE DEF s
<1>5. Append(s, r) \in Seq(Nat) /\ Len(Append(s, r)) = r
  BY <1>1, <1>2
<1>6. \A i \in 1 .. r : Append(s, r)[i] = i
  BY <1>1, <1>2, <1>3
<1> QED BY <1>4, <1>5, <1>6 DEF CountsUp

\* An answer ends an upload well only if it is to the last chunk.
LEMMA AnsweredIsGood ==
  ASSUME publisher \in Publisher, NEW r \in 0 .. Size, NEW ok \in BOOLEAN,
         Artifact!Answered(r, ok)
  PROVE  /\ publisher' \in Publisher
         /\ publisher'.state = "published" =>
              publisher.state = "published" \/ (ok /\ r = Size)
<1>1. CASE publisher' = publisher
  BY <1>1
<1>2. CASE publisher' = [publisher EXCEPT !.waits = FALSE, !.state = "failed"]
  BY <1>2 DEF Publisher
<1>3. CASE ok /\ r = Size /\ publisher' = [publisher EXCEPT !.waits = FALSE, !.state = "published"]
  BY <1>3 DEF Publisher
<1>4. CASE r # Size /\ publisher.waits
           /\ publisher' = [publisher EXCEPT !.waits = FALSE, !.attempts = 0, !.at = r + 1]
  <2>1. r + 1 \in 0 .. Size
    BY <1>4, StoresAssumption
  <2> QED BY <1>4, <2>1 DEF Publisher
<1> QED BY <1>1, <1>2, <1>3, <1>4 DEF Artifact!Answered

\* A request that ends with the saving of the index.
LEMMA PersistedIsGood ==
  ASSUME AInv, NEW r \in 0 .. Size, entry' \in Entry,
         PartialIsPrefix', EntryIsThere(entry)',
         saved # Nothing => saved.confirmed <= entry'.confirmed,
         r = Size => entry'.published,
         Artifact!Persisted(entry', r), download' = download
  PROVE  AInv'
<1>1. publisher' \in Publisher
      /\ (publisher'.state = "published" => publisher.state = "published" \/ r = Size)
  BY AnsweredIsGood DEF Artifact!Persisted, AInv, ATypeOK
<1>2. entry' # Nothing /\ entry'.confirmed <= Len(partial')
      /\ (entry'.published <=> entry'.confirmed = Size)
  BY StoresAssumption DEF EntryIsThere, Entry
<1>3. DownloadIsPrefix'
  BY DEF AInv, DownloadIsPrefix
<1>4. saved # Nothing =>
        saved \in Entry /\ (saved.published <=> saved.confirmed = Size)
  BY DEF AInv, ATypeOK, EntryIsThere
<1>5. Len(partial') \in Nat
  BY DEF PartialIsPrefix, CountsUp
<1>6. CASE saved' = entry'
  <2>1. publisher.state = "published" => entry'.confirmed >= Size
    BY <1>4 DEF AInv, PublishedIsSaved, Entry
  <2>2. publisher.state = "published" => entry'.published
    BY <1>2, <2>1, StoresAssumption DEF Entry
  <2>3. PublishedIsSaved'
    BY <1>1, <1>2, <1>6, <2>2 DEF PublishedIsSaved
  <2>4. ATypeOK' /\ EntryIsThere(saved)' /\ SavedIsBehind'
    BY <1>1, <1>2, <1>6 DEF ATypeOK, EntryIsThere, SavedIsBehind, Entry
  <2> QED BY <1>3, <2>3, <2>4 DEF AInv
<1>7. CASE saved' = saved /\ Artifact!Answered(r, FALSE)
  <2>1. publisher'.state = "published" => publisher.state = "published"
    BY <1>7, AnsweredIsGood DEF AInv, ATypeOK
  <2>2. EntryIsThere(saved)'
    BY <1>2, <1>4, <1>5, <1>7 DEF EntryIsThere, Entry
  <2>3. ATypeOK' /\ SavedIsBehind' /\ PublishedIsSaved'
    BY <1>1, <1>2, <1>7, <2>1 DEF AInv, ATypeOK, SavedIsBehind, PublishedIsSaved
  <2> QED BY <1>3, <2>2, <2>3 DEF AInv
<1> QED BY <1>6, <1>7 DEF Artifact!Persisted

\* A request that changes neither the entry nor the index, and does not succeed.
LEMMA NotServedIsGood ==
  ASSUME AInv, NEW r \in 0 .. Size, Artifact!Answered(r, FALSE),
         UNCHANGED <<entry, saved, download>>, PartialIsPrefix',
         entry # Nothing => entry.confirmed <= Len(partial')
  PROVE  AInv'
<1>1. publisher' \in Publisher
      /\ (publisher'.state = "published" => publisher.state = "published")
  BY AnsweredIsGood DEF AInv, ATypeOK
<1>2. ATypeOK' /\ SavedIsBehind' /\ PublishedIsSaved' /\ DownloadIsPrefix'
  BY <1>1 DEF AInv, ATypeOK, SavedIsBehind, PublishedIsSaved, DownloadIsPrefix
<1>3. EntryIsThere(entry)'
  BY DEF AInv, EntryIsThere
<1>4. Len(partial') \in Nat
  BY DEF PartialIsPrefix, CountsUp
<1>5. EntryIsThere(saved)'
  BY <1>4 DEF AInv, ATypeOK, EntryIsThere, SavedIsBehind, Entry
<1> QED BY <1>2, <1>3, <1>5 DEF AInv

LEMMA ServeRegisterIsGood ==
  ASSUME AInv, Artifact!ServeRegister PROVE AInv'
<1>1. /\ entry' = IF entry = Nothing THEN Artifact!Registered ELSE entry
      /\ Artifact!Persisted(entry', 0)
      /\ partial' = partial /\ download' = download
  BY DEF Artifact!ServeRegister
<1>2. Artifact!Registered \in Entry
  BY StoresAssumption DEF Artifact!Registered, Entry
<1>3. entry' \in Entry
  BY <1>1, <1>2 DEF AInv, ATypeOK
<1>4. PartialIsPrefix'
  BY <1>1 DEF AInv, PartialIsPrefix
<1>5. EntryIsThere(entry)'
  BY <1>1, StoresAssumption
  DEF AInv, EntryIsThere, Artifact!Registered, PartialIsPrefix, CountsUp
<1>6. saved # Nothing => saved.confirmed <= entry'.confirmed
  BY <1>1 DEF AInv, SavedIsBehind
<1>7. 0 \in 0 .. Size /\ 0 # Size
  BY StoresAssumption
<1> QED BY <1>1, <1>3, <1>4, <1>5, <1>6, <1>7, PersistedIsGood

\* The chunk that is due: it is written and confirmed, or its writing fails.
LEMMA DueChunkIsGood ==
  ASSUME AInv, NEW r \in 1 .. Size, entry # Nothing, r - 1 = entry.confirmed,
         Artifact!Accepted(r) \/ Artifact!WriteFails(r), download' = download
  PROVE  AInv'
<1>1. entry \in Entry /\ r - 1 <= Len(partial) /\ r \in 0 .. Size /\ ~entry.published
  BY StoresAssumption DEF AInv, ATypeOK, EntryIsThere
<1>2. CountsUp(Artifact!Written(r)) /\ Len(Artifact!Written(r)) = r
  BY <1>1, WrittenContinues
<1>3. r = Size => Artifact!Written(r) = Artifact!Whole
  <2> SUFFICES ASSUME r = Size PROVE Artifact!Written(r) = Artifact!Whole
    OBVIOUS
  <2>1. Artifact!Written(r) = [i \in 1 .. Size |-> Artifact!Written(r)[i]]
    BY <1>2 DEF CountsUp
  <2>2. \A i \in 1 .. Size : Artifact!Written(r)[i] = i
    BY <1>2 DEF CountsUp
  <2> QED BY <2>1, <2>2 DEF Artifact!Whole
<1>4. CASE Artifact!WriteFails(r)
  <2>1. /\ partial' \in {partial, Artifact!Written(r)}
        /\ UNCHANGED <<entry, saved>> /\ Artifact!Answered(r, FALSE)
    BY <1>4 DEF Artifact!WriteFails
  <2>2. PartialIsPrefix' /\ entry.confirmed <= Len(partial')
    BY <1>1, <1>2, <2>1 DEF AInv, PartialIsPrefix, Entry
  <2> QED BY <1>1, <2>1, <2>2, NotServedIsGood
<1>5. CASE Artifact!Accepted(r)
  <2>1. /\ partial' = Artifact!Written(r)
        /\ entry' = [confirmed |-> r, published |-> entry.published \/ r = Size]
        /\ Artifact!Persisted(entry', r)
    BY <1>3, <1>5 DEF Artifact!Accepted
  <2>2. entry' \in Entry /\ entry'.confirmed = r /\ (entry'.published <=> r = Size)
    BY <1>1, <2>1 DEF Entry
  <2>3. PartialIsPrefix' /\ EntryIsThere(entry)'
    BY <1>2, <2>1, <2>2 DEF PartialIsPrefix, EntryIsThere
  <2>4. saved # Nothing => saved.confirmed <= entry'.confirmed
    BY <1>1, <2>2 DEF AInv, ATypeOK, SavedIsBehind, Entry
  <2> QED BY <1>1, <2>1, <2>2, <2>3, <2>4, PersistedIsGood
<1> QED BY <1>4, <1>5

LEMMA ServeWriteIsGood ==
  ASSUME AInv, Artifact!ServeWrite PROVE AInv'
<1>1. PICK r \in 1 .. Size :
        IF entry = Nothing THEN Artifact!Refused(r)
        ELSE IF Artifact!IsReplay(r)
        THEN IF Len(partial) >= r /\ partial[r] = r
             THEN Artifact!Replayed(r) /\ UNCHANGED <<entry, partial>>
             ELSE Artifact!Refused(r)
        ELSE IF r - 1 # entry.confirmed THEN Artifact!Refused(r)
        ELSE Artifact!Accepted(r) \/ Artifact!WriteFails(r)
  BY DEF Artifact!ServeWrite
<1>2. download' = download /\ r \in 0 .. Size
  BY StoresAssumption DEF Artifact!ServeWrite
<1>3. CASE Artifact!Refused(r)
  <2>1. UNCHANGED <<entry, saved, partial>> /\ Artifact!Answered(r, FALSE)
    BY <1>3 DEF Artifact!Refused
  <2>2. PartialIsPrefix' /\ (entry # Nothing => entry.confirmed <= Len(partial'))
    BY <2>1 DEF AInv, PartialIsPrefix, EntryIsThere
  <2> QED BY <1>2, <2>1, <2>2, NotServedIsGood
<1>4. CASE entry # Nothing /\ Artifact!IsReplay(r) /\ Artifact!Replayed(r)
           /\ UNCHANGED <<entry, partial>>
  <2>1. entry' \in Entry /\ PartialIsPrefix' /\ EntryIsThere(entry)'
    BY <1>4 DEF AInv, ATypeOK, PartialIsPrefix, EntryIsThere
  <2>2. saved # Nothing => saved.confirmed <= entry'.confirmed
    BY <1>4 DEF AInv, SavedIsBehind
  <2>3. r = Size => entry'.published
    BY <1>4, StoresAssumption DEF AInv, ATypeOK, EntryIsThere, Artifact!IsReplay, Entry
  <2>4. Artifact!Persisted(entry', r)
    BY <1>4 DEF Artifact!Replayed
  <2> QED BY <1>2, <2>1, <2>2, <2>3, <2>4, PersistedIsGood
<1>5. CASE /\ entry # Nothing /\ r - 1 = entry.confirmed
           /\ Artifact!Accepted(r) \/ Artifact!WriteFails(r)
  BY <1>2, <1>5, DueChunkIsGood
<1> QED BY <1>1, <1>3, <1>4, <1>5

LEMMA AgentStepIsGood ==
  ASSUME AInv, Artifact!SendRequest \/ Artifact!RequestTimesOut PROVE AInv'
<1>1. UNCHANGED <<entry, saved, partial, download>>
  BY DEF Artifact!SendRequest, Artifact!RequestTimesOut
<1>2. publisher \in Publisher
  BY DEF AInv, ATypeOK
<1>3. ASSUME Artifact!SendRequest
      PROVE  /\ publisher' \in Publisher
             /\ publisher'.state = "published" => publisher.state = "published"
  <2>1. publisher' = [publisher EXCEPT !.waits = TRUE, !.attempts = publisher.attempts + 1]
    BY <1>3 DEF Artifact!SendRequest
  <2>2. publisher.attempts + 1 \in Nat
    BY <1>2 DEF Publisher
  <2> QED BY <1>2, <2>1, <2>2 DEF Publisher
<1>4. ASSUME Artifact!RequestTimesOut
      PROVE  /\ publisher' \in Publisher
             /\ publisher'.state = "published" => publisher.state = "published"
  BY <1>2, <1>4 DEF Artifact!RequestTimesOut, Publisher
<1>5. publisher' \in Publisher
      /\ (publisher'.state = "published" => publisher.state = "published")
  BY <1>3, <1>4
<1> QED BY <1>1, <1>5
  DEF AInv, ATypeOK, PartialIsPrefix, EntryIsThere, SavedIsBehind, PublishedIsSaved,
      DownloadIsPrefix

LEMMA ClientStepIsGood ==
  ASSUME AInv, Artifact!ArtifactInfo \/ Artifact!ArtifactRead PROVE AInv'
<1>1. UNCHANGED <<entry, saved, partial, publisher>>
  BY DEF Artifact!ArtifactInfo, Artifact!ArtifactRead
<1>2. DownloadIsPrefix'
  <2>1. CASE download' = <<>>
    BY <2>1 DEF DownloadIsPrefix, CountsUp
  <2>2. CASE /\ download # Nothing /\ Len(partial) > Len(download)
             /\ download' = Append(download, partial[Len(download) + 1])
    <3>1. CountsUp(download) /\ CountsUp(partial)
      BY <2>2 DEF AInv, DownloadIsPrefix, PartialIsPrefix
    <3>2. Len(download) + 1 \in 1 .. Len(partial)
      BY <2>2, <3>1 DEF CountsUp
    <3>3. download' = Append(download, Len(download) + 1)
      BY <2>2, <3>1, <3>2 DEF CountsUp
    <3> QED BY <3>1, <3>3 DEF DownloadIsPrefix, CountsUp
  <2>3. CASE download' = Nothing
    BY <2>3 DEF DownloadIsPrefix
  <2> QED BY <2>1, <2>2, <2>3 DEF Artifact!ArtifactInfo, Artifact!ArtifactRead
<1> QED BY <1>1, <1>2
  DEF AInv, ATypeOK, PartialIsPrefix, EntryIsThere, SavedIsBehind, PublishedIsSaved

LEMMA AInvIsInductive ==
  ASSUME AInv, [Artifact!ArtifactNext]_artifactVars PROVE AInv'
<1>1. CASE UNCHANGED artifactVars
  BY <1>1 DEF artifactVars, AInv, ATypeOK, PartialIsPrefix, EntryIsThere, SavedIsBehind,
              PublishedIsSaved, DownloadIsPrefix
<1>2. CASE Artifact!RegistryRestarts
  <2>1. entry' = saved /\ UNCHANGED <<saved, partial, publisher, download>>
    BY <1>2 DEF Artifact!RegistryRestarts
  <2> QED BY <2>1 DEF AInv, ATypeOK, PartialIsPrefix, EntryIsThere, SavedIsBehind,
                      PublishedIsSaved, DownloadIsPrefix, Entry
<1> QED BY <1>1, <1>2, ServeRegisterIsGood, ServeWriteIsGood, AgentStepIsGood,
           ClientStepIsGood DEF Artifact!ArtifactNext

LEMMA AInvMeansDurable == AInv => Artifact!PublishedIsDurable
<1> SUFFICES ASSUME AInv PROVE Artifact!PublishedIsDurable
  OBVIOUS
<1>1. ASSUME NEW e \in {entry, saved} \ {Nothing}
      PROVE  /\ e.confirmed <= Len(partial)
             /\ \A i \in 1 .. e.confirmed : partial[i] = i
             /\ e.published => partial = Artifact!Whole
  <2>1. /\ e \in Entry /\ e.confirmed <= Len(partial)
        /\ e.published <=> e.confirmed = Size
    BY DEF AInv, ATypeOK, EntryIsThere
  <2>2. CountsUp(partial) /\ Len(partial) <= Size /\ Len(partial) \in Nat
    BY DEF AInv, PartialIsPrefix, CountsUp
  <2>3. \A i \in 1 .. e.confirmed : partial[i] = i
    BY <2>1, <2>2 DEF CountsUp, Entry
  <2>4. ASSUME e.published PROVE partial = Artifact!Whole
    <3>1. Len(partial) = Size
      BY <2>1, <2>2, <2>4, StoresAssumption
    <3>2. partial = [i \in 1 .. Size |-> partial[i]]
      BY <2>2, <3>1 DEF CountsUp
    <3> QED BY <2>2, <3>1, <3>2 DEF CountsUp, Artifact!Whole
  <2> QED BY <2>1, <2>3, <2>4
<1>2. download # Nothing => \A i \in 1 .. Len(download) : download[i] = i
  BY DEF AInv, DownloadIsPrefix, CountsUp
<1> QED BY <1>1, <1>2 DEF AInv, PublishedIsSaved, Artifact!PublishedIsDurable

\* Both ways to upload an artifact publish what was sent in full and nothing else, for an
\* artifact of any size, whatever is repeated, lost or fails, and however often.
THEOREM UploadsPublishInFull ==
  Artifact!ArtifactSpec /\ Chunked!ChunkSpec => []UploadsArePublished
<1>1. Artifact!ArtifactSpec => []AInv
  <2>1. AInv /\ [Artifact!ArtifactNext]_Artifact!artifactVars => AInv'
    BY AInvIsInductive DEF Artifact!artifactVars, artifactVars
  <2> QED BY <2>1, AInvHoldsInitially, PTL DEF Artifact!ArtifactSpec
<1>2. Chunked!ChunkSpec => []CInv
  <2>1. CInv /\ [Chunked!ChunkNext]_Chunked!chunkVars => CInv'
    BY CInvIsInductive DEF Chunked!chunkVars, chunkVars
  <2> QED BY <2>1, CInvHoldsInitially, PTL DEF Chunked!ChunkSpec
<1> QED BY <1>1, <1>2, AInvMeansDurable, CInvMeansPublished, PTL DEF UploadsArePublished

-----------------------------------------------------------------------------
(* Files that are replaced as a whole.  Whatever a load can come across is *)
(* a version that was saved last or since, and the newest of what is there *)
(* (FileInv).  While the file is there, everything beside it is older; while  *)
(* it is not, a staged version is the newest, and without one the retired  *)
(* version is as good as the file was.  What keeps the retired version     *)
(* from being cleared with no staged one in place is that a save that      *)
(* finds no file can only follow one that failed, and then succeeds: with  *)
(* two failures it may not (the run file_lost).                            *)

Version == [generation : Nat \ {0}, value : Nat]
FTypeOK ==
  /\ dir \in [File!Names -> Version \cup {File!Partial, Nothing}]
  /\ \A f \in File!Names \ {"next"} : dir[f] # File!Partial
  /\ saver \in [contents : Version, step : SaveSteps] \cup {Nothing}
  /\ possible \subseteq Nat /\ written \in Nat
  /\ fileFaults \in {0, 1}

At(steps) == saver # Nothing /\ saver.step \in steps

NewerThan(c, f) == dir[f] # Nothing => dir[f].generation < c.generation
NewerThanRest(c) == NewerThan(c, "retired") /\ NewerThan(c, "previous")

\* What a load finds when neither the file nor a staged version is there.
FallsBack ==
  IF dir["retired"] = Nothing THEN dir["previous"] = Nothing /\ 0 \in possible
  ELSE dir["retired"].value \in possible /\ NewerThan(dir["retired"], "previous")

FileIsNewest ==
  dir["path"] # Nothing => dir["path"].value \in possible /\ NewerThanRest(dir["path"])

WithoutFile ==
  dir["path"] = Nothing =>
    /\ dir["next"] \in Version =>
         dir["next"].value \in possible /\ NewerThanRest(dir["next"])
    /\ fileFaults > 0 \/ saver = Nothing \/ At({"stage", "write"}) => FallsBack
    /\ fileFaults > 0 /\ ~At({"replace"}) => dir["retired"] = Nothing

SaverIsAhead ==
  saver # Nothing =>
    /\ saver.contents.value \in possible
    /\ At({"stage", "write", "clear", "retire", "replace"}) =>
         NewerThanRest(saver.contents) /\ NewerThan(saver.contents, "path")
    /\ At({"clear", "retire", "replace"}) => dir["next"] = saver.contents
    /\ At({"sync", "forget", "keep", "last sync"}) => dir["path"] = saver.contents

FileInv == FTypeOK /\ FileIsNewest /\ WithoutFile /\ SaverIsAhead

LEMMA VersionsAreApart ==
  /\ Nothing \notin Version /\ Nothing # File!Partial
  /\ File!Partial \notin Version
BY StoresAssumption DEF Version, File!Partial, File!Contents

LEMMA SavesAreApart == Nothing \notin [contents : Version, step : SaveSteps]
BY StoresAssumption DEF Version

LEMMA FileInvHoldsInitially ==
  ASSUME MaxFileFaults \in {0, 1}, File!FileInit PROVE FileInv
<1>1. File!Contents(1, 1) \in Version /\ File!Contents(1, 1).value = 1
  BY DEF File!Contents, Version
<1>2. saver = Nothing /\ fileFaults = MaxFileFaults /\ possible = {written} /\ written \in {0, 1}
  BY DEF File!FileInit
<1>3. dir = [f \in File!Names |->
               IF f = "path" /\ written = 1 THEN File!Contents(1, 1) ELSE Nothing]
  BY DEF File!FileInit
<1>4. FTypeOK
  BY <1>1, <1>2, <1>3, VersionsAreApart DEF FTypeOK
<1>5. /\ dir["next"] = Nothing /\ dir["retired"] = Nothing /\ dir["previous"] = Nothing
      /\ dir["path"] = Nothing => written = 0
      /\ dir["path"] # Nothing => dir["path"] = File!Contents(1, 1) /\ written = 1
  BY <1>1, <1>2, <1>3, VersionsAreApart DEF File!Names
<1> QED BY <1>1, <1>2, <1>4, <1>5, VersionsAreApart
        DEF FileInv, FileIsNewest, WithoutFile, SaverIsAhead, FallsBack, NewerThan,
            NewerThanRest, At

-----------------------------------------------------------------------------
(* What a load and the next save find beside the file.                     *)

LEMMA BesideIsWhole ==
  ASSUME FTypeOK
  PROVE  File!Beside(dir) = {dir["next"], dir["retired"], dir["previous"]} \cap Version
<1>1. \A f \in File!Names : File!IsWhole(dir[f]) <=> dir[f] \in Version
  BY VersionsAreApart DEF FTypeOK, File!IsWhole
<1>2. File!Names \ {"path"} = {"next", "retired", "previous"}
  BY DEF File!Names
<1>3. {dir[f] : f \in File!Names \ {"path"}} = {dir["next"], dir["retired"], dir["previous"]}
  BY <1>2
<1> QED BY <1>1, <1>3 DEF File!Beside, File!Names

LEMMA NewestIsGreatest ==
  ASSUME FTypeOK, NEW n \in File!Beside(dir),
         \A o \in File!Beside(dir) : o = n \/ o.generation < n.generation
  PROVE  File!Newest(dir) = n
<1>1. \A o \in File!Beside(dir) : o.generation \in Nat
  BY BesideIsWhole DEF Version
<1>2. \A o \in File!Beside(dir) : o.generation <= n.generation
  BY <1>1
<1>3. \A m \in File!Beside(dir) :
        (\A o \in File!Beside(dir) : o.generation <= m.generation) => m = n
  BY <1>1
<1> DEFINE IsNewest(c) == \A o \in File!Beside(dir) : o.generation <= c.generation
<1>4. File!Newest(dir) = CHOOSE c \in File!Beside(dir) : IsNewest(c)
  BY DEF File!Newest
<1>5. IsNewest(n) /\ \A m \in File!Beside(dir) : IsNewest(m) => m = n
  BY <1>2, <1>3
<1> HIDE DEF IsNewest
<1> QED BY <1>4, <1>5

\* Without the file: the staged version, or else the retired one, or else nothing.
LEMMA LoadsWithoutFile ==
  ASSUME FileInv, dir["path"] = Nothing
  PROVE  /\ dir["next"] \in Version => File!Newest(dir) = dir["next"]
         /\ dir["next"] \notin Version /\ FallsBack =>
              IF dir["retired"] = Nothing THEN File!Beside(dir) = {}
              ELSE File!Newest(dir) = dir["retired"]
<1>1. FTypeOK
  BY DEF FileInv
<1>2. /\ dir["next"] \in Version \cup {File!Partial, Nothing}
      /\ dir["retired"] \in Version \cup {Nothing}
      /\ dir["previous"] \in Version \cup {Nothing}
  BY <1>1 DEF FTypeOK, File!Names
<1>3. File!Beside(dir) = {dir["next"], dir["retired"], dir["previous"]} \cap Version
  BY <1>1, BesideIsWhole
<1>4. ASSUME dir["next"] \in Version PROVE File!Newest(dir) = dir["next"]
  <2>1. NewerThanRest(dir["next"])
    BY <1>4 DEF FileInv, WithoutFile
  <2>2. \A o \in File!Beside(dir) :
          o = dir["next"] \/ o.generation < dir["next"].generation
    BY <1>3, <2>1, VersionsAreApart DEF NewerThanRest, NewerThan
  <2> QED BY <1>1, <1>3, <1>4, <2>2, NewestIsGreatest
<1>5. ASSUME dir["next"] \notin Version, FallsBack, dir["retired"] # Nothing
      PROVE  File!Newest(dir) = dir["retired"]
  <2>1. \A o \in File!Beside(dir) :
          o = dir["retired"] \/ o.generation < dir["retired"].generation
    BY <1>3, <1>5, VersionsAreApart DEF FallsBack, NewerThan
  <2> QED BY <1>1, <1>2, <1>3, <1>5, <2>1, NewestIsGreatest
<1>6. ASSUME dir["next"] \notin Version, FallsBack, dir["retired"] = Nothing
      PROVE  File!Beside(dir) = {}
  BY <1>3, <1>6, VersionsAreApart DEF FallsBack
<1> QED BY <1>4, <1>5, <1>6

\* The generation of the next save is above every one that is there.
LEMMA GenerationIsAhead ==
  ASSUME FileInv, saver = Nothing
  PROVE  LET c == File!Contents(File!Generation(dir) + 1, written + 1)
         IN  c \in Version /\ NewerThanRest(c) /\ NewerThan(c, "path")
<1> DEFINE g == File!Generation(dir)
           c == File!Contents(g + 1, written + 1)
<1>1. /\ dir["path"] \in Version \cup {Nothing}
      /\ dir["next"] \in Version \cup {File!Partial, Nothing}
      /\ dir["retired"] \in Version \cup {Nothing}
      /\ dir["previous"] \in Version \cup {Nothing}
      /\ written \in Nat /\ FTypeOK
  BY DEF FileInv, FTypeOK, File!Names
<1>2. /\ g \in Nat
      /\ \A f \in {"path", "retired", "previous"} :
           dir[f] # Nothing => dir[f].generation <= g
  <2>1. CASE dir["path"] # Nothing
    <3>1. g = dir["path"].generation
      BY <2>1 DEF File!Generation
    <3> QED BY <1>1, <2>1, <3>1 DEF FileInv, FileIsNewest, NewerThanRest, NewerThan, Version
  <2>2. CASE dir["path"] = Nothing /\ dir["next"] \in Version
    <3>1. File!Newest(dir) = dir["next"] /\ File!Beside(dir) # {}
      BY <1>1, <2>2, LoadsWithoutFile, BesideIsWhole
    <3>2. g = dir["next"].generation
      BY <2>2, <3>1 DEF File!Generation
    <3> QED BY <1>1, <2>2, <3>2 DEF FileInv, WithoutFile, NewerThanRest, NewerThan, Version
  <2>3. CASE dir["path"] = Nothing /\ dir["next"] \notin Version
    <3>1. FallsBack
      BY <2>3 DEF FileInv, WithoutFile
    <3>2. CASE dir["retired"] = Nothing
      <4>1. g = 0
        BY <2>3, <3>1, <3>2, LoadsWithoutFile DEF File!Generation
      <4> QED BY <2>3, <3>1, <3>2, <4>1 DEF FallsBack
    <3>3. CASE dir["retired"] # Nothing
      <4>1. File!Newest(dir) = dir["retired"] /\ File!Beside(dir) # {}
        BY <1>1, <2>3, <3>1, <3>3, LoadsWithoutFile, BesideIsWhole
      <4>2. g = dir["retired"].generation
        BY <2>3, <4>1 DEF File!Generation
      <4> QED BY <1>1, <2>3, <3>1, <3>3, <4>2 DEF FallsBack, NewerThan, Version
    <3> QED BY <3>2, <3>3
  <2> QED BY <2>1, <2>2, <2>3
<1> HIDE DEF g
<1>3. c \in Version /\ c.generation = g + 1
  BY <1>1, <1>2 DEF File!Contents, Version
<1>4. \A f \in {"path", "retired", "previous"} : NewerThan(c, f)
  <2> SUFFICES ASSUME NEW f \in {"path", "retired", "previous"}, dir[f] # Nothing
               PROVE  dir[f].generation < c.generation
    BY DEF NewerThan
  <2>1. dir[f].generation \in Nat
    BY <1>1 DEF Version
  <2> QED BY <1>2, <1>3, <2>1
<1> QED BY <1>3, <1>4 DEF NewerThanRest, g

-----------------------------------------------------------------------------
(* The steps of a save.                                                    *)

LEMMA BeginSaveIsGood ==
  ASSUME FileInv, File!BeginSave PROVE FileInv'
<1> DEFINE c == File!Contents(File!Generation(dir) + 1, written + 1)
<1>1. /\ saver = Nothing /\ saver' = [contents |-> c, step |-> "stage"]
      /\ written' = written + 1 /\ possible' = possible \cup {written + 1}
      /\ UNCHANGED <<dir, fileFaults>>
  BY DEF File!BeginSave
<1>2. c \in Version /\ NewerThanRest(c) /\ NewerThan(c, "path")
  BY <1>1, GenerationIsAhead
<1>3. c.value = written + 1
  BY DEF File!Contents
<1> HIDE DEF c
<1>4. saver' \in [contents : Version, step : SaveSteps] /\ saver'.step = "stage"
      /\ saver'.contents = c /\ saver' # Nothing
  <2>1. "stage" \in SaveSteps
    BY DEF SaveSteps
  <2>2. saver' \in [contents : Version, step : SaveSteps]
    BY <1>1, <1>2, <2>1
  <2> QED BY <1>1, <2>2, SavesAreApart
<1>5. FTypeOK'
  <2>1. written' \in Nat /\ possible' \subseteq Nat
    BY <1>1 DEF FileInv, FTypeOK
  <2> QED BY <1>1, <1>4, <2>1 DEF FileInv, FTypeOK
<1>6. FileIsNewest'
  BY <1>1 DEF FileInv, FileIsNewest, NewerThanRest, NewerThan
<1>7. FallsBack => FallsBack'
  BY <1>1 DEF FallsBack, NewerThan
<1>8. WithoutFile'
  BY <1>1, <1>4, <1>7 DEF FileInv, WithoutFile, NewerThanRest, NewerThan, At
<1>9. SaverIsAhead'
  BY <1>1, <1>2, <1>3, <1>4 DEF SaverIsAhead, NewerThanRest, NewerThan, At
<1> QED BY <1>5, <1>6, <1>8, <1>9 DEF FileInv

LEMMA ThenIsNext ==
  ASSUME FileInv, NEW s \in SaveSteps, saver # Nothing, saver' = File!Then(s)
  PROVE  /\ saver' \in [contents : Version, step : SaveSteps] /\ saver' # Nothing
         /\ saver'.contents = saver.contents /\ saver'.step = s
BY SavesAreApart DEF FileInv, FTypeOK, File!Then

\* Files that are moved, and the one that is staged.
LEMMA ChangedIsTyped ==
  ASSUME FTypeOK, NEW f \in File!Names, NEW c \in Version \cup {Nothing},
         dir' = [dir EXCEPT ![f] = c]
  PROVE  /\ dir' \in [File!Names -> Version \cup {File!Partial, Nothing}]
         /\ \A g \in File!Names \ {"next"} : dir'[g] # File!Partial
         /\ dir'[f] = c /\ \A g \in File!Names \ {f} : dir'[g] = dir[g]
<1>1. dir \in [File!Names -> Version \cup {File!Partial, Nothing}]
  BY DEF FTypeOK
<1>2. dir'[f] = c /\ \A g \in File!Names \ {f} : dir'[g] = dir[g]
  BY <1>1
<1> QED BY <1>1, <1>2, VersionsAreApart DEF FTypeOK

LEMMA StageIsGood ==
  ASSUME FileInv, File!Stage PROVE FileInv'
<1>1. /\ saver # Nothing /\ saver.step = "stage" /\ saver' = File!Then("write")
      /\ dir' = [dir EXCEPT !["next"] = File!Partial]
      /\ UNCHANGED <<written, possible, fileFaults>>
  BY DEF File!Stage
<1>2. /\ saver' \in [contents : Version, step : SaveSteps] /\ saver' # Nothing
      /\ saver'.contents = saver.contents /\ saver'.step = "write"
  BY <1>1, ThenIsNext DEF SaveSteps
<1>3. /\ dir' \in [File!Names -> Version \cup {File!Partial, Nothing}]
      /\ dir'["next"] = File!Partial
      /\ \A g \in File!Names \ {"next"} : dir'[g] = dir[g]
  BY <1>1 DEF FileInv, FTypeOK, File!Names
<1>4. dir'["path"] = dir["path"] /\ dir'["retired"] = dir["retired"]
      /\ dir'["previous"] = dir["previous"]
  BY <1>3 DEF File!Names
<1>5. FTypeOK'
  BY <1>1, <1>2, <1>3 DEF FileInv, FTypeOK
<1>6. FileIsNewest' /\ (FallsBack => FallsBack')
  BY <1>1, <1>4 DEF FileInv, FileIsNewest, FallsBack, NewerThanRest, NewerThan
<1>7. WithoutFile'
  BY <1>1, <1>2, <1>3, <1>4, <1>6, VersionsAreApart DEF FileInv, WithoutFile, At
<1>8. SaverIsAhead'
  BY <1>1, <1>2, <1>4 DEF FileInv, SaverIsAhead, NewerThanRest, NewerThan, At
<1> QED BY <1>5, <1>6, <1>7, <1>8 DEF FileInv

LEMMA WriteStagedIsGood ==
  ASSUME FileInv, File!WriteStaged PROVE FileInv'
<1>1. /\ saver # Nothing /\ saver.step = "write" /\ saver' = File!Then("clear")
      /\ dir' = [dir EXCEPT !["next"] = saver.contents]
      /\ UNCHANGED <<written, possible, fileFaults>>
  BY DEF File!WriteStaged
<1>2. /\ saver' \in [contents : Version, step : SaveSteps] /\ saver' # Nothing
      /\ saver'.contents = saver.contents /\ saver'.step = "clear"
  BY <1>1, ThenIsNext DEF SaveSteps
<1>3. saver.contents \in Version
  BY <1>1 DEF FileInv, FTypeOK
<1>4. /\ dir' \in [File!Names -> Version \cup {File!Partial, Nothing}]
      /\ \A g \in File!Names \ {"next"} : dir'[g] # File!Partial
      /\ dir'["next"] = saver.contents
      /\ dir'["path"] = dir["path"] /\ dir'["retired"] = dir["retired"]
      /\ dir'["previous"] = dir["previous"]
  BY <1>1, <1>3, ChangedIsTyped DEF FileInv, File!Names
<1>5. FTypeOK'
  BY <1>1, <1>2, <1>4 DEF FileInv, FTypeOK
<1>6. FileIsNewest' /\ (FallsBack => FallsBack')
  BY <1>1, <1>4 DEF FileInv, FileIsNewest, FallsBack, NewerThanRest, NewerThan
<1>7. saver.contents.value \in possible
      /\ NewerThanRest(saver.contents) /\ NewerThan(saver.contents, "path")
  BY <1>1 DEF FileInv, SaverIsAhead, At
<1>8. NewerThanRest(saver.contents)' /\ NewerThan(saver.contents, "path")'
  BY <1>2, <1>4, <1>7 DEF NewerThanRest, NewerThan
<1>9. WithoutFile'
  BY <1>1, <1>2, <1>4, <1>6, <1>7, <1>8 DEF FileInv, WithoutFile, At, NewerThanRest, NewerThan
<1>10. SaverIsAhead'
  BY <1>1, <1>2, <1>4, <1>7, <1>8 DEF SaverIsAhead, At, NewerThanRest, NewerThan
<1> QED BY <1>5, <1>6, <1>9, <1>10 DEF FileInv

LEMMA ClearRetiredIsGood ==
  ASSUME FileInv, File!ClearRetired PROVE FileInv'
<1>1. /\ saver # Nothing /\ saver.step = "clear" /\ saver' = File!Then("retire")
      /\ dir' = [dir EXCEPT !["retired"] = Nothing]
      /\ UNCHANGED <<written, possible, fileFaults>>
  BY DEF File!ClearRetired
<1>2. /\ saver' \in [contents : Version, step : SaveSteps] /\ saver' # Nothing
      /\ saver'.contents = saver.contents /\ saver'.step = "retire"
  BY <1>1, ThenIsNext DEF SaveSteps
<1>3. /\ dir' \in [File!Names -> Version \cup {File!Partial, Nothing}]
      /\ \A g \in File!Names \ {"next"} : dir'[g] # File!Partial
      /\ dir'["retired"] = Nothing
      /\ dir'["path"] = dir["path"] /\ dir'["next"] = dir["next"]
      /\ dir'["previous"] = dir["previous"]
  BY <1>1, ChangedIsTyped DEF FileInv, File!Names
<1>4. FTypeOK'
  BY <1>1, <1>2, <1>3 DEF FileInv, FTypeOK
<1>5. FileIsNewest'
  BY <1>1, <1>3 DEF FileInv, FileIsNewest, NewerThanRest, NewerThan
<1>6. fileFaults > 0 /\ dir["path"] = Nothing => FallsBack /\ dir["retired"] = Nothing
  BY <1>1 DEF FileInv, WithoutFile, At
<1>7. fileFaults > 0 /\ dir["path"] = Nothing => FallsBack'
  BY <1>1, <1>3, <1>6 DEF FallsBack
<1>8. WithoutFile'
  BY <1>1, <1>2, <1>3, <1>7 DEF FileInv, WithoutFile, At, NewerThanRest, NewerThan
<1>9. SaverIsAhead'
  BY <1>1, <1>2, <1>3 DEF FileInv, SaverIsAhead, At, NewerThanRest, NewerThan
<1> QED BY <1>4, <1>5, <1>8, <1>9 DEF FileInv

LEMMA RetireIsGood ==
  ASSUME FileInv, File!Retire PROVE FileInv'
<1>1. /\ saver # Nothing /\ saver.step = "retire" /\ saver' = File!Then("replace")
      /\ dir' = File!Moved("path", "retired")
      /\ UNCHANGED <<written, possible, fileFaults>>
  BY DEF File!Retire
<1>2. /\ saver' \in [contents : Version, step : SaveSteps] /\ saver' # Nothing
      /\ saver'.contents = saver.contents /\ saver'.step = "replace"
  BY <1>1, ThenIsNext DEF SaveSteps
<1>3. /\ saver.contents.value \in possible /\ dir["next"] = saver.contents
      /\ NewerThanRest(saver.contents) /\ NewerThan(saver.contents, "path")
  BY <1>1 DEF FileInv, SaverIsAhead, At
<1>4. CASE dir["path"] = Nothing
  <2>1. dir' = dir
    BY <1>1, <1>4 DEF File!Moved
  <2>2. FTypeOK' /\ FileIsNewest' /\ (FallsBack => FallsBack')
    BY <1>1, <1>2, <2>1
    DEF FileInv, FTypeOK, FileIsNewest, FallsBack, NewerThanRest, NewerThan
  <2>3. WithoutFile'
    BY <1>1, <1>2, <2>1, <2>2 DEF FileInv, WithoutFile, At, NewerThanRest, NewerThan
  <2>4. SaverIsAhead'
    BY <1>1, <1>2, <1>3, <2>1 DEF SaverIsAhead, At, NewerThanRest, NewerThan
  <2> QED BY <2>2, <2>3, <2>4 DEF FileInv
<1>5. CASE dir["path"] # Nothing
  <2>1. dir' = [dir EXCEPT !["retired"] = dir["path"], !["path"] = Nothing]
    BY <1>1, <1>5 DEF File!Moved
  <2>2. dir \in [File!Names -> Version \cup {File!Partial, Nothing}]
        /\ dir["path"] \in Version
    BY <1>5 DEF FileInv, FTypeOK, File!Names
  <2>3. /\ dir'["path"] = Nothing /\ dir'["retired"] = dir["path"]
        /\ dir'["next"] = dir["next"] /\ dir'["previous"] = dir["previous"]
        /\ dir' \in [File!Names -> Version \cup {File!Partial, Nothing}]
    BY <2>1, <2>2 DEF File!Names
  <2>4. \A g \in File!Names \ {"next"} : dir'[g] # File!Partial
    BY <2>2, <2>3, VersionsAreApart DEF FileInv, FTypeOK, File!Names
  <2>5. FTypeOK'
    BY <1>1, <1>2, <2>3, <2>4 DEF FileInv, FTypeOK
  <2>6. dir["path"].value \in possible /\ NewerThan(dir["path"], "previous")
    BY <1>5 DEF FileInv, FileIsNewest, NewerThanRest
  <2>7. FallsBack'
    BY <1>1, <1>5, <2>3, <2>6 DEF FallsBack, NewerThan
  <2>8. dir["path"].generation < saver.contents.generation
        /\ NewerThan(saver.contents, "previous")
    BY <1>3, <1>5 DEF NewerThan, NewerThanRest
  <2>9. NewerThanRest(saver.contents)' /\ NewerThan(saver.contents, "path")'
    BY <1>2, <2>3, <2>8 DEF NewerThanRest, NewerThan
  <2>10. WithoutFile'
    BY <1>1, <1>2, <1>3, <2>3, <2>7, <2>9 DEF WithoutFile, At, NewerThanRest, NewerThan
  <2>11. SaverIsAhead'
    BY <1>1, <1>2, <1>3, <2>3, <2>9 DEF SaverIsAhead, At, NewerThanRest, NewerThan
  <2>12. FileIsNewest'
    BY <2>3 DEF FileIsNewest
  <2> QED BY <2>5, <2>10, <2>11, <2>12 DEF FileInv
<1> QED BY <1>4, <1>5

LEMMA ReplaceIsGood ==
  ASSUME FileInv, File!Replace PROVE FileInv'
<1>1. /\ saver # Nothing /\ saver.step = "replace" /\ saver' = File!Then("sync")
      /\ dir' = File!Moved("next", "path")
      /\ UNCHANGED <<written, possible, fileFaults>>
  BY DEF File!Replace
<1>2. /\ saver' \in [contents : Version, step : SaveSteps] /\ saver' # Nothing
      /\ saver'.contents = saver.contents /\ saver'.step = "sync"
  BY <1>1, ThenIsNext DEF SaveSteps
<1>3. /\ saver.contents.value \in possible /\ dir["next"] = saver.contents
      /\ NewerThanRest(saver.contents) /\ saver.contents \in Version
  BY <1>1 DEF FileInv, FTypeOK, SaverIsAhead, At
<1>4. dir' = [dir EXCEPT !["path"] = saver.contents, !["next"] = Nothing]
  BY <1>1, <1>3, VersionsAreApart DEF File!Moved
<1>5. /\ dir'["path"] = saver.contents /\ dir'["next"] = Nothing
      /\ dir'["retired"] = dir["retired"] /\ dir'["previous"] = dir["previous"]
      /\ dir' \in [File!Names -> Version \cup {File!Partial, Nothing}]
  BY <1>3, <1>4 DEF FileInv, FTypeOK, File!Names
<1>6. \A g \in File!Names \ {"next"} : dir'[g] # File!Partial
  BY <1>3, <1>5, VersionsAreApart DEF FileInv, FTypeOK, File!Names
<1>7. FTypeOK'
  BY <1>1, <1>2, <1>5, <1>6 DEF FileInv, FTypeOK
<1>8. FileIsNewest'
  BY <1>1, <1>3, <1>5 DEF FileIsNewest, NewerThanRest, NewerThan
<1>9. WithoutFile' /\ SaverIsAhead'
  BY <1>1, <1>2, <1>3, <1>5, VersionsAreApart DEF WithoutFile, SaverIsAhead, At
<1> QED BY <1>7, <1>8, <1>9 DEF FileInv

\* Once the new version is in place, only what is beside it may still change.
LEMMA AfterReplaceIsGood ==
  ASSUME FileInv, At({"sync", "forget", "keep", "last sync"}),
         \/ saver' = Nothing
         \/ \E s \in {"forget", "keep", "last sync"} : saver' = File!Then(s),
         FTypeOK', dir'["path"] = dir["path"], saver.contents.value \in possible',
         dir'["retired"] \in {dir["retired"], Nothing},
         dir'["previous"] \in {dir["previous"], dir["retired"], Nothing}
  PROVE  FileInv'
<1>1. dir["path"] = saver.contents /\ saver # Nothing /\ saver.contents \in Version
  BY DEF FileInv, FTypeOK, SaverIsAhead, At
<1>2. dir["path"] # Nothing /\ NewerThanRest(dir["path"])
  BY <1>1, VersionsAreApart DEF FileInv, FileIsNewest
<1>3. FileIsNewest'
  BY <1>1, <1>2 DEF FileIsNewest, NewerThanRest, NewerThan
<1>4. WithoutFile'
  BY <1>2 DEF WithoutFile
<1>5. ASSUME NEW s \in {"forget", "keep", "last sync"}, saver' = File!Then(s)
      PROVE  SaverIsAhead'
  <2>1. s \in SaveSteps
    BY DEF SaveSteps
  <2>2. saver'.contents = saver.contents /\ saver'.step = s
    BY <1>1, <1>5, <2>1, ThenIsNext
  <2> QED BY <1>1, <2>2 DEF SaverIsAhead, At
<1>6. SaverIsAhead'
  BY <1>5 DEF SaverIsAhead
<1> QED BY <1>3, <1>4, <1>6 DEF FileInv

\* The steps of a save that change neither what is written nor the failures left.
LEMMA SaverIsTyped ==
  ASSUME FileInv, saver # Nothing, NEW s \in SaveSteps,
         saver' \in {Nothing, File!Then(s)}, possible' \subseteq Nat,
         dir' \in [File!Names -> Version \cup {File!Partial, Nothing}],
         \A g \in File!Names \ {"next"} : dir'[g] # File!Partial,
         UNCHANGED <<written, fileFaults>>
  PROVE  FTypeOK'
<1>1. saver' \in [contents : Version, step : SaveSteps] \cup {Nothing}
  BY ThenIsNext
<1> QED BY <1>1 DEF FileInv, FTypeOK

LEMMA SyncIsGood ==
  ASSUME FileInv, File!SyncParent \/ File!LastSync PROVE FileInv'
<1>1. /\ At({"sync", "last sync"}) /\ saver # Nothing
      /\ UNCHANGED <<dir, written, fileFaults>>
      /\ \/ saver' = Nothing /\ possible' = {saver.contents.value}
         \/ saver' = File!Then("forget") /\ possible' = possible
  BY DEF File!SyncParent, File!LastSync, File!Acknowledged, At
<1>2. saver.contents.value \in Nat /\ saver.contents.value \in possible
  BY <1>1 DEF FileInv, FTypeOK, SaverIsAhead, Version
<1>3. possible' \subseteq Nat /\ saver.contents.value \in possible'
  BY <1>1, <1>2 DEF FileInv, FTypeOK
<1>4. "forget" \in SaveSteps
  BY DEF SaveSteps
<1>5. /\ dir' \in [File!Names -> Version \cup {File!Partial, Nothing}]
      /\ \A g \in File!Names \ {"next"} : dir'[g] # File!Partial
  BY <1>1 DEF FileInv, FTypeOK
<1>6. FTypeOK'
  BY <1>1, <1>3, <1>4, <1>5, SaverIsTyped
<1>7. At({"sync", "forget", "keep", "last sync"})
  BY <1>1 DEF At
<1> QED BY <1>1, <1>3, <1>6, <1>7, AfterReplaceIsGood

LEMMA ForgetPreviousIsGood ==
  ASSUME FileInv, File!ForgetPrevious PROVE FileInv'
<1>1. /\ saver # Nothing /\ saver.step = "forget" /\ saver' = File!Then("keep")
      /\ dir' = [dir EXCEPT !["previous"] = Nothing]
      /\ UNCHANGED <<written, possible, fileFaults>>
  BY DEF File!ForgetPrevious
<1>2. /\ dir' \in [File!Names -> Version \cup {File!Partial, Nothing}]
      /\ \A g \in File!Names \ {"next"} : dir'[g] # File!Partial
      /\ dir'["previous"] = Nothing
      /\ dir'["path"] = dir["path"] /\ dir'["retired"] = dir["retired"]
  BY <1>1, ChangedIsTyped DEF FileInv, File!Names
<1>3. possible' \subseteq Nat /\ saver.contents.value \in possible'
  BY <1>1 DEF FileInv, FTypeOK, SaverIsAhead
<1>4. "keep" \in SaveSteps
  BY DEF SaveSteps
<1>5. FTypeOK'
  BY <1>1, <1>2, <1>3, <1>4, SaverIsTyped
<1>6. At({"sync", "forget", "keep", "last sync"})
  BY <1>1 DEF At
<1> QED BY <1>1, <1>2, <1>3, <1>5, <1>6, AfterReplaceIsGood

LEMMA KeepPreviousIsGood ==
  ASSUME FileInv, File!KeepPrevious PROVE FileInv'
<1>1. /\ saver # Nothing /\ saver.step = "keep" /\ saver' = File!Then("last sync")
      /\ dir' = File!Moved("retired", "previous")
      /\ UNCHANGED <<written, possible, fileFaults>>
  BY DEF File!KeepPrevious
<1>2. /\ dir' \in [File!Names -> Version \cup {File!Partial, Nothing}]
      /\ \A g \in File!Names \ {"next"} : dir'[g] # File!Partial
      /\ dir'["path"] = dir["path"]
      /\ dir'["retired"] \in {dir["retired"], Nothing}
      /\ dir'["previous"] \in {dir["previous"], dir["retired"]}
  <2>1. CASE dir["retired"] = Nothing
    BY <1>1, <2>1 DEF FileInv, FTypeOK, File!Moved
  <2>2. CASE dir["retired"] # Nothing
    <3>1. dir' = [dir EXCEPT !["previous"] = dir["retired"], !["retired"] = Nothing]
      BY <1>1, <2>2 DEF File!Moved
    <3>2. dir \in [File!Names -> Version \cup {File!Partial, Nothing}]
          /\ dir["retired"] \in Version
      BY <2>2 DEF FileInv, FTypeOK, File!Names
    <3>3. /\ dir' \in [File!Names -> Version \cup {File!Partial, Nothing}]
          /\ dir'["path"] = dir["path"] /\ dir'["retired"] = Nothing
          /\ dir'["previous"] = dir["retired"]
      BY <3>1, <3>2 DEF File!Names
    <3>4. \A g \in File!Names \ {"next"} : dir'[g] # File!Partial
      BY <3>2, <3>3, VersionsAreApart DEF FileInv, FTypeOK, File!Names
    <3> QED BY <3>3, <3>4
  <2> QED BY <2>1, <2>2
<1>3. possible' \subseteq Nat /\ saver.contents.value \in possible'
  BY <1>1 DEF FileInv, FTypeOK, SaverIsAhead
<1>4. "last sync" \in SaveSteps
  BY DEF SaveSteps
<1>5. FTypeOK'
  BY <1>1, <1>2, <1>3, <1>4, SaverIsTyped
<1>6. At({"sync", "forget", "keep", "last sync"})
  BY <1>1 DEF At
<1> QED BY <1>1, <1>2, <1>3, <1>5, <1>6, AfterReplaceIsGood

\* The failure uses up the one there is: what a load finds then is good, and the
\* next save gets through.
LEMMA SaveEndsEarlyIsGood ==
  ASSUME FileInv, File!SaveEndsEarly PROVE FileInv'
<1>1. /\ saver # Nothing /\ fileFaults > 0 /\ saver' = Nothing /\ fileFaults' = fileFaults - 1
      /\ UNCHANGED <<dir, written, possible>>
  BY DEF File!SaveEndsEarly
<1>2. fileFaults' = 0
  BY <1>1 DEF FileInv, FTypeOK
<1>3. FTypeOK' /\ FileIsNewest' /\ (FallsBack => FallsBack')
  BY <1>1, <1>2 DEF FileInv, FTypeOK, FileIsNewest, FallsBack, NewerThanRest, NewerThan
<1>4. WithoutFile'
  BY <1>1, <1>2, <1>3 DEF FileInv, WithoutFile, NewerThanRest, NewerThan
<1>5. SaverIsAhead'
  BY <1>1 DEF SaverIsAhead
<1> QED BY <1>3, <1>4, <1>5 DEF FileInv

LEMMA FileInvIsInductive ==
  ASSUME FileInv, [File!FileNext]_fileVars PROVE FileInv'
<1>1. CASE UNCHANGED fileVars
  <2>1. UNCHANGED <<dir, saver, written, possible, fileFaults>>
    BY <1>1 DEF fileVars
  <2>2. FTypeOK' /\ FileIsNewest' /\ (FallsBack => FallsBack')
    BY <2>1 DEF FileInv, FTypeOK, FileIsNewest, FallsBack, NewerThanRest, NewerThan
  <2>3. WithoutFile' /\ SaverIsAhead'
    BY <2>1, <2>2 DEF FileInv, WithoutFile, SaverIsAhead, At, NewerThanRest, NewerThan
  <2> QED BY <2>2, <2>3 DEF FileInv
<1> QED BY <1>1, BeginSaveIsGood, StageIsGood, WriteStagedIsGood, ClearRetiredIsGood,
           RetireIsGood, ReplaceIsGood, SyncIsGood, ForgetPreviousIsGood,
           KeepPreviousIsGood, SaveEndsEarlyIsGood DEF File!FileNext

LEMMA FileInvMeansLatest == FileInv => LoadIsLatest
<1> SUFFICES ASSUME FileInv PROVE File!Loaded(dir) \in possible
  BY DEF LoadIsLatest, File!LoadIsLatest
<1>1. CASE dir["path"] # Nothing
  BY <1>1 DEF FileInv, FileIsNewest, File!Loaded
<1>2. CASE dir["path"] = Nothing /\ dir["next"] \in Version
  <2>1. File!Newest(dir) = dir["next"] /\ File!Beside(dir) # {}
    BY <1>2, LoadsWithoutFile, BesideIsWhole DEF FileInv
  <2>2. dir["next"].value \in possible
    BY <1>2 DEF FileInv, WithoutFile
  <2> QED BY <1>2, <2>1, <2>2 DEF File!Loaded
<1>3. CASE dir["path"] = Nothing /\ dir["next"] \notin Version
  <2>1. saver = Nothing \/ At({"stage", "write"})
    <3>1. saver # Nothing => saver.contents \in Version /\ saver.step \in SaveSteps
      BY DEF FileInv, FTypeOK
    <3>2. ~At({"clear", "retire", "replace"}) /\ ~At({"sync", "forget", "keep", "last sync"})
      BY <1>3, <3>1, VersionsAreApart DEF FileInv, SaverIsAhead, At
    <3> QED BY <3>1, <3>2 DEF At, SaveSteps
  <2>2. FallsBack
    BY <1>3, <2>1 DEF FileInv, WithoutFile
  <2>3. CASE dir["retired"] = Nothing
    BY <1>3, <2>2, <2>3, LoadsWithoutFile DEF FallsBack, File!Loaded
  <2>4. CASE dir["retired"] # Nothing
    <3>1. dir["retired"] \in Version
      BY <2>4 DEF FileInv, FTypeOK, File!Names
    <3>2. File!Newest(dir) = dir["retired"] /\ File!Beside(dir) # {}
      BY <1>3, <2>2, <2>4, <3>1, LoadsWithoutFile, BesideIsWhole DEF FileInv
    <3> QED BY <1>3, <2>2, <2>4, <3>2 DEF FallsBack, File!Loaded
  <2> QED BY <2>3, <2>4
<1> QED BY <1>1, <1>2, <1>3

\* A load finds what was saved last or a version whose saving began since, after any number
\* of saves, as long as no more than one step of one save fails or crashes.
THEOREM LoadsFindTheLatest ==
  ASSUME MaxFileFaults \in {0, 1}
  PROVE  File!FileSpec => []LoadIsLatest
<1>1. File!FileInit => FileInv
  BY FileInvHoldsInitially
<1>2. FileInv /\ [File!FileNext]_File!fileVars => FileInv'
  BY FileInvIsInductive DEF File!fileVars, fileVars
<1> QED BY <1>1, <1>2, FileInvMeansLatest, PTL DEF File!FileSpec
================================================================================
