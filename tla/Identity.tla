-------------------------------- MODULE Identity --------------------------------
(***************************************************************************)
(* SecureTransport (src/src/lib.rs): the certificate and the private key   *)
(* in the files of an identity directory, made by whichever process needs  *)
(* them first; the certificates of the peers that were paired; and the     *)
(* one-time code of a pairing.  Several processes of a machine (the        *)
(* daemon, an agent, the command line tools) use one directory, without a  *)
(* lock, and any of them may stop between two calls to the file system.    *)
(*                                                                         *)
(* A peer stands for its certificate.  What a cut-off write left of a file *)
(* is "torn".  revoke is called by tests only and is left out.             *)
(***************************************************************************)
EXTENDS Naturals, FiniteSets, Sequences

CONSTANTS
  Programs, Peers, None,
  MaxMade,   \* bound: key pairs that are generated
  MaxCodes,  \* bound: pairing codes that are issued
  MaxBreaks  \* bound: processes that stop or fail while they write

VARIABLES
  certificate, privateKey,  \* the two files: None, or which pair it is of and whether it is whole
  trustFiles,               \* the file of each peer: None, "torn" or "whole"
  proc,      \* what each process is at, and what it has read
  made,      \* pairs generated so far
  shown,     \* the pairs that some process has exposed as the identity, for the properties
  admitted,  \* the peers that a code has let in, for each code issued, for the properties
  accepted,  \* the peers with which a TLS connection was made, for the properties
  breaks

identityVars ==
  <<certificate, privateKey, trustFiles, proc, made, shown, admitted, accepted, breaks>>

files == <<certificate, privateKey, trustFiles>>
history == <<shown, admitted, accepted>>

Part(n) == [pair |-> n, whole |-> FALSE]
Whole(n) == [pair |-> n, whole |-> TRUE]

Gone == [phase |-> "gone"]

IdentityInit ==
  /\ certificate = None /\ privateKey = None
  /\ trustFiles = [q \in Peers |-> None]
  /\ proc = [p \in Programs |-> Gone]
  /\ made = 0 /\ shown = {} /\ admitted = <<>> /\ accepted = {}
  /\ breaks = MaxBreaks

At(p, phase) == proc[p].phase = phase

Becomes(p, state) == proc' = [proc EXCEPT ![p] = state]

-----------------------------------------------------------------------------
(* SecureTransport::load_or_create.                                        *)

\* read_identity_file, of the certificate.
ReadCertificate(p) ==
  /\ At(p, "gone")
  /\ Becomes(p, [phase |-> "loading", certificate |-> certificate])
  /\ UNCHANGED <<files, made, history, breaks>>

\* read_identity_file, of the key: only what is there in full or not at all goes on.
ReadKey(p) ==
  /\ At(p, "loading")
  /\ LET found == proc[p].certificate
     IN IF found = None /\ privateKey = None
        THEN /\ made < MaxMade /\ made' = made + 1
             /\ Becomes(p, [phase |-> "making", pair |-> made + 1])
        ELSE /\ made' = made
             /\ Becomes(p, IF None \in {found, privateKey} THEN Gone
                           ELSE [phase |-> "checking", certificate |-> found, key |-> privateKey])
  /\ UNCHANGED <<files, history, breaks>>

\* create_identity_file opens a file that is not there yet.
\* Mutant: the file is replaced if it is there.
OpensAny(file) == TRUE

Opens(file) == file = None

CreateCertificate(p) ==
  /\ At(p, "making")
  /\ IF Opens(certificate)
     THEN /\ certificate' = Part(proc[p].pair)
          /\ Becomes(p, [proc[p] EXCEPT !.phase = "certificate"])
     ELSE Becomes(p, Gone) /\ UNCHANGED certificate
  /\ UNCHANGED <<privateKey, trustFiles, made, history, breaks>>

WriteCertificate(p) ==
  /\ At(p, "certificate")
  /\ certificate' = Whole(proc[p].pair)
  /\ Becomes(p, [proc[p] EXCEPT !.phase = "key"])
  /\ UNCHANGED <<privateKey, trustFiles, made, history, breaks>>

CreateKey(p) ==
  /\ At(p, "key")
  /\ IF Opens(privateKey)
     THEN /\ privateKey' = Part(proc[p].pair)
          /\ Becomes(p, [proc[p] EXCEPT !.phase = "secret"])
     ELSE Becomes(p, Gone) /\ UNCHANGED privateKey
  /\ UNCHANGED <<certificate, trustFiles, made, history, breaks>>

WriteKey(p) ==
  /\ At(p, "secret")
  /\ LET n == proc[p].pair
     IN /\ privateKey' = Whole(n)
        /\ Becomes(p, [phase |-> "checking", certificate |-> Whole(n), key |-> Whole(n)])
  /\ UNCHANGED <<certificate, trustFiles, made, history, breaks>>

KeysMatch(c, k) == c.whole /\ k.whole /\ c.pair = k.pair

\* The two are parsed and must belong together; then every file of the trust
\* directory is read as it is.
Expose(p) ==
  /\ At(p, "checking")
  /\ LET c == proc[p].certificate
     IN IF KeysMatch(c, proc[p].key)
        THEN /\ shown' = shown \cup {c.pair}
             /\ Becomes(p, [phase |-> "ready", pair |-> c.pair, code |-> 0,
                            trusted |-> [q \in Peers |-> trustFiles[q]]])
        ELSE Becomes(p, Gone) /\ UNCHANGED shown
  /\ UNCHANGED <<files, made, admitted, accepted, breaks>>

-----------------------------------------------------------------------------
(* Pairing.                                                                *)

\* issue_pairing_code: it takes the place of the one before.
IssuePairingCode(p) ==
  /\ At(p, "ready") /\ Len(admitted) < MaxCodes
  /\ admitted' = Append(admitted, {})
  /\ Becomes(p, [proc[p] EXCEPT !.code = Len(admitted) + 1])
  /\ UNCHANGED <<files, made, shown, accepted, breaks>>

\* accept_pairing, of the right code in time: it is spent before the peer is
\* trusted; trust begins to write the file of the peer (write_secret), which
\* empties it.  A wrong, spent or expired code changes nothing, and a certificate
\* that names no peer leaves the code spent.
Trusting(p, q, code) ==
  [phase |-> "trusting", pair |-> proc[p].pair, trusted |-> proc[p].trusted, code |-> code,
   peer |-> q]

AcceptPairing(p, q) ==
  /\ At(p, "ready") /\ proc[p].code # 0
  /\ \/ /\ admitted' = [admitted EXCEPT ![proc[p].code] = @ \cup {q}]
        /\ trustFiles' = [trustFiles EXCEPT ![q] = "torn"]
        /\ Becomes(p, Trusting(p, q, 0))
     \/ /\ Becomes(p, [proc[p] EXCEPT !.code = 0])
        /\ UNCHANGED <<admitted, trustFiles>>
  /\ UNCHANGED <<certificate, privateKey, made, shown, accepted, breaks>>

\* trust, of the other side of a pairing: the command line tools and the agent
\* trust the registry whose certificate answers the code.
Trust(p, q) ==
  /\ At(p, "ready") /\ Len(admitted) < MaxCodes
  /\ admitted' = Append(admitted, {q})
  /\ trustFiles' = [trustFiles EXCEPT ![q] = "torn"]
  /\ Becomes(p, Trusting(p, q, proc[p].code))
  /\ UNCHANGED <<certificate, privateKey, made, shown, accepted, breaks>>

\* The rest of write_secret and of trust.
Trusted(p) ==
  /\ At(p, "trusting")
  /\ LET q == proc[p].peer
     IN /\ trustFiles' = [trustFiles EXCEPT ![q] = "whole"]
        /\ Becomes(p, [phase |-> "ready", pair |-> proc[p].pair, code |-> proc[p].code,
                       trusted |-> [proc[p].trusted EXCEPT ![q] = "whole"]])
  /\ UNCHANGED <<certificate, privateKey, made, history, breaks>>

-----------------------------------------------------------------------------
(* Connections.                                                            *)

\* roots: one certificate that cannot be read is an error.
Roots(trusted) == IF "torn" \in {trusted[q] : q \in Peers} THEN {}
                  ELSE {q \in Peers : trusted[q] # None}

\* connect_tls and accept_tls, and authorize_peer after the handshake.
MakeConnection(p, q) ==
  /\ At(p, "ready") /\ q \in Roots(proc[p].trusted)
  /\ accepted' = accepted \cup {q}
  /\ UNCHANGED <<files, proc, made, shown, admitted, breaks>>

-----------------------------------------------------------------------------

\* A process ends when it likes, and may be cut off, or its write may fail, at any
\* time: the files stay as they are.
Leave(p) ==
  /\ ~At(p, "gone")
  /\ IF At(p, "ready") THEN UNCHANGED breaks ELSE breaks > 0 /\ breaks' = breaks - 1
  /\ Becomes(p, Gone)
  /\ UNCHANGED <<files, made, history>>

IdentityNext ==
  \E p \in Programs :
    \/ ReadCertificate(p) \/ ReadKey(p) \/ CreateCertificate(p) \/ WriteCertificate(p)
    \/ CreateKey(p) \/ WriteKey(p) \/ Expose(p) \/ IssuePairingCode(p) \/ Trusted(p) \/ Leave(p)
    \/ \E q \in Peers : AcceptPairing(p, q) \/ Trust(p, q) \/ MakeConnection(p, q)

IdentitySpec == IdentityInit /\ [][IdentityNext]_identityVars

-----------------------------------------------------------------------------
(* Properties.                                                             *)

Admitted == UNION {admitted[i] : i \in DOMAIN admitted}

\* lib.rs:1585 "Initial identity writes must never replace a credential, including
\* when a competing creator wins after the absence check": a directory has one
\* identity for ever, whoever makes it and whoever is cut off; the processes that
\* use it all show the one that is on disk.  A code lets one peer in, and only
\* peers that were let in are trusted or connected to.
IdentityIsKept ==
  /\ Cardinality(shown) <= 1
  /\ \A p \in Programs : proc[p].phase \in {"ready", "trusting"} =>
       certificate = Whole(proc[p].pair) /\ privateKey = Whole(proc[p].pair)
  /\ \A i \in DOMAIN admitted : Cardinality(admitted[i]) <= 1
  /\ accepted \subseteq Admitted
=================================================================================
