------------------------------- MODULE JobAgents -------------------------------
(***************************************************************************)
(* Jobs that are kept in memory under the ids of the requests that started *)
(* them, and the events a client reads behind its cursor: the three ways   *)
(* src/src/lib.rs has of it.  "protocol" is AppleAgent                     *)
(* (remote_apple_protocol), "remote" is RemoteAppleAgent                   *)
(* (remote_apple_agent), "journal" is JobJournal with its Client           *)
(* (sessions).  A run has one of them.                                     *)
(*                                                                         *)
(* A request has an id and an idempotency key, and asks for an operation.  *)
(* Two of them look at the form of what is asked for, and then for the     *)
(* workspace, the capability and the device in what is there at the time:  *)
(* what they refuse changes nothing, and what is not there is left out.    *)
(***************************************************************************)
EXTENDS Naturals, Sequences, FiniteSets, SequencesExt

CONSTANTS
  Requests, Keys,
  Operations,   \* what may be asked for: records with the fields below
  None,
  MaxJobs, MaxProgress, MaxSubmits   \* bounds

VARIABLES
  agent,        \* which of the three
  jobs,         \* the jobs, in the order of their ids
  requestJobs,  \* request id -> its job, 0 when unknown
  keyJobs,      \* idempotency key -> its job, 0 when unknown
  answers,      \* what was answered, in order, for the properties
  reader        \* a client: the job it reads and the events it has seen

agentVars == <<agent, jobs, requestJobs, keyJobs, answers, reader>>

Agents == {"protocol", "remote", "journal"}
EndKinds == {"succeeded", "failed", "cancelled"}

AgentInit ==
  /\ agent \in Agents
  /\ jobs = <<>>
  /\ requestJobs = [r \in Requests |-> 0] /\ keyJobs = [k \in Keys |-> 0]
  /\ answers = <<>> /\ reader = [job |-> 0, seen |-> <<>>]

-----------------------------------------------------------------------------
(* Submission.                                                             *)

\* validate_request_envelope: the path is inside the workspace, the operation has the
\* device it needs, and its parameters and names are such that tools can be given them.
IsWellFormed(o) ==
  /\ o.inWorkspace /\ o.parametersFit /\ o.namesFit
  /\ o.needsDevice => o.device # None

Known(r, k) ==
  IF requestJobs[r] # 0 THEN requestJobs[r]
  ELSE IF agent = "journal" THEN 0 ELSE keyJobs[k]

\* The ids name two jobs, or a job of another operation.  Only AppleAgent looks
\* at the key of a request whose id it knows, and the journal at neither.
Conflicts(r, k, o) ==
  \/ agent = "protocol" /\ 0 \notin {requestJobs[r], keyJobs[k]} /\ requestJobs[r] # keyJobs[k]
  \/ agent # "journal" /\ Known(r, k) # 0 /\ jobs[Known(r, k)].operation # o

Recorded(r, k, j) ==
  /\ requestJobs' = [requestJobs EXCEPT ![r] = j]
  /\ keyJobs' = [keyJobs EXCEPT ![k] = j]

\* Mutant: a known job is answered without its new names being kept.
KnownAgainUnrecorded(r, k) == UNCHANGED <<requestJobs, keyJobs>>

KnownAgain(r, k) ==
  IF agent = "protocol" THEN Recorded(r, k, Known(r, k))
  ELSE UNCHANGED <<requestJobs, keyJobs>>

NewJob(o) ==
  [operation |-> o, events |-> IF agent = "journal" THEN <<>> ELSE <<"accepted">>,
   running |-> TRUE, cancelled |-> FALSE]

Answer(r, k, o, j) ==
  answers' = Append(answers, [request |-> r, key |-> k, operation |-> o, job |-> j])

Submit ==
  /\ Len(answers) < MaxSubmits
  /\ \E r \in Requests, k \in Keys, o \in Operations :
       /\ agent # "journal" => IsWellFormed(o)
       /\ ~Conflicts(r, k, o)
       /\ IF Known(r, k) # 0
          THEN KnownAgain(r, k) /\ Answer(r, k, o, Known(r, k)) /\ UNCHANGED jobs
          ELSE /\ Len(jobs) < MaxJobs
               /\ jobs' = Append(jobs, NewJob(o))
               /\ Recorded(r, k, Len(jobs'))
               /\ Answer(r, k, o, Len(jobs'))
  /\ UNCHANGED <<agent, reader>>

-----------------------------------------------------------------------------
(* The thread of a job.                                                    *)

IsEnded(j) == \E i \in DOMAIN jobs[j].events : jobs[j].events[i] \in EndKinds

\* append_event: nothing is added behind a terminal event.
Appended(j, kind) ==
  IF IsEnded(j) THEN jobs[j].events ELSE Append(jobs[j].events, kind)

MakeProgress ==
  /\ \E j \in DOMAIN jobs :
       /\ jobs[j].running /\ Len(jobs[j].events) <= MaxProgress
       /\ jobs' = [jobs EXCEPT ![j].events = Appended(j, "progress")]
  /\ UNCHANGED <<agent, requestJobs, keyJobs, answers, reader>>

\* The operation returns or panics.  AppleAgent catches the panic, the other does
\* not, and its job is never ended.
EndOf(j, outcome) ==
  CASE outcome = "ok" -> Appended(j, "succeeded")
    [] outcome = "error" /\ jobs[j].cancelled -> Appended(j, "cancelled")
    [] outcome = "panic" /\ agent = "remote" -> jobs[j].events
    [] OTHER -> Appended(j, "failed")

FinishJob ==
  /\ agent # "journal"
  /\ \E j \in DOMAIN jobs, outcome \in {"ok", "error", "panic"} :
       /\ jobs[j].running
       /\ jobs' = [jobs EXCEPT ![j].running = FALSE, ![j].events = EndOf(j, outcome)]
  /\ UNCHANGED <<agent, requestJobs, keyJobs, answers, reader>>

\* RemoteAppleAgent::cancel sets the token, whatever the job does.
CancelJob ==
  /\ agent = "remote"
  /\ \E j \in DOMAIN jobs : jobs' = [jobs EXCEPT ![j].cancelled = TRUE]
  /\ UNCHANGED <<agent, requestJobs, keyJobs, answers, reader>>

-----------------------------------------------------------------------------
(* Reading.                                                                *)

\* events(job, after), resume(job, last_seen_sequence): all behind the cursor.
Behind(j, after) == SubSeq(jobs[j].events, after + 1, Len(jobs[j].events))

\* The client reads what is behind its cursor and takes some of it, in order,
\* before it disconnects.
ReadEvents ==
  /\ \E j \in DOMAIN jobs :
       /\ reader.job \in {0, j}
       /\ \E n \in 0 .. Len(Behind(j, Len(reader.seen))) :
            reader' = [job |-> j, seen |-> reader.seen \o SubSeq(Behind(j, Len(reader.seen)), 1, n)]
  /\ UNCHANGED <<agent, jobs, requestJobs, keyJobs, answers>>

AgentNext ==
  \/ Submit \/ MakeProgress \/ FinishJob \/ CancelJob \/ ReadEvents

AgentSpec == AgentInit /\ [][AgentNext]_agentVars

-----------------------------------------------------------------------------
(* Properties.                                                             *)

\* Clients use a request id with one idempotency key only.
KeysAreKept ==
  \A i, j \in DOMAIN answers :
    answers[i].request = answers[j].request => answers[i].key = answers[j].key

SameName(a, b) ==
  CASE agent = "protocol" -> a.request = b.request \/ a.key = b.key
    [] agent = "remote" -> KeysAreKept /\ a.key = b.key
    [] OTHER -> a.request = b.request

\* However a request is repeated, under its id or its key, it is answered with the
\* one job that runs the well-formed operation it asks for (RemoteAppleAgent only
\* promises it to clients that keep the key of a request, and the journal does not
\* look at the operation); the events of a job end once, with a cancellation only of a
\* cancelled job; and a reader misses and repeats none of them.
JobRunsOnce ==
  /\ \A i, j \in DOMAIN answers :
       SameName(answers[i], answers[j]) => answers[i].job = answers[j].job
  /\ agent # "journal" =>
       \A i \in DOMAIN answers :
         /\ jobs[answers[i].job].operation = answers[i].operation
         /\ IsWellFormed(answers[i].operation)
  /\ \A j \in DOMAIN jobs : \A i \in DOMAIN jobs[j].events :
       /\ jobs[j].events[i] \in EndKinds => i = Len(jobs[j].events) /\ ~jobs[j].running
       /\ jobs[j].events[i] = "cancelled" => jobs[j].cancelled
  /\ reader.job # 0 => IsPrefix(reader.seen, jobs[reader.job].events)
===============================================================================
