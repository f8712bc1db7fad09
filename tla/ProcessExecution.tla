---------------------------- MODULE ProcessExecution ----------------------------
(***************************************************************************)
(* The run of a tool and the stream of its events                          *)
(* (process_execution::run_process of src/src/lib.rs).  The tool is the    *)
(* leader of a process group; it may leave processes behind in the group,  *)
(* and one of them may leave the group.  Every process that holds the      *)
(* standard output or the standard error keeps that pipe open.  A thread   *)
(* reads each pipe into a channel; the thread that runs the tool forwards  *)
(* the channel as numbered events and watches for the exit, the timeout    *)
(* and a cancellation.                                                     *)
(***************************************************************************)
EXTENDS Naturals, Sequences, FiniteSets

CONSTANTS MaxChunks   \* bound: chunks of output, over both pipes

VARIABLES
  alive,      \* the processes that live: the leader, a child in the group, a stray outside it
  holders,    \* pipe -> the processes that hold its writing end
  pipes,      \* pipe -> chunks written and not yet read
  output,     \* pipe -> every chunk ever written, for the properties
  readers,    \* pipe -> whether its reader still reads
  channel,    \* what the readers sent and run_process did not receive: chunks, or a pipe that closed
  runner,     \* where run_process is, what it has counted and how it ended
  stream,     \* the events sent to the caller
  cancelled,  \* the token
  late        \* the timeout has passed

processVars ==
  <<alive, holders, pipes, output, readers, channel, runner, stream, cancelled, late>>

Streams == {"Stdout", "Stderr"}
Group == {"leader", "child"}
Processes == Group \cup {"stray"}

Event(s, kind, payload) == [sequence |-> Len(s) + 1, kind |-> kind, payload |-> payload]

\* group_spawn, the readers and the first event.
ProcessInit ==
  /\ alive = {"leader"} /\ holders = [p \in Streams |-> {"leader"}]
  /\ pipes = [p \in Streams |-> <<>>] /\ output = [p \in Streams |-> <<>>]
  /\ readers = [p \in Streams |-> TRUE] /\ channel = <<>>
  /\ runner = [at |-> "loop", closed |-> 0, exited |-> FALSE, terminal |-> "none"]
  /\ stream = <<Event(<<>>, "Started", 0)>>
  /\ cancelled = FALSE /\ late = FALSE

-----------------------------------------------------------------------------
(* The processes, their caller and the clock.                              *)

\* A process hands its pipes on to the one it starts; a process of the group
\* may start one that leaves it.
Fork ==
  /\ \E parent \in alive, p \in Processes \ alive :
       /\ p # "leader"
       /\ parent = "stray" => p = "stray"
       /\ alive' = alive \cup {p}
       /\ holders' = [s \in Streams |-> IF parent \in holders[s] THEN holders[s] \cup {p}
                                         ELSE holders[s]]
  /\ UNCHANGED <<pipes, output, readers, channel, runner, stream, cancelled, late>>

Written == Len(output["Stdout"]) + Len(output["Stderr"])

Write ==
  /\ Written < MaxChunks
  /\ \E s \in Streams :
       /\ holders[s] # {}
       /\ pipes' = [pipes EXCEPT ![s] = Append(@, Written + 1)]
       /\ output' = [output EXCEPT ![s] = Append(@, Written + 1)]
  /\ UNCHANGED <<alive, holders, readers, channel, runner, stream, cancelled, late>>

CloseOutput ==
  /\ \E s \in Streams : \E p \in holders[s] : holders' = [holders EXCEPT ![s] = @ \ {p}]
  /\ UNCHANGED <<alive, pipes, output, readers, channel, runner, stream, cancelled, late>>

Dead(dead) ==
  /\ alive' = alive \ dead
  /\ holders' = [s \in Streams |-> holders[s] \ dead]

Exit ==
  /\ \E p \in alive : Dead({p})
  /\ UNCHANGED <<pipes, output, readers, channel, runner, stream, cancelled, late>>

Cancel ==
  /\ ~cancelled /\ cancelled' = TRUE
  /\ UNCHANGED <<alive, holders, pipes, output, readers, channel, runner, stream, late>>

Elapse ==
  /\ ~late /\ late' = TRUE
  /\ UNCHANGED <<alive, holders, pipes, output, readers, channel, runner, stream, cancelled>>

-----------------------------------------------------------------------------
(* read_stream: until nobody holds the pipe and it is empty.               *)

ReadStream ==
  /\ \E s \in Streams :
       /\ readers[s]
       /\ \/ /\ pipes[s] # <<>>
             /\ channel' = Append(channel, [kind |-> s, payload |-> Head(pipes[s])])
             /\ pipes' = [pipes EXCEPT ![s] = Tail(@)]
             /\ UNCHANGED readers
          \/ /\ pipes[s] = <<>> /\ holders[s] = {}
             /\ channel' = Append(channel, [kind |-> "None", payload |-> 0])
             /\ readers' = [readers EXCEPT ![s] = FALSE]
             /\ UNCHANGED pipes
  /\ UNCHANGED <<alive, holders, output, runner, stream, cancelled, late>>

-----------------------------------------------------------------------------
(* run_process.                                                            *)

\* One message of the channel: try_recv in the loop, and, once the readers have
\* been joined, the rest of the channel.
Receive ==
  /\ runner.at \in {"loop", "rest"} /\ channel # <<>>
  /\ channel' = Tail(channel)
  /\ IF Head(channel).kind = "None"
     THEN runner' = [runner EXCEPT !.closed = @ + 1] /\ UNCHANGED stream
     ELSE /\ stream' = Append(stream, Event(stream, Head(channel).kind, Head(channel).payload))
          /\ UNCHANGED runner
  /\ UNCHANGED <<alive, holders, pipes, output, readers, cancelled, late>>

\* The group is killed and its leader waited for.
KillGroup(terminal) ==
  /\ Dead(Group)
  /\ runner' = [runner EXCEPT !.at = "join", !.terminal = terminal]

HasExited == runner.exited \/ "leader" \notin alive

\* An empty channel lets the loop look at the token, the clock and the leader,
\* in this order, once in five milliseconds.
Look ==
  /\ runner.at = "loop" /\ channel = <<>>
  /\ IF cancelled THEN KillGroup("Cancelled")
     ELSE IF late THEN KillGroup("TimedOut")
     ELSE /\ runner' = IF HasExited /\ runner.closed = 2
                       THEN [runner EXCEPT !.exited = TRUE, !.at = "join", !.terminal = "Exited"]
                       ELSE [runner EXCEPT !.exited = HasExited]
          /\ UNCHANGED <<alive, holders>>
  /\ UNCHANGED <<pipes, output, readers, channel, stream, cancelled, late>>

\* Both readers have ended; what they sent last is still in the channel.
JoinReaders ==
  /\ runner.at = "join" /\ \A s \in Streams : ~readers[s]
  /\ runner' = [runner EXCEPT !.at = "rest"]
  /\ UNCHANGED <<alive, holders, pipes, output, readers, channel, stream, cancelled, late>>

\* Mutant: the rest of the channel is not waited for.
CanFinishAtOnce == runner.at \in {"join", "rest"}

CanFinish == runner.at = "rest" /\ channel = <<>>

SendTerminal ==
  /\ CanFinish
  /\ stream' = Append(stream, Event(stream, runner.terminal, 0))
  /\ runner' = [runner EXCEPT !.at = "done"]
  /\ UNCHANGED <<alive, holders, pipes, output, readers, channel, cancelled, late>>

ProcessNext ==
  \/ Fork \/ Write \/ CloseOutput \/ Exit \/ Cancel \/ Elapse
  \/ ReadStream \/ Receive \/ Look \/ JoinReaders \/ SendTerminal

ProcessSpec == ProcessInit /\ [][ProcessNext]_processVars

-----------------------------------------------------------------------------
(* Properties.                                                             *)

TerminalKinds == {"Exited", "TimedOut", "Cancelled"}

\* How many of the first n elements of a stream or a channel are chunks of one pipe.
ChunksOf(s, q, n) == Cardinality({k \in 1 .. n : q[k].kind = s})

\* The caller sees a start, then the output of each pipe in order, then one end.
\* The end comes after all the output of the tool and of whatever it left behind
\* holding its pipes, also when the group was killed with output still in the
\* pipes; the tool has ended by then, and nothing of a killed group lives on.
StreamIsComplete ==
  /\ stream # <<>>
  /\ \A i \in DOMAIN stream :
       /\ stream[i].sequence = i
       /\ stream[i].kind = "Started" <=> i = 1
       /\ stream[i].kind \in TerminalKinds => i = Len(stream)
       /\ \A s \in Streams :
            stream[i].kind = s =>
              /\ ChunksOf(s, stream, i) <= Len(output[s])
              /\ stream[i].payload = output[s][ChunksOf(s, stream, i)]
  /\ stream[Len(stream)].kind \in TerminalKinds =>
       /\ \A s \in Streams : ChunksOf(s, stream, Len(stream)) = Len(output[s]) /\ holders[s] = {}
       /\ "leader" \notin alive
  /\ runner.terminal \in {"Cancelled", "TimedOut"} => alive \cap Group = {}
===============================================================================
