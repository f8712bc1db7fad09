------------------------------- MODULE MCMesh -------------------------------
(* Instances of Mesh for TLC. *)
EXTENDS Mesh, TLC

CONSTANTS d1, h1, h2, a1, j1

VARIABLE scene  \* which of the instances of a run this behaviour is of

MCDeviceOf == [j \in Jobs |-> d1]
MCRunHost  == [r \in Runs |-> h1]
MCHostOf   == [a \in Agents |-> IF a = a1 THEN h1 ELSE h2]

\* The agent always finds its devices, or may also miss all of them.
Steady  == [a \in Agents |-> {Devices}]
Flapping == [a \in Agents |-> {Devices, {}}]

\* No property of the runs with this view reads `granted`, and no action depends on it.
NoGrants == <<scene, up, book, bookDisk, st, stDisk, entries, hb, checked, wire, prog,
              overdue, faults, crashes, agentVars>>

JobSymmetry == Permutations(Jobs)

(***************************************************************************)
(* One job.  Either writes to the files fail, and a manifest job is there   *)
(* too, or the network loses replies and repeats requests, the device is    *)
(* found or not, and the agent crashes.                                     *)
(***************************************************************************)
Network ==
  INSTANCE Mesh WITH
    Runs <- {}, MaxFaults <- 0, MaxCrashes <- 0,
    Lossy <- TRUE, Inventories <- Flapping, MaxAgentCrashes <- 1

FilesStep == scene = "files" /\ MeshNext /\ UNCHANGED scene
NetworkStep == scene = "network" /\ Network!MeshNext /\ UNCHANGED scene

TroubleSpec ==
  /\ scene \in {"files", "network"} /\ MeshInit
  /\ [][FilesStep \/ NetworkStep]_<<scene, meshVars>>

(***************************************************************************)
(* Two jobs contend for one device: the clients only acquire and release    *)
(* leases and submit jobs, and nothing crashes.                             *)
(***************************************************************************)
ContendingClient(c) ==
  /\ \/ \E d \in Devices : AcquireLease(c, d)
     \/ \E l \in LeaseIds : ReleaseLease(c, l)
     \/ \E j \in Jobs, l \in LeaseIds :
          \/ st.job[j] = NoJob /\ checked = {} /\ AppleRunCheck(c, j, l)
          \/ AppleRunSubmit(c, j, l)
  /\ UNCHANGED agentVars

ContendNext ==
  \/ \E a \in {a1} : Heartbeat(a) \/ StartJob(a) \/ ReplyDone(a) \/ ReplyLost(a)
  \/ \E j \in Jobs : ThreadStep(j)
  \/ \E j \in Jobs : HandleStarted(j) \/ HandleTerminal(j) \/ HandleValidate(j)
  \/ HandleCommit
  \/ \E c \in Clients : ContendingClient(c)
  \/ /\ \E a \in {a1} : HeartbeatExpire(a) \/ HeartbeatDispatch(a)
     /\ UNCHANGED agentVars
  \/ \E l \in LeaseIds \ overdue : ClockMoves(l) /\ UNCHANGED agentVars

(***************************************************************************)
(* Two agents report one device; the client may also cancel its job.        *)
(***************************************************************************)
Owners ==
  INSTANCE Mesh WITH
    MaxLeases <- 1, Lossy <- FALSE, Inventories <- Flapping

OwnersClient(c) ==
  \/ \E d \in Devices : Owners!AcquireLease(c, d)
  \/ Owners!ReleaseLease(c, 1)
  \/ st.job[j1] = NoJob /\ checked = {} /\ Owners!AppleRunCheck(c, j1, 1)
  \/ Owners!AppleRunSubmit(c, j1, 1)
  \/ Owners!AppleCancel(c, j1)

OwnersNext ==
  \/ \E a \in Agents :
       Owners!Heartbeat(a) \/ Owners!ReadReply(a) \/ Owners!StartJob(a) \/ Owners!ReplyDone(a)
  \/ Owners!ThreadStep(j1)
  \/ Owners!HandleStarted(j1) \/ Owners!HandleTerminal(j1) \/ Owners!HandleValidate(j1)
  \/ Owners!HandleCommit
  \/ /\ \/ \E a \in Agents : Owners!HeartbeatExpire(a) \/ Owners!HeartbeatDispatch(a)
        \/ \E c \in Clients : OwnersClient(c)
        \/ \E l \in {1} \ overdue : Owners!ClockMoves(l)
     /\ UNCHANGED agentVars

ContendStep == scene = "contend" /\ ContendNext /\ UNCHANGED scene
OwnersStep == scene = "owners" /\ OwnersNext /\ UNCHANGED scene

DeviceSpec ==
  /\ scene \in {"contend", "owners"} /\ MeshInit
  /\ [][ContendStep \/ OwnersStep]_<<scene, meshVars>>

(***************************************************************************)
(* The same clients also cancel jobs, and the registry crashes.             *)
(***************************************************************************)
CalmNext ==
  \/ ContendNext
  \/ \E c \in Clients, j \in Jobs : Alone(AppleCancel(c, j))
  \/ \E a \in Agents : ReadReply(a)
  \/ RegistryCrash
  \/ Alone(Restart)

CalmSpec == scene = "calm" /\ MeshInit /\ [][CalmNext /\ UNCHANGED scene]_<<scene, meshVars>>
FairCalm == CalmSpec /\ Fairness

\* The runs of the whole model.
WholeSpec == scene = "whole" /\ MeshInit /\ [][MeshNext /\ UNCHANGED scene]_<<scene, meshVars>>
FairWhole == WholeSpec /\ Fairness
=============================================================================
