-------------------------- MODULE ExclusiveDevice --------------------------
(***************************************************************************)
(* What device leases promise to the clients of a mesh: a device belongs to *)
(* at most one lease at a time, at most one tool changes the device, that   *)
(* tool runs under the lease it was submitted with, the lease outlives it,  *)
(* and no job's tool is ever run a second time.                             *)
(*                                                                         *)
(* `None` stands for a free device and for no tool.                         *)
(***************************************************************************)
CONSTANTS Devices, Jobs, Leases, None

VARIABLES
  holder,   \* the lease each device belongs to
  running,  \* the job whose tool is changing each device, with its lease
  ran       \* the jobs whose tool was started

exclusiveVars == <<holder, running, ran>>

Idle == [job |-> None, lease |-> None]

ExclusiveInit ==
  /\ holder = [d \in Devices |-> None]
  /\ running = [d \in Devices |-> Idle]
  /\ ran = {}

\* Idle devices change hands: granted, released, expired, promoted, detached.
Pass(S) ==
  /\ S # {}
  /\ \A d \in S : running[d] = Idle
  /\ holder' \in [Devices -> Leases \cup {None}]
  /\ \A d \in Devices \ S : holder'[d] = holder[d]
  /\ UNCHANGED <<running, ran>>

Begin(d, j) ==
  /\ running[d] = Idle
  /\ holder[d] # None
  /\ j \notin ran
  /\ running' = [running EXCEPT ![d] = [job |-> j, lease |-> holder[d]]]
  /\ ran' = ran \cup {j}
  /\ UNCHANGED holder

\* Tools end, by themselves or with the agent that ran them.
End(S) ==
  /\ S # {}
  /\ running' = [d \in Devices |-> IF d \in S THEN Idle ELSE running[d]]
  /\ UNCHANGED <<holder, ran>>

ExclusiveNext ==
  \/ \E S \in SUBSET Devices : Pass(S) \/ End(S)
  \/ \E d \in Devices, j \in Jobs : Begin(d, j)

ExclusiveSpec == ExclusiveInit /\ [][ExclusiveNext]_exclusiveVars
=============================================================================
