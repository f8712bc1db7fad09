------------------------------ MODULE MCRemote ------------------------------
(* One job and its worker for TLC. *)
EXTENDS RemoteExecution

\* Either a call to the registry is lost, or a write fails or the daemon stops.
OneKindOfTrouble == losses' = MaxLosses \/ <<faults', crashes'>> = <<MaxFaults, MaxCrashes>>

OneTroubleSpec == RemoteInit /\ [][RemoteNext /\ OneKindOfTrouble]_rvars /\ RemoteFairness
=============================================================================
