----------------------------- MODULE MCDashboard -----------------------------
(***************************************************************************)
(* Three small daemons for TLC, which differ in what clients may ask for:  *)
(* the one that runs is chosen at the beginning.                           *)
(***************************************************************************)
EXTENDS Dashboard

VARIABLE scene

\* One job and one administrative request, each with an approval.
Approving ==
  INSTANCE Dashboard WITH AdminOps <- {"put"}, Managed <- {}

\* The rule that is put may be dropped again under a managed rule.
Dropping ==
  INSTANCE Dashboard WITH
    AdminOps <- {"put", "drop"}, Managed <- {"drop"}, MaxApprovals <- 1

\* Pausing, resuming, cancelling and erasing the audit log under managed rules,
\* with one approval.
Pausing ==
  INSTANCE Dashboard WITH
    AdminOps <- {"pause", "resume", "cancel", "erase"},
    Managed <- {"pause", "resume", "cancel", "erase"}, MaxApprovals <- 1, MaxAudits <- 3

ScenesInit ==
  \/ scene = "approving" /\ Approving!Init
  \/ scene = "dropping" /\ Dropping!Init
  \/ scene = "pausing" /\ Pausing!Init

ApprovingStep == scene = "approving" /\ Approving!Next /\ UNCHANGED scene
DroppingStep == scene = "dropping" /\ Dropping!Next /\ UNCHANGED scene
PausingStep == scene = "pausing" /\ Pausing!Next /\ UNCHANGED scene

ScenesSpec ==
  ScenesInit /\ [][ApprovingStep \/ DroppingStep \/ PausingStep]_<<scene, vars>>
=============================================================================
