----------------------------- MODULE MeshApprovals -----------------------------
(***************************************************************************)
(* An access that is asked for over the mesh: the command line tool signs  *)
(* a claim with the identity of its machine, the registry answers it with  *)
(* an assertion that runs out, and the service on the machine of the tool  *)
(* takes the assertion, to be decided there (controller_session in         *)
(* src/src/lib.rs and its callers).  The clocks of the machines differ, a  *)
(* reply may be lost, and the tool may be slow between its steps.  A       *)
(* machine stands for its identity and for the host id of its service.     *)
(*                                                                         *)
(* The claim names the machine and the user that signed it, and what it    *)
(* asks for; of that only the target is told apart.                        *)
(***************************************************************************)
EXTENDS Naturals, FiniteSets

CONSTANTS
  Peers,        \* machines
  AgentPeers,   \* those whose identity is paired as an agent
  Calls,        \* calls of the tool
  Registry,
  Lifetime,     \* of an assertion, by the clock of the registry
  MaxAhead, MaxNow   \* bounds: how far a clock is ahead of the slowest, time

VARIABLES
  now,          \* the time of the slowest clock
  ahead,        \* how far the clock of each machine is ahead of it
  call,         \* what each call of the tool is at
  online,       \* machines that the registry shows online, with the device asked for
  presented     \* what was presented, and what became of it, for the properties

approvalVars == <<now, ahead, call, online, presented>>

Clock(m) == now + ahead[m]

Idle == [phase |-> "idle"]

ApprovalInit ==
  /\ now = 0 /\ ahead \in [Peers \cup {Registry} -> 0 .. MaxAhead]
  /\ call = [c \in Calls |-> Idle]
  /\ online = Peers /\ presented = {}

Tick ==
  /\ now < MaxNow /\ now' = now + 1
  /\ UNCHANGED <<ahead, call, online, presented>>

\* A machine goes offline or comes back.
ChangeOnline(p) ==
  /\ online' = IF p \in online THEN online \ {p} ELSE online \cup {p}
  /\ UNCHANGED <<now, ahead, call, presented>>

\* sign_mesh_access_claim on machine p.
SignClaim(c, p) ==
  /\ call[c] = Idle
  /\ \E target \in Peers :
       call' = [call EXCEPT ![c] = [phase |-> "signed", source |-> p, target |-> target]]
  /\ UNCHANGED <<now, ahead, online, presented>>

Asserted(c) ==
  [phase |-> "asserted", source |-> call[c].source, target |-> call[c].target,
   issued |-> Clock(Registry), expires |-> Clock(Registry) + Lifetime, at |-> now]

\* The registry gets the claim over a connection that is authenticated by the same
\* identity.  An agent is no controller.  The reply may be lost, or not come in time.
IssueApproval(c) ==
  /\ call[c].phase = "signed"
  /\ \/ call[c].source \notin AgentPeers /\ call' = [call EXCEPT ![c] = Asserted(c)]
     \/ call' = [call EXCEPT ![c] = [phase |-> "failed"]]
  /\ UNCHANGED <<now, ahead, online, presented>>

\* verify_mesh_approval on machine p.
Valid(a, p) == a.target = p /\ a.issued <= Clock(p) /\ Clock(p) <= a.expires

\* The service verifies, asks the registry for its machines, and records the activity:
\* to be decided, or as failed when its machine is not online.
Present(c) ==
  /\ call[c].phase = "asserted"
  /\ LET p == call[c].source
         becomes == IF ~Valid(call[c], p) THEN "refused"
                    ELSE IF p \in online THEN "asked" ELSE "offline"
     IN presented' = presented \cup
          {[source |-> p, target |-> call[c].target, age |-> now - call[c].at,
            becomes |-> becomes]}
  /\ call' = [call EXCEPT ![c] = [phase |-> "done"]]
  /\ UNCHANGED <<now, ahead, online>>

ApprovalNext ==
  \/ Tick
  \/ \E p \in Peers : ChangeOnline(p) \/ \E c \in Calls : SignClaim(c, p)
  \/ \E c \in Calls : IssueApproval(c) \/ Present(c)

ApprovalSpec == ApprovalInit /\ [][ApprovalNext]_approvalVars

-----------------------------------------------------------------------------
(* Properties.                                                             *)

\* What a service takes is for its own machine, was claimed by a controller, and is
\* older than the lifetime of its assertion by no more than the clocks differ; and
\* it refuses nothing that is for its machine and in time when its clock is that of
\* the registry.
TakenInTime ==
  \A r \in presented :
    /\ r.becomes # "refused" =>
         r.target = r.source /\ r.source \notin AgentPeers
           /\ r.age + ahead[r.source] <= Lifetime + ahead[Registry]
    /\ r.becomes = "refused" =>
         \/ r.target # r.source \/ r.age > Lifetime
         \/ ahead[r.source] # ahead[Registry]
================================================================================
