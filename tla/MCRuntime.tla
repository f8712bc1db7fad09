------------------------------ MODULE MCRuntime ------------------------------
(***************************************************************************)
(* The components that live in memory, each on its own: they share no      *)
(* state, and one run explores one after the other.                        *)
(***************************************************************************)
EXTENDS Feed, Supervision

CONSTANTS MaxChunks                                                  \* ProcessExecution
CONSTANTS Actors, Simulators, Phones, Backends, MaxLeases, MaxGrants \* LocalDevices
CONSTANTS Requests, Keys, Operations, MaxJobs, MaxProgress, MaxSubmits \* JobAgents
CONSTANTS Programs, Peers, MaxMade, MaxCodes, MaxBreaks               \* Identity
CONSTANTS Assertions, Consumers, MaxEntries, MaxLifetime, MaxClock,
          MaxCutOffs, MaxAttempts                                    \* ControllerSessions
CONSTANTS Tags, PageLimit, MaxRecords, MaxReads                      \* AuditPages
CONSTANTS MaxWall                                                    \* Lifecycles
CONSTANTS Registry, AgentPeers, Calls, Lifetime, MaxAhead, MaxNow    \* MeshApprovals
CONSTANTS p1, d1, Principals, Devices, Resources, HighRisk, Bundles, Puts,
          MaxRules, MaxRevision                                      \* Policy

VARIABLES
  part,  \* the component that runs
  alive, holders, pipes, output, readers, channel, runner, stream, cancelled, late,
  principals, leases, context, power, states, busy, uncertain, grants, last,
  agent, jobs, requestJobs, keyJobs, answers, reader,
  rules, bundle, savedRules, clock, running, remembered,
  certificate, privateKey, trustFiles, proc, pairs, shown, admitted, connected, breaks,
  time, issued, cache, leftover, consumer, accepted, latest, attempts, cutOffs,
  records, lastRecord, filter, page, request, walk, reads,
  wall, event, approval, daemon, refused,
  now, ahead, call, online, presented

feedVars == vars
processVars ==
  <<alive, holders, pipes, output, readers, channel, runner, stream, cancelled, late>>
deviceVars == <<principals, leases, context, power, states, busy, uncertain, grants, last>>
agentVars == <<agent, jobs, requestJobs, keyJobs, answers, reader>>
policyVars == <<rules, bundle, savedRules, clock, running, remembered>>
identityVars ==
  <<certificate, privateKey, trustFiles, proc, pairs, shown, admitted, connected, breaks>>
sessionVars ==
  <<time, issued, cache, leftover, consumer, accepted, latest, attempts, cutOffs>>
pageVars == <<records, lastRecord, filter, page, request, walk, reads>>
lifecycleVars == <<wall, event, approval, daemon, refused>>
approvalVars == <<now, ahead, call, online, presented>>

\* One managed rule or none, and what users put: everything that is known of a rule
\* but its revision.
RuleOf(id, effect, principal, device, resources, managed) ==
  [id |-> id, revision |-> 1, effect |-> effect, enabled |-> TRUE, expires |-> ~managed,
   principal |-> principal, device |-> device, deviceExact |-> FALSE, resources |-> resources,
   resourcesExact |-> resources # {}, requirePresence |-> managed, presence |-> None,
   managed |-> managed]

MCBundles == {{}, {RuleOf(1, "allow", None, d1, {"debugger"}, TRUE)}}

MCPuts ==
  {RuleOf(2, effect, principal, device, resources, FALSE) :
     effect \in {"allow", "deny"}, principal \in {None, p1}, device \in {None, d1},
     resources \in {{}, {"debugger"}}}

\* Two operations that can be run, and one without the device it needs.
MCOperations ==
  {[kind |-> kind, needsDevice |-> kind # "build", device |-> device, inWorkspace |-> TRUE,
    parametersFit |-> TRUE, namesFit |-> TRUE] :
     kind \in {"build", "test"}, device \in {None, d1}} \
  {[kind |-> "build", needsDevice |-> FALSE, device |-> d1, inWorkspace |-> TRUE,
    parametersFit |-> TRUE, namesFit |-> TRUE]}

Process == INSTANCE ProcessExecution
Device == INSTANCE LocalDevices
Agent == INSTANCE JobAgents
Rules == INSTANCE Policy WITH saved <- savedRules
Identities == INSTANCE Identity WITH made <- pairs, accepted <- connected
Sessions == INSTANCE ControllerSessions WITH clock <- time
Pages == INSTANCE AuditPages WITH last <- lastRecord
Times == INSTANCE Lifecycles WITH running <- daemon
Approvals == INSTANCE MeshApprovals

\* None is nothing that it stands in for.
ASSUME NoneAssumption ==
  /\ None \notin Nat \cup Device!AllDevices
  /\ None \notin {"Shutdown", "Booted", "Deleted", "torn", "whole"} \cup [pair : Nat, whole : BOOLEAN]
  /\ None \notin [state : {"awaiting", "queued", "running", "reconnecting"} \cup Times!EndStates,
                 occurred : Nat, started : Nat \cup {None}, finished : Nat \cup {None}]
  /\ \A sessions \in SUBSET Assertions : None \notin [sessions -> Nat]
  /\ None \notin [filter : Pages!Filters, cursor : Nat \cup {None},
                  answer : {None} \cup [ahead : BOOLEAN, next : Nat \cup {None},
                                        items : Seq([seq : Nat, tag : Tags \cup {"deletion"}])]]

\* Numbers of entries, and times.
ASSUME NatAssumption ==
  /\ {MaxEntries, MaxLifetime, Lifetime, MaxAhead, MaxRevision} \subseteq Nat
  /\ PageLimit \in Nat \ {0}   \* AuditStore::query refuses a limit of none

\* What validate_rule_set and put_user_rule accept: the managed rules of a bundle have
\* ids of their own, and users put no managed rule.
PolicyRule ==
  [id : Nat, revision : Nat, effect : {"allow", "deny"}, enabled : BOOLEAN, expires : BOOLEAN,
   principal : Principals \cup {None}, device : Devices \cup {None}, deviceExact : BOOLEAN,
   resources : SUBSET Resources, resourcesExact : BOOLEAN, requirePresence : BOOLEAN,
   presence : BOOLEAN \cup {None}, managed : BOOLEAN]

ASSUME RulesAssumption ==
  /\ Puts \subseteq {r \in PolicyRule : ~r.managed}
  /\ \A b \in Bundles :
       /\ IsFiniteSet(b) /\ b \subseteq {r \in PolicyRule : r.managed}
       /\ \A r, s \in b : r.id = s.id => r = s
  /\ None \notin Principals \cup Devices \cup BOOLEAN \cup [rules : SUBSET PolicyRule]

RuntimeInit ==
  /\ part \in {"feed", "process", "devices", "agent", "supervision", "policy",
               "identity", "sessions", "pages", "times", "approvals"}
  /\ Init
  /\ Process!ProcessInit /\ Device!DeviceInit /\ SuperviseInit
  /\ Agent!AgentInit /\ (part # "agent" => agent = "protocol")
  /\ Rules!PolicyInit /\ (part # "policy" => bundle = {})
  /\ Identities!IdentityInit /\ Sessions!SessionInit
  /\ Pages!PagesInit /\ Times!LifecycleInit
  /\ Approvals!ApprovalInit /\ (part # "approvals" => \A m \in DOMAIN ahead : ahead[m] = 0)

FeedStep ==
  /\ part = "feed" /\ Next
  /\ UNCHANGED <<part, processVars, deviceVars, agentVars, superviseVars, policyVars,
                 identityVars, sessionVars, pageVars, lifecycleVars, approvalVars>>

ProcessStep ==
  /\ part = "process" /\ Process!ProcessNext
  /\ UNCHANGED <<part, feedVars, deviceVars, agentVars, superviseVars, policyVars,
                 identityVars, sessionVars, pageVars, lifecycleVars, approvalVars>>

DeviceStep ==
  /\ part = "devices" /\ Device!DeviceNext
  /\ UNCHANGED <<part, feedVars, processVars, agentVars, superviseVars, policyVars,
                 identityVars, sessionVars, pageVars, lifecycleVars, approvalVars>>

AgentStep ==
  /\ part = "agent" /\ Agent!AgentNext
  /\ UNCHANGED <<part, feedVars, processVars, deviceVars, superviseVars, policyVars,
                 identityVars, sessionVars, pageVars, lifecycleVars, approvalVars>>

SuperviseStep ==
  /\ part = "supervision" /\ SuperviseNext
  /\ UNCHANGED <<part, feedVars, processVars, deviceVars, agentVars, policyVars,
                 identityVars, sessionVars, pageVars, lifecycleVars, approvalVars>>

PolicyStep ==
  /\ part = "policy" /\ Rules!PolicyNext
  /\ UNCHANGED <<part, feedVars, processVars, deviceVars, agentVars, superviseVars,
                 identityVars, sessionVars, pageVars, lifecycleVars, approvalVars>>

IdentityStep ==
  /\ part = "identity" /\ Identities!IdentityNext
  /\ UNCHANGED <<part, feedVars, processVars, deviceVars, agentVars, superviseVars,
                 policyVars, sessionVars, pageVars, lifecycleVars, approvalVars>>

SessionStep ==
  /\ part = "sessions" /\ Sessions!SessionNext
  /\ UNCHANGED <<part, feedVars, processVars, deviceVars, agentVars, superviseVars,
                 policyVars, identityVars, pageVars, lifecycleVars, approvalVars>>

PageStep ==
  /\ part = "pages" /\ Pages!PagesNext
  /\ UNCHANGED <<part, feedVars, processVars, deviceVars, agentVars, superviseVars,
                 policyVars, identityVars, sessionVars, lifecycleVars, approvalVars>>

TimesStep ==
  /\ part = "times" /\ Times!LifecycleNext
  /\ UNCHANGED <<part, feedVars, processVars, deviceVars, agentVars, superviseVars,
                 policyVars, identityVars, sessionVars, pageVars, approvalVars>>

ApprovalStep ==
  /\ part = "approvals" /\ Approvals!ApprovalNext
  /\ UNCHANGED <<part, feedVars, processVars, deviceVars, agentVars, superviseVars,
                 policyVars, identityVars, sessionVars, pageVars, lifecycleVars>>

RuntimeNext ==
  \/ FeedStep \/ ProcessStep \/ DeviceStep \/ AgentStep \/ SuperviseStep
  \/ PolicyStep \/ IdentityStep \/ SessionStep \/ PageStep \/ TimesStep
  \/ ApprovalStep

RuntimeSpec ==
  RuntimeInit
    /\ [][RuntimeNext]_<<part, feedVars, processVars, deviceVars, agentVars, superviseVars,
                        policyVars, identityVars, sessionVars, pageVars, lifecycleVars,
                        approvalVars>>

\* The properties of the other components, each stated in its module.
StreamIsComplete == Process!StreamIsComplete
DevicesAreExclusive == Device!DevicesAreExclusive
JobRunsOnce == Agent!JobRunsOnce
PolicyDecides == Rules!PolicyDecides
IdentityIsKept == Identities!IdentityIsKept

\* What one machine asserts and another takes is taken once, and in time.
AcceptedOnce == Sessions!AcceptedOnce /\ Approvals!TakenInTime

PagesAreComplete == Pages!PagesAreComplete
TimesAreAccepted == Times!TimesAreAccepted

Symmetry == Permutations(Local)
=============================================================================
