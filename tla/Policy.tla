--------------------------------- MODULE Policy ---------------------------------
(***************************************************************************)
(* PolicyEngine (src/src/dashboard/policy.rs): the rules that match a      *)
(* request, the one that decides it, the rules that users put, delete and  *)
(* make by deciding an approval, and the restoration of a checkpoint under *)
(* the managed rules of the start.  The approvals are in Dashboard.        *)
(*                                                                         *)
(* A request is told apart by its principal, its device, its resources and *)
(* the presence of the user; the hosts, the operation and whether the      *)
(* device is a physical one are matched as the principal is, and left out. *)
(***************************************************************************)
EXTENDS Naturals, FiniteSets, FiniteSetsExt

CONSTANTS
  Principals, Devices, None,
  Resources, HighRisk,  \* resource classes, and those that is_high_risk names
  Bundles,              \* the sets of managed rules an administrator may have signed
  Puts,                 \* the rules users put
  MaxRules,             \* MAX_POLICY_RULES
  MaxRevision           \* bound

VARIABLES
  rules,       \* the rules of the engine
  bundle,      \* the managed rules verified at the start
  saved,       \* the checkpoint, None before the first
  clock,       \* whether the rules that expire have
  running,     \* whether the service is up
  remembered   \* id -> the request whose decision made the rule, for the properties

policyVars == <<rules, bundle, saved, clock, running, remembered>>

AccessRequests ==
  [principal : Principals, device : Devices \cup {None}, resources : SUBSET Resources,
   present : BOOLEAN]

IsHighRisk(q) == q.resources \cap HighRisk # {}

-----------------------------------------------------------------------------
(* rule_matches, specificity and select_rule.                              *)

Fits(wanted, value) == wanted = None \/ wanted = value

RuleMatches(r, q) ==
  /\ r.enabled
  /\ r.expires => ~clock
  /\ Fits(r.principal, q.principal)
  /\ IF r.deviceExact THEN r.device = q.device ELSE Fits(r.device, q.device)
  /\ \/ ~r.resourcesExact /\ r.resources = {}
     \/ r.resources = q.resources
  /\ r.requirePresence => q.present
  /\ Fits(r.presence, q.present)

One(b) == IF b THEN 1 ELSE 0

Specificity(r) ==
  One(r.principal # None) + One(r.device # None \/ r.deviceExact)
    + One(r.resources # {} \/ r.resourcesExact) + One(r.requirePresence \/ r.presence # None)

\* The order of the keys (specificity, revision, id).
Before(r, s) ==
  \/ Specificity(r) < Specificity(s)
  \/ /\ Specificity(r) = Specificity(s)
     /\ (r.revision < s.revision \/ (r.revision = s.revision /\ r.id < s.id))

Effect(effect, among) == {r \in among : r.effect = effect}

SelectRule(effect, among) ==
  CHOOSE r \in Effect(effect, among) : \A s \in Effect(effect, among) \ {r} : Before(s, r)

IsManaged(r) == r.managed

Decided(kind, effect, among) ==
  [decision |-> kind, rule |-> SelectRule(effect, among).id]

Undecided == [decision |-> "ApprovalRequired", rule |-> 0]

\* PolicyEngine::evaluate.
Deciding(q, matching) ==
  IF IsHighRisk(q) THEN {r \in matching : IsManaged(r)} ELSE matching

Evaluate(q) ==
  LET matching == {r \in rules : RuleMatches(r, q)}
  IN IF Effect("deny", matching) # {} THEN Decided("Denied", "deny", matching)
     ELSE IF Effect("allow", Deciding(q, matching)) # {}
     THEN Decided("Allowed", "allow", Deciding(q, matching))
     ELSE Undecided

-----------------------------------------------------------------------------
(* The users' rules.  Every change is followed by a checkpoint.            *)

Ids(some) == {r.id : r \in some}

Revisions(some) == {r.revision : r \in some}

Change(new) ==
  /\ running
  /\ rules' = new /\ saved' = [rules |-> new]
  /\ UNCHANGED <<bundle, clock, running>>

\* remembered says nothing of a rule that is replaced or gone.
Forget(id) == remembered' = [i \in DOMAIN remembered \ {id} |-> remembered[i]]

\* put_user_rule: a newer revision replaces the rule of its id.
PutUserRule ==
  \E put \in Puts, revision \in 1 .. MaxRevision :
    LET r == [put EXCEPT !.revision = revision]
        old == {s \in rules : s.id = r.id}
    IN /\ \A s \in old : ~IsManaged(s) /\ s.revision < revision
       /\ old = {} => Cardinality(rules) < MaxRules
       /\ Change((rules \ old) \cup {r})
       /\ Forget(r.id)

DeleteUserRule ==
  \E r \in rules :
    /\ ~IsManaged(r)
    /\ Change(rules \ {r})
    /\ Forget(r.id)

\* exact_rule, of an approval that is allowed and remembered or denied and blocked.
\* Mutant: a request without a device is remembered for every device.
ExactRuleAnyDevice(q, effect, id) ==
  [id |-> id, revision |-> Max(Revisions(rules) \cup {0}) + 1, effect |-> effect, enabled |-> TRUE,
   expires |-> FALSE, principal |-> q.principal, device |-> q.device, deviceExact |-> FALSE,
   resources |-> q.resources, resourcesExact |-> TRUE, requirePresence |-> FALSE,
   presence |-> q.present, managed |-> FALSE]

ExactRule(q, effect, id) ==
  [id |-> id, revision |-> Max(Revisions(rules) \cup {0}) + 1, effect |-> effect, enabled |-> TRUE,
   expires |-> FALSE, principal |-> q.principal, device |-> q.device, deviceExact |-> TRUE,
   resources |-> q.resources, resourcesExact |-> TRUE, requirePresence |-> FALSE,
   presence |-> q.present, managed |-> FALSE]

\* The nonce gives an id that no rule has.  Approvals are asked for what is not
\* decided yet, and may be decided after other rules came.
Remember ==
  \E q \in AccessRequests, effect \in {"allow", "deny"} :
    LET id == Max(Ids(rules) \cup {0}) + 1
    IN /\ Cardinality(rules) < MaxRules
       /\ ExactRule(q, effect, id).revision <= MaxRevision
       /\ Change(rules \cup {ExactRule(q, effect, id)})
       /\ remembered' = [i \in DOMAIN remembered \cup {id} |-> IF i = id THEN q ELSE remembered[i]]

Expire ==
  /\ ~clock /\ clock' = TRUE
  /\ UNCHANGED <<rules, bundle, saved, running, remembered>>

-----------------------------------------------------------------------------
(* The start of the service: add_verified_managed_rules, restore_checkpoint.*)

PolicyInit ==
  /\ bundle \in Bundles
  /\ rules = bundle /\ saved = None
  /\ clock = FALSE /\ running = TRUE
  /\ remembered = [i \in {} |-> None]

Managed(some) == {r \in some : IsManaged(r)}

\* The service does not start when the checkpoint has other managed rules than the
\* bundle of this start.
Restart ==
  /\ \E b \in Bundles :
       /\ bundle' = b
       /\ IF saved = None
          THEN running' = TRUE /\ rules' = b
          ELSE /\ running' = (Managed(saved.rules) = b)
               /\ rules' = IF running' THEN (saved.rules \ Managed(saved.rules)) \cup b ELSE {}
  /\ UNCHANGED <<saved, clock, remembered>>

PolicyNext == PutUserRule \/ DeleteUserRule \/ Remember \/ Expire \/ Restart

PolicySpec == PolicyInit /\ [][PolicyNext]_policyVars

-----------------------------------------------------------------------------
(* Properties.                                                             *)

Applies(id, q) == \E r \in rules : r.id = id /\ RuleMatches(r, q)

\* A matching deny decides against every allow; what is of high risk is allowed by
\* managed rules alone; the rule that decides is as specific as any that agrees with
\* it; a remembered decision holds for its own request and for no other, until its
\* rule is replaced or deleted; and users never change the managed rules, nor does a
\* restart.
PolicyDecides ==
  running =>
    /\ \A q \in AccessRequests :
         LET e == Evaluate(q)
             matching == {r \in rules : RuleMatches(r, q)}
             by == {r \in rules : r.id = e.rule}
         IN /\ e.decision = "Denied" <=> \E r \in matching : r.effect = "deny"
            /\ e.decision = "Allowed" =>
                 /\ by \subseteq matching
                 /\ IsHighRisk(q) => \A r \in by : IsManaged(r)
            /\ e.decision # "ApprovalRequired" =>
                 \A r \in by, s \in matching :
                   s.effect = r.effect /\ (IsHighRisk(q) /\ r.effect = "allow" => IsManaged(s))
                     => Specificity(s) <= Specificity(r)
    /\ \A i \in DOMAIN remembered : \A q \in AccessRequests :
         Applies(i, q) <=> q = remembered[i]
    /\ Managed(rules) = bundle
    /\ Cardinality(Ids(rules)) = Cardinality(rules)
===============================================================================
