------------------------------ MODULE LocalDevices ------------------------------
(***************************************************************************)
(* Devices as a program that embeds the library uses them: leases and      *)
(* grants (authorization::PolicyEngine of src/src/lib.rs), the contexts    *)
(* through which the adapters ask for them (device_adapter), the adapter   *)
(* of any backend, the simulators (apple_simulator) and the phones         *)
(* (apple_physical_device).                                                *)
(*                                                                         *)
(* A context borrows the engine, so there is one at a time, and a lease    *)
(* taken through it is known by that context alone; the embedding program  *)
(* may also take leases from the engine itself.  A capability is one of    *)
(* three, for the operations that are told apart here.  What is installed, *)
(* launched or logged, and the operations that only read (discovery, the   *)
(* details of a phone, released logs), change nothing here.                *)
(***************************************************************************)
EXTENDS Naturals, Sequences, FiniteSets, SequencesExt

CONSTANTS
  Actors, Simulators, Phones, Backends, None,
  MaxLeases, MaxGrants   \* bounds

VARIABLES
  principals,  \* actor -> role and capabilities; everything granted before the run
  leases,      \* the leases of the engine, in the order of their ids
  context,     \* the context in use, None between two
  power,       \* simulator -> what it really is
  states,      \* simulator -> what the adapter last made of it
  busy,        \* the phones whose entry in the phone adapter's own map has not run out
  uncertain,   \* simulators on which a tool failed: it may have done its work or not
  grants,      \* grants still to come
  last         \* the last operation on a device, for the properties

deviceVars == <<principals, leases, context, power, states, busy, uncertain, grants, last>>

AllDevices == Simulators \cup Phones \cup Backends
Capabilities == {"device.lease", "operate", "logs"}
Roles == {"Operator", "Observer"}

DeviceInit ==
  /\ principals = [a \in Actors |-> [role |-> "Operator", capabilities |-> Capabilities]]
  /\ leases = <<>> /\ context = None
  /\ power = [s \in Simulators |-> "Shutdown"]
  /\ states = [s \in Simulators |-> None]
  /\ busy = {} /\ uncertain = {}
  /\ grants = MaxGrants /\ last = None

-----------------------------------------------------------------------------
(* The engine.                                                             *)

\* PolicyEngine::grant gives the role along with the capability.
Grant ==
  /\ context = None /\ grants > 0 /\ grants' = grants - 1
  /\ \E a \in Actors, role \in Roles, c \in Capabilities :
       principals' = [principals EXCEPT ![a] = [role |-> role, capabilities |-> @.capabilities \cup {c}]]
  /\ UNCHANGED <<leases, context, power, states, busy, uncertain, last>>

IsActive(l) == leases[l].state = "active"

IsLeased(d) == \E l \in DOMAIN leases : leases[l].device = d /\ IsActive(l)

\* What execute asks before it calls the adapter; device None for an operation
\* that names no device.
RoleAllows(actor, capability) ==
  principals[actor].role = "Observer" => capability = "logs"

\* Mutant of HoldsLease: whoever holds it.
SomeoneHoldsLease(actor, d, l) ==
  l \in DOMAIN leases /\ IsActive(l) /\ leases[l].device = d

HoldsLease(actor, d, l) ==
  /\ l \in DOMAIN leases /\ IsActive(l)
  /\ leases[l].device = d /\ leases[l].holder = actor

May(actor, capability, d, l) ==
  /\ capability \in principals[actor].capabilities
  /\ RoleAllows(actor, capability)
  /\ d # None => HoldsLease(actor, d, l)

\* PolicyEngine::acquire_lease.
CanAcquire(actor, d) ==
  /\ Len(leases) < MaxLeases
  /\ principals[actor].role = "Operator"
  /\ ~IsLeased(d)

Acquired(actor, d, direct) ==
  Append(leases, [device |-> d, holder |-> actor, state |-> "active", direct |-> direct])

TakeLease ==
  /\ context = None
  /\ \E a \in Actors, d \in AllDevices :
       CanAcquire(a, d) /\ leases' = Acquired(a, d, TRUE)
  /\ UNCHANGED <<principals, context, power, states, busy, uncertain, grants, last>>

\* Only the program that took a lease knows its id.
RevokeLease ==
  /\ context = None
  /\ \E l \in DOMAIN leases :
       leases[l].direct /\ leases' = [leases EXCEPT ![l].state = "over"]
  /\ UNCHANGED <<principals, context, power, states, busy, uncertain, grants, last>>

LeaseRunsOut ==
  /\ \E l \in DOMAIN leases :
       IsActive(l) /\ leases' = [leases EXCEPT ![l].state = "over"]
  /\ UNCHANGED <<principals, context, power, states, busy, uncertain, grants, last>>

-----------------------------------------------------------------------------
(* Contexts.                                                               *)

OpenContext ==
  /\ context = None
  /\ \E a \in Actors : context' = [actor |-> a, lease |-> 0]
  /\ UNCHANGED <<principals, leases, power, states, busy, uncertain, grants, last>>

\* The lease is not given back with the context.
CloseContext ==
  /\ context # None /\ context' = None
  /\ UNCHANGED <<principals, leases, power, states, busy, uncertain, grants, last>>

\* AdapterContext::acquire_lease: the context forgets the lease it had.
LeaseDevice ==
  /\ context # None /\ May(context.actor, "device.lease", None, 0)
  /\ \E d \in AllDevices :
       /\ d \notin busy
       /\ CanAcquire(context.actor, d)
       /\ leases' = Acquired(context.actor, d, FALSE)
       /\ context' = [context EXCEPT !.lease = Len(leases')]
       /\ busy' = busy \cup ({d} \cap Phones)
  /\ UNCHANGED <<principals, power, states, uncertain, grants, last>>

\* The entry of the phone adapter runs out right after the lease it was made for.
PhoneEntryRunsOut ==
  /\ \E d \in busy :
       /\ \A l \in DOMAIN leases : leases[l].device = d /\ ~leases[l].direct => ~IsActive(l)
       /\ busy' = busy \ {d}
  /\ UNCHANGED <<principals, leases, context, power, states, uncertain, grants, last>>

-----------------------------------------------------------------------------
(* Operations on devices.                                                  *)

Holder(d) ==
  IF IsLeased(d)
  THEN leases[CHOOSE l \in DOMAIN leases : leases[l].device = d /\ IsActive(l)].holder
  ELSE None

Touched(d, actor) == [device |-> d, actor |-> actor, holder |-> Holder(d), ran |-> TRUE]

\* An operation through the engine itself (PolicyEngine::execute), with an id
\* that the program knows.
ExecuteDirectly ==
  /\ context = None
  /\ \E a \in Actors, d \in AllDevices, l \in DOMAIN leases :
       /\ leases[l].direct /\ May(a, "operate", d, l)
       /\ last' = Touched(d, a)
  /\ UNCHANGED <<principals, leases, context, power, states, busy, uncertain, grants>>

\* AuthorizedAdapter and ApplePhysicalDevice::execute; whether the tool fails
\* makes no difference here.
OperateDevice ==
  /\ context # None
  /\ \E d \in Phones \cup Backends :
       May(context.actor, "operate", d, context.lease) /\ last' = Touched(d, context.actor)
  /\ UNCHANGED <<principals, leases, context, power, states, busy, uncertain, grants>>

\* What a successful tool makes of a simulator, and what the adapter notes.
Lifecycle == {"Boot", "BootStatus", "Shutdown", "Delete"}

After(op) ==
  CASE op \in {"Boot", "BootStatus"} -> "Booted"
    [] op = "Shutdown" -> "Shutdown"
    [] op = "Delete" -> "Deleted"
    [] OTHER -> "Unchanged"

\* External: what simctl can do.
CanRun(op, s) ==
  CASE op = "Boot" -> power[s] = "Shutdown"
    [] op = "Shutdown" -> power[s] = "Booted"
    [] op \in {"BootStatus", "Delete"} -> power[s] # "Deleted"
    [] OTHER -> TRUE

Ran(op, s) ==
  IF op \in Lifecycle THEN [power EXCEPT ![s] = After(op)] ELSE power

\* Answered from what the adapter notes, without the tool.
IsDone(op, s) == op \in {"Boot", "Shutdown", "Delete"} /\ states[s] = After(op)

\* AppleSimulator::execute.
OperateSimulator ==
  /\ context # None
  /\ \E s \in Simulators, op \in Lifecycle \cup {"Other"} :
       /\ May(context.actor, "operate", s, context.lease)
       /\ IF IsDone(op, s)
          THEN /\ last' = [device |-> s, ran |-> FALSE, wanted |-> After(op), found |-> power[s],
                           certain |-> s \notin uncertain]
               /\ UNCHANGED <<power, states, uncertain>>
          ELSE /\ last' = Touched(s, context.actor)
               /\ \/ /\ CanRun(op, s)
                     /\ power' = Ran(op, s)
                     /\ states' = [states EXCEPT ![s] = After(op)]
                     /\ UNCHANGED uncertain
                  \/ /\ power' \in {power} \cup (IF CanRun(op, s) THEN {Ran(op, s)} ELSE {})
                     /\ uncertain' = uncertain \cup {s}
                     /\ UNCHANGED states
  /\ UNCHANGED <<principals, leases, context, busy, grants>>

DeviceNext ==
  \/ Grant \/ TakeLease \/ RevokeLease \/ LeaseRunsOut
  \/ OpenContext \/ CloseContext \/ LeaseDevice \/ PhoneEntryRunsOut
  \/ ExecuteDirectly \/ OperateDevice \/ OperateSimulator

DeviceSpec == DeviceInit /\ [][DeviceNext]_deviceVars

-----------------------------------------------------------------------------
(* Properties.                                                             *)

\* A tool ran on a device only for the holder of its one active lease, whichever
\* of the leases of closed contexts, the engine and the adapters' own entries
\* were in the way; and an operation on a simulator that was answered without
\* its tool left the simulator as asked, unless a tool failed on it before.
DevicesAreExclusive ==
  /\ \A l, m \in DOMAIN leases :
       IsActive(l) /\ IsActive(m) /\ leases[l].device = leases[m].device => l = m
  /\ last # None =>
       IF last.ran THEN last.actor = last.holder
       ELSE last.certain => last.found = last.wanted
===============================================================================
