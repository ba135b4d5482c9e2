--------------------------- MODULE BackendRegistry ---------------------------
(***************************************************************************)
(* The registry of sysboost-platform/src/backend.rs: backends are          *)
(* registered, the aggregate descriptor follows, and every call of the     *)
(* engine for a mutation is routed to the first registered backend that    *)
(* owns the operation and the capability.  Some session takes a snapshot   *)
(* through the registry and restores through it later.                     *)
(***************************************************************************)
EXTENDS Naturals, Sequences, FiniteSets

CONSTANTS
    BackendIds,            \* backend identities
    Capabilities,   \* semantic capabilities
    Operations,     \* typed operations
    Bare            \* identities that are registered without target allowlist

\* In the code capabilities and operations are two types.
ASSUME NamesAssumption == Capabilities \cap Operations = {}

VARIABLES
    backends,   \* the registered descriptors, in order
    aggregate,  \* the registry's own descriptor: a count for every name
    held,       \* the backend that took the snapshot of a mutation, 0 before
    calls       \* the last call: the backend it reached, 0 if it was refused

registryVars == <<backends, aggregate, held, calls>>

Mutation == Operations \X Capabilities
Names == Capabilities \cup Operations

(* BackendDescriptor; the report-only backend owns nothing at all. *)
Descriptor == [id : BackendIds, caps : SUBSET Capabilities, ops : SUBSET Operations]

RegistryInit ==
    /\ backends = <<>>
    /\ aggregate = [n \in Names |-> 0]
    /\ held = [m \in Mutation |-> 0]
    /\ calls = 0

(* backend_for *)
BackendFor(m) ==
    LET owners == {i \in DOMAIN backends : m[1] \in backends[i].ops /\ m[2] \in backends[i].caps}
    IN  IF owners = {} THEN 0 ELSE CHOOSE i \in owners : \A j \in owners : i <= j

(* The three refusals of register *)
Duplicate(d) ==
    \E i \in DOMAIN backends :
        \/ backends[i].id = d.id
        \/ backends[i].caps \cap d.caps # {}
        \/ backends[i].ops \cap d.ops # {}

(* Slip: the aggregate is extended before the backend is checked. *)
RegisterEager(d) ==
    /\ backends' = IF Duplicate(d) THEN backends ELSE Append(backends, d)
    /\ aggregate' = [n \in Names |-> aggregate[n] + IF n \in d.caps \cup d.ops THEN 1 ELSE 0]
    /\ UNCHANGED <<held, calls>>

(* register *)
Register(d) ==
    /\ ~Duplicate(d)
    /\ backends' = Append(backends, d)
    /\ aggregate' = [n \in Names |-> aggregate[n] + IF n \in d.caps \cup d.ops THEN 1 ELSE 0]
    /\ UNCHANGED <<held, calls>>

(* validate_admission: the routed backend checks its own lists and then its  *)
(* target allowlist, which the default backend does not have.                *)
Admits(m) ==
    LET b == BackendFor(m)
    IN  /\ b # 0
        /\ m[1] \in backends[b].ops
        /\ m[2] \in backends[b].caps
        /\ backends[b].id \notin Bare

(* Admission and snapshot *)
TakeSnapshot(m) ==
    /\ held[m] = 0
    /\ calls' = BackendFor(m)
    /\ held' = IF Admits(m) THEN [held EXCEPT ![m] = BackendFor(m)] ELSE held
    /\ UNCHANGED <<backends, aggregate>>

(* apply, verify and restore of a captured mutation *)
Continue(m) ==
    /\ held[m] # 0
    /\ calls' = BackendFor(m)
    /\ UNCHANGED <<backends, aggregate, held>>

RegistryNext ==
    \/ \E d \in Descriptor : Register(d)
    \/ \E m \in Mutation : TakeSnapshot(m) \/ Continue(m)

RegistrySpec == RegistryInit /\ [][RegistryNext]_registryVars

-----------------------------------------------------------------------------
(* Properties *)

(* Whatever is registered, or refused, after a snapshot was taken, the later *)
(* calls for that mutation reach the backend that took it, which is the only *)
(* one that owns its operation or its capability, and the registry's own     *)
(* descriptor names both exactly once.                                       *)
RoutedToOwner ==
    \A m \in Mutation : held[m] # 0 =>
        /\ BackendFor(m) = held[m]
        /\ \A i \in DOMAIN backends :
              m[1] \in backends[i].ops \/ m[2] \in backends[i].caps => i = held[m]
        /\ aggregate[m[1]] = 1 /\ aggregate[m[2]] = 1
=============================================================================
