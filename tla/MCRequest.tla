----------------------------- MODULE MCRequest ------------------------------
(***************************************************************************)
(* The way of a request, from the policy to the backend that serves it:    *)
(* the planner's stages, the wire, the privileged service and the registry *)
(* hand values to one another and share no state, so one run holds them    *)
(* side by side.  The initial state picks a part in mode, only that one    *)
(* takes steps, and the variables of the others keep a fixed value.        *)
(*                                                                         *)
(*   order     PlanOrder: three operations on two targets, on the first of *)
(*             them two that set one control                               *)
(*   validate  PlanConstruction: every list of up to three mutations       *)
(*   resolve   PolicyResolver: four features, up to two edits              *)
(*   select    ProposalSelection: up to three proposals of three sources   *)
(*   wire      WireCodec: every message, two changes on the way            *)
(*   delivery  PrivilegeService: two plans of one identity and digest, a   *)
(*             stranger among the peers, one life of the helper            *)
(*   restart   PrivilegeService: two lives of the helper, one peer         *)
(*   registry  BackendRegistry: three backends over four names             *)
(***************************************************************************)
EXTENDS PlanOrder, PlanConstruction, PolicyResolver, ProposalSelection,
        PrivilegeService, BackendRegistry, WireCodec, TLC

CONSTANTS s1, s2, stranger

TwoSessions == {s1, s2}
Strangers == {stranger}
SharedOnOne == [k \in Keys |-> IF k = <<3, 1>> THEN 1 ELSE k[1]]

(* Sessions are interchangeable: nothing orders or chooses them. *)
SessionSymmetry == Permutations(TwoSessions)

VARIABLE mode

plannerVars == <<orderVars, constructionVars, resolverVars, selectionVars>>
serviceVars == <<vars, wireVars, registryVars>>
suiteVars == <<mode, plannerVars, serviceVars>>

Restart == INSTANCE PrivilegeService WITH Bodies <- {1}, Others <- {}, MaxLives <- 2

-----------------------------------------------------------------------------
OrderOff ==
    /\ status = [k \in Keys |-> "absent"] /\ requires = [op \in Ops |-> {}]
    /\ stage = "off" /\ why = "none" /\ todo = {} /\ edges = [k \in Keys |-> {}]
    /\ indegree = [k \in Keys |-> 0] /\ ready = {} /\ ordered = <<>>
ConstructionOff == plan = <<>> /\ verdict = "pending"
ResolverOff == input = GoodInput("governor") /\ decision = Unresolved /\ edits = 0
SelectionOff ==
    /\ proposals = <<>> /\ left = <<>>
    /\ selected = [k \in ProposalKeys |-> None] /\ outcome = "selecting"
WireOff ==
    /\ msg = [kind |-> "Status", number |-> 1, raw |-> <<0>>, code |-> "none"]
    /\ WireInit

PlannerOff == OrderOff /\ ConstructionOff /\ ResolverOff /\ SelectionOff
ServiceOff == ServiceInit /\ WireOff /\ RegistryInit

SuiteInit ==
    \/ mode = "order" /\ OrderInit /\ ConstructionOff /\ ResolverOff /\ SelectionOff /\ ServiceOff
    \/ mode = "validate" /\ ConstructionInit /\ OrderOff /\ ResolverOff /\ SelectionOff /\ ServiceOff
    \/ mode = "resolve" /\ ResolverInit /\ OrderOff /\ ConstructionOff /\ SelectionOff /\ ServiceOff
    \/ mode = "select" /\ SelectionInit /\ OrderOff /\ ConstructionOff /\ ResolverOff /\ ServiceOff
    \/ mode \in {"delivery", "registry"} /\ PlannerOff /\ ServiceOff
    \/ mode = "restart" /\ PlannerOff /\ Restart!ServiceInit /\ WireOff /\ RegistryInit
    \/ mode = "wire" /\ PlannerOff /\ ServiceInit /\ WireInit /\ RegistryInit

PlannerNext ==
    \/ mode = "order" /\ OrderNext /\ UNCHANGED <<constructionVars, resolverVars, selectionVars>>
    \/ mode = "validate" /\ ConstructionNext /\ UNCHANGED <<orderVars, resolverVars, selectionVars>>
    \/ mode = "resolve" /\ ResolverNext /\ UNCHANGED <<orderVars, constructionVars, selectionVars>>
    \/ mode = "select" /\ SelectionNext /\ UNCHANGED <<orderVars, constructionVars, resolverVars>>

ServerNext ==
    \/ mode = "delivery" /\ ServiceNext /\ UNCHANGED <<wireVars, registryVars>>
    \/ mode = "restart" /\ Restart!ServiceNext /\ UNCHANGED <<wireVars, registryVars>>
    \/ mode = "wire" /\ WireNext /\ UNCHANGED <<vars, registryVars>>
    \/ mode = "registry" /\ RegistryNext /\ UNCHANGED <<vars, wireVars>>

SuiteNext ==
    /\ UNCHANGED mode
    /\ \/ PlannerNext /\ UNCHANGED serviceVars
       \/ ServerNext /\ UNCHANGED plannerVars

SuiteSpec == SuiteInit /\ [][SuiteNext]_suiteVars
=============================================================================
