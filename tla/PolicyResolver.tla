--------------------------- MODULE PolicyResolver ---------------------------
(***************************************************************************)
(* The decision the planner takes for one feature on one target            *)
(* (sysboost-core/src/planner.rs, PolicyResolver::resolve_spec).           *)
(*                                                                         *)
(* The policy, the evidence of discovery, the observed state and the       *)
(* catalog of contracts are the input; the environment edits any of them   *)
(* between two calls of the planner.  A value is "high", "mid" or "low"    *)
(* (performance, schedutil and ondemand of a governor, and so on), or the  *)
(* uninterpreted "text" and "unknown" of an observation.                   *)
(***************************************************************************)
EXTENDS Naturals, Sequences, FiniteSets, FiniteSetsExt

CONSTANTS
    Features,       \* the rows of the feature table that are resolved
    MaxEdits        \* bound on the edits of the environment

VARIABLES
    input,          \* what the planner is given
    decision,       \* its decision, or Unresolved
    edits           \* edits so far

resolverVars == <<input, decision, edits>>

Class == {"RuntimeMutable", "Conditional", "Experimental", "BootOnlyReportOnly"}
Typed == {"high", "mid", "low"}
CapabilityState == <<"Available", "ReadOnly", "Denied", "Indeterminate", "Unsupported">>
ContractParts == {"snapshot", "restore", "verification", "identity", "currentState"}

(***************************************************************************)
(* The feature table.  Rows that differ only in names are one row.         *)
(***************************************************************************)
Row(risk, class, optIn, extreme, target) ==
    [risk |-> risk, class |-> class, optIn |-> optIn, extreme |-> extreme, target |-> target]

FeatureSpec ==
    [ governor   |-> Row(0, "RuntimeMutable", FALSE, FALSE, "Governor"),
      energy     |-> Row(0, "RuntimeMutable", FALSE, FALSE, "EnergyPreference"),
      frequency  |-> Row(1, "RuntimeMutable", FALSE, FALSE, "None"),
      topology   |-> Row(0, "BootOnlyReportOnly", FALSE, FALSE, "None"),
      boost      |-> Row(1, "RuntimeMutable", FALSE, FALSE, "None"),
      platform   |-> Row(1, "Conditional", FALSE, FALSE, "PlatformPerformance"),
      cpuWeight  |-> Row(1, "RuntimeMutable", FALSE, FALSE, "None"),
      cpuset     |-> Row(1, "Conditional", FALSE, FALSE, "None"),
      gpuProfile |-> Row(3, "Experimental", TRUE, TRUE, "GpuPerformance"),
      gpuPower   |-> Row(3, "Experimental", TRUE, TRUE, "None"),
      irq        |-> Row(3, "Experimental", TRUE, TRUE, "None"),
      sysctl     |-> Row(2, "Conditional", FALSE, FALSE, "None") ]

\* Operations without a row get one made up from their feature family.
CustomSpec ==
    [ ioWeight   |-> Row(1, "Conditional", FALSE, FALSE, "None"),
      nice       |-> Row(3, "Experimental", TRUE, FALSE, "None") ]

SpecOf(f) == IF f \in DOMAIN FeatureSpec THEN FeatureSpec[f] ELSE CustomSpec[f]

ASSUME FeaturesAssumption ==
    Features \subseteq DOMAIN FeatureSpec \cup DOMAIN CustomSpec

\* Feature families that are experimental whatever the evidence says.
IsExperimental(f) == f \in {"gpuProfile", "gpuPower", "irq", "nice"}

(***************************************************************************)
(* Selection of the evidence: the best state, then the first backend.      *)
(***************************************************************************)
NoDescriptor ==
    [present |-> FALSE, state |-> "Unsupported", backend |-> 0, class |-> "Conditional",
     risk |-> 0, agrees |-> FALSE, evidence |-> FALSE]

Rank(state) == CHOOSE i \in DOMAIN CapabilityState : CapabilityState[i] = state

DescriptorIndex(descriptors) ==
    IF descriptors = {} THEN NoDescriptor
    ELSE CHOOSE d \in descriptors :
            \A e \in descriptors \ {d} :
                \/ Rank(d.state) < Rank(e.state)
                \/ Rank(d.state) = Rank(e.state) /\ d.backend < e.backend

(***************************************************************************)
(* The value the profile wants, "none" when it wants none, "unadvertised"  *)
(* when the interface does not offer it.  An empty list of advertised      *)
(* values offers everything.                                               *)
(***************************************************************************)
Intent(profile) == IF profile = "Balanced" THEN <<"mid", "low">> ELSE <<"high">>

Choose(fact, candidates) ==
    LET offered == {i \in DOMAIN candidates :
                        fact.supported = {} \/ candidates[i] \in fact.supported}
    IN  IF ~fact.present THEN "none"
        ELSE IF offered = {} THEN "unadvertised" ELSE candidates[Min(offered)]

ProfileDesired(profile, spec, fact) ==
    CASE spec.target \in {"Governor", "EnergyPreference"} -> Choose(fact, Intent(profile))
      [] spec.target = "PlatformPerformance" /\ profile # "Balanced" -> Choose(fact, <<"high">>)
      [] spec.target = "GpuPerformance" /\ profile = "Extreme" -> "high"
      [] OTHER -> "none"

Desired(in) ==
    IF in.proposal.present THEN in.proposal.value
    ELSE ProfileDesired(in.policy.profile, SpecOf(in.feature), in.fact)

Current(in) == IF in.fact.present /\ in.fact.value # "unknown" THEN in.fact.value ELSE "none"

\* The target is a discovered or a requested one; without either it is an aggregate.
HasTarget(in) == in.fact.present \/ in.proposal.present

\* Controls for which a closed operation can be built without a request.
DefaultKind(in) ==
    /\ in.fact.typedTarget
    /\ in.feature \in {"governor", "energy", "boost", "platform", "cpuWeight", "cpuset",
                       "ioWeight", "nice", "gpuProfile"}

IsPreserved(in) ==
    \/ "family" \in in.policy.preserves
    \/ "thisTarget" \in in.policy.preserves /\ HasTarget(in)

EffectiveClass(in) ==
    LET d == DescriptorIndex(in.descriptors)
    IN  IF d.present THEN d.class ELSE SpecOf(in.feature).class

ExperimentalStatus(in) ==
    IF EffectiveClass(in) # "Experimental" /\ ~IsExperimental(in.feature) THEN "NotExperimental"
    ELSE IF ~in.policy.experimental THEN "Disabled"
    ELSE IF SpecOf(in.feature).optIn /\ ~in.policy.optedIn THEN "OptInRequired"
    ELSE "Enabled"

(***************************************************************************)
(* The gates, in the order of the code: a gate that fails settles the      *)
(* decision.                                                               *)
(***************************************************************************)
Gate(fails, action) == [fails |-> fails, action |-> action]

FirstFailing(gates, otherwise) ==
    LET failing == {i \in DOMAIN gates : gates[i].fails}
    IN  IF failing = {} THEN otherwise ELSE gates[Min(failing)].action

EvidenceGates(in) ==
    LET d == DescriptorIndex(in.descriptors)
    IN  << Gate(IsPreserved(in), "Preserved"),
           Gate(~d.present \/ d.state = "Unsupported", "Unsupported"),
           Gate(d.state = "Denied", "CapabilityDenied"),
           Gate(d.state = "Indeterminate", "Indeterminate"),
           Gate(/\ d.state = "ReadOnly"
                /\ Desired(in) \in Typed
                /\ Current(in) # Desired(in), "Unsupported"),
           Gate(Desired(in) = "unadvertised", "Unsupported") >>

IntentGates(in) ==
    LET unwanted == Desired(in) = "none"
        status == ExperimentalStatus(in)
    IN  << Gate(unwanted /\ status = "Disabled", "ExperimentalDisabled"),
           Gate(/\ unwanted
                /\ SpecOf(in.feature).extreme
                /\ in.policy.profile = "Extreme"
                /\ status = "OptInRequired", "ExplicitOptInRequired"),
           Gate(unwanted, "Preserved"),
           Gate(Current(in) = Desired(in), "NoOp") >>

PolicyGates(in) ==
    << Gate(in.policy.mode = "Report", "DeniedByPolicy"),
       Gate(ExperimentalStatus(in) = "Disabled", "ExperimentalDisabled"),
       Gate(ExperimentalStatus(in) = "OptInRequired", "ExplicitOptInRequired"),
       Gate(~in.contract.present, "Unsupported") >>

\* Slip: the risk ceiling compared the wrong way round.
ContractGatesInverted(in) ==
    << Gate(in.contract.optIn /\ ~in.policy.optedIn, "ExplicitOptInRequired"),
       Gate(in.contract.parts # ContractParts, "Rejected"),
       Gate(in.contract.risk < in.policy.maxRisk, "DeniedByPolicy") >>

\* Slip: a contract that lacks its restore half is taken as complete.
ContractGatesIncomplete(in) ==
    LET d == DescriptorIndex(in.descriptors)
    IN  << Gate(in.contract.optIn /\ ~in.policy.optedIn, "ExplicitOptInRequired"),
           Gate(\/ in.contract.backend # d.backend
                \/ in.contract.class # d.class
                \/ ~in.contract.agrees
                \/ ~d.agrees, "Rejected"),
           Gate(in.contract.risk > in.policy.maxRisk, "DeniedByPolicy") >>

ContractGates(in) ==
    LET d == DescriptorIndex(in.descriptors)
    IN  << Gate(in.contract.optIn /\ ~in.policy.optedIn, "ExplicitOptInRequired"),
           Gate(in.contract.parts # ContractParts, "Rejected"),
           Gate(\/ in.contract.backend # d.backend
                \/ in.contract.class # d.class
                \/ ~in.contract.agrees
                \/ ~d.agrees, "Rejected"),
           Gate(in.contract.risk > in.policy.maxRisk, "DeniedByPolicy") >>

FactGates(in) ==
    << Gate(~in.fact.present, "Indeterminate"),
       Gate(in.fact.value \notin Typed, "Indeterminate"),
       Gate(~HasTarget(in), "Indeterminate"),
       Gate(~in.fact.identity, "Indeterminate"),
       Gate(~in.fact.fingerprint, "Indeterminate"),
       Gate(~in.proposal.present /\ ~DefaultKind(in), "Indeterminate") >>

\* Checked before any feature is looked at: the policy, the catalog, the request,
\* and for an operation without a row the kind of target found.
InputGates(in) ==
    LET d == DescriptorIndex(in.descriptors)
    IN  << Gate(~in.policy.timeout, "Rejected"),
           Gate(in.contract.present /\ ~in.contract.valid, "Rejected"),
           Gate(in.proposal.present /\ ~in.proposal.matches, "Rejected"),
           Gate(in.feature \in DOMAIN CustomSpec /\ d.present /\ ~d.agrees, "Rejected") >>

Decision(in) ==
    FirstFailing(InputGates(in) \o EvidenceGates(in) \o IntentGates(in) \o PolicyGates(in)
                     \o ContractGates(in) \o FactGates(in), "Mutation")

Required(in) == in.proposal.present /\ (in.proposal.required \/ in.policy.requiredDefault)

\* A required request that is not admitted rejects the plan.
ResolveSpec(in) ==
    IF Required(in) /\ Decision(in) \notin {"Mutation", "NoOp"} THEN "Rejected" ELSE Decision(in)

\* Building the mutation validates the request itself once more.
Finalized(in) ==
    IF ResolveSpec(in) = "Mutation" /\ in.proposal.present /\ ~in.proposal.wellFormed
    THEN "Rejected" ELSE ResolveSpec(in)

\* The decision with the metadata of an admitted mutation.
ItemOf(in) ==
    LET mutation == Finalized(in) = "Mutation"
    IN  [ action       |-> Finalized(in),
          current      |-> Current(in),
          desired      |-> Desired(in),
          target       |-> HasTarget(in),
          identity     |-> in.fact.present /\ in.fact.identity,
          evidence     |-> \/ DescriptorIndex(in.descriptors).evidence
                           \/ in.fact.present /\ in.fact.evidence,
          parts        |-> IF mutation THEN in.contract.parts ELSE {} ]

\* What Plan::validate asks of the item before a plan is handed out.
ItemValid(item) ==
    item.action = "Mutation" =>
        /\ item.target
        /\ item.identity
        /\ item.evidence
        /\ item.current # "none"
        /\ item.desired \in Typed
        /\ {"snapshot", "restore", "verification"} \subseteq item.parts

(***************************************************************************)
(* The input and its edits.                                                *)
(***************************************************************************)
Unresolved == [action |-> "Unresolved"]

GoodDescriptor(f) ==
    [present |-> TRUE, state |-> "Available", backend |-> 1, class |-> SpecOf(f).class,
     risk |-> SpecOf(f).risk, agrees |-> TRUE, evidence |-> TRUE]

GoodContract(f) ==
    [present |-> TRUE, backend |-> 1, class |-> SpecOf(f).class, risk |-> SpecOf(f).risk,
     optIn |-> SpecOf(f).optIn, valid |-> TRUE, agrees |-> TRUE, parts |-> ContractParts]

\* A policy, evidence, state and contract that admit a request for the feature.
GoodInput(f) ==
    [ feature     |-> f,
      policy      |-> [profile |-> "Performance", mode |-> "Boost", maxRisk |-> 3,
                       experimental |-> TRUE, requiredDefault |-> FALSE, preserves |-> {},
                       optedIn |-> TRUE, timeout |-> TRUE],
      proposal    |-> [present |-> TRUE, value |-> "high", required |-> FALSE,
                       matches |-> TRUE, wellFormed |-> TRUE],
      descriptors |-> {GoodDescriptor(f)},
      fact        |-> [present |-> TRUE, value |-> "low", supported |-> {}, identity |-> TRUE,
                       fingerprint |-> TRUE, typedTarget |-> TRUE, evidence |-> TRUE],
      contract    |-> GoodContract(f) ]

\* The values each field may take.
Domains ==
    [ policy   |-> [profile |-> {"Balanced", "Performance", "Extreme"},
                    mode |-> {"Report", "Boost"}, maxRisk |-> {0, 3}, experimental |-> BOOLEAN,
                    requiredDefault |-> BOOLEAN, optedIn |-> BOOLEAN, timeout |-> BOOLEAN,
                    preserves |-> SUBSET {"family", "thisTarget", "otherTarget"}],
      proposal |-> [present |-> BOOLEAN, value |-> {"high", "mid"}, required |-> BOOLEAN,
                    matches |-> BOOLEAN, wellFormed |-> BOOLEAN],
      fact     |-> [present |-> BOOLEAN, value |-> Typed \cup {"text", "unknown"},
                    supported |-> {{}, {"low"}, {"mid"}}, identity |-> BOOLEAN,
                    fingerprint |-> BOOLEAN, typedTarget |-> BOOLEAN, evidence |-> BOOLEAN],
      contract |-> [present |-> BOOLEAN, backend |-> {1, 2}, class |-> Class, risk |-> {0, 3},
                    optIn |-> BOOLEAN, valid |-> BOOLEAN, agrees |-> BOOLEAN,
                    parts |-> {ContractParts \ P : P \in {{"snapshot"}, {"restore"}, {"identity"}, {}}}] ]

\* A configuration edit, a new observation or another build of the catalog.
Edit(part) ==
    /\ edits < MaxEdits
    /\ \E field \in DOMAIN Domains[part] :
         \E v \in Domains[part][field] \ {input[part][field]} :
            input' = [input EXCEPT ![part][field] = v]
    /\ edits' = edits + 1
    /\ decision' = Unresolved

\* The evidence is probed anew: a descriptor appears, disappears or differs.
Probe ==
    /\ edits < MaxEdits
    /\ \E d \in input.descriptors \cup {[GoodDescriptor(input.feature) EXCEPT !.backend = 2]} :
         \/ input' = [input EXCEPT !.descriptors = @ \ {d}]
         \/ input' = [input EXCEPT !.descriptors = @ \cup {d}]
         \/ \E s \in DOMAIN CapabilityState :
              input' = [input EXCEPT !.descriptors =
                            (@ \ {d}) \cup {[d EXCEPT !.state = CapabilityState[s]]}]
         \/ \E c \in Class :
              input' = [input EXCEPT !.descriptors = (@ \ {d}) \cup {[d EXCEPT !.class = c]}]
         \/ input' = [input EXCEPT !.descriptors = (@ \ {d}) \cup {[d EXCEPT !.agrees = FALSE]}]
         \/ input' = [input EXCEPT !.descriptors = (@ \ {d}) \cup {[d EXCEPT !.evidence = FALSE]}]
    /\ Cardinality({e.backend : e \in input'.descriptors}) = Cardinality(input'.descriptors)
    /\ input' # input
    /\ edits' = edits + 1
    /\ decision' = Unresolved

\* An operation without a row is resolved only when it is requested.
Resolve ==
    /\ decision = Unresolved
    /\ input.feature \in DOMAIN FeatureSpec \/ input.proposal.present
    /\ decision' = ItemOf(input)
    /\ UNCHANGED <<input, edits>>

ResolverInit ==
    /\ \E f \in Features : input = GoodInput(f)
    /\ decision = Unresolved
    /\ edits = 0

ResolverNext == (\E part \in DOMAIN Domains : Edit(part)) \/ Probe \/ Resolve

ResolverSpec == ResolverInit /\ [][ResolverNext]_resolverVars

----------------------------------------------------------------------------
(***************************************************************************)
(* What the resolver admits, Plan::from_items accepts: planning never ends *)
(* in the error of a plan that contradicts itself, except for evidence     *)
(* lists that are empty on both sides.                                     *)
(***************************************************************************)
AdmittedIsValid == decision # Unresolved /\ decision.evidence => ItemValid(decision)

\* The policies that permit no more than p.
Tighter(p) ==
    {[p EXCEPT !.mode = "Report"], [p EXCEPT !.maxRisk = 0], [p EXCEPT !.experimental = FALSE],
     [p EXCEPT !.optedIn = FALSE], [p EXCEPT !.preserves = @ \cup {"family"}],
     [p EXCEPT !.preserves = @ \cup {"thisTarget"}]}

(***************************************************************************)
(* Taking permissions away never admits a mutation that the more generous  *)
(* policy refuses: no gate hides another one.                              *)
(***************************************************************************)
TighterPolicyAdmitsLess ==
    decision # Unresolved /\ decision.action # "Mutation" =>
        \A p \in Tighter(input.policy) : Finalized([input EXCEPT !.policy = p]) # "Mutation"
=============================================================================
