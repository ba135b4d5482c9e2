------------------------------ MODULE PlanOrder ------------------------------
(***************************************************************************)
(* finalize_candidates of sysboost-core/src/planner.rs and Plan::from_items *)
(* of plan.rs: the decisions become a plan whose mutations are numbered in *)
(* dependency order.                                                       *)
(*                                                                         *)
(* A decision has a key, its operation and its target; keys are ordered as *)
(* the code's BTreeMap orders them.  The dependencies are those the        *)
(* contracts of the operations declare, on the same target.                *)
(***************************************************************************)
EXTENDS PlanValidation

CONSTANTS
    Ops,            \* operations, numbered in the order of their keys
    Targets,        \* targets, numbered in the order of their keys
    ControlOf,      \* the control each decision names, by key
    Statuses        \* what the resolver may have decided

ASSUME ConstantsAssumption ==
    /\ Ops \subseteq Nat
    /\ Targets \subseteq Nat
    /\ IsFiniteSet(Ops)
    /\ IsFiniteSet(Targets)

VARIABLES
    status,         \* the decision of every key, "absent" if there is none
    requires,       \* the operations each operation's contract depends on
    stage,          \* "link", "order", "validate", "done" or "rejected"
    why,            \* why the plan was rejected
    todo,           \* mutations whose dependencies are not linked yet
    edges,          \* the linked dependencies of every key
    indegree,       \* dependencies not numbered yet
    ready,          \* mutations that wait for nothing
    ordered         \* the mutations in the order of their identifiers

orderVars == <<status, requires, stage, why, todo, edges, indegree, ready, ordered>>

Keys == Ops \X Targets
Before(k, l) == k[1] < l[1] \/ (k[1] = l[1] /\ k[2] < l[2])
First(S) == CHOOSE k \in S : \A l \in S \ {k} : Before(k, l)
Mutations == {k \in Keys : status[k] = "Mutation"}
Placed == {ordered[i] : i \in DOMAIN ordered}

\* The decision a dependency of k refers to.
Prerequisite(k, op) == <<op, k[2]>>

Reject(reason) ==
    /\ stage' = "rejected"
    /\ why' = reason
    /\ UNCHANGED <<status, requires, todo, edges, indegree, ready, ordered>>

\* The dependencies of one mutation are looked up among all decisions.  One
\* that was not needed is as good as met; one that was refused is not.
Link ==
    /\ stage = "link"
    /\ todo # {}
    /\ LET k == First(todo)
           needed == {Prerequisite(k, op) : op \in requires[k[1]]}
       IN  IF \E p \in needed : status[p] = "absent" THEN Reject("missing")
           ELSE IF \E p \in needed : status[p] \notin {"Mutation", "NoOp", "Preserved"}
           THEN Reject("unadmitted")
           ELSE /\ edges' = [edges EXCEPT ![k] = {p \in needed : status[p] = "Mutation"}]
                /\ todo' = todo \ {k}
                /\ UNCHANGED <<status, requires, stage, why, indegree, ready, ordered>>

Count ==
    /\ stage = "link"
    /\ todo = {}
    /\ indegree' = [k \in Keys |-> Cardinality(edges[k])]
    /\ ready' = {k \in Mutations : edges[k] = {}}
    /\ stage' = "order"
    /\ UNCHANGED <<status, requires, why, todo, edges, ordered>>

\* Slip: a dependent is released by the first of its dependencies.
PopEager ==
    /\ stage = "order"
    /\ ready # {}
    /\ LET k == First(ready)
           dependents == {d \in Mutations : k \in edges[d]}
       IN  /\ ordered' = Append(ordered, k)
           /\ indegree' = [d \in Keys |-> IF d \in dependents THEN 0 ELSE indegree[d]]
           /\ ready' = (ready \ {k}) \cup (dependents \ Placed)
    /\ UNCHANGED <<status, requires, stage, why, todo, edges>>

\* Slip: the dependents are not released.
PopStuck ==
    /\ stage = "order"
    /\ ready # {}
    /\ LET k == First(ready)
           dependents == {d \in Mutations : k \in edges[d]}
       IN  /\ ordered' = Append(ordered, k)
           /\ indegree' = [d \in Keys |-> IF d \in dependents THEN indegree[d] - 1 ELSE indegree[d]]
           /\ ready' = ready \ {k}
    /\ UNCHANGED <<status, requires, stage, why, todo, edges>>

\* Slip: any mutation that waits for nothing is taken, not the first.
PopAny ==
    /\ stage = "order"
    /\ \E k \in ready :
         LET dependents == {d \in Mutations : k \in edges[d]}
         IN  /\ ordered' = Append(ordered, k)
             /\ indegree' = [d \in Keys |->
                                IF d \in dependents THEN indegree[d] - 1 ELSE indegree[d]]
             /\ ready' = (ready \ {k}) \cup {d \in dependents : indegree[d] = 1}
    /\ UNCHANGED <<status, requires, stage, why, todo, edges>>

Pop ==
    /\ stage = "order"
    /\ ready # {}
    /\ LET k == First(ready)
           dependents == {d \in Mutations : k \in edges[d]}
       IN  /\ ordered' = Append(ordered, k)
           /\ indegree' = [d \in Keys |-> IF d \in dependents THEN indegree[d] - 1 ELSE indegree[d]]
           /\ ready' = (ready \ {k}) \cup {d \in dependents : indegree[d] = 1}
    /\ UNCHANGED <<status, requires, stage, why, todo, edges>>

OrderDone ==
    /\ stage = "order"
    /\ ready = {}
    /\ IF Len(ordered) # Cardinality(Mutations) THEN Reject("cycle")
       ELSE /\ stage' = "validate"
            /\ UNCHANGED <<status, requires, why, todo, edges, indegree, ready, ordered>>

\* The identifier of a mutation is its place in the order.
IdOf(k) == CHOOSE i \in DOMAIN ordered : ordered[i] = k

Enumeration(S) ==
    CHOOSE s \in [1..Cardinality(S) -> S] : \A x \in S : \E i \in DOMAIN s : s[i] = x

\* The plan: one entry per mutation, its dependencies as identifiers.
PlanOf ==
    [i \in DOMAIN ordered |->
        [id |-> i, deps |-> Enumeration({IdOf(k) : k \in edges[ordered[i]]})]]

\* Two mutations set one control of one target.
Conflicting ==
    \E k, l \in Mutations : k # l /\ k[2] = l[2] /\ ControlOf[k] = ControlOf[l]

\* Plan::from_items.  What Plan::validate asks of a single item is
\* PolicyResolver's; its mutations are those of the items, in their order.
ValidatePlan ==
    /\ stage = "validate"
    /\ IF Conflicting THEN Reject("conflict")
       ELSE IF Validate(PlanOf) # "accepted" THEN Reject("invalid")
       ELSE /\ stage' = "done"
            /\ UNCHANGED <<status, requires, why, todo, edges, indegree, ready, ordered>>

OrderInit ==
    /\ status \in [Keys -> Statuses]
    /\ requires \in [Ops -> SUBSET Ops]
    /\ \A op \in Ops : op \notin requires[op]
    /\ stage = "link"
    /\ why = "none"
    /\ todo = Mutations
    /\ edges = [k \in Keys |-> {}]
    /\ indegree = [k \in Keys |-> 0]
    /\ ready = {}
    /\ ordered = <<>>

OrderNext == Link \/ Count \/ Pop \/ OrderDone \/ ValidatePlan

OrderSpec == OrderInit /\ [][OrderNext]_orderVars

----------------------------------------------------------------------------
(***************************************************************************)
(* In the plan every mutation comes after every mutation its contract      *)
(* depends on, at every moment of the numbering already.                   *)
(***************************************************************************)
DependenciesFirst ==
    \A i \in DOMAIN ordered : \A p \in edges[ordered[i]] : \E j \in 1..(i - 1) : ordered[j] = p

(***************************************************************************)
(* The numbering loop loses nothing: it gives up with a cycle only when    *)
(* there is one, a set of mutations each of which waits for another one in *)
(* the set.                                                                *)
(***************************************************************************)
CycleIsReal ==
    why = "cycle" =>
        \E S \in (SUBSET Mutations) \ {{}} : \A k \in S : edges[k] \cap S # {}

(***************************************************************************)
(* The plan is canonical: each identifier went to the first mutation in    *)
(* key order whose dependencies all had smaller ones, so the same          *)
(* decisions always give the same plan and the same digest.                *)
(***************************************************************************)
CanonicalOrder ==
    \A i \in DOMAIN ordered :
        LET earlier == {ordered[j] : j \in 1..(i - 1)}
            free == {k \in Mutations \ earlier : edges[k] \subseteq earlier}
        IN  ordered[i] = First(free)

(***************************************************************************)
(* A plan without conflicting decisions always passes the rest of the      *)
(* validation that from_items runs: identifiers, dependencies, order.      *)
(***************************************************************************)
OrderedPlanIsValid == why # "invalid"
=============================================================================
