--------------------------- MODULE PlanValidation ---------------------------
(***************************************************************************)
(* Plan::validate of sysboost-core/src/plan.rs: the checks a plan passes   *)
(* before it is handed out, and again before a transaction admits it.  A   *)
(* mutation is its identifier and the list of identifiers it depends on.   *)
(* What validate asks of the items of a plan (a plan made by Plan::new has *)
(* none) is in PolicyResolver (a single item) and PlanOrder (two items     *)
(* that set one control).                                                  *)
(***************************************************************************)
EXTENDS Naturals, Sequences, FiniteSets

Ids(plan) == {plan[i].id : i \in DOMAIN plan}

\* The first entry with an identifier.
Position(plan, id) ==
    CHOOSE i \in DOMAIN plan : plan[i].id = id /\ \A j \in 1..(i - 1) : plan[j].id # id

UniqueId(plan, i) == \A j \in 1..(i - 1) : plan[j].id # plan[i].id

\* Slip: a dependency may be listed twice.
KnownDependenciesRepeated(plan, i) ==
    \A k \in DOMAIN plan[i].deps : plan[i].deps[k] \in Ids(plan)

KnownDependencies(plan, i) ==
    \A k \in DOMAIN plan[i].deps :
        /\ \A l \in DOMAIN plan[i].deps \ {k} : plan[i].deps[l] # plan[i].deps[k]
        /\ plan[i].deps[k] \in Ids(plan)

\* The depth-first walk of reaches_cycle: stack is the path to its last element.
ReachesCycle(plan, id) ==
    LET walk[stack \in Seq(Nat)] ==
            LET current == stack[Len(stack)]
            IN  \/ \E i \in 1..(Len(stack) - 1) : stack[i] = current
                \/ /\ current \in Ids(plan)
                   /\ LET deps == plan[Position(plan, current)].deps
                      IN  \E k \in DOMAIN deps : walk[Append(stack, deps[k])]
    IN  walk[<<id>>]

DependenciesEarlier(plan, i) ==
    \A k \in DOMAIN plan[i].deps : Position(plan, plan[i].deps[k]) < i

Validate(plan) ==
    IF \E i \in DOMAIN plan : ~UniqueId(plan, i) \/ ~KnownDependencies(plan, i) THEN "malformed"
    ELSE IF \E i \in DOMAIN plan : ReachesCycle(plan, plan[i].id) THEN "cycle"
    ELSE IF \E i \in DOMAIN plan : ~DependenciesEarlier(plan, i) THEN "out of order"
    ELSE "accepted"
=============================================================================
