------------------------- MODULE PlanConstruction -------------------------
(***************************************************************************)
(* Plan::new on every small list of mutations, well formed or not.         *)
(***************************************************************************)
EXTENDS PlanValidation

CONSTANTS
    MaxMutations,   \* length of a plan
    MaxId           \* identifiers and dependencies are 1..MaxId

ASSUME ListBoundsAssumption == MaxMutations \in Nat /\ MaxId \in Nat

VARIABLES plan, verdict

constructionVars == <<plan, verdict>>

Entry == [id : 1..MaxId,
          deps : {<<>>} \cup [1..1 -> 1..MaxId] \cup [1..2 -> 1..MaxId]]

ConstructionInit ==
    /\ plan \in UNION {[1..n -> Entry] : n \in 0..MaxMutations}
    /\ verdict = "pending"

\* A mutation that depends on itself cannot be constructed.
New ==
    /\ verdict = "pending"
    /\ verdict' = IF \E i \in DOMAIN plan : \E k \in DOMAIN plan[i].deps : plan[i].deps[k] = plan[i].id
                  THEN "unconstructible" ELSE Validate(plan)
    /\ UNCHANGED plan

ConstructionNext == New

ConstructionSpec == ConstructionInit /\ [][ConstructionNext]_constructionVars

(***************************************************************************)
(* Plan::validate accepts exactly the lists in which identifiers and       *)
(* dependencies are unique and every dependency is the identifier of an    *)
(* earlier entry, and its depth-first search blames a cycle exactly when   *)
(* some entries all depend on one another.                                 *)
(***************************************************************************)
VerdictIsRight ==
    LET wellFormed ==
            /\ \A i, j \in DOMAIN plan : plan[i].id = plan[j].id => i = j
            /\ \A i \in DOMAIN plan : Len(plan[i].deps) = 2 => plan[i].deps[1] # plan[i].deps[2]
            /\ \A i \in DOMAIN plan : \A k \in DOMAIN plan[i].deps :
                  \E j \in DOMAIN plan : plan[j].id = plan[i].deps[k]
        earlier ==
            \A i \in DOMAIN plan : \A k \in DOMAIN plan[i].deps :
                \E j \in 1..(i - 1) : plan[j].id = plan[i].deps[k]
        cyclic ==
            \E S \in (SUBSET Ids(plan)) \ {{}} :
                \A i \in DOMAIN plan : plan[i].id \in S =>
                    \E k \in DOMAIN plan[i].deps : plan[i].deps[k] \in S
    IN  verdict \notin {"pending", "unconstructible"} =>
            /\ (verdict = "accepted") = (wellFormed /\ earlier)
            /\ (verdict = "cycle") = (wellFormed /\ cyclic)
=============================================================================
