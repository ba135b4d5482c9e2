-------------------------- MODULE ProposalSelection --------------------------
(***************************************************************************)
(* select_proposals of sysboost-core/src/planner.rs: among the requests of *)
(* the configuration layers and of the invocation one is selected for each *)
(* capability, target and operation.                                       *)
(***************************************************************************)
EXTENDS Naturals, Sequences, FiniteSets

CONSTANTS
    ProposalKeys,   \* capability, target and operation of a request, in key order
    Values,         \* desired values
    Sources,        \* the precedences used, of Profile, Invocation, User and System (0..3)
    MaxProposals    \* length of the list of proposals

ASSUME ProposalsAssumption ==
    /\ ProposalKeys \subseteq Nat
    /\ Sources \subseteq Nat
    /\ "none" \notin Values
    /\ MaxProposals \in Nat

VARIABLES
    proposals,      \* the list as given
    left,           \* the sorted list that is still to be looked at
    selected,       \* the selected proposal of every key, or None
    outcome         \* "selecting", "selected" or "conflict"

selectionVars == <<proposals, left, selected, outcome>>

None == [source |-> 0, value |-> "none", required |-> FALSE]
Proposal == [key : ProposalKeys, source : Sources, value : Values, required : BOOLEAN]
Lists == UNION {[1..n -> Proposal] : n \in 1..MaxProposals}

\* By key, then by falling precedence.
Precedes(p, q) == p.key < q.key \/ (p.key = q.key /\ p.source > q.source)

\* The stable sort: the places of the list in their new order.
Sorted(list) ==
    LET comesBefore(i, j) ==
            Precedes(list[i], list[j]) \/ (~Precedes(list[j], list[i]) /\ i < j)
        place(i) == 1 + Cardinality({j \in DOMAIN list : comesBefore(j, i)})
    IN  [n \in DOMAIN list |-> list[CHOOSE i \in DOMAIN list : place(i) = n]]

Chosen(p) == [source |-> p.source, value |-> p.value, required |-> p.required]

\* Slip: the last proposal wins, whatever its precedence.
SelectLast ==
    /\ outcome = "selecting"
    /\ left # <<>>
    /\ selected' = [selected EXCEPT ![Head(left).key] = Chosen(Head(left))]
    /\ left' = Tail(left)
    /\ UNCHANGED <<proposals, outcome>>

\* One proposal of the sorted list.
Select ==
    /\ outcome = "selecting"
    /\ left # <<>>
    /\ LET p == Head(left)
           existing == selected[p.key]
       IN  \/ /\ existing = None
              /\ selected' = [selected EXCEPT ![p.key] = Chosen(p)]
              /\ UNCHANGED outcome
           \/ /\ existing # None
              /\ existing.value = p.value \/ existing.source > p.source
              /\ UNCHANGED <<selected, outcome>>
           \/ /\ existing # None
              /\ existing.value # p.value
              /\ existing.source = p.source
              /\ outcome' = "conflict"
              /\ UNCHANGED selected
    /\ left' = Tail(left)
    /\ UNCHANGED proposals

Selected ==
    /\ outcome = "selecting"
    /\ left = <<>>
    /\ outcome' = "selected"
    /\ UNCHANGED <<proposals, left, selected>>

SelectionInit ==
    /\ proposals \in Lists
    /\ left = Sorted(proposals)
    /\ selected = [k \in ProposalKeys |-> None]
    /\ outcome = "selecting"

SelectionNext == Select \/ Selected

SelectionSpec == SelectionInit /\ [][SelectionNext]_selectionVars

----------------------------------------------------------------------------
Of(k) == {i \in DOMAIN proposals : proposals[i].key = k}

\* The proposals of a key that no other one outranks.
Top(k) == {i \in Of(k) : \A j \in Of(k) : proposals[j].source <= proposals[i].source}

(***************************************************************************)
(* The most trusted layer wins and nothing else decides: the value         *)
(* selected for a key is the one all of its highest-ranking proposals      *)
(* name, the selection ends in a conflict exactly when two of them differ, *)
(* and no contradiction among outranked proposals has any effect.          *)
(***************************************************************************)
TrustedLayerWins ==
    /\ outcome = "selected" =>
         \A k \in ProposalKeys : \A i \in Top(k) : selected[k].value = proposals[i].value
    /\ outcome = "conflict" =>
         \E k \in ProposalKeys : \E i, j \in Top(k) : proposals[i].value # proposals[j].value
=============================================================================
