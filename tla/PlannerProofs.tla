--------------------------- MODULE PlannerProofs ---------------------------
(***************************************************************************)
(* What the planner decides before it orders a plan, for every list of     *)
(* proposals, every policy and every piece of evidence: which layer's      *)
(* value is selected, what is admitted, and how the policy bounds it.      *)
(***************************************************************************)
EXTENDS PolicyResolver, ProposalSelection, FiniteSetTheorems, TLAPS

-----------------------------------------------------------------------------
(* Sets of naturals have least elements.                                     *)
LEMMA LeastOf ==
    ASSUME NEW T, T \subseteq Nat, T # {}
    PROVE  Min(T) \in T /\ \A y \in T : Min(T) <= y
<1> DEFINE less == {ss \in Nat \X Nat : ss[1] < ss[2]}
<1>1. IsWellFoundedOn(less, Nat)
  BY NatLessThanWellFounded DEF OpToRel
<1>2. \E x \in T : \A y \in T : ~(<<y, x>> \in less)
  <2> HIDE DEF less
  <2> QED
    BY <1>1, WFMin
<1>3. PICK x \in T : \A y \in T : ~(<<y, x>> \in less)
  BY <1>2
<1>4. ASSUME NEW y \in T PROVE x <= y
  <2>1. x \in Nat /\ y \in Nat /\ <<y, x>> \in Nat \X Nat
    OBVIOUS
  <2>2. ~(y < x)
    BY <1>3, <2>1
  <2> QED
    BY <2>1, <2>2
<1> QED
  BY <1>4 DEF Min

-----------------------------------------------------------------------------
(* The stable sort of select_proposals: its places are a strict total order, *)
(* so every proposal of the list has a place of its own and the result is    *)
(* the list, by key and by falling precedence.                               *)
LEMMA SortedIsSorted ==
    ASSUME NEW n \in Nat, NEW list \in [1..n -> Proposal]
    PROVE  /\ Sorted(list) \in [1..n -> Proposal]
           /\ \A i \in 1..n : \E m \in 1..n : Sorted(list)[m] = list[i]
           /\ \A m \in 1..n : \E i \in 1..n : Sorted(list)[m] = list[i]
           /\ \A l, m \in 1..n : l < m => ~Precedes(Sorted(list)[m], Sorted(list)[l])
<1> DEFINE comesBefore(i, j) ==
        Precedes(list[i], list[j]) \/ (~Precedes(list[j], list[i]) /\ i < j)
<1> DEFINE below(i) == {j \in DOMAIN list : comesBefore(j, i)}
<1> DEFINE place(i) == 1 + Cardinality(below(i))
<1> DEFINE at(m) == CHOOSE i \in DOMAIN list : place(i) = m
<1>d. DOMAIN list = 1..n /\ IsFiniteSet(1..n) /\ Cardinality(1..n) = n
  BY FS_Interval
<1>s. Sorted(list) = [m \in 1..n |-> list[at(m)]]
  BY <1>d DEF Sorted
<1>k. ASSUME NEW i \in 1..n PROVE list[i].key \in Nat /\ list[i].source \in Nat
  BY ProposalsAssumption DEF Proposal
<1>1. ASSUME NEW i \in 1..n, NEW j \in 1..n
      PROVE  comesBefore(i, j) <=>
                \/ list[i].key < list[j].key
                \/ list[i].key = list[j].key /\ list[i].source > list[j].source
                \/ list[i].key = list[j].key /\ list[i].source = list[j].source /\ i < j
  <2>1. list[i].key \in Nat /\ list[i].source \in Nat
        /\ list[j].key \in Nat /\ list[j].source \in Nat
    BY <1>k
  <2> QED
    BY <2>1 DEF Precedes
<1> HIDE DEF comesBefore
<1>2. \A i \in 1..n : ~comesBefore(i, i)
  BY <1>1, <1>k
<1>3. \A i, j \in 1..n : i # j => comesBefore(i, j) \/ comesBefore(j, i)
  BY <1>1, <1>k
<1>4. ASSUME NEW i \in 1..n, NEW j \in 1..n, NEW l \in 1..n, comesBefore(i, j), comesBefore(j, l)
      PROVE  comesBefore(i, l)
  <2>1. /\ list[i].key \in Nat /\ list[i].source \in Nat
        /\ list[j].key \in Nat /\ list[j].source \in Nat
        /\ list[l].key \in Nat /\ list[l].source \in Nat
    BY <1>k
  <2>2. \/ list[i].key < list[j].key
        \/ list[i].key = list[j].key /\ list[i].source > list[j].source
        \/ list[i].key = list[j].key /\ list[i].source = list[j].source /\ i < j
    BY <1>1, <1>4
  <2>3. \/ list[j].key < list[l].key
        \/ list[j].key = list[l].key /\ list[j].source > list[l].source
        \/ list[j].key = list[l].key /\ list[j].source = list[l].source /\ j < l
    BY <1>1, <1>4
  <2>4. \/ list[i].key < list[l].key
        \/ list[i].key = list[l].key /\ list[i].source > list[l].source
        \/ list[i].key = list[l].key /\ list[i].source = list[l].source /\ i < l
    BY <2>1, <2>2, <2>3
  <2> QED
    BY <2>4, <1>1
<1>5. ASSUME NEW i \in 1..n
      PROVE  /\ IsFiniteSet(below(i))
             /\ Cardinality(below(i)) \in Nat
             /\ place(i) \in 1..n
  <2>1. below(i) \in SUBSET ((1..n) \ {i})
    BY <1>d, <1>2
  <2>2. IsFiniteSet((1..n) \ {i}) /\ Cardinality((1..n) \ {i}) = n - 1
    BY <1>d, FS_RemoveElement
  <2> HIDE DEF below
  <2>3. IsFiniteSet(below(i)) /\ Cardinality(below(i)) <= n - 1
    BY <2>1, <2>2, FS_Subset
  <2> QED
    BY <2>3, FS_CardinalityType
<1>p. ASSUME NEW i \in 1..n PROVE place(i) \in Nat
  <2>1. Cardinality(below(i)) \in Nat
    BY <1>5
  <2> HIDE DEF below
  <2> QED
    BY <2>1
<1>6. ASSUME NEW i \in 1..n, NEW j \in 1..n, comesBefore(i, j)
      PROVE  place(i) < place(j)
  <2>1. below(i) \in SUBSET below(j) /\ i \in below(j) /\ i \notin below(i)
    BY <1>6, <1>2, <1>4, <1>d
  <2> HIDE DEF below
  <2>2. Cardinality(below(i)) <= Cardinality(below(j)) /\ Cardinality(below(j)) # Cardinality(below(i))
    BY <2>1, <1>5, FS_Subset
  <2> QED
    BY <2>2, <1>5
<1>7. \A i, j \in 1..n : place(i) < place(j) => comesBefore(i, j)
  <2> SUFFICES ASSUME NEW i \in 1..n, NEW j \in 1..n, place(i) < place(j), ~comesBefore(i, j)
               PROVE  FALSE
    OBVIOUS
  <2> HIDE DEF place
  <2>1. place(i) \in Nat /\ place(j) \in Nat
    BY <1>p
  <2>2. i # j
    BY <2>1
  <2>3. place(j) < place(i)
    BY <2>2, <1>3, <1>6
  <2> QED
    BY <2>1, <2>3
<1>8. \A m \in 1..n : \E i \in 1..n : place(i) = m
  <2> DEFINE f == [i \in 1..n |-> place(i)]
  <2>1. f \in [1..n -> 1..n]
    BY <1>5
  <2>2. ASSUME NEW i \in 1..n, NEW j \in 1..n, f[i] = f[j] PROVE i = j
    <3> SUFFICES ASSUME i # j PROVE FALSE
      OBVIOUS
    <3> HIDE DEF place
    <3>1. place(i) = place(j) /\ place(i) \in Nat /\ place(j) \in Nat
      BY <2>2, <1>p
    <3>2. place(i) < place(j) \/ place(j) < place(i)
      BY <1>3, <1>6
    <3> QED
      BY <3>1, <3>2
  <2>3. f \in Injection(1..n, 1..n)
    <3> HIDE DEF f
    <3> QED
      BY <2>1, <2>2 DEF Injection, IsInjective
  <2>4. f \in Surjection(1..n, 1..n)
    <3> HIDE DEF f
    <3> QED
      BY <2>3, <1>d, FS_Injection
  <2>5. \A m \in 1..n : \E i \in 1..n : f[i] = m
    <3> HIDE DEF f
    <3> QED
      BY <2>4 DEF Surjection
  <2> QED
    BY <2>5
<1>9. ASSUME NEW m \in 1..n PROVE at(m) \in 1..n /\ place(at(m)) = m
  <2> HIDE DEF place
  <2> QED
    BY <1>8, <1>d
<1>10. \A i \in 1..n : \E m \in 1..n : at(m) = i
  <2> SUFFICES ASSUME NEW i \in 1..n PROVE \E m \in 1..n : at(m) = i
    OBVIOUS
  <2>1. place(i) \in 1..n
    BY <1>5
  <2>2. at(place(i)) \in 1..n /\ place(at(place(i))) = place(i)
    BY <2>1, <1>9
  <2>3. place(i) \in Nat /\ place(at(place(i))) \in Nat
    BY <2>1, <2>2
  <2> HIDE DEF place, at
  <2>4. at(place(i)) = i
    <3> SUFFICES ASSUME at(place(i)) # i PROVE FALSE
      OBVIOUS
    <3>1. place(i) < place(at(place(i))) \/ place(at(place(i))) < place(i)
      BY <2>2, <1>3, <1>6
    <3> QED
      BY <2>2, <2>3, <3>1
  <2> QED
    BY <2>1, <2>4
<1> HIDE DEF at
<1>11. Sorted(list) \in [1..n -> Proposal]
  BY <1>s, <1>9
<1>12. \A i \in 1..n : \E m \in 1..n : Sorted(list)[m] = list[i]
  BY <1>s, <1>10
<1>13. \A m \in 1..n : \E i \in 1..n : Sorted(list)[m] = list[i]
  BY <1>s, <1>9
<1>14. ASSUME NEW l \in 1..n, NEW m \in 1..n, l < m
       PROVE  ~Precedes(Sorted(list)[m], Sorted(list)[l])
  <2>1. comesBefore(at(l), at(m)) /\ at(l) \in 1..n /\ at(m) \in 1..n
    <3> HIDE DEF place
    <3> QED
      BY <1>14, <1>7, <1>9
  <2>2. /\ list[at(l)].key \in Nat /\ list[at(l)].source \in Nat
        /\ list[at(m)].key \in Nat /\ list[at(m)].source \in Nat
    BY <2>1, <1>k
  <2>3. ~Precedes(list[at(m)], list[at(l)])
    BY <2>1, <2>2, <1>1 DEF Precedes
  <2> QED
    BY <2>3, <1>s
<1> QED
  BY <1>11, <1>12, <1>13, <1>14

-----------------------------------------------------------------------------
(* The selection loop.  What is left is sorted and comes from the list; a    *)
(* proposal that was looked at lost to the selected one of its key, or       *)
(* agrees with it; what is still left of a key with a selection does not     *)
(* outrank it.                                                               *)

SelectionTypeInv ==
    /\ \E n \in Nat : proposals \in [1..n -> Proposal]
    /\ left \in Seq(Proposal)
    /\ selected \in [ProposalKeys -> [source : Nat, value : Values \cup {"none"}, required : BOOLEAN]]

LeftInv ==
    /\ \A m \in DOMAIN left : \E i \in DOMAIN proposals : left[m] = proposals[i]
    /\ \A l, m \in DOMAIN left : l < m => ~Precedes(left[m], left[l])

(* p was looked at. *)
Settled(p) ==
    /\ selected[p.key] # None
    /\ p.source <= selected[p.key].source
    /\ p.source = selected[p.key].source => p.value = selected[p.key].value

SeenInv ==
    \A i \in DOMAIN proposals : Settled(proposals[i]) \/ \E m \in DOMAIN left : left[m] = proposals[i]

SelectedInv ==
    \A k \in ProposalKeys : selected[k] # None =>
        /\ \E i \in DOMAIN proposals : proposals[i].key = k /\ Chosen(proposals[i]) = selected[k]
        /\ \A m \in DOMAIN left : left[m].key = k => left[m].source <= selected[k].source

Disagreement == \E k \in ProposalKeys : \E i, j \in Top(k) : proposals[i].value # proposals[j].value

SelectionInv ==
    /\ SelectionTypeInv /\ LeftInv
    /\ outcome \in {"selecting", "selected"} => SeenInv /\ SelectedInv
    /\ outcome = "selected" => left = <<>>
    /\ outcome = "conflict" => Disagreement

LEMMA SelectionInitInv == SelectionInit => SelectionInv
<1> SUFFICES ASSUME SelectionInit PROVE SelectionInv
  OBVIOUS
<1>1. PICK n \in Nat : proposals \in [1..n -> Proposal]
  BY ProposalsAssumption DEF SelectionInit, Lists
<1>2. /\ left \in [1..n -> Proposal]
      /\ \A i \in 1..n : \E m \in 1..n : left[m] = proposals[i]
      /\ \A m \in 1..n : \E i \in 1..n : left[m] = proposals[i]
      /\ \A l, m \in 1..n : l < m => ~Precedes(left[m], left[l])
  BY <1>1, SortedIsSorted DEF SelectionInit
<1>3. DOMAIN left = 1..n /\ DOMAIN proposals = 1..n /\ left \in Seq(Proposal)
  BY <1>1, <1>2
<1>4. selected = [k \in ProposalKeys |-> None] /\ outcome = "selecting"
  BY DEF SelectionInit
<1>5. SelectionTypeInv
  BY <1>1, <1>3, <1>4 DEF SelectionTypeInv, None
<1>6. LeftInv
  BY <1>2, <1>3 DEF LeftInv
<1>7. SeenInv /\ SelectedInv
  BY <1>2, <1>3, <1>4 DEF SeenInv, SelectedInv
<1> QED
  BY <1>4, <1>5, <1>6, <1>7 DEF SelectionInv

LEMMA SelectKeeps == ASSUME SelectionInv, Select PROVE SelectionInv'
<1> DEFINE p == Head(left)
<1> DEFINE existing == selected[p.key]
<1>1. /\ outcome = "selecting" /\ left # <<>> /\ left \in Seq(Proposal)
      /\ left' = Tail(left) /\ proposals' = proposals
  BY DEF Select, SelectionInv, SelectionTypeInv
<1>2. /\ p = left[1] /\ p \in Proposal /\ 1 \in DOMAIN left
      /\ left' \in Seq(Proposal)
      /\ \A m \in DOMAIN left' : m + 1 \in DOMAIN left /\ left'[m] = left[m + 1]
      /\ \A m \in DOMAIN left : m = 1 \/ (m - 1 \in DOMAIN left' /\ left'[m - 1] = left[m])
  BY <1>1
<1>3. p.key \in ProposalKeys /\ p.source \in Nat /\ p.value \in Values /\ p.required \in BOOLEAN
  BY <1>2, ProposalsAssumption DEF Proposal
<1>4. \A m \in DOMAIN left : left[m] \in Proposal
  BY <1>1
<1>i. LeftInv /\ SeenInv /\ SelectedInv /\ SelectionTypeInv
  BY <1>1 DEF SelectionInv
<1>5. LeftInv'
  <2>1. \A m \in DOMAIN left' : \E i \in DOMAIN proposals : left'[m] = proposals[i]
    BY <1>2, <1>i DEF LeftInv
  <2>2. ASSUME NEW l \in DOMAIN left', NEW m \in DOMAIN left', l < m
        PROVE  ~Precedes(left'[m], left'[l])
    <3>1. l + 1 < m + 1 /\ l + 1 \in DOMAIN left /\ m + 1 \in DOMAIN left
          /\ left'[l] = left[l + 1] /\ left'[m] = left[m + 1]
      BY <1>2, <2>2
    <3>2. \A i, j \in DOMAIN left : i < j => ~Precedes(left[j], left[i])
      BY <1>i DEF LeftInv
    <3> QED
      BY <3>1, <3>2
  <2> QED
    BY <1>1, <2>1, <2>2 DEF LeftInv
<1>6. \A m \in DOMAIN left' : left'[m].key = p.key => left'[m].source <= p.source
  <2> SUFFICES ASSUME NEW m \in DOMAIN left', left'[m].key = p.key PROVE left'[m].source <= p.source
    OBVIOUS
  <2>1. m + 1 \in DOMAIN left /\ left'[m] = left[m + 1] /\ 1 < m + 1 /\ left[m + 1] \in Proposal
    BY <1>2, <1>4
  <2>2. ~Precedes(left[m + 1], left[1])
    BY <2>1, <1>2, <1>i DEF LeftInv
  <2>3. left[m + 1].source \in Nat
    BY <2>1, ProposalsAssumption DEF Proposal
  <2> QED
    BY <2>1, <2>2, <2>3, <1>2, <1>3 DEF Precedes
<1> HIDE DEF p
<1>7. PICK q \in DOMAIN proposals : proposals[q] = p
  BY <1>2, <1>i DEF LeftInv
<1>8. Chosen(p) # None
  BY <1>3, ProposalsAssumption DEF Chosen, None
<1>9. CASE existing = None /\ selected' = [selected EXCEPT ![p.key] = Chosen(p)] /\ outcome' = outcome
  <2>1. /\ selected'[p.key] = Chosen(p) /\ DOMAIN selected = ProposalKeys
        /\ \A k \in ProposalKeys : k # p.key => selected'[k] = selected[k]
    BY <1>9, <1>3, <1>i DEF SelectionTypeInv
  <2>2. SelectionTypeInv'
    BY <1>1, <1>2, <1>3, <1>9, <1>i DEF SelectionTypeInv, Chosen
  <2>3. Chosen(p).source = p.source /\ Chosen(p).value = p.value
    BY DEF Chosen
  <2>4. SeenInv'
    <3> SUFFICES ASSUME NEW i \in DOMAIN proposals
                 PROVE  Settled(proposals[i])' \/ \E m \in DOMAIN left' : left'[m] = proposals[i]
      BY <1>1 DEF SeenInv
    <3>k. proposals[i].key \in ProposalKeys
      BY <1>i DEF SelectionTypeInv, Proposal
    <3>1. CASE Settled(proposals[i])
      <4>1. proposals[i].key # p.key
        BY <3>1, <1>9 DEF Settled
      <4> QED
        BY <3>1, <3>k, <4>1, <2>1, <1>1 DEF Settled
    <3>2. CASE proposals[i] = p
      BY <3>2, <2>1, <2>3, <1>1, <1>3, <1>8 DEF Settled
    <3>3. CASE \E m \in DOMAIN left : m # 1 /\ left[m] = proposals[i]
      BY <3>3, <1>2
    <3> QED
      BY <3>1, <3>2, <3>3, <1>i, <1>2 DEF SeenInv
  <2>5. SelectedInv'
    <3> SUFFICES ASSUME NEW k \in ProposalKeys, selected'[k] # None
                 PROVE  /\ \E i \in DOMAIN proposals : proposals[i].key = k /\ Chosen(proposals[i]) = selected'[k]
                        /\ \A m \in DOMAIN left' : left'[m].key = k => left'[m].source <= selected'[k].source
      BY <1>1 DEF SelectedInv
    <3>1. CASE k = p.key
      BY <3>1, <1>6, <1>7, <2>1, <2>3
    <3>2. CASE k # p.key
      BY <3>2, <1>2, <2>1, <1>i DEF SelectedInv
    <3> QED
      BY <3>1, <3>2
  <2> QED
    BY <1>1, <1>5, <1>9, <2>2, <2>4, <2>5 DEF SelectionInv
<1>10. ASSUME existing # None
       PROVE  p.source <= existing.source /\ existing.source \in Nat
  <2>1. \A m \in DOMAIN left : left[m].key = p.key => left[m].source <= selected[p.key].source
    BY <1>10, <1>3, <1>i DEF SelectedInv
  <2>2. existing.source \in Nat
    BY <1>3, <1>i DEF SelectionTypeInv
  <2> QED
    BY <1>2, <2>1, <2>2
<1>11. CASE /\ existing # None
            /\ existing.value = p.value \/ existing.source > p.source
            /\ UNCHANGED <<selected, outcome>>
  <2>1. Settled(p)
    BY <1>3, <1>10, <1>11 DEF Settled
  <2>2. SeenInv'
    <3> SUFFICES ASSUME NEW i \in DOMAIN proposals
                 PROVE  Settled(proposals[i])' \/ \E m \in DOMAIN left' : left'[m] = proposals[i]
      BY <1>1 DEF SeenInv
    <3>1. CASE Settled(proposals[i]) \/ proposals[i] = p
      BY <3>1, <2>1, <1>1, <1>11 DEF Settled
    <3>2. CASE \E m \in DOMAIN left : m # 1 /\ left[m] = proposals[i]
      BY <3>2, <1>2
    <3> QED
      BY <3>1, <3>2, <1>i, <1>2 DEF SeenInv
  <2>3. SelectedInv'
    BY <1>1, <1>2, <1>11, <1>i DEF SelectedInv
  <2>4. SelectionTypeInv'
    BY <1>1, <1>2, <1>11, <1>i DEF SelectionTypeInv
  <2> QED
    BY <1>1, <1>5, <1>11, <2>2, <2>3, <2>4 DEF SelectionInv
<1>12. CASE /\ existing # None /\ existing.value # p.value /\ existing.source = p.source
            /\ outcome' = "conflict" /\ UNCHANGED selected
  <2>1. PICK c \in DOMAIN proposals : proposals[c].key = p.key /\ Chosen(proposals[c]) = existing
    BY <1>3, <1>12, <1>i DEF SelectedInv
  <2>2. proposals[c].source = p.source /\ proposals[c].value # p.value
    BY <1>12, <2>1 DEF Chosen
  <2>3. ASSUME NEW j \in Of(p.key) PROVE proposals[j].source <= p.source
    <3>1. j \in DOMAIN proposals /\ proposals[j].key = p.key
      BY DEF Of
    <3>2. CASE Settled(proposals[j])
      BY <3>1, <3>2, <1>12 DEF Settled
    <3>3. CASE \E m \in DOMAIN left : left[m] = proposals[j]
      <4>1. \A m \in DOMAIN left : left[m].key = p.key => left[m].source <= selected[p.key].source
        BY <1>12, <1>3, <1>i DEF SelectedInv
      <4> QED
        BY <3>1, <3>3, <4>1, <1>12
    <3> QED
      BY <3>1, <3>2, <3>3, <1>i DEF SeenInv
  <2>4. c \in Top(p.key) /\ q \in Top(p.key)
    BY <1>7, <2>1, <2>2, <2>3 DEF Top, Of
  <2>5. Disagreement
    BY <1>3, <1>7, <2>2, <2>4 DEF Disagreement
  <2>6. Disagreement'
    BY <1>1, <2>5 DEF Disagreement, Top, Of
  <2>7. SelectionTypeInv'
    BY <1>1, <1>2, <1>12, <1>i DEF SelectionTypeInv
  <2> QED
    BY <1>5, <1>12, <2>6, <2>7 DEF SelectionInv
<1>13. \/ existing = None /\ selected' = [selected EXCEPT ![p.key] = Chosen(p)] /\ outcome' = outcome
       \/ /\ existing # None
          /\ existing.value = p.value \/ existing.source > p.source
          /\ UNCHANGED <<selected, outcome>>
       \/ /\ existing # None /\ existing.value # p.value /\ existing.source = p.source
          /\ outcome' = "conflict" /\ UNCHANGED selected
  BY Zenon DEF Select, p
<1> QED
  BY <1>9, <1>11, <1>12, <1>13

LEMMA FinishKeeps == ASSUME SelectionInv, Selected PROVE SelectionInv'
<1>1. outcome' = "selected" /\ UNCHANGED <<proposals, left, selected>> /\ outcome = "selecting" /\ left = <<>>
  BY DEF Selected
<1>2. (SelectionTypeInv /\ LeftInv /\ SeenInv /\ SelectedInv)'
  BY <1>1 DEF SelectionInv, SelectionTypeInv, LeftInv, SeenInv, SelectedInv, Settled
<1> QED
  BY <1>1, <1>2 DEF SelectionInv

LEMMA SelectionTrusts == ASSUME SelectionInv PROVE TrustedLayerWins
<1>1. ASSUME outcome = "selected", NEW k \in ProposalKeys, NEW i \in Top(k)
      PROVE  selected[k].value = proposals[i].value
  <2>1. i \in DOMAIN proposals /\ proposals[i].key = k /\ SelectedInv /\ SelectionTypeInv
    BY <1>1 DEF Top, Of, SelectionInv
  <2>2. Settled(proposals[i])
    BY <1>1, <2>1 DEF SelectionInv, SeenInv
  <2>3. PICK c \in DOMAIN proposals : proposals[c].key = k /\ Chosen(proposals[c]) = selected[k]
    BY <2>1, <2>2 DEF SelectedInv, Settled
  <2>4. proposals[c].source <= proposals[i].source
    BY <2>3 DEF Top, Of
  <2>5. proposals[c].source = selected[k].source
    BY <2>3 DEF Chosen
  <2>6. selected[k].source \in Nat /\ proposals[i].source \in Nat
    BY <2>1, ProposalsAssumption DEF SelectionTypeInv, Proposal
  <2> QED
    BY <2>1, <2>2, <2>4, <2>5, <2>6 DEF Settled
<1>2. outcome = "conflict" => Disagreement
  BY DEF SelectionInv
<1> QED
  BY <1>1, <1>2 DEF TrustedLayerWins, Disagreement

(* select_proposals selects, for every key, the value the most trusted layer *)
(* names, and ends in a conflict exactly when that layer contradicts itself. *)
THEOREM TrustedLayerIsSelected == SelectionSpec => []TrustedLayerWins
<1>1. ASSUME SelectionInv, [SelectionNext]_selectionVars PROVE SelectionInv'
  <2>1. CASE UNCHANGED selectionVars
    BY <1>1, <2>1 DEF selectionVars, SelectionInv, SelectionTypeInv, LeftInv, SeenInv, SelectedInv,
                     Settled, Disagreement, Top, Of
  <2> QED
    BY <1>1, <2>1, SelectKeeps, FinishKeeps DEF SelectionNext
<1> QED
  BY <1>1, SelectionInitInv, SelectionTrusts, PTL DEF SelectionSpec

-----------------------------------------------------------------------------
(* The gates of resolve_spec.  No gate admits a mutation by failing, so a    *)
(* mutation is admitted exactly when every gate of every list passes.        *)

Refusals ==
    {"Preserved", "Unsupported", "CapabilityDenied", "Indeterminate", "ExperimentalDisabled",
     "ExplicitOptInRequired", "NoOp", "DeniedByPolicy", "Rejected"}
Gates == [fails : BOOLEAN, action : Refusals]
Passes(gates) == \A i \in DOMAIN gates : ~gates[i].fails

LEMMA JoinedGates ==
    ASSUME NEW g \in Seq(Gates), NEW h \in Seq(Gates)
    PROVE  /\ g \o h \in Seq(Gates)
           /\ Passes(g \o h) <=> Passes(g) /\ Passes(h)
<1>1. /\ g \o h \in Seq(Gates)
      /\ DOMAIN (g \o h) = 1..(Len(g) + Len(h))
      /\ DOMAIN g = 1..Len(g) /\ DOMAIN h = 1..Len(h)
      /\ Len(g) \in Nat /\ Len(h) \in Nat
  OBVIOUS
<1>2. \A i \in DOMAIN g : i \in DOMAIN (g \o h) /\ (g \o h)[i] = g[i]
  BY <1>1
<1>3. \A i \in DOMAIN h : Len(g) + i \in DOMAIN (g \o h) /\ (g \o h)[Len(g) + i] = h[i]
  BY <1>1
<1>4. \A i \in DOMAIN (g \o h) :
        \/ i \in DOMAIN g /\ (g \o h)[i] = g[i]
        \/ i - Len(g) \in DOMAIN h /\ (g \o h)[i] = h[i - Len(g)]
  BY <1>1
<1>5. Passes(g \o h) => Passes(g) /\ Passes(h)
  BY <1>2, <1>3 DEF Passes
<1>6. Passes(g) /\ Passes(h) => Passes(g \o h)
  BY <1>4 DEF Passes
<1> QED
  BY <1>1, <1>5, <1>6

LEMMA FirstFailingAdmits ==
    ASSUME NEW g \in Seq(Gates)
    PROVE  FirstFailing(g, "Mutation") = "Mutation" <=> Passes(g)
<1> DEFINE failing == {i \in DOMAIN g : g[i].fails}
<1>1. FirstFailing(g, "Mutation") = IF failing = {} THEN "Mutation" ELSE g[Min(failing)].action
  BY DEF FirstFailing
<1>2. CASE failing = {}
  <2>1. Passes(g)
    BY <1>2 DEF Passes
  <2> QED
    BY <1>1, <1>2, <2>1
<1>3. CASE failing # {}
  <2>1. failing \subseteq Nat
    OBVIOUS
  <2>2. Min(failing) \in failing
    <3> HIDE DEF failing
    <3> QED
      BY <1>3, <2>1, LeastOf
  <2>3. g[Min(failing)].action # "Mutation"
    <3>1. Min(failing) \in DOMAIN g
      BY <2>2
    <3> HIDE DEF failing
    <3>2. g[Min(failing)] \in Gates
      BY <3>1
    <3> QED
      BY <3>2 DEF Gates, Refusals
  <2>4. ~Passes(g)
    BY <1>3 DEF Passes
  <2> QED
    BY <1>1, <1>3, <2>3, <2>4
<1> QED
  BY <1>2, <1>3

LEMMA FourGates ==
    ASSUME NEW a \in Gates, NEW b \in Gates, NEW c \in Gates, NEW d \in Gates
    PROVE  /\ <<a, b, c, d>> \in Seq(Gates)
           /\ Passes(<<a, b, c, d>>) <=> ~a.fails /\ ~b.fails /\ ~c.fails /\ ~d.fails
BY DEF Passes

LEMMA SixGates ==
    ASSUME NEW a \in Gates, NEW b \in Gates, NEW c \in Gates,
           NEW d \in Gates, NEW e \in Gates, NEW f \in Gates
    PROVE  /\ <<a, b, c, d, e, f>> \in Seq(Gates)
           /\ Passes(<<a, b, c, d, e, f>>) <=>
                ~a.fails /\ ~b.fails /\ ~c.fails /\ ~d.fails /\ ~e.fails /\ ~f.fails
BY DEF Passes

(* What each list asks of the input, gate by gate. *)
LEMMA InputGatesPass ==
    ASSUME NEW in
    PROVE  LET d == DescriptorIndex(in.descriptors)
           IN
           /\ InputGates(in) \in Seq(Gates)
           /\ Passes(InputGates(in)) <=>
                /\ ~(~in.policy.timeout)
                /\ ~(in.contract.present /\ ~in.contract.valid)
                /\ ~(in.proposal.present /\ ~in.proposal.matches)
                /\ ~(in.feature \in DOMAIN CustomSpec /\ d.present /\ ~d.agrees)
<1> DEFINE d == DescriptorIndex(in.descriptors)
<1> DEFINE g1 == Gate(~in.policy.timeout, "Rejected")
<1> DEFINE g2 == Gate(in.contract.present /\ ~in.contract.valid, "Rejected")
<1> DEFINE g3 == Gate(in.proposal.present /\ ~in.proposal.matches, "Rejected")
<1> DEFINE g4 == Gate(in.feature \in DOMAIN CustomSpec /\ d.present /\ ~d.agrees, "Rejected")
<1>1. /\ g1 \in Gates /\ (g1.fails <=> (~in.policy.timeout))
      /\ g2 \in Gates /\ (g2.fails <=> (in.contract.present /\ ~in.contract.valid))
      /\ g3 \in Gates /\ (g3.fails <=> (in.proposal.present /\ ~in.proposal.matches))
      /\ g4 \in Gates /\ (g4.fails <=> (in.feature \in DOMAIN CustomSpec /\ d.present /\ ~d.agrees))
  BY DEF Gate, Gates, Refusals
<1>2. InputGates(in) = <<g1, g2, g3, g4>>
  BY Zenon DEF InputGates
<1> HIDE DEF g1, g2, g3, g4
<1>3. /\ <<g1, g2, g3, g4>> \in Seq(Gates)
      /\ Passes(<<g1, g2, g3, g4>>) <=> ~g1.fails /\ ~g2.fails /\ ~g3.fails /\ ~g4.fails
  BY <1>1, FourGates
<1> QED
  BY <1>1, <1>2, <1>3, Zenon

LEMMA EvidenceGatesPass ==
    ASSUME NEW in
    PROVE  LET d == DescriptorIndex(in.descriptors)
           IN
           /\ EvidenceGates(in) \in Seq(Gates)
           /\ Passes(EvidenceGates(in)) <=>
                /\ ~(IsPreserved(in))
                /\ ~(~d.present \/ d.state = "Unsupported")
                /\ ~(d.state = "Denied")
                /\ ~(d.state = "Indeterminate")
                /\ ~(d.state = "ReadOnly" /\ Desired(in) \in Typed /\ Current(in) # Desired(in))
                /\ ~(Desired(in) = "unadvertised")
<1> DEFINE d == DescriptorIndex(in.descriptors)
<1> DEFINE g1 == Gate(IsPreserved(in), "Preserved")
<1> DEFINE g2 == Gate(~d.present \/ d.state = "Unsupported", "Unsupported")
<1> DEFINE g3 == Gate(d.state = "Denied", "CapabilityDenied")
<1> DEFINE g4 == Gate(d.state = "Indeterminate", "Indeterminate")
<1> DEFINE g5 == Gate(d.state = "ReadOnly" /\ Desired(in) \in Typed /\ Current(in) # Desired(in), "Unsupported")
<1> DEFINE g6 == Gate(Desired(in) = "unadvertised", "Unsupported")
<1>1. /\ g1 \in Gates /\ (g1.fails <=> (IsPreserved(in)))
      /\ g2 \in Gates /\ (g2.fails <=> (~d.present \/ d.state = "Unsupported"))
      /\ g3 \in Gates /\ (g3.fails <=> (d.state = "Denied"))
      /\ g4 \in Gates /\ (g4.fails <=> (d.state = "Indeterminate"))
      /\ g5 \in Gates /\ (g5.fails <=> (d.state = "ReadOnly" /\ Desired(in) \in Typed /\ Current(in) # Desired(in)))
      /\ g6 \in Gates /\ (g6.fails <=> (Desired(in) = "unadvertised"))
  BY DEF Gate, Gates, Refusals, IsPreserved
<1>2. EvidenceGates(in) = <<g1, g2, g3, g4, g5, g6>>
  BY Zenon DEF EvidenceGates
<1> HIDE DEF g1, g2, g3, g4, g5, g6
<1>3. /\ <<g1, g2, g3, g4, g5, g6>> \in Seq(Gates)
      /\ Passes(<<g1, g2, g3, g4, g5, g6>>) <=> ~g1.fails /\ ~g2.fails /\ ~g3.fails /\ ~g4.fails /\ ~g5.fails /\ ~g6.fails
  BY <1>1, SixGates
<1> QED
  BY <1>1, <1>2, <1>3, Zenon

LEMMA IntentGatesPass ==
    ASSUME NEW in
    PROVE  LET unwanted == Desired(in) = "none"
               status == ExperimentalStatus(in)
           IN
           /\ IntentGates(in) \in Seq(Gates)
           /\ Passes(IntentGates(in)) <=>
                /\ ~(unwanted /\ status = "Disabled")
                /\ ~(unwanted /\ SpecOf(in.feature).extreme /\ in.policy.profile = "Extreme" /\ status = "OptInRequired")
                /\ ~(unwanted)
                /\ ~(Current(in) = Desired(in))
<1> DEFINE unwanted == Desired(in) = "none"
<1> DEFINE status == ExperimentalStatus(in)
<1> DEFINE g1 == Gate(unwanted /\ status = "Disabled", "ExperimentalDisabled")
<1> DEFINE g2 == Gate(unwanted /\ SpecOf(in.feature).extreme /\ in.policy.profile = "Extreme" /\ status = "OptInRequired", "ExplicitOptInRequired")
<1> DEFINE g3 == Gate(unwanted, "Preserved")
<1> DEFINE g4 == Gate(Current(in) = Desired(in), "NoOp")
<1>1. /\ g1 \in Gates /\ (g1.fails <=> (unwanted /\ status = "Disabled"))
      /\ g2 \in Gates /\ (g2.fails <=> (unwanted /\ SpecOf(in.feature).extreme /\ in.policy.profile = "Extreme" /\ status = "OptInRequired"))
      /\ g3 \in Gates /\ (g3.fails <=> (unwanted))
      /\ g4 \in Gates /\ (g4.fails <=> (Current(in) = Desired(in)))
  BY DEF Gate, Gates, Refusals
<1>2. IntentGates(in) = <<g1, g2, g3, g4>>
  BY Zenon DEF IntentGates
<1> HIDE DEF g1, g2, g3, g4
<1>3. /\ <<g1, g2, g3, g4>> \in Seq(Gates)
      /\ Passes(<<g1, g2, g3, g4>>) <=> ~g1.fails /\ ~g2.fails /\ ~g3.fails /\ ~g4.fails
  BY <1>1, FourGates
<1> QED
  BY <1>1, <1>2, <1>3, Zenon

LEMMA PolicyGatesPass ==
    ASSUME NEW in
    PROVE  /\ PolicyGates(in) \in Seq(Gates)
           /\ Passes(PolicyGates(in)) <=>
                /\ ~(in.policy.mode = "Report")
                /\ ~(ExperimentalStatus(in) = "Disabled")
                /\ ~(ExperimentalStatus(in) = "OptInRequired")
                /\ ~(~in.contract.present)
<1> DEFINE g1 == Gate(in.policy.mode = "Report", "DeniedByPolicy")
<1> DEFINE g2 == Gate(ExperimentalStatus(in) = "Disabled", "ExperimentalDisabled")
<1> DEFINE g3 == Gate(ExperimentalStatus(in) = "OptInRequired", "ExplicitOptInRequired")
<1> DEFINE g4 == Gate(~in.contract.present, "Unsupported")
<1>1. /\ g1 \in Gates /\ (g1.fails <=> (in.policy.mode = "Report"))
      /\ g2 \in Gates /\ (g2.fails <=> (ExperimentalStatus(in) = "Disabled"))
      /\ g3 \in Gates /\ (g3.fails <=> (ExperimentalStatus(in) = "OptInRequired"))
      /\ g4 \in Gates /\ (g4.fails <=> (~in.contract.present))
  BY DEF Gate, Gates, Refusals
<1>2. PolicyGates(in) = <<g1, g2, g3, g4>>
  BY Zenon DEF PolicyGates
<1> HIDE DEF g1, g2, g3, g4
<1>3. /\ <<g1, g2, g3, g4>> \in Seq(Gates)
      /\ Passes(<<g1, g2, g3, g4>>) <=> ~g1.fails /\ ~g2.fails /\ ~g3.fails /\ ~g4.fails
  BY <1>1, FourGates
<1> QED
  BY <1>1, <1>2, <1>3, Zenon

LEMMA ContractGatesPass ==
    ASSUME NEW in, in.contract.risk \in Nat, in.policy.maxRisk \in Nat
    PROVE  LET d == DescriptorIndex(in.descriptors)
           IN
           /\ ContractGates(in) \in Seq(Gates)
           /\ Passes(ContractGates(in)) <=>
                /\ ~(in.contract.optIn /\ ~in.policy.optedIn)
                /\ ~(in.contract.parts # ContractParts)
                /\ ~(in.contract.backend # d.backend \/ in.contract.class # d.class \/ ~in.contract.agrees \/ ~d.agrees)
                /\ ~(in.contract.risk > in.policy.maxRisk)
<1> DEFINE d == DescriptorIndex(in.descriptors)
<1> DEFINE g1 == Gate(in.contract.optIn /\ ~in.policy.optedIn, "ExplicitOptInRequired")
<1> DEFINE g2 == Gate(in.contract.parts # ContractParts, "Rejected")
<1> DEFINE g3 == Gate(in.contract.backend # d.backend \/ in.contract.class # d.class \/ ~in.contract.agrees \/ ~d.agrees, "Rejected")
<1> DEFINE g4 == Gate(in.contract.risk > in.policy.maxRisk, "DeniedByPolicy")
<1>h. g4 \in Gates /\ (g4.fails <=> in.contract.risk > in.policy.maxRisk)
  <2> DEFINE high == in.contract.risk > in.policy.maxRisk
  <2>1. high \in BOOLEAN
    OBVIOUS
  <2> HIDE DEF high
  <2>2. Gate(high, "DeniedByPolicy") \in Gates /\ (Gate(high, "DeniedByPolicy").fails = high)
    BY <2>1 DEF Gate, Gates, Refusals
  <2> QED
    BY <2>2, Zenon DEF high
<1>1. /\ g1 \in Gates /\ (g1.fails <=> (in.contract.optIn /\ ~in.policy.optedIn))
      /\ g2 \in Gates /\ (g2.fails <=> (in.contract.parts # ContractParts))
      /\ g3 \in Gates /\ (g3.fails <=> (in.contract.backend # d.backend \/ in.contract.class # d.class \/ ~in.contract.agrees \/ ~d.agrees))
  BY DEF Gate, Gates, Refusals
<1>2. ContractGates(in) = <<g1, g2, g3, g4>>
  BY Zenon DEF ContractGates
<1> HIDE DEF g1, g2, g3, g4
<1>3. /\ <<g1, g2, g3, g4>> \in Seq(Gates)
      /\ Passes(<<g1, g2, g3, g4>>) <=> ~g1.fails /\ ~g2.fails /\ ~g3.fails /\ ~g4.fails
  BY <1>1, <1>h, FourGates
<1> QED
  BY <1>1, <1>2, <1>3, <1>h, Zenon

LEMMA FactGatesPass ==
    ASSUME NEW in
    PROVE  /\ FactGates(in) \in Seq(Gates)
           /\ Passes(FactGates(in)) <=>
                /\ ~(~in.fact.present)
                /\ ~(in.fact.value \notin Typed)
                /\ ~(~HasTarget(in))
                /\ ~(~in.fact.identity)
                /\ ~(~in.fact.fingerprint)
                /\ ~(~in.proposal.present /\ ~DefaultKind(in))
<1> DEFINE g1 == Gate(~in.fact.present, "Indeterminate")
<1> DEFINE g2 == Gate(in.fact.value \notin Typed, "Indeterminate")
<1> DEFINE g3 == Gate(~HasTarget(in), "Indeterminate")
<1> DEFINE g4 == Gate(~in.fact.identity, "Indeterminate")
<1> DEFINE g5 == Gate(~in.fact.fingerprint, "Indeterminate")
<1> DEFINE g6 == Gate(~in.proposal.present /\ ~DefaultKind(in), "Indeterminate")
<1>1. /\ g1 \in Gates /\ (g1.fails <=> (~in.fact.present))
      /\ g2 \in Gates /\ (g2.fails <=> (in.fact.value \notin Typed))
      /\ g3 \in Gates /\ (g3.fails <=> (~HasTarget(in)))
      /\ g4 \in Gates /\ (g4.fails <=> (~in.fact.identity))
      /\ g5 \in Gates /\ (g5.fails <=> (~in.fact.fingerprint))
      /\ g6 \in Gates /\ (g6.fails <=> (~in.proposal.present /\ ~DefaultKind(in)))
  BY DEF Gate, Gates, Refusals, HasTarget, DefaultKind
<1>2. FactGates(in) = <<g1, g2, g3, g4, g5, g6>>
  BY Zenon DEF FactGates
<1> HIDE DEF g1, g2, g3, g4, g5, g6
<1>3. /\ <<g1, g2, g3, g4, g5, g6>> \in Seq(Gates)
      /\ Passes(<<g1, g2, g3, g4, g5, g6>>) <=> ~g1.fails /\ ~g2.fails /\ ~g3.fails /\ ~g4.fails /\ ~g5.fails /\ ~g6.fails
  BY <1>1, SixGates
<1> QED
  BY <1>1, <1>2, <1>3, Zenon

(* A mutation is decided exactly when all six lists pass. *)
LEMMA DecisionAdmits ==
    ASSUME NEW in, in.contract.risk \in Nat, in.policy.maxRisk \in Nat
    PROVE  Decision(in) = "Mutation" <=>
              /\ Passes(InputGates(in)) /\ Passes(EvidenceGates(in)) /\ Passes(IntentGates(in))
              /\ Passes(PolicyGates(in)) /\ Passes(ContractGates(in)) /\ Passes(FactGates(in))
<1> DEFINE g2 == InputGates(in) \o EvidenceGates(in)
<1> DEFINE g3 == g2 \o IntentGates(in)
<1> DEFINE g4 == g3 \o PolicyGates(in)
<1> DEFINE g5 == g4 \o ContractGates(in)
<1> DEFINE g6 == g5 \o FactGates(in)
<1>1. /\ InputGates(in) \in Seq(Gates) /\ EvidenceGates(in) \in Seq(Gates)
      /\ IntentGates(in) \in Seq(Gates) /\ PolicyGates(in) \in Seq(Gates)
      /\ ContractGates(in) \in Seq(Gates) /\ FactGates(in) \in Seq(Gates)
  BY InputGatesPass, EvidenceGatesPass, IntentGatesPass, PolicyGatesPass, ContractGatesPass,
     FactGatesPass, Zenon
<1>2. g2 \in Seq(Gates) /\ (Passes(g2) <=> Passes(InputGates(in)) /\ Passes(EvidenceGates(in)))
  BY <1>1, JoinedGates
<1> HIDE DEF g2
<1>3. g3 \in Seq(Gates) /\ (Passes(g3) <=> Passes(g2) /\ Passes(IntentGates(in)))
  BY <1>1, <1>2, JoinedGates
<1> HIDE DEF g3
<1>4. g4 \in Seq(Gates) /\ (Passes(g4) <=> Passes(g3) /\ Passes(PolicyGates(in)))
  BY <1>1, <1>3, JoinedGates
<1> HIDE DEF g4
<1>5. g5 \in Seq(Gates) /\ (Passes(g5) <=> Passes(g4) /\ Passes(ContractGates(in)))
  BY <1>1, <1>4, JoinedGates
<1> HIDE DEF g5
<1>6. g6 \in Seq(Gates) /\ (Passes(g6) <=> Passes(g5) /\ Passes(FactGates(in)))
  BY <1>1, <1>5, JoinedGates
<1> HIDE DEF g6
<1>7. Decision(in) = FirstFailing(g6, "Mutation")
  BY Zenon DEF Decision, g2, g3, g4, g5, g6
<1> QED
  BY <1>2, <1>3, <1>4, <1>5, <1>6, <1>7, FirstFailingAdmits

-----------------------------------------------------------------------------
(* What is wanted of a feature is a value the planner can type, nothing, or  *)
(* something the interface does not offer.                                   *)
LEMMA ChooseOffers ==
    ASSUME NEW fact, NEW candidates \in Seq(Typed)
    PROVE  Choose(fact, candidates) \in Typed \cup {"none", "unadvertised"}
<1> DEFINE offered == {i \in DOMAIN candidates :
                          fact.supported = {} \/ candidates[i] \in fact.supported}
<1>1. offered # {} => Min(offered) \in DOMAIN candidates
  <2>1. offered \subseteq Nat /\ offered \subseteq DOMAIN candidates
    OBVIOUS
  <2> HIDE DEF offered
  <2> QED
    BY <2>1, LeastOf
<1>2. Choose(fact, candidates) =
        IF ~fact.present THEN "none"
        ELSE IF offered = {} THEN "unadvertised" ELSE candidates[Min(offered)]
  BY DEF Choose
<1> HIDE DEF offered
<1> QED
  BY <1>1, <1>2

LEMMA DesiredIsTyped ==
    ASSUME NEW in, in.proposal.value \in Typed
    PROVE  Desired(in) \in Typed \cup {"none", "unadvertised"}
<1> DEFINE spec == SpecOf(in.feature)
<1> DEFINE wanted == Choose(in.fact, Intent(in.policy.profile))
<1> DEFINE performance == Choose(in.fact, <<"high">>)
<1>1. Intent(in.policy.profile) \in Seq(Typed) /\ <<"high">> \in Seq(Typed) /\ "high" \in Typed
  <2>1. "high" \in Typed /\ "mid" \in Typed /\ "low" \in Typed
    BY DEF Typed
  <2>2. <<"high">> \in Seq(Typed) /\ <<"mid", "low">> \in Seq(Typed)
    BY <2>1
  <2> QED
    BY <2>1, <2>2 DEF Intent
<1>2. /\ wanted \in Typed \cup {"none", "unadvertised"}
      /\ performance \in Typed \cup {"none", "unadvertised"}
  BY <1>1, ChooseOffers
<1> HIDE DEF wanted, performance
<1>3. ProfileDesired(in.policy.profile, spec, in.fact) \in {wanted, performance, "high", "none"}
  BY DEF ProfileDesired, wanted, performance
<1>4. ProfileDesired(in.policy.profile, spec, in.fact) \in Typed \cup {"none", "unadvertised"}
  BY <1>1, <1>2, <1>3
<1> QED
  BY <1>4 DEF Desired

(* The inputs the environment can build. *)
Parts == {"policy", "proposal", "fact", "contract"}

InputOK(in) ==
    /\ DOMAIN in = {"feature", "policy", "proposal", "descriptors", "fact", "contract"}
    /\ \A part \in Parts : DOMAIN in[part] = DOMAIN Domains[part]
    /\ in.proposal.value \in Typed
    /\ in.policy.maxRisk \in Nat
    /\ in.contract.risk \in Nat

LEMMA FinalizedAdmits ==
    ASSUME NEW in
    PROVE  Finalized(in) = "Mutation" <=>
              Decision(in) = "Mutation" /\ ~(in.proposal.present /\ ~in.proposal.wellFormed)
BY Zenon DEF Finalized, ResolveSpec

(* An admitted mutation has all that Plan::validate asks of it. *)
LEMMA AdmittedItem ==
    ASSUME NEW in, InputOK(in), ItemOf(in).evidence
    PROVE  ItemValid(ItemOf(in))
<1> SUFFICES ASSUME ItemOf(in).action = "Mutation"
             PROVE  /\ ItemOf(in).target /\ ItemOf(in).identity
                    /\ ItemOf(in).current # "none" /\ ItemOf(in).desired \in Typed
                    /\ {"snapshot", "restore", "verification"} \subseteq ItemOf(in).parts
  BY Zenon DEF ItemValid
<1>1. /\ ItemOf(in).action = Finalized(in)
      /\ ItemOf(in).current = Current(in)
      /\ ItemOf(in).desired = Desired(in)
      /\ ItemOf(in).target = HasTarget(in)
      /\ ItemOf(in).identity = (in.fact.present /\ in.fact.identity)
      /\ ItemOf(in).parts = IF Finalized(in) = "Mutation" THEN in.contract.parts ELSE {}
  BY DEF ItemOf
<1>2. Decision(in) = "Mutation" /\ in.contract.risk \in Nat /\ in.policy.maxRisk \in Nat
  BY <1>1, FinalizedAdmits DEF InputOK
<1>3. /\ Passes(EvidenceGates(in)) /\ Passes(IntentGates(in))
      /\ Passes(ContractGates(in)) /\ Passes(FactGates(in))
  BY <1>2, DecisionAdmits
<1>4. Desired(in) # "unadvertised"
  BY <1>3, EvidenceGatesPass, Zenon
<1>5. Desired(in) # "none"
  BY <1>3, IntentGatesPass, Zenon
<1>6. in.contract.parts = ContractParts
  BY <1>2, <1>3, ContractGatesPass, Zenon
<1>7. in.fact.present /\ in.fact.value \in Typed /\ HasTarget(in) /\ in.fact.identity
  BY <1>3, FactGatesPass, Zenon
<1>8. Desired(in) \in Typed
  BY <1>4, <1>5, DesiredIsTyped DEF InputOK
<1>9. Current(in) # "none"
  BY <1>7 DEF Current, Typed
<1>10. {"snapshot", "restore", "verification"} \subseteq ContractParts
  BY DEF ContractParts
<1> QED
  BY <1>1, <1>6, <1>7, <1>8, <1>9, <1>10

(* How a tighter policy differs. *)
LEMMA TighterPolicies ==
    ASSUME NEW old, DOMAIN old = DOMAIN Domains.policy, NEW p \in Tighter(old)
    PROVE  /\ p.profile = old.profile /\ p.timeout = old.timeout
           /\ p.mode = old.mode \/ p.mode = "Report"
           /\ p.maxRisk = old.maxRisk \/ p.maxRisk = 0
           /\ p.experimental = old.experimental \/ p.experimental = FALSE
           /\ p.optedIn = old.optedIn \/ p.optedIn = FALSE
           /\ \A x \in {"family", "thisTarget"} : x \in old.preserves => x \in p.preserves
<1>1. DOMAIN old = {"profile", "mode", "maxRisk", "experimental", "requiredDefault", "optedIn",
                    "timeout", "preserves"}
  BY DEF Domains
<1>2. CASE p = [old EXCEPT !.mode = "Report"]
  BY <1>1, <1>2
<1>3. CASE p = [old EXCEPT !.maxRisk = 0]
  BY <1>1, <1>3
<1>4. CASE p = [old EXCEPT !.experimental = FALSE]
  BY <1>1, <1>4
<1>5. CASE p = [old EXCEPT !.optedIn = FALSE]
  BY <1>1, <1>5
<1>6. CASE p = [old EXCEPT !.preserves = @ \cup {"family"}]
  BY <1>1, <1>6
<1>7. CASE p = [old EXCEPT !.preserves = @ \cup {"thisTarget"}]
  BY <1>1, <1>7
<1> QED
  BY <1>2, <1>3, <1>4, <1>5, <1>6, <1>7 DEF Tighter

(* What a tighter policy admits, the policy itself admits: whatever gate of  *)
(* the policy fails, the same gate fails under the tighter one.              *)
LEMMA TighterAdmitsLess ==
    ASSUME NEW in, InputOK(in), NEW p \in Tighter(in.policy),
           Finalized([in EXCEPT !.policy = p]) = "Mutation"
    PROVE  Finalized(in) = "Mutation"
<1> DEFINE jn == [in EXCEPT !.policy = p]
<1>1. /\ jn.policy = p /\ jn.feature = in.feature /\ jn.proposal = in.proposal
      /\ jn.descriptors = in.descriptors /\ jn.fact = in.fact /\ jn.contract = in.contract
  BY DEF InputOK
<1>2. Finalized(jn) = "Mutation"
  OBVIOUS
<1> HIDE DEF jn
<1>d. DOMAIN in.policy = DOMAIN Domains.policy
  BY DEF InputOK, Parts
<1>3. /\ p.profile = in.policy.profile /\ p.timeout = in.policy.timeout
      /\ p.mode = in.policy.mode \/ p.mode = "Report"
      /\ p.maxRisk = in.policy.maxRisk \/ p.maxRisk = 0
      /\ p.experimental = in.policy.experimental \/ p.experimental = FALSE
      /\ p.optedIn = in.policy.optedIn \/ p.optedIn = FALSE
      /\ \A x \in {"family", "thisTarget"} : x \in in.policy.preserves => x \in p.preserves
  BY <1>d, TighterPolicies
<1>n. /\ in.contract.risk \in Nat /\ in.policy.maxRisk \in Nat
      /\ jn.contract.risk \in Nat /\ jn.policy.maxRisk \in Nat
  BY <1>1, <1>3 DEF InputOK
<1>4. Decision(jn) = "Mutation" /\ ~(in.proposal.present /\ ~in.proposal.wellFormed)
  BY <1>1, <1>2, FinalizedAdmits
<1>5. /\ Passes(InputGates(jn)) /\ Passes(EvidenceGates(jn)) /\ Passes(IntentGates(jn))
      /\ Passes(PolicyGates(jn)) /\ Passes(ContractGates(jn)) /\ Passes(FactGates(jn))
  BY <1>4, <1>n, DecisionAdmits
<1>6. /\ Desired(jn) = Desired(in) /\ Current(jn) = Current(in)
      /\ HasTarget(jn) = HasTarget(in) /\ DefaultKind(jn) = DefaultKind(in)
      /\ EffectiveClass(jn) = EffectiveClass(in)
  BY <1>1, <1>3, Zenon DEF Desired, Current, HasTarget, DefaultKind, EffectiveClass
<1>7. Passes(InputGates(in))
  BY <1>1, <1>3, <1>5, InputGatesPass, Zenon
<1>8. Passes(EvidenceGates(in))
  <2>1. ~IsPreserved(jn) => ~IsPreserved(in)
    BY <1>1, <1>3, <1>6 DEF IsPreserved
  <2> QED
    BY <1>1, <1>5, <1>6, <2>1, EvidenceGatesPass, Zenon
<1>9. Passes(IntentGates(in))
  BY <1>5, <1>6, IntentGatesPass, Zenon
<1>10. Passes(PolicyGates(in))
  <2>1. /\ jn.policy.mode # "Report" /\ jn.contract.present
        /\ ExperimentalStatus(jn) # "Disabled" /\ ExperimentalStatus(jn) # "OptInRequired"
    BY <1>5, PolicyGatesPass, Zenon
  <2>2. in.policy.mode # "Report" /\ in.contract.present
    BY <1>1, <1>3, <2>1
  <2>3. ExperimentalStatus(in) # "Disabled" /\ ExperimentalStatus(in) # "OptInRequired"
    <3>1. CASE EffectiveClass(in) # "Experimental" /\ ~IsExperimental(in.feature)
      BY <3>1 DEF ExperimentalStatus
    <3>2. CASE ~(EffectiveClass(in) # "Experimental" /\ ~IsExperimental(in.feature))
      <4>1. p.experimental /\ ~(SpecOf(in.feature).optIn /\ ~p.optedIn)
        BY <1>1, <1>6, <2>1, <3>2 DEF ExperimentalStatus
      <4>2. in.policy.experimental /\ ~(SpecOf(in.feature).optIn /\ ~in.policy.optedIn)
        BY <1>3, <4>1
      <4> QED
        BY <3>2, <4>2 DEF ExperimentalStatus
    <3> QED
      BY <3>1, <3>2
  <2> QED
    BY <2>2, <2>3, PolicyGatesPass, Zenon
<1>11. Passes(ContractGates(in))
  <2> DEFINE d == DescriptorIndex(in.descriptors)
  <2>1. /\ ~(in.contract.optIn /\ ~p.optedIn)
        /\ ~(in.contract.parts # ContractParts)
        /\ ~(\/ in.contract.backend # d.backend \/ in.contract.class # d.class
             \/ ~in.contract.agrees \/ ~d.agrees)
        /\ ~(in.contract.risk > p.maxRisk)
    BY <1>1, <1>5, <1>n, ContractGatesPass, Zenon
  <2>2. ~(in.contract.optIn /\ ~in.policy.optedIn)
    BY <1>3, <2>1
  <2>3. ~(in.contract.risk > in.policy.maxRisk)
    BY <1>3, <1>n, <2>1
  <2> QED
    BY <2>1, <2>2, <2>3, <1>n, ContractGatesPass, Zenon
<1>12. Passes(FactGates(in))
  BY <1>1, <1>5, <1>6, FactGatesPass, Zenon
<1>13. Decision(in) = "Mutation"
  BY <1>7, <1>8, <1>9, <1>10, <1>11, <1>12, <1>n, DecisionAdmits
<1> QED
  BY <1>4, <1>13, FinalizedAdmits

(* The decision belongs to the input it was made for. *)
ResolverInv == InputOK(input) /\ (decision = Unresolved \/ decision = ItemOf(input))

LEMMA ResolverInitInv == ResolverInit => ResolverInv
<1> SUFFICES ASSUME ResolverInit PROVE ResolverInv
  OBVIOUS
<1>1. PICK f \in Features : input = GoodInput(f)
  BY DEF ResolverInit
<1>2. SpecOf(f).risk \in Nat
  BY FeaturesAssumption DEF SpecOf, FeatureSpec, CustomSpec, Row
<1>3. InputOK(input)
  <2>1. DOMAIN input = {"feature", "policy", "proposal", "descriptors", "fact", "contract"}
    BY <1>1 DEF GoodInput
  <2>2. DOMAIN input.policy = DOMAIN Domains.policy
    BY <1>1 DEF GoodInput, Domains
  <2>3. DOMAIN input.proposal = DOMAIN Domains.proposal
    BY <1>1 DEF GoodInput, Domains
  <2>4. DOMAIN input.fact = DOMAIN Domains.fact
    BY <1>1 DEF GoodInput, Domains
  <2>5. DOMAIN input.contract = DOMAIN Domains.contract
    BY <1>1 DEF GoodInput, GoodContract, Domains
  <2>6. input.proposal.value \in Typed /\ input.policy.maxRisk \in Nat
    BY <1>1 DEF GoodInput, Typed
  <2>7. input.contract.risk \in Nat
    BY <1>1, <1>2 DEF GoodInput, GoodContract
  <2> QED
    BY <2>1, <2>2, <2>3, <2>4, <2>5, <2>6, <2>7 DEF InputOK, Parts
<1> QED
  BY <1>3 DEF ResolverInit, ResolverInv

(* One field of one part changes. *)
LEMMA EditedInput ==
    ASSUME NEW in, InputOK(in), NEW part \in Parts, NEW field \in DOMAIN Domains[part],
           NEW v \in Domains[part][field]
    PROVE  InputOK([in EXCEPT ![part][field] = v])
<1> DEFINE edited == [in[part] EXCEPT ![field] = v]
<1> DEFINE jn == [in EXCEPT ![part] = edited]
<1>1. [in EXCEPT ![part][field] = v] = jn
  OBVIOUS
<1>2. part \in DOMAIN in /\ DOMAIN jn = DOMAIN in /\ jn[part] = edited
      /\ \A other \in DOMAIN in : other # part => jn[other] = in[other]
  BY DEF InputOK, Parts
<1>3. DOMAIN in[part] = DOMAIN Domains[part]
  BY DEF InputOK
<1>4. /\ DOMAIN edited = DOMAIN in[part] /\ edited[field] = v
      /\ \A g \in DOMAIN in[part] : g # field => edited[g] = in[part][g]
  BY <1>3
<1> HIDE DEF edited, jn
<1>5. DOMAIN jn = {"feature", "policy", "proposal", "descriptors", "fact", "contract"}
  BY <1>2 DEF InputOK
<1>6. \A other \in Parts : DOMAIN jn[other] = DOMAIN Domains[other]
  BY <1>2, <1>3, <1>4 DEF InputOK, Parts
<1>7. jn.proposal.value \in Typed
  <2>1. CASE part = "proposal" /\ field = "value"
    BY <2>1, <1>2, <1>4 DEF Domains, Typed
  <2>2. CASE part = "proposal" /\ field # "value"
    <3>1. "value" \in DOMAIN in["proposal"] /\ in.proposal.value \in Typed
      BY <1>3, <2>2 DEF Domains, InputOK
    <3> QED
      BY <2>2, <3>1, <1>2, <1>4
  <2>3. CASE part # "proposal"
    BY <2>3, <1>2 DEF InputOK
  <2> QED
    BY <2>1, <2>2, <2>3
<1>8. jn.policy.maxRisk \in Nat
  <2>1. CASE part = "policy" /\ field = "maxRisk"
    BY <2>1, <1>2, <1>4 DEF Domains
  <2>2. CASE part = "policy" /\ field # "maxRisk"
    <3>1. "maxRisk" \in DOMAIN in["policy"] /\ in.policy.maxRisk \in Nat
      BY <1>3, <2>2 DEF Domains, InputOK
    <3> QED
      BY <2>2, <3>1, <1>2, <1>4
  <2>3. CASE part # "policy"
    BY <2>3, <1>2 DEF InputOK
  <2> QED
    BY <2>1, <2>2, <2>3
<1>9. jn.contract.risk \in Nat
  <2>1. CASE part = "contract" /\ field = "risk"
    BY <2>1, <1>2, <1>4 DEF Domains
  <2>2. CASE part = "contract" /\ field # "risk"
    <3>1. "risk" \in DOMAIN in["contract"] /\ in.contract.risk \in Nat
      BY <1>3, <2>2 DEF Domains, InputOK
    <3> QED
      BY <2>2, <3>1, <1>2, <1>4
  <2>3. CASE part # "contract"
    BY <2>3, <1>2 DEF InputOK
  <2> QED
    BY <2>1, <2>2, <2>3
<1> QED
  BY <1>1, <1>5, <1>6, <1>7, <1>8, <1>9 DEF InputOK

LEMMA ProbedInput ==
    ASSUME NEW in, InputOK(in), NEW new
    PROVE  InputOK([in EXCEPT !.descriptors = new])
<1> DEFINE jn == [in EXCEPT !.descriptors = new]
<1>1. /\ DOMAIN jn = DOMAIN in /\ jn.proposal = in.proposal /\ jn.policy = in.policy
      /\ jn.fact = in.fact /\ jn.contract = in.contract
  BY DEF InputOK
<1> HIDE DEF jn
<1>2. \A part \in Parts : jn[part] = in[part]
  BY <1>1 DEF Parts
<1>3. InputOK(jn)
  BY <1>1, <1>2 DEF InputOK
<1> QED
  BY <1>3 DEF jn

LEMMA ResolverStep == ASSUME ResolverInv, [ResolverNext]_resolverVars PROVE ResolverInv'
<1>1. ASSUME NEW part \in DOMAIN Domains, Edit(part) PROVE ResolverInv'
  <2>1. part \in Parts
    BY DEF Domains, Parts
  <2>2. PICK field \in DOMAIN Domains[part] : \E v \in Domains[part][field] \ {input[part][field]} :
          input' = [input EXCEPT ![part][field] = v]
    BY <1>1 DEF Edit
  <2>v. PICK v \in Domains[part][field] : input' = [input EXCEPT ![part][field] = v]
    BY <2>2
  <2>i. InputOK(input)
    BY DEF ResolverInv
  <2>e. InputOK([input EXCEPT ![part][field] = v])
    BY <2>1, <2>i, EditedInput
  <2>3. InputOK(input')
    BY <2>v, <2>e, Zenon
  <2>4. decision' = Unresolved
    BY <1>1 DEF Edit
  <2> QED
    BY <2>3, <2>4 DEF ResolverInv
<1>2. CASE Probe
  <2>1. \E new : input' = [input EXCEPT !.descriptors = new]
    BY <1>2, Zenon DEF Probe
  <2>2. InputOK(input')
    BY <2>1, ProbedInput DEF ResolverInv
  <2>3. decision' = Unresolved
    BY <1>2 DEF Probe
  <2> QED
    BY <2>2, <2>3 DEF ResolverInv
<1>3. CASE Resolve
  BY <1>3 DEF Resolve, ResolverInv
<1>4. CASE UNCHANGED resolverVars
  BY <1>4 DEF resolverVars, ResolverInv
<1> QED
  BY <1>1, <1>2, <1>3, <1>4 DEF ResolverNext

LEMMA ResolverAlways == ResolverSpec => []ResolverInv
  BY ResolverInitInv, ResolverStep, PTL DEF ResolverSpec

(* What resolve_spec admits and finalizes, Plan::validate accepts, for every *)
(* policy, request, observation and contract.                                *)
THEOREM AdmittedPlansAreValid == ResolverSpec => []AdmittedIsValid
<1>1. ResolverInv => AdmittedIsValid
  BY AdmittedItem DEF ResolverInv, AdmittedIsValid
<1> QED
  BY <1>1, ResolverAlways, PTL

(* No policy that permits less admits a mutation the policy itself refuses:  *)
(* the order of the gates hides none of them.                                *)
THEOREM PolicyIsMonotone == ResolverSpec => []TighterPolicyAdmitsLess
<1>1. ASSUME ResolverInv, decision # Unresolved, decision.action # "Mutation",
             NEW p \in Tighter(input.policy)
      PROVE  Finalized([input EXCEPT !.policy = p]) # "Mutation"
  <2>1. decision = ItemOf(input) /\ InputOK(input)
    BY <1>1 DEF ResolverInv
  <2>2. Finalized(input) # "Mutation"
    BY <1>1, <2>1 DEF ItemOf
  <2> QED
    BY <2>1, <2>2, TighterAdmitsLess
<1>2. ResolverInv => TighterPolicyAdmitsLess
  BY <1>1 DEF TighterPolicyAdmitsLess
<1> QED
  BY <1>2, ResolverAlways, PTL
=============================================================================
