-------------------------- MODULE PlanOrderProofs --------------------------
(***************************************************************************)
(* What finalize_candidates computes, for every set of operations, targets *)
(* and contracts.                                                          *)
(*                                                                         *)
(* The loop's bookkeeping is the invariant: the indegree of a mutation is  *)
(* the number of its dependencies that have no identifier yet, and ready   *)
(* holds exactly the mutations without one whose dependencies all have     *)
(* one.  So what is popped comes after its dependencies and is the first   *)
(* in key order that could, and when nothing is ready every mutation left  *)
(* waits for another one that is left.                                     *)
(*                                                                         *)
(* Plan::validate, over every list of mutations that can be built: its     *)
(* search accepts exactly the lists in dependency order, and so accepts    *)
(* what finalize_candidates numbers.                                       *)
(***************************************************************************)
EXTENDS PlanOrder, PlanConstruction, FiniteSetTheorems, TLAPS

TypeInv ==
    /\ requires \in [Ops -> SUBSET Ops]
    /\ edges \in [Keys -> SUBSET Mutations]
    /\ indegree \in [Keys -> Int]
    /\ ready \subseteq Mutations
    /\ ordered \in Seq(Mutations)
    /\ todo \subseteq Mutations

(* Mutations that have no identifier and wait for nothing. *)
Free == {k \in Mutations \ Placed : edges[k] \subseteq Placed}

StageInv ==
    /\ stage = "link" => ordered = <<>>
    /\ why # "none" => stage = "rejected"

CountInv == Cardinality(Placed) = Len(ordered)

LoopInv ==
    stage = "order" =>
        /\ ready = Free
        /\ \A k \in Mutations : indegree[k] = Cardinality(edges[k] \ Placed)

OrderInv ==
    /\ TypeInv /\ StageInv /\ CountInv /\ LoopInv
    /\ DependenciesFirst /\ CycleIsReal /\ CanonicalOrder

-----------------------------------------------------------------------------
(* The key order has least elements.                                         *)

LEMMA LeastNatural ==
    ASSUME NEW T, T \subseteq Nat, T # {}
    PROVE  \E x \in T : \A y \in T : x <= y
<1> DEFINE less == {ss \in Nat \X Nat : ss[1] < ss[2]}
<1>1. IsWellFoundedOn(less, Nat)
  BY NatLessThanWellFounded DEF OpToRel
<1>2. \E x \in T : \A y \in T : ~(<<y, x>> \in less)
  <2> HIDE DEF less
  <2> QED
    BY <1>1, WFMin
<1>3. PICK x \in T : \A y \in T : ~(<<y, x>> \in less)
  BY <1>2
<1>4. ASSUME NEW y \in T PROVE x <= y
  <2>1. x \in Nat /\ y \in Nat /\ <<y, x>> \in Nat \X Nat
    OBVIOUS
  <2>2. ~(y < x)
    BY <1>3, <2>1
  <2> HIDE DEF less
  <2> QED
    BY <2>1, <2>2
<1> QED
  BY <1>4

LEMMA FirstIn ==
    ASSUME NEW S, S \subseteq Keys, S # {}
    PROVE  First(S) \in S
<1>1. \A k \in S : k[1] \in Nat /\ k[2] \in Nat /\ k = <<k[1], k[2]>>
  <2> TAKE k \in S
  <2>1. PICK a \in Ops, b \in Targets : k = <<a, b>>
    BY DEF Keys
  <2> QED
    BY <2>1, ConstantsAssumption
<1> DEFINE ops == {k[1] : k \in S}
<1>2. PICK o \in ops : \A y \in ops : o <= y
  <2>1. ops \subseteq Nat /\ ops # {}
    BY <1>1
  <2> QED
    BY <2>1, LeastNatural
<1> DEFINE targets == {k[2] : k \in {l \in S : l[1] = o}}
<1>3. PICK t \in targets : \A y \in targets : t <= y
  <2>1. targets \subseteq Nat /\ targets # {}
    BY <1>1, <1>2
  <2> QED
    BY <2>1, LeastNatural
<1>4. PICK k \in S : k[1] = o /\ k[2] = t
  BY <1>3
<1>5. ASSUME NEW l \in S \ {k} PROVE Before(k, l)
  <2>1. l[1] \in ops /\ o <= l[1]
    BY <1>2
  <2>2. CASE l[1] = o
    <3>1. l[2] \in targets /\ t <= l[2]
      BY <1>3, <2>2
    <3>2. l[2] # t
      BY <1>1, <1>4, <2>2
    <3> HIDE DEF targets, ops
    <3> QED
      BY <1>1, <1>4, <2>2, <3>1, <3>2 DEF Before
  <2>3. CASE l[1] # o
    <3> HIDE DEF targets, ops
    <3> QED
      BY <1>1, <1>4, <2>1, <2>3 DEF Before
  <2> QED
    BY <2>2, <2>3
<1> QED
  BY <1>4, <1>5 DEF First

(* Everything that is counted is finite.                                     *)
LEMMA FiniteKeys ==
    /\ IsFiniteSet(Keys) /\ IsFiniteSet(Mutations)
    /\ \A S : S \subseteq Mutations => IsFiniteSet(S)
<1>1. IsFiniteSet(Keys)
  BY ConstantsAssumption, FS_Product DEF Keys
<1>2. Mutations \in SUBSET Keys
  BY DEF Mutations
<1>3. IsFiniteSet(Mutations)
  BY <1>1, <1>2, FS_Subset
<1> QED
  BY <1>1, <1>3, FS_Subset

-----------------------------------------------------------------------------
LEMMA OrderStarts == OrderInit => OrderInv
<1> SUFFICES ASSUME OrderInit PROVE OrderInv
  OBVIOUS
<1>1. Placed = {} /\ ordered = <<>> /\ Len(ordered) = 0 /\ DOMAIN ordered = {}
  BY DEF OrderInit, Placed
<1>2. TypeInv
  BY DEF OrderInit, TypeInv
<1>3. CountInv
  BY <1>1, FS_EmptySet DEF CountInv
<1>4. StageInv /\ LoopInv /\ DependenciesFirst /\ CycleIsReal /\ CanonicalOrder
  BY <1>1 DEF OrderInit, StageInv, LoopInv, DependenciesFirst, CycleIsReal, CanonicalOrder
<1> QED
  BY <1>2, <1>3, <1>4 DEF OrderInv

(* A step that leaves the numbering and the edges alone.                     *)
LEMMA SameOrder ==
    ASSUME OrderInv, UNCHANGED <<status, edges, ordered>>
    PROVE  /\ Mutations' = Mutations /\ Placed' = Placed
           /\ CountInv' /\ DependenciesFirst' /\ CanonicalOrder'
<1>1. Mutations' = Mutations /\ Placed' = Placed
  BY DEF Mutations, Placed
<1>2. CountInv'
  BY <1>1 DEF OrderInv, CountInv
<1>3. DependenciesFirst'
  BY DEF OrderInv, DependenciesFirst
<1>4. CanonicalOrder'
  BY <1>1 DEF OrderInv, CanonicalOrder
<1> QED
  BY <1>1, <1>2, <1>3, <1>4

LEMMA RejectKeeps ==
    ASSUME OrderInv, NEW reason, Reject(reason), reason \notin {"none", "cycle"}
    PROVE  OrderInv'
<1>1. /\ Mutations' = Mutations /\ Placed' = Placed
      /\ CountInv' /\ DependenciesFirst' /\ CanonicalOrder'
  BY SameOrder DEF Reject
<1>2. TypeInv'
  BY <1>1 DEF Reject, OrderInv, TypeInv
<1>3. StageInv' /\ LoopInv' /\ CycleIsReal'
  BY DEF Reject, StageInv, LoopInv, CycleIsReal
<1> QED
  BY <1>1, <1>2, <1>3 DEF OrderInv

LEMMA LinkKeeps == ASSUME OrderInv, Link PROVE OrderInv'
<1> DEFINE k == First(todo)
           needed == {Prerequisite(k, op) : op \in requires[k[1]]}
<1>1. CASE \E reason \in {"missing", "unadmitted"} : Reject(reason)
  BY <1>1, RejectKeeps
<1>2. CASE /\ edges' = [edges EXCEPT ![k] = {p \in needed : status[p] = "Mutation"}]
           /\ todo' = todo \ {k}
           /\ UNCHANGED <<status, requires, stage, why, indegree, ready, ordered>>
  <2>1. /\ k \in Mutations /\ k \in Keys
    BY FirstIn DEF Link, OrderInv, TypeInv, Mutations
  <2>2. Mutations' = Mutations /\ ordered = <<>> /\ ordered' = <<>> /\ stage' = "link" /\ why' = "none"
    BY <1>2 DEF Mutations, Link, OrderInv, StageInv
  <2>3. ASSUME NEW p \in needed, status[p] = "Mutation" PROVE p \in Mutations
    <3>1. k[1] \in Ops /\ k[2] \in Targets
      BY <2>1 DEF Keys
    <3>2. PICK op \in requires[k[1]] : p = <<op, k[2]>>
      BY DEF Prerequisite
    <3>3. op \in Ops
      BY <3>1 DEF OrderInv, TypeInv
    <3> QED
      BY <2>3, <3>1, <3>2, <3>3 DEF Mutations, Keys
  <2>4. edges' \in [Keys -> SUBSET Mutations]
    <3>1. {p \in needed : status[p] = "Mutation"} \subseteq Mutations
      BY <2>3
    <3> HIDE DEF needed, k
    <3> QED
      BY <1>2, <3>1 DEF OrderInv, TypeInv
  <2> HIDE DEF k, needed
  <2>5. TypeInv'
    BY <1>2, <2>2, <2>4 DEF OrderInv, TypeInv
  <2>6. DOMAIN ordered' = {} /\ Placed' = Placed
    BY <2>2 DEF Placed
  <2>7. CountInv' /\ StageInv' /\ LoopInv'
    BY <2>2, <2>6 DEF OrderInv, CountInv, StageInv, LoopInv
  <2>8. DependenciesFirst' /\ CycleIsReal' /\ CanonicalOrder'
    BY <2>2, <2>6 DEF DependenciesFirst, CycleIsReal, CanonicalOrder
  <2> QED
    BY <2>5, <2>7, <2>8 DEF OrderInv
<1> QED
  BY <1>1, <1>2 DEF Link

LEMMA CountKeeps == ASSUME OrderInv, Count PROVE OrderInv'
<1>1. /\ Mutations' = Mutations /\ Placed' = Placed
      /\ CountInv' /\ DependenciesFirst' /\ CanonicalOrder'
  BY SameOrder DEF Count
<1>2. Placed = {} /\ why' = "none" /\ stage' = "order" /\ edges' = edges
  BY DEF Count, OrderInv, StageInv, Placed
<1>3. \A k \in Keys : edges[k] \subseteq Mutations /\ Cardinality(edges[k]) \in Nat
  BY FiniteKeys, FS_CardinalityType DEF OrderInv, TypeInv
<1>4. TypeInv'
  BY <1>1, <1>3 DEF Count, OrderInv, TypeInv
<1>5. \A k \in Mutations : edges[k] \ Placed = edges[k] /\ k \in Keys
  BY <1>2 DEF Mutations
<1>6. LoopInv'
  <2>1. ready' = Free'
    BY <1>1, <1>2 DEF Count, Free
  <2>2. \A k \in Mutations : indegree'[k] = Cardinality(edges[k] \ Placed)
    BY <1>5 DEF Count
  <2> QED
    BY <1>1, <1>2, <2>1, <2>2 DEF LoopInv
<1>7. StageInv' /\ CycleIsReal'
  BY <1>2 DEF StageInv, CycleIsReal
<1> QED
  BY <1>1, <1>4, <1>6, <1>7 DEF OrderInv

-----------------------------------------------------------------------------
LEMMA PopKeeps == ASSUME OrderInv, Pop PROVE OrderInv'
<1> DEFINE k == First(ready)
           n == Len(ordered)
           dependents == {d \in Mutations : k \in edges[d]}
<1>1. /\ ordered' = Append(ordered, k)
      /\ indegree' = [d \in Keys |-> IF d \in dependents THEN indegree[d] - 1 ELSE indegree[d]]
      /\ ready' = (ready \ {k}) \cup {d \in dependents : indegree[d] = 1}
      /\ stage = "order" /\ ready # {}
      /\ UNCHANGED <<status, requires, stage, why, todo, edges>>
  BY DEF Pop
<1>2. ready = Free /\ \A d \in Mutations : indegree[d] = Cardinality(edges[d] \ Placed)
  BY <1>1 DEF OrderInv, LoopInv
<1>3. k \in ready
  BY <1>1, FirstIn DEF OrderInv, TypeInv, Mutations
<1>4. k \in Mutations /\ k \notin Placed /\ edges[k] \subseteq Placed
  BY <1>2, <1>3 DEF Free
<1>5. k = First(Free)
  BY <1>2
<1> HIDE DEF k
<1>6. /\ Mutations' = Mutations /\ edges' = edges /\ why' = "none" /\ stage' = "order"
      /\ edges \in [Keys -> SUBSET Mutations] /\ ordered \in Seq(Mutations) /\ n \in Nat
      /\ \A d \in Mutations : d \in Keys
  BY <1>1 DEF Mutations, OrderInv, TypeInv, StageInv
<1>7. /\ ordered' \in Seq(Mutations) /\ DOMAIN ordered' = 1..(n + 1) /\ DOMAIN ordered = 1..n
      /\ ordered'[n + 1] = k /\ (\A i \in 1..n : ordered'[i] = ordered[i]) /\ Len(ordered') = n + 1
  BY <1>1, <1>4, <1>6
<1> HIDE DEF n
<1>8. Placed = {ordered[i] : i \in 1..n}
  BY <1>7 DEF Placed
<1>9. Placed' = Placed \cup {k}
  BY <1>6, <1>7, <1>8 DEF Placed
<1>10. Placed \subseteq Mutations
  BY <1>6, <1>7, <1>8
<1>11. CountInv'
  <2>1. IsFiniteSet(Placed)
    BY <1>10, FiniteKeys
  <2>2. Cardinality(Placed) = n
    BY DEF OrderInv, CountInv, n
  <2> QED
    BY <1>4, <1>7, <1>9, <2>1, <2>2, FS_AddElement DEF CountInv
<1>12. \A d \in Mutations : d \in Placed => edges[d] \subseteq Placed
  <2> SUFFICES ASSUME NEW d \in Mutations, d \in Placed, NEW p \in edges[d] PROVE p \in Placed
    OBVIOUS
  <2>1. PICK i \in 1..n : ordered[i] = d
    BY <1>8
  <2>2. PICK j \in 1..(i - 1) : ordered[j] = p
    BY <1>7, <2>1 DEF OrderInv, DependenciesFirst
  <2>3. j \in 1..n
    BY <1>6
  <2> QED
    BY <1>8, <2>2, <2>3
<1>13. \A d \in Mutations : /\ IsFiniteSet(edges[d] \ Placed)
                            /\ Cardinality(edges[d] \ Placed) \in Nat
                            /\ edges[d] \ Placed' = (edges[d] \ Placed) \ {k}
  BY <1>6, <1>9, FiniteKeys, FS_CardinalityType
<1>14. \A d \in Mutations : indegree'[d] = Cardinality(edges[d] \ Placed')
  <2> TAKE d \in Mutations
  <2>1. d \in dependents <=> k \in edges[d] \ Placed
    BY <1>4
  <2>2. Cardinality((edges[d] \ Placed) \ {k})
          = IF k \in edges[d] \ Placed THEN Cardinality(edges[d] \ Placed) - 1 ELSE Cardinality(edges[d] \ Placed)
    BY <1>13, FS_RemoveElement
  <2>3. indegree'[d] = IF d \in dependents THEN indegree[d] - 1 ELSE indegree[d]
    BY <1>1, <1>6
  <2> QED
    BY <1>2, <1>13, <2>1, <2>2, <2>3
<1>15. ready' = Free'
  <2>1. ASSUME NEW d \in Mutations, k \notin edges[d]
        PROVE  d \in ready' <=> d \in Free'
    BY <1>1, <1>2, <1>6, <1>9, <2>1 DEF Free
  <2>2. ASSUME NEW d \in Mutations, k \in edges[d]
        PROVE  d \in ready' <=> d \in Free'
    <3>1. d \notin Placed /\ d # k /\ d \notin ready
      BY <1>2, <1>4, <1>12, <2>2 DEF Free
    <3>2. Cardinality(edges[d] \ Placed) = 1 <=> \E x : edges[d] \ Placed = {x}
      BY <1>13, FS_Singleton
    <3>3. (\E x : edges[d] \ Placed = {x}) <=> edges[d] \ Placed = {k}
      BY <1>4, <2>2
    <3>4. edges[d] \ Placed = {k} <=> edges[d] \subseteq Placed'
      BY <1>4, <1>9, <2>2
    <3>5. d \in ready' <=> indegree[d] = 1
      BY <1>1, <2>2, <3>1
    <3>6. d \in Free' <=> edges[d] \subseteq Placed'
      BY <1>6, <1>9, <3>1 DEF Free
    <3> QED
      BY <1>2, <3>2, <3>3, <3>4, <3>5, <3>6
  <2>3. ready' \subseteq Mutations /\ Free' \subseteq Mutations
    BY <1>1, <1>6 DEF OrderInv, TypeInv, Free
  <2> QED
    BY <2>1, <2>2, <2>3
<1>16. TypeInv'
  <2>1. indegree' \in [Keys -> Int]
    BY <1>1 DEF OrderInv, TypeInv
  <2>2. ready' \subseteq Mutations
    BY <1>1 DEF OrderInv, TypeInv
  <2> QED
    BY <1>1, <1>6, <1>7, <2>1, <2>2 DEF OrderInv, TypeInv
<1>17. StageInv' /\ LoopInv' /\ CycleIsReal'
  BY <1>6, <1>14, <1>15 DEF StageInv, LoopInv, CycleIsReal
<1>18. DependenciesFirst'
  <2> SUFFICES ASSUME NEW i \in 1..(n + 1), NEW p \in edges[ordered'[i]]
               PROVE  \E j \in 1..(i - 1) : ordered'[j] = p
    BY <1>6, <1>7 DEF DependenciesFirst
  <2>1. CASE i \in 1..n
    <3>1. PICK j \in 1..(i - 1) : ordered[j] = p
      BY <1>7, <2>1 DEF OrderInv, DependenciesFirst
    <3>2. j \in 1..n
      BY <1>6, <2>1
    <3> QED
      BY <1>7, <3>1, <3>2
  <2>2. CASE i = n + 1
    <3>1. PICK j \in 1..n : ordered[j] = p
      BY <1>4, <1>7, <1>8, <2>2
    <3>2. j \in 1..(i - 1)
      BY <1>6, <2>2
    <3> QED
      BY <1>7, <3>1, <3>2
  <2> QED
    BY <1>6, <2>1, <2>2
<1>19. CanonicalOrder'
  <2> SUFFICES ASSUME NEW i \in 1..(n + 1)
               PROVE  LET earlier == {ordered'[j] : j \in 1..(i - 1)}
                      IN  ordered'[i] = First({m \in Mutations \ earlier : edges[m] \subseteq earlier})
    BY <1>6, <1>7 DEF CanonicalOrder
  <2>1. {ordered'[j] : j \in 1..(i - 1)} = {ordered[j] : j \in 1..(i - 1)}
    <3>1. \A j \in 1..(i - 1) : j \in 1..n
      BY <1>6
    <3> QED
      BY <1>7, <3>1
  <2>2. CASE i \in 1..n
    BY <1>7, <2>1, <2>2 DEF OrderInv, CanonicalOrder
  <2>3. CASE i = n + 1
    <3>1. 1..(i - 1) = 1..n
      BY <1>6, <2>3
    <3> QED
      BY <1>5, <1>7, <1>8, <2>1, <2>3, <3>1 DEF Free
  <2>4. i \in 1..n \/ i = n + 1
    BY <1>6
  <2> QED
    BY <2>2, <2>3, <2>4
<1> QED
  BY <1>11, <1>16, <1>17, <1>18, <1>19 DEF OrderInv

-----------------------------------------------------------------------------
LEMMA OrderDoneKeeps == ASSUME OrderInv, OrderDone PROVE OrderInv'
<1>1. UNCHANGED <<status, requires, todo, edges, indegree, ready, ordered>>
  BY DEF OrderDone, Reject
<1>2. /\ Mutations' = Mutations /\ Placed' = Placed
      /\ CountInv' /\ DependenciesFirst' /\ CanonicalOrder'
  BY <1>1, SameOrder
<1>3. TypeInv'
  BY <1>1, <1>2 DEF OrderInv, TypeInv
<1>4. CASE Len(ordered) # Cardinality(Mutations) /\ Reject("cycle")
  <2>1. stage' = "rejected" /\ why' = "cycle"
    BY <1>4 DEF Reject
  <2>2. Free = {} /\ Placed # Mutations
    BY <1>4 DEF OrderDone, OrderInv, LoopInv, CountInv
  <2>3. Placed \subseteq Mutations
    BY DEF OrderInv, TypeInv, Placed
  <2> DEFINE left == Mutations \ Placed
  <2>4. left # {} /\ left \subseteq Mutations
    BY <2>2, <2>3
  <2>5. ASSUME NEW k \in left PROVE edges[k] \cap left # {}
    <3>1. edges[k] \subseteq Mutations
      BY DEF OrderInv, TypeInv, Mutations
    <3>2. ~(edges[k] \subseteq Placed)
      BY <2>2 DEF Free
    <3> QED
      BY <3>1, <3>2
  <2> HIDE DEF left
  <2>6. CycleIsReal'
    BY <1>1, <1>2, <2>4, <2>5 DEF CycleIsReal
  <2> QED
    BY <1>2, <1>3, <2>1, <2>6 DEF OrderInv, StageInv, LoopInv
<1>5. CASE stage' = "validate" /\ UNCHANGED why
  BY <1>1, <1>2, <1>3, <1>5 DEF OrderDone, OrderInv, StageInv, LoopInv, CycleIsReal
<1> QED
  BY <1>4, <1>5 DEF OrderDone

LEMMA ValidateKeeps == ASSUME OrderInv, ValidatePlan PROVE OrderInv'
<1>1. CASE Reject("invalid") \/ Reject("conflict")
  BY <1>1, RejectKeeps
<1>2. CASE stage' = "done" /\ UNCHANGED <<status, requires, why, todo, edges, indegree, ready, ordered>>
  <2>1. /\ Mutations' = Mutations /\ Placed' = Placed
        /\ CountInv' /\ DependenciesFirst' /\ CanonicalOrder'
    BY <1>2, SameOrder
  <2>2. TypeInv'
    BY <1>2, <2>1 DEF OrderInv, TypeInv
  <2> QED
    BY <1>2, <2>1, <2>2 DEF ValidatePlan, OrderInv, StageInv, LoopInv, CycleIsReal
<1> QED
  BY <1>1, <1>2 DEF ValidatePlan

LEMMA OrderStep == OrderInv /\ [OrderNext]_orderVars => OrderInv'
<1> SUFFICES ASSUME OrderInv, [OrderNext]_orderVars PROVE OrderInv'
  OBVIOUS
<1>1. CASE UNCHANGED orderVars
  <2>1. /\ Mutations' = Mutations /\ Placed' = Placed
        /\ CountInv' /\ DependenciesFirst' /\ CanonicalOrder'
    BY <1>1, SameOrder DEF orderVars
  <2>2. TypeInv' /\ StageInv' /\ CycleIsReal'
    BY <1>1, <2>1 DEF orderVars, OrderInv, TypeInv, StageInv, CycleIsReal
  <2>3. LoopInv'
    BY <1>1, <2>1 DEF orderVars, OrderInv, LoopInv, Free
  <2> QED
    BY <2>1, <2>2, <2>3 DEF OrderInv
<1> QED
  BY <1>1, LinkKeeps, CountKeeps, PopKeeps, OrderDoneKeeps, ValidateKeeps DEF OrderNext

LEMMA OrderAlways == OrderSpec => []OrderInv
BY OrderStarts, OrderStep, PTL DEF OrderSpec

(* For every set of operations, targets and contracts: the numbering loop of *)
(* finalize_candidates gives a mutation an identifier only after every       *)
(* mutation it depends on has one.                                           *)
THEOREM PlansAreOrdered == OrderSpec => []DependenciesFirst
<1>1. OrderInv => DependenciesFirst
  BY DEF OrderInv
<1> QED
  BY <1>1, OrderAlways, PTL

(* finalize_candidates reports a dependency cycle only for decisions that    *)
(* have one.                                                                 *)
THEOREM OnlyCyclesAreRejected == OrderSpec => []CycleIsReal
<1>1. OrderInv => CycleIsReal
  BY DEF OrderInv
<1> QED
  BY <1>1, OrderAlways, PTL

(* Equal decisions give equal plans: an identifier always goes to the first  *)
(* mutation in key order that may have it (the BTreeSet ready).              *)
THEOREM PlansAreCanonical == OrderSpec => []CanonicalOrder
<1>1. OrderInv => CanonicalOrder
  BY DEF OrderInv
<1> QED
  BY <1>1, OrderAlways, PTL

-----------------------------------------------------------------------------
(* Plan::validate.  The depth-first walk of reaches_cycle is a recursive     *)
(* definition over paths; it has a solution (the largest set of paths each   *)
(* of which repeats its last element or goes on), and any solution blames    *)
(* exactly the identifiers from which a set of entries that all depend on    *)
(* one another is reached.                                                   *)

PlanEntries == [id : Nat, deps : Seq(Nat)]
PlanLists == Seq(PlanEntries)
DepsOf(list, x) == list[Position(list, x)].deps

Repeats(stack) == \E i \in 1..(Len(stack) - 1) : stack[i] = stack[Len(stack)]

(* stack can be made longer within X. *)
GoesOn(list, X, stack) ==
    /\ stack[Len(stack)] \in Ids(list)
    /\ \E k \in DOMAIN DepsOf(list, stack[Len(stack)]) :
          Append(stack, DepsOf(list, stack[Len(stack)])[k]) \in X

(* The equation of the walk. *)
Walks(list, f) ==
    f = [stack \in Seq(Nat) |->
            LET current == stack[Len(stack)]
            IN  \/ \E i \in 1..(Len(stack) - 1) : stack[i] = current
                \/ /\ current \in Ids(list)
                   /\ LET deps == list[Position(list, current)].deps
                      IN  \E k \in DOMAIN deps : f[Append(stack, deps[k])]]

(* Entries that all depend on one another. *)
IsCyclic(list, S) ==
    /\ S \subseteq Ids(list) /\ S # {}
    /\ \A x \in S : \E k \in DOMAIN DepsOf(list, x) : DepsOf(list, x)[k] \in S

LEMMA PositionOf ==
    ASSUME NEW list \in PlanLists, NEW x \in Ids(list)
    PROVE  /\ Position(list, x) \in DOMAIN list
           /\ list[Position(list, x)].id = x
           /\ DepsOf(list, x) \in Seq(Nat)
           /\ x \in Nat
<1> DEFINE places == {i \in DOMAIN list : list[i].id = x}
<1>0. DOMAIN list = 1..Len(list) /\ Len(list) \in Nat
      /\ \A i \in DOMAIN list : list[i] \in PlanEntries
  BY DEF PlanLists
<1>1. places \subseteq Nat /\ places # {}
  BY <1>0 DEF Ids, PlanEntries
<1>2. PICK i \in places : \A j \in places : i <= j
  <2> HIDE DEF places
  <2> QED
    BY <1>1, LeastNatural
<1>3. i \in DOMAIN list /\ list[i].id = x /\ \A j \in 1..(i - 1) : list[j].id # x
  <2>1. ASSUME NEW j \in 1..(i - 1), list[j].id = x PROVE FALSE
    <3>1. j \in places /\ j < i /\ j \in Nat /\ i \in Nat
      BY <1>0, <2>1
    <3> QED
      BY <1>2, <3>1
  <2> QED
    BY <2>1
<1>4. Position(list, x) \in DOMAIN list /\ list[Position(list, x)].id = x
  BY <1>3, Zenon DEF Position
<1> QED
  BY <1>0, <1>4 DEF DepsOf, PlanEntries

LEMMA WalkExists ==
    ASSUME NEW list \in PlanLists
    PROVE  \E f : Walks(list, f)
<1> DEFINE post == {X \in SUBSET Seq(Nat) : \A s \in X : Repeats(s) \/ GoesOn(list, X, s)}
<1> DEFINE G == UNION post
<1> DEFINE f == [s \in Seq(Nat) |-> s \in G]
<1>1. G \subseteq Seq(Nat)
  OBVIOUS
<1>2. ASSUME NEW s \in G PROVE Repeats(s) \/ GoesOn(list, G, s)
  <2>1. PICK X \in post : s \in X
    OBVIOUS
  <2>2. X \subseteq G
    OBVIOUS
  <2>3. Repeats(s) \/ GoesOn(list, X, s)
    BY <2>1
  <2> HIDE DEF G
  <2> QED
    BY <2>2, <2>3 DEF GoesOn
<1>3. ASSUME NEW s \in Seq(Nat), Repeats(s) \/ GoesOn(list, G, s) PROVE s \in G
  <2> DEFINE X == G \cup {s}
  <2>1. \A r \in X : Repeats(r) \/ GoesOn(list, X, r)
    <3> HIDE DEF G
    <3> QED
      BY <1>2, <1>3 DEF GoesOn
  <2>2. X \in SUBSET Seq(Nat)
    BY <1>1
  <2>3. X \in post
    BY <2>1, <2>2
  <2> HIDE DEF post
  <2> QED
    BY <2>3
<1> HIDE DEF G
<1>4. ASSUME NEW stack \in Seq(Nat)
      PROVE  (stack \in G) <=>
                LET current == stack[Len(stack)]
                IN  \/ \E i \in 1..(Len(stack) - 1) : stack[i] = current
                    \/ /\ current \in Ids(list)
                       /\ LET deps == list[Position(list, current)].deps
                          IN  \E k \in DOMAIN deps : f[Append(stack, deps[k])]
  <2> DEFINE current == stack[Len(stack)]
  <2>1. stack \in G <=> Repeats(stack) \/ GoesOn(list, G, stack)
    BY <1>2, <1>3
  <2>2. ASSUME current \in Ids(list), NEW k \in DOMAIN DepsOf(list, current)
        PROVE  f[Append(stack, DepsOf(list, current)[k])] <=> Append(stack, DepsOf(list, current)[k]) \in G
    <3>1. DepsOf(list, current)[k] \in Nat
      BY <2>2, PositionOf
    <3>2. Append(stack, DepsOf(list, current)[k]) \in Seq(Nat)
      BY <3>1
    <3> QED
      BY <3>2
  <2> HIDE DEF f
  <2>3. GoesOn(list, G, stack) <=>
          current \in Ids(list) /\ \E k \in DOMAIN DepsOf(list, current) : f[Append(stack, DepsOf(list, current)[k])]
    BY <2>2, Zenon DEF GoesOn
  <2> QED
    BY <2>1, <2>3, Zenon DEF Repeats, DepsOf
<1>5. f = [stack \in Seq(Nat) |->
              LET current == stack[Len(stack)]
              IN  \/ \E i \in 1..(Len(stack) - 1) : stack[i] = current
                  \/ /\ current \in Ids(list)
                     /\ LET deps == list[Position(list, current)].deps
                        IN  \E k \in DOMAIN deps : f[Append(stack, deps[k])]]
  <2> DEFINE body(stack) ==
              LET current == stack[Len(stack)]
              IN  \/ \E i \in 1..(Len(stack) - 1) : stack[i] = current
                  \/ /\ current \in Ids(list)
                     /\ LET deps == list[Position(list, current)].deps
                        IN  \E k \in DOMAIN deps : f[Append(stack, deps[k])]
  <2>1. ASSUME NEW stack \in Seq(Nat) PROVE (stack \in G) = body(stack)
    <3>1. (stack \in G) <=> body(stack)
      BY <1>4, Zenon
    <3>2. body(stack) \in BOOLEAN
      BY Zenon
    <3> HIDE DEF body
    <3> QED
      BY <3>1, <3>2
  <2> HIDE DEF body
  <2>2. f = [stack \in Seq(Nat) |-> body(stack)]
    BY <2>1
  <2> QED
    BY <2>2, Zenon DEF body
<1> HIDE DEF f
<1> QED
  BY <1>5, Zenon DEF Walks

(* What reaches_cycle answers solves the equation. *)
LEMMA ReachesWalks ==
    ASSUME NEW list \in PlanLists
    PROVE  \E f : Walks(list, f) /\ \A id : ReachesCycle(list, id) = f[<<id>>]
<1> DEFINE w == CHOOSE f : Walks(list, f)
<1>1. Walks(list, w)
  BY WalkExists, Zenon
<1>2. ASSUME NEW id PROVE ReachesCycle(list, id) = w[<<id>>]
  BY Zenon DEF ReachesCycle, Walks
<1> QED
  BY <1>1, <1>2, Zenon

LEMMA WalkUnfolds ==
    ASSUME NEW list, NEW f, Walks(list, f), NEW s \in Seq(Nat)
    PROVE  f[s] <=> \/ Repeats(s)
                    \/ /\ s[Len(s)] \in Ids(list)
                       /\ \E k \in DOMAIN DepsOf(list, s[Len(s)]) : f[Append(s, DepsOf(list, s[Len(s)])[k])]
<1> DEFINE body(stack) ==
            LET current == stack[Len(stack)]
            IN  \/ \E i \in 1..(Len(stack) - 1) : stack[i] = current
                \/ /\ current \in Ids(list)
                   /\ LET deps == list[Position(list, current)].deps
                      IN  \E k \in DOMAIN deps : f[Append(stack, deps[k])]
<1>1. f = [stack \in Seq(Nat) |-> body(stack)]
  BY Zenon DEF Walks
<1> HIDE DEF body
<1>2. f[s] = body(s)
  BY <1>1, Zenon
<1> QED
  BY <1>2, Zenon DEF body, Repeats, DepsOf

LEMMA GreatestNatural ==
    ASSUME NEW T, T \subseteq Nat, T # {}, NEW b \in Nat, \A x \in T : x <= b
    PROVE  \E x \in T : \A y \in T : y <= x
<1> DEFINE gaps == {b - x : x \in T}
<1>1. gaps \subseteq Nat /\ gaps # {}
  <2>1. ASSUME NEW x \in T PROVE b - x \in Nat
    <3>1. x \in Nat /\ x <= b
      OBVIOUS
    <3> QED
      BY <3>1
  <2> QED
    BY <2>1
<1>2. PICK g \in gaps : \A h \in gaps : g <= h
  <2> HIDE DEF gaps
  <2> QED
    BY <1>1, LeastNatural
<1>3. PICK x \in T : g = b - x
  BY <1>2
<1>4. ASSUME NEW y \in T PROVE y <= x
  <2>1. b - y \in gaps /\ y \in Nat /\ x \in Nat
    OBVIOUS
  <2>2. b - x <= b - y
    BY <1>2, <1>3, <2>1
  <2> HIDE DEF gaps
  <2> QED
    BY <2>1, <2>2
<1> QED
  BY <1>3, <1>4

LEMMA SeqWider ==
    ASSUME NEW S, NEW T, S \subseteq T, NEW s \in Seq(S)
    PROVE  s \in Seq(T)
<1>1. Len(s) \in Nat /\ s \in [1..Len(s) -> T]
  OBVIOUS
<1> QED
  BY <1>1

(* Paths without a repetition are no longer than the plan. *)
Injective(s) == \A i, j \in 1..Len(s) : s[i] = s[j] => i = j

LEMMA InjectiveBounded ==
    ASSUME NEW S, IsFiniteSet(S), NEW s \in Seq(S), Injective(s)
    PROVE  Len(s) \in Nat /\ Len(s) <= Cardinality(S) /\ Cardinality(S) \in Nat
<1>1. s \in Injection(1..Len(s), S)
  BY DEF Injective, Injection, IsInjective
<1>2. Cardinality(1..Len(s)) = Len(s) /\ Len(s) \in Nat
  BY FS_Interval
<1>3. Cardinality(1..Len(s)) <= Cardinality(S)
  BY <1>1, FS_Injection
<1> QED
  BY <1>2, <1>3, FS_CardinalityType

LEMMA IdsFinite ==
    ASSUME NEW list \in PlanLists
    PROVE  IsFiniteSet(Ids(list)) /\ Ids(list) \subseteq Nat
<1>1. DOMAIN list = 1..Len(list) /\ Len(list) \in Nat
      /\ \A i \in DOMAIN list : list[i] \in PlanEntries
  BY DEF PlanLists
<1> DEFINE f == [i \in 1..Len(list) |-> list[i].id]
<1>2. f \in Surjection(1..Len(list), Ids(list))
  BY <1>1 DEF Surjection, Ids
<1>3. IsFiniteSet(1..Len(list))
  BY <1>1, FS_Interval
<1>4. IsFiniteSet(Ids(list))
  <2> HIDE DEF f
  <2> QED
    BY <1>2, <1>3, FS_Surjection
<1>5. Ids(list) \subseteq Nat
  BY <1>1 DEF Ids, PlanEntries
<1> QED
  BY <1>4, <1>5

(* From an entry of a cycle the walk finds a repetition: otherwise there     *)
(* would be a longest path inside the cycle without one.                     *)
LEMMA CycleIsFound ==
    ASSUME NEW list \in PlanLists, NEW f, Walks(list, f), NEW S, IsCyclic(list, S), NEW x \in S
    PROVE  f[<<x>>]
<1> SUFFICES ASSUME ~f[<<x>>] PROVE FALSE
  OBVIOUS
<1>s. S \subseteq Ids(list) /\ S \in SUBSET Ids(list) /\ S \subseteq Nat
  BY IdsFinite DEF IsCyclic
<1>f. IsFiniteSet(S)
  BY <1>s, IdsFinite, FS_Subset
<1> DEFINE Q == {s \in Seq(S) : Len(s) > 0 /\ Injective(s) /\ ~f[s]}
<1> DEFINE lengths == {Len(s) : s \in Q}
<1>1. <<x>> \in Q
  BY DEF Injective
<1>2. lengths \subseteq Nat /\ lengths # {} /\ \A l \in lengths : l <= Cardinality(S)
  BY <1>1, <1>f, InjectiveBounded
<1>3. PICK l \in lengths : \A m \in lengths : m <= l
  <2>1. Cardinality(S) \in Nat
    BY <1>f, FS_CardinalityType
  <2> HIDE DEF lengths
  <2> QED
    BY <1>2, <2>1, GreatestNatural
<1>4. PICK s \in Q : l = Len(s)
  BY <1>3
<1>5. s \in Seq(S) /\ Len(s) > 0 /\ Injective(s) /\ ~f[s] /\ s \in Seq(Nat) /\ Len(s) \in Nat
  <2>1. s \in Seq(S) /\ Len(s) > 0 /\ Injective(s) /\ ~f[s]
    BY <1>4
  <2>2. s \in Seq(Nat)
    BY <2>1, <1>s, SeqWider
  <2> QED
    BY <2>1, <2>2
<1>6. s[Len(s)] \in S
  BY <1>5
<1>7. PICK k \in DOMAIN DepsOf(list, s[Len(s)]) : DepsOf(list, s[Len(s)])[k] \in S
  BY <1>6 DEF IsCyclic
<1> DEFINE d == DepsOf(list, s[Len(s)])[k]
<1> DEFINE longer == Append(s, d)
<1>8. d \in S /\ longer \in Seq(S) /\ longer \in Seq(Nat) /\ Len(longer) = Len(s) + 1
      /\ longer[Len(longer)] = d /\ \A i \in 1..Len(s) : longer[i] = s[i]
  <2>1. d \in S /\ d \in Nat
    BY <1>7, <1>s
  <2> HIDE DEF d, Q
  <2>2. longer \in Seq(S) /\ longer \in Seq(Nat)
    BY <1>5, <2>1
  <2>3. Len(longer) = Len(s) + 1 /\ longer[Len(longer)] = d /\ \A i \in 1..Len(s) : longer[i] = s[i]
    BY <1>5, <2>1
  <2> QED
    BY <2>1, <2>2, <2>3
<1>9. ~f[longer]
  BY <1>5, <1>6, <1>7, <1>s, WalkUnfolds
<1> HIDE DEF longer, d
<1>10. ~Repeats(longer)
  BY <1>8, <1>9, WalkUnfolds
<1>11. Injective(longer)
  <2>1. \A i \in 1..Len(s) : s[i] # d
    BY <1>5, <1>8, <1>10 DEF Repeats
  <2>2. ASSUME NEW i \in 1..Len(longer), NEW j \in 1..Len(longer), longer[i] = longer[j]
        PROVE  i = j
    <3>1. CASE i \in 1..Len(s) /\ j \in 1..Len(s)
      BY <1>5, <1>8, <2>2, <3>1 DEF Injective
    <3>2. CASE i = Len(s) + 1 /\ j \in 1..Len(s)
      BY <1>8, <2>1, <2>2, <3>2
    <3>3. CASE j = Len(s) + 1 /\ i \in 1..Len(s)
      BY <1>8, <2>1, <2>2, <3>3
    <3>4. CASE i = Len(s) + 1 /\ j = Len(s) + 1
      BY <3>4
    <3> QED
      BY <1>5, <1>8, <3>1, <3>2, <3>3, <3>4
  <2> QED
    BY <2>2 DEF Injective
<1>12. Len(longer) \in lengths
  BY <1>5, <1>8, <1>9, <1>11
<1> HIDE DEF lengths
<1> QED
  BY <1>3, <1>4, <1>5, <1>8, <1>12

(* A path along the dependencies. *)
Path(list, s) ==
    /\ s \in Seq(Ids(list)) /\ Len(s) > 0
    /\ \A i \in 1..(Len(s) - 1) :
          \E k \in DOMAIN DepsOf(list, s[i]) : DepsOf(list, s[i])[k] = s[i + 1]

(* What the walk blames is a cycle: a path that repeats its last element     *)
(* goes around one, and were there none, the entries from which the walk     *)
(* succeeds would all depend on one another.                                 *)
LEMMA FoundIsCycle ==
    ASSUME NEW list \in PlanLists, NEW f, Walks(list, f), NEW x \in Ids(list), f[<<x>>],
           \A y \in Ids(list) : \A k \in DOMAIN DepsOf(list, y) : DepsOf(list, y)[k] \in Ids(list)
    PROVE  \E S : IsCyclic(list, S)
<1> DEFINE B == {y \in Ids(list) : \E s \in Seq(Ids(list)) : Path(list, s) /\ s[Len(s)] = y /\ f[s]}
<1>n. Ids(list) \subseteq Nat
  BY IdsFinite
<1>1. x \in B
  <2>1. <<x>> \in Seq(Ids(list)) /\ Path(list, <<x>>) /\ <<x>>[Len(<<x>>)] = x
    BY DEF Path
  <2> QED
    BY <2>1
<1>2. CASE \A y \in B : \E k \in DOMAIN DepsOf(list, y) : DepsOf(list, y)[k] \in B
  <2>1. IsCyclic(list, B)
    BY <1>1, <1>2 DEF IsCyclic
  <2> QED
    BY <2>1
<1>3. CASE \E y \in B : \A k \in DOMAIN DepsOf(list, y) : DepsOf(list, y)[k] \notin B
  <2>1. PICK y \in B : \A k \in DOMAIN DepsOf(list, y) : DepsOf(list, y)[k] \notin B
    BY <1>3
  <2>2. PICK s \in Seq(Ids(list)) : Path(list, s) /\ s[Len(s)] = y /\ f[s]
    BY <2>1
  <2>3. s \in Seq(Nat) /\ Len(s) \in Nat /\ Len(s) > 0 /\ y \in Ids(list)
    BY <2>1, <2>2, <1>n DEF Path
  <2>4. ASSUME NEW k \in DOMAIN DepsOf(list, y), f[Append(s, DepsOf(list, y)[k])] PROVE FALSE
    <3> DEFINE d == DepsOf(list, y)[k]
    <3> DEFINE longer == Append(s, d)
    <3>1. d \in Ids(list)
      BY <2>3
    <3>2. /\ longer \in Seq(Ids(list)) /\ Len(longer) = Len(s) + 1 /\ longer[Len(longer)] = d
          /\ \A i \in 1..Len(s) : longer[i] = s[i]
      BY <2>2, <3>1
    <3>3. Path(list, longer)
      <4>1. ASSUME NEW i \in 1..(Len(longer) - 1)
            PROVE  \E m \in DOMAIN DepsOf(list, longer[i]) : DepsOf(list, longer[i])[m] = longer[i + 1]
        <5> HIDE DEF longer
        <5>1. CASE i = Len(s)
          BY <2>2, <2>3, <3>2, <5>1
        <5>2. CASE i \in 1..(Len(s) - 1)
          <6>1. longer[i] = s[i] /\ longer[i + 1] = s[i + 1]
            BY <2>3, <3>2, <5>2
          <6> QED
            BY <2>2, <5>2, <6>1 DEF Path
        <5> QED
          BY <2>3, <3>2, <5>1, <5>2
      <4> HIDE DEF longer
      <4> QED
        BY <2>3, <3>2, <4>1 DEF Path
    <3>4. f[longer]
      BY <2>4
    <3> HIDE DEF longer
    <3>5. d \in B
      BY <3>1, <3>2, <3>3, <3>4
    <3> HIDE DEF B
    <3> QED
      BY <2>1, <3>5
  <2>5. Repeats(s)
    BY <2>2, <2>3, <2>4, WalkUnfolds
  <2>6. PICK i \in 1..(Len(s) - 1) : s[i] = s[Len(s)]
    BY <2>5 DEF Repeats
  <2> DEFINE S == {s[j] : j \in i..Len(s)}
  <2>7. S \subseteq Ids(list) /\ S # {} /\ s[i + 1] \in S
    BY <2>2, <2>3, <2>6
  <2>8. ASSUME NEW z \in S PROVE \E k \in DOMAIN DepsOf(list, z) : DepsOf(list, z)[k] \in S
    <3>1. PICK j \in i..Len(s) : z = s[j]
      OBVIOUS
    <3>2. CASE j = Len(s)
      <4>1. z = s[i]
        BY <2>6, <3>1, <3>2
      <4>2. \E k \in DOMAIN DepsOf(list, s[i]) : DepsOf(list, s[i])[k] = s[i + 1]
        BY <2>2, <2>6 DEF Path
      <4> HIDE DEF S
      <4> QED
        BY <2>7, <4>1, <4>2
    <3>3. CASE j # Len(s)
      <4>1. j \in 1..(Len(s) - 1) /\ j + 1 \in i..Len(s)
        BY <2>3, <2>6, <3>3
      <4>2. \E k \in DOMAIN DepsOf(list, s[j]) : DepsOf(list, s[j])[k] = s[j + 1]
        BY <2>2, <4>1 DEF Path
      <4>3. s[j + 1] \in S
        BY <4>1
      <4> HIDE DEF S
      <4> QED
        BY <3>1, <4>2, <4>3
    <3> QED
      BY <3>2, <3>3
  <2>9. IsCyclic(list, S)
    <3> HIDE DEF S
    <3> QED
      BY <2>7, <2>8 DEF IsCyclic
  <2> QED
    BY <2>9
<1> QED
  BY <1>2, <1>3

(* A list with unique identifiers and unique, known dependencies. *)
WellFormed(list) == \A i \in DOMAIN list : UniqueId(list, i) /\ KnownDependencies(list, i)

LEMMA WellFormedPlans ==
    ASSUME NEW list \in PlanLists, WellFormed(list)
    PROVE  /\ \A i, j \in DOMAIN list : list[i].id = list[j].id => i = j
           /\ \A i \in DOMAIN list : Position(list, list[i].id) = i /\ DepsOf(list, list[i].id) = list[i].deps
           /\ \A y \in Ids(list) : \A k \in DOMAIN DepsOf(list, y) : DepsOf(list, y)[k] \in Ids(list)
<1>0. DOMAIN list = 1..Len(list) /\ Len(list) \in Nat
  BY DEF PlanLists
<1>1. ASSUME NEW i \in DOMAIN list, NEW j \in DOMAIN list, list[i].id = list[j].id PROVE i = j
  <2>1. ~(i < j)
    BY <1>0, <1>1 DEF WellFormed, UniqueId
  <2>2. ~(j < i)
    BY <1>0, <1>1 DEF WellFormed, UniqueId
  <2> QED
    BY <1>0, <2>1, <2>2
<1>2. ASSUME NEW i \in DOMAIN list
      PROVE  Position(list, list[i].id) = i /\ DepsOf(list, list[i].id) = list[i].deps
  <2>1. list[i].id \in Ids(list)
    BY DEF Ids
  <2>2. Position(list, list[i].id) = i
    BY <1>1, <2>1, PositionOf
  <2> QED
    BY <2>2 DEF DepsOf
<1>3. ASSUME NEW y \in Ids(list), NEW k \in DOMAIN DepsOf(list, y)
      PROVE  DepsOf(list, y)[k] \in Ids(list)
  <2>1. PICK i \in DOMAIN list : y = list[i].id
    BY DEF Ids
  <2>2. KnownDependencies(list, i) /\ k \in DOMAIN list[i].deps
    BY <1>2, <2>1 DEF WellFormed
  <2> QED
    BY <1>2, <2>1, <2>2 DEF KnownDependencies
<1> QED
  BY <1>1, <1>2, <1>3

(* The walk is right on well-formed lists. *)
LEMMA ReachesCycleIsRight ==
    ASSUME NEW list \in PlanLists, WellFormed(list)
    PROVE  (\E i \in DOMAIN list : ReachesCycle(list, list[i].id)) <=> \E S : IsCyclic(list, S)
<1>1. PICK f : Walks(list, f) /\ \A id : ReachesCycle(list, id) = f[<<id>>]
  BY ReachesWalks
<1>2. ASSUME NEW i \in DOMAIN list, ReachesCycle(list, list[i].id) PROVE \E S : IsCyclic(list, S)
  <2>1. list[i].id \in Ids(list) /\ f[<<list[i].id>>]
    BY <1>1, <1>2 DEF Ids
  <2>2. \A y \in Ids(list) : \A k \in DOMAIN DepsOf(list, y) : DepsOf(list, y)[k] \in Ids(list)
    BY WellFormedPlans
  <2> QED
    BY <1>1, <2>1, <2>2, FoundIsCycle
<1>3. ASSUME NEW S, IsCyclic(list, S) PROVE \E i \in DOMAIN list : ReachesCycle(list, list[i].id)
  <2>1. PICK x \in S : x \in Ids(list)
    BY <1>3 DEF IsCyclic
  <2>2. f[<<x>>]
    BY <1>1, <1>3, <2>1, CycleIsFound
  <2>3. PICK i \in DOMAIN list : x = list[i].id
    BY <2>1 DEF Ids
  <2> QED
    BY <1>1, <2>2, <2>3
<1> QED
  BY <1>2, <1>3

(* Where every dependency is an earlier entry there is no cycle: its first   *)
(* entry would depend on an earlier one of it.                               *)
LEMMA EarlierIsAcyclic ==
    ASSUME NEW list \in PlanLists, WellFormed(list),
           \A i \in DOMAIN list : DependenciesEarlier(list, i), NEW S, IsCyclic(list, S)
    PROVE  FALSE
<1> DEFINE places == {i \in DOMAIN list : list[i].id \in S}
<1>1. places \subseteq Nat /\ places # {}
  BY DEF PlanLists, IsCyclic, Ids
<1>2. PICK i \in places : \A j \in places : i <= j
  <2> HIDE DEF places
  <2> QED
    BY <1>1, LeastNatural
<1>3. i \in DOMAIN list /\ list[i].id \in S
  BY <1>2
<1>4. PICK k \in DOMAIN list[i].deps : list[i].deps[k] \in S
  BY <1>3, WellFormedPlans DEF IsCyclic
<1>5. list[i].deps[k] \in Ids(list)
  BY <1>4 DEF IsCyclic
<1>6. Position(list, list[i].deps[k]) \in places
  BY <1>4, <1>5, PositionOf
<1>7. Position(list, list[i].deps[k]) < i
  BY <1>3, <1>4 DEF DependenciesEarlier
<1>8. i \in Nat /\ Position(list, list[i].deps[k]) \in Nat
  BY <1>1, <1>2, <1>6
<1>9. i <= Position(list, list[i].deps[k])
  <2> HIDE DEF places
  <2> QED
    BY <1>2, <1>6
<1> HIDE DEF places
<1> QED
  BY <1>7, <1>8, <1>9

LEMMA ValidPlans ==
    ASSUME NEW list \in PlanLists, WellFormed(list), \A i \in DOMAIN list : DependenciesEarlier(list, i)
    PROVE  Validate(list) = "accepted"
<1>1. ~\E i \in DOMAIN list : ReachesCycle(list, list[i].id)
  BY EarlierIsAcyclic, ReachesCycleIsRight
<1> QED
  BY <1>1 DEF Validate, WellFormed

-----------------------------------------------------------------------------
(* Plan::new. *)

ConstructionInv ==
    /\ plan \in UNION {[1..n -> Entry] : n \in Nat}
    /\ verdict \in {"pending", "unconstructible", Validate(plan)}

LEMMA FunctionIsSeq ==
    ASSUME NEW S, NEW m \in Nat, NEW s \in [1..m -> S]
    PROVE  s \in Seq(S) /\ Len(s) = m /\ DOMAIN s = 1..m
OBVIOUS

LEMMA EntryIsTyped ==
    ASSUME NEW e \in Entry
    PROVE  e \in PlanEntries /\ Len(e.deps) \in 0..2 /\ DOMAIN e.deps = 1..Len(e.deps)
<1>1. 1..MaxId \subseteq Nat
  BY ListBoundsAssumption
<1>2. e = [id |-> e.id, deps |-> e.deps] /\ e.id \in Nat
  BY <1>1 DEF Entry
<1>3. CASE e.deps = <<>>
  <2>1. e.deps \in Seq(Nat) /\ Len(e.deps) = 0 /\ DOMAIN e.deps = 1..0
    BY <1>3
  <2> QED
    BY <1>2, <2>1 DEF PlanEntries
<1>4. CASE e.deps \in [1..1 -> 1..MaxId]
  <2>1. e.deps \in [1..1 -> Nat]
    BY <1>1, <1>4
  <2>2. e.deps \in Seq(Nat) /\ Len(e.deps) = 1 /\ DOMAIN e.deps = 1..1
    BY <2>1, FunctionIsSeq
  <2> QED
    BY <1>2, <2>2 DEF PlanEntries
<1>5. CASE e.deps \in [1..2 -> 1..MaxId]
  <2>1. e.deps \in [1..2 -> Nat]
    BY <1>1, <1>5
  <2>2. e.deps \in Seq(Nat) /\ Len(e.deps) = 2 /\ DOMAIN e.deps = 1..2
    BY <2>1, FunctionIsSeq
  <2> QED
    BY <1>2, <2>2 DEF PlanEntries
<1> QED
  BY <1>3, <1>4, <1>5 DEF Entry

LEMMA ConstructionStep ==
    ASSUME ConstructionInv, [ConstructionNext]_constructionVars
    PROVE  ConstructionInv'
<1>1. CASE UNCHANGED constructionVars
  BY <1>1, Zenon DEF constructionVars, ConstructionInv
<1>2. CASE New
  <2>1. plan' = plan /\ verdict' \in {"unconstructible", Validate(plan)}
    BY <1>2 DEF New
  <2> QED
    BY <2>1 DEF ConstructionInv
<1> QED
  BY <1>1, <1>2 DEF ConstructionNext

LEMMA VerdictHolds == ASSUME ConstructionInv PROVE VerdictIsRight
<1> DEFINE wellFormed ==
            /\ \A i, j \in DOMAIN plan : plan[i].id = plan[j].id => i = j
            /\ \A i \in DOMAIN plan : Len(plan[i].deps) = 2 => plan[i].deps[1] # plan[i].deps[2]
            /\ \A i \in DOMAIN plan : \A k \in DOMAIN plan[i].deps :
                  \E j \in DOMAIN plan : plan[j].id = plan[i].deps[k]
<1> DEFINE earlier ==
            \A i \in DOMAIN plan : \A k \in DOMAIN plan[i].deps :
                \E j \in 1..(i - 1) : plan[j].id = plan[i].deps[k]
<1> DEFINE cyclic ==
            \E S \in (SUBSET Ids(plan)) \ {{}} :
                \A i \in DOMAIN plan : plan[i].id \in S =>
                    \E k \in DOMAIN plan[i].deps : plan[i].deps[k] \in S
<1>1. PICK n \in Nat : plan \in [1..n -> Entry]
  BY DEF ConstructionInv
<1>2. DOMAIN plan = 1..n
  BY <1>1
<1>3. ASSUME NEW i \in DOMAIN plan
      PROVE  /\ plan[i] \in PlanEntries /\ Len(plan[i].deps) \in 0..2
             /\ DOMAIN plan[i].deps = 1..Len(plan[i].deps)
  BY <1>1, <1>2, EntryIsTyped
<1>4. plan \in PlanLists
  BY <1>1, <1>2, <1>3 DEF PlanLists
<1>5. wellFormed <=> WellFormed(plan)
  <2>1. ASSUME wellFormed, NEW i \in DOMAIN plan PROVE UniqueId(plan, i) /\ KnownDependencies(plan, i)
    <3>1. UniqueId(plan, i)
      BY <1>2, <2>1 DEF UniqueId
    <3>2. ASSUME NEW k \in DOMAIN plan[i].deps, NEW l \in DOMAIN plan[i].deps \ {k}
          PROVE  plan[i].deps[l] # plan[i].deps[k]
      <4>1. Len(plan[i].deps) = 2 /\ ((k = 1 /\ l = 2) \/ (k = 2 /\ l = 1))
        BY <1>3
      <4> QED
        BY <2>1, <4>1
    <3>3. \A k \in DOMAIN plan[i].deps : plan[i].deps[k] \in Ids(plan)
      BY <2>1 DEF Ids
    <3> QED
      BY <3>1, <3>2, <3>3 DEF KnownDependencies
  <2>2. ASSUME WellFormed(plan) PROVE wellFormed
    <3>1. \A i, j \in DOMAIN plan : plan[i].id = plan[j].id => i = j
      BY <1>4, <2>2, WellFormedPlans
    <3>2. ASSUME NEW i \in DOMAIN plan, Len(plan[i].deps) = 2 PROVE plan[i].deps[1] # plan[i].deps[2]
      <4>1. 1 \in DOMAIN plan[i].deps /\ 2 \in DOMAIN plan[i].deps \ {1} /\ KnownDependencies(plan, i)
        BY <1>3, <2>2, <3>2 DEF WellFormed
      <4> QED
        BY <4>1 DEF KnownDependencies
    <3>3. ASSUME NEW i \in DOMAIN plan, NEW k \in DOMAIN plan[i].deps
          PROVE  \E j \in DOMAIN plan : plan[j].id = plan[i].deps[k]
      BY <2>2 DEF WellFormed, KnownDependencies, Ids
    <3> QED
      BY <3>1, <3>2, <3>3
  <2> HIDE DEF wellFormed
  <2> QED
    BY <2>1, <2>2 DEF WellFormed
<1>6. ASSUME WellFormed(plan)
      PROVE  earlier <=> \A i \in DOMAIN plan : DependenciesEarlier(plan, i)
  <2>1. ASSUME NEW i \in DOMAIN plan, NEW k \in DOMAIN plan[i].deps
        PROVE  Position(plan, plan[i].deps[k]) < i <=> \E j \in 1..(i - 1) : plan[j].id = plan[i].deps[k]
    <3>1. plan[i].deps[k] \in Ids(plan)
      BY <1>6 DEF WellFormed, KnownDependencies
    <3> DEFINE q == Position(plan, plan[i].deps[k])
    <3>2. q \in DOMAIN plan /\ plan[q].id = plan[i].deps[k]
      BY <1>4, <3>1, PositionOf
    <3>3. \A a, b \in DOMAIN plan : plan[a].id = plan[b].id => a = b
      BY <1>4, <1>6, WellFormedPlans
    <3> HIDE DEF q
    <3>4. q < i => \E j \in 1..(i - 1) : plan[j].id = plan[i].deps[k]
      BY <1>2, <3>2
    <3>5. (\E j \in 1..(i - 1) : plan[j].id = plan[i].deps[k]) => q < i
      BY <1>2, <3>2, <3>3
    <3> QED
      BY <3>4, <3>5 DEF q
  <2> QED
    BY <2>1 DEF DependenciesEarlier
<1>7. ASSUME WellFormed(plan) PROVE cyclic <=> \E S : IsCyclic(plan, S)
  <2>1. \A i \in DOMAIN plan : DepsOf(plan, plan[i].id) = plan[i].deps
    BY <1>4, <1>7, WellFormedPlans
  <2>2. ASSUME NEW S, S \subseteq Ids(plan), S # {}
        PROVE  IsCyclic(plan, S) <=>
                  \A i \in DOMAIN plan : plan[i].id \in S =>
                      \E k \in DOMAIN plan[i].deps : plan[i].deps[k] \in S
    BY <2>1, <2>2 DEF IsCyclic, Ids
  <2>3. \A S : IsCyclic(plan, S) => S \in (SUBSET Ids(plan)) \ {{}}
    BY DEF IsCyclic
  <2> QED
    BY <2>2, <2>3
<1> HIDE DEF wellFormed, earlier, cyclic
<1>8. ASSUME WellFormed(plan)
      PROVE  cyclic <=> \E i \in DOMAIN plan : ReachesCycle(plan, plan[i].id)
  BY <1>4, <1>7, <1>8, ReachesCycleIsRight
<1>9. ASSUME WellFormed(plan), earlier PROVE ~cyclic
  BY <1>4, <1>6, <1>7, <1>9, EarlierIsAcyclic
<1>10. /\ (Validate(plan) = "accepted") <=> (wellFormed /\ earlier)
       /\ (Validate(plan) = "cycle") <=> (wellFormed /\ cyclic)
  <2>1. CASE ~WellFormed(plan)
    <3>1. Validate(plan) = "malformed"
      BY <2>1 DEF Validate, WellFormed
    <3> QED
      BY <1>5, <2>1, <3>1
  <2>2. CASE WellFormed(plan) /\ cyclic
    <3>1. Validate(plan) = "cycle"
      BY <1>8, <2>2 DEF Validate, WellFormed
    <3> QED
      BY <1>5, <1>9, <2>2, <3>1
  <2>3. CASE WellFormed(plan) /\ ~cyclic
    <3>1. Validate(plan) = IF \E i \in DOMAIN plan : ~DependenciesEarlier(plan, i)
                           THEN "out of order" ELSE "accepted"
      BY <1>8, <2>3 DEF Validate, WellFormed
    <3> QED
      BY <1>5, <1>6, <2>3, <3>1
  <2> QED
    BY <2>1, <2>2, <2>3
<1>11. verdict \notin {"pending", "unconstructible"} => verdict = Validate(plan)
  BY DEF ConstructionInv
<1>12. verdict \notin {"pending", "unconstructible"} =>
         /\ (verdict = "accepted") = (wellFormed /\ earlier)
         /\ (verdict = "cycle") = (wellFormed /\ cyclic)
  <2> SUFFICES ASSUME verdict = Validate(plan)
               PROVE  /\ (verdict = "accepted") = (wellFormed /\ earlier)
                      /\ (verdict = "cycle") = (wellFormed /\ cyclic)
    BY <1>11
  <2>1. (verdict = "accepted") <=> (wellFormed /\ earlier)
    BY <1>10
  <2>2. (verdict = "cycle") <=> (wellFormed /\ cyclic)
    BY <1>10
  <2> QED
    BY <2>1, <2>2
<1> QED
  BY <1>12, Zenon DEF VerdictIsRight, wellFormed, earlier, cyclic

(* On every list of mutations that can be constructed, Plan::validate        *)
(* accepts exactly the ones in dependency order and blames a cycle exactly   *)
(* where there is one: the depth-first search misses none and invents none.  *)
THEOREM ValidationIsExact == ConstructionSpec => []VerdictIsRight
<1>1. ConstructionInit => ConstructionInv
  BY ListBoundsAssumption DEF ConstructionInit, ConstructionInv
<1> QED
  BY <1>1, ConstructionStep, VerdictHolds, PTL DEF ConstructionSpec

-----------------------------------------------------------------------------
(* The plan that finalize_candidates hands to Plan::from_items. *)

LEMMA NumberedOnce ==
    ASSUME OrderInv
    PROVE  \A i, j \in DOMAIN ordered : ordered[i] = ordered[j] => i = j
<1>1. DOMAIN ordered = 1..Len(ordered) /\ Len(ordered) \in Nat /\ ordered \in [1..Len(ordered) -> Placed]
  BY DEF OrderInv, TypeInv, Placed
<1>2. ordered \in Surjection(1..Len(ordered), Placed)
  BY <1>1 DEF Surjection, Placed
<1>3. IsFiniteSet(1..Len(ordered)) /\ Cardinality(1..Len(ordered)) = Cardinality(Placed)
  <2>1. Cardinality(Placed) = Len(ordered)
    BY DEF OrderInv, CountInv
  <2>2. IsFiniteSet(1..Len(ordered)) /\ Cardinality(1..Len(ordered)) = Len(ordered)
    BY <1>1, FS_Interval
  <2> QED
    BY <2>1, <2>2
<1>4. ordered \in Injection(1..Len(ordered), Placed)
  BY <1>2, <1>3, FS_SurjSameCardinalityImpliesInj
<1> QED
  BY <1>1, <1>4 DEF Injection, IsInjective

LEMMA EnumerationLists ==
    ASSUME NEW S, IsFiniteSet(S)
    PROVE  /\ Cardinality(S) \in Nat
           /\ Enumeration(S) \in [1..Cardinality(S) -> S]
           /\ \A i, j \in 1..Cardinality(S) : Enumeration(S)[i] = Enumeration(S)[j] => i = j
<1> DEFINE n == Cardinality(S)
<1>1. n \in Nat /\ ExistsBijection(1..n, S)
  BY FS_CardinalityType
<1>2. PICK g \in Bijection(1..n, S) : TRUE
  BY <1>1 DEF ExistsBijection
<1>3. g \in [1..n -> S] /\ \A x \in S : \E i \in 1..n : g[i] = x
  BY <1>2 DEF Bijection, Surjection
<1>4. \E s \in [1..n -> S] : \A x \in S : \E i \in DOMAIN s : s[i] = x
  BY <1>3
<1>5. Enumeration(S) \in [1..n -> S] /\ \A x \in S : \E i \in DOMAIN Enumeration(S) : Enumeration(S)[i] = x
  BY <1>4, Zenon DEF Enumeration
<1>6. Enumeration(S) \in Surjection(1..n, S)
  BY <1>5 DEF Surjection
<1>7. IsFiniteSet(1..n) /\ Cardinality(1..n) = Cardinality(S)
  BY <1>1, FS_Interval
<1>8. Enumeration(S) \in Injection(1..n, S)
  <2> HIDE DEF n
  <2> QED
    BY <1>6, <1>7, FS_SurjSameCardinalityImpliesInj
<1> QED
  BY <1>1, <1>5, <1>8 DEF Injection, IsInjective

LEMMA PlanOfIsValid == ASSUME OrderInv PROVE Validate(PlanOf) = "accepted"
<1>0. DOMAIN ordered = 1..Len(ordered) /\ Len(ordered) \in Nat
  BY DEF OrderInv, TypeInv
<1> DEFINE D(i) == {IdOf(k) : k \in edges[ordered[i]]}
<1>1. ASSUME NEW i \in DOMAIN ordered PROVE D(i) \subseteq 1..(i - 1) /\ IsFiniteSet(D(i))
  <2>1. ASSUME NEW k \in edges[ordered[i]] PROVE IdOf(k) \in 1..(i - 1)
    <3>1. PICK j \in 1..(i - 1) : ordered[j] = k
      BY DEF OrderInv, DependenciesFirst
    <3>2. j \in DOMAIN ordered
      BY <1>0
    <3>3. IdOf(k) \in DOMAIN ordered /\ ordered[IdOf(k)] = k
      BY <3>1, <3>2, Zenon DEF IdOf
    <3>4. IdOf(k) = j
      BY <3>1, <3>2, <3>3, NumberedOnce
    <3> QED
      BY <3>4
  <2>2. D(i) \in SUBSET (1..(i - 1))
    BY <2>1
  <2>3. IsFiniteSet(1..(i - 1))
    BY <1>0, FS_Interval
  <2> HIDE DEF D
  <2> QED
    BY <2>2, <2>3, FS_Subset
<1> DEFINE list == [i \in DOMAIN ordered |-> [id |-> i, deps |-> Enumeration(D(i))]]
<1>2. PlanOf = list
  BY Zenon DEF PlanOf
<1> HIDE DEF D
<1>3. ASSUME NEW i \in DOMAIN ordered
      PROVE  /\ list[i] \in PlanEntries /\ list[i].id = i
             /\ \A k \in DOMAIN list[i].deps : list[i].deps[k] \in 1..(i - 1)
             /\ \A k, l \in DOMAIN list[i].deps : list[i].deps[k] = list[i].deps[l] => k = l
  <2>1. /\ Cardinality(D(i)) \in Nat
        /\ Enumeration(D(i)) \in [1..Cardinality(D(i)) -> D(i)]
        /\ \A k, l \in 1..Cardinality(D(i)) : Enumeration(D(i))[k] = Enumeration(D(i))[l] => k = l
    BY <1>1, EnumerationLists
  <2>2. D(i) \subseteq Nat /\ i \in Nat
    BY <1>0, <1>1
  <2>3. Enumeration(D(i)) \in [1..Cardinality(D(i)) -> Nat]
    BY <2>1, <2>2
  <2>4. Enumeration(D(i)) \in Seq(Nat)
    BY <2>1, <2>3, FunctionIsSeq
  <2>5. list[i].id = i /\ list[i].deps = Enumeration(D(i)) /\ list[i] \in PlanEntries
    BY <2>2, <2>4 DEF PlanEntries
  <2> HIDE DEF list
  <2> QED
    BY <1>1, <2>1, <2>5
<1>4. DOMAIN list = 1..Len(ordered)
  BY <1>0
<1> HIDE DEF list
<1>5. list \in PlanLists
  <2>1. list \in [1..Len(ordered) -> PlanEntries]
    BY <1>0, <1>3, <1>4 DEF list
  <2> QED
    BY <1>0, <2>1, FunctionIsSeq DEF PlanLists
<1>6. \A i \in 1..Len(ordered) : i \in Ids(list)
  BY <1>0, <1>3, <1>4 DEF Ids
<1>7. WellFormed(list)
  <2>1. ASSUME NEW i \in DOMAIN list PROVE UniqueId(list, i)
    BY <1>0, <1>3, <1>4 DEF UniqueId
  <2>2. ASSUME NEW i \in DOMAIN list PROVE KnownDependencies(list, i)
    <3>1. \A k \in DOMAIN list[i].deps : list[i].deps[k] \in Ids(list)
      BY <1>0, <1>3, <1>4, <1>6
    <3>2. \A k \in DOMAIN list[i].deps : \A l \in DOMAIN list[i].deps \ {k} : list[i].deps[l] # list[i].deps[k]
      BY <1>0, <1>3, <1>4
    <3> QED
      BY <3>1, <3>2 DEF KnownDependencies
  <2> QED
    BY <2>1, <2>2 DEF WellFormed
<1>8. ASSUME NEW i \in DOMAIN list PROVE DependenciesEarlier(list, i)
  <2>1. ASSUME NEW k \in DOMAIN list[i].deps PROVE Position(list, list[i].deps[k]) < i
    <3> DEFINE d == list[i].deps[k]
    <3>1. d \in 1..(i - 1) /\ i \in DOMAIN ordered
      BY <1>0, <1>3, <1>4
    <3>2. d \in DOMAIN list /\ list[d].id = d
      BY <1>0, <1>3, <1>4, <3>1
    <3> HIDE DEF d
    <3>3. Position(list, d) = d
      BY <1>5, <1>7, <3>2, WellFormedPlans
    <3> QED
      BY <1>0, <3>1, <3>3 DEF d
  <2> QED
    BY <2>1 DEF DependenciesEarlier
<1> QED
  BY <1>2, <1>5, <1>7, <1>8, ValidPlans

(* The plan finalize_candidates numbers never fails the validation that      *)
(* Plan::from_items runs on it.                                              *)
THEOREM OrderedPlansValidate == OrderSpec => []OrderedPlanIsValid
<1>1. OrderInit => OrderedPlanIsValid
  BY DEF OrderInit, OrderedPlanIsValid
<1>2. ASSUME OrderInv, OrderedPlanIsValid, [OrderNext]_orderVars PROVE OrderedPlanIsValid'
  <2>1. CASE Link
    BY <1>2, <2>1 DEF Link, Reject, OrderedPlanIsValid
  <2>2. CASE Count \/ Pop \/ OrderDone
    BY <1>2, <2>2 DEF Count, Pop, OrderDone, Reject, OrderedPlanIsValid
  <2>3. CASE ValidatePlan
    BY <1>2, <2>3, PlanOfIsValid DEF ValidatePlan, Reject, OrderedPlanIsValid
  <2>4. CASE UNCHANGED orderVars
    BY <1>2, <2>4 DEF orderVars, OrderedPlanIsValid
  <2> QED
    BY <1>2, <2>1, <2>2, <2>3, <2>4 DEF OrderNext
<1> QED
  BY <1>1, <1>2, OrderAlways, PTL DEF OrderSpec
=============================================================================
