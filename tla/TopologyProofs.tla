---------------------------- MODULE TopologyProofs ----------------------------
(***************************************************************************)
(* Soft isolation, for every number of CPUs, every layout of cores and     *)
(* NUMA nodes, every set of unreadable files, every policy and every       *)
(* sequence of hotplug events during the two discoveries.                  *)
(***************************************************************************)
EXTENDS Topology, FiniteSetTheorems, SequenceTheorems, TLAPS

-----------------------------------------------------------------------------
(* Sets of naturals have least elements, bounded ones greatest elements.     *)

LEMMA LeastOf ==
    ASSUME NEW T, T \subseteq Nat, T # {}
    PROVE  Min(T) \in T /\ \A y \in T : Min(T) <= y
<1> DEFINE less == {ss \in Nat \X Nat : ss[1] < ss[2]}
<1>1. IsWellFoundedOn(less, Nat)
  BY NatLessThanWellFounded DEF OpToRel
<1>2. \E x \in T : \A y \in T : ~(<<y, x>> \in less)
  <2> HIDE DEF less
  <2> QED
    BY <1>1, WFMin
<1>3. PICK x \in T : \A y \in T : ~(<<y, x>> \in less)
  BY <1>2
<1>4. ASSUME NEW y \in T PROVE x <= y
  <2>1. x \in Nat /\ y \in Nat /\ <<y, x>> \in Nat \X Nat
    OBVIOUS
  <2>2. ~(y < x)
    BY <1>3, <2>1
  <2> QED
    BY <2>1, <2>2
<1> QED
  BY <1>4 DEF Min

(* The number of elements before a one. *)
RankIn(A, R, a) == Cardinality({b \in A : <<b, a>> \in R})

StrictTotalOrder(A, R) ==
    /\ \A a \in A : <<a, a>> \notin R
    /\ \A a, b, c \in A : <<a, b>> \in R /\ <<b, c>> \in R => <<a, c>> \in R
    /\ \A a, b \in A : a # b => <<a, b>> \in R \/ <<b, a>> \in R

(* The ranks tell the elements apart and take every value below the size. *)
Ranked(A, R) ==
    /\ \A a \in A : RankIn(A, R, a) \in 0..(Cardinality(A) - 1)
    /\ \A a, b \in A : <<a, b>> \in R => RankIn(A, R, a) < RankIn(A, R, b)
    /\ \A a, b \in A : RankIn(A, R, a) = RankIn(A, R, b) => a = b
    /\ \A m \in 0..(Cardinality(A) - 1) : \E a \in A : RankIn(A, R, a) = m

(* The number of smaller elements tells the elements of a finite set with a  *)
(* strict total order apart, and takes every value below the size.           *)
LEMMA Ranks ==
    ASSUME NEW A, IsFiniteSet(A), NEW R, StrictTotalOrder(A, R)
    PROVE  Ranked(A, R)
<1> DEFINE below(a) == {b \in A : <<b, a>> \in R}
<1> DEFINE rank(a) == RankIn(A, R, a)
<1>r. \A a : rank(a) = Cardinality(below(a))
  BY DEF RankIn
<1>n. Cardinality(A) \in Nat
  BY FS_CardinalityType
<1>1. ASSUME NEW a \in A
      PROVE  rank(a) \in 0..(Cardinality(A) - 1) /\ rank(a) \in Nat /\ IsFiniteSet(below(a))
  <2>1. below(a) \in SUBSET (A \ {a})
    BY DEF StrictTotalOrder
  <2>2. IsFiniteSet(A \ {a}) /\ Cardinality(A \ {a}) = Cardinality(A) - 1
    BY FS_RemoveElement
  <2> HIDE DEF below
  <2>3. /\ IsFiniteSet(below(a)) /\ Cardinality(below(a)) <= Cardinality(A \ {a})
        /\ Cardinality(below(a)) \in Nat
    BY <2>1, <2>2, FS_Subset, FS_CardinalityType
  <2> QED
    BY <1>n, <1>r, <2>2, <2>3
<1>2. ASSUME NEW a \in A, NEW b \in A, <<a, b>> \in R PROVE rank(a) < rank(b)
  <2>1. below(a) \in SUBSET below(b) /\ a \in below(b) /\ a \notin below(a)
    BY <1>2 DEF StrictTotalOrder
  <2>2. below(a) # below(b)
    BY <2>1
  <2>3. IsFiniteSet(below(b)) /\ rank(a) \in Nat /\ rank(b) \in Nat
    BY <1>1, <1>n
  <2> HIDE DEF below
  <2>4. Cardinality(below(a)) <= Cardinality(below(b)) /\ Cardinality(below(a)) # Cardinality(below(b))
    BY <2>1, <2>2, <2>3, FS_Subset
  <2> QED
    BY <1>r, <2>3, <2>4
<1>3. ASSUME NEW a \in A, NEW b \in A, rank(a) = rank(b) PROVE a = b
  <2> SUFFICES ASSUME a # b PROVE FALSE
    OBVIOUS
  <2>1. rank(a) < rank(b) \/ rank(b) < rank(a)
    BY <1>2 DEF StrictTotalOrder
  <2>2. rank(a) \in Nat /\ rank(b) \in Nat
    BY <1>1
  <2> HIDE DEF rank
  <2> QED
    BY <1>3, <2>1, <2>2
<1>4. ASSUME NEW m \in 0..(Cardinality(A) - 1) PROVE \E a \in A : rank(a) = m
  <2> DEFINE T == 0..(Cardinality(A) - 1)
  <2> DEFINE f == [a \in A |-> rank(a)]
  <2>1. f \in [A -> T] /\ \A a, b \in A : f[a] = f[b] => a = b
    BY <1>1, <1>3
  <2>2. IsFiniteSet(T) /\ Cardinality(T) = Cardinality(A)
    <3>1. A # {}
      BY <1>n, FS_EmptySet
    <3> QED
      BY <1>n, <3>1, FS_Interval
  <2>3. f \in Surjection(A, T)
    <3> HIDE DEF f, T
    <3>1. f \in Injection(A, T)
      BY <2>1 DEF Injection, IsInjective
    <3> QED
      BY <2>2, <3>1, FS_Injection
  <2>4. \E a \in A : f[a] = m
    <3> HIDE DEF f
    <3> QED
      BY <2>3 DEF Surjection
  <2> QED
    BY <2>4
<1> QED
  BY <1>1, <1>2, <1>3, <1>4 DEF Ranked

-----------------------------------------------------------------------------
(* The kernel's CPU lists.                                                   *)

(* A range of the rendered list is a run of the set. *)
LEMMA RunEnds ==
    ASSUME NEW n \in Nat, NEW S, S \subseteq 0..n, NEW c \in S
    PROVE  LET ends == {e \in S : e >= c /\ e + 1 \notin S}
           IN  /\ Min(ends) \in S /\ Min(ends) >= c
               /\ c..Min(ends) \subseteq S
               /\ Min(ends) + 1 \notin S
<1> DEFINE ends == {e \in S : e >= c /\ e + 1 \notin S}
<1>0. S \subseteq Nat /\ c \in Nat
  OBVIOUS
<1>1. ends # {}
  <2> DEFINE gaps == {x \in Nat : x > c /\ x \notin S}
  <2>1. n + 1 \in gaps
    BY <1>0
  <2>2. Min(gaps) \in gaps /\ \A y \in gaps : Min(gaps) <= y
    <3>1. gaps \subseteq Nat /\ gaps # {}
      BY <2>1
    <3> HIDE DEF gaps
    <3> QED
      BY <3>1, LeastOf
  <2> DEFINE x == Min(gaps)
  <2> HIDE DEF x
  <2>3. x \in Nat /\ x > c /\ x \notin S /\ \A y \in Nat : y > c /\ y \notin S => x <= y
    BY <2>2 DEF x
  <2>4. x - 1 \in S
    <3>1. CASE x - 1 = c
      BY <3>1
    <3>2. CASE x - 1 # c
      BY <1>0, <2>3, <3>2
    <3> QED
      BY <3>1, <3>2
  <2>5. x - 1 >= c /\ (x - 1) + 1 \notin S
    BY <1>0, <2>3
  <2> QED
    BY <2>4, <2>5
<1>2. Min(ends) \in ends /\ \A y \in ends : Min(ends) <= y
  <2>1. ends \subseteq Nat
    BY <1>0
  <2> HIDE DEF ends
  <2> QED
    BY <1>1, <2>1, LeastOf
<1> DEFINE e == Min(ends)
<1> HIDE DEF e
<1>3. e \in S /\ e >= c /\ e + 1 \notin S /\ e \in Nat
      /\ \A y \in S : y >= c /\ y + 1 \notin S => e <= y
  BY <1>0, <1>2 DEF e
<1>4. c..e \subseteq S
  <2> SUFFICES ASSUME NEW w \in c..e, w \notin S PROVE FALSE
    OBVIOUS
  <2> DEFINE holes == {x \in c..e : x \notin S}
  <2>1. Min(holes) \in holes /\ \A y \in holes : Min(holes) <= y
    <3>1. holes \subseteq Nat /\ holes # {}
      BY <1>0, <1>3
    <3> HIDE DEF holes
    <3> QED
      BY <3>1, LeastOf
  <2> DEFINE x == Min(holes)
  <2> HIDE DEF x
  <2>2. x \in c..e /\ x \notin S /\ \A y \in c..e : y \notin S => x <= y
    BY <2>1 DEF x
  <2>3. x \in Nat /\ x > c /\ x <= e
    BY <1>0, <1>3, <2>2
  <2>4. x - 1 \in c..e /\ ~(x <= x - 1) /\ (x - 1) + 1 = x
    BY <1>0, <1>3, <2>3
  <2>5. x - 1 \in S
    BY <2>2, <2>4
  <2>6. e <= x - 1
    BY <1>0, <1>3, <2>2, <2>3, <2>5
  <2> QED
    BY <1>3, <2>3, <2>6
<1> QED
  BY <1>3, <1>4 DEF e

(* Every member of a set is in a run that begins at a start. *)
LEMMA RunStarts ==
    ASSUME NEW n \in Nat, NEW S, S \subseteq 0..n, NEW s \in S
    PROVE  \E c \in S : c - 1 \notin S /\ c <= s /\ c..s \subseteq S
<1> DEFINE X == {x \in 0..s : x..s \subseteq S}
<1>0. S \subseteq Nat /\ s \in Nat
  OBVIOUS
<1>1. s \in X
  BY <1>0
<1>2. Min(X) \in X /\ \A y \in X : Min(X) <= y
  <2>1. X \subseteq Nat /\ X # {}
    BY <1>1
  <2> HIDE DEF X
  <2> QED
    BY <2>1, LeastOf
<1> DEFINE c == Min(X)
<1> HIDE DEF c
<1>3. c \in 0..s /\ c..s \subseteq S /\ \A y \in 0..s : y..s \subseteq S => c <= y
  BY <1>2 DEF c
<1>4. c \in S /\ c <= s /\ c \in Nat
  BY <1>0, <1>3
<1>5. c - 1 \notin S
  <2> SUFFICES ASSUME c - 1 \in S PROVE FALSE
    OBVIOUS
  <2>1. c - 1 \in 0..s
    BY <1>0, <1>4
  <2>2. (c - 1)..s \subseteq S
    <3> SUFFICES ASSUME NEW y \in (c - 1)..s PROVE y \in S
      OBVIOUS
    <3>1. y = c - 1 \/ y \in c..s
      BY <1>0, <1>4
    <3> QED
      BY <1>3, <3>1
  <2>3. c <= c - 1
    BY <1>3, <2>1, <2>2
  <2> QED
    BY <1>4, <2>3
<1> QED
  BY <1>3, <1>4, <1>5

(* parse_cpu_list reads what render_cpu_set writes: for every set of CPUs    *)
(* the ranges of the list make up the set, and only the empty set has a      *)
(* list that is refused.                                                     *)
THEOREM CpuListsRoundTrip ==
    ASSUME NEW n \in Nat, NEW S, S \subseteq 0..n
    PROVE  /\ ParseCpuList(RenderCpuSet(S)) = S
           /\ Parses(RenderCpuSet(S)) <=> S # {}
<1> DEFINE starts == {c \in S : c - 1 \notin S}
<1> DEFINE end(c) == Min({e \in S : e >= c /\ e + 1 \notin S})
<1> DEFINE nth(m) == CHOOSE c \in starts : Cardinality({d \in starts : d < c}) = m - 1
<1> DEFINE k == Cardinality(starts)
<1>0. S \subseteq Nat /\ starts \subseteq S /\ \A c \in S : c \in Int
  OBVIOUS
<1>1. RenderCpuSet(S) = [m \in 1..k |-> <<nth(m), end(nth(m))>>]
  BY DEF RenderCpuSet
<1>2. IsFiniteSet(starts) /\ k \in Nat
  <2>1. starts \in SUBSET (0..n)
    OBVIOUS
  <2>2. IsFiniteSet(0..n)
    BY FS_Interval
  <2> HIDE DEF starts
  <2> QED
    BY <2>1, <2>2, FS_Subset, FS_CardinalityType
<1>3. /\ \A m \in 0..(k - 1) : \E c \in starts : Cardinality({d \in starts : d < c}) = m
      /\ \A c \in starts : Cardinality({d \in starts : d < c}) \in 0..(k - 1)
      /\ \A c, d \in starts :
           Cardinality({x \in starts : x < c}) = Cardinality({x \in starts : x < d}) => c = d
  <2> DEFINE R == {x \in starts \X starts : x[1] < x[2]}
  <2>1. StrictTotalOrder(starts, R)
    BY <1>0 DEF StrictTotalOrder
  <2>2. ASSUME NEW a \in starts PROVE {b \in starts : <<b, a>> \in R} = {d \in starts : d < a}
    OBVIOUS
  <2> HIDE DEF R, starts
  <2>3. Ranked(starts, R)
    BY <1>2, <2>1, Ranks
  <2>4. \A a \in starts : RankIn(starts, R, a) = Cardinality({d \in starts : d < a})
    BY <2>2 DEF RankIn
  <2> QED
    BY <2>3, <2>4 DEF Ranked
<1>4. ASSUME NEW m \in 1..k
      PROVE  nth(m) \in starts /\ Cardinality({d \in starts : d < nth(m)}) = m - 1
  <2>1. m - 1 \in 0..(k - 1)
    BY <1>2
  <2>2. \E c \in starts : Cardinality({d \in starts : d < c}) = m - 1
    BY <1>3, <2>1
  <2> HIDE DEF starts
  <2> QED
    BY <2>2
<1>5. ASSUME NEW c \in starts PROVE \E m \in 1..k : nth(m) = c
  <2> DEFINE r == Cardinality({d \in starts : d < c})
  <2>1. r \in 0..(k - 1)
    BY <1>3
  <2> HIDE DEF r, starts, k
  <2>2. r + 1 \in 1..k /\ (r + 1) - 1 = r
    BY <1>2, <2>1
  <2> HIDE DEF nth
  <2>3. nth(r + 1) \in starts /\ Cardinality({d \in starts : d < nth(r + 1)}) = r
    BY <1>4, <2>2
  <2>4. nth(r + 1) = c
    BY <1>3, <2>3 DEF r
  <2> QED
    BY <2>2, <2>4
<1>6. ASSUME NEW c \in S
      PROVE  end(c) \in S /\ end(c) >= c /\ c..end(c) \subseteq S /\ end(c) + 1 \notin S
  BY RunEnds
<1> DEFINE text == RenderCpuSet(S)
<1>7. DOMAIN text = 1..k /\ \A m \in 1..k : text[m][1] = nth(m) /\ text[m][2] = end(nth(m))
  <2> HIDE DEF k, nth, end
  <2> QED
    BY <1>1
<1>8. ParseCpuList(text) = UNION {text[m][1]..text[m][2] : m \in DOMAIN text}
  BY DEF ParseCpuList
<1> HIDE DEF k, nth, end, text
<1>9. ParseCpuList(text) \subseteq S
  <2> SUFFICES ASSUME NEW m \in 1..k PROVE text[m][1]..text[m][2] \subseteq S
    BY <1>7, <1>8
  <2>1. nth(m) \in S
    BY <1>4
  <2> QED
    BY <1>6, <1>7, <2>1
<1>10. S \subseteq ParseCpuList(text)
  <2> SUFFICES ASSUME NEW s \in S PROVE \E m \in 1..k : s \in text[m][1]..text[m][2]
    BY <1>7, <1>8
  <2>1. PICK c \in S : c - 1 \notin S /\ c <= s /\ c..s \subseteq S
    BY RunStarts
  <2>2. PICK m \in 1..k : nth(m) = c
    BY <1>5, <2>1
  <2>3. end(c) \in S /\ end(c) >= c /\ end(c) + 1 \notin S
    BY <1>6
  <2>4. s <= end(c)
    <3> SUFFICES ASSUME ~(s <= end(c)) PROVE FALSE
      OBVIOUS
    <3>1. s \in Int /\ end(c) \in Int /\ c \in Int
      BY <1>0, <2>3
    <3>2. end(c) + 1 \in c..s
      BY <2>3, <3>1
    <3> QED
      BY <2>1, <2>3, <3>2
  <2>5. s \in c..end(c)
    BY <1>0, <2>1, <2>3, <2>4
  <2> QED
    BY <1>7, <2>2, <2>5
<1>11. \A m \in 1..k : text[m][1] <= text[m][2]
  <2> TAKE m \in 1..k
  <2>1. nth(m) \in S /\ nth(m) \in Int
    BY <1>0, <1>4
  <2>2. end(nth(m)) >= nth(m) /\ end(nth(m)) \in Int
    BY <1>0, <1>6, <2>1
  <2> QED
    BY <1>7, <2>1, <2>2
<1>12. text = <<>> <=> S = {}
  <2>1. text = <<>> => S = {}
    <3>1. ASSUME text = <<>> PROVE DOMAIN text = {}
      BY <3>1
    <3> QED
      BY <1>8, <1>10, <3>1
  <2>2. ASSUME S = {} PROVE text = <<>>
    <3>1. starts = {} /\ k = 0
      BY <2>2, FS_EmptySet DEF k
    <3> QED
      BY <1>1, <3>1 DEF text
  <2> QED
    BY <2>1, <2>2
<1>13. Parses(text) <=> S # {}
  BY <1>7, <1>11, <1>12 DEF Parses
<1> QED
  BY <1>9, <1>10, <1>13 DEF text

-----------------------------------------------------------------------------
(* core_groups: the cores part the CPUs on line, and select_for_target puts  *)
(* them in a strict order.                                                   *)

Classes == {"performance", "unknown", "efficiency"}

(* What from_facts makes of the facts of this host. *)
Proper(t) ==
    /\ t.online \subseteq Cpus
    /\ \A c \in Cpus : t.cpu[c].class \in Classes

LEMMA CpusFinite == IsFiniteSet(Cpus) /\ Cpus \subseteq Nat
<1>1. PICK n \in Nat : Core \in [0..n -> Nat]
  BY CpusAssumption
<1>2. Cpus = 0..n
  BY <1>1 DEF Cpus
<1> QED
  BY <1>2, FS_Interval

LEMMA GroupsPart ==
    ASSUME NEW t, Proper(t)
    PROVE  /\ \A g \in Groups(t) : g # {} /\ g \subseteq t.online /\ g \subseteq Nat /\ IsFiniteSet(g)
           /\ \A g, h \in Groups(t) : g \cap h # {} => g = h
           /\ \A c \in t.online : \E g \in Groups(t) : c \in g
           /\ IsFiniteSet(Groups(t)) /\ Cardinality(Groups(t)) \in Nat
           /\ IsFiniteSet(t.online) /\ t.online \subseteq Nat
<1>1. t.online \in SUBSET Cpus /\ t.online \subseteq Nat
  BY CpusFinite DEF Proper
<1>2. IsFiniteSet(t.online)
  BY <1>1, CpusFinite, FS_Subset
<1> DEFINE key(c) == CoreKey(t, c)
<1>3. Groups(t) = {{d \in t.online : key(d) = key(c)} : c \in t.online}
  BY DEF Groups
<1> HIDE DEF key
<1>4. \A g \in Groups(t) : g # {} /\ g \in SUBSET t.online
  BY <1>3
<1>5. \A g, h \in Groups(t) : g \cap h # {} => g = h
  <2> SUFFICES ASSUME NEW g \in Groups(t), NEW h \in Groups(t), NEW x \in g \cap h
               PROVE  g = h
    OBVIOUS
  <2>1. PICK a \in t.online : g = {d \in t.online : key(d) = key(a)}
    BY <1>3
  <2>2. PICK b \in t.online : h = {d \in t.online : key(d) = key(b)}
    BY <1>3
  <2>3. key(a) = key(b)
    BY <2>1, <2>2
  <2> QED
    BY <2>1, <2>2, <2>3
<1>6. \A c \in t.online : \E g \in Groups(t) : c \in g
  <2> TAKE c \in t.online
  <2>1. {d \in t.online : key(d) = key(c)} \in Groups(t)
    BY <1>3
  <2> QED
    BY <2>1
<1>7. IsFiniteSet(Groups(t)) /\ Cardinality(Groups(t)) \in Nat
  <2>1. Groups(t) \in SUBSET (SUBSET t.online)
    BY <1>4
  <2>2. IsFiniteSet(SUBSET t.online)
    BY <1>2, FS_SUBSET
  <2> QED
    BY <2>1, <2>2, FS_Subset, FS_CardinalityType
<1>8. \A g \in Groups(t) : IsFiniteSet(g)
  BY <1>2, <1>4, FS_Subset
<1> QED
  BY <1>1, <1>2, <1>4, <1>5, <1>6, <1>7, <1>8

BeforePairs(t, p) == {x \in Groups(t) \X Groups(t) : Before(t, p, x[1], x[2])}

LEMMA GroupClassIn ==
    ASSUME NEW t, Proper(t), NEW g \in Groups(t)
    PROVE  GroupClass(t, g) \in Classes
<1> DEFINE values == {t.cpu[c].class : c \in g}
<1>1. values \subseteq Classes /\ values # {}
  BY GroupsPart DEF Proper
<1>2. GroupClass(t, g) = IF Cardinality(values) = 1 THEN CHOOSE v \in values : TRUE ELSE "unknown"
  BY DEF GroupClass, Common
<1> HIDE DEF values
<1>3. (CHOOSE v \in values : TRUE) \in values
  BY <1>1
<1> QED
  BY <1>1, <1>2, <1>3 DEF Classes

(* The preferred node first, then the capacity, then the number of a CPU. *)
LEMMA GroupOrder ==
    ASSUME NEW t, Proper(t), NEW p
    PROVE  StrictTotalOrder(Groups(t), BeforePairs(t, p))
<1> DEFINE G == Groups(t)
<1> DEFINE pk(x) == IF p.node # Unknown /\ GroupNode(t, x) = p.node THEN 0 ELSE 1
<1> DEFINE rk(x) == IF p.prefer /\ t.mode = "heterogeneous"
                      THEN CapacityRank(GroupClass(t, x)) ELSE 0
<1> DEFINE mn(x) == Min(x)
<1>1. ASSUME NEW g \in G
      PROVE  pk(g) \in Int /\ rk(g) \in Int /\ mn(g) \in Int /\ mn(g) \in g
  <2>1. mn(g) \in Int /\ mn(g) \in g
    BY GroupsPart, LeastOf
  <2>2. rk(g) \in Int
    BY GroupClassIn DEF CapacityRank, Classes
  <2> QED
    BY <2>1, <2>2
<1>2. ASSUME NEW g \in G, NEW h \in G, g # h PROVE mn(g) # mn(h)
  <2>1. g \cap h = {}
    BY <1>2, GroupsPart
  <2> QED
    BY <1>1, <2>1
<1>3. ASSUME NEW g \in G, NEW h \in G
      PROVE  Before(t, p, g, h) <=>
                \/ pk(g) < pk(h)
                \/ pk(g) = pk(h) /\ rk(g) < rk(h)
                \/ pk(g) = pk(h) /\ rk(g) = rk(h) /\ mn(g) < mn(h)
  <2> DEFINE pg == p.node # Unknown /\ GroupNode(t, g) = p.node
             ph == p.node # Unknown /\ GroupNode(t, h) = p.node
  <2>1. /\ pk(g) = (IF pg THEN 0 ELSE 1) /\ pk(h) = (IF ph THEN 0 ELSE 1)
    OBVIOUS
  <2>2. /\ (pg /\ ~ph) => Before(t, p, g, h)
        /\ (~pg /\ ph) => ~Before(t, p, g, h)
        /\ (pg <=> ph) => (Before(t, p, g, h)
                              <=> IF rk(g) # rk(h) THEN rk(g) < rk(h) ELSE mn(g) < mn(h))
    BY DEF Before
  <2>3. rk(g) \in Int /\ rk(h) \in Int
    BY <1>1
  <2> HIDE DEF pg, ph, rk, mn, pk
  <2> QED
    BY <2>1, <2>2, <2>3
<1>4. \A g, h \in G : <<g, h>> \in BeforePairs(t, p) <=> Before(t, p, g, h)
  BY DEF BeforePairs
<1> HIDE DEF G, pk, rk, mn
<1>5. \A g \in G : ~Before(t, p, g, g)
  BY <1>1, <1>3
<1>6. \A f, g, h \in G : Before(t, p, f, g) /\ Before(t, p, g, h) => Before(t, p, f, h)
  <2> SUFFICES ASSUME NEW f \in G, NEW g \in G, NEW h \in G,
                      Before(t, p, f, g), Before(t, p, g, h)
               PROVE  Before(t, p, f, h)
    OBVIOUS
  <2> QED
    BY <1>1, <1>3
<1>7. \A g, h \in G : g # h => Before(t, p, g, h) \/ Before(t, p, h, g)
  BY <1>1, <1>2, <1>3
<1> QED
  BY <1>4, <1>5, <1>6, <1>7 DEF StrictTotalOrder, G

Earlier(t, p, g) == {h \in Groups(t) : Before(t, p, h, g)}
Place(t, p, g) == Cardinality(Earlier(t, p, g))

(* Every core has its place among the candidates. *)
LEMMA GroupPlaces ==
    ASSUME NEW t, Proper(t), NEW p
    PROVE  /\ \A g \in Groups(t) :
                /\ Place(t, p, g) \in 0..(Cardinality(Groups(t)) - 1)
                /\ Place(t, p, g) \in Nat
                /\ g \notin Earlier(t, p, g)
                /\ IsFiniteSet(Earlier(t, p, g))
                /\ \A h \in Earlier(t, p, g) :
                      /\ Place(t, p, h) < Place(t, p, g)
                      /\ Earlier(t, p, h) \subseteq Earlier(t, p, g)
           /\ \A g, h \in Groups(t) : g # h => g \in Earlier(t, p, h) \/ h \in Earlier(t, p, g)
           /\ \A g, h \in Groups(t) : Place(t, p, g) = Place(t, p, h) => g = h
           /\ \A m \in 0..(Cardinality(Groups(t)) - 1) : \E g \in Groups(t) : Place(t, p, g) = m
<1> DEFINE G == Groups(t)
<1> DEFINE R == BeforePairs(t, p)
<1>0. IsFiniteSet(G) /\ Cardinality(G) \in Nat
  BY GroupsPart
<1>1. StrictTotalOrder(G, R)
  BY GroupOrder
<1>2. Ranked(G, R)
  <2> HIDE DEF G, R
  <2> QED
    BY <1>0, <1>1, Ranks
<1>3. \A g, h \in G : <<g, h>> \in R <=> Before(t, p, g, h)
  BY DEF BeforePairs
<1>4. ASSUME NEW g \in G PROVE RankIn(G, R, g) = Place(t, p, g) /\ IsFiniteSet(Earlier(t, p, g))
  <2>1. {h \in G : <<h, g>> \in R} = Earlier(t, p, g)
    BY <1>3 DEF Earlier
  <2>2. Earlier(t, p, g) \in SUBSET G
    BY DEF Earlier
  <2> HIDE DEF G, R
  <2> QED
    BY <1>0, <2>1, <2>2, FS_Subset DEF RankIn, Place
<1>5. \A g, h \in G : h \in Earlier(t, p, g) <=> <<h, g>> \in R
  BY <1>3 DEF Earlier
<1>6. \A g : Earlier(t, p, g) \subseteq G
  BY DEF Earlier
<1> HIDE DEF G, R
<1>7. ASSUME NEW g \in G
      PROVE  /\ Place(t, p, g) \in 0..(Cardinality(G) - 1)
             /\ Place(t, p, g) \in Nat
             /\ g \notin Earlier(t, p, g)
             /\ IsFiniteSet(Earlier(t, p, g))
             /\ \A h \in Earlier(t, p, g) :
                   /\ Place(t, p, h) < Place(t, p, g)
                   /\ Earlier(t, p, h) \subseteq Earlier(t, p, g)
  <2>1. Place(t, p, g) \in 0..(Cardinality(G) - 1)
    BY <1>2, <1>4 DEF Ranked
  <2>2. g \notin Earlier(t, p, g)
    BY <1>1, <1>5 DEF StrictTotalOrder
  <2>3. ASSUME NEW h \in Earlier(t, p, g) PROVE Place(t, p, h) < Place(t, p, g)
    <3>1. h \in G /\ <<h, g>> \in R
      BY <1>5, <1>6
    <3> QED
      BY <1>2, <1>4, <3>1 DEF Ranked
  <2>4. ASSUME NEW h \in Earlier(t, p, g) PROVE Earlier(t, p, h) \subseteq Earlier(t, p, g)
    BY <1>1, <1>5, <1>6 DEF StrictTotalOrder
  <2> QED
    BY <1>0, <1>4, <2>1, <2>2, <2>3, <2>4
<1>8. \A g, h \in G : g # h => g \in Earlier(t, p, h) \/ h \in Earlier(t, p, g)
  BY <1>1, <1>5 DEF StrictTotalOrder
<1>9. \A g, h \in G : Place(t, p, g) = Place(t, p, h) => g = h
  BY <1>2, <1>4 DEF Ranked
<1>10. \A m \in 0..(Cardinality(G) - 1) : \E g \in G : Place(t, p, g) = m
  BY <1>2, <1>4 DEF Ranked
<1> QED
  BY <1>7, <1>8, <1>9, <1>10 DEF G

-----------------------------------------------------------------------------
(* select_for_target.                                                        *)

Requested(p) == IF p.count = Unknown THEN Cardinality(Cpus) + 1 ELSE p.count

(* The cores that the reserve leaves to the workload. *)
Leading(t, p) == {g \in Groups(t) : Place(t, p, g) < MaxWorkloadGroups(t)}

(* A policy as the code has it. *)
Policy(p) == p.prefer \in BOOLEAN /\ p.count \in Nat \cup {-1} /\ p.node \in Nat \cup {-1}

LEMMA SelectedUnfolded ==
    ASSUME NEW t, NEW p
    PROVE  /\ Selected(t, p) =
                {g \in Leading(t, p) :
                    \/ Earlier(t, p, g) = {}
                    \/ Cardinality(UNION Earlier(t, p, g)) < Requested(p)}
           /\ Reduced(t, p) <=>
                /\ p.count # Unknown
                /\ \/ p.count > Cardinality(t.online) - 1
                   \/ p.count > Cardinality(UNION Leading(t, p))
  BY DEF Selected, Reduced, Leading, Place, Earlier, Requested

(* At least one core goes to the workload, and at least half of them stay.   *)
LEMMA ReserveSize ==
    ASSUME NEW t, Proper(t), NEW p, Selectable(t, p)
    PROVE  /\ MaxWorkloadGroups(t) \in 1..(Cardinality(Groups(t)) - 1)
           /\ 2 * MaxWorkloadGroups(t) <= Cardinality(Groups(t))
           /\ IsFiniteSet(Leading(t, p))
           /\ Cardinality(Leading(t, p)) <= MaxWorkloadGroups(t)
<1> DEFINE n == Cardinality(Groups(t))
<1>1. n \in Nat /\ n >= 2
  BY GroupsPart DEF Selectable
<1>2. MaxWorkloadGroups(t) = n - ((n + 1) \div 2)
  BY DEF MaxWorkloadGroups
<1> HIDE DEF n
<1> DEFINE m == MaxWorkloadGroups(t)
<1>3. m \in 1..(n - 1) /\ 2 * m <= n /\ m \in Nat
  BY <1>1, <1>2
<1> HIDE DEF m
<1> DEFINE L == Leading(t, p)
<1> DEFINE f == [g \in L |-> Place(t, p, g)]
<1>4. f \in Injection(L, 0..(m - 1))
  <2>1. \A g \in L : g \in Groups(t) /\ Place(t, p, g) < m
    BY DEF Leading, m
  <2>2. \A g \in L : Place(t, p, g) \in 0..(m - 1)
    <3> TAKE g \in L
    <3>1. Place(t, p, g) \in Nat
      BY <2>1, GroupPlaces
    <3> QED
      BY <1>3, <2>1, <3>1
  <2>3. \A g, h \in L : Place(t, p, g) = Place(t, p, h) => g = h
    BY <2>1, GroupPlaces
  <2> HIDE DEF L
  <2> QED
    BY <2>2, <2>3 DEF Injection, IsInjective
<1>5. IsFiniteSet(0..(m - 1)) /\ Cardinality(0..(m - 1)) = m
  <2>1. m - 1 \in Int /\ ~(0 > m - 1) /\ (m - 1) - 0 + 1 = m /\ 0 \in Int
    BY <1>3
  <2> QED
    BY <2>1, FS_Interval
<1> HIDE DEF f, L
<1>6. IsFiniteSet(L) /\ Cardinality(L) <= m
  BY <1>4, <1>5, FS_Injection
<1> QED
  BY <1>3, <1>6 DEF m, n, L

(* The cores of the workload and the others. *)
LEMMA Sides ==
    ASSUME NEW t, Proper(t), NEW p
    PROVE  /\ Selected(t, p) \subseteq Leading(t, p) /\ Leading(t, p) \subseteq Groups(t)
           /\ Workload(t, p) \subseteq t.online
           /\ \A g \in Selected(t, p) : g \subseteq Workload(t, p)
           /\ \A g \in Groups(t) \ Selected(t, p) : g \subseteq t.online \ Workload(t, p)
           /\ \A g \in Groups(t) : g \subseteq Workload(t, p) => g \in Selected(t, p)
           /\ IsFiniteSet(Workload(t, p)) /\ Cardinality(Workload(t, p)) \in Nat
<1> DEFINE S == Selected(t, p)
<1>1. S \subseteq Leading(t, p) /\ Leading(t, p) \subseteq Groups(t)
  BY SelectedUnfolded DEF Leading
<1>2. Workload(t, p) = UNION S
  BY DEF Workload
<1> HIDE DEF S
<1>3. Workload(t, p) \in SUBSET t.online
  BY <1>1, <1>2, GroupsPart
<1>4. ASSUME NEW g \in Groups(t) \ S PROVE g \subseteq t.online \ Workload(t, p)
  <2> SUFFICES ASSUME NEW x \in g, x \in Workload(t, p) PROVE FALSE
    BY GroupsPart
  <2>1. PICK h \in S : x \in h
    BY <1>2
  <2>2. h \in Groups(t) /\ g \cap h # {}
    BY <1>1, <2>1
  <2>3. g = h
    BY <2>2, GroupsPart
  <2> QED
    BY <2>1, <2>3
<1>5. \A g \in S : g \subseteq Workload(t, p)
  BY <1>2
<1>6. ASSUME NEW g \in Groups(t), g \subseteq Workload(t, p) PROVE g \in S
  <2>1. g # {}
    BY GroupsPart
  <2> QED
    BY <1>4, <1>6, <2>1
<1>7. IsFiniteSet(Workload(t, p)) /\ Cardinality(Workload(t, p)) \in Nat
  <2>1. IsFiniteSet(t.online)
    BY GroupsPart
  <2> QED
    BY <1>3, <2>1, FS_Subset, FS_CardinalityType
<1> QED
  BY <1>1, <1>3, <1>4, <1>5, <1>6, <1>7 DEF S

(* The first candidate is always taken. *)
LEMMA FirstIsTaken ==
    ASSUME NEW t, Proper(t), NEW p, Selectable(t, p)
    PROVE  \E g \in Selected(t, p) :
              \A h \in Groups(t) \ {g} : g \in Earlier(t, p, h)
<1>1. Cardinality(Groups(t)) \in Nat /\ Cardinality(Groups(t)) >= 2
  BY GroupsPart DEF Selectable
<1>2. PICK g \in Groups(t) : Place(t, p, g) = 0
  <2>1. 0 \in 0..(Cardinality(Groups(t)) - 1)
    BY <1>1
  <2> QED
    BY <2>1, GroupPlaces
<1>3. Earlier(t, p, g) = {}
  <2>1. IsFiniteSet(Earlier(t, p, g))
    BY GroupPlaces
  <2> QED
    BY <1>2, <2>1, FS_EmptySet DEF Place
<1>4. 0 < MaxWorkloadGroups(t)
  BY <1>1, ReserveSize
<1>5. g \in Selected(t, p)
  BY <1>2, <1>3, <1>4, SelectedUnfolded DEF Leading
<1>6. \A h \in Groups(t) \ {g} : g \in Earlier(t, p, h)
  BY <1>3, GroupPlaces
<1> QED
  BY <1>5, <1>6

(* The split of select_for_target. *)
SplitIsSound(t, W, H) ==
    LET cores == {g \in Groups(t) : g \subseteq H}
    IN  /\ W # {}
        /\ W \cup H = t.online
        /\ W \cap H = {}
        /\ 2 * Cardinality(cores) >= Cardinality(Groups(t))

LEMMA SplitHolds ==
    ASSUME NEW t, Proper(t), NEW p, Selectable(t, p)
    PROVE  /\ SplitIsSound(t, Workload(t, p), t.online \ Workload(t, p))
           /\ t.online \ Workload(t, p) # {}
<1> DEFINE W == Workload(t, p)
<1> DEFINE H == t.online \ W
<1> DEFINE S == Selected(t, p)
<1> DEFINE cores == {g \in Groups(t) : g \subseteq H}
<1>1. W # {}
  <2>1. PICK g \in S : TRUE
    BY FirstIsTaken
  <2>2. g # {} /\ g \subseteq W
    BY <2>1, Sides, GroupsPart
  <2> QED
    BY <2>2
<1>2. W \cup H = t.online /\ W \cap H = {}
  BY Sides
<1>3. Groups(t) \ S \subseteq cores
  BY Sides
<1>4. /\ IsFiniteSet(Groups(t)) /\ Cardinality(Groups(t)) \in Nat
      /\ MaxWorkloadGroups(t) \in Nat /\ 2 * MaxWorkloadGroups(t) <= Cardinality(Groups(t))
      /\ MaxWorkloadGroups(t) < Cardinality(Groups(t))
      /\ IsFiniteSet(Leading(t, p)) /\ Cardinality(Leading(t, p)) <= MaxWorkloadGroups(t)
      /\ S \in SUBSET Leading(t, p) /\ S \subseteq Groups(t)
  BY GroupsPart, ReserveSize, Sides
<1>5. cores \in SUBSET Groups(t)
  OBVIOUS
<1> HIDE DEF cores, S
<1>6. Cardinality(S) \in Nat /\ Cardinality(S) <= MaxWorkloadGroups(t)
  <2>1. /\ IsFiniteSet(S) /\ Cardinality(S) <= Cardinality(Leading(t, p))
        /\ Cardinality(S) \in Nat /\ Cardinality(Leading(t, p)) \in Nat
    BY <1>4, FS_Subset, FS_CardinalityType
  <2> QED
    BY <1>4, <2>1
<1>7. /\ IsFiniteSet(cores) /\ Cardinality(cores) \in Nat
      /\ Cardinality(Groups(t) \ S) <= Cardinality(cores)
      /\ Cardinality(Groups(t) \ S) = Cardinality(Groups(t)) - Cardinality(S)
  <2>1. IsFiniteSet(cores) /\ Cardinality(cores) \in Nat
    BY <1>4, <1>5, FS_Subset, FS_CardinalityType
  <2>2. Cardinality(Groups(t) \ S) <= Cardinality(cores)
    BY <1>3, <2>1, FS_Subset
  <2>3. Cardinality(Groups(t) \ S) = Cardinality(Groups(t)) - Cardinality(Groups(t) \cap S)
    BY <1>4, FS_Difference
  <2>4. Groups(t) \cap S = S
    BY <1>4
  <2> QED
    BY <2>1, <2>2, <2>3, <2>4
<1>8. 2 * Cardinality(cores) >= Cardinality(Groups(t)) /\ Cardinality(cores) > 0
  BY <1>4, <1>6, <1>7
<1>9. H # {}
  <2>1. cores # {}
    BY <1>4, <1>7, <1>8, FS_EmptySet
  <2>2. PICK g \in cores : TRUE
    BY <2>1
  <2>3. g # {} /\ g \subseteq H
    BY <2>2, GroupsPart DEF cores
  <2> QED
    BY <2>3
<1> QED
  BY <1>1, <1>2, <1>8, <1>9 DEF SplitIsSound, cores

(* What a selection reports about a policy that was not met. *)
ReportIsTrue(p, t, W, H, F) ==
    /\ ("reduced" \in F) <=> (p.count # Unknown /\ Cardinality(W) < p.count)
    /\ (p.node # Unknown /\ "numa" \notin F) => \E c \in W : t.cpu[c].node = p.node
    /\ (p.prefer /\ p.node = Unknown /\ F \cap {"homogeneous", "unknown"} = {})
         => \A g \in {x \in Groups(t) : x \subseteq W}, h \in {x \in Groups(t) : x \subseteq H} :
                ~(GroupClass(t, g) = "efficiency" /\ GroupClass(t, h) = "performance")

(* Cores are taken in order: when the workload is still too small, all that  *)
(* the reserve leaves were taken.                                            *)
LEMMA SmallTakesAll ==
    ASSUME NEW t, Proper(t), NEW p, p.count \in Nat,
           Cardinality(Workload(t, p)) < p.count
    PROVE  Workload(t, p) = UNION Leading(t, p)
<1> DEFINE W == Workload(t, p)
<1> DEFINE missed == Leading(t, p) \ Selected(t, p)
<1>1. W = UNION Selected(t, p) /\ Selected(t, p) \subseteq Leading(t, p)
  BY Sides DEF Workload
<1> SUFFICES ASSUME missed # {} PROVE FALSE
  BY <1>1
<1> DEFINE places == {Place(t, p, g) : g \in missed}
<1>2. \A g \in missed : g \in Groups(t) /\ Place(t, p, g) \in Nat
  BY GroupPlaces DEF Leading
<1>3. PICK g \in missed : \A h \in missed : Place(t, p, g) <= Place(t, p, h)
  <2>1. places \subseteq Nat /\ places # {}
    BY <1>2
  <2>2. Min(places) \in places /\ \A y \in places : Min(places) <= y
    <3> HIDE DEF places
    <3> QED
      BY <2>1, LeastOf
  <2> QED
    BY <2>2
<1>4. g \in Groups(t) /\ g \in Leading(t, p) /\ g \notin Selected(t, p)
  BY <1>2, <1>3
<1>5. Requested(p) = p.count
  BY DEF Requested, Unknown
<1>6. ~(Cardinality(UNION Earlier(t, p, g)) < p.count)
  <2> HIDE DEF missed, W
  <2>1. g \in Selected(t, p) <=>
          /\ g \in Leading(t, p)
          /\ \/ Earlier(t, p, g) = {}
             \/ Cardinality(UNION Earlier(t, p, g)) < Requested(p)
    BY SelectedUnfolded
  <2> QED
    BY <1>4, <1>5, <2>1
<1>7. Earlier(t, p, g) \subseteq Selected(t, p)
  <2> SUFFICES ASSUME NEW h \in Earlier(t, p, g), h \notin Selected(t, p) PROVE FALSE
    OBVIOUS
  <2>1. h \in Groups(t) /\ Place(t, p, h) < Place(t, p, g)
    BY <1>4, GroupPlaces DEF Earlier
  <2>2. /\ Place(t, p, h) \in Nat /\ Place(t, p, g) \in Nat
        /\ Place(t, p, g) < MaxWorkloadGroups(t)
        /\ MaxWorkloadGroups(t) \in Int
    <3>1. Cardinality(Groups(t)) \in Nat
      BY GroupsPart
    <3>2. MaxWorkloadGroups(t) \in Int
      BY <3>1 DEF MaxWorkloadGroups
    <3> QED
      BY <1>4, <2>1, <3>2, GroupPlaces DEF Leading
  <2>3. h \in missed
    BY <2>1, <2>2 DEF Leading
  <2> HIDE DEF missed
  <2> QED
    BY <1>3, <2>1, <2>2, <2>3
<1>8. UNION Earlier(t, p, g) \in SUBSET W
  BY <1>1, <1>7
<1>9. IsFiniteSet(W) /\ Cardinality(W) \in Nat
  BY Sides
<1> HIDE DEF W, missed
<1>10. /\ Cardinality(UNION Earlier(t, p, g)) <= Cardinality(W)
       /\ Cardinality(UNION Earlier(t, p, g)) \in Nat
  BY <1>8, <1>9, FS_Subset, FS_CardinalityType
<1>11. Cardinality(W) < p.count
  BY DEF W
<1> QED
  BY <1>6, <1>9, <1>10, <1>11

LEMMA ReducedIsTrue ==
    ASSUME NEW t, Proper(t), NEW p, Policy(p), Selectable(t, p)
    PROVE  Reduced(t, p) <=> (p.count # Unknown /\ Cardinality(Workload(t, p)) < p.count)
<1> DEFINE W == Workload(t, p)
<1> DEFINE U == UNION Leading(t, p)
<1>1. /\ IsFiniteSet(t.online) /\ Cardinality(t.online) \in Nat
      /\ W \in SUBSET t.online /\ t.online \ W # {}
      /\ IsFiniteSet(W) /\ Cardinality(W) \in Nat
  BY GroupsPart, Sides, SplitHolds, FS_CardinalityType
<1>2. W \in SUBSET U /\ U \in SUBSET t.online
  BY Sides, GroupsPart DEF Workload
<1>3. p.count # Unknown => p.count \in Nat
  BY DEF Policy, Unknown
<1>4. Reduced(t, p) <=>
        /\ p.count # Unknown
        /\ \/ p.count > Cardinality(t.online) - 1
           \/ p.count > Cardinality(U)
  BY SelectedUnfolded
<1>5. p.count # Unknown /\ Cardinality(W) < p.count => W = U
  BY <1>3, SmallTakesAll
<1> HIDE DEF W, U
<1>6. IsFiniteSet(U) /\ Cardinality(U) \in Nat /\ Cardinality(W) <= Cardinality(U)
  BY <1>1, <1>2, FS_Subset, FS_CardinalityType
<1>7. Cardinality(W) <= Cardinality(t.online) - 1
  <2>1. W # t.online
    BY <1>1
  <2>2. Cardinality(W) <= Cardinality(t.online) /\ Cardinality(W) # Cardinality(t.online)
    BY <1>1, <2>1, FS_Subset
  <2> QED
    BY <1>1, <2>2
<1>8. ASSUME Reduced(t, p) PROVE p.count # Unknown /\ Cardinality(W) < p.count
  BY <1>1, <1>3, <1>4, <1>6, <1>7, <1>8
<1>9. ASSUME p.count # Unknown, Cardinality(W) < p.count PROVE Reduced(t, p)
  <2>1. p.count > Cardinality(U)
    BY <1>1, <1>3, <1>5, <1>9
  <2> QED
    BY <1>4, <1>9, <2>1
<1> QED
  BY <1>8, <1>9 DEF W

LEMMA ReportHolds ==
    ASSUME NEW t, Proper(t), t.mode \in {"unknown", "homogeneous", "heterogeneous"},
           NEW p, Policy(p), Selectable(t, p)
    PROVE  ReportIsTrue(p, t, Workload(t, p), t.online \ Workload(t, p), Fallbacks(t, p))
<1> DEFINE W == Workload(t, p)
<1> DEFINE H == t.online \ W
<1> DEFINE F == Fallbacks(t, p)
<1>1. ("reduced" \in F) <=> Reduced(t, p)
  BY DEF Fallbacks
<1>2. ASSUME p.node # Unknown, "numa" \notin F PROVE \E c \in W : t.cpu[c].node = p.node
  <2>1. PICK g \in Groups(t) : GroupNode(t, g) = p.node
    BY <1>2 DEF Fallbacks
  <2>2. PICK x \in Selected(t, p) : \A h \in Groups(t) \ {x} : x \in Earlier(t, p, h)
    BY FirstIsTaken
  <2>3. x \in Groups(t) /\ x \subseteq W /\ x # {}
    BY <2>2, Sides, GroupsPart
  <2>4. GroupNode(t, x) = p.node
    <3>1. CASE x = g
      BY <2>1, <3>1
    <3>2. CASE x # g
      <4>1. Before(t, p, x, g)
        BY <2>1, <2>2, <3>2 DEF Earlier
      <4> QED
        BY <1>2, <2>1, <4>1 DEF Before
    <3> QED
      BY <3>1, <3>2
  <2> DEFINE values == {t.cpu[c].node : c \in x}
  <2>5. GroupNode(t, x) = IF Cardinality(values) = 1 THEN CHOOSE v \in values : TRUE ELSE Unknown
    BY DEF GroupNode, Common
  <2>6. values # {}
    BY <2>3
  <2>7. p.node \in values
    <3> HIDE DEF values
    <3> QED
      BY <1>2, <2>4, <2>5, <2>6
  <2> QED
    BY <2>3, <2>7
<1>3. ASSUME p.prefer, p.node = Unknown, F \cap {"homogeneous", "unknown"} = {},
             NEW g \in Groups(t), g \subseteq W, NEW h \in Groups(t), h \subseteq H,
             GroupClass(t, g) = "efficiency", GroupClass(t, h) = "performance"
      PROVE  FALSE
  <2>1. t.mode = "heterogeneous"
    BY <1>3 DEF Fallbacks
  <2>2. Before(t, p, h, g)
    BY <1>3, <2>1 DEF Before, CapacityRank
  <2>3. h \in Earlier(t, p, g)
    BY <2>2 DEF Earlier
  <2>4. g \in Selected(t, p)
    BY <1>3, Sides
  <2>5. /\ Place(t, p, h) < Place(t, p, g) /\ Earlier(t, p, h) \subseteq Earlier(t, p, g)
        /\ Place(t, p, h) \in Nat /\ Place(t, p, g) \in Nat
    BY <2>3, GroupPlaces
  <2>6. MaxWorkloadGroups(t) \in Int
    BY ReserveSize
  <2>7. h \in Leading(t, p)
    <3>1. Place(t, p, g) < MaxWorkloadGroups(t)
      BY <2>4, Sides DEF Leading
    <3> QED
      BY <2>5, <2>6, <3>1 DEF Leading
  <2>8. Cardinality(UNION Earlier(t, p, g)) < Requested(p)
    BY <2>3, <2>4, SelectedUnfolded
  <2>9. Requested(p) \in Int
    BY CpusFinite, FS_CardinalityType DEF Requested, Policy
  <2>10. /\ Cardinality(UNION Earlier(t, p, h)) <= Cardinality(UNION Earlier(t, p, g))
         /\ Cardinality(UNION Earlier(t, p, h)) \in Nat
         /\ Cardinality(UNION Earlier(t, p, g)) \in Nat
    <3>1. UNION Earlier(t, p, g) \in SUBSET t.online
      BY GroupsPart DEF Earlier
    <3>2. IsFiniteSet(UNION Earlier(t, p, g))
      BY <3>1, GroupsPart, FS_Subset
    <3>3. UNION Earlier(t, p, h) \in SUBSET (UNION Earlier(t, p, g))
      BY <2>5
    <3> QED
      BY <3>2, <3>3, FS_Subset, FS_CardinalityType
  <2>11. Cardinality(UNION Earlier(t, p, h)) < Requested(p)
    BY <2>8, <2>9, <2>10
  <2>12. h \in Selected(t, p)
    BY <2>7, <2>11, SelectedUnfolded
  <2>13. h \subseteq W /\ h # {}
    BY <2>12, Sides, GroupsPart
  <2> QED
    BY <1>3, <2>13
<1> HIDE DEF W, H, F
<1>4. ("reduced" \in F) <=> (p.count # Unknown /\ Cardinality(W) < p.count)
  BY <1>1, ReducedIsTrue DEF W
<1>5. ReportIsTrue(p, t, W, H, F)
  BY <1>2, <1>3, <1>4 DEF ReportIsTrue
<1> QED
  BY <1>5 DEF W, H, F

-----------------------------------------------------------------------------
(* Discovery: the files it looks at, and what it knows of a host that does   *)
(* not change meanwhile.                                                     *)

LEMMA FilesShape ==
    /\ Len(Files) \in Nat
    /\ \A i \in 1..Len(Files) : Files[i][1] \in {"ids", "siblings"} => Files[i][2] \in Cpus
    /\ \A c \in Cpus : \E i \in 1..Len(Files) : Files[i] = <<"ids", c>>
    /\ \A c \in Cpus : \E i \in 1..Len(Files) : Files[i] = <<"siblings", c>>
<1>1. PICK n \in Nat : Core \in [0..n -> Nat]
  BY CpusAssumption
<1>2. Cpus = 0..n
  BY <1>1 DEF Cpus
<1>3. Cardinality(Cpus) = n + 1
  <2>1. n \in Int /\ 0 \in Int /\ ~(0 > n) /\ n - 0 + 1 = n + 1
    OBVIOUS
  <2> QED
    BY <1>2, <2>1, FS_Interval
<1> DEFINE k == Cardinality(NumaNodes)
<1>4. k \in Nat
  <2>1. NumaNode \in Surjection(Cpus, NumaNodes)
    BY NumaAssumption DEF Surjection, NumaNodes, Cpus
  <2>2. IsFiniteSet(NumaNodes)
    BY <2>1, CpusFinite, FS_Surjection
  <2> QED
    BY <2>2, FS_CardinalityType
<1> DEFINE a == <<<<"possible", 0>>, <<"online", 0>>>>
<1> DEFINE b == [i \in 1..(3 * (n + 1)) |-> <<PerCpu[1 + ((i - 1) % 3)], (i - 1) \div 3>>]
<1> DEFINE e == [i \in 1..k |-> <<"node", i - 1>>]
<1>5. Files = (a \o b) \o e
  BY <1>3 DEF Files
<1> HIDE DEF k
<1> DEFINE m == 3 * (n + 1)
<1> DEFINE U == {"possible", "online", "ids", "siblings", "capacity", "node"} \X Int
<1>6. a \in Seq(U) /\ Len(a) = 2 /\ a[1] = <<"possible", 0>> /\ a[2] = <<"online", 0>>
  OBVIOUS
<1>7. /\ b \in Seq(U) /\ Len(b) = m /\ m \in Nat
      /\ \A i \in 1..m : b[i][2] \in Cpus
      /\ \A c \in Cpus : /\ 3 * c + 1 \in 1..m /\ b[3 * c + 1] = <<"ids", c>>
                        /\ 3 * c + 2 \in 1..m /\ b[3 * c + 2] = <<"siblings", c>>
  <2>1. ASSUME NEW i \in 1..m
        PROVE  PerCpu[1 + ((i - 1) % 3)] \in {"ids", "siblings", "capacity"}
               /\ (i - 1) \div 3 \in 0..n
    <3>1. (i - 1) % 3 \in {0, 1, 2}
      OBVIOUS
    <3>2. (i - 1) \div 3 \in 0..n
      OBVIOUS
    <3> QED
      BY <3>1, <3>2 DEF PerCpu
  <2>2. b \in [1..m -> U] /\ m \in Nat
    BY <2>1
  <2>3. b \in Seq(U) /\ Len(b) = m
    <3> HIDE DEF U, m, b
    <3>1. b \in Seq(U) /\ DOMAIN b = 1..m
      BY <2>2
    <3> QED
      BY <2>2, <3>1
  <2>4. \A i \in 1..m : b[i][2] \in Cpus
    BY <1>2, <2>1
  <2>5. ASSUME NEW c \in Cpus
        PROVE  /\ 3 * c + 1 \in 1..m /\ b[3 * c + 1] = <<"ids", c>>
               /\ 3 * c + 2 \in 1..m /\ b[3 * c + 2] = <<"siblings", c>>
    <3>1. 3 * c + 1 \in 1..m /\ 3 * c + 2 \in 1..m
      BY <1>2
    <3>2. /\ ((3 * c + 1) - 1) % 3 = 0 /\ ((3 * c + 1) - 1) \div 3 = c
          /\ ((3 * c + 2) - 1) % 3 = 1 /\ ((3 * c + 2) - 1) \div 3 = c
      BY <1>2
    <3>3. ASSUME NEW j \in 1..m PROVE b[j] = <<PerCpu[1 + ((j - 1) % 3)], (j - 1) \div 3>>
      OBVIOUS
    <3>4. PerCpu[1 + 0] = "ids" /\ PerCpu[1 + 1] = "siblings"
      BY DEF PerCpu
    <3> HIDE DEF b, m
    <3> QED
      BY <3>1, <3>2, <3>3, <3>4
  <2> QED
    BY <2>2, <2>3, <2>4, <2>5
<1>8. e \in Seq(U) /\ Len(e) = k /\ \A i \in 1..k : e[i][1] = "node"
  BY <1>4
<1> HIDE DEF a, b, e, m, U
<1> DEFINE ab == a \o b
<1>9. /\ ab \in Seq(U) /\ Len(ab) = 2 + m
      /\ \A i \in 1..(2 + m) : ab[i] = IF i <= 2 THEN a[i] ELSE b[i - 2]
  <2>1. ab \in Seq(U) /\ Len(ab) = Len(a) + Len(b)
        /\ \A i \in 1..(Len(a) + Len(b)) : ab[i] = IF i <= Len(a) THEN a[i] ELSE b[i - Len(a)]
    BY <1>6, <1>7, ConcatProperties
  <2> QED
    BY <1>6, <1>7, <2>1
<1> HIDE DEF ab
<1>10. /\ Len(Files) = 2 + m + k
       /\ \A i \in 1..(2 + m + k) : Files[i] = IF i <= 2 + m THEN ab[i] ELSE e[i - (2 + m)]
  <2>1. Files = ab \o e
    BY <1>5 DEF ab
  <2>2. Len(Files) = Len(ab) + Len(e)
        /\ \A i \in 1..(Len(ab) + Len(e)) : Files[i] = IF i <= Len(ab) THEN ab[i] ELSE e[i - Len(ab)]
    BY <1>8, <1>9, <2>1, ConcatProperties
  <2> QED
    BY <1>4, <1>7, <1>8, <1>9, <2>2
<1>11. \A j \in 1..m : 2 + j \in 1..Len(Files) /\ Files[2 + j] = b[j]
  <2> TAKE j \in 1..m
  <2>1. 2 + j \in 1..(2 + m + k) /\ 2 + j \in 1..(2 + m) /\ ~(2 + j <= 2) /\ (2 + j) - 2 = j
    BY <1>4, <1>7
  <2> QED
    BY <1>9, <1>10, <2>1
<1>12. ASSUME NEW i \in 1..Len(Files), Files[i][1] \in {"ids", "siblings"}
       PROVE  Files[i][2] \in Cpus
  <2>0. i \in 1..(2 + m + k) /\ i \in Int
    BY <1>10
  <2>1. CASE i <= 2
    <3>1. i \in {1, 2} /\ Files[i] = a[i]
      BY <1>4, <1>7, <1>9, <1>10, <2>0, <2>1
    <3> QED
      BY <1>6, <1>12, <3>1
  <2>2. CASE ~(i <= 2) /\ i <= 2 + m
    <3>1. i - 2 \in 1..m /\ 2 + (i - 2) = i
      BY <1>7, <2>0, <2>2
    <3> QED
      BY <1>7, <1>11, <3>1
  <2>3. CASE ~(i <= 2 + m)
    <3>1. i - (2 + m) \in 1..k /\ Files[i] = e[i - (2 + m)]
      BY <1>4, <1>7, <1>10, <2>0, <2>3
    <3> QED
      BY <1>8, <1>12, <3>1
  <2> QED
    BY <1>7, <2>0, <2>1, <2>2, <2>3
<1>13. Len(Files) \in Nat
  BY <1>4, <1>7, <1>10
<1> QED
  BY <1>7, <1>11, <1>12, <1>13

(* The files looked at so far. *)
SeenFiles(l) == {Files[i] : i \in 1..l}

(* The host keeps its shape, the CPUs on line are CPUs, and nothing changed  *)
(* while no change was counted.                                              *)
HostInv ==
    /\ host = [online |-> host.online, capacity |-> host.capacity,
               denied |-> host.denied, target |-> host.target]
    /\ host.online \subseteq Cpus
    /\ hotplugs \in Nat
    /\ hotplugs = 0 => host.online = Cpus

(* What was read: the online list names CPUs of the host whenever it was     *)
(* read, and without a change the facts are the texts of all the files that  *)
(* the host does not refuse.                                                 *)
FactsInv ==
    /\ looked \in 0..Len(Files)
    /\ Known(facts, <<"online", 0>>) => ParseCpuList(facts[<<"online", 0>>]) \subseteq Cpus
    /\ hotplugs = 0 =>
         /\ DOMAIN facts = SeenFiles(looked) \ host.denied
         /\ \A f \in DOMAIN facts : facts[f] = Text(f)

(* The threads of a core whose files can be read the same way. *)
SameCore(c, d) ==
    /\ Core[c] = Core[d]
    /\ \/ {<<"ids", c>>, <<"ids", d>>} \cap host.denied = {}
       \/ /\ {<<"ids", c>>, <<"ids", d>>} \subseteq host.denied
          /\ {<<"siblings", c>>, <<"siblings", d>>} \cap host.denied = {}

(* The placement is the one select_for_target computes from its topology. *)
Placed(t, p) ==
    /\ p \in Policies
    /\ Proper(t) /\ t.mode \in {"unknown", "homogeneous", "heterogeneous"}
    /\ Selectable(t, p)
    /\ plan.workload = Workload(t, p)
    /\ plan.housekeeping = t.online \ Workload(t, p)
    /\ plan.fallbacks = Fallbacks(t, p)
    /\ plan.revision = t

PlanInv ==
    plan.made = TRUE =>
        /\ Placed(plan.topology, plan.policy)
        /\ plan.changes = 0 =>
             \A c, d \in plan.topology.online :
                SameCore(c, d) => CoreKey(plan.topology, c) = CoreKey(plan.topology, d)

(* After the second discovery the facts and the target stay as they were     *)
(* compared.                                                                 *)
SubmittedInv ==
    verdict = "submitted" =>
        /\ plan.made = TRUE
        /\ ~Refused(facts)
        /\ FromFacts(facts) = plan.topology
        /\ host.target = plan.target

TopologyInv == HostInv /\ FactsInv /\ PlanInv /\ SubmittedInv

(* from_facts of any facts is proper as soon as the online list is. *)
LEMMA FactsAreProper ==
    ASSUME FactsInv
    PROVE  /\ Proper(FromFacts(facts))
           /\ FromFacts(facts).mode \in {"unknown", "homogeneous", "heterogeneous"}
<1>1. FromFacts(facts).online = Online(facts) /\ FromFacts(facts).mode = CapacityMode(facts)
      /\ \A c \in Cpus : FromFacts(facts).cpu[c].class = Class(facts, c)
  BY DEF FromFacts
<1>2. Online(facts) \subseteq Cpus
  BY DEF FactsInv, Online, SetIn
<1>3. CapacityMode(facts) \in {"unknown", "homogeneous", "heterogeneous"}
  BY DEF CapacityMode
<1>4. \A c \in Cpus : Class(facts, c) \in Classes
  BY DEF Class, Classes
<1> QED
  BY <1>1, <1>2, <1>3, <1>4 DEF Proper

(* core_groups keeps the threads of a core together when the host did not    *)
(* change during the discovery.                                              *)
LEMMA SameCoreSameKey ==
    ASSUME HostInv, FactsInv, hotplugs = 0, looked = Len(Files), ~Refused(facts),
           NEW c \in Online(facts), NEW d \in Online(facts), SameCore(c, d)
    PROVE  CoreKey(FromFacts(facts), c) = CoreKey(FromFacts(facts), d)
<1>1. c \in Cpus /\ d \in Cpus
  BY DEF FactsInv, Online, SetIn
<1>2. /\ DOMAIN facts = SeenFiles(Len(Files)) \ host.denied
      /\ \A f \in DOMAIN facts : facts[f] = Text(f)
  BY DEF FactsInv
<1>3. \A x \in Cpus : /\ Known(facts, <<"ids", x>>) <=> <<"ids", x>> \notin host.denied
                      /\ Known(facts, <<"siblings", x>>) <=> <<"siblings", x>> \notin host.denied
  <2> TAKE x \in Cpus
  <2>1. <<"ids", x>> \in SeenFiles(Len(Files)) /\ <<"siblings", x>> \in SeenFiles(Len(Files))
    BY FilesShape DEF SeenFiles
  <2> QED
    BY <1>2, <2>1 DEF Known
<1> DEFINE t == FromFacts(facts)
<1>4. \A x \in Cpus :
        /\ t.cpu[x].core = IF Known(facts, <<"ids", x>>) THEN facts[<<"ids", x>>] ELSE Unknown
        /\ t.cpu[x].siblings = Siblings(facts, x)
  BY DEF FromFacts
<1> HIDE DEF t
<1>5. CASE {<<"ids", c>>, <<"ids", d>>} \cap host.denied = {}
  <2>1. Known(facts, <<"ids", c>>) /\ Known(facts, <<"ids", d>>)
    BY <1>1, <1>3, <1>5
  <2>2. facts[<<"ids", c>>] = Core[c] /\ facts[<<"ids", d>>] = Core[d]
    <3>1. Text(<<"ids", c>>) = Core[c] /\ Text(<<"ids", d>>) = Core[d]
      BY DEF Text
    <3> QED
      BY <1>2, <2>1, <3>1 DEF Known
  <2>3. t.cpu[c].core = Core[c] /\ t.cpu[d].core = Core[d]
    BY <1>1, <1>4, <2>1, <2>2
  <2>4. Core[c] \in Nat /\ Core[c] = Core[d]
    BY <1>1, CpusAssumption DEF Cpus, SameCore
  <2> QED
    BY <2>3, <2>4 DEF CoreKey, Unknown, t
<1>6. CASE /\ {<<"ids", c>>, <<"ids", d>>} \subseteq host.denied
           /\ {<<"siblings", c>>, <<"siblings", d>>} \cap host.denied = {}
  <2>1. t.cpu[c].core = Unknown /\ t.cpu[d].core = Unknown
    BY <1>1, <1>3, <1>4, <1>6
  <2>2. Known(facts, <<"siblings", c>>) /\ Known(facts, <<"siblings", d>>)
    BY <1>1, <1>3, <1>6
  <2>3. facts[<<"siblings", c>>] = facts[<<"siblings", d>>]
    <3>1. /\ Text(<<"siblings", c>>) = RenderCpuSet({x \in host.online : Core[x] = Core[c]})
          /\ Text(<<"siblings", d>>) = RenderCpuSet({x \in host.online : Core[x] = Core[d]})
      BY DEF Text
    <3>2. Core[c] = Core[d]
      BY DEF SameCore
    <3> QED
      BY <1>2, <2>2, <3>1, <3>2 DEF Known
  <2> DEFINE all == SetIn(facts, <<"siblings", c>>)
  <2>4. all = SetIn(facts, <<"siblings", d>>)
    BY <2>2, <2>3 DEF SetIn
  <2>5. c \in all /\ d \in all
    BY <1>1, <2>2, <2>4 DEF Refused
  <2> HIDE DEF all
  <2>6. Siblings(facts, c) = all \cap Online(facts) /\ Siblings(facts, d) = all \cap Online(facts)
    BY <2>4, <2>5 DEF Siblings, all
  <2> QED
    BY <1>1, <1>4, <2>1, <2>6 DEF CoreKey, t
<1> QED
  BY <1>5, <1>6 DEF SameCore

LEMMA TopologyInvInit == TopologyInit => TopologyInv
<1> SUFFICES ASSUME TopologyInit PROVE TopologyInv
  OBVIOUS
<1>1. HostInv
  BY DEF TopologyInit, HostInv
<1>2. FactsInv
  <2>1. DOMAIN facts = {} /\ looked = 0 /\ looked \in 0..Len(Files)
    BY FilesShape DEF TopologyInit, NoFacts
  <2>2. SeenFiles(0) = {}
    BY DEF SeenFiles
  <2> QED
    BY <2>1, <2>2 DEF FactsInv, Known
<1>3. PlanInv
  BY DEF TopologyInit, PlanInv, NoPlan
<1>4. SubmittedInv
  BY DEF TopologyInit, SubmittedInv
<1> QED
  BY <1>1, <1>2, <1>3, <1>4 DEF TopologyInv

(* What depends on the host alone stays while the host stays. *)
LEMMA HostStays ==
    ASSUME host' = host
    PROVE  /\ \A c, d : SameCore(c, d)' <=> SameCore(c, d)
           /\ \A f : Text(f)' = Text(f)
  BY DEF SameCore, Text

LEMMA ReadFileKeepsInv == TopologyInv /\ ReadFile => TopologyInv'
<1> SUFFICES ASSUME TopologyInv, ReadFile PROVE TopologyInv'
  OBVIOUS
<1> DEFINE f == Files[looked + 1]
<1>1. /\ facts' = IF Readable(f) THEN [x \in DOMAIN facts \cup {f} |->
                                         IF x = f THEN Text(f) ELSE facts[x]]
                                 ELSE facts
      /\ looked' = looked + 1 /\ looked < Len(Files) /\ verdict = "discovering"
      /\ host' = host /\ plan' = plan /\ verdict' = verdict /\ hotplugs' = hotplugs
  BY DEF ReadFile
<1>2. looked \in Nat /\ looked + 1 \in 1..Len(Files)
  BY <1>1, FilesShape DEF TopologyInv, FactsInv
<1> HIDE DEF f
<1>3. HostInv'
  BY <1>1 DEF TopologyInv, HostInv
<1>4. FactsInv'
  <2>1. looked' \in 0..Len(Files)
    BY <1>1, <1>2
  <2>2. Known(facts', <<"online", 0>>) => ParseCpuList(facts'[<<"online", 0>>]) \subseteq Cpus
    <3>1. CASE Readable(f) /\ f = <<"online", 0>>
      <4>1. facts'[<<"online", 0>>] = RenderCpuSet(host.online)
        BY <1>1, <3>1 DEF Text
      <4>2. ParseCpuList(RenderCpuSet(host.online)) = host.online
        BY CpuListsRoundTrip, CpusAssumption DEF TopologyInv, HostInv, Cpus
      <4> QED
        BY <4>1, <4>2 DEF TopologyInv, HostInv
    <3>2. CASE ~(Readable(f) /\ f = <<"online", 0>>)
      BY <1>1, <3>2 DEF TopologyInv, FactsInv, Known
    <3> QED
      BY <3>1, <3>2
  <2>3. ASSUME hotplugs = 0
        PROVE  /\ DOMAIN facts' = SeenFiles(looked + 1) \ host.denied
               /\ \A g \in DOMAIN facts' : facts'[g] = Text(g)
    <3>1. SeenFiles(looked + 1) = SeenFiles(looked) \cup {f}
      <4>1. 1..(looked + 1) = 1..looked \cup {looked + 1}
        BY <1>2
      <4> QED
        BY <4>1 DEF SeenFiles, f
    <3>2. Readable(f) <=> f \notin host.denied
      <4>1. f[1] \in {"ids", "siblings"} => f[2] \in host.online
        BY <1>2, <2>3, FilesShape DEF f, TopologyInv, HostInv
      <4> QED
        BY <4>1 DEF Readable
    <3>3. /\ DOMAIN facts = SeenFiles(looked) \ host.denied
          /\ \A g \in DOMAIN facts : facts[g] = Text(g)
      BY <2>3 DEF TopologyInv, FactsInv
    <3> QED
      BY <1>1, <3>1, <3>2, <3>3
  <2>4. FactsInv' =
        /\ looked' \in 0..Len(Files)
        /\ Known(facts', <<"online", 0>>) => ParseCpuList(facts'[<<"online", 0>>]) \subseteq Cpus
        /\ hotplugs' = 0 =>
             /\ DOMAIN facts' = SeenFiles(looked') \ host'.denied
             /\ \A g \in DOMAIN facts' : facts'[g] = Text(g)'
    BY DEF FactsInv
  <2> QED
    BY <1>1, <2>1, <2>2, <2>3, <2>4, HostStays
<1>5. PlanInv'
  BY <1>1, HostStays DEF TopologyInv, PlanInv, Placed
<1>6. SubmittedInv'
  BY <1>1 DEF SubmittedInv
<1> QED
  BY <1>3, <1>4, <1>5, <1>6 DEF TopologyInv

LEMMA SelectKeepsInv ==
    ASSUME TopologyInv, NEW p \in Policies, SelectForTarget(p)
    PROVE  TopologyInv'
<1> DEFINE t == FromFacts(facts)
<1>1. /\ looked = Len(Files) /\ verdict = "discovering" /\ ~Refused(facts) /\ Selectable(t, p)
      /\ plan' = [made |-> TRUE, policy |-> p, topology |-> t,
                  workload |-> Workload(t, p), housekeeping |-> t.online \ Workload(t, p),
                  fallbacks |-> Fallbacks(t, p), revision |-> Revision(t),
                  target |-> host.target, changes |-> hotplugs]
      /\ facts' = NoFacts /\ looked' = 0
      /\ host' = host /\ verdict' = verdict /\ hotplugs' = hotplugs
  BY DEF SelectForTarget
<1>2. Proper(t) /\ t.mode \in {"unknown", "homogeneous", "heterogeneous"}
  BY FactsAreProper DEF TopologyInv
<1>3. hotplugs = 0 =>
        \A c, d \in t.online : SameCore(c, d) => CoreKey(t, c) = CoreKey(t, d)
  <2> SUFFICES ASSUME hotplugs = 0, NEW c \in t.online, NEW d \in t.online, SameCore(c, d)
               PROVE  CoreKey(t, c) = CoreKey(t, d)
    OBVIOUS
  <2>1. t.online = Online(facts)
    BY DEF FromFacts
  <2> QED
    BY <1>1, <2>1, SameCoreSameKey DEF TopologyInv
<1> HIDE DEF t
<1>4. HostInv'
  BY <1>1 DEF TopologyInv, HostInv
<1>5. FactsInv'
  <2>1. DOMAIN facts' = {} /\ looked' \in 0..Len(Files)
    BY <1>1, FilesShape DEF NoFacts
  <2>2. SeenFiles(0) = {}
    BY DEF SeenFiles
  <2> QED
    BY <1>1, <2>1, <2>2 DEF FactsInv, Known
<1>6. PlanInv'
  <2>1. plan'.topology = t /\ plan'.policy = p /\ plan'.changes = hotplugs
    BY <1>1
  <2> QED
    BY <1>1, <1>2, <1>3, <2>1, HostStays DEF PlanInv, Placed, Revision
<1>7. SubmittedInv'
  BY <1>1 DEF SubmittedInv
<1> QED
  BY <1>4, <1>5, <1>6, <1>7 DEF TopologyInv

LEMMA DecideKeepsInv ==
    ASSUME TopologyInv, ToCgroupCpusetMutation \/ \E p \in Policies : ReportOnly(p)
    PROVE  TopologyInv'
<1>1. /\ host' = host /\ facts' = facts /\ looked' = looked /\ plan' = plan /\ hotplugs' = hotplugs
      /\ verdict' = "submitted" =>
            plan.made /\ ~Refused(facts) /\ StillValid(FromFacts(facts))
  BY DEF ToCgroupCpusetMutation, ReportOnly
<1>2. HostInv' /\ FactsInv' /\ PlanInv'
  BY <1>1, HostStays DEF TopologyInv, HostInv, FactsInv, PlanInv, Placed
<1>3. SubmittedInv'
  <2> SUFFICES ASSUME verdict' = "submitted"
               PROVE  /\ plan.made = TRUE /\ ~Refused(facts)
                      /\ FromFacts(facts) = plan.topology /\ host.target = plan.target
    BY <1>1 DEF SubmittedInv
  <2>1. plan.made /\ ~Refused(facts) /\ StillValid(FromFacts(facts))
    BY <1>1
  <2>2. plan.made = TRUE
    BY <2>1
  <2>3. plan.revision = plan.topology
    BY <2>2 DEF TopologyInv, PlanInv, Placed
  <2> QED
    BY <2>1, <2>2, <2>3 DEF StillValid, Revision
<1> QED
  BY <1>2, <1>3 DEF TopologyInv

LEMMA ChangeKeepsInv ==
    ASSUME TopologyInv, ReplaceTarget \/ \E c \in Cpus : Hotplug(c)
    PROVE  TopologyInv'
<1>1. /\ verdict = "discovering" /\ facts' = facts /\ looked' = looked /\ plan' = plan
      /\ verdict' = verdict /\ hotplugs' = hotplugs + 1
  BY DEF ReplaceTarget, Hotplug
<1>2. hotplugs' \in Nat /\ hotplugs' # 0
  BY <1>1 DEF TopologyInv, HostInv
<1>3. /\ host' = [online |-> host'.online, capacity |-> host'.capacity,
                  denied |-> host'.denied, target |-> host'.target]
      /\ host'.denied = host.denied /\ host'.online \subseteq Cpus
  <2>1. CASE ReplaceTarget
    BY <2>1 DEF ReplaceTarget, TopologyInv, HostInv
  <2>2. ASSUME NEW c \in Cpus, Hotplug(c)
        PROVE  /\ host' = [online |-> host'.online, capacity |-> host'.capacity,
                           denied |-> host'.denied, target |-> host'.target]
               /\ host'.denied = host.denied /\ host'.online \subseteq Cpus
    BY <2>2 DEF Hotplug, TopologyInv, HostInv
  <2> QED
    BY <2>1, <2>2
<1>4. HostInv'
  BY <1>2, <1>3 DEF HostInv
<1>5. FactsInv'
  BY <1>1, <1>2 DEF TopologyInv, FactsInv, Known
<1>6. PlanInv'
  <2>1. \A c, d : SameCore(c, d)' <=> SameCore(c, d)
    BY <1>3 DEF SameCore
  <2> QED
    BY <1>1, <2>1 DEF TopologyInv, PlanInv, Placed
<1>7. SubmittedInv'
  BY <1>1 DEF SubmittedInv
<1> QED
  BY <1>4, <1>5, <1>6, <1>7 DEF TopologyInv

LEMMA TopologyInvariant == TopologySpec => []TopologyInv
<1>1. TopologyInit => TopologyInv
  BY TopologyInvInit
<1>2. TopologyInv /\ [TopologyNext]_topologyVars => TopologyInv'
  <2> SUFFICES ASSUME TopologyInv, [TopologyNext]_topologyVars PROVE TopologyInv'
    OBVIOUS
  <2>1. CASE ReadFile
    BY <2>1, ReadFileKeepsInv
  <2>2. CASE \E p \in Policies : SelectForTarget(p)
    BY <2>2, SelectKeepsInv
  <2>3. CASE ToCgroupCpusetMutation \/ \E p \in Policies : ReportOnly(p)
    BY <2>3, DecideKeepsInv
  <2>4. CASE ReplaceTarget \/ \E c \in Cpus : Hotplug(c)
    BY <2>4, ChangeKeepsInv
  <2>5. CASE UNCHANGED topologyVars
    <3>1. /\ host' = host /\ facts' = facts /\ looked' = looked /\ plan' = plan
          /\ verdict' = verdict /\ hotplugs' = hotplugs
      BY <2>5 DEF topologyVars
    <3> QED
      BY <3>1, HostStays DEF TopologyInv, HostInv, FactsInv, PlanInv, Placed, SubmittedInv
  <2> QED
    BY <2>1, <2>2, <2>3, <2>4, <2>5 DEF TopologyNext
<1> QED
  BY <1>1, <1>2, PTL DEF TopologySpec

(* Every placement select_for_target makes, from any discovery however torn  *)
(* by hotplug, splits the CPUs that were seen on line into a nonempty        *)
(* workload and the rest, and at least half of the cores stay out of the     *)
(* workload.                                                                 *)
THEOREM HousekeepingIsReserved == TopologySpec => []HousekeepingReserve
<1>1. TopologyInv => HousekeepingReserve
  <2> SUFFICES ASSUME TopologyInv, plan.made
               PROVE  SplitIsSound(plan.topology, plan.workload, plan.housekeeping)
    BY DEF HousekeepingReserve, SplitIsSound
  <2>1. plan.made = TRUE
    OBVIOUS
  <2>2. Placed(plan.topology, plan.policy)
    BY <2>1 DEF TopologyInv, PlanInv
  <2> QED
    BY <2>2, SplitHolds DEF Placed
<1> QED
  BY <1>1, TopologyInvariant, PTL

(* What select_for_target reports is what happened: a reduced workload       *)
(* exactly when it is smaller than requested, the preferred node is used     *)
(* unless the fallback says otherwise, and no performance core stays behind  *)
(* an efficiency core unless capacities could not be used.                   *)
THEOREM FallbacksAreTruthful == TopologySpec => []FallbacksTruthful
<1>1. TopologyInv => FallbacksTruthful
  <2> SUFFICES ASSUME TopologyInv, plan.made
               PROVE  ReportIsTrue(plan.policy, plan.topology, plan.workload, plan.housekeeping,
                                   plan.fallbacks)
    BY DEF FallbacksTruthful, ReportIsTrue
  <2>1. plan.made = TRUE
    OBVIOUS
  <2>2. Placed(plan.topology, plan.policy)
    BY <2>1 DEF TopologyInv, PlanInv
  <2>3. Policy(plan.policy)
    BY <2>2, PoliciesAssumption DEF Placed, Policy
  <2> QED
    BY <2>2, <2>3, ReportHolds DEF Placed
<1> QED
  BY <1>1, TopologyInvariant, PTL

(* core_groups never parts the threads of one core whose files the host      *)
(* shows alike, when nothing changed during the discovery.                   *)
THEOREM CoresStayWhole == TopologySpec => []CoresKeptWhole
<1>1. TopologyInv => CoresKeptWhole
  <2> DEFINE t == plan.topology
  <2> SUFFICES ASSUME TopologyInv, plan.made, plan.changes = 0,
                      NEW c \in t.online, NEW d \in t.online, SameCore(c, d)
               PROVE  c \in plan.workload <=> d \in plan.workload
    BY DEF CoresKeptWhole, SameCore
  <2>1. plan.made = TRUE
    OBVIOUS
  <2>2. Placed(t, plan.policy) /\ CoreKey(t, c) = CoreKey(t, d)
    BY <2>1 DEF TopologyInv, PlanInv
  <2> HIDE DEF t
  <2>3. Proper(t) /\ plan.workload = Workload(t, plan.policy)
    BY <2>2 DEF Placed
  <2> DEFINE g == {x \in t.online : CoreKey(t, x) = CoreKey(t, c)}
  <2>4. g \in Groups(t) /\ c \in g /\ d \in g
    BY <2>2 DEF Groups
  <2> HIDE DEF g
  <2>5. CASE g \in Selected(t, plan.policy)
    BY <2>3, <2>4, <2>5, Sides
  <2>6. CASE g \notin Selected(t, plan.policy)
    BY <2>3, <2>4, <2>6, Sides
  <2> QED
    BY <2>5, <2>6
<1> QED
  BY <1>1, TopologyInvariant, PTL

(* validate_before_apply compares revisions and targets, and that is enough: *)
(* whatever is submitted is the placement a fresh selection would make.      *)
THEOREM SubmissionIsCurrent == TopologySpec => []SubmittedIsCurrent
<1>1. TopologyInv => SubmittedIsCurrent
  <2> SUFFICES ASSUME TopologyInv, verdict = "submitted"
               PROVE  /\ ~Refused(facts)
                      /\ Workload(FromFacts(facts), plan.policy) = plan.workload
                      /\ Fallbacks(FromFacts(facts), plan.policy) = plan.fallbacks
                      /\ host.target = plan.target
    BY DEF SubmittedIsCurrent
  <2>1. /\ plan.made = TRUE /\ ~Refused(facts)
        /\ FromFacts(facts) = plan.topology /\ host.target = plan.target
    BY DEF TopologyInv, SubmittedInv
  <2>2. Placed(plan.topology, plan.policy)
    BY <2>1 DEF TopologyInv, PlanInv
  <2> QED
    BY <2>1, <2>2 DEF Placed
<1> QED
  BY <1>1, TopologyInvariant, PTL

=============================================================================
