------------------------------- MODULE Topology -------------------------------
(***************************************************************************)
(* Soft isolation of sysboost-linux: discovery reads the CPU topology file *)
(* by file (detect_topology and detect_numa of discovery.rs) while CPUs go *)
(* off and on line, topology.rs normalizes what was read, selects workload *)
(* and housekeeping CPUs, and compares a second discovery with the first   *)
(* before the placement is submitted.                                      *)
(*                                                                         *)
(* A file is <<kind, number>>. What was read is a function whose domain    *)
(* are the files that could be read; a CPU list is the sequence of ranges  *)
(* of the kernel's text. The numbers of package and core are one file, as  *)
(* the code uses them only together.                                       *)
(***************************************************************************)
EXTENDS Integers, Sequences, FiniteSets, FiniteSetsExt

CONSTANTS
    Core,           \* the physical core of every CPU, a function on 0..N-1
    NumaNode,           \* the NUMA node of every CPU
    Hosts,          \* records [capacity, denied]: the cpu_capacity table, 0 where it is
                    \* unknown, and the files that the host refuses to read
    Policies,       \* records [prefer, count, node], count and node -1 for None
    MaxHotplug      \* bound on the changes of the host

ASSUME CpusAssumption == \E n \in DOMAIN Core : n \in Nat /\ Core \in [0..n -> Nat]
ASSUME NumaAssumption == NumaNode \in [DOMAIN Core -> Nat]
ASSUME PoliciesAssumption ==
    \A p \in Policies :
        p.prefer \in BOOLEAN /\ p.count \in Nat \cup {-1} /\ p.node \in Nat \cup {-1}

VARIABLES
    host,           \* [online, capacity, denied, target]
    facts,          \* what the discovery under way has read
    looked,             \* number of files it has looked at
    plan,           \* the placement, or NoPlan
    verdict,        \* "discovering", "report-only", "stale" or "submitted"
    hotplugs        \* changes of the host so far

topologyVars == <<host, facts, looked, plan, verdict, hotplugs>>

Cpus == DOMAIN Core
NumaNodes == {NumaNode[c] : c \in Cpus}
Unknown == -1
NoFacts == [f \in {} |-> 0]
NoPlan == [made |-> FALSE]

PerCpu == <<"ids", "siblings", "capacity">>
Files ==
    <<<<"possible", 0>>, <<"online", 0>>>>
    \o [i \in 1..(3 * Cardinality(Cpus)) |-> <<PerCpu[1 + ((i - 1) % 3)], (i - 1) \div 3>>]
    \o [i \in 1..Cardinality(NumaNodes) |-> <<"node", i - 1>>]

-----------------------------------------------------------------------------
(* The kernel's lists of CPUs.                                             *)

\* render_cpu_set: the maximal ranges of a set, in order.
RenderCpuSet(S) ==
    LET starts == {c \in S : c - 1 \notin S}
        end(c) == Min({e \in S : e >= c /\ e + 1 \notin S})
        nth(n) == CHOOSE c \in starts : Cardinality({d \in starts : d < c}) = n - 1
    IN  [n \in 1..Cardinality(starts) |-> <<nth(n), end(nth(n))>>]

\* parse_cpu_list refuses an empty text and a reversed range.
Parses(text) == text # <<>> /\ \A i \in DOMAIN text : text[i][1] <= text[i][2]
ParseCpuList(text) == UNION {text[i][1]..text[i][2] : i \in DOMAIN text}

-----------------------------------------------------------------------------
(* The host: the topology directory of a CPU is there while it is on line, *)
(* and its siblings are the ones on line.                                  *)

Readable(f) ==
    /\ f \notin host.denied
    /\ f[1] \in {"ids", "siblings"} => f[2] \in host.online

Text(f) ==
    CASE f[1] = "possible" -> RenderCpuSet(Cpus)
      [] f[1] = "online"   -> RenderCpuSet(host.online)
      [] f[1] = "ids"      -> Core[f[2]]
      [] f[1] = "siblings" -> RenderCpuSet({d \in host.online : Core[d] = Core[f[2]]})
      [] f[1] = "capacity" -> host.capacity[f[2]]
      [] f[1] = "node"     -> RenderCpuSet({d \in host.online : NumaNode[d] = f[2]})

-----------------------------------------------------------------------------
(* CpuTopology::from_facts.                                                *)

Known(f, file) == file \in DOMAIN f
SetIn(f, file) == IF Known(f, file) THEN ParseCpuList(f[file]) ELSE {}

\* Without an online list the CPUs whose entry says on line are taken; an
\* entry says so when the online list has the CPU, so there are none.
Online(f) == SetIn(f, <<"online", 0>>)

\* The facts are refused as a whole.
Refused(f) ==
    \/ \E file \in DOMAIN f :
           file[1] \in {"possible", "online", "siblings", "node"} /\ ~Parses(f[file])
    \/ Known(f, <<"possible", 0>>) /\ ~(Online(f) \subseteq SetIn(f, <<"possible", 0>>))
    \/ \E c \in Cpus : Known(f, <<"siblings", c>>) /\ c \notin SetIn(f, <<"siblings", c>>)
    \/ \E m, n \in NumaNodes : m # n /\ SetIn(f, <<"node", m>>) \cap SetIn(f, <<"node", n>>) # {}

\* Siblings that are on line; the CPU alone when there are none.
Siblings(f, c) ==
    LET known == SetIn(f, <<"siblings", c>>)
        kept  == IF Online(f) = {} THEN known ELSE known \cap Online(f)
    IN  IF kept = {} THEN {c} ELSE kept

Capacity(f, c) == IF Known(f, <<"capacity", c>>) THEN f[<<"capacity", c>>] ELSE 0

\* classify_capacities: a class is given only when every CPU on line has a
\* capacity and there are two of them.
CapacityMode(f) ==
    LET seen == {Capacity(f, c) : c \in Online(f)}
    IN  IF seen = {} \/ 0 \in seen THEN "unknown"
        ELSE IF Cardinality(seen) = 1 THEN "homogeneous" ELSE "heterogeneous"

Class(f, c) ==
    IF CapacityMode(f) # "heterogeneous" \/ c \notin Online(f) THEN "unknown"
    ELSE IF Capacity(f, c) = Max({Capacity(f, d) : d \in Online(f)})
           THEN "performance" ELSE "efficiency"

FromFacts(f) ==
    [online |-> Online(f),
     possible |-> SetIn(f, <<"possible", 0>>),
     mode |-> CapacityMode(f),
     cpu |-> [c \in Cpus |->
        [core |-> IF Known(f, <<"ids", c>>) THEN f[<<"ids", c>>] ELSE Unknown,
         siblings |-> Siblings(f, c),
         capacity |-> Capacity(f, c),
         class |-> Class(f, c),
         node |-> LET holds == {n \in NumaNodes : c \in SetIn(f, <<"node", n>>)}
                  IN  IF holds = {} THEN Unknown ELSE Min(holds)]],
     nodes |-> [n \in NumaNodes |-> SetIn(f, <<"node", n>>)]]

-----------------------------------------------------------------------------
(* core_groups and select_for_target.                                      *)

\* Slip: a core is what its siblings say, also where its number is known.
CoreKeySiblings(t, c) == <<Unknown, t.cpu[c].siblings>>

CoreKey(t, c) ==
    IF t.cpu[c].core # Unknown THEN <<t.cpu[c].core, {}>>
                               ELSE <<Unknown, t.cpu[c].siblings>>

Groups(t) == {{d \in t.online : CoreKey(t, d) = CoreKey(t, c)} : c \in t.online}

Common(values, otherwise) == IF Cardinality(values) = 1 THEN CHOOSE v \in values : TRUE ELSE otherwise
GroupClass(t, g) == Common({t.cpu[c].class : c \in g}, "unknown")
GroupNode(t, g) == Common({t.cpu[c].node : c \in g}, Unknown)

CapacityRank(class) ==
    CASE class = "performance" -> 0 [] class = "unknown" -> 1 [] class = "efficiency" -> 2

\* The order of the candidates: the preferred node, the capacity, the number.
Before(t, p, g, h) ==
    LET preferred(x) == p.node # Unknown /\ GroupNode(t, x) = p.node
        rank(x) == IF p.prefer /\ t.mode = "heterogeneous"
                     THEN CapacityRank(GroupClass(t, x)) ELSE 0
    IN  IF preferred(g) # preferred(h) THEN preferred(g)
        ELSE IF rank(g) # rank(h) THEN rank(g) < rank(h)
        ELSE Min(g) < Min(h)

\* Slip: the housekeeping half is rounded down.
MaxWorkloadGroupsMore(t) == (Cardinality(Groups(t)) + 1) \div 2

\* Half of the groups, rounded up, stay with housekeeping.
MaxWorkloadGroups(t) == Cardinality(Groups(t)) - ((Cardinality(Groups(t)) + 1) \div 2)

\* Groups are taken in order until the request is met or the reserve reached.
Selected(t, p) ==
    LET earlier(g) == {h \in Groups(t) : Before(t, p, h, g)}
        requested  == IF p.count = Unknown THEN Cardinality(Cpus) + 1 ELSE p.count
    IN  {g \in Groups(t) :
            /\ Cardinality(earlier(g)) < MaxWorkloadGroups(t)
            /\ earlier(g) = {} \/ Cardinality(UNION earlier(g)) < requested}

\* Slip: the size is compared with the CPUs on line only.
ReducedByOnline(t, p) == p.count # Unknown /\ p.count > Cardinality(t.online) - 1

\* The request is larger than what the reserve leaves.
Reduced(t, p) ==
    LET first == {g \in Groups(t) :
                    Cardinality({h \in Groups(t) : Before(t, p, h, g)}) < MaxWorkloadGroups(t)}
    IN  /\ p.count # Unknown
        /\ \/ p.count > Cardinality(t.online) - 1
           \/ p.count > Cardinality(UNION first)

Fallbacks(t, p) ==
    {w \in {"homogeneous", "unknown"} : p.prefer /\ t.mode = w}
    \cup (IF /\ p.node # Unknown
             /\ \A g \in Groups(t) : GroupNode(t, g) # p.node THEN {"numa"} ELSE {})
    \cup (IF Reduced(t, p) THEN {"reduced"} ELSE {})

Selectable(t, p) ==
    /\ t.online # {}
    /\ Cardinality(t.online) >= 2
    /\ Cardinality(Groups(t)) >= 2
    /\ p.count # 0

Workload(t, p) == UNION Selected(t, p)

\* Slip: the revision covers the CPUs on line only.
RevisionOnline(t) == t.online

\* topology_revision digests the whole normalized topology.
Revision(t) == t

-----------------------------------------------------------------------------
TopologyInit ==
    /\ \E h \in Hosts :
           host = [online |-> Cpus, capacity |-> h.capacity, denied |-> h.denied, target |-> 1]
    /\ facts = NoFacts /\ looked = 0
    /\ plan = NoPlan
    /\ verdict = "discovering"
    /\ hotplugs = 0

\* Discovery reads the next file; a file that cannot be read is left out.
ReadFile ==
    /\ verdict = "discovering"
    /\ looked < Len(Files)
    /\ LET f == Files[looked + 1]
       IN  facts' = IF Readable(f) THEN [x \in DOMAIN facts \cup {f} |->
                                            IF x = f THEN Text(f) ELSE facts[x]]
                                   ELSE facts
    /\ looked' = looked + 1
    /\ UNCHANGED <<host, plan, verdict, hotplugs>>

\* The facts or the policy allow no placement.
ReportOnly(p) ==
    /\ ~plan.made /\ looked = Len(Files) /\ verdict = "discovering"
    /\ Refused(facts) \/ ~Selectable(FromFacts(facts), p)
    /\ verdict' = "report-only"
    /\ UNCHANGED <<host, facts, looked, plan, hotplugs>>

SelectForTarget(p) ==
    /\ ~plan.made /\ looked = Len(Files) /\ verdict = "discovering"
    /\ ~Refused(facts)
    /\ LET t == FromFacts(facts)
       IN  /\ Selectable(t, p)
           /\ plan' = [made |-> TRUE, policy |-> p, topology |-> t,
                       workload |-> Workload(t, p), housekeeping |-> t.online \ Workload(t, p),
                       fallbacks |-> Fallbacks(t, p), revision |-> Revision(t),
                       target |-> host.target, changes |-> hotplugs]
    /\ facts' = NoFacts /\ looked' = 0
    /\ UNCHANGED <<host, verdict, hotplugs>>

\* validate_before_apply
StillValid(t) ==
    /\ Revision(t) = plan.revision
    /\ t.online = plan.topology.online
    /\ plan.workload \cup plan.housekeeping \subseteq t.online
    /\ plan.target = host.target

\* to_cgroup_cpuset_mutation with the second discovery.
ToCgroupCpusetMutation ==
    /\ plan.made /\ looked = Len(Files) /\ verdict = "discovering"
    /\ verdict' = IF ~Refused(facts) /\ StillValid(FromFacts(facts)) THEN "submitted" ELSE "stale"
    /\ UNCHANGED <<host, facts, looked, plan, hotplugs>>

\* A CPU goes off or on line; one always stays.
Hotplug(c) ==
    /\ hotplugs < MaxHotplug /\ verdict = "discovering"
    /\ LET online == IF c \in host.online THEN host.online \ {c} ELSE host.online \cup {c}
       IN  online # {} /\ host' = [host EXCEPT !.online = online]
    /\ hotplugs' = hotplugs + 1
    /\ UNCHANGED <<facts, looked, plan, verdict>>

\* Another cgroup takes the place of the target.
ReplaceTarget ==
    /\ hotplugs < MaxHotplug /\ verdict = "discovering"
    /\ host' = [host EXCEPT !.target = 3 - @]
    /\ hotplugs' = hotplugs + 1
    /\ UNCHANGED <<facts, looked, plan, verdict>>

TopologyNext ==
    \/ ReadFile
    \/ \E p \in Policies : ReportOnly(p) \/ SelectForTarget(p)
    \/ ToCgroupCpusetMutation
    \/ \E c \in Cpus : Hotplug(c)
    \/ ReplaceTarget

TopologySpec == TopologyInit /\ [][TopologyNext]_topologyVars

-----------------------------------------------------------------------------
(* Housekeeping survives every discovery, torn or not: the two sets split  *)
(* the CPUs seen on line, and at least half of the cores the planner saw   *)
(* stay out of the workload (select_for_target).                           *)
HousekeepingReserve ==
    plan.made =>
        LET cores == {g \in Groups(plan.topology) : g \subseteq plan.housekeeping}
        IN  /\ plan.workload # {}
            /\ plan.workload \cup plan.housekeeping = plan.topology.online
            /\ plan.workload \cap plan.housekeeping = {}
            /\ 2 * Cardinality(cores) >= Cardinality(Groups(plan.topology))

(* When nothing changes during the discovery, the threads of one physical  *)
(* core stay on one side, unless the host shows the number of the core for *)
(* one thread and hides it for the other, or hides numbers and siblings    *)
(* (core_groups).                                                          *)
CoresKeptWhole ==
    plan.made /\ plan.changes = 0 =>
        \A c, d \in plan.topology.online :
            /\ Core[c] = Core[d]
            /\ \/ {<<"ids", c>>, <<"ids", d>>} \cap host.denied = {}
               \/ /\ {<<"ids", c>>, <<"ids", d>>} \subseteq host.denied
                  /\ {<<"siblings", c>>, <<"siblings", d>>} \cap host.denied = {}
            => (c \in plan.workload <=> d \in plan.workload)

(* The reported fallbacks are the preferences that were not met: the       *)
(* workload is smaller than requested exactly when that is reported, it    *)
(* touches the preferred node unless that is reported, and no faster core  *)
(* is left over for a slower one unless capacity could not be used         *)
(* (select_for_target).                                                    *)
FallbacksTruthful ==
    plan.made =>
        LET p == plan.policy
            t == plan.topology
            sides(S) == {g \in Groups(t) : g \subseteq S}
        IN  /\ ("reduced" \in plan.fallbacks)
                 <=> (p.count # Unknown /\ Cardinality(plan.workload) < p.count)
            /\ (p.node # Unknown /\ "numa" \notin plan.fallbacks)
                 => \E c \in plan.workload : t.cpu[c].node = p.node
            /\ (p.prefer /\ p.node = Unknown /\ plan.fallbacks \cap {"homogeneous", "unknown"} = {})
                 => \A g \in sides(plan.workload), h \in sides(plan.housekeeping) :
                        ~(GroupClass(t, g) = "efficiency" /\ GroupClass(t, h) = "performance")

(* A placement is submitted only when deciding again, from what was just   *)
(* read, would give the same placement (validate_before_apply compares     *)
(* revisions, not placements).                                             *)
SubmittedIsCurrent ==
    verdict = "submitted" =>
        /\ ~Refused(facts)
        /\ Workload(FromFacts(facts), plan.policy) = plan.workload
        /\ Fallbacks(FromFacts(facts), plan.policy) = plan.fallbacks
        /\ host.target = plan.target

=============================================================================
