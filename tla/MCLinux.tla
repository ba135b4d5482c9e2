------------------------------ MODULE MCLinux ------------------------------
(***************************************************************************)
(* The adapters of sysboost-linux on small hosts.  They share no state, so *)
(* one run holds several machines side by side: the initial state picks    *)
(* one of them in mode, only that one takes steps, and the variables of    *)
(* the others keep the value of an initial state.                          *)
(*                                                                         *)
(*   cpu        CpuBackend on a frequency, boost and scalar node, with and *)
(*              without other programs that write and replace its files    *)
(*   control    WorkloadControl on a cgroup attribute, a nice value and a  *)
(*              placement, with others that write and replace the object   *)
(*   topology   Topology on five CPUs in four cores and two NUMA nodes     *)
(***************************************************************************)
EXTENDS CpuBackend, WorkloadControl, Topology

VARIABLE mode

suiteVars == <<mode, vars, controlVars, topologyVars>>

MCFreqs == 1..3
MCControlValues == {"v1", "v2", "v3"}
MCDiscovered == {"v1", "v2"}

(* Two threads on the first core, three cores of one. *)
MCCore == [c \in 0..4 |-> IF c <= 1 THEN 0 ELSE c - 1]
MCNumaNode == [c \in 0..4 |-> IF c <= 2 THEN 0 ELSE 1]
Uniform == [c \in 0..4 |-> 1]
Hybrid == [c \in 0..4 |-> IF c >= 2 THEN 2 ELSE 1]
MCHosts ==
    {[capacity |-> Hybrid, denied |-> d] :
        d \in {{}, {<<"ids", 0>>}, {<<"ids", 0>>, <<"ids", 1>>}, {<<"siblings", 0>>}}}
    \cup {[capacity |-> Uniform, denied |-> d] :
        d \in {{<<"capacity", 3>>}, {<<"possible", 0>>, <<"node", 1>>}, {<<"online", 0>>}}}
MCPolicies ==
    {[prefer |-> TRUE, count |-> -1, node |-> -1], [prefer |-> TRUE, count |-> 2, node |-> 1],
     [prefer |-> FALSE, count |-> 1, node |-> -1], [prefer |-> FALSE, count |-> 4, node |-> 7],
     [prefer |-> FALSE, count |-> 0, node |-> 0]}

-----------------------------------------------------------------------------
CpuOff ==
    /\ Init /\ node = "scalar" /\ ~others
    /\ \A r \in Registers : reg[r] = 1
    /\ want = 1
ControlOff ==
    /\ ControlInit /\ kind = "cgroup"
    /\ val = [o \in Objects |-> "v1"] /\ desired = "v1"
TopologyOff ==
    TopologyInit /\ host.capacity = Hybrid /\ host.denied = {}

SuiteInit ==
    \/ mode = "cpu" /\ Init /\ ControlOff /\ TopologyOff
    \/ mode = "control" /\ ControlInit /\ CpuOff /\ TopologyOff
    \/ mode = "topology" /\ TopologyInit /\ CpuOff /\ ControlOff

SuiteNext ==
    /\ UNCHANGED mode
    /\ \/ mode = "cpu" /\ Next /\ UNCHANGED <<controlVars, topologyVars>>
       \/ mode = "control" /\ ControlNext /\ UNCHANGED <<vars, topologyVars>>
       \/ mode = "topology" /\ TopologyNext /\ UNCHANGED <<vars, controlVars>>

SuiteSpec == SuiteInit /\ [][SuiteNext]_suiteVars
=============================================================================
