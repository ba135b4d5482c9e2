---------------------------- MODULE ManagedCgroup ----------------------------
(***************************************************************************)
(* The managed workload or background cgroup of sysboost-linux/src/        *)
(* workload.rs: one named child of an approved parent, created by apply    *)
(* and removed by restore, with every file-system call a step.  Others may *)
(* create and remove a group of that name, put processes or groups into it *)
(* and take them out; the helper may crash and start again.                *)
(*                                                                         *)
(* A group is its inode, 1..MaxGroups in order of creation.  own, crossed  *)
(* and removed are history variables: the groups the session created,      *)
(* whether others created or removed the name while a call was running,    *)
(* and the groups the session removed.                                     *)
(***************************************************************************)
EXTENDS Naturals

CONSTANTS
    ControlFiles,  \* the kernel shows controller files in the child
    MaxGroups      \* bound: groups ever created under the name

VARIABLES
    child,     \* the group behind the name; 0 when there is none
    made,      \* groups created so far
    procs,     \* the child contains processes
    nested,    \* the child contains groups
    known,     \* WorkloadSysfs.groups: the identity it has of the child, or 0
    phase,     \* what the engine knows of the operation
    where,     \* where the running call is
    own, crossed, removed,
    crashes,   \* the helper may crash; chosen at the start
    quiet      \* faults and other programs have stopped

hostVars == <<child, made, procs, nested>>
groupVars == <<child, made, procs, nested, known, phase, where, own, crossed, removed, crashes,
              quiet>>

Phases == {"planned", "snapshotted", "applied", "failed", "unknown", "restored"}
ApplySteps == {"apply", "exists", "mkdir", "insert", "undo", "after"}
RestoreSteps == {"restore", "lookup", "procs", "entries", "rmdir", "forget", "restoreCheck"}

Present == child # 0

GroupInit ==
    /\ child \in {0, 1}
    /\ made = child
    /\ procs = FALSE /\ nested = FALSE
    /\ known = child
    /\ phase = "planned"
    /\ where = "idle"
    /\ own = {} /\ crossed = FALSE /\ removed = {}
    /\ crashes \in BOOLEAN
    /\ quiet = FALSE

GroupGoto(stage) == where' = stage /\ UNCHANGED phase
GroupReturn(p) == where' = "idle" /\ phase' = p

Call ==
    /\ where = "idle"
    /\ \/ phase = "planned" /\ GroupGoto("snap")
       \/ phase = "snapshotted" /\ GroupGoto("apply")
       \/ phase = "applied" /\ GroupGoto("restore")
    /\ UNCHANGED <<hostVars, known, own, crossed, removed, quiet>>

OnError == GroupReturn(IF where \in ApplySteps THEN "failed" ELSE phase)

(* Any inspection of the parent or the child may fail. *)
InspectionFails ==
    /\ ~quiet
    /\ where \notin {"idle", "insert", "undo"}
    /\ OnError
    /\ UNCHANGED <<hostVars, known, own, crossed, removed, quiet>>

-----------------------------------------------------------------------------
(* snapshot_internal over read_lifecycle: the original of a creation is     *)
(* "absent"; a present group is already what the plan wants.                *)
SnapshotTaken ==
    /\ where = "snap"
    /\ GroupReturn(IF Present THEN phase ELSE "snapshotted")
    /\ UNCHANGED <<hostVars, known, own, crossed, removed, quiet>>

(* apply_internal: read_lifecycle against the precondition, then the        *)
(* inspection of the path in write_mutation.                                *)
ApplyChecked ==
    /\ where \in {"apply", "exists"}
    /\ IF Present THEN OnError
       ELSE GroupGoto(IF where = "apply" THEN "exists" ELSE "mkdir")
    /\ UNCHANGED <<hostVars, known, own, crossed, removed, quiet>>

(* create_dir: fails when the name is taken by now. *)
MakeGroup ==
    /\ where = "mkdir"
    /\ IF Present
       THEN OnError /\ UNCHANGED <<hostVars, own>>
       ELSE /\ made < MaxGroups
            /\ child' = made + 1 /\ made' = made + 1
            /\ procs' = FALSE /\ nested' = FALSE
            /\ own' = own \cup {made + 1}
            /\ GroupGoto("insert")
    /\ UNCHANGED <<known, crossed, removed, quiet>>

(* insert_child: what is behind the name becomes known under its identity;  *)
(* when it cannot be inspected the directory is removed again.              *)
InsertChild ==
    /\ where = "insert"
    /\ \/ Present /\ known' = child /\ GroupGoto("after")
       \/ (~quiet \/ ~Present) /\ UNCHANGED known /\ GroupGoto("undo")
    /\ UNCHANGED <<hostVars, own, crossed, removed, quiet>>

(* The kernel's rmdir: only a group without processes and groups goes. *)
Removable == Present /\ ~procs /\ ~nested
RemoveDir == child' = 0 /\ removed' = removed \cup {child} /\ UNCHANGED <<made, procs, nested>>

(* write_mutation: cleanup after insert_child failed. *)
UndoMake ==
    /\ where = "undo"
    /\ \/ Removable /\ RemoveDir
       \/ UNCHANGED <<hostVars, removed>>
    /\ OnError
    /\ UNCHANGED <<known, own, crossed, quiet>>

ReadBack ==
    /\ where = "after"
    /\ IF Present THEN GroupReturn("applied") ELSE OnError
    /\ UNCHANGED <<hostVars, known, own, crossed, removed, quiet>>

-----------------------------------------------------------------------------
(* restore_internal: the group is there, as the receipt says. *)
RestoreChecked ==
    /\ where = "restore"
    /\ IF Present THEN GroupGoto("lookup") ELSE OnError
    /\ UNCHANGED <<hostVars, known, own, crossed, removed, quiet>>

(* Slip: the identity of the discovered group is not compared. *)
LookupAnyChild ==
    /\ where = "lookup"
    /\ IF known # 0 THEN GroupGoto("procs") ELSE OnError
    /\ UNCHANGED <<hostVars, known, own, crossed, removed, quiet>>

(* remove_child: the child is known, and the path still leads to it. *)
LookupChild ==
    /\ where = "lookup"
    /\ IF known # 0 /\ child = known THEN GroupGoto("procs") ELSE OnError
    /\ UNCHANGED <<hostVars, known, own, crossed, removed, quiet>>

(* remove_child: no processes, then no directory entry besides the          *)
(* cgroup.* files; a controller file counts like a nested group.            *)
ChildEmpty ==
    /\ where = "procs"
    /\ IF procs THEN OnError ELSE GroupGoto("entries")
    /\ UNCHANGED <<hostVars, known, own, crossed, removed, quiet>>
ChildBare ==
    /\ where = "entries"
    /\ IF nested \/ ControlFiles THEN OnError ELSE GroupGoto("rmdir")
    /\ UNCHANGED <<hostVars, known, own, crossed, removed, quiet>>

RemoveChild ==
    /\ where = "rmdir"
    /\ IF Removable
       THEN RemoveDir /\ GroupGoto("forget")
       ELSE UNCHANGED <<hostVars, removed>> /\ OnError
    /\ UNCHANGED <<known, own, crossed, quiet>>

(* The child leaves the map of known groups; the readback follows. *)
ForgetChild ==
    /\ where = "forget"
    /\ known' = 0
    /\ GroupGoto("restoreCheck")
    /\ UNCHANGED <<hostVars, own, crossed, removed, quiet>>

RestoreProven ==
    /\ where = "restoreCheck"
    /\ IF Present THEN OnError ELSE GroupReturn("restored")
    /\ UNCHANGED <<hostVars, known, own, crossed, removed, quiet>>

-----------------------------------------------------------------------------
(* The helper crashes and is started again: WorkloadSysfs::new discovers    *)
(* the hierarchy as it is.  An apply in progress has an unknown result.     *)
Restart ==
    /\ crashes /\ ~quiet
    /\ where' = "idle"
    /\ phase' = IF where \in ApplySteps THEN "unknown" ELSE phase
    /\ known' = child
    /\ UNCHANGED <<hostVars, own, crossed, removed, quiet>>

OtherCreate ==
    /\ ~quiet /\ ~Present /\ made < MaxGroups
    /\ child' = made + 1 /\ made' = made + 1
    /\ procs' = FALSE /\ nested' = FALSE
    /\ crossed' = (crossed \/ where # "idle")
    /\ UNCHANGED <<known, phase, where, own, removed, quiet>>

OtherRemove ==
    /\ ~quiet /\ Removable
    /\ child' = 0
    /\ crossed' = (crossed \/ where # "idle")
    /\ UNCHANGED <<made, procs, nested, known, phase, where, own, removed, quiet>>

(* Processes and groups come and go in the child. *)
OtherUse ==
    /\ ~quiet /\ Present
    /\ procs' \in BOOLEAN /\ nested' \in BOOLEAN
    /\ UNCHANGED <<child, made, known, phase, where, own, crossed, removed, quiet>>

(* Faults and other programs stop. *)
FaultsStop ==
    /\ ~quiet
    /\ quiet' = TRUE
    /\ UNCHANGED <<hostVars, known, phase, where, own, crossed, removed>>

GroupStep ==
    \/ SnapshotTaken \/ ApplyChecked \/ MakeGroup \/ InsertChild \/ UndoMake
    \/ ReadBack \/ RestoreChecked \/ LookupChild \/ ChildEmpty \/ ChildBare
    \/ RemoveChild \/ ForgetChild \/ RestoreProven

GroupNext ==
    /\ UNCHANGED crashes
    /\ \/ Call \/ GroupStep \/ InspectionFails
       \/ Restart \/ OtherCreate \/ OtherRemove \/ OtherUse \/ FaultsStop

GroupSpec == GroupInit /\ [][GroupNext]_groupVars

(* A running call goes on, and restore is called again as long as the       *)
(* operation is not restored.                                               *)
GroupFairSpec ==
    /\ GroupSpec
    /\ WF_groupVars(UNCHANGED crashes /\ GroupStep)
    /\ WF_groupVars(UNCHANGED crashes /\ Call)

-----------------------------------------------------------------------------
(* Type invariant of the managed cgroup's state. *)
GroupTypeOK ==
    /\ child \in 0..made /\ made \in 0..MaxGroups
    /\ procs \in BOOLEAN /\ nested \in BOOLEAN
    /\ known \in 0..made
    /\ phase \in Phases
    /\ where \in {"idle", "snap"} \cup ApplySteps \cup RestoreSteps
    /\ own \subseteq 1..made /\ removed \subseteq 1..made
    /\ crossed \in BOOLEAN /\ crashes \in BOOLEAN /\ quiet \in BOOLEAN

(* SAFETY.md, invariant 8: while the helper lives, restore never removes a  *)
(* group that somebody else created under the name of the session's, unless *)
(* it was put there while a call was running, between a check by name and   *)
(* the removal by name.                                                     *)
RemovesOwnUnlessRaced == ~crashes /\ ~crossed => removed \subseteq own

(* ARCHITECTURE.md, 10.2: lifecycle cleanup needs an empty managed group    *)
(* with no nested groups, and nothing else: once faults and others stopped  *)
(* with the session's own group in such a state, restore removes it.        *)
(* ChildBare breaks it where the kernel shows controller files, as it does  *)
(* in every directory of cgroup2.                                           *)
EmptyGroupRemoved ==
    (quiet /\ phase = "applied" /\ child \in own /\ ~procs /\ ~nested)
        ~> (phase = "restored" /\ child = 0)
=============================================================================
