--------------------------- MODULE WorkloadControl ---------------------------
(***************************************************************************)
(* The workload backend of sysboost-linux/src/workload.rs on one value of  *)
(* one object: a control file of a cgroup, the nice value of a process or  *)
(* its placement in a cgroup.  The object may be replaced behind its name: *)
(* a cgroup path gets a new inode, a PID a new process.  Every check of    *)
(* the identity and every access by name is a step of its own.             *)
(*                                                                         *)
(* Object 1 is the one the plan names (CgroupId, or PID with start time).  *)
(* stray and touched are history variables: a write of the session landed  *)
(* on another object; others changed something since the last read began.  *)
(***************************************************************************)
EXTENDS Naturals

CONSTANTS
    ControlValues,  \* values; for a placement the cgroups
    Discovered,     \* cgroups the backend discovered
    NoValue,        \* no value captured or read
    Interference,   \* whether others write and replace the object
    MaxObjects      \* bound: objects that follow one another

ASSUME ControlAssumption ==
    /\ Discovered \subseteq ControlValues
    /\ NoValue \notin ControlValues
    /\ Interference \in BOOLEAN
    /\ MaxObjects \in Nat \ {0}

VARIABLES
    kind,      \* "cgroup", "nice" or "placement"
    obj,       \* the object the name refers to now; 0 when there is none
    val,       \* the value of every object
    desired,   \* PlannedMutation.desired
    original,  \* Snapshot.original_typed
    progress,  \* what the engine knows of the operation
    stage,     \* where the running call is,
    point,     \* and where its access is
    found,     \* the value the running read found
    stray, touched

objVars == <<obj, val>>
controlVars ==
    <<kind, obj, val, desired, original, progress, stage, point, found, stray, touched>>

Objects == 1..MaxObjects
ControlPhases == {"planned", "snapshotted", "applied", "failed", "restored"}
ControlWrites == {"write", "restoreWrite"}
ControlStages == {"snap", "apply", "valid", "after", "restore", "restoreCheck"} \cup ControlWrites

OfProcess == kind \in {"nice", "placement"}

(* Slip: the start time is not compared, any process with the PID will do. *)
IdentifiedByName == obj # 0

(* group_for and read_proc_identity: the name still refers to the object of *)
(* the plan.                                                                *)
Identified == obj = 1

ControlInit ==
    /\ kind \in {"cgroup", "nice", "placement"}
    /\ obj = 1
    /\ val \in [Objects -> IF kind = "placement" THEN Discovered ELSE ControlValues]
    /\ desired \in IF kind = "placement" THEN Discovered ELSE ControlValues
    /\ original = NoValue
    /\ progress = "planned"
    /\ stage = "idle"
    /\ point = "check"
    /\ found = NoValue
    /\ stray = FALSE
    /\ touched = FALSE

ToStage(next) == stage' = next /\ point' = "check" /\ found' = NoValue
Answer(p) == progress' = p /\ stage' = "idle" /\ point' = "check" /\ found' = NoValue

ControlCall ==
    /\ stage = "idle"
    /\ \/ progress = "planned" /\ ToStage("snap")
       \/ progress = "snapshotted" /\ ToStage("apply")
       \/ progress = "applied" /\ ToStage("restore")
    /\ UNCHANGED <<objVars, desired, original, progress, stray, touched>>

(* Any error ends the call as it is: apply fails, restore may be repeated. *)
ControlError ==
    Answer(IF stage \in {"apply", "valid", "write", "after"} THEN "failed" ELSE progress)

ControlFails ==
    /\ stage # "idle"
    /\ ControlError
    /\ UNCHANGED <<objVars, desired, original, stray, touched>>

-----------------------------------------------------------------------------
(* Reading: read_cgroup_node, read_process, read_process_cgroup *)

Reading == stage \notin ControlWrites \cup {"idle", "valid"}

(* group_for, or the first read_proc_identity. *)
ReadCheck ==
    /\ Reading /\ point = "check"
    /\ Identified
    /\ point' = "access"
    /\ touched' = FALSE
    /\ UNCHANGED <<objVars, desired, original, progress, stage, found, stray>>

(* The value behind the name.  A process in a cgroup that was not           *)
(* discovered cannot be read.                                               *)
ReadAccess ==
    /\ Reading /\ point = "access"
    /\ obj # 0
    /\ kind = "placement" => val[obj] \in Discovered
    /\ found' = val[obj]
    /\ point' = IF OfProcess THEN "recheck" ELSE "done"
    /\ UNCHANGED <<objVars, desired, original, progress, stage, stray, touched>>

(* read_proc_identity once more: the PID was not recycled meanwhile. *)
ReadRecheck ==
    /\ Reading /\ point = "recheck"
    /\ Identified
    /\ point' = "done"
    /\ UNCHANGED <<objVars, desired, original, progress, stage, found, stray, touched>>

-----------------------------------------------------------------------------
(* snapshot_internal: the plan's precondition is what is captured here; a   *)
(* value that is already the desired one is refused.                        *)
OriginalTaken ==
    /\ stage = "snap" /\ point = "done"
    /\ IF found = desired
       THEN Answer(progress) /\ UNCHANGED original
       ELSE Answer("snapshotted") /\ original' = found
    /\ UNCHANGED <<objVars, desired, stray, touched>>

(* apply_internal: the precondition, then validate_desired. *)
ControlApplyChecked ==
    /\ stage = "apply" /\ point = "done"
    /\ IF found = original THEN ToStage("valid") /\ UNCHANGED progress ELSE ControlError
    /\ UNCHANGED <<objVars, desired, original, stray, touched>>

(* validate_desired: controller, control file and process are there; any of *)
(* them missing is Fails.                                                   *)
ControlValidated ==
    /\ stage = "valid"
    /\ Identified
    /\ ToStage("write")
    /\ UNCHANGED <<objVars, desired, original, progress, stray, touched>>

(* What write_mutation writes.  A placement goes to the cgroup the mutation *)
(* names, whatever typed value the caller passes.                           *)
Written == IF stage = "write" \/ kind = "placement" THEN desired ELSE original

(* write_mutation: group_for or read_proc_identity first. *)
WriteCheck ==
    /\ stage \in ControlWrites /\ point = "check"
    /\ Identified
    /\ point' = "access"
    /\ UNCHANGED <<objVars, desired, original, progress, stage, found, stray, touched>>

(* The write itself goes to whatever the name refers to by then. *)
WriteAccess ==
    /\ stage \in ControlWrites /\ point = "access"
    /\ obj # 0
    /\ val' = [val EXCEPT ![obj] = Written]
    /\ stray' = (stray \/ obj # 1)
    /\ \/ point' = (IF OfProcess THEN "recheck" ELSE "done") /\ UNCHANGED <<progress, stage, found>>
       \/ ControlError
    /\ UNCHANGED <<obj, desired, original, touched>>

(* read_proc_identity after the write. *)
WriteRecheck ==
    /\ stage \in ControlWrites /\ point = "recheck"
    /\ Identified
    /\ point' = "done"
    /\ UNCHANGED <<objVars, desired, original, progress, stage, found, stray, touched>>

ControlWriteDone ==
    /\ stage \in ControlWrites /\ point = "done"
    /\ ToStage(IF stage = "write" THEN "after" ELSE "restoreCheck")
    /\ UNCHANGED <<objVars, desired, original, progress, stray, touched>>

(* Slip: the readback is not compared. *)
ControlReadBackUnchecked ==
    /\ stage = "after" /\ point = "done"
    /\ Answer("applied")
    /\ UNCHANGED <<objVars, desired, original, stray, touched>>

(* apply_internal: the readback decides about the receipt. *)
ControlReadBack ==
    /\ stage = "after" /\ point = "done"
    /\ IF found = desired THEN Answer("applied") ELSE ControlError
    /\ UNCHANGED <<objVars, desired, original, stray, touched>>

(* restore_internal: ownership, the write, the readback. *)
ControlRestoreChecked ==
    /\ stage = "restore" /\ point = "done"
    /\ IF found = desired THEN ToStage("restoreWrite") /\ UNCHANGED progress ELSE ControlError
    /\ UNCHANGED <<objVars, desired, original, stray, touched>>

ControlRestoreProven ==
    /\ stage = "restoreCheck" /\ point = "done"
    /\ IF found = original THEN Answer("restored") ELSE ControlError
    /\ UNCHANGED <<objVars, desired, original, stray, touched>>

-----------------------------------------------------------------------------
(* Others write the value, and the object goes away or is replaced.  The    *)
(* object of the plan does not come back.                                   *)
OthersSet ==
    /\ Interference
    /\ obj # 0
    /\ \E v \in ControlValues : val' = [val EXCEPT ![obj] = v]
    /\ touched' = TRUE
    /\ UNCHANGED <<obj, desired, original, progress, stage, point, found, stray>>

OthersReplace ==
    /\ Interference
    /\ \E g \in {0} \cup Objects : g # obj /\ g # 1 /\ obj' = g
    /\ touched' = TRUE
    /\ UNCHANGED <<val, desired, original, progress, stage, point, found, stray>>

ControlNext ==
    /\ UNCHANGED kind
    /\ \/ ControlCall \/ ControlFails
       \/ ReadCheck \/ ReadAccess \/ ReadRecheck
       \/ OriginalTaken \/ ControlApplyChecked \/ ControlValidated
       \/ WriteCheck \/ WriteAccess \/ WriteRecheck \/ ControlWriteDone
       \/ ControlReadBack \/ ControlRestoreChecked \/ ControlRestoreProven
       \/ OthersSet \/ OthersReplace

ControlSpec == ControlInit /\ [][ControlNext]_controlVars

-----------------------------------------------------------------------------
(* Type invariant of the workload backend's calls. *)
ControlTypeOK ==
    /\ kind \in {"cgroup", "nice", "placement"}
    /\ obj \in {0} \cup Objects
    /\ val \in [Objects -> ControlValues]
    /\ desired \in ControlValues
    /\ original \in ControlValues \cup {NoValue}
    /\ progress \in ControlPhases
    /\ stage \in ControlStages \cup {"idle"}
    /\ point \in {"check", "access", "recheck", "done"}
    /\ found \in ControlValues \cup {NoValue}
    /\ stray \in BOOLEAN /\ touched \in BOOLEAN

(* A receipt of apply or restore describes the host: unless others changed  *)
(* something since the final readback began, the planned object holds the   *)
(* desired value (or again the original) when the receipt is given.         *)
TruthfulReceipt ==
    progress' # progress /\ ~touched' =>
        /\ progress' = "applied" => obj' = 1 /\ val'[1] = desired
        /\ progress' = "restored" => obj' = 1 /\ val'[1] = original

(* apply_internal and restore_internal give truthful receipts only, for     *)
(* every kind of control.                                                   *)
ReceiptsAreTruthful == [][TruthfulReceipt]_controlVars

(* A write that landed on another cgroup or another process is not answered *)
(* with a receipt.                                                          *)
ReceiptHitsTarget ==
    progress' # progress /\ progress' \in {"applied", "restored"} => ~stray'

(* The identity checks of write_mutation and of the readback around the     *)
(* accesses notice every replaced cgroup and every recycled PID.            *)
ReceiptsHitTarget == [][ReceiptHitsTarget]_controlVars

(* SAFETY.md, 4.2: restore of a value the session still owns writes the     *)
(* original, which its readback then finds.                                 *)
RestoreWritesPreimage ==
    ~Interference /\ stage = "restoreCheck" /\ point = "done" => found = original
=============================================================================
