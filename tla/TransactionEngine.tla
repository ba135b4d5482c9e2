------------------------- MODULE TransactionEngine -------------------------
(***************************************************************************)
(* The transaction engine of sysboost-platform/src/transaction.rs:         *)
(* prepare, abort_prepared, apply, restore and recover_unfinished, with    *)
(* every journal write and every backend call a step of its own, so that   *)
(* crashes, failing journal writes and other writers of the same targets   *)
(* interleave between any two of them.                                     *)
(*                                                                         *)
(* One coordinator runs (the exclusive lock admits one; see SessionLock).  *)
(* disk is the state directory, mem the SessionRecord the running call     *)
(* holds, value the tuned targets of the host.  lost is a history          *)
(* variable: the value the session's own write replaced on a target, while *)
(* that write is still in place.                                           *)
(*                                                                         *)
(* Faults (crash, failing store, backend or clock, other writers) happen   *)
(* at any time until quiet becomes TRUE; quiet never falls back and only   *)
(* serves to state what must happen once the faults stop.                  *)
(***************************************************************************)
EXTENDS SessionRecord, FiniteSets

CONSTANTS
    Sessions,        \* session identifiers the id source can draw
    NoSession, NoRecord, NoValue,
    ApplyOutcomes,   \* what the configured MutationBackend::apply can do
    OtherWriters     \* whether anything else writes the targets

ASSUME OutcomesAssumption ==
    ApplyOutcomes \subseteq {"receipt", "refused", "unknown", "leftover", "unbound", "misnamed"}
ASSUME NullsAssumption ==
    /\ NoSession \notin Sessions
    /\ NoRecord \notin Record
    /\ NoValue \notin Values
ASSUME OtherWritersAssumption == OtherWriters \in BOOLEAN

(* CpuBackend: refuses, answers with a bound receipt, or reports an unknown *)
(* result after a write it could not undo.                                  *)
CpuOutcomes == {"receipt", "refused", "unknown"}

VARIABLES
    disk,       \* FileStateStore: one record per session file
    mem,        \* the record the running call works on
    cur,        \* the session of the running call
    pc,         \* where the running call is
    idx,        \* the operation the running call is at
    failed,     \* restore_record: failures is not empty
    uncertain,  \* restore_record: uncertain
    active,     \* TransactionEngine.active
    snaps,      \* prepare: originals captured so far
    value,      \* the host's targets
    lost,       \* history: what the session's write in place replaced
    quiet       \* no fault happens any more

callVars == <<mem, cur, pc, idx, failed, uncertain, snaps>>
vars == <<disk, mem, cur, pc, idx, failed, uncertain, active, snaps, value,
          lost, quiet>>

NoSnaps == [i \in Ops |-> Desired]

PrepareSteps == {"snapshot", "create"}
ApplySteps == {"applyOp", "applyBackend", "applyRecord", "applyVerify",
               "applyVerified", "failPersist", "activate", "rollback"}
RestoreSteps == {"restoreOp", "restoreVerify", "restoreBackend",
                 "restoreRecord", "restoreFailPersist", "conclude"}

-----------------------------------------------------------------------------
(* load_unfinished *)
Unfinished == {s \in Sessions : disk[s] # NoRecord /\ disk[s].state # "Restored"}

(* SessionStateStore::replace of session s.  A record that encode() refuses *)
(* is never written; an error may come before the rename or after it, when  *)
(* the directory sync fails with the new record already in place.           *)
Replace(s, rec, ok) ==
    \/ /\ ok
       /\ Serializable(rec)
       /\ disk' = [disk EXCEPT ![s] = rec]
    \/ /\ ~ok
       /\ ~quiet \/ ~Serializable(rec)
       /\ disk' = disk
    \/ /\ ~ok
       /\ ~quiet
       /\ Serializable(rec)
       /\ disk' = [disk EXCEPT ![s] = rec]

(* Every return of an engine call, and the loss of its locals in a crash. *)
EndCall ==
    /\ mem' = NoRecord
    /\ cur' = NoSession
    /\ pc' = "idle"
    /\ idx' = 0
    /\ failed' = FALSE
    /\ uncertain' = FALSE
    /\ snaps' = NoSnaps

Init ==
    /\ disk = [s \in Sessions |-> NoRecord]
    /\ mem = NoRecord
    /\ cur = NoSession
    /\ pc = "idle"
    /\ idx = 0
    /\ failed = FALSE
    /\ uncertain = FALSE
    /\ active = NoSession
    /\ snaps = NoSnaps
    /\ value \in [Ops -> Values]
    /\ lost = [i \in Ops |-> NoValue]
    /\ quiet = FALSE

-----------------------------------------------------------------------------
(* prepare *)

(* Slip: the check of load_unfinished is forgotten. *)
PrepareBeginUnchecked ==
    /\ pc = "idle"
    /\ active = NoSession
    /\ pc' = "snapshot"
    /\ idx' = 1
    /\ UNCHANGED <<disk, mem, cur, failed, uncertain, active, snaps, value,
                   lost, quiet>>

(* No lease is held, the plan is valid and nothing unfinished is on disk. *)
PrepareBegin ==
    /\ pc = "idle"
    /\ active = NoSession
    /\ Unfinished = {}
    /\ pc' = "snapshot"
    /\ idx' = 1
    /\ UNCHANGED <<disk, mem, cur, failed, uncertain, active, snaps, value,
                   lost, quiet>>

(* One backend snapshot.  A target that already has the desired value is    *)
(* refused by the backend (and never planned).                              *)
SnapshotOp ==
    /\ pc = "snapshot"
    /\ value[idx] # Desired
    /\ snaps' = [snaps EXCEPT ![idx] = value[idx]]
    /\ IF idx = NumOps
       THEN pc' = "create" /\ idx' = idx
       ELSE pc' = pc /\ idx' = idx + 1
    /\ UNCHANGED <<disk, mem, cur, failed, uncertain, active, value, lost, quiet>>

(* A snapshot fails or differs from the planned precondition, or the store *)
(* fails before its rename: the guard is dropped.                          *)
PrepareFail ==
    /\ pc \in PrepareSteps
    /\ ~quiet \/ (pc = "snapshot" /\ value[idx] = Desired)
    /\ EndCall
    /\ UNCHANGED <<disk, active, value, lost, quiet>>

(* store.create under the first identifier that is free.  An error after    *)
(* the rename leaves the intent on disk and the engine without its lease.   *)
CreateIntent(s) ==
    /\ pc = "create"
    /\ disk[s] = NoRecord
    /\ disk' = [disk EXCEPT ![s] = NewRecord(snaps)]
    /\ \/ active' = s
       \/ ~quiet /\ active' = active
    /\ EndCall
    /\ UNCHANGED <<value, lost, quiet>>

(* Slip: any session of the lease can be aborted. *)
AbortPreparedUnchecked ==
    /\ pc = "idle"
    /\ active # NoSession
    /\ disk[active] # NoRecord
    /\ disk' = [disk EXCEPT ![active] = NoRecord]
    /\ active' = NoSession
    /\ UNCHANGED <<callVars, value, lost, quiet>>

(* abort_prepared.  When remove fails after the unlink the lease stays.     *)
AbortPrepared ==
    /\ pc = "idle"
    /\ active # NoSession
    /\ disk[active] # NoRecord
    /\ disk[active].state = "IntentDurable"
    /\ \A i \in Ops : disk[active].ops[i].state = "IntentRecorded"
    /\ disk' = [disk EXCEPT ![active] = NoRecord]
    /\ \/ active' = NoSession
       \/ ~quiet /\ active' = active
    /\ UNCHANGED <<callVars, value, lost, quiet>>

-----------------------------------------------------------------------------
(* apply *)

(* The session becomes Applying on disk before the first operation.        *)
ApplyBegin ==
    /\ pc = "idle"
    /\ active # NoSession
    /\ disk[active] # NoRecord
    /\ disk[active].state = "IntentDurable"
    /\ cur' = active
    /\ mem' = WithState(disk[active], "Applying")
    /\ \/ Replace(active, mem', TRUE) /\ pc' = "applyOp" /\ idx' = 1
       \/ Replace(active, mem', FALSE) /\ pc' = "rollback" /\ idx' = 0
    /\ UNCHANGED <<failed, uncertain, active, snaps, value, lost, quiet>>

(* An intermediate persist of the record rec of the running call: one       *)
(* program counter when it succeeds, another when it fails.                 *)
PersistThen(rec, okPc, errPc) ==
    /\ mem' = rec
    /\ \/ Replace(cur, rec, TRUE) /\ pc' = okPc
       \/ Replace(cur, rec, FALSE) /\ pc' = errPc

(* Slip: the backend is called before Applying is durable. *)
ApplyOpUnpersisted ==
    /\ pc = "applyOp"
    /\ mem' = WithOp(mem, idx, "Applying")
    /\ pc' = "applyBackend"
    /\ UNCHANGED <<disk, cur, idx, failed, uncertain, active, snaps, value,
                   lost, quiet>>

(* The operation is Applying on disk before the backend may write.  Every   *)
(* operation of the loop is at IntentRecorded (ApplyPrefix), so the checks  *)
(* for other states never fire.                                             *)
ApplyOp ==
    /\ pc = "applyOp"
    /\ PersistThen(WithOp(mem, idx, "Applying"), "applyBackend", "rollback")
    /\ UNCHANGED <<cur, idx, failed, uncertain, active, snaps, value, lost, quiet>>

(* The backend wrote the desired value over an unchanged target and read it *)
(* back.                                                                    *)
BackendApplied ==
    /\ pc = "applyBackend"
    /\ "receipt" \in ApplyOutcomes
    /\ value[idx] = mem.ops[idx].snap
    /\ value' = [value EXCEPT ![idx] = Desired]
    /\ lost' = [lost EXCEPT ![idx] = value[idx]]
    /\ mem' = RecordApply(mem, idx, "bound")
    /\ pc' = "applyRecord"
    /\ UNCHANGED <<disk, cur, idx, failed, uncertain, active, snaps, quiet>>

(* An error with a known outcome: nothing is in place.  A changed target is *)
(* always refused.                                                          *)
BackendRefused ==
    /\ pc = "applyBackend"
    /\ "refused" \in ApplyOutcomes
    /\ ~quiet \/ value[idx] # mem.ops[idx].snap
    /\ mem' = FailOperation(mem, idx)
    /\ pc' = "failPersist"
    /\ UNCHANGED <<disk, cur, idx, failed, uncertain, active, snaps, value,
                   lost, quiet>>

(* An error with Retryability::Unknown: a write was tried, the target may   *)
(* hold anything, and the operation stays Applying without a receipt.       *)
BackendUnknown ==
    /\ pc = "applyBackend"
    /\ "unknown" \in ApplyOutcomes
    /\ ~quiet
    /\ value[idx] = mem.ops[idx].snap
    /\ \E v \in Values :
          /\ value' = [value EXCEPT ![idx] = v]
          /\ lost' = [lost EXCEPT ![idx] =
                         IF v = value[idx] THEN NoValue ELSE value[idx]]
    /\ pc' = "failPersist"
    /\ UNCHANGED <<disk, mem, cur, idx, failed, uncertain, active, snaps, quiet>>

(* WorkloadBackend: the write took effect, its readback failed, and the     *)
(* error says Never, which the engine takes for a known outcome.            *)
BackendLeftover ==
    /\ pc = "applyBackend"
    /\ "leftover" \in ApplyOutcomes
    /\ ~quiet
    /\ value[idx] = mem.ops[idx].snap
    /\ value' = [value EXCEPT ![idx] = Desired]
    /\ lost' = [lost EXCEPT ![idx] = value[idx]]
    /\ mem' = FailOperation(mem, idx)
    /\ pc' = "failPersist"
    /\ UNCHANGED <<disk, cur, idx, failed, uncertain, active, snaps, quiet>>

(* A receipt that is not bound to the planned precondition: the backend     *)
(* wrote over a target that had changed.  It is attached, then failed.      *)
BackendUnbound ==
    /\ pc = "applyBackend"
    /\ "unbound" \in ApplyOutcomes
    /\ value[idx] \notin {Desired, mem.ops[idx].snap}
    /\ value' = [value EXCEPT ![idx] = Desired]
    /\ lost' = [lost EXCEPT ![idx] = value[idx]]
    /\ mem' = FailOperation(RecordApply(mem, idx, "unbound"), idx)
    /\ pc' = "failPersist"
    /\ UNCHANGED <<disk, cur, idx, failed, uncertain, active, snaps, quiet>>

(* A receipt that names another mutation: record_apply refuses it, and apply *)
(* returns at once, with the write in place and the lease held.             *)
BackendMisnamed ==
    /\ pc = "applyBackend"
    /\ "misnamed" \in ApplyOutcomes
    /\ ~quiet
    /\ value[idx] = mem.ops[idx].snap
    /\ value' = [value EXCEPT ![idx] = Desired]
    /\ lost' = [lost EXCEPT ![idx] = value[idx]]
    /\ EndCall
    /\ UNCHANGED <<disk, active, quiet>>

(* The receipt becomes durable. *)
ApplyRecord ==
    /\ pc = "applyRecord"
    /\ PersistThen(mem, "applyVerify", "rollback")
    /\ UNCHANGED <<cur, idx, failed, uncertain, active, snaps, value, lost, quiet>>

(* Slip: a mismatch is recorded but apply goes on. *)
ApplyVerifyIgnored ==
    /\ pc = "applyVerify"
    /\ \E matched \in {value[idx] = Desired} :
          mem' = RecordVerification(mem, idx, matched)
    /\ pc' = "applyVerified"
    /\ UNCHANGED <<disk, cur, idx, failed, uncertain, active, snaps, value,
                   lost, quiet>>

(* backend.verify against the ownership fingerprint. *)
ApplyVerify ==
    /\ pc = "applyVerify"
    /\ \/ /\ value[idx] = Desired
          /\ mem' = RecordVerification(mem, idx, TRUE)
          /\ pc' = "applyVerified"
       \/ /\ value[idx] # Desired \/ ~quiet
          /\ mem' = RecordVerification(mem, idx, FALSE)
          /\ pc' = "failPersist"
    /\ UNCHANGED <<disk, cur, idx, failed, uncertain, active, snaps, value,
                   lost, quiet>>

(* The matched readback becomes durable; on to the next operation. *)
ApplyVerified ==
    /\ pc = "applyVerified"
    /\ PersistThen(mem, IF idx = NumOps THEN "activate" ELSE "applyOp", "rollback")
    /\ idx' = IF pc' = "applyOp" THEN idx + 1 ELSE idx
    /\ UNCHANGED <<cur, failed, uncertain, active, snaps, value, lost, quiet>>

(* The `let _ = persist` of a failed operation: its error is dropped. *)
FailPersist ==
    /\ pc = "failPersist"
    /\ PersistThen(mem, "rollback", "rollback")
    /\ UNCHANGED <<cur, idx, failed, uncertain, active, snaps, value, lost, quiet>>

(* The session becomes Active on disk and apply returns. *)
Activate ==
    /\ pc = "activate"
    /\ Replace(cur, WithState(mem, "Active"), TRUE)
    /\ EndCall
    /\ UNCHANGED <<active, value, lost, quiet>>

(* The clock fails: apply returns an error at once, lease held. *)
ActivateClockError ==
    /\ pc = "activate"
    /\ ~quiet
    /\ EndCall
    /\ UNCHANGED <<disk, active, value, lost, quiet>>

(* The Active record cannot be persisted. *)
ActivateFail ==
    /\ pc = "activate"
    /\ mem' = WithState(mem, "Active")
    /\ Replace(cur, mem', FALSE)
    /\ pc' = "rollback"
    /\ UNCHANGED <<cur, idx, failed, uncertain, active, snaps, value, lost, quiet>>

(* rollback_after_failure up to its call of restore_record; a failing      *)
(* persist is recorded and otherwise ignored.                              *)
RollbackAfterFailure ==
    /\ pc = "rollback"
    /\ PersistThen(WithState(mem, IF mem.state = "Active" THEN "Restoring"
                                                          ELSE "RollingBack"),
                   "restoreOp", "restoreOp")
    /\ idx' = NumOps
    /\ UNCHANGED <<cur, failed, uncertain, active, snaps, value, lost, quiet>>

-----------------------------------------------------------------------------
(* restore and recover_unfinished *)

(* Slip: a degraded session is restored without leaving Degraded. *)
RestoreStateOfDegraded(rec) ==
    CASE rec.state = "Active" -> WithState(rec, "Restoring")
      [] rec.state = "RecoveryPending" -> WithState(rec, "Restoring")
      [] rec.state \in {"IntentDurable", "Applying"} -> WithState(rec, "RollingBack")
      [] OTHER -> rec

(* The session state prepare_restore_state moves to. *)
RestoreState(rec) ==
    CASE rec.state = "Active" -> WithState(rec, "Restoring")
      [] rec.state = "Degraded" ->
            WithState(WithState(rec, "RecoveryPending"), "Restoring")
      [] rec.state = "RecoveryPending" -> WithState(rec, "Restoring")
      [] rec.state \in {"IntentDurable", "Applying"} -> WithState(rec, "RollingBack")
      [] OTHER -> rec

StartRestore(s) ==
    /\ mem' = RestoreState(disk[s])
    /\ Replace(s, mem', TRUE)
    /\ cur' = s
    /\ pc' = "restoreOp"
    /\ idx' = NumOps
    /\ UNCHANGED <<failed, uncertain, active, snaps, value, lost, quiet>>

(* restore: the lease is held and the durable session is unfinished. *)
RestoreBegin ==
    /\ pc = "idle"
    /\ active \in Unfinished
    /\ StartRestore(active)

(* Its prepare_restore_state fails and restore returns the error. *)
RestoreBeginFail ==
    /\ pc = "idle"
    /\ active \in Unfinished
    /\ Replace(active, RestoreState(disk[active]), FALSE)
    /\ UNCHANGED <<callVars, active, value, lost, quiet>>

(* restore or apply finds the held session durably Restored. *)
ReleaseIfRestored ==
    /\ pc = "idle"
    /\ active # NoSession
    /\ disk[active] # NoRecord
    /\ disk[active].state = "Restored"
    /\ active' = NoSession
    /\ UNCHANGED <<disk, callVars, value, lost, quiet>>

(* recover_unfinished.  There is at most one unfinished session             *)
(* (AtMostOneUnfinished), so its loop runs once.                            *)
RecoverBegin(s) ==
    /\ pc = "idle"
    /\ active = NoSession
    /\ s \in Unfinished
    /\ StartRestore(s)

(* prepare_restore_state fails (clock or store): the lease is taken.        *)
RecoverBeginFail(s) ==
    /\ pc = "idle"
    /\ active = NoSession
    /\ s \in Unfinished
    /\ Replace(s, RestoreState(disk[s]), FALSE)
    /\ active' = s
    /\ UNCHANGED <<callVars, value, lost, quiet>>

-----------------------------------------------------------------------------
(* restore_record: the operations in reverse order *)

(* The operation the loop is at. *)
Op == mem.ops[idx]

(* continue: the previous operation, or the end of the loop. *)
NextRestore ==
    /\ idx' = idx - 1
    /\ pc' = IF idx = 1 THEN "conclude" ELSE "restoreOp"

(* Slip: a failed operation is taken for one that never applied. *)
RestoreSkipFailed ==
    /\ pc = "restoreOp"
    /\ Op.state \in {"Restored", "IntentRecorded", "Failed"}
    /\ NextRestore
    /\ UNCHANGED <<disk, mem, cur, failed, uncertain, active, snaps, value,
                   lost, quiet>>

(* Already restored, or never applied. *)
RestoreSkip ==
    /\ pc = "restoreOp"
    /\ \/ Op.state = "Restored"
       \/ Op.receipt = "none" /\ Op.state # "Applying"
    /\ NextRestore
    /\ UNCHANGED <<disk, mem, cur, failed, uncertain, active, snaps, value,
                   lost, quiet>>

(* No receipt but Applying: it may have been applied.  No edge to Restoring:  *)
(* begin_restore_operation refuses.                                           *)
RestoreUncertain ==
    /\ pc = "restoreOp"
    /\ \/ Op.receipt = "none" /\ Op.state = "Applying"
       \/ /\ Op.receipt # "none"
          /\ Op.state # "Restored"
          /\ ~CanBeginRestore(Op)
    /\ failed' = TRUE
    /\ uncertain' = TRUE
    /\ NextRestore
    /\ UNCHANGED <<disk, mem, cur, active, snaps, value, lost, quiet>>

(* Restoring is persisted; a failing persist is noted but does not stop it. *)
RestoreOpBegin ==
    /\ pc = "restoreOp"
    /\ Op.receipt # "none"
    /\ CanBeginRestore(Op)
    /\ mem' = BeginRestore(mem, idx)
    /\ \/ Replace(cur, mem', TRUE) /\ UNCHANGED <<failed, uncertain>>
       \/ Replace(cur, mem', FALSE) /\ failed' = TRUE /\ uncertain' = TRUE
    /\ pc' = "restoreVerify"
    /\ UNCHANGED <<cur, idx, active, snaps, value, lost, quiet>>

(* The target already has its original value. *)
RestoreFound ==
    /\ pc = "restoreVerify"
    /\ value[idx] = Op.snap
    /\ mem' = RecordRestore(mem, idx)
    /\ pc' = "restoreRecord"
    /\ UNCHANGED <<disk, cur, idx, failed, uncertain, active, snaps, value,
                   lost, quiet>>

(* The target has the session's value. *)
RestoreOwned ==
    /\ pc = "restoreVerify"
    /\ value[idx] = Desired
    /\ pc' = "restoreBackend"
    /\ UNCHANGED <<disk, mem, cur, idx, failed, uncertain, active, snaps,
                   value, lost, quiet>>

(* verify fails, or the target has some third value (RestoreConflict). *)
RestoreRefused ==
    /\ pc = "restoreVerify"
    /\ ~quiet \/ value[idx] \notin {Desired, Op.snap}
    /\ mem' = FailRestore(mem, idx)
    /\ failed' = TRUE
    /\ pc' = "restoreFailPersist"
    /\ UNCHANGED <<disk, cur, idx, uncertain, active, snaps, value, lost, quiet>>

(* backend.restore compares again, writes the original and reads it back. *)
BackendRestored ==
    /\ pc = "restoreBackend"
    /\ value[idx] = Desired
    /\ value' = [value EXCEPT ![idx] = Op.snap]
    /\ lost' = [lost EXCEPT ![idx] = NoValue]
    /\ mem' = RecordRestore(mem, idx)
    /\ pc' = "restoreRecord"
    /\ UNCHANGED <<disk, cur, idx, failed, uncertain, active, snaps, quiet>>

(* backend.restore fails: before a write (always, if the target changed     *)
(* since verify), or after one that put in place the original or a part of  *)
(* it.                                                                      *)
BackendRestoreFailed ==
    /\ pc = "restoreBackend"
    /\ \/ /\ ~quiet \/ value[idx] # Desired
          /\ UNCHANGED <<value, lost>>
       \/ /\ ~quiet
          /\ value[idx] = Desired
          /\ \E v \in Values \ {Desired} :
                /\ value' = [value EXCEPT ![idx] = v]
                /\ lost' = [lost EXCEPT ![idx] =
                               IF v = Op.snap THEN NoValue ELSE @]
    /\ mem' = FailRestore(mem, idx)
    /\ failed' = TRUE
    /\ pc' = "restoreFailPersist"
    /\ UNCHANGED <<disk, cur, idx, uncertain, active, snaps, quiet>>

(* The restore receipt becomes durable. *)
RestoreRecord ==
    /\ pc = "restoreRecord"
    /\ \/ Replace(cur, mem, TRUE) /\ UNCHANGED <<failed, uncertain>>
       \/ Replace(cur, mem, FALSE) /\ failed' = TRUE /\ uncertain' = TRUE
    /\ NextRestore
    /\ UNCHANGED <<mem, cur, active, snaps, value, lost, quiet>>

(* The `let _ = persist` of a failed restore. *)
RestoreFailPersist ==
    /\ pc = "restoreFailPersist"
    /\ \E ok \in BOOLEAN : Replace(cur, mem, ok)
    /\ NextRestore
    /\ UNCHANGED <<mem, cur, failed, uncertain, active, snaps, value, lost, quiet>>

(* Everything is proven: Restored becomes durable and the lease is dropped. *)
(* When that persist fails the lease stays (restore) or is taken (recover). *)
Proven == ~failed /\ ~uncertain /\ RestorationProven(mem)

ConcludeRestored ==
    /\ pc = "conclude"
    /\ Proven
    /\ \/ Replace(cur, WithState(mem, "Restored"), TRUE) /\ active' = NoSession
       \/ Replace(cur, WithState(mem, "Restored"), FALSE) /\ active' = cur
    /\ EndCall
    /\ UNCHANGED <<value, lost, quiet>>

(* Degraded, and RecoveryPending when uncertain; the lease stays. *)
DegradedRecord(rec) ==
    LET degraded == WithState(rec, "Degraded")
    IN  IF uncertain THEN WithState(degraded, "RecoveryPending") ELSE degraded

(* Slip: the lease is dropped although originals remain unproven. *)
ConcludeDegradedReleased ==
    /\ pc = "conclude"
    /\ ~Proven
    /\ \E ok \in BOOLEAN : Replace(cur, DegradedRecord(mem), ok)
    /\ active' = NoSession
    /\ EndCall
    /\ UNCHANGED <<value, lost, quiet>>

ConcludeDegraded ==
    /\ pc = "conclude"
    /\ ~Proven
    /\ \E ok \in BOOLEAN : Replace(cur, DegradedRecord(mem), ok)
    /\ active' = cur
    /\ EndCall
    /\ UNCHANGED <<value, lost, quiet>>

-----------------------------------------------------------------------------
(* The environment *)

(* The process stops; the stale lock is reclaimed by its successor. *)
Crash ==
    /\ ~quiet
    /\ EndCall
    /\ active' = NoSession
    /\ UNCHANGED <<disk, value, lost, quiet>>

(* Another program writes a target. *)
OtherWrite ==
    /\ OtherWriters
    /\ ~quiet
    /\ \E i \in Ops : \E v \in Values \ {value[i]} :
          /\ value' = [value EXCEPT ![i] = v]
          /\ lost' = [lost EXCEPT ![i] = NoValue]
    /\ UNCHANGED <<disk, callVars, active, quiet>>

FaultsStop ==
    /\ ~quiet
    /\ quiet' = TRUE
    /\ UNCHANGED <<disk, callVars, active, value, lost>>

PrepareStep == SnapshotOp \/ PrepareFail \/ \E s \in Sessions : CreateIntent(s)

ApplyStep ==
    \/ ApplyOp \/ BackendApplied \/ BackendRefused \/ BackendUnknown
    \/ BackendLeftover \/ BackendUnbound \/ BackendMisnamed \/ ApplyRecord
    \/ ApplyVerify \/ ApplyVerified \/ FailPersist \/ Activate \/ ActivateClockError
    \/ ActivateFail \/ RollbackAfterFailure

RestoreStep ==
    \/ RestoreSkip \/ RestoreUncertain \/ RestoreOpBegin \/ RestoreFound
    \/ RestoreOwned \/ RestoreRefused \/ BackendRestored
    \/ BackendRestoreFailed \/ RestoreRecord \/ RestoreFailPersist
    \/ ConcludeRestored \/ ConcludeDegraded

(* A step of the call that runs. *)
CallStep == PrepareStep \/ ApplyStep \/ RestoreStep

(* A call that brings the targets back. *)
RestoreCall ==
    \/ RestoreBegin \/ RestoreBeginFail \/ ReleaseIfRestored
    \/ \E s \in Sessions : RecoverBegin(s) \/ RecoverBeginFail(s)

Next ==
    \/ PrepareBegin \/ AbortPrepared \/ ApplyBegin
    \/ RestoreCall \/ CallStep
    \/ Crash \/ OtherWrite \/ FaultsStop

Spec == Init /\ [][Next]_vars

(* A running call goes on, and the service keeps calling restore or        *)
(* recover_unfinished while a session is unfinished.                       *)
FairSpec == Spec /\ WF_vars(CallStep) /\ WF_vars(RestoreCall)

-----------------------------------------------------------------------------
(* Properties *)

TypeOK ==
    /\ disk \in [Sessions -> Record \cup {NoRecord}]
    /\ pc \in {"idle"} \cup PrepareSteps \cup ApplySteps \cup RestoreSteps
    /\ IF pc \in ApplySteps \cup RestoreSteps
       THEN mem \in Record /\ cur \in Sessions
       ELSE mem = NoRecord /\ cur = NoSession
    /\ idx \in IF pc \in {"idle", "rollback", "conclude"} THEN 0..NumOps ELSE Ops
    /\ failed \in BOOLEAN
    /\ uncertain \in BOOLEAN
    /\ active \in Sessions \cup {NoSession}
    /\ snaps \in [Ops -> Values]
    /\ value \in [Ops -> Values]
    /\ lost \in [Ops -> Values \cup {NoValue}]
    /\ quiet \in BOOLEAN

(* An operation whose write may still be in place. *)
Owed(op) == op.state # "Restored" /\ (op.receipt # "none" \/ op.state = "Applying")

(* Crash safety of the journal.  Whatever crashed or failed, and between    *)
(* any two steps: while a write of a session is in place on a target, an    *)
(* unfinished record on disk owes that operation its restoration and holds  *)
(* the very value the write replaced.  (apply persists Applying before      *)
(* backend.apply, and restore_record drops nothing before readback.)        *)
JournalCoversHost ==
    \A i \in Ops : lost[i] # NoValue =>
        \E s \in Unfinished :
            Owed(disk[s].ops[i]) /\ disk[s].ops[i].snap = lost[i]

(* prepare admits a session only when no other is unfinished, also when a   *)
(* store error or a crash left an intent without a lease behind.            *)
AtMostOneUnfinished ==
    \A s, t \in Unfinished : s = t

(* encode() never refuses a record the engine wants to persist: no legal    *)
(* sequence of record operations leaves the shapes the codec accepts.       *)
RecordsSerializable ==
    mem # NoRecord => Serializable(mem)

(* apply goes to the next operation only after the previous readback        *)
(* matched, durably: every durable record shows matched operations, then at *)
(* most one that was begun.                                                 *)
AppliesInOrder ==
    \A s \in Sessions : disk[s] # NoRecord =>
        \A i, j \in Ops :
            i < j /\ disk[s].ops[j].state # "IntentRecorded" =>
                disk[s].ops[i].verif = "matched"

(* When restore_record writes a target back, every later operation whose    *)
(* write is still in place has been tried before and could not be restored. *)
ReverseRestoreOrder ==
    pc = "restoreBackend" =>
        \A j \in Ops : j > idx /\ lost[j] # NoValue =>
            mem.ops[j].state \in {"RestoreFailed", "Applying", "Restoring"}

(* A session that is durably Restored is never reopened or deleted: not by  *)
(* a retried restore, a recovery or a later session.                        *)
RestoredIsFinal ==
    [][\A s \in Sessions :
          disk[s] # NoRecord /\ disk[s].state = "Restored" => disk'[s] = disk[s]]_vars

(* The lease is given up (other than by a crash) only when no write of the  *)
(* session is left on the host and nothing unfinished on disk.              *)
LeaseReleasedClean ==
    [][active # NoSession /\ active' = NoSession /\ ~Crash =>
          /\ \A i \in Ops : lost'[i] = NoValue
          /\ Unfinished' = {}]_vars

(* Why an unfinished session of an idle engine may stay unfinished: an      *)
(* apply that left no receipt, or a target that has neither the session's   *)
(* nor the original value.                                                  *)
Ambiguous(rec) ==
    \E i \in Ops : rec.ops[i].receipt = "none" /\ rec.ops[i].state = "Applying"
Conflicting(rec) ==
    \E i \in Ops : NeedsRestore(rec.ops[i])
                   /\ value[i] \notin {Desired, rec.ops[i].snap}
CaughtRestoring(rec) ==
    \E i \in Ops : rec.ops[i].state = "Restoring"

Settled(s) == disk[s] = NoRecord \/ disk[s].state = "Restored"

(* Once the faults stop, an unfinished session is restored (or its intent   *)
(* aborted) by the calls that follow, unless the engine is right to give up *)
(* or an operation was caught in Restoring (see RestoreIsRetryable).        *)
RecoveryConverges ==
    \A s \in Sessions :
        (quiet /\ ~Settled(s)) ~>
            \/ Settled(s)
            \/ /\ pc = "idle"
               /\ \/ Ambiguous(disk[s])
                  \/ Conflicting(disk[s])
                  \/ CaughtRestoring(disk[s])

(* "Rollback runs in reverse dependency order and is safe to retry": after  *)
(* the faults stop a retried restoration succeeds, except where the apply   *)
(* was ambiguous or the target changed outside.  The code refuses the       *)
(* transition Restoring -> Restoring, so it does not.                       *)
RestoreIsRetryable ==
    \A s \in Sessions :
        (quiet /\ ~Settled(s)) ~>
            \/ Settled(s)
            \/ pc = "idle" /\ (Ambiguous(disk[s]) \/ Conflicting(disk[s]))

(* "`Restored`: every original state is verified": a durably Restored       *)
(* session, and no unfinished one, means no write of a session in place.    *)
RestoredMeansOriginal ==
    Unfinished = {} => \A i \in Ops : lost[i] = NoValue

(* "`Active`: all intended applies are verified and the session is held":   *)
(* with no other writer, an idle engine that holds a durably Active session *)
(* has every target at its desired value.                                   *)
ActiveIsHeld ==
    (pc = "idle" /\ active \in Unfinished /\ disk[active].state = "Active")
        => \A i \in Ops : value[i] = Desired
=============================================================================
