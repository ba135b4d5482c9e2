---------------------- MODULE TransactionEngineProofs ----------------------
(***************************************************************************)
(* Proofs about TransactionEngine: for every backend type correctness, one *)
(* unfinished session at a time, restored sessions that stay restored and  *)
(* records in the order of the plan (that encode accepts, if receipts name *)
(* their target); for a backend with the outcomes of CpuBackend crash      *)
(* safety of the journal, the refinement of SessionLedger, what a step may *)
(* never do to a lease, and the reverse order of a restore.                *)
(***************************************************************************)
EXTENDS EngineRefinement, TLAPS

-----------------------------------------------------------------------------
(* The inductive invariant *)

Running == pc \in ApplySteps \cup RestoreSteps

(* The record owes every write that is in place. *)
Covers(rec) ==
    \A i \in Ops : lost[i] # NoValue =>
        Owed(rec.ops[i]) /\ rec.ops[i].snap = lost[i]

SameSnaps(r1, r2) == \A i \in Ops : r1.ops[i].snap = r2.ops[i].snap

Untouched(op) == op.state = "IntentRecorded" /\ op.receipt = "none"

(* What holds of the state directory between any two steps. *)
DiskInv ==
    /\ AtMostOneUnfinished
    /\ \A s \in Unfinished : Covers(disk[s])
    /\ Unfinished = {} => \A i \in Ops : lost[i] = NoValue
    /\ \A s \in Sessions : disk[s] # NoRecord =>
          \A i \in Ops : disk[s].ops[i].snap # Desired
    /\ \A s \in Sessions : disk[s] # NoRecord /\ disk[s].state = "IntentDurable" =>
          \A i \in Ops : Untouched(disk[s].ops[i])

(* The running call works on a record that covers the host as well and that *)
(* has the snapshots of the file.                                           *)
CallInv ==
    Running =>
        /\ cur \in Unfinished
        /\ SameSnaps(mem, disk[cur])
        /\ Covers(mem)
        /\ mem.state \notin {"IntentDurable", "Restored"}

(* What prepare has captured; it runs with nothing unfinished. *)
PrepareInv ==
    /\ pc \in PrepareSteps => Unfinished = {}
    /\ pc = "snapshot" => \A i \in Ops : i < idx => snaps[i] # Desired
    /\ pc = "create" => \A i \in Ops : snaps[i] # Desired

(* Where the apply loop is. *)
ApplyInv ==
    /\ pc = "applyOp" => \A i \in Ops : i >= idx => Untouched(mem.ops[i])
    /\ pc \in {"applyBackend", "applyRecord", "applyVerify", "applyVerified"} =>
          \A i \in Ops : i > idx => Untouched(mem.ops[i])
    /\ pc = "applyBackend" =>
          /\ disk[cur].ops[idx].state = "Applying"
          /\ mem.ops[idx].state = "Applying"
          /\ lost[idx] = NoValue
    /\ pc \in {"applyRecord", "applyVerify", "applyVerified"} =>
          mem.ops[idx].receipt = "bound" /\ mem.ops[idx].state # "Restored"

(* Where the restore loop is. *)
RestoreInv ==
    pc \in {"restoreVerify", "restoreBackend"} =>
        mem.ops[idx].receipt # "none" /\ mem.ops[idx].state = "Restoring"

(* A write in place is not the original. *)
LostInv == \A i \in Ops : lost[i] # NoValue => value[i] # lost[i]

IInv ==
    TypeOK /\ DiskInv /\ CallInv /\ PrepareInv /\ ApplyInv /\ RestoreInv /\ LostInv

-----------------------------------------------------------------------------
(* Lemmas about the operations of SessionRecord *)

(* Session::transition changes nothing but the session state. *)
LEMMA WithStateFacts ==
    ASSUME NEW rec \in Record, NEW next \in SessionState
    PROVE  /\ WithState(rec, next) \in Record
           /\ WithState(rec, next).ops = rec.ops
           /\ WithState(rec, next).state \in {next, rec.state}
           /\ SessionCanTransition(rec.state, next) => WithState(rec, next).state = next
BY DEF WithState, Record

(* OperationRecord::transition changes nothing but the state of its          *)
(* operation, and that only to the state asked for.                          *)
LEMMA WithOpFacts ==
    ASSUME NEW rec \in Record, NEW i \in Ops, NEW next \in OperationState
    PROVE  /\ WithOp(rec, i, next) \in Record
           /\ WithOp(rec, i, next).state = rec.state
           /\ \A j \in Ops \ {i} : WithOp(rec, i, next).ops[j] = rec.ops[j]
           /\ WithOp(rec, i, next).ops[i].snap = rec.ops[i].snap
           /\ WithOp(rec, i, next).ops[i].receipt = rec.ops[i].receipt
           /\ WithOp(rec, i, next).ops[i].state \in {next, rec.ops[i].state}
           /\ OpCanTransition(rec.ops[i].state, next)
                 => WithOp(rec, i, next).ops[i].state = next
<1>1. CASE OpCanTransition(rec.ops[i].state, next)
  <2>1. rec.ops \in [Ops -> OperationRecord] BY DEF Record
  <2>2. rec.ops[i] \in OperationRecord BY <2>1
  <2>3. WithOp(rec, i, next) = [rec EXCEPT !.ops[i].state = next]
    BY <1>1 DEF WithOp
  <2>4. [rec.ops[i] EXCEPT !.state = next] \in OperationRecord
    BY <2>2 DEF OperationRecord
  <2>5. [rec EXCEPT !.ops[i].state = next]
          = [rec EXCEPT !.ops = [rec.ops EXCEPT ![i] = [rec.ops[i] EXCEPT !.state = next]]]
    BY <2>1, <2>2 DEF Record
  <2> QED BY <2>1, <2>2, <2>3, <2>4, <2>5 DEF Record, OperationRecord
<1>2. CASE ~OpCanTransition(rec.ops[i].state, next)
  BY <1>2 DEF WithOp
<1> QED BY <1>1, <1>2

(* rec2 is rec with operation i at another point of its life. *)
OnlyOp(rec, rec2, i) ==
    /\ rec2 \in Record
    /\ rec2.state = rec.state
    /\ \A j \in Ops \ {i} : rec2.ops[j] = rec.ops[j]
    /\ rec2.ops[i].snap = rec.ops[i].snap

(* Attaching an apply receipt keeps the rest. *)
LEMMA AttachReceipt ==
    ASSUME NEW rec \in Record, NEW i \in Ops, NEW b \in {"none", "bound", "unbound"}
    PROVE  /\ OnlyOp(rec, [rec EXCEPT !.ops[i].receipt = b], i)
           /\ [rec EXCEPT !.ops[i].receipt = b].ops[i].receipt = b
           /\ [rec EXCEPT !.ops[i].receipt = b].ops[i].state = rec.ops[i].state
<1>1. rec.ops \in [Ops -> OperationRecord] BY DEF Record
<1>2. rec.ops[i] \in OperationRecord BY <1>1
<1> QED BY <1>1, <1>2 DEF OnlyOp, Record, OperationRecord

(* So does attaching a readback ... *)
LEMMA AttachReadback ==
    ASSUME NEW rec \in Record, NEW i \in Ops, NEW m \in {"none", "matched", "mismatched"}
    PROVE  /\ OnlyOp(rec, [rec EXCEPT !.ops[i].verif = m], i)
           /\ [rec EXCEPT !.ops[i].verif = m].ops[i].receipt = rec.ops[i].receipt
           /\ [rec EXCEPT !.ops[i].verif = m].ops[i].state = rec.ops[i].state
<1>1. rec.ops \in [Ops -> OperationRecord] BY DEF Record
<1>2. rec.ops[i] \in OperationRecord BY <1>1
<1> QED BY <1>1, <1>2 DEF OnlyOp, Record, OperationRecord

(* ... and a restore receipt. *)
LEMMA AttachRestored ==
    ASSUME NEW rec \in Record, NEW i \in Ops
    PROVE  /\ OnlyOp(rec, [rec EXCEPT !.ops[i].restored = TRUE], i)
           /\ [rec EXCEPT !.ops[i].restored = TRUE].ops[i].receipt = rec.ops[i].receipt
           /\ [rec EXCEPT !.ops[i].restored = TRUE].ops[i].state = rec.ops[i].state
<1>1. rec.ops \in [Ops -> OperationRecord] BY DEF Record
<1>2. rec.ops[i] \in OperationRecord BY <1>1
<1> QED BY <1>1, <1>2 DEF OnlyOp, Record, OperationRecord

(* record_apply attaches the receipt and moves an Applying operation on. *)
LEMMA RecordApplyFacts ==
    ASSUME NEW rec \in Record, NEW i \in Ops, NEW b \in {"bound", "unbound"}
    PROVE  /\ OnlyOp(rec, RecordApply(rec, i, b), i)
           /\ RecordApply(rec, i, b).ops[i].receipt = b
           /\ RecordApply(rec, i, b).ops[i].state \in {"Applied", rec.ops[i].state}
<1> DEFINE r == [rec EXCEPT !.ops[i].receipt = b]
<1>0. b \in {"none", "bound", "unbound"} OBVIOUS
<1>1. OnlyOp(rec, r, i) /\ r.ops[i].receipt = b /\ r.ops[i].state = rec.ops[i].state
  BY <1>0, AttachReceipt, Zenon
<1>2. r \in Record /\ "Applied" \in OperationState BY <1>1 DEF OnlyOp, OperationState
<1>3. RecordApply(rec, i, b) = WithOp(r, i, "Applied") BY DEF RecordApply
<1> HIDE DEF r
<1> QED BY <1>1, <1>2, <1>3, WithOpFacts DEF OnlyOp

(* record_verification keeps the receipt. *)
LEMMA RecordVerificationFacts ==
    ASSUME NEW rec \in Record, NEW i \in Ops, NEW m \in BOOLEAN
    PROVE  /\ OnlyOp(rec, RecordVerification(rec, i, m), i)
           /\ RecordVerification(rec, i, m).ops[i].receipt = rec.ops[i].receipt
           /\ RecordVerification(rec, i, m).ops[i].state
                \in {"Verified", "Failed", rec.ops[i].state}
<1> DEFINE v == IF m THEN "matched" ELSE "mismatched"
           n == IF m THEN "Verified" ELSE "Failed"
           r == [rec EXCEPT !.ops[i].verif = v]
<1>0. v \in {"none", "matched", "mismatched"} /\ n \in OperationState
      /\ n \in {"Verified", "Failed"}
  BY DEF OperationState
<1>1. RecordVerification(rec, i, m) = WithOp(r, i, n) BY DEF RecordVerification
<1> HIDE DEF v, n
<1>2. OnlyOp(rec, r, i) /\ r.ops[i].receipt = rec.ops[i].receipt
      /\ r.ops[i].state = rec.ops[i].state
  BY <1>0, AttachReadback
<1>3. r \in Record BY <1>2 DEF OnlyOp
<1> HIDE DEF r
<1> QED BY <1>0, <1>1, <1>2, <1>3, WithOpFacts DEF OnlyOp

(* record_restore keeps the receipt. *)
LEMMA RecordRestoreFacts ==
    ASSUME NEW rec \in Record, NEW i \in Ops
    PROVE  /\ OnlyOp(rec, RecordRestore(rec, i), i)
           /\ RecordRestore(rec, i).ops[i].receipt = rec.ops[i].receipt
<1> DEFINE r == [rec EXCEPT !.ops[i].restored = TRUE]
<1>1. OnlyOp(rec, r, i) /\ r.ops[i].receipt = rec.ops[i].receipt
  BY AttachRestored
<1>2. r \in Record /\ "Restored" \in OperationState BY <1>1 DEF OnlyOp, OperationState
<1>3. RecordRestore(rec, i) = WithOp(r, i, "Restored") BY DEF RecordRestore
<1> HIDE DEF r
<1> QED BY <1>1, <1>2, <1>3, WithOpFacts DEF OnlyOp

(* fail_operation, begin_restore_operation and fail_restore. *)
LEMMA MoveFacts ==
    ASSUME NEW rec \in Record, NEW i \in Ops
    PROVE  /\ OnlyOp(rec, FailOperation(rec, i), i)
           /\ FailOperation(rec, i).ops[i].receipt = rec.ops[i].receipt
           /\ FailOperation(rec, i).ops[i].state \in {"Failed", rec.ops[i].state}
           /\ OnlyOp(rec, BeginRestore(rec, i), i)
           /\ BeginRestore(rec, i).ops[i].receipt = rec.ops[i].receipt
           /\ CanBeginRestore(rec.ops[i]) =>
                BeginRestore(rec, i).ops[i].state = "Restoring"
           /\ OnlyOp(rec, FailRestore(rec, i), i)
           /\ FailRestore(rec, i).ops[i].receipt = rec.ops[i].receipt
           /\ FailRestore(rec, i).ops[i].state \in {"RestoreFailed", rec.ops[i].state}
<1>1. {"Failed", "Restoring", "RestoreFailed"} \subseteq OperationState
  BY DEF OperationState
<1> QED BY <1>1, WithOpFacts
        DEF FailOperation, BeginRestore, FailRestore, OnlyOp, CanBeginRestore

(* prepare_restore_state keeps the operations and leaves the states in       *)
(* which a session is not unfinished or not begun.                           *)
LEMMA RestoreStateFacts ==
    ASSUME NEW rec \in Record
    PROVE  /\ RestoreState(rec) \in Record
           /\ RestoreState(rec).ops = rec.ops
           /\ rec.state # "Restored" =>
                RestoreState(rec).state \notin {"IntentDurable", "Restored"}
<1>1. {"Restoring", "RecoveryPending", "RollingBack"} \subseteq SessionState
  BY DEF SessionState
<1>2. CASE rec.state = "Active"
  BY <1>1, <1>2, WithStateFacts DEF RestoreState, SessionCanTransition, SessionEdges
<1>3. CASE rec.state = "Degraded"
  <2>1. RestoreState(rec) = WithState(WithState(rec, "RecoveryPending"), "Restoring")
    BY <1>3 DEF RestoreState
  <2>2. WithState(rec, "RecoveryPending") \in Record
        /\ WithState(rec, "RecoveryPending").ops = rec.ops
        /\ WithState(rec, "RecoveryPending").state \in {"RecoveryPending", "Degraded"}
    BY <1>1, <1>3, WithStateFacts
  <2> QED BY <1>1, <2>1, <2>2, WithStateFacts
<1>4. CASE rec.state = "RecoveryPending"
  BY <1>1, <1>4, WithStateFacts DEF RestoreState
<1>5. CASE rec.state \in {"IntentDurable", "Applying"}
  BY <1>1, <1>5, WithStateFacts DEF RestoreState, SessionCanTransition, SessionEdges
<1>6. CASE rec.state \notin {"Active", "Degraded", "RecoveryPending",
                             "IntentDurable", "Applying"}
  BY <1>6 DEF RestoreState
<1> QED BY <1>2, <1>3, <1>4, <1>5, <1>6

(* A degraded conclusion keeps the operations and is never Restored. *)
LEMMA DegradedFacts ==
    ASSUME NEW rec \in Record
    PROVE  /\ DegradedRecord(rec) \in Record
           /\ DegradedRecord(rec).ops = rec.ops
           /\ DegradedRecord(rec).state \in {"Degraded", "RecoveryPending", rec.state}
<1>1. {"Degraded", "RecoveryPending"} \subseteq SessionState BY DEF SessionState
<1> DEFINE d == WithState(rec, "Degraded")
<1>2. d \in Record /\ d.ops = rec.ops /\ d.state \in {"Degraded", rec.state}
  BY <1>1, WithStateFacts
<1>3. DegradedRecord(rec) \in {d, WithState(d, "RecoveryPending")}
  BY DEF DegradedRecord
<1> HIDE DEF d
<1> QED BY <1>1, <1>2, <1>3, WithStateFacts

(* The record of prepare is untouched and has the captured originals. *)
LEMMA NewRecordFacts ==
    ASSUME NEW ss \in [Ops -> Values]
    PROVE  /\ NewRecord(ss) \in Record
           /\ NewRecord(ss).state = "IntentDurable"
           /\ \A i \in Ops : /\ Untouched(NewRecord(ss).ops[i])
                              /\ NewRecord(ss).ops[i].snap = ss[i]
BY DEF NewRecord, Record, OperationRecord, OperationState, SessionState, Untouched

-----------------------------------------------------------------------------
(* Type correctness *)

(* A journal write keeps the state directory well typed. *)
LEMMA ReplaceType ==
    ASSUME disk \in [Sessions -> Record \cup {NoRecord}],
           NEW s \in Sessions, NEW rec \in Record, NEW ok \in BOOLEAN,
           Replace(s, rec, ok)
    PROVE  disk' \in [Sessions -> Record \cup {NoRecord}]
BY DEF Replace

(* The end of a call resets its locals. *)
LEMMA EndCallType ==
    ASSUME EndCall
    PROVE  /\ pc' = "idle" /\ mem' = NoRecord /\ cur' = NoSession
           /\ idx' \in 0..NumOps
           /\ failed' \in BOOLEAN /\ uncertain' \in BOOLEAN
           /\ snaps' \in [Ops -> Values]
<1>1. pc' = "idle" /\ mem' = NoRecord /\ cur' = NoSession BY DEF EndCall
<1>2. idx' \in 0..NumOps BY NumOpsAssumption DEF EndCall
<1>3. failed' \in BOOLEAN /\ uncertain' \in BOOLEAN BY Zenon DEF EndCall
<1>4. NoSnaps \in [Ops -> Values] BY DesiredAssumption DEF NoSnaps
<1>5. snaps' \in [Ops -> Values] BY <1>4 DEF EndCall
<1> QED BY <1>1, <1>2, <1>3, <1>5

(* The rest of the state an end of a call may leave typed. *)
LEMMA EndCallTypeOK ==
    ASSUME EndCall,
           disk' \in [Sessions -> Record \cup {NoRecord}],
           active' \in Sessions \cup {NoSession},
           value' \in [Ops -> Values],
           lost' \in [Ops -> Values \cup {NoValue}],
           quiet' \in BOOLEAN
    PROVE  TypeOK'
BY EndCallType DEF TypeOK, ApplySteps, RestoreSteps, PrepareSteps

(* Inside apply and restore_record the call has a record, a session and,    *)
(* but for three points, an operation.                                      *)
LEMMA CallTypes ==
    ASSUME TypeOK, pc \in ApplySteps \cup RestoreSteps
    PROVE  /\ mem \in Record /\ cur \in Sessions
           /\ pc \notin {"rollback", "conclude"} => idx \in Ops
           /\ mem.ops \in [Ops -> OperationRecord]
           /\ mem.state \in SessionState
BY DEF TypeOK, ApplySteps, RestoreSteps, Record

(* The steps of prepare and abort_prepared keep the types. *)
LEMMA PrepareTypes ==
    ASSUME TypeOK, PrepareBegin \/ AbortPrepared \/ PrepareStep
    PROVE  TypeOK'
<1> USE NumOpsAssumption DEF Ops, PrepareSteps, ApplySteps, RestoreSteps
<1>1. CASE PrepareBegin BY <1>1 DEF PrepareBegin, TypeOK
<1>2. CASE AbortPrepared
  <2>1. active \in Sessions /\ active' \in Sessions \cup {NoSession}
    BY <1>2 DEF AbortPrepared, TypeOK
  <2>2. disk' \in [Sessions -> Record \cup {NoRecord}]
    BY <1>2, <2>1 DEF AbortPrepared, TypeOK
  <2> QED BY <1>2, <2>1, <2>2 DEF AbortPrepared, TypeOK, callVars
<1>3. CASE SnapshotOp BY <1>3 DEF SnapshotOp, TypeOK
<1>4. CASE PrepareFail
  BY <1>4, EndCallTypeOK DEF PrepareFail, TypeOK
<1>5. ASSUME NEW s \in Sessions, CreateIntent(s) PROVE TypeOK'
  <2>1. NewRecord(snaps) \in Record BY NewRecordFacts DEF TypeOK
  <2>2. disk' \in [Sessions -> Record \cup {NoRecord}]
    BY <1>5, <2>1 DEF CreateIntent, TypeOK
  <2>3. active' \in Sessions \cup {NoSession} BY <1>5 DEF CreateIntent, TypeOK
  <2> QED BY <1>5, <2>2, <2>3, EndCallTypeOK DEF CreateIntent, TypeOK
<1> QED BY <1>1, <1>2, <1>3, <1>4, <1>5 DEF PrepareStep

(* An intermediate persist goes to one of its two program points. *)
LEMMA PersistTypes ==
    ASSUME TypeOK, cur \in Sessions, NEW rec \in Record, NEW okPc, NEW errPc,
           PersistThen(rec, okPc, errPc)
    PROVE  /\ disk' \in [Sessions -> Record \cup {NoRecord}]
           /\ mem' = rec
           /\ pc' \in {okPc, errPc}
<1>1. /\ mem' = rec
      /\ pc' \in {okPc, errPc}
      /\ Replace(cur, rec, TRUE) \/ Replace(cur, rec, FALSE)
  BY Zenon DEF PersistThen
<1>2. disk \in [Sessions -> Record \cup {NoRecord}] BY DEF TypeOK
<1>3. TRUE \in BOOLEAN /\ FALSE \in BOOLEAN OBVIOUS
<1> QED BY <1>1, <1>2, <1>3, ReplaceType

(* So do the steps of apply and of its rollback ... *)
LEMMA ApplyTypes ==
    ASSUME TypeOK, ApplyBegin \/ ApplyStep
    PROVE  TypeOK'
<1> USE NumOpsAssumption DEF PrepareSteps, ApplySteps, RestoreSteps
<1>a. 0 \in 0..NumOps /\ NumOps \in Ops /\ 1 \in Ops /\ Ops \subseteq 0..NumOps
  BY DEF Ops
<1>b. {"Applying", "Active", "Restoring", "RollingBack"} \subseteq SessionState
      /\ "Applying" \in OperationState
  BY DEF SessionState, OperationState
<1>1. CASE ApplyBegin
  <2>1. active \in Sessions /\ disk[active] \in Record
    BY <1>1 DEF ApplyBegin, TypeOK
  <2>2. mem' \in Record BY <1>1, <1>b, <2>1, WithStateFacts DEF ApplyBegin
  <2>3. Replace(active, mem', TRUE) \/ Replace(active, mem', FALSE)
    BY <1>1 DEF ApplyBegin
  <2>4. disk' \in [Sessions -> Record \cup {NoRecord}]
    BY <2>1, <2>2, <2>3, ReplaceType DEF TypeOK
  <2> QED BY <1>1, <1>a, <2>1, <2>2, <2>4 DEF ApplyBegin, TypeOK
<1>2. CASE ApplyOp
  <2>1. mem \in Record /\ cur \in Sessions /\ idx \in Ops
    BY <1>2, CallTypes DEF ApplyOp
  <2>2. WithOp(mem, idx, "Applying") \in Record BY <2>1, <1>b, WithOpFacts
  <2>3. /\ disk' \in [Sessions -> Record \cup {NoRecord}]
        /\ mem' \in Record
        /\ pc' \in {"applyBackend", "rollback"}
    BY <1>2, <2>1, <2>2, PersistTypes DEF ApplyOp
  <2> QED BY <1>2, <1>a, <2>1, <2>3 DEF ApplyOp, TypeOK
<1>3. CASE BackendApplied
  <2>1. mem \in Record /\ cur \in Sessions /\ idx \in Ops
    BY <1>3, CallTypes DEF BackendApplied
  <2>2. mem' \in Record BY <1>3, <2>1, RecordApplyFacts DEF BackendApplied, OnlyOp
  <2> QED BY <1>3, <2>1, <2>2, DesiredAssumption DEF BackendApplied, TypeOK
<1>4. CASE BackendRefused
  <2>1. mem \in Record /\ cur \in Sessions /\ idx \in Ops
    BY <1>4, CallTypes DEF BackendRefused
  <2>2. mem' \in Record BY <1>4, <2>1, MoveFacts DEF BackendRefused, OnlyOp
  <2> QED BY <1>4, <2>1, <2>2 DEF BackendRefused, TypeOK
<1>5. CASE BackendUnknown
  <2>1. mem \in Record /\ cur \in Sessions /\ idx \in Ops
    BY <1>5, CallTypes DEF BackendUnknown
  <2> QED BY <1>5, <2>1 DEF BackendUnknown, TypeOK
<1>6. CASE BackendLeftover
  <2>1. mem \in Record /\ cur \in Sessions /\ idx \in Ops
    BY <1>6, CallTypes DEF BackendLeftover
  <2>2. mem' \in Record BY <1>6, <2>1, MoveFacts DEF BackendLeftover, OnlyOp
  <2> QED BY <1>6, <2>1, <2>2, DesiredAssumption DEF BackendLeftover, TypeOK
<1>7. CASE BackendUnbound
  <2>1. mem \in Record /\ cur \in Sessions /\ idx \in Ops
    BY <1>7, CallTypes DEF BackendUnbound
  <2>2. RecordApply(mem, idx, "unbound") \in Record
    BY <2>1, RecordApplyFacts DEF OnlyOp
  <2>3. mem' \in Record BY <1>7, <2>1, <2>2, MoveFacts DEF BackendUnbound, OnlyOp
  <2> QED BY <1>7, <2>1, <2>3, DesiredAssumption DEF BackendUnbound, TypeOK
<1>8. CASE ApplyRecord
  <2>1. mem \in Record /\ cur \in Sessions /\ idx \in Ops
    BY <1>8, CallTypes DEF ApplyRecord
  <2>2. /\ disk' \in [Sessions -> Record \cup {NoRecord}]
        /\ mem' \in Record
        /\ pc' \in {"applyVerify", "rollback"}
    BY <1>8, <2>1, PersistTypes DEF ApplyRecord
  <2> QED BY <1>8, <1>a, <2>1, <2>2 DEF ApplyRecord, TypeOK
<1>9. CASE ApplyVerify
  <2>1. mem \in Record /\ cur \in Sessions /\ idx \in Ops
    BY <1>9, CallTypes DEF ApplyVerify
  <2>2. mem' \in Record
    BY <1>9, <2>1, RecordVerificationFacts DEF ApplyVerify, OnlyOp
  <2> QED BY <1>9, <2>1, <2>2 DEF ApplyVerify, TypeOK
<1>10. CASE ApplyVerified
  <2>1. mem \in Record /\ cur \in Sessions /\ idx \in Ops
    BY <1>10, CallTypes DEF ApplyVerified
  <2>2. /\ disk' \in [Sessions -> Record \cup {NoRecord}]
        /\ mem' \in Record
        /\ pc' \in {IF idx = NumOps THEN "activate" ELSE "applyOp", "rollback"}
    BY <1>10, <2>1, PersistTypes DEF ApplyVerified
  <2>3. idx' \in Ops
    BY <1>10, <2>1, <2>2 DEF ApplyVerified, Ops
  <2> QED BY <1>10, <1>a, <2>1, <2>2, <2>3 DEF ApplyVerified, TypeOK
<1>11. CASE FailPersist
  <2>1. mem \in Record /\ cur \in Sessions /\ idx \in Ops
    BY <1>11, CallTypes DEF FailPersist
  <2>2. /\ disk' \in [Sessions -> Record \cup {NoRecord}]
        /\ mem' \in Record
        /\ pc' = "rollback"
    BY <1>11, <2>1, PersistTypes DEF FailPersist
  <2> QED BY <1>11, <1>a, <2>1, <2>2 DEF FailPersist, TypeOK
<1>12. CASE Activate
  <2>1. mem \in Record /\ cur \in Sessions BY <1>12, CallTypes DEF Activate
  <2>2. WithState(mem, "Active") \in Record BY <2>1, <1>b, WithStateFacts
  <2>3. disk' \in [Sessions -> Record \cup {NoRecord}]
    BY <1>12, <2>1, <2>2, ReplaceType DEF Activate, TypeOK
  <2> QED BY <1>12, <2>3, EndCallTypeOK DEF Activate, TypeOK
<1>13. CASE BackendMisnamed \/ ActivateClockError
  <2>1. CASE BackendMisnamed
    <3>1. idx \in Ops BY <2>1, CallTypes DEF BackendMisnamed
    <3> QED BY <2>1, <3>1, EndCallTypeOK, DesiredAssumption DEF BackendMisnamed, TypeOK
  <2> QED BY <1>13, <2>1, EndCallTypeOK DEF ActivateClockError, TypeOK
<1>14. CASE ActivateFail
  <2>1. mem \in Record /\ cur \in Sessions /\ idx \in Ops
    BY <1>14, CallTypes DEF ActivateFail
  <2>2. mem' \in Record BY <1>14, <2>1, <1>b, WithStateFacts DEF ActivateFail
  <2>3. disk' \in [Sessions -> Record \cup {NoRecord}]
    BY <1>14, <2>1, <2>2, ReplaceType DEF ActivateFail, TypeOK
  <2> QED BY <1>14, <1>a, <2>1, <2>2, <2>3 DEF ActivateFail, TypeOK
<1>15. CASE RollbackAfterFailure
  <2>1. mem \in Record /\ cur \in Sessions BY <1>15, CallTypes DEF RollbackAfterFailure
  <2> DEFINE next == IF mem.state = "Active" THEN "Restoring" ELSE "RollingBack"
  <2>2. WithState(mem, next) \in Record BY <2>1, <1>b, WithStateFacts
  <2>3. /\ disk' \in [Sessions -> Record \cup {NoRecord}]
        /\ mem' \in Record
        /\ pc' = "restoreOp"
    BY <1>15, <2>1, <2>2, PersistTypes DEF RollbackAfterFailure
  <2> QED BY <1>15, <1>a, <2>1, <2>3 DEF RollbackAfterFailure, TypeOK
<1> QED BY <1>1, <1>2, <1>3, <1>4, <1>5, <1>6, <1>7, <1>8, <1>9, <1>10, <1>11,
           <1>12, <1>13, <1>14, <1>15 DEF ApplyStep

(* ... of restore, recover_unfinished and restore_record ... *)
LEMMA RestoreTypes ==
    ASSUME TypeOK, RestoreCall \/ RestoreStep
    PROVE  TypeOK'
<1> USE NumOpsAssumption DEF PrepareSteps, ApplySteps, RestoreSteps
<1>a. 0 \in 0..NumOps /\ NumOps \in Ops /\ Ops \subseteq 0..NumOps
  BY DEF Ops
<1>b. "Restored" \in SessionState BY DEF SessionState
<1>c. TRUE \in BOOLEAN /\ FALSE \in BOOLEAN OBVIOUS
<1>d. ASSUME NEW s \in Unfinished
      PROVE  /\ s \in Sessions
             /\ RestoreState(disk[s]) \in Record
  <2>1. s \in Sessions /\ disk[s] \in Record BY DEF Unfinished, TypeOK
  <2> QED BY <2>1, RestoreStateFacts
<1>e. ASSUME NEW s \in Unfinished, StartRestore(s) PROVE TypeOK'
  <2>1. mem' \in Record /\ s \in Sessions BY <1>d, <1>e DEF StartRestore
  <2>2. disk' \in [Sessions -> Record \cup {NoRecord}]
    BY <1>e, <1>c, <2>1, ReplaceType DEF StartRestore, TypeOK
  <2> QED BY <1>e, <1>a, <2>1, <2>2 DEF StartRestore, TypeOK
<1>f. ASSUME NEW s \in Unfinished, Replace(s, RestoreState(disk[s]), FALSE)
      PROVE  disk' \in [Sessions -> Record \cup {NoRecord}]
  BY <1>c, <1>d, <1>f, ReplaceType DEF TypeOK
<1>g. ASSUME idx \in Ops, NextRestore
      PROVE  /\ idx' \in 0..NumOps
             /\ pc' \in {"conclude", "restoreOp"}
             /\ pc' # "conclude" => idx' \in Ops
  BY <1>g DEF NextRestore, Ops
<1>1. CASE RestoreBegin BY <1>1, <1>e DEF RestoreBegin
<1>2. CASE RestoreBeginFail
  BY <1>2, <1>f DEF RestoreBeginFail, TypeOK, callVars
<1>3. CASE ReleaseIfRestored BY <1>3 DEF ReleaseIfRestored, TypeOK, callVars
<1>4. ASSUME NEW s \in Sessions, RecoverBegin(s) PROVE TypeOK'
  BY <1>4, <1>e DEF RecoverBegin
<1>5. ASSUME NEW s \in Sessions, RecoverBeginFail(s) PROVE TypeOK'
  BY <1>5, <1>f DEF RecoverBeginFail, TypeOK, callVars
<1>6. CASE RestoreSkip
  <2>1. mem \in Record /\ cur \in Sessions /\ idx \in Ops
    BY <1>6, CallTypes DEF RestoreSkip
  <2> QED BY <1>6, <1>g, <2>1 DEF RestoreSkip, TypeOK
<1>7. CASE RestoreUncertain
  <2>1. mem \in Record /\ cur \in Sessions /\ idx \in Ops
    BY <1>7, CallTypes DEF RestoreUncertain
  <2>2. failed' \in BOOLEAN /\ uncertain' \in BOOLEAN
    BY <1>7, Zenon DEF RestoreUncertain
  <2> QED BY <1>7, <1>g, <2>1, <2>2 DEF RestoreUncertain, TypeOK
<1>8. CASE RestoreOpBegin
  <2>1. mem \in Record /\ cur \in Sessions /\ idx \in Ops
    BY <1>8, CallTypes DEF RestoreOpBegin
  <2>2. mem' \in Record BY <1>8, <2>1, MoveFacts DEF RestoreOpBegin, OnlyOp
  <2>3. failed' \in BOOLEAN /\ uncertain' \in BOOLEAN
    BY <1>8, Zenon DEF RestoreOpBegin, TypeOK
  <2>4. Replace(cur, mem', TRUE) \/ Replace(cur, mem', FALSE)
    BY <1>8 DEF RestoreOpBegin
  <2>5. disk' \in [Sessions -> Record \cup {NoRecord}]
    BY <1>c, <2>1, <2>2, <2>4, ReplaceType DEF TypeOK
  <2> QED BY <1>8, <2>1, <2>2, <2>3, <2>5 DEF RestoreOpBegin, TypeOK
<1>9. CASE RestoreFound
  <2>1. mem \in Record /\ cur \in Sessions /\ idx \in Ops
    BY <1>9, CallTypes DEF RestoreFound
  <2>2. mem' \in Record BY <1>9, <2>1, RecordRestoreFacts DEF RestoreFound, OnlyOp
  <2> QED BY <1>9, <2>1, <2>2 DEF RestoreFound, TypeOK
<1>10. CASE RestoreOwned
  <2>1. mem \in Record /\ cur \in Sessions /\ idx \in Ops
    BY <1>10, CallTypes DEF RestoreOwned
  <2> QED BY <1>10, <2>1 DEF RestoreOwned, TypeOK
<1>11. CASE RestoreRefused
  <2>1. mem \in Record /\ cur \in Sessions /\ idx \in Ops
    BY <1>11, CallTypes DEF RestoreRefused
  <2>2. mem' \in Record BY <1>11, <2>1, MoveFacts DEF RestoreRefused, OnlyOp
  <2>3. failed' \in BOOLEAN BY <1>11, Zenon DEF RestoreRefused
  <2> QED BY <1>11, <2>1, <2>2, <2>3 DEF RestoreRefused, TypeOK
<1>12. CASE BackendRestored
  <2>1. /\ mem \in Record /\ cur \in Sessions /\ idx \in Ops
        /\ mem.ops \in [Ops -> OperationRecord]
    BY <1>12, CallTypes DEF BackendRestored
  <2>2. mem' \in Record BY <1>12, <2>1, RecordRestoreFacts DEF BackendRestored, OnlyOp
  <2>3. Op.snap \in Values BY <2>1 DEF Op, OperationRecord
  <2> QED BY <1>12, <2>1, <2>2, <2>3 DEF BackendRestored, TypeOK
<1>13. CASE BackendRestoreFailed
  <2>1. mem \in Record /\ cur \in Sessions /\ idx \in Ops
    BY <1>13, CallTypes DEF BackendRestoreFailed
  <2>2. mem' \in Record BY <1>13, <2>1, MoveFacts DEF BackendRestoreFailed, OnlyOp
  <2>3. failed' \in BOOLEAN BY <1>13, Zenon DEF BackendRestoreFailed
  <2>4. value' \in [Ops -> Values] /\ lost' \in [Ops -> Values \cup {NoValue}]
    BY <1>13, <2>1 DEF BackendRestoreFailed, TypeOK
  <2> QED BY <1>13, <2>1, <2>2, <2>3, <2>4 DEF BackendRestoreFailed, TypeOK
<1>14. CASE RestoreRecord
  <2>1. mem \in Record /\ cur \in Sessions /\ idx \in Ops
    BY <1>14, CallTypes DEF RestoreRecord
  <2>2. failed' \in BOOLEAN /\ uncertain' \in BOOLEAN
    BY <1>14, Zenon DEF RestoreRecord, TypeOK
  <2>3. Replace(cur, mem, TRUE) \/ Replace(cur, mem, FALSE)
    BY <1>14 DEF RestoreRecord
  <2>4. disk' \in [Sessions -> Record \cup {NoRecord}]
    BY <1>c, <2>1, <2>3, ReplaceType DEF TypeOK
  <2> QED BY <1>14, <1>g, <2>1, <2>2, <2>4 DEF RestoreRecord, TypeOK
<1>15. CASE RestoreFailPersist
  <2>1. mem \in Record /\ cur \in Sessions /\ idx \in Ops
    BY <1>15, CallTypes DEF RestoreFailPersist
  <2>2. disk' \in [Sessions -> Record \cup {NoRecord}]
    BY <1>15, <2>1, ReplaceType DEF RestoreFailPersist, TypeOK
  <2> QED BY <1>15, <1>g, <2>1, <2>2 DEF RestoreFailPersist, TypeOK
<1>16. CASE ConcludeRestored
  <2>1. mem \in Record /\ cur \in Sessions BY <1>16, CallTypes DEF ConcludeRestored
  <2>2. WithState(mem, "Restored") \in Record BY <2>1, <1>b, WithStateFacts
  <2>3. disk' \in [Sessions -> Record \cup {NoRecord}]
    BY <1>16, <1>c, <2>1, <2>2, ReplaceType DEF ConcludeRestored, TypeOK
  <2>4. active' \in Sessions \cup {NoSession} BY <1>16, <2>1 DEF ConcludeRestored
  <2> QED BY <1>16, <2>3, <2>4, EndCallTypeOK DEF ConcludeRestored, TypeOK
<1>17. CASE ConcludeDegraded
  <2>1. mem \in Record /\ cur \in Sessions BY <1>17, CallTypes DEF ConcludeDegraded
  <2>2. DegradedRecord(mem) \in Record BY <2>1, DegradedFacts
  <2>3. disk' \in [Sessions -> Record \cup {NoRecord}]
    BY <1>17, <2>1, <2>2, ReplaceType DEF ConcludeDegraded, TypeOK
  <2>4. active' \in Sessions \cup {NoSession} BY <1>17, <2>1 DEF ConcludeDegraded
  <2> QED BY <1>17, <2>3, <2>4, EndCallTypeOK DEF ConcludeDegraded, TypeOK
<1> QED BY <1>1, <1>2, <1>3, <1>4, <1>5, <1>6, <1>7, <1>8, <1>9, <1>10, <1>11,
           <1>12, <1>13, <1>14, <1>15, <1>16, <1>17 DEF RestoreCall, RestoreStep

(* ... and of the environment. *)
LEMMA EnvironmentTypes ==
    ASSUME TypeOK, Crash \/ OtherWrite \/ FaultsStop \/ UNCHANGED vars
    PROVE  TypeOK'
<1>1. CASE Crash BY <1>1, EndCallTypeOK DEF Crash, TypeOK
<1>2. CASE OtherWrite BY <1>2 DEF OtherWrite, TypeOK, callVars
<1>3. CASE FaultsStop
  <2>1. quiet' \in BOOLEAN BY <1>3, Zenon DEF FaultsStop
  <2> QED BY <1>3, <2>1 DEF FaultsStop, TypeOK, callVars
<1>4. CASE UNCHANGED vars BY <1>4 DEF vars, TypeOK
<1> QED BY <1>1, <1>2, <1>3, <1>4

(* The engine starts well typed. *)
LEMMA InitType == Init => TypeOK
<1> SUFFICES ASSUME Init PROVE TypeOK OBVIOUS
<1>1. failed \in BOOLEAN /\ uncertain \in BOOLEAN /\ quiet \in BOOLEAN
  BY Zenon DEF Init
<1>2. snaps \in [Ops -> Values] BY DesiredAssumption DEF Init, NoSnaps
<1> QED BY <1>1, <1>2, NumOpsAssumption
        DEF Init, TypeOK, ApplySteps, RestoreSteps, PrepareSteps

(* Every step of the engine and of its environment keeps the types. *)
LEMMA NextType == TypeOK /\ [Next]_vars => TypeOK'
BY PrepareTypes, ApplyTypes, RestoreTypes, EnvironmentTypes DEF Next, CallStep

(* Whatever the backend does and whatever fails: every journal file is a    *)
(* record or absent, a running call has a record, a session and an operation *)
(* in range (TransactionEngine::apply, restore, recover_unfinished).        *)
THEOREM TypeCorrect == Spec => []TypeOK
BY InitType, NextType, PTL DEF Spec

-----------------------------------------------------------------------------
(* Crash safety of the journal *)

(* A journal write of a record that has the snapshots of the file and       *)
(* covers the host keeps the state directory covering it, whether or not    *)
(* it takes effect.                                                         *)
LEMMA ReplaceKeeps ==
    ASSUME TypeOK, DiskInv,
           NEW s \in Unfinished, NEW rec \in Record, NEW ok \in BOOLEAN,
           SameSnaps(rec, disk[s]), Covers(rec),
           rec.state \notin {"IntentDurable", "Restored"},
           Replace(s, rec, ok), UNCHANGED lost
    PROVE  /\ DiskInv'
           /\ s \in Unfinished'
           /\ SameSnaps(rec, disk'[s])
           /\ ok => disk'[s] = rec
<1>0. s \in Sessions /\ disk[s] # NoRecord /\ disk \in [Sessions -> Record \cup {NoRecord}]
  BY DEF Unfinished, TypeOK
<1>1. CASE disk' = disk /\ ~ok
  BY <1>1 DEF DiskInv, Unfinished, Covers, AtMostOneUnfinished, SameSnaps
<1>2. CASE disk' = [disk EXCEPT ![s] = rec]
  <2>1. disk'[s] = rec /\ \A t \in Sessions \ {s} : disk'[t] = disk[t]
    BY <1>0, <1>2
  <2>2. rec # NoRecord BY NullsAssumption
  <2>3. Unfinished' = Unfinished BY <1>0, <2>1, <2>2 DEF Unfinished
  <2>4. Unfinished = {s} BY DEF DiskInv, AtMostOneUnfinished
  <2>5. \A i \in Ops : rec.ops[i].snap # Desired
    BY <1>0 DEF DiskInv, SameSnaps
  <2>6. Covers(rec)' BY DEF Covers
  <2>7. AtMostOneUnfinished' BY <2>3 DEF DiskInv, AtMostOneUnfinished
  <2>8. \A t \in Unfinished' : Covers(disk[t])'
    BY <2>1, <2>3, <2>4, <2>6 DEF Covers
  <2>9. \A t \in Sessions : disk'[t] # NoRecord =>
          \A i \in Ops : disk'[t].ops[i].snap # Desired
    BY <2>1, <2>5 DEF DiskInv
  <2>10. \A t \in Sessions : disk'[t] # NoRecord /\ disk'[t].state = "IntentDurable" =>
          \A i \in Ops : Untouched(disk'[t].ops[i])
    BY <2>1 DEF DiskInv
  <2>11. DiskInv' BY <2>3, <2>4, <2>7, <2>8, <2>9, <2>10 DEF DiskInv, Untouched
  <2> QED BY <2>1, <2>3, <2>11 DEF SameSnaps
<1> QED BY <1>1, <1>2 DEF Replace

(* With the files as they are, fewer writes in place need no more cover. *)
LEMMA DiskFrame ==
    ASSUME DiskInv, UNCHANGED disk,
           \A i \in Ops : lost'[i] \in {lost[i], NoValue}
    PROVE  DiskInv' /\ Unfinished' = Unfinished
<1>1. Unfinished' = Unfinished BY DEF Unfinished
<1>2. \A s \in Unfinished' : Covers(disk[s])'
  BY <1>1 DEF DiskInv, Covers
<1> QED BY <1>1, <1>2 DEF DiskInv, AtMostOneUnfinished, Untouched

(* What a running call may rely on. *)
LEMMA CallFacts ==
    ASSUME TypeOK, DiskInv, CallInv, Running
    PROVE  /\ mem \in Record
           /\ cur \in Unfinished /\ cur \in Sessions /\ disk[cur] \in Record
           /\ SameSnaps(mem, disk[cur]) /\ Covers(mem)
           /\ mem.state \notin {"IntentDurable", "Restored"}
           /\ \A i \in Ops : mem.ops[i].snap # Desired
BY DEF TypeOK, DiskInv, CallInv, Running, Unfinished, SameSnaps

(* An operation that still owes its write, or whose write is gone, may move  *)
(* on without the record ceasing to cover the host.                          *)
LEMMA CoversOnlyOp ==
    ASSUME NEW rec, NEW rec2, NEW i \in Ops,
           Covers(rec), OnlyOp(rec, rec2, i),
           lost[i] # NoValue => Owed(rec2.ops[i])
    PROVE  Covers(rec2) /\ SameSnaps(rec2, rec)
BY DEF Covers, OnlyOp, SameSnaps

(* An intermediate persist keeps what holds of the directory and the call. *)
LEMMA PersistKeeps ==
    ASSUME TypeOK, DiskInv, CallInv, Running,
           NEW rec \in Record, NEW okPc, NEW errPc,
           SameSnaps(rec, mem), Covers(rec),
           rec.state \notin {"IntentDurable", "Restored"},
           PersistThen(rec, okPc, errPc), UNCHANGED <<cur, lost>>
    PROVE  /\ DiskInv' /\ CallInv'
           /\ mem' = rec
           /\ pc' \in {okPc, errPc}
           /\ pc' = errPc \/ disk'[cur] = rec
<1>0. /\ cur \in Unfinished /\ cur \in Sessions /\ SameSnaps(mem, disk[cur])
  BY CallFacts
<1>1. SameSnaps(rec, disk[cur]) BY <1>0 DEF SameSnaps
<1>2. mem' = rec BY DEF PersistThen
<1>3. PICK ok \in BOOLEAN : Replace(cur, rec, ok) /\ pc' = IF ok THEN okPc ELSE errPc
  BY DEF PersistThen
<1>4. /\ DiskInv' /\ cur \in Unfinished'
      /\ SameSnaps(rec, disk'[cur])
      /\ ok => disk'[cur] = rec
  BY <1>0, <1>1, <1>3, ReplaceKeeps
<1>5. CallInv' BY <1>2, <1>4 DEF CallInv, Covers, SameSnaps
<1> QED BY <1>2, <1>3, <1>4, <1>5

(* Between calls nothing is asked of the locals. *)
LEMMA EndCallKeeps ==
    ASSUME EndCall
    PROVE  CallInv' /\ PrepareInv' /\ ApplyInv' /\ RestoreInv'
BY DEF EndCall, CallInv, PrepareInv, ApplyInv, RestoreInv, Running,
       ApplySteps, RestoreSteps, PrepareSteps

(* The part of IInv beyond typing. *)
Rest == DiskInv /\ CallInv /\ PrepareInv /\ ApplyInv /\ RestoreInv /\ LostInv

(* The steps of prepare and abort_prepared keep the invariant. *)
LEMMA PrepareKeeps ==
    ASSUME TypeOK, Rest, PrepareBegin \/ AbortPrepared \/ PrepareStep
    PROVE  Rest'
<1> USE DEF Rest
<1>1. CASE PrepareBegin
  <2>1. DiskInv' /\ Unfinished' = Unfinished
    BY <1>1, DiskFrame DEF PrepareBegin
  <2>2. PrepareInv' BY <1>1, <2>1 DEF PrepareBegin, PrepareInv, PrepareSteps, Ops
  <2> QED BY <1>1, <2>1, <2>2 DEF PrepareBegin, CallInv, ApplyInv, RestoreInv,
             LostInv, Running, ApplySteps, RestoreSteps
<1>2. CASE AbortPrepared
  <2>1. /\ active \in Sessions /\ active \in Unfinished
        /\ disk \in [Sessions -> Record \cup {NoRecord}]
    BY <1>2 DEF AbortPrepared, TypeOK, Unfinished
  <2>2. \A i \in Ops : ~Owed(disk[active].ops[i])
    BY <1>2, <2>1 DEF AbortPrepared, DiskInv, Untouched, Owed
  <2>3. \A i \in Ops : lost[i] = NoValue
    BY <2>1, <2>2 DEF DiskInv, Covers
  <2>4. Unfinished' = {}
    BY <1>2, <2>1 DEF AbortPrepared, DiskInv, AtMostOneUnfinished, Unfinished
  <2>5. \A t \in Sessions : disk'[t] # NoRecord => disk'[t] = disk[t]
    BY <1>2, <2>1 DEF AbortPrepared
  <2>6. lost' = lost /\ value' = value /\ UNCHANGED callVars
    BY <1>2 DEF AbortPrepared
  <2>7. DiskInv'
    BY <2>3, <2>4, <2>5, <2>6 DEF DiskInv, AtMostOneUnfinished, Untouched
  <2> QED BY <1>2, <2>4, <2>6, <2>7 DEF AbortPrepared, callVars, CallInv, PrepareInv,
             ApplyInv, RestoreInv, LostInv, Running, ApplySteps, RestoreSteps, PrepareSteps
<1>3. CASE SnapshotOp
  <2>1. DiskInv' /\ Unfinished' = Unfinished
    BY <1>3, DiskFrame DEF SnapshotOp
  <2>2. idx \in Ops /\ snaps \in [Ops -> Values]
    BY <1>3 DEF SnapshotOp, TypeOK
  <2>3. PrepareInv'
    BY <1>3, <2>1, <2>2, NumOpsAssumption DEF SnapshotOp, PrepareInv, PrepareSteps, Ops
  <2> QED BY <1>3, <2>1, <2>3 DEF SnapshotOp, CallInv, ApplyInv, RestoreInv,
             LostInv, Running, ApplySteps, RestoreSteps
<1>4. CASE PrepareFail
  <2>1. DiskInv' BY <1>4, DiskFrame DEF PrepareFail
  <2> QED BY <1>4, <2>1, EndCallKeeps DEF PrepareFail, LostInv
<1>5. ASSUME NEW s \in Sessions, CreateIntent(s) PROVE Rest'
  <2>1. /\ Unfinished = {} /\ \A i \in Ops : snaps[i] # Desired
        /\ disk \in [Sessions -> Record \cup {NoRecord}]
    BY <1>5 DEF CreateIntent, PrepareInv, PrepareSteps, TypeOK
  <2>2. \A i \in Ops : lost[i] = NoValue BY <2>1 DEF DiskInv
  <2> DEFINE n == NewRecord(snaps)
  <2>3. /\ n \in Record /\ n.state = "IntentDurable"
        /\ \A i \in Ops : Untouched(n.ops[i]) /\ n.ops[i].snap = snaps[i]
    BY NewRecordFacts DEF TypeOK
  <2>4. n # NoRecord BY <2>3, NullsAssumption
  <2>5. disk'[s] = n /\ \A t \in Sessions \ {s} : disk'[t] = disk[t]
    BY <1>5, <2>1 DEF CreateIntent
  <2> HIDE DEF n
  <2>6. Unfinished' = {s} BY <2>1, <2>3, <2>4, <2>5 DEF Unfinished
  <2>7. lost' = lost /\ value' = value BY <1>5 DEF CreateIntent
  <2>8. \A t \in Unfinished' : Covers(disk[t])' BY <2>2, <2>7 DEF Covers
  <2>9. /\ \A t \in Sessions : disk'[t] # NoRecord =>
              \A i \in Ops : disk'[t].ops[i].snap # Desired
        /\ \A t \in Sessions : disk'[t] # NoRecord /\ disk'[t].state = "IntentDurable" =>
              \A i \in Ops : Untouched(disk'[t].ops[i])
    BY <2>1, <2>3, <2>5 DEF DiskInv
  <2>10. DiskInv' BY <2>6, <2>8, <2>9 DEF DiskInv, AtMostOneUnfinished, Untouched
  <2>11. LostInv' BY <2>7 DEF LostInv
  <2> QED BY <1>5, <2>10, <2>11, EndCallKeeps DEF CreateIntent
<1> QED BY <1>1, <1>2, <1>3, <1>4, <1>5 DEF PrepareStep

(* The backend's write is covered: its operation is Applying on disk and in  *)
(* the record of the call, which both have the value it replaces.            *)
LEMMA WriteCovered ==
    ASSUME TypeOK, Rest, pc = "applyBackend", UNCHANGED disk,
           value[idx] = mem.ops[idx].snap,
           lost' = [lost EXCEPT ![idx] = value[idx]] \/ lost' = [lost EXCEPT ![idx] = NoValue]
    PROVE  DiskInv'
<1> USE DEF Rest
<1>0. /\ cur \in Unfinished /\ SameSnaps(mem, disk[cur]) /\ idx \in Ops
  BY CallFacts, CallTypes DEF Running, ApplySteps
<1>1. /\ disk[cur].ops[idx].state = "Applying" BY DEF ApplyInv
<1>2. Unfinished' = Unfinished BY DEF Unfinished
<1>3. lost \in [Ops -> Values \cup {NoValue}] BY DEF TypeOK
<1>4. /\ lost'[idx] \in {NoValue, value[idx]}
      /\ \A i \in Ops \ {idx} : lost'[i] = lost[i]
  BY <1>0, <1>3
<1>5. Unfinished = {cur} BY <1>0 DEF DiskInv, AtMostOneUnfinished
<1>6. Covers(disk[cur]) BY <1>0 DEF DiskInv
<1>7. ASSUME NEW s \in Unfinished' PROVE Covers(disk[s])'
  <2>1. s = cur BY <1>2, <1>5
  <2> QED BY <1>0, <1>1, <1>4, <1>6, <2>1 DEF Covers, SameSnaps, Owed
<1> QED BY <1>2, <1>5, <1>7 DEF DiskInv, AtMostOneUnfinished, Untouched

(* The steps of apply, for a backend like CpuBackend. *)
LEMMA ApplyKeeps ==
    ASSUME TypeOK, TypeOK', Rest, ApplyOutcomes \subseteq CpuOutcomes,
           ApplyBegin \/ ApplyStep
    PROVE  Rest'
<1> USE DEF Rest
<1>b. {"Applying", "Active", "Restoring", "RollingBack"} \subseteq SessionState
      /\ "Applying" \in OperationState
  BY DEF SessionState, OperationState
<1>1. CASE ApplyBegin
  <2>1. /\ active \in Unfinished /\ disk[active] \in Record
        /\ \A i \in Ops : Untouched(disk[active].ops[i])
    BY <1>1 DEF ApplyBegin, TypeOK, Unfinished, DiskInv
  <2> DEFINE r == WithState(disk[active], "Applying")
  <2>2. /\ r \in Record /\ r.ops = disk[active].ops
        /\ r.state = "Applying"
    BY <1>1, <1>b, <2>1, WithStateFacts
       DEF ApplyBegin, SessionCanTransition, SessionEdges
  <2>3. Covers(r) /\ SameSnaps(r, disk[active])
    BY <2>1, <2>2 DEF DiskInv, Covers, SameSnaps
  <2>4. PICK ok \in BOOLEAN : Replace(active, r, ok)
    BY <1>1 DEF ApplyBegin
  <2>5. mem' = r /\ cur' = active /\ lost' = lost /\ value' = value
        /\ \/ pc' = "applyOp" /\ idx' = 1
           \/ pc' = "rollback" /\ idx' = 0
    BY <1>1 DEF ApplyBegin
  <2> HIDE DEF r
  <2>6. DiskInv' /\ active \in Unfinished' /\ SameSnaps(r, disk'[active])
    BY <2>1, <2>2, <2>3, <2>4, <2>5, ReplaceKeeps
  <2>7. CallInv' BY <2>2, <2>3, <2>5, <2>6 DEF CallInv, Covers, SameSnaps
  <2>8. ApplyInv' BY <2>1, <2>2, <2>5 DEF ApplyInv
  <2> QED BY <2>5, <2>6, <2>7, <2>8 DEF PrepareInv, PrepareSteps, RestoreInv, LostInv
<1>2. CASE ApplyOp
  <2>1. Running /\ idx \in Ops BY <1>2, CallTypes DEF ApplyOp, Running, ApplySteps
  <2>2. /\ mem \in Record /\ Covers(mem)
        /\ mem.state \notin {"IntentDurable", "Restored"}
    BY <2>1, CallFacts
  <2>3. \A i \in Ops : i >= idx => Untouched(mem.ops[i])
    BY <1>2 DEF ApplyOp, ApplyInv
  <2>4. Untouched(mem.ops[idx]) BY <2>1, <2>3 DEF Ops
  <2>5. lost[idx] = NoValue BY <2>1, <2>2, <2>4 DEF Covers, Owed, Untouched
  <2> DEFINE r == WithOp(mem, idx, "Applying")
  <2>6. OnlyOp(mem, r, idx) /\ r.ops[idx].state = "Applying"
    BY <1>b, <2>1, <2>2, <2>4, WithOpFacts
       DEF OnlyOp, Untouched, OpCanTransition, OperationEdges
  <2>7. PersistThen(r, "applyBackend", "rollback") BY <1>2 DEF ApplyOp
  <2> HIDE DEF r
  <2>8. /\ Covers(r) /\ SameSnaps(r, mem) /\ r \in Record
        /\ r.state \notin {"IntentDurable", "Restored"}
    BY <2>1, <2>2, <2>5, <2>6, CoversOnlyOp DEF OnlyOp
  <2>9. UNCHANGED <<cur, lost, idx, value>> BY <1>2 DEF ApplyOp
  <2>10. /\ DiskInv' /\ CallInv' /\ mem' = r
         /\ pc' \in {"applyBackend", "rollback"}
         /\ pc' = "rollback" \/ disk'[cur] = r
    BY <2>1, <2>7, <2>8, <2>9, PersistKeeps
  <2>11. \A i \in Ops : i > idx => Untouched(r.ops[i])
    BY <2>1, <2>3, <2>6 DEF OnlyOp, Ops
  <2>12. ApplyInv' BY <2>5, <2>6, <2>9, <2>10, <2>11 DEF ApplyInv
  <2> QED BY <2>9, <2>10, <2>12 DEF PrepareInv, PrepareSteps, RestoreInv, LostInv
<1>3. CASE BackendApplied
  <2>1. Running /\ idx \in Ops
    BY <1>3, CallTypes DEF BackendApplied, Running, ApplySteps
  <2>2. /\ mem \in Record /\ Covers(mem) /\ cur \in Unfinished
        /\ SameSnaps(mem, disk[cur]) /\ mem.ops[idx].snap # Desired
        /\ mem.state \notin {"IntentDurable", "Restored"}
    BY <2>1, CallFacts
  <2>3. /\ mem.ops[idx].state = "Applying"
        /\ \A i \in Ops : i > idx => Untouched(mem.ops[i])
    BY <1>3 DEF BackendApplied, ApplyInv
  <2>4. /\ mem' = RecordApply(mem, idx, "bound") /\ pc' = "applyRecord"
        /\ UNCHANGED <<disk, cur, idx>>
        /\ value[idx] = mem.ops[idx].snap
        /\ value' = [value EXCEPT ![idx] = Desired]
        /\ lost' = [lost EXCEPT ![idx] = value[idx]]
    BY <1>3 DEF BackendApplied
  <2>5. /\ OnlyOp(mem, mem', idx) /\ mem'.ops[idx].receipt = "bound"
        /\ mem'.ops[idx].state \in {"Applied", "Applying"}
    BY <2>1, <2>2, <2>3, <2>4, RecordApplyFacts
  <2>6. DiskInv' BY <1>3, <2>4, WriteCovered DEF BackendApplied
  <2>7. /\ lost'[idx] = value[idx] /\ value'[idx] = Desired
        /\ \A i \in Ops \ {idx} : lost'[i] = lost[i] /\ value'[i] = value[i]
    BY <2>1, <2>4 DEF TypeOK
  <2>8. Covers(mem)' BY <2>2, <2>4, <2>5, <2>7 DEF Covers, OnlyOp, Owed
  <2>9. cur' \in Unfinished' /\ SameSnaps(mem', disk'[cur'])
    BY <2>1, <2>2, <2>4, <2>5 DEF Unfinished, SameSnaps, OnlyOp
  <2>10. CallInv' BY <2>2, <2>5, <2>8, <2>9 DEF CallInv, OnlyOp, SameSnaps
  <2>11. ApplyInv'
    BY <2>1, <2>3, <2>4, <2>5 DEF ApplyInv, OnlyOp, Ops, Untouched
  <2>12. LostInv' BY <2>2, <2>4, <2>7 DEF LostInv
  <2> QED BY <2>4, <2>6, <2>10, <2>11, <2>12 DEF PrepareInv, PrepareSteps, RestoreInv
<1>4. CASE BackendRefused
  <2>1. Running /\ idx \in Ops
    BY <1>4, CallTypes DEF BackendRefused, Running, ApplySteps
  <2>2. /\ mem \in Record /\ Covers(mem) /\ cur \in Unfinished
        /\ SameSnaps(mem, disk[cur])
        /\ mem.state \notin {"IntentDurable", "Restored"}
    BY <2>1, CallFacts
  <2>3. lost[idx] = NoValue BY <1>4 DEF BackendRefused, ApplyInv
  <2>4. /\ mem' = FailOperation(mem, idx) /\ pc' = "failPersist"
        /\ UNCHANGED <<disk, cur, idx, lost, value>>
    BY <1>4 DEF BackendRefused
  <2>5. OnlyOp(mem, mem', idx) BY <2>1, <2>2, <2>4, MoveFacts
  <2>6. Covers(mem') /\ SameSnaps(mem', mem) BY <2>1, <2>2, <2>3, <2>5, CoversOnlyOp
  <2>7. DiskInv' /\ Unfinished' = Unfinished BY <2>4, DiskFrame
  <2>8. CallInv' BY <2>2, <2>4, <2>5, <2>6, <2>7 DEF CallInv, OnlyOp, SameSnaps, Covers
  <2> QED BY <2>4, <2>7, <2>8 DEF PrepareInv, PrepareSteps, ApplyInv, RestoreInv, LostInv
<1>5. CASE BackendUnknown
  <2>1. Running /\ idx \in Ops
    BY <1>5, CallTypes DEF BackendUnknown, Running, ApplySteps
  <2>2. /\ mem \in Record /\ Covers(mem) /\ cur \in Unfinished
        /\ SameSnaps(mem, disk[cur])
        /\ mem.state \notin {"IntentDurable", "Restored"}
    BY <2>1, CallFacts
  <2>3. mem.ops[idx].state = "Applying" BY <1>5 DEF BackendUnknown, ApplyInv
  <2>4. PICK v \in Values :
          /\ value' = [value EXCEPT ![idx] = v]
          /\ lost' = [lost EXCEPT ![idx] =
                         IF v = value[idx] THEN NoValue ELSE value[idx]]
    BY <1>5 DEF BackendUnknown
  <2>5. /\ pc' = "failPersist" /\ UNCHANGED <<disk, mem, cur, idx>>
        /\ value[idx] = mem.ops[idx].snap
    BY <1>5 DEF BackendUnknown
  <2>6. DiskInv' BY <1>5, <2>4, <2>5, WriteCovered DEF BackendUnknown
  <2>7. /\ lost'[idx] \in {NoValue, value[idx]} /\ value'[idx] = v
        /\ lost'[idx] # NoValue => v # lost'[idx]
        /\ \A i \in Ops \ {idx} : lost'[i] = lost[i] /\ value'[i] = value[i]
    BY <2>1, <2>4 DEF TypeOK
  <2>8. Covers(mem)' BY <2>2, <2>3, <2>5, <2>7 DEF Covers, Owed
  <2>9. cur' \in Unfinished' /\ SameSnaps(mem', disk'[cur'])
    BY <2>2, <2>5 DEF Unfinished, SameSnaps
  <2>10. CallInv' BY <2>2, <2>5, <2>8, <2>9 DEF CallInv, SameSnaps
  <2>11. LostInv' BY <2>7 DEF LostInv
  <2> QED BY <2>5, <2>6, <2>10, <2>11 DEF PrepareInv, PrepareSteps, ApplyInv, RestoreInv
<1>6. ~BackendLeftover /\ ~BackendUnbound /\ ~BackendMisnamed
  BY DEF BackendLeftover, BackendUnbound, BackendMisnamed, CpuOutcomes
<1>7. CASE ApplyRecord
  <2>1. Running /\ idx \in Ops BY <1>7, CallTypes DEF ApplyRecord, Running, ApplySteps
  <2>2. /\ mem \in Record /\ Covers(mem) /\ SameSnaps(mem, mem)
        /\ mem.state \notin {"IntentDurable", "Restored"}
    BY <2>1, CallFacts DEF SameSnaps
  <2>3. PersistThen(mem, "applyVerify", "rollback") /\ UNCHANGED <<cur, lost, idx, value>>
    BY <1>7 DEF ApplyRecord
  <2>4. DiskInv' /\ CallInv' /\ mem' = mem /\ pc' \in {"applyVerify", "rollback"}
    BY <2>1, <2>2, <2>3, PersistKeeps
  <2>5. ApplyInv' BY <1>7, <2>3, <2>4 DEF ApplyRecord, ApplyInv
  <2> QED BY <2>3, <2>4, <2>5 DEF PrepareInv, PrepareSteps, RestoreInv, LostInv
<1>8. CASE ApplyVerify
  <2>1. Running /\ idx \in Ops BY <1>8, CallTypes DEF ApplyVerify, Running, ApplySteps
  <2>2. /\ mem \in Record /\ Covers(mem) /\ cur \in Unfinished
        /\ SameSnaps(mem, disk[cur])
        /\ mem.state \notin {"IntentDurable", "Restored"}
    BY <2>1, CallFacts
  <2>3. /\ mem.ops[idx].receipt = "bound" /\ mem.ops[idx].state # "Restored"
        /\ \A i \in Ops : i > idx => Untouched(mem.ops[i])
    BY <1>8 DEF ApplyVerify, ApplyInv
  <2>4. PICK m \in BOOLEAN : mem' = RecordVerification(mem, idx, m)
    BY <1>8 DEF ApplyVerify
  <2>5. UNCHANGED <<disk, cur, idx, lost, value>> /\ pc' \in {"applyVerified", "failPersist"}
    BY <1>8 DEF ApplyVerify
  <2>6. /\ OnlyOp(mem, mem', idx) /\ mem'.ops[idx].receipt = "bound"
        /\ mem'.ops[idx].state # "Restored"
    BY <2>1, <2>2, <2>3, <2>4, RecordVerificationFacts
  <2>7. Covers(mem') /\ SameSnaps(mem', mem)
    BY <2>1, <2>2, <2>6, CoversOnlyOp DEF Owed
  <2>8. DiskInv' /\ Unfinished' = Unfinished BY <2>5, DiskFrame
  <2>9. CallInv' BY <2>2, <2>5, <2>6, <2>7, <2>8 DEF CallInv, OnlyOp, SameSnaps, Covers
  <2>10. ApplyInv' BY <2>1, <2>3, <2>5, <2>6 DEF ApplyInv, OnlyOp, Ops, Untouched
  <2> QED BY <2>5, <2>8, <2>9, <2>10 DEF PrepareInv, PrepareSteps, RestoreInv, LostInv
<1>9. CASE ApplyVerified
  <2>1. Running /\ idx \in Ops BY <1>9, CallTypes DEF ApplyVerified, Running, ApplySteps
  <2>2. /\ mem \in Record /\ Covers(mem) /\ SameSnaps(mem, mem)
        /\ mem.state \notin {"IntentDurable", "Restored"}
    BY <2>1, CallFacts DEF SameSnaps
  <2> DEFINE next == IF idx = NumOps THEN "activate" ELSE "applyOp"
  <2>3. /\ PersistThen(mem, next, "rollback") /\ UNCHANGED <<cur, lost, value>>
        /\ idx' = IF pc' = "applyOp" THEN idx + 1 ELSE idx
    BY <1>9 DEF ApplyVerified
  <2>4. DiskInv' /\ CallInv' /\ mem' = mem /\ pc' \in {next, "rollback"}
    BY <2>1, <2>2, <2>3, PersistKeeps
  <2>5. \A i \in Ops : i > idx => Untouched(mem.ops[i])
    BY <1>9 DEF ApplyVerified, ApplyInv
  <2>6. ApplyInv' BY <2>1, <2>3, <2>4, <2>5 DEF ApplyInv, Ops
  <2> QED BY <2>3, <2>4, <2>6 DEF PrepareInv, PrepareSteps, RestoreInv, LostInv
<1>10. CASE FailPersist
  <2>1. Running BY <1>10 DEF FailPersist, Running, ApplySteps
  <2>2. /\ mem \in Record /\ Covers(mem) /\ SameSnaps(mem, mem)
        /\ mem.state \notin {"IntentDurable", "Restored"}
    BY <2>1, CallFacts DEF SameSnaps
  <2>3. PersistThen(mem, "rollback", "rollback") /\ UNCHANGED <<cur, lost, idx, value>>
    BY <1>10 DEF FailPersist
  <2>4. DiskInv' /\ CallInv' /\ pc' = "rollback"
    BY <2>1, <2>2, <2>3, PersistKeeps
  <2> QED BY <2>3, <2>4 DEF PrepareInv, PrepareSteps, ApplyInv, RestoreInv, LostInv
<1>11. CASE Activate \/ ActivateFail
  <2>1. Running BY <1>11 DEF Activate, ActivateFail, Running, ApplySteps
  <2>2. /\ mem \in Record /\ Covers(mem) /\ cur \in Unfinished
        /\ SameSnaps(mem, disk[cur])
        /\ mem.state \notin {"IntentDurable", "Restored"}
    BY <2>1, CallFacts
  <2> DEFINE r == WithState(mem, "Active")
  <2>3. r \in Record /\ r.ops = mem.ops /\ r.state \notin {"IntentDurable", "Restored"}
    BY <1>b, <2>2, WithStateFacts
  <2>4. Covers(r) /\ SameSnaps(r, disk[cur]) BY <2>2, <2>3 DEF Covers, SameSnaps
  <2>5. PICK ok \in BOOLEAN : Replace(cur, r, ok) /\ UNCHANGED <<lost, value>>
    BY <1>11 DEF Activate, ActivateFail
  <2>6. EndCall \/ (mem' = r /\ cur' = cur /\ pc' = "rollback")
    BY <1>11 DEF Activate, ActivateFail
  <2> HIDE DEF r
  <2>7. DiskInv' /\ cur \in Unfinished' /\ SameSnaps(r, disk'[cur])
    BY <2>2, <2>3, <2>4, <2>5, ReplaceKeeps
  <2>8. LostInv' BY <2>5 DEF LostInv
  <2>9. CASE EndCall BY <2>7, <2>8, <2>9, EndCallKeeps
  <2>10. CASE mem' = r /\ cur' = cur /\ pc' = "rollback"
    <3>1. CallInv' BY <2>3, <2>4, <2>5, <2>7, <2>10 DEF CallInv, Covers, SameSnaps
    <3> QED BY <2>7, <2>8, <2>10, <3>1 DEF PrepareInv, PrepareSteps, ApplyInv, RestoreInv
  <2> QED BY <2>6, <2>9, <2>10
<1>12. CASE ActivateClockError
  <2>1. DiskInv' BY <1>12, DiskFrame DEF ActivateClockError
  <2> QED BY <1>12, <2>1, EndCallKeeps DEF ActivateClockError, LostInv
<1>13. CASE RollbackAfterFailure
  <2>1. Running BY <1>13 DEF RollbackAfterFailure, Running, ApplySteps
  <2>2. /\ mem \in Record /\ Covers(mem)
        /\ mem.state \notin {"IntentDurable", "Restored"}
    BY <2>1, CallFacts
  <2> DEFINE next == IF mem.state = "Active" THEN "Restoring" ELSE "RollingBack"
             r == WithState(mem, next)
  <2>3. /\ r \in Record /\ r.ops = mem.ops
        /\ r.state \notin {"IntentDurable", "Restored"}
    BY <1>b, <2>2, WithStateFacts
  <2>4. PersistThen(r, "restoreOp", "restoreOp") /\ UNCHANGED <<cur, lost, value>>
    BY <1>13 DEF RollbackAfterFailure
  <2> HIDE DEF r
  <2>5. Covers(r) /\ SameSnaps(r, mem) BY <2>2, <2>3 DEF Covers, SameSnaps
  <2>6. DiskInv' /\ CallInv' /\ pc' = "restoreOp"
    BY <2>1, <2>3, <2>4, <2>5, PersistKeeps
  <2> QED BY <2>4, <2>6 DEF PrepareInv, PrepareSteps, ApplyInv, RestoreInv, LostInv
<1> QED BY <1>1, <1>2, <1>3, <1>4, <1>5, <1>6, <1>7, <1>8, <1>9, <1>10, <1>11,
           <1>12, <1>13 DEF ApplyStep

(* The steps of restore, recover_unfinished and restore_record. *)
LEMMA RestoreKeeps ==
    ASSUME TypeOK, TypeOK', Rest, RestoreCall \/ RestoreStep
    PROVE  Rest'
<1> USE DEF Rest
<1>a. ASSUME NEW s \in Unfinished, NEW ok \in BOOLEAN,
             Replace(s, RestoreState(disk[s]), ok), UNCHANGED <<lost, value>>
      PROVE  /\ DiskInv' /\ LostInv' /\ s \in Unfinished'
             /\ SameSnaps(RestoreState(disk[s]), disk'[s])
             /\ Covers(RestoreState(disk[s]))
             /\ RestoreState(disk[s]).state \notin {"IntentDurable", "Restored"}
  <2>1. disk[s] \in Record /\ disk[s].state # "Restored" BY DEF Unfinished, TypeOK
  <2> DEFINE r == RestoreState(disk[s])
  <2>2. /\ r \in Record /\ r.ops = disk[s].ops
        /\ r.state \notin {"IntentDurable", "Restored"}
    BY <2>1, RestoreStateFacts
  <2>3. Replace(s, r, ok) BY <1>a
  <2> HIDE DEF r
  <2>4. Covers(r) /\ SameSnaps(r, disk[s]) BY <2>2 DEF DiskInv, Covers, SameSnaps
  <2>5. DiskInv' /\ s \in Unfinished' /\ SameSnaps(r, disk'[s])
    BY <1>a, <2>2, <2>3, <2>4, ReplaceKeeps
  <2>6. LostInv' BY <1>a DEF LostInv
  <2> QED BY <2>2, <2>4, <2>5, <2>6 DEF r
<1>b. ASSUME NEW s \in Unfinished, StartRestore(s) PROVE Rest'
  <2> DEFINE r == RestoreState(disk[s])
  <2>1. /\ mem' = r /\ cur' = s /\ pc' = "restoreOp"
        /\ Replace(s, r, TRUE) /\ UNCHANGED <<lost, value>>
    BY <1>b DEF StartRestore
  <2>2. TRUE \in BOOLEAN OBVIOUS
  <2>3. /\ DiskInv' /\ LostInv' /\ s \in Unfinished'
        /\ SameSnaps(r, disk'[s]) /\ Covers(r)
        /\ r.state \notin {"IntentDurable", "Restored"}
    BY <1>a, <2>1, <2>2
  <2> HIDE DEF r
  <2>4. CallInv' BY <2>1, <2>3 DEF CallInv, Covers, SameSnaps
  <2> QED BY <2>1, <2>3, <2>4 DEF PrepareInv, PrepareSteps, ApplyInv, RestoreInv
<1>c. ASSUME NEW s \in Unfinished, Replace(s, RestoreState(disk[s]), FALSE),
             pc = "idle", UNCHANGED <<callVars, lost, value>>
      PROVE  Rest'
  <2>1. FALSE \in BOOLEAN OBVIOUS
  <2>2. DiskInv' /\ LostInv' BY <1>a, <1>c, <2>1
  <2> QED BY <1>c, <2>2 DEF callVars, CallInv, PrepareInv, ApplyInv, RestoreInv,
             Running, ApplySteps, RestoreSteps, PrepareSteps
<1>1. CASE RestoreBegin BY <1>1, <1>b DEF RestoreBegin
<1>2. CASE RestoreBeginFail BY <1>2, <1>c DEF RestoreBeginFail
<1>3. CASE ReleaseIfRestored
  <2>1. DiskInv' BY <1>3, DiskFrame DEF ReleaseIfRestored
  <2> QED BY <1>3, <2>1 DEF ReleaseIfRestored, callVars, CallInv, PrepareInv, ApplyInv,
             RestoreInv, LostInv, Running, ApplySteps, RestoreSteps, PrepareSteps
<1>4. ASSUME NEW s \in Sessions, RecoverBegin(s) PROVE Rest'
  BY <1>4, <1>b DEF RecoverBegin
<1>5. ASSUME NEW s \in Sessions, RecoverBeginFail(s) PROVE Rest'
  BY <1>5, <1>c DEF RecoverBeginFail
<1>6. CASE RestoreSkip \/ RestoreUncertain \/ RestoreOwned
  <2>1. Running /\ UNCHANGED <<disk, mem, cur, lost, value>>
    BY <1>6 DEF RestoreSkip, RestoreUncertain, RestoreOwned, Running, RestoreSteps
  <2>2. DiskInv' /\ Unfinished' = Unfinished BY <2>1, DiskFrame
  <2>3. CallInv' BY <2>1, <2>2 DEF CallInv, Covers, SameSnaps
  <2>4. \/ pc' \in {"conclude", "restoreOp"}
        \/ pc = "restoreVerify" /\ pc' = "restoreBackend" /\ idx' = idx
    BY <1>6 DEF RestoreSkip, RestoreUncertain, RestoreOwned, NextRestore
  <2>5. RestoreInv' BY <2>1, <2>4 DEF RestoreInv
  <2> QED BY <2>1, <2>2, <2>3, <2>4, <2>5 DEF PrepareInv, PrepareSteps, ApplyInv, LostInv
<1>7. CASE RestoreOpBegin
  <2>1. Running /\ idx \in Ops
    BY <1>7, CallTypes DEF RestoreOpBegin, Running, RestoreSteps
  <2>2. /\ mem \in Record /\ Covers(mem) /\ cur \in Unfinished
        /\ SameSnaps(mem, disk[cur])
        /\ mem.state \notin {"IntentDurable", "Restored"}
    BY <2>1, CallFacts
  <2> DEFINE r == BeginRestore(mem, idx)
  <2>3. /\ OnlyOp(mem, r, idx) /\ r.ops[idx].receipt # "none"
        /\ r.ops[idx].state = "Restoring"
    BY <1>7, <2>1, <2>2, MoveFacts DEF RestoreOpBegin, Op
  <2>4. PICK ok \in BOOLEAN : Replace(cur, r, ok) BY <1>7 DEF RestoreOpBegin
  <2>5. mem' = r /\ pc' = "restoreVerify" /\ UNCHANGED <<cur, idx, lost, value>>
    BY <1>7 DEF RestoreOpBegin
  <2> HIDE DEF r
  <2>6. Covers(r) /\ SameSnaps(r, mem)
    BY <2>1, <2>2, <2>3, CoversOnlyOp DEF Owed
  <2>7. /\ SameSnaps(r, disk[cur]) /\ r \in Record
        /\ r.state \notin {"IntentDurable", "Restored"}
    BY <2>2, <2>3, <2>6 DEF SameSnaps, OnlyOp
  <2>8. DiskInv' /\ cur \in Unfinished' /\ SameSnaps(r, disk'[cur])
    BY <2>2, <2>4, <2>5, <2>6, <2>7, ReplaceKeeps
  <2>9. CallInv' BY <2>5, <2>6, <2>7, <2>8 DEF CallInv, Covers, SameSnaps
  <2>10. RestoreInv' BY <2>3, <2>5 DEF RestoreInv
  <2> QED BY <2>5, <2>8, <2>9, <2>10 DEF PrepareInv, PrepareSteps, ApplyInv, LostInv
<1>8. CASE RestoreFound
  <2>1. Running /\ idx \in Ops
    BY <1>8, CallTypes DEF RestoreFound, Running, RestoreSteps
  <2>2. /\ mem \in Record /\ Covers(mem) /\ cur \in Unfinished
        /\ SameSnaps(mem, disk[cur])
        /\ mem.state \notin {"IntentDurable", "Restored"}
    BY <2>1, CallFacts
  <2>3. /\ mem' = RecordRestore(mem, idx) /\ pc' = "restoreRecord"
        /\ UNCHANGED <<disk, cur, idx, lost, value>>
        /\ value[idx] = mem.ops[idx].snap
    BY <1>8 DEF RestoreFound, Op
  <2>4. lost[idx] = NoValue BY <2>1, <2>2, <2>3 DEF LostInv, Covers
  <2>5. OnlyOp(mem, mem', idx) BY <2>1, <2>2, <2>3, RecordRestoreFacts
  <2>6. Covers(mem') /\ SameSnaps(mem', mem) BY <2>1, <2>2, <2>4, <2>5, CoversOnlyOp
  <2>7. DiskInv' /\ Unfinished' = Unfinished BY <2>3, DiskFrame
  <2>8. CallInv' BY <2>2, <2>3, <2>5, <2>6, <2>7 DEF CallInv, OnlyOp, SameSnaps, Covers
  <2> QED BY <2>3, <2>7, <2>8 DEF PrepareInv, PrepareSteps, ApplyInv, RestoreInv, LostInv
<1>9. CASE BackendRestored
  <2>1. Running /\ idx \in Ops
    BY <1>9, CallTypes DEF BackendRestored, Running, RestoreSteps
  <2>2. /\ mem \in Record /\ Covers(mem) /\ cur \in Unfinished
        /\ SameSnaps(mem, disk[cur])
        /\ mem.state \notin {"IntentDurable", "Restored"}
    BY <2>1, CallFacts
  <2>3. /\ mem' = RecordRestore(mem, idx) /\ pc' = "restoreRecord"
        /\ UNCHANGED <<disk, cur, idx>>
        /\ value' = [value EXCEPT ![idx] = mem.ops[idx].snap]
        /\ lost' = [lost EXCEPT ![idx] = NoValue]
    BY <1>9 DEF BackendRestored, Op
  <2>4. /\ lost'[idx] = NoValue
        /\ \A i \in Ops \ {idx} : lost'[i] = lost[i] /\ value'[i] = value[i]
    BY <2>1, <2>3 DEF TypeOK
  <2>5. OnlyOp(mem, mem', idx) BY <2>1, <2>2, <2>3, RecordRestoreFacts
  <2>6. DiskInv' /\ Unfinished' = Unfinished BY <2>3, <2>4, DiskFrame
  <2>7. Covers(mem)' BY <2>2, <2>4, <2>5 DEF Covers, OnlyOp
  <2>8. SameSnaps(mem', disk'[cur']) BY <2>2, <2>3, <2>5 DEF SameSnaps, OnlyOp
  <2>9. CallInv' BY <2>2, <2>3, <2>5, <2>6, <2>7, <2>8 DEF CallInv, OnlyOp, SameSnaps
  <2>10. LostInv' BY <2>4 DEF LostInv
  <2> QED BY <2>3, <2>6, <2>9, <2>10 DEF PrepareInv, PrepareSteps, ApplyInv, RestoreInv
<1>10. CASE RestoreRefused \/ BackendRestoreFailed
  <2>1. Running /\ idx \in Ops
    BY <1>10, CallTypes DEF RestoreRefused, BackendRestoreFailed, Running, RestoreSteps
  <2>2. /\ mem \in Record /\ Covers(mem) /\ cur \in Unfinished
        /\ SameSnaps(mem, disk[cur])
        /\ mem.state \notin {"IntentDurable", "Restored"}
    BY <2>1, CallFacts
  <2>3. /\ mem' = FailRestore(mem, idx) /\ pc' = "restoreFailPersist"
        /\ UNCHANGED <<disk, cur, idx>>
        /\ mem.ops[idx].receipt # "none" /\ mem.ops[idx].state = "Restoring"
    BY <1>10 DEF RestoreRefused, BackendRestoreFailed, RestoreInv
  <2>4. /\ OnlyOp(mem, mem', idx) /\ mem'.ops[idx].receipt # "none"
        /\ mem'.ops[idx].state # "Restored"
    BY <2>1, <2>2, <2>3, MoveFacts
  <2>5. /\ lost'[idx] \in {lost[idx], NoValue}
        /\ lost'[idx] # NoValue => value'[idx] \in {value[idx]} \cup (Values \ {mem.ops[idx].snap})
        /\ \A i \in Ops \ {idx} : lost'[i] = lost[i] /\ value'[i] = value[i]
    <3>1. CASE UNCHANGED <<value, lost>> BY <3>1
    <3>2. CASE ~UNCHANGED <<value, lost>>
      <4>1. PICK v \in Values \ {Desired} :
                /\ value' = [value EXCEPT ![idx] = v]
                /\ lost' = [lost EXCEPT ![idx] =
                               IF v = mem.ops[idx].snap THEN NoValue ELSE lost[idx]]
        BY <1>10, <3>2 DEF RestoreRefused, BackendRestoreFailed, Op
      <4> QED BY <2>1, <4>1 DEF TypeOK
    <3> QED BY <3>1, <3>2
  <2>6. \A i \in Ops : lost'[i] \in {lost[i], NoValue} BY <2>5
  <2>7. DiskInv' /\ Unfinished' = Unfinished BY <2>3, <2>6, DiskFrame
  <2>8. Covers(mem)' BY <2>2, <2>4, <2>6 DEF Covers, OnlyOp, Owed
  <2>9. SameSnaps(mem', disk'[cur']) BY <2>2, <2>3, <2>4 DEF SameSnaps, OnlyOp
  <2>10. CallInv' BY <2>2, <2>3, <2>4, <2>7, <2>8, <2>9 DEF CallInv, OnlyOp, SameSnaps
  <2>11. LostInv' BY <2>1, <2>2, <2>5 DEF LostInv, Covers
  <2> QED BY <2>3, <2>7, <2>10, <2>11 DEF PrepareInv, PrepareSteps, ApplyInv, RestoreInv
<1>11. CASE RestoreRecord \/ RestoreFailPersist
  <2>1. Running BY <1>11 DEF RestoreRecord, RestoreFailPersist, Running, RestoreSteps
  <2>2. /\ mem \in Record /\ Covers(mem) /\ cur \in Unfinished
        /\ SameSnaps(mem, disk[cur])
        /\ mem.state \notin {"IntentDurable", "Restored"}
    BY <2>1, CallFacts
  <2>3. PICK ok \in BOOLEAN : Replace(cur, mem, ok)
    BY <1>11 DEF RestoreRecord, RestoreFailPersist
  <2>4. UNCHANGED <<mem, cur, lost, value>> /\ pc' \in {"conclude", "restoreOp"}
    BY <1>11 DEF RestoreRecord, RestoreFailPersist, NextRestore
  <2>5. DiskInv' /\ cur \in Unfinished' /\ SameSnaps(mem, disk'[cur])
    BY <2>2, <2>3, <2>4, ReplaceKeeps
  <2>6. CallInv' BY <2>2, <2>4, <2>5 DEF CallInv, Covers, SameSnaps
  <2> QED BY <2>4, <2>5, <2>6 DEF PrepareInv, PrepareSteps, ApplyInv, RestoreInv, LostInv
<1>12. CASE ConcludeRestored
  <2>1. Running BY <1>12 DEF ConcludeRestored, Running, RestoreSteps
  <2>2. /\ mem \in Record /\ Covers(mem) /\ cur \in Unfinished /\ cur \in Sessions
        /\ SameSnaps(mem, disk[cur])
        /\ mem.state \notin {"IntentDurable", "Restored"}
    BY <2>1, CallFacts
  <2>3. \A i \in Ops : lost[i] = NoValue
    BY <1>12, <2>2 DEF ConcludeRestored, Proven, RestorationProven, NeedsRestore, Covers, Owed
  <2> DEFINE r == WithState(mem, "Restored")
  <2>4. r \in Record /\ r.ops = mem.ops /\ r.state # "IntentDurable"
    BY <2>2, WithStateFacts DEF SessionState
  <2>5. r # NoRecord BY <2>4, NullsAssumption
  <2>6. disk' = disk \/ disk' = [disk EXCEPT ![cur] = r]
    BY <1>12 DEF ConcludeRestored, Replace
  <2>7. UNCHANGED <<lost, value>> /\ EndCall BY <1>12 DEF ConcludeRestored
  <2> HIDE DEF r
  <2>8. disk'[cur] \in {disk[cur], r} /\ \A t \in Sessions \ {cur} : disk'[t] = disk[t]
    BY <2>2, <2>6 DEF TypeOK
  <2>9. Unfinished' \subseteq Unfinished BY <2>2, <2>8 DEF Unfinished
  <2>10. \A t \in Sessions : disk'[t] # NoRecord =>
           \A i \in Ops : disk'[t].ops[i].snap # Desired
    BY <2>1, <2>2, <2>4, <2>8, CallFacts DEF DiskInv
  <2>11. \A t \in Sessions : disk'[t] # NoRecord /\ disk'[t].state = "IntentDurable" =>
           \A i \in Ops : Untouched(disk'[t].ops[i])
    BY <2>4, <2>8 DEF DiskInv
  <2>12. \A t \in Unfinished' : Covers(disk[t])' BY <2>3, <2>7 DEF Covers
  <2>13. DiskInv'
    BY <2>3, <2>7, <2>9, <2>10, <2>11, <2>12 DEF DiskInv, AtMostOneUnfinished, Untouched
  <2> QED BY <2>7, <2>13, EndCallKeeps DEF LostInv
<1>13. CASE ConcludeDegraded
  <2>1. Running BY <1>13 DEF ConcludeDegraded, Running, RestoreSteps
  <2>2. /\ mem \in Record /\ Covers(mem) /\ cur \in Unfinished
        /\ SameSnaps(mem, disk[cur])
        /\ mem.state \notin {"IntentDurable", "Restored"}
    BY <2>1, CallFacts
  <2> DEFINE r == DegradedRecord(mem)
  <2>3. r \in Record /\ r.ops = mem.ops /\ r.state \notin {"IntentDurable", "Restored"}
    BY <2>2, DegradedFacts
  <2>4. PICK ok \in BOOLEAN : Replace(cur, r, ok) BY <1>13 DEF ConcludeDegraded
  <2>5. UNCHANGED <<lost, value>> /\ EndCall BY <1>13 DEF ConcludeDegraded
  <2> HIDE DEF r
  <2>6. Covers(r) /\ SameSnaps(r, disk[cur]) BY <2>2, <2>3 DEF Covers, SameSnaps
  <2>7. DiskInv' BY <2>2, <2>3, <2>4, <2>5, <2>6, ReplaceKeeps
  <2> QED BY <2>5, <2>7, EndCallKeeps DEF LostInv
<1> QED BY <1>1, <1>2, <1>3, <1>4, <1>5, <1>6, <1>7, <1>8, <1>9, <1>10, <1>11,
           <1>12, <1>13 DEF RestoreCall, RestoreStep

(* A crash, another writer and the end of the faults keep it. *)
LEMMA EnvironmentKeeps ==
    ASSUME TypeOK, Rest, Crash \/ OtherWrite \/ FaultsStop \/ UNCHANGED vars
    PROVE  Rest'
<1> USE DEF Rest
<1>1. CASE Crash
  <2>1. DiskInv' BY <1>1, DiskFrame DEF Crash
  <2> QED BY <1>1, <2>1, EndCallKeeps DEF Crash, LostInv
<1>2. CASE OtherWrite
  <2>1. PICK i \in Ops, v \in Values :
          /\ value' = [value EXCEPT ![i] = v]
          /\ lost' = [lost EXCEPT ![i] = NoValue]
    BY <1>2 DEF OtherWrite
  <2>2. /\ \A j \in Ops \ {i} : lost'[j] = lost[j] /\ value'[j] = value[j]
        /\ lost'[i] = NoValue
    BY <2>1 DEF TypeOK
  <2>3. \A j \in Ops : lost'[j] \in {lost[j], NoValue} BY <2>2
  <2>4. UNCHANGED <<disk, callVars>> BY <1>2 DEF OtherWrite
  <2>5. DiskInv' /\ Unfinished' = Unfinished BY <2>3, <2>4, DiskFrame
  <2>6. CallInv' BY <2>3, <2>4, <2>5 DEF CallInv, callVars, Running, Covers, SameSnaps
  <2>7. LostInv' BY <2>2 DEF LostInv
  <2>8. PrepareInv' /\ RestoreInv' BY <2>4, <2>5 DEF callVars, PrepareInv, RestoreInv
  <2>9. pc = "applyBackend" => idx \in Ops BY CallTypes DEF ApplySteps
  <2>10. ApplyInv' BY <2>3, <2>4, <2>9 DEF callVars, ApplyInv, Untouched
  <2> QED BY <2>5, <2>6, <2>7, <2>8, <2>10
<1>3. CASE FaultsStop \/ UNCHANGED vars
  <2>1. UNCHANGED <<disk, callVars, lost, value>> BY <1>3 DEF FaultsStop, vars, callVars
  <2>2. DiskInv' /\ Unfinished' = Unfinished BY <2>1, DiskFrame
  <2>3. CallInv' BY <2>1, <2>2 DEF CallInv, callVars, Running, Covers, SameSnaps
  <2> QED BY <2>1, <2>2, <2>3 DEF callVars, PrepareInv, RestoreInv, ApplyInv, LostInv, Untouched
<1> QED BY <1>1, <1>2, <1>3

(* The engine starts in the invariant. *)
LEMMA InitRest == Init => Rest
<1> SUFFICES ASSUME Init PROVE Rest OBVIOUS
<1>1. Unfinished = {} BY DEF Init, Unfinished
<1>2. \A i \in Ops : lost[i] = NoValue BY DEF Init
<1>3. \A s \in Sessions : disk[s] = NoRecord BY DEF Init
<1>4. DiskInv BY <1>1, <1>2, <1>3 DEF DiskInv, AtMostOneUnfinished
<1> QED BY <1>2, <1>4 DEF Init, Rest, CallInv, PrepareInv, ApplyInv, RestoreInv,
           LostInv, Running, ApplySteps, RestoreSteps, PrepareSteps

(* The invariant is inductive, for a backend like CpuBackend. *)
LEMMA Inductive ==
    ASSUME ApplyOutcomes \subseteq CpuOutcomes
    PROVE  IInv /\ [Next]_vars => IInv'
<1> SUFFICES ASSUME TypeOK, Rest, [Next]_vars PROVE TypeOK' /\ Rest'
  BY DEF IInv, Rest
<1>1. TypeOK' BY NextType
<1>2. Rest'
  BY <1>1, PrepareKeeps, ApplyKeeps, RestoreKeeps, EnvironmentKeeps DEF Next, CallStep
<1> QED BY <1>1, <1>2

(* What the invariant says of the journal and the host. *)
LEMMA Consequences ==
    ASSUME IInv
    PROVE  JournalCoversHost /\ AtMostOneUnfinished /\ RestoredMeansOriginal
<1>1. ASSUME NEW i \in Ops, lost[i] # NoValue
      PROVE  \E s \in Unfinished :
                Owed(disk[s].ops[i]) /\ disk[s].ops[i].snap = lost[i]
  <2>1. PICK s \in Unfinished : TRUE BY <1>1 DEF IInv, DiskInv
  <2>2. Covers(disk[s]) BY DEF IInv, DiskInv
  <2> QED BY <1>1, <2>1, <2>2 DEF Covers
<1> QED BY <1>1 DEF JournalCoversHost, RestoredMeansOriginal, IInv, DiskInv

(* Crash safety, for any number of operations, sessions and values: with a  *)
(* backend of CpuBackend's outcomes, after any interleaving of crashes,     *)
(* failing journal writes, failing backend calls and foreign writes, a      *)
(* write in place is owed by an unfinished durable record that holds the    *)
(* value it replaced.                                                       *)
THEOREM JournalSafety ==
    ASSUME ApplyOutcomes \subseteq CpuOutcomes
    PROVE  Spec => []JournalCoversHost
<1>1. Init => IInv BY InitType, InitRest DEF IInv, Rest
<1>2. IInv /\ [Next]_vars => IInv' BY Inductive
<1>3. IInv => JournalCoversHost BY Consequences
<1> QED BY <1>1, <1>2, <1>3, PTL DEF Spec

(* What SAFETY.md says of Restored holds for CpuBackend's outcomes: with    *)
(* nothing unfinished on disk no write of a session is in place.  (It fails *)
(* for WorkloadBackend's.)                                                  *)
THEOREM CpuRestoredMeansOriginal ==
    ASSUME ApplyOutcomes \subseteq CpuOutcomes
    PROVE  Spec => []RestoredMeansOriginal
<1>1. Init => IInv BY InitType, InitRest DEF IInv, Rest
<1>2. IInv /\ [Next]_vars => IInv' BY Inductive
<1>3. IInv => RestoredMeansOriginal BY Consequences
<1> QED BY <1>1, <1>2, <1>3, PTL DEF Spec

-----------------------------------------------------------------------------
(* One session at a time, over any backend                                   *)

(* A call works on the unfinished session and does not think it restored;    *)
(* prepare runs with nothing unfinished.                                     *)
SessionInv ==
    /\ AtMostOneUnfinished
    /\ Running => cur \in Unfinished /\ mem.state # "Restored"
    /\ pc \in PrepareSteps => Unfinished = {}

(* What is durably restored stays as it is. *)
Final ==
    \A s \in Sessions :
        disk[s] # NoRecord /\ disk[s].state = "Restored" => disk'[s] = disk[s]

(* At most the file of the unfinished session s is replaced, by a record of  *)
(* it that is not restored unless the call ends.                             *)
SavesAtMost(s) ==
    \/ disk' = disk
    \/ \E rec \in Record : /\ disk' = [disk EXCEPT ![s] = rec]
                           /\ rec.state # "Restored" \/ pc' = "idle"

(* The call of session s goes on or ends. *)
GoesOn(s) == pc' = "idle" \/ (Running' /\ cur' = s /\ mem'.state # "Restored")

LEMMA SessionStep ==
    ASSUME TypeOK, SessionInv, NEW s \in Unfinished, SavesAtMost(s), GoesOn(s)
    PROVE  SessionInv' /\ Final
<1>1. disk \in [Sessions -> Record \cup {NoRecord}] /\ s \in Sessions
  BY DEF TypeOK, Unfinished
<1>2. Unfinished = {s}
  BY DEF SessionInv, AtMostOneUnfinished
<1>3. Unfinished' \subseteq {s} /\ Final /\ (s \in Unfinished' \/ pc' = "idle")
  <2>1. CASE disk' = disk
    BY <1>2, <2>1 DEF Unfinished, Final
  <2>2. ASSUME NEW rec \in Record, disk' = [disk EXCEPT ![s] = rec],
               rec.state # "Restored" \/ pc' = "idle"
        PROVE  Unfinished' \subseteq {s} /\ Final /\ (s \in Unfinished' \/ pc' = "idle")
    <3>1. \A x \in Sessions \ {s} : disk'[x] = disk[x]
      BY <1>1, <2>2
    <3>2. disk'[s] = rec /\ rec # NoRecord
      BY <1>1, <2>2, NullsAssumption
    <3> QED
      BY <1>2, <2>2, <3>1, <3>2 DEF Unfinished, Final
  <2> QED
    BY <2>1, <2>2 DEF SavesAtMost
<1> QED
  BY <1>3 DEF SessionInv, AtMostOneUnfinished, GoesOn, Running, ApplySteps, RestoreSteps, PrepareSteps

(* Writing the record of the running call. *)
LEMMA WritesRecord ==
    ASSUME NEW s, NEW rec \in Record, rec.state # "Restored" \/ pc' = "idle",
           NEW ok, Replace(s, rec, ok)
    PROVE  SavesAtMost(s)
BY DEF Replace, SavesAtMost

LEMMA PersistsRecord ==
    ASSUME NEW rec \in Record, rec.state # "Restored", NEW okPc, NEW errPc,
           PersistThen(rec, okPc, errPc)
    PROVE  SavesAtMost(cur) /\ mem' = rec /\ pc' \in {okPc, errPc}
<1>1. mem' = rec /\ pc' \in {okPc, errPc}
  BY DEF PersistThen
<1>2. PICK ok \in BOOLEAN : Replace(cur, rec, ok)
  BY DEF PersistThen
<1> QED
  BY <1>1, <1>2, WritesRecord

(* What a running call has in hand. *)
LEMMA InCall ==
    ASSUME TypeOK, SessionInv, Running
    PROVE  mem \in Record /\ cur \in Unfinished /\ mem.state # "Restored"
BY DEF TypeOK, SessionInv, Running

LEMMA SessionInApply ==
    ASSUME TypeOK, SessionInv, ApplyStep
    PROVE  SessionInv' /\ Final
<1>b. {"Applying", "Active", "Restoring", "RollingBack"} \subseteq SessionState
      /\ "Applying" \in OperationState
  BY DEF SessionState, OperationState
<1>0. Running
  BY DEF ApplyStep, Running, ApplySteps, ApplyOp, BackendApplied, BackendRefused, BackendUnknown,
     BackendLeftover, BackendUnbound, BackendMisnamed, ApplyRecord, ApplyVerify, ApplyVerified,
     FailPersist, Activate, ActivateClockError, ActivateFail, RollbackAfterFailure
<1>c. mem \in Record /\ cur \in Unfinished /\ mem.state # "Restored"
  BY <1>0, InCall
<1>i. pc \notin {"idle", "rollback", "conclude"} => idx \in Ops
  BY DEF TypeOK
<1>1. CASE ApplyOp
  <2> DEFINE r == WithOp(mem, idx, "Applying")
  <2>1. r \in Record /\ r.state = mem.state
    BY <1>1, <1>b, <1>c, <1>i, WithOpFacts DEF ApplyOp
  <2>2. PersistThen(r, "applyBackend", "rollback") /\ cur' = cur
    BY <1>1 DEF ApplyOp
  <2> HIDE DEF r
  <2>3. SavesAtMost(cur) /\ mem' = r /\ pc' \in {"applyBackend", "rollback"}
    BY <1>c, <2>1, <2>2, PersistsRecord
  <2>4. GoesOn(cur)
    BY <1>c, <2>1, <2>2, <2>3 DEF GoesOn, Running, ApplySteps
  <2> QED
    BY <1>c, <2>3, <2>4, SessionStep
<1>2. CASE BackendApplied \/ BackendRefused \/ BackendUnknown \/ BackendLeftover \/ BackendUnbound
  <2>1. pc = "applyBackend" /\ disk' = disk /\ cur' = cur /\ pc' \in {"applyRecord", "failPersist"}
    BY <1>2 DEF BackendApplied, BackendRefused, BackendUnknown, BackendLeftover, BackendUnbound
  <2>2. idx \in Ops
    BY <1>i, <2>1
  <2>3. /\ RecordApply(mem, idx, "bound").state = mem.state
        /\ FailOperation(mem, idx).state = mem.state
        /\ FailOperation(RecordApply(mem, idx, "unbound"), idx).state = mem.state
    <3>1. /\ OnlyOp(mem, RecordApply(mem, idx, "bound"), idx)
          /\ OnlyOp(mem, RecordApply(mem, idx, "unbound"), idx)
      BY <1>c, <2>2, RecordApplyFacts
    <3>2. OnlyOp(mem, FailOperation(mem, idx), idx)
      BY <1>c, <2>2, MoveFacts
    <3> DEFINE u == RecordApply(mem, idx, "unbound")
    <3>3. u \in Record /\ u.state = mem.state
      BY <3>1 DEF OnlyOp
    <3> HIDE DEF u
    <3>4. OnlyOp(u, FailOperation(u, idx), idx)
      BY <2>2, <3>3, MoveFacts
    <3> QED
      BY <3>1, <3>2, <3>3, <3>4 DEF OnlyOp, u
  <2>4. mem'.state = mem.state
    BY <1>2, <2>3 DEF BackendApplied, BackendRefused, BackendUnknown, BackendLeftover, BackendUnbound
  <2>5. SavesAtMost(cur) /\ GoesOn(cur)
    BY <1>c, <2>1, <2>4 DEF SavesAtMost, GoesOn, Running, ApplySteps
  <2> QED
    BY <1>c, <2>5, SessionStep
<1>3. CASE ApplyRecord \/ ApplyVerified \/ FailPersist
  <2>1. PICK okPc \in ApplySteps : PersistThen(mem, okPc, "rollback")
    BY <1>3 DEF ApplyRecord, ApplyVerified, FailPersist, ApplySteps
  <2>2. cur' = cur
    BY <1>3 DEF ApplyRecord, ApplyVerified, FailPersist
  <2>3. SavesAtMost(cur) /\ mem' = mem /\ pc' \in {okPc, "rollback"}
    BY <1>c, <2>1, PersistsRecord
  <2>4. GoesOn(cur)
    BY <1>c, <2>2, <2>3 DEF GoesOn, Running, ApplySteps
  <2> QED
    BY <1>c, <2>3, <2>4, SessionStep
<1>4. CASE ApplyVerify
  <2>1. disk' = disk /\ cur' = cur /\ pc' \in {"applyVerified", "failPersist"} /\ idx \in Ops
        /\ \E m \in BOOLEAN : mem' = RecordVerification(mem, idx, m)
    BY <1>4, <1>i DEF ApplyVerify
  <2>2. mem'.state = mem.state
    BY <1>c, <2>1, RecordVerificationFacts DEF OnlyOp
  <2>3. SavesAtMost(cur) /\ GoesOn(cur)
    BY <1>c, <2>1, <2>2 DEF SavesAtMost, GoesOn, Running, ApplySteps
  <2> QED
    BY <1>c, <2>3, SessionStep
<1>5. CASE BackendMisnamed \/ Activate \/ ActivateClockError
  <2>1. pc' = "idle"
    BY <1>5 DEF BackendMisnamed, Activate, ActivateClockError, EndCall
  <2>2. WithState(mem, "Active") \in Record
    BY <1>b, <1>c, WithStateFacts
  <2>3. SavesAtMost(cur)
    BY <1>5, <2>1, <2>2, WritesRecord
       DEF BackendMisnamed, Activate, ActivateClockError, SavesAtMost
  <2> QED
    BY <1>c, <2>1, <2>3, SessionStep DEF GoesOn
<1>6. CASE ActivateFail
  <2> DEFINE r == WithState(mem, "Active")
  <2>1. r \in Record /\ r.state # "Restored"
    BY <1>b, <1>c, WithStateFacts
  <2>2. mem' = r /\ Replace(cur, r, FALSE) /\ cur' = cur /\ pc' = "rollback"
    BY <1>6 DEF ActivateFail
  <2> HIDE DEF r
  <2>3. SavesAtMost(cur) /\ GoesOn(cur)
    BY <2>1, <2>2, WritesRecord DEF GoesOn, Running, ApplySteps
  <2> QED
    BY <1>c, <2>3, SessionStep
<1>7. CASE RollbackAfterFailure
  <2> DEFINE r == WithState(mem, IF mem.state = "Active" THEN "Restoring" ELSE "RollingBack")
  <2>1. r \in Record /\ r.state # "Restored"
    BY <1>b, <1>c, WithStateFacts
  <2>2. PersistThen(r, "restoreOp", "restoreOp") /\ cur' = cur
    BY <1>7 DEF RollbackAfterFailure
  <2> HIDE DEF r
  <2>3. SavesAtMost(cur) /\ mem' = r /\ pc' = "restoreOp"
    BY <2>1, <2>2, PersistsRecord
  <2>4. GoesOn(cur)
    BY <2>1, <2>2, <2>3 DEF GoesOn, Running, RestoreSteps
  <2> QED
    BY <1>c, <2>3, <2>4, SessionStep
<1> QED
  BY <1>1, <1>2, <1>3, <1>4, <1>5, <1>6, <1>7 DEF ApplyStep

LEMMA SessionInRestore ==
    ASSUME TypeOK, SessionInv, RestoreStep
    PROVE  SessionInv' /\ Final
<1>0. Running
  BY DEF RestoreStep, Running, RestoreSteps, RestoreSkip, RestoreUncertain, RestoreOpBegin,
     RestoreFound, RestoreOwned, RestoreRefused, BackendRestored, BackendRestoreFailed,
     RestoreRecord, RestoreFailPersist, ConcludeRestored, ConcludeDegraded
<1>c. mem \in Record /\ cur \in Unfinished /\ mem.state # "Restored"
  BY <1>0, InCall
<1>i. pc # "conclude" /\ pc \in RestoreSteps => idx \in Ops
  BY DEF TypeOK, RestoreSteps
<1>m. idx \in Ops =>
        /\ BeginRestore(mem, idx) \in Record /\ BeginRestore(mem, idx).state = mem.state
        /\ RecordRestore(mem, idx).state = mem.state
        /\ FailRestore(mem, idx).state = mem.state
  BY <1>c, MoveFacts, RecordRestoreFacts DEF OnlyOp
<1>1. CASE RestoreSkip \/ RestoreUncertain \/ RestoreOwned
  <2>1. disk' = disk /\ mem' = mem /\ cur' = cur
        /\ pc' \in {"conclude", "restoreOp", "restoreBackend"}
    BY <1>1 DEF RestoreSkip, RestoreUncertain, RestoreOwned, NextRestore
  <2>2. SavesAtMost(cur) /\ GoesOn(cur)
    BY <1>c, <2>1 DEF SavesAtMost, GoesOn, Running, RestoreSteps
  <2> QED
    BY <1>c, <2>2, SessionStep
<1>2. CASE RestoreOpBegin
  <2>1. pc = "restoreOp" /\ pc' = "restoreVerify" /\ cur' = cur /\ mem' = BeginRestore(mem, idx)
        /\ \E ok \in BOOLEAN : Replace(cur, mem', ok)
    BY <1>2 DEF RestoreOpBegin
  <2>2. mem' \in Record /\ mem'.state = mem.state
    BY <1>i, <1>m, <2>1 DEF RestoreSteps
  <2>3. SavesAtMost(cur)
    BY <1>c, <2>1, <2>2, WritesRecord
  <2>4. GoesOn(cur)
    BY <1>c, <2>1, <2>2 DEF GoesOn, Running, RestoreSteps
  <2> QED
    BY <1>c, <2>3, <2>4, SessionStep
<1>3. CASE RestoreFound \/ RestoreRefused \/ BackendRestored \/ BackendRestoreFailed
  <2>1. /\ pc \in {"restoreVerify", "restoreBackend"} /\ disk' = disk /\ cur' = cur
        /\ pc' \in {"restoreRecord", "restoreFailPersist"}
        /\ mem' \in {RecordRestore(mem, idx), FailRestore(mem, idx)}
    BY <1>3 DEF RestoreFound, RestoreRefused, BackendRestored, BackendRestoreFailed
  <2>2. mem'.state = mem.state
    BY <1>i, <1>m, <2>1 DEF RestoreSteps
  <2>3. SavesAtMost(cur) /\ GoesOn(cur)
    BY <1>c, <2>1, <2>2 DEF SavesAtMost, GoesOn, Running, RestoreSteps
  <2> QED
    BY <1>c, <2>3, SessionStep
<1>4. CASE RestoreRecord \/ RestoreFailPersist
  <2>1. /\ mem' = mem /\ cur' = cur /\ pc' \in {"conclude", "restoreOp"}
        /\ \E ok \in BOOLEAN : Replace(cur, mem, ok)
    BY <1>4 DEF RestoreRecord, RestoreFailPersist, NextRestore
  <2>2. SavesAtMost(cur)
    BY <1>c, <2>1, WritesRecord
  <2>3. GoesOn(cur)
    BY <1>c, <2>1 DEF GoesOn, Running, RestoreSteps
  <2> QED
    BY <1>c, <2>2, <2>3, SessionStep
<1>5. CASE ConcludeRestored \/ ConcludeDegraded
  <2>1. pc' = "idle"
    BY <1>5 DEF ConcludeRestored, ConcludeDegraded, EndCall
  <2>2. WithState(mem, "Restored") \in Record /\ DegradedRecord(mem) \in Record
    BY <1>c, WithStateFacts, DegradedFacts DEF SessionState
  <2>3. \E rec \in Record : \E ok \in BOOLEAN : Replace(cur, rec, ok)
    BY <1>5, <2>2 DEF ConcludeRestored, ConcludeDegraded
  <2>4. SavesAtMost(cur)
    BY <2>1, <2>3, WritesRecord
  <2> QED
    BY <1>c, <2>1, <2>4, SessionStep DEF GoesOn
<1> QED
  BY <1>1, <1>2, <1>3, <1>4, <1>5 DEF RestoreStep

(* The steps between calls, of prepare and of the environment. *)
LEMMA SessionOutside ==
    ASSUME TypeOK, SessionInv,
           \/ PrepareBegin \/ AbortPrepared \/ ApplyBegin \/ RestoreCall \/ PrepareStep
           \/ Crash \/ OtherWrite \/ FaultsStop \/ UNCHANGED vars
    PROVE  SessionInv' /\ Final
<1>0. disk \in [Sessions -> Record \cup {NoRecord}]
  BY DEF TypeOK
<1>1. CASE PrepareBegin \/ SnapshotOp \/ PrepareFail \/ ReleaseIfRestored \/ Crash
  <2>1. disk' = disk /\ (pc' = "idle" \/ (pc' \in PrepareSteps /\ Unfinished = {}))
    BY <1>1 DEF PrepareBegin, SnapshotOp, PrepareFail, ReleaseIfRestored, Crash, EndCall, callVars,
       PrepareSteps, SessionInv
  <2> QED
    BY <2>1 DEF SessionInv, Final, AtMostOneUnfinished, Unfinished, Running, ApplySteps,
       RestoreSteps, PrepareSteps
<1>2. CASE OtherWrite \/ FaultsStop \/ UNCHANGED vars
  <2>1. disk' = disk /\ mem' = mem /\ cur' = cur /\ pc' = pc
    BY <1>2 DEF OtherWrite, FaultsStop, vars, callVars
  <2> QED
    BY <2>1 DEF SessionInv, Final, AtMostOneUnfinished, Unfinished, Running
<1>3. ASSUME NEW s \in Sessions, CreateIntent(s) PROVE SessionInv' /\ Final
  <2>1. Unfinished = {} /\ disk[s] = NoRecord /\ disk' = [disk EXCEPT ![s] = NewRecord(snaps)]
        /\ pc' = "idle"
    BY <1>3 DEF CreateIntent, SessionInv, PrepareSteps, EndCall
  <2>2. \A x \in Sessions \ {s} : disk'[x] = disk[x]
    BY <1>0, <2>1
  <2>3. Unfinished' \subseteq {s} /\ Final
    BY <2>1, <2>2 DEF Unfinished, Final
  <2> QED
    BY <2>1, <2>3 DEF SessionInv, AtMostOneUnfinished, Running, ApplySteps, RestoreSteps, PrepareSteps
<1>4. CASE AbortPrepared
  <2>1. active \in Sessions /\ disk[active].state = "IntentDurable" /\ pc' = "idle"
        /\ disk' = [disk EXCEPT ![active] = NoRecord]
    BY <1>4 DEF AbortPrepared, TypeOK, callVars
  <2>2. \A x \in Sessions \ {active} : disk'[x] = disk[x]
    BY <1>0, <2>1
  <2>3. disk'[active] = NoRecord
    BY <1>0, <2>1
  <2>4. Unfinished' \subseteq Unfinished /\ Final
    BY <2>1, <2>2, <2>3 DEF Unfinished, Final
  <2> QED
    BY <2>1, <2>4 DEF SessionInv, AtMostOneUnfinished, Running, ApplySteps, RestoreSteps, PrepareSteps
<1>5. CASE ApplyBegin
  <2> DEFINE r == WithState(disk[active], "Applying")
  <2>1. active \in Unfinished /\ disk[active] \in Record
    BY <1>5 DEF ApplyBegin, TypeOK, Unfinished
  <2>2. r \in Record /\ r.state # "Restored"
    BY <1>5, <2>1, WithStateFacts DEF ApplyBegin, SessionState
  <2>3. mem' = r /\ cur' = active /\ pc' \in {"applyOp", "rollback"}
        /\ \E ok \in BOOLEAN : Replace(active, r, ok)
    BY <1>5 DEF ApplyBegin
  <2> HIDE DEF r
  <2>4. SavesAtMost(active) /\ GoesOn(active)
    BY <2>2, <2>3, WritesRecord DEF GoesOn, Running, ApplySteps
  <2> QED
    BY <2>1, <2>4, SessionStep
<1>6. ASSUME NEW s \in Unfinished,
             \/ StartRestore(s)
             \/ pc' = "idle" /\ Replace(s, RestoreState(disk[s]), FALSE)
      PROVE  SessionInv' /\ Final
  <2> DEFINE r == RestoreState(disk[s])
  <2>1. disk[s] \in Record /\ disk[s].state # "Restored"
    BY DEF TypeOK, Unfinished
  <2>2. r \in Record /\ r.state # "Restored"
    BY <2>1, RestoreStateFacts
  <2>3. /\ \E ok \in BOOLEAN : Replace(s, r, ok)
        /\ pc' = "idle" \/ (pc' = "restoreOp" /\ cur' = s /\ mem' = r)
    BY <1>6 DEF StartRestore
  <2> HIDE DEF r
  <2>4. SavesAtMost(s) /\ GoesOn(s)
    BY <2>2, <2>3, WritesRecord DEF GoesOn, Running, RestoreSteps
  <2> QED
    BY <2>4, SessionStep
<1>7. CASE RestoreCall
  <2>1. CASE ReleaseIfRestored
    BY <1>1, <2>1
  <2>2. CASE RestoreBegin \/ RestoreBeginFail
    BY <1>6, <2>2 DEF RestoreBegin, RestoreBeginFail, callVars
  <2>3. ASSUME NEW s \in Sessions, RecoverBegin(s) \/ RecoverBeginFail(s)
        PROVE  SessionInv' /\ Final
    BY <1>6, <2>3 DEF RecoverBegin, RecoverBeginFail, callVars
  <2> QED
    BY <1>7, <2>1, <2>2, <2>3 DEF RestoreCall
<1> QED
  BY <1>1, <1>2, <1>3, <1>4, <1>5, <1>7 DEF PrepareStep

LEMMA SessionSafety ==
    /\ Init => TypeOK /\ SessionInv
    /\ TypeOK /\ SessionInv /\ [Next]_vars => TypeOK' /\ SessionInv' /\ Final
<1>1. Init => SessionInv
  BY DEF Init, SessionInv, AtMostOneUnfinished, Unfinished, Running, ApplySteps, RestoreSteps,
     PrepareSteps
<1>2. TypeOK /\ SessionInv /\ [Next]_vars => SessionInv' /\ Final
  BY SessionInApply, SessionInRestore, SessionOutside DEF Next, CallStep
<1> QED
  BY <1>1, <1>2, InitType, NextType

(* At most one session is unfinished, whatever the backend does, so the      *)
(* single lease suffices and the loop of recover_unfinished has one record   *)
(* to restore.                                                               *)
THEOREM OneUnfinished == Spec => []AtMostOneUnfinished
<1>1. SessionInv => AtMostOneUnfinished
  BY DEF SessionInv
<1> QED
  BY <1>1, SessionSafety, PTL DEF Spec

(* A session that is durably Restored is never reopened or deleted, by no    *)
(* retried restore, recovery or later session, whatever the backend does.    *)
THEOREM RestoredForGood == Spec => RestoredIsFinal
<1>1. TypeOK /\ SessionInv /\ [Next]_vars => TypeOK' /\ SessionInv' /\ [Final]_vars
  BY SessionSafety
<1> QED
  BY <1>1, SessionSafety, PTL DEF Spec, RestoredIsFinal, Final

-----------------------------------------------------------------------------
(* The engine is a ledger of sessions *)

(* Session states that a state file shows, and those after the intent. *)
Begun == {"Applying", "Active", "RollingBack", "Restoring", "Degraded", "RecoveryPending"}
Durable == Begun \cup {"IntentDurable", "Restored"}

(* The files show a session from its intent on, and the lease is held for   *)
(* the only unfinished one.                                                  *)
FileInv ==
    /\ \A s \in Sessions : disk[s] # NoRecord => disk[s].state \in Durable
    /\ active # NoSession => Unfinished \subseteq {active}

(* What the running call makes of the session, and under which lease. *)
LeaseInv ==
    /\ pc \in ApplySteps => mem.state \in {"Applying", "Active"}
    /\ pc \in RestoreSteps => mem.state \in {"Restoring", "RollingBack"}
    /\ Running => active \in {cur, NoSession}
    /\ pc \in PrepareSteps => active = NoSession

(* The effects a step can have on files, lease and host: nothing is changed; *)
(* the record of the unfinished session s may be replaced by a begun one,    *)
(* and a lease taken; the backend writes; writes in place are gone; the      *)
(* session is restored or its lease kept; and those of single actions.       *)
Kept == UNCHANGED <<disk, active, lost>>

Saved(s) ==
    /\ s \in Unfinished /\ active \in {s, NoSession}
    /\ disk' = disk \/ \E rec \in Record : rec.state \in Begun /\ disk' = [disk EXCEPT ![s] = rec]
    /\ active' \in {active, s}
    /\ UNCHANGED lost

Wrote(s) ==
    /\ s \in Unfinished /\ active \in {s, NoSession}
    /\ disk[s].state \in Begun
    /\ UNCHANGED <<disk, active>>

Cleared ==
    /\ \A i \in Ops : lost'[i] \in {lost[i], NoValue}
    /\ UNCHANGED <<disk, active>>

Closed(s) ==
    /\ s \in Unfinished /\ active \in {s, NoSession}
    /\ \A i \in Ops : lost[i] = NoValue
    /\ UNCHANGED lost
    /\ \/ /\ \E rec \in Record : rec.state = "Restored" /\ disk' = [disk EXCEPT ![s] = rec]
          /\ active' \in {s, NoSession}
       \/ disk' = disk /\ active' = s

Effect ==
    \/ Kept \/ Cleared
    \/ \E s \in Sessions : Saved(s) \/ Wrote(s) \/ Closed(s) \/ CreateIntent(s)
    \/ AbortPrepared \/ ReleaseIfRestored \/ Crash

Good == TypeOK /\ Rest /\ FileInv /\ LeaseInv

(* A journal write takes effect or does not. *)
LEMMA ReplaceEffect ==
    ASSUME NEW s, NEW rec, NEW ok \in BOOLEAN, Replace(s, rec, ok)
    PROVE  /\ disk' = disk \/ disk' = [disk EXCEPT ![s] = rec]
           /\ ok => disk' = [disk EXCEPT ![s] = rec]
BY DEF Replace

(* What the running call knows. *)
LEMMA Ground ==
    ASSUME Good, Running
    PROVE  /\ mem \in Record /\ cur \in Unfinished /\ cur \in Sessions
           /\ active \in {cur, NoSession}
           /\ mem.state \in Begun
           /\ Covers(mem)
           /\ pc \in ApplySteps => mem.state \in {"Applying", "Active"}
           /\ pc \in RestoreSteps => mem.state \in {"Restoring", "RollingBack"}
BY CallFacts DEF Good, Rest, LeaseInv, Running, Begun

(* Persisting a begun record of the running call. *)
LEMMA SavedByCall ==
    ASSUME Good, Running, NEW rec \in Record, rec.state \in Begun, NEW ok \in BOOLEAN,
           Replace(cur, rec, ok), active' \in {active, cur}, UNCHANGED lost
    PROVE  Effect
<1>1. cur \in Unfinished /\ cur \in Sessions /\ active \in {cur, NoSession}
  BY Ground
<1>2. disk' = disk \/ disk' = [disk EXCEPT ![cur] = rec]
  BY ReplaceEffect
<1>3. Saved(cur)
  BY <1>1, <1>2 DEF Saved
<1> QED
  BY <1>1, <1>3 DEF Effect

(* So does an intermediate persist, whichever way it ends. *)
LEMMA SavedByPersist ==
    ASSUME Good, Running, NEW rec \in Record, rec.state \in Begun, NEW okPc, NEW errPc,
           PersistThen(rec, okPc, errPc), UNCHANGED <<active, lost>>
    PROVE  Effect /\ mem' = rec /\ pc' \in {okPc, errPc}
<1>1. mem' = rec /\ pc' \in {okPc, errPc}
  BY DEF PersistThen
<1>2. PICK ok \in BOOLEAN : Replace(cur, rec, ok)
  BY DEF PersistThen
<1> QED
  BY <1>1, <1>2, SavedByCall

(* Between calls the lease is held for no call. *)
LEMMA IdleLease ==
    ASSUME pc' = "idle" PROVE LeaseInv'
BY DEF LeaseInv, Running, ApplySteps, RestoreSteps, PrepareSteps

(* The call goes on under its lease with a record in the same state. *)
LEMMA SameLease ==
    ASSUME Good, Running, UNCHANGED <<cur, active>>, mem'.state = mem.state,
           \/ pc \in ApplySteps /\ pc' \in ApplySteps
           \/ pc \in RestoreSteps /\ pc' \in RestoreSteps
    PROVE  LeaseInv'
<1>1. active \in {cur, NoSession}
  BY Ground
<1>2. (pc \in ApplySteps => mem.state \in {"Applying", "Active"})
      /\ (pc \in RestoreSteps => mem.state \in {"Restoring", "RollingBack"})
  BY Ground
<1> QED
  BY <1>1, <1>2 DEF LeaseInv, Running, ApplySteps, RestoreSteps, PrepareSteps

(* prepare and abort_prepared. *)
LEMMA PrepareEffects ==
    ASSUME Good, PrepareBegin \/ AbortPrepared \/ PrepareStep
    PROVE  Effect /\ LeaseInv'
<1>1. CASE PrepareBegin
  BY <1>1 DEF PrepareBegin, Effect, Kept, LeaseInv, Running, ApplySteps, RestoreSteps, PrepareSteps
<1>2. CASE AbortPrepared
  BY <1>2, IdleLease DEF AbortPrepared, Effect, callVars
<1>3. CASE SnapshotOp
  <2>1. active = NoSession
    BY <1>3 DEF SnapshotOp, Good, LeaseInv, PrepareSteps
  <2>2. pc' \in {"snapshot", "create"} /\ UNCHANGED <<disk, active, lost>>
    BY <1>3 DEF SnapshotOp
  <2> QED
    BY <2>1, <2>2 DEF Effect, Kept, LeaseInv, Running, ApplySteps, RestoreSteps, PrepareSteps
<1>4. CASE PrepareFail
  BY <1>4, IdleLease DEF PrepareFail, EndCall, Effect, Kept
<1>5. ASSUME NEW s \in Sessions, CreateIntent(s) PROVE Effect /\ LeaseInv'
  BY <1>5, IdleLease DEF CreateIntent, EndCall, Effect
<1> QED
  BY <1>1, <1>2, <1>3, <1>4, <1>5 DEF PrepareStep

(* apply, up to the call of restore_record. *)
LEMMA ApplyEffects ==
    ASSUME Good, ApplyOutcomes \subseteq CpuOutcomes, ApplyBegin \/ ApplyStep
    PROVE  Effect /\ LeaseInv'
<1>b. {"Applying", "Active", "Restoring", "RollingBack"} \subseteq SessionState
      /\ "Applying" \in OperationState
  BY DEF SessionState, OperationState
<1>1. CASE ApplyBegin
  <2>1. active \in Sessions /\ disk[active] \in Record /\ active \in Unfinished
    BY <1>1 DEF ApplyBegin, TypeOK, Good, Unfinished
  <2>2. mem' \in Record /\ mem'.state = "Applying"
    BY <1>1, <1>b, <2>1, WithStateFacts DEF ApplyBegin, SessionCanTransition, SessionEdges
  <2>3. PICK ok \in BOOLEAN : Replace(active, mem', ok)
    BY <1>1 DEF ApplyBegin
  <2>4. disk' = disk \/ disk' = [disk EXCEPT ![active] = mem']
    BY <2>3, ReplaceEffect
  <2>5. UNCHANGED <<active, lost>> /\ pc' \in {"applyOp", "rollback"} /\ cur' = active
    BY <1>1 DEF ApplyBegin
  <2>6. Saved(active)
    BY <2>1, <2>2, <2>4, <2>5 DEF Saved, Begun
  <2>7. LeaseInv'
    BY <2>2, <2>5 DEF LeaseInv, Running, ApplySteps, RestoreSteps, PrepareSteps
  <2> QED
    BY <2>1, <2>6, <2>7 DEF Effect
<1>2. CASE ApplyOp
  <2>1. Running /\ idx \in Ops
    BY <1>2, CallTypes DEF ApplyOp, Running, ApplySteps, Good
  <2> DEFINE r == WithOp(mem, idx, "Applying")
  <2>2. r \in Record /\ r.state = mem.state /\ r.state \in Begun
    BY <1>b, <2>1, Ground, WithOpFacts
  <2>3. PersistThen(r, "applyBackend", "rollback") /\ UNCHANGED <<cur, active, lost>>
    BY <1>2 DEF ApplyOp
  <2> HIDE DEF r
  <2>4. Effect /\ mem' = r /\ pc' \in {"applyBackend", "rollback"}
    BY <2>1, <2>2, <2>3, SavedByPersist
  <2> QED
    BY <1>2, <2>1, <2>2, <2>3, <2>4, SameLease DEF ApplyOp, ApplySteps
<1>3. CASE BackendApplied \/ BackendUnknown
  <2>1. Running /\ idx \in Ops /\ pc = "applyBackend"
    BY <1>3, CallTypes DEF BackendApplied, BackendUnknown, Running, ApplySteps, Good
  <2>2. cur \in Unfinished /\ cur \in Sessions /\ active \in {cur, NoSession} /\ mem \in Record
    BY <2>1, Ground
  <2>3. disk[cur].ops[idx].state = "Applying"
    BY <2>1 DEF Good, Rest, ApplyInv
  <2>4. disk[cur].state \in Begun
    BY <2>1, <2>2, <2>3 DEF Good, Rest, DiskInv, Untouched, FileInv, Durable, Unfinished
  <2>5. UNCHANGED <<disk, active, cur>> /\ pc' \in {"applyRecord", "failPersist"}
    BY <1>3 DEF BackendApplied, BackendUnknown
  <2>6. mem'.state = mem.state
    BY <1>3, <2>1, <2>2, RecordApplyFacts DEF BackendApplied, BackendUnknown, OnlyOp
  <2> QED
    BY <2>1, <2>2, <2>4, <2>5, <2>6, SameLease DEF Effect, Wrote, ApplySteps
<1>4. CASE BackendRefused
  <2>1. Running /\ idx \in Ops /\ pc = "applyBackend"
    BY <1>4, CallTypes DEF BackendRefused, Running, ApplySteps, Good
  <2>2. mem'.state = mem.state
    BY <1>4, <2>1, Ground, MoveFacts DEF BackendRefused, OnlyOp
  <2>3. UNCHANGED <<disk, active, cur, lost>> /\ pc' = "failPersist"
    BY <1>4 DEF BackendRefused
  <2> QED
    BY <2>1, <2>2, <2>3, SameLease DEF Effect, Kept, ApplySteps
<1>5. ~BackendLeftover /\ ~BackendUnbound /\ ~BackendMisnamed
  BY DEF BackendLeftover, BackendUnbound, BackendMisnamed, CpuOutcomes
<1>6. CASE ApplyRecord \/ ApplyVerified \/ FailPersist
  <2>1. Running /\ pc \in ApplySteps /\ UNCHANGED <<cur, active, lost>>
    BY <1>6 DEF ApplyRecord, ApplyVerified, FailPersist, Running, ApplySteps
  <2>2. PICK okPc \in {"applyVerify", "activate", "applyOp", "rollback"} : PersistThen(mem, okPc, "rollback")
    BY <1>6 DEF ApplyRecord, ApplyVerified, FailPersist
  <2>3. mem \in Record /\ mem.state \in Begun
    BY <2>1, Ground
  <2>4. Effect /\ mem' = mem /\ pc' \in {okPc, "rollback"}
    BY <2>1, <2>2, <2>3, SavedByPersist
  <2> QED
    BY <2>1, <2>4, SameLease DEF ApplySteps
<1>7. CASE ApplyVerify
  <2>1. Running /\ idx \in Ops /\ pc = "applyVerify"
    BY <1>7, CallTypes DEF ApplyVerify, Running, ApplySteps, Good
  <2>2. PICK m \in BOOLEAN : mem' = RecordVerification(mem, idx, m)
    BY <1>7 DEF ApplyVerify
  <2>3. mem'.state = mem.state
    BY <2>1, <2>2, Ground, RecordVerificationFacts DEF OnlyOp
  <2>4. UNCHANGED <<disk, active, cur, lost>> /\ pc' \in {"applyVerified", "failPersist"}
    BY <1>7 DEF ApplyVerify
  <2> QED
    BY <2>1, <2>3, <2>4, SameLease DEF Effect, Kept, ApplySteps
<1>8. CASE Activate \/ ActivateFail
  <2>1. Running /\ pc \in ApplySteps
    BY <1>8 DEF Activate, ActivateFail, Running, ApplySteps
  <2>2. mem \in Record /\ mem.state \in {"Applying", "Active"} /\ active \in {cur, NoSession}
    BY <2>1, Ground
  <2> DEFINE r == WithState(mem, "Active")
  <2>3. r \in Record /\ r.state = "Active"
    BY <1>b, <2>2, WithStateFacts DEF SessionCanTransition, SessionEdges
  <2>4. PICK ok \in BOOLEAN : Replace(cur, r, ok) /\ UNCHANGED <<active, lost>>
    BY <1>8 DEF Activate, ActivateFail
  <2>5. pc' = "idle" \/ (pc' = "rollback" /\ mem' = r /\ cur' = cur)
    BY <1>8 DEF Activate, ActivateFail, EndCall
  <2> HIDE DEF r
  <2>6. Effect
    BY <2>1, <2>3, <2>4, SavedByCall DEF Begun
  <2>7. CASE pc' = "idle"
    BY <2>6, <2>7, IdleLease
  <2>8. CASE pc' = "rollback" /\ mem' = r /\ cur' = cur
    BY <2>2, <2>3, <2>4, <2>6, <2>8 DEF LeaseInv, Running, ApplySteps, RestoreSteps, PrepareSteps
  <2> QED
    BY <2>5, <2>7, <2>8
<1>9. CASE ActivateClockError
  BY <1>9, IdleLease DEF ActivateClockError, EndCall, Effect, Kept
<1>10. CASE RollbackAfterFailure
  <2>1. Running /\ pc \in ApplySteps
    BY <1>10 DEF RollbackAfterFailure, Running, ApplySteps
  <2>2. mem \in Record /\ mem.state \in {"Applying", "Active"} /\ active \in {cur, NoSession}
    BY <2>1, Ground
  <2> DEFINE next == IF mem.state = "Active" THEN "Restoring" ELSE "RollingBack"
             r == WithState(mem, next)
  <2>3. SessionCanTransition(mem.state, next) /\ next \in SessionState
        /\ next \in {"Restoring", "RollingBack"}
    BY <1>b, <2>2 DEF SessionCanTransition, SessionEdges
  <2>4. PersistThen(r, "restoreOp", "restoreOp") /\ UNCHANGED <<cur, active, lost>>
    BY <1>10 DEF RollbackAfterFailure
  <2> HIDE DEF next
  <2>5. r \in Record /\ r.state \in {"Restoring", "RollingBack"}
    BY <2>2, <2>3, WithStateFacts
  <2> HIDE DEF r
  <2>6. Effect /\ mem' = r /\ pc' = "restoreOp"
    BY <2>1, <2>4, <2>5, SavedByPersist DEF Begun
  <2> QED
    BY <2>2, <2>4, <2>5, <2>6 DEF LeaseInv, Running, ApplySteps, RestoreSteps, PrepareSteps
<1> QED
  BY <1>1, <1>2, <1>3, <1>4, <1>5, <1>6, <1>7, <1>8, <1>9, <1>10 DEF ApplyStep

(* prepare_restore_state moves every unfinished session of a file to one of *)
(* the two states in which its operations are undone.                       *)
LEMMA RestoreStateBegun ==
    ASSUME NEW rec \in Record, rec.state \in Durable, rec.state # "Restored"
    PROVE  RestoreState(rec).state \in {"Restoring", "RollingBack"}
<1>1. {"Restoring", "RecoveryPending", "RollingBack"} \subseteq SessionState
  BY DEF SessionState
<1>2. CASE rec.state \in {"Active", "RecoveryPending", "IntentDurable", "Applying"}
  BY <1>1, <1>2, WithStateFacts DEF RestoreState, SessionCanTransition, SessionEdges
<1>3. CASE rec.state = "Degraded"
  <2> DEFINE r == WithState(rec, "RecoveryPending")
  <2>1. r \in Record /\ r.state = "RecoveryPending"
    BY <1>1, <1>3, WithStateFacts DEF SessionCanTransition, SessionEdges
  <2>2. RestoreState(rec) = WithState(r, "Restoring")
    BY <1>3 DEF RestoreState
  <2> HIDE DEF r
  <2> QED
    BY <1>1, <2>1, <2>2, WithStateFacts DEF SessionCanTransition, SessionEdges
<1>4. CASE rec.state \in {"Restoring", "RollingBack"}
  BY <1>4 DEF RestoreState
<1> QED
  BY <1>2, <1>3, <1>4 DEF Durable, Begun

(* restore, recover_unfinished and the loop of restore_record. *)
LEMMA RestoreEffects ==
    ASSUME Good, RestoreCall \/ RestoreStep
    PROVE  Effect /\ LeaseInv'
<1>a. ASSUME NEW s \in Unfinished, NEW ok \in BOOLEAN, active \in {s, NoSession},
             Replace(s, RestoreState(disk[s]), ok), active' \in {active, s}, UNCHANGED lost
      PROVE  Effect /\ RestoreState(disk[s]).state \in {"Restoring", "RollingBack"}
  <2>1. s \in Sessions /\ disk[s] \in Record /\ disk[s].state \in Durable
        /\ disk[s].state # "Restored"
    BY DEF Good, TypeOK, Unfinished, FileInv
  <2>2. RestoreState(disk[s]) \in Record
        /\ RestoreState(disk[s]).state \in {"Restoring", "RollingBack"}
    BY <2>1, RestoreStateFacts, RestoreStateBegun
  <2>3. disk' = disk \/ disk' = [disk EXCEPT ![s] = RestoreState(disk[s])]
    BY <1>a, ReplaceEffect
  <2>4. Saved(s)
    BY <1>a, <2>2, <2>3 DEF Saved, Begun
  <2> QED
    BY <2>1, <2>2, <2>4 DEF Effect
<1>b. ASSUME NEW s \in Unfinished, active \in {s, NoSession}, StartRestore(s)
      PROVE  Effect /\ LeaseInv'
  <2>1. TRUE \in BOOLEAN
    OBVIOUS
  <2>2. /\ mem' = RestoreState(disk[s]) /\ Replace(s, RestoreState(disk[s]), TRUE)
        /\ cur' = s /\ pc' = "restoreOp" /\ UNCHANGED <<active, lost>>
    BY <1>b DEF StartRestore
  <2>3. Effect /\ mem'.state \in {"Restoring", "RollingBack"}
    BY <1>a, <1>b, <2>1, <2>2
  <2> QED
    BY <1>b, <2>2, <2>3 DEF LeaseInv, Running, ApplySteps, RestoreSteps, PrepareSteps
<1>1. CASE RestoreBegin
  BY <1>1, <1>b DEF RestoreBegin
<1>2. CASE RestoreBeginFail
  <2>1. FALSE \in BOOLEAN /\ active \in Unfinished
        /\ Replace(active, RestoreState(disk[active]), FALSE)
        /\ UNCHANGED <<active, lost, pc>> /\ pc = "idle"
    BY <1>2 DEF RestoreBeginFail, callVars
  <2> QED
    BY <1>a, <2>1, IdleLease
<1>3. CASE ReleaseIfRestored
  BY <1>3, IdleLease DEF ReleaseIfRestored, callVars, Effect
<1>4. ASSUME NEW s \in Sessions, RecoverBegin(s) PROVE Effect /\ LeaseInv'
  BY <1>4, <1>b DEF RecoverBegin
<1>5. ASSUME NEW s \in Sessions, RecoverBeginFail(s) PROVE Effect /\ LeaseInv'
  <2>1. FALSE \in BOOLEAN /\ s \in Unfinished /\ active = NoSession /\ active' = s
        /\ Replace(s, RestoreState(disk[s]), FALSE)
        /\ UNCHANGED <<lost, pc>> /\ pc = "idle"
    BY <1>5 DEF RecoverBeginFail, callVars
  <2> QED
    BY <1>a, <2>1, IdleLease
<1>6. CASE RestoreSkip \/ RestoreUncertain \/ RestoreOwned
  <2>1. /\ Running /\ pc \in RestoreSteps /\ pc' \in RestoreSteps
        /\ UNCHANGED <<disk, mem, cur, active, lost>>
    BY <1>6 DEF RestoreSkip, RestoreUncertain, RestoreOwned, NextRestore, Running, RestoreSteps
  <2> QED
    BY <2>1, SameLease DEF Effect, Kept
<1>7. CASE RestoreOpBegin
  <2>1. Running /\ pc \in RestoreSteps /\ idx \in Ops
    BY <1>7, CallTypes DEF RestoreOpBegin, Running, RestoreSteps, Good
  <2> DEFINE r == BeginRestore(mem, idx)
  <2>2. r \in Record /\ r.state = mem.state /\ r.state \in Begun
    BY <2>1, Ground, MoveFacts DEF OnlyOp
  <2>3. PICK ok \in BOOLEAN : Replace(cur, r, ok)
    BY <1>7 DEF RestoreOpBegin
  <2>4. mem' = r /\ pc' = "restoreVerify" /\ UNCHANGED <<cur, active, lost>>
    BY <1>7 DEF RestoreOpBegin
  <2> HIDE DEF r
  <2>5. Effect
    BY <2>1, <2>2, <2>3, <2>4, SavedByCall
  <2> QED
    BY <2>1, <2>2, <2>4, <2>5, SameLease DEF RestoreSteps
<1>8. CASE RestoreFound \/ RestoreRefused
  <2>1. Running /\ pc \in RestoreSteps /\ idx \in Ops
    BY <1>8, CallTypes DEF RestoreFound, RestoreRefused, Running, RestoreSteps, Good
  <2>2. mem'.state = mem.state
    <3>1. mem' = RecordRestore(mem, idx) \/ mem' = FailRestore(mem, idx)
      BY <1>8 DEF RestoreFound, RestoreRefused
    <3>2. mem \in Record
      BY <2>1, Ground
    <3>3. RecordRestore(mem, idx).state = mem.state
      BY <2>1, <3>2, RecordRestoreFacts DEF OnlyOp
    <3>4. FailRestore(mem, idx).state = mem.state
      BY <2>1, <3>2, MoveFacts DEF OnlyOp
    <3> QED
      BY <3>1, <3>3, <3>4
  <2>3. pc' \in {"restoreRecord", "restoreFailPersist"} /\ UNCHANGED <<disk, cur, active, lost>>
    BY <1>8 DEF RestoreFound, RestoreRefused
  <2> QED
    BY <2>1, <2>2, <2>3, SameLease DEF Effect, Kept, RestoreSteps
<1>9. CASE BackendRestored \/ BackendRestoreFailed
  <2>1. Running /\ pc \in RestoreSteps /\ idx \in Ops
    BY <1>9, CallTypes DEF BackendRestored, BackendRestoreFailed, Running, RestoreSteps, Good
  <2>2. mem'.state = mem.state
    <3>1. mem' = RecordRestore(mem, idx) \/ mem' = FailRestore(mem, idx)
      BY <1>9 DEF BackendRestored, BackendRestoreFailed
    <3>2. mem \in Record
      BY <2>1, Ground
    <3>3. RecordRestore(mem, idx).state = mem.state
      BY <2>1, <3>2, RecordRestoreFacts DEF OnlyOp
    <3>4. FailRestore(mem, idx).state = mem.state
      BY <2>1, <3>2, MoveFacts DEF OnlyOp
    <3> QED
      BY <3>1, <3>3, <3>4
  <2>3. pc' \in {"restoreRecord", "restoreFailPersist"} /\ UNCHANGED <<disk, cur, active>>
    BY <1>9 DEF BackendRestored, BackendRestoreFailed
  <2>4. \A i \in Ops : lost'[i] \in {lost[i], NoValue}
    BY <1>9, <2>1 DEF BackendRestored, BackendRestoreFailed, Good, TypeOK
  <2> QED
    BY <2>1, <2>2, <2>3, <2>4, SameLease DEF Effect, Cleared, RestoreSteps
<1>10. CASE RestoreRecord \/ RestoreFailPersist
  <2>1. Running /\ pc \in RestoreSteps /\ pc' \in RestoreSteps /\ UNCHANGED <<mem, cur, active, lost>>
    BY <1>10 DEF RestoreRecord, RestoreFailPersist, NextRestore, Running, RestoreSteps
  <2>2. PICK ok \in BOOLEAN : Replace(cur, mem, ok)
    BY <1>10 DEF RestoreRecord, RestoreFailPersist
  <2>3. mem \in Record /\ mem.state \in Begun
    BY <2>1, Ground
  <2>4. Effect
    BY <2>1, <2>2, <2>3, SavedByCall
  <2> QED
    BY <2>1, <2>4, SameLease
<1>11. CASE ConcludeRestored
  <2>1. Running /\ pc \in RestoreSteps
    BY <1>11 DEF ConcludeRestored, Running, RestoreSteps
  <2>2. /\ mem \in Record /\ mem.state \in {"Restoring", "RollingBack"} /\ Covers(mem)
        /\ cur \in Unfinished /\ cur \in Sessions /\ active \in {cur, NoSession}
    BY <2>1, Ground
  <2> DEFINE r == WithState(mem, "Restored")
  <2>3. r \in Record /\ r.state = "Restored"
    BY <2>2, WithStateFacts DEF SessionState, SessionCanTransition, SessionEdges
  <2>4. \A i \in Ops : lost[i] = NoValue
    BY <1>11, <2>2 DEF ConcludeRestored, Proven, RestorationProven, NeedsRestore, Covers, Owed
  <2>5. /\ UNCHANGED lost /\ pc' = "idle"
        /\ \/ Replace(cur, r, TRUE) /\ active' = NoSession
           \/ Replace(cur, r, FALSE) /\ active' = cur
    BY <1>11 DEF ConcludeRestored, EndCall
  <2> HIDE DEF r
  <2>6. \/ disk' = [disk EXCEPT ![cur] = r] /\ active' \in {cur, NoSession}
        \/ disk' = disk /\ active' = cur
    BY <2>5 DEF Replace
  <2>7. Closed(cur)
    BY <2>2, <2>3, <2>4, <2>5, <2>6 DEF Closed
  <2> QED
    BY <2>2, <2>5, <2>7, IdleLease DEF Effect
<1>12. CASE ConcludeDegraded
  <2>1. Running /\ pc \in RestoreSteps
    BY <1>12 DEF ConcludeDegraded, Running, RestoreSteps
  <2>2. mem \in Record /\ mem.state \in Begun
    BY <2>1, Ground
  <2>3. DegradedRecord(mem) \in Record /\ DegradedRecord(mem).state \in Begun
    BY <2>2, DegradedFacts DEF Begun
  <2>4. PICK ok \in BOOLEAN : Replace(cur, DegradedRecord(mem), ok)
    BY <1>12 DEF ConcludeDegraded
  <2>5. active' = cur /\ UNCHANGED lost /\ pc' = "idle"
    BY <1>12 DEF ConcludeDegraded, EndCall
  <2> QED
    BY <2>1, <2>3, <2>4, <2>5, SavedByCall, IdleLease
<1> QED
  BY <1>1, <1>2, <1>3, <1>4, <1>5, <1>6, <1>7, <1>8, <1>9, <1>10, <1>11, <1>12
  DEF RestoreCall, RestoreStep

(* Crashes and other writers. *)
LEMMA EnvironmentEffects ==
    ASSUME Good, Crash \/ OtherWrite \/ FaultsStop \/ UNCHANGED vars
    PROVE  Effect /\ LeaseInv'
<1>1. CASE Crash
  BY <1>1, IdleLease DEF Crash, EndCall, Effect
<1>2. CASE OtherWrite
  <2>1. UNCHANGED <<disk, callVars, active>>
    BY <1>2 DEF OtherWrite
  <2>2. \A i \in Ops : lost'[i] \in {lost[i], NoValue}
    BY <1>2 DEF OtherWrite, Good, TypeOK
  <2> QED
    BY <2>1, <2>2 DEF Effect, Cleared, Good, LeaseInv, Running, callVars
<1>3. CASE FaultsStop
  BY <1>3 DEF FaultsStop, Effect, Kept, Good, LeaseInv, Running, callVars
<1>4. CASE UNCHANGED vars
  BY <1>4 DEF vars, Effect, Kept, Good, LeaseInv, Running
<1> QED
  BY <1>1, <1>2, <1>3, <1>4

(* Every step has one of the effects. *)
LEMMA StepEffects ==
    ASSUME Good, ApplyOutcomes \subseteq CpuOutcomes, [Next]_vars
    PROVE  Effect /\ LeaseInv'
BY PrepareEffects, ApplyEffects, RestoreEffects, EnvironmentEffects DEF Next, CallStep

(* The files and the lease stay in step whatever the effect.  Together with *)
(* IInv this makes Good inductive.                                           *)
LEMMA EffectKeeps ==
    ASSUME Good, TypeOK', Effect
    PROVE  FileInv'
<1>0. /\ disk \in [Sessions -> Record \cup {NoRecord}]
      /\ active \in Sessions \cup {NoSession}
      /\ \A s \in Sessions : disk[s] # NoRecord => disk[s].state \in Durable
      /\ active # NoSession => Unfinished \subseteq {active}
      /\ \A s, t \in Unfinished : s = t
  BY DEF Good, TypeOK, FileInv, Rest, DiskInv, AtMostOneUnfinished
<1>a. ASSUME disk' = disk, active' \in {active, NoSession} PROVE FileInv'
  BY <1>0, <1>a DEF FileInv, Unfinished
<1>b. ASSUME NEW s \in Unfinished, NEW rec \in Record, rec.state \in Durable,
             disk' = [disk EXCEPT ![s] = rec] \/ disk' = disk,
             active' \in {active, s, NoSession}, active \in {s, NoSession}
      PROVE  FileInv'
  <2>1. s \in Sessions /\ Unfinished \subseteq {s}
    BY <1>0 DEF Unfinished
  <2>2. \A t \in Sessions : t # s => disk'[t] = disk[t]
    BY <1>0, <1>b, <2>1
  <2>3. disk'[s] \in {rec, disk[s]}
    BY <1>0, <1>b, <2>1
  <2>4. Unfinished' \subseteq {s}
    BY <2>1, <2>2 DEF Unfinished
  <2> QED
    BY <1>0, <1>b, <2>1, <2>2, <2>3, <2>4 DEF FileInv
<1>1. CASE Kept \/ Cleared \/ ReleaseIfRestored \/ Crash
  BY <1>1, <1>a DEF Kept, Cleared, ReleaseIfRestored, Crash
<1>2. ASSUME NEW s \in Sessions, Saved(s) PROVE FileInv'
  <2>1. disk[s] \in Record /\ disk[s].state \in Durable /\ s \in Unfinished
    BY <1>0, <1>2 DEF Saved, Unfinished
  <2>2. PICK rec \in Record : rec.state \in Durable /\ (disk' = disk \/ disk' = [disk EXCEPT ![s] = rec])
    BY <1>2, <2>1 DEF Saved, Durable
  <2> QED
    BY <1>2, <1>b, <2>1, <2>2 DEF Saved
<1>3. ASSUME NEW s \in Sessions, Wrote(s) PROVE FileInv'
  BY <1>3, <1>a DEF Wrote
<1>4. ASSUME NEW s \in Sessions, Closed(s) PROVE FileInv'
  <2>1. disk[s] \in Record /\ disk[s].state \in Durable /\ s \in Unfinished
    BY <1>0, <1>4 DEF Closed, Unfinished
  <2>2. PICK rec \in Record : rec.state \in Durable /\ (disk' = disk \/ disk' = [disk EXCEPT ![s] = rec])
    BY <1>4, <2>1 DEF Closed, Durable
  <2> QED
    BY <1>4, <1>b, <2>1, <2>2 DEF Closed
<1>5. ASSUME NEW s \in Sessions, CreateIntent(s) PROVE FileInv'
  <2>1. Unfinished = {} /\ active = NoSession
    BY <1>5 DEF CreateIntent, Good, Rest, PrepareInv, LeaseInv, PrepareSteps
  <2>2. disk' = [disk EXCEPT ![s] = NewRecord(snaps)] /\ active' \in {s, NoSession}
    BY <1>5, <2>1 DEF CreateIntent
  <2>3. NewRecord(snaps).state = "IntentDurable"
    BY NewRecordFacts DEF Good, TypeOK
  <2>4. \A t \in Sessions : t # s => disk'[t] = disk[t]
    BY <1>0, <2>2
  <2>5. Unfinished' \subseteq {s}
    BY <2>1, <2>4 DEF Unfinished
  <2>6. disk'[s].state = "IntentDurable"
    BY <1>0, <2>2, <2>3
  <2> QED
    BY <1>0, <2>2, <2>4, <2>5, <2>6 DEF FileInv, Durable
<1>6. CASE AbortPrepared
  <2>1. active \in Sessions /\ disk' = [disk EXCEPT ![active] = NoRecord]
        /\ active' \in {active, NoSession}
    BY <1>0, <1>6 DEF AbortPrepared
  <2>2. disk'[active] = NoRecord /\ \A t \in Sessions : t # active => disk'[t] = disk[t]
    BY <1>0, <2>1
  <2>3. Unfinished' = {}
    BY <1>0, <2>1, <2>2, NullsAssumption DEF Unfinished
  <2> QED
    BY <1>0, <2>1, <2>2, <2>3 DEF FileInv
<1> QED
  BY <1>1, <1>2, <1>3, <1>4, <1>5, <1>6 DEF Effect

(* The strengthened invariant holds at the start ... *)
LEMMA GoodInit == Init => Good
<1> SUFFICES ASSUME Init PROVE Good
  OBVIOUS
<1>1. FileInv
  BY DEF Init, FileInv
<1>2. LeaseInv
  BY DEF Init, LeaseInv, Running, ApplySteps, RestoreSteps, PrepareSteps
<1> QED
  BY <1>1, <1>2, InitType, InitRest DEF Good

(* ... and after every step, which has one of the effects. *)
LEMMA GoodStep ==
    ASSUME ApplyOutcomes \subseteq CpuOutcomes
    PROVE  Good /\ [Next]_vars => Good' /\ Effect
<1> SUFFICES ASSUME Good, [Next]_vars PROVE Good' /\ Effect
  OBVIOUS
<1>1. Effect /\ LeaseInv'
  BY StepEffects
<1>2. TypeOK' /\ Rest'
  BY Inductive DEF Good, IInv, Rest
<1>3. FileInv'
  BY <1>1, <1>2, EffectKeeps
<1> QED
  BY <1>1, <1>2, <1>3 DEF Good

-----------------------------------------------------------------------------
(* The ledger that the mapping reads *)

View == [s \in Sessions |-> Entry(disk[s])]
Dirty == \E i \in Ops : lost[i] # NoValue

(* A file shows its session as prepared, open or done. *)
LEMMA EntryFacts ==
    ASSUME NEW rec \in Record
    PROVE  /\ rec.state = "IntentDurable" => Entry(rec) = "prepared"
           /\ rec.state = "Restored" => Entry(rec) = "done"
           /\ rec.state \in Begun => Entry(rec) = "open"
           /\ Entry(rec) \in {"prepared", "done", "open"}
           /\ Entry(rec) = "done" => rec.state = "Restored"
           /\ Entry(NoRecord) = "none"
BY NullsAssumption DEF Entry, Begun

(* Replacing one file changes one entry of the ledger. *)
LEMMA ViewChange ==
    ASSUME TypeOK, NEW s \in Sessions, NEW rec, disk' = [disk EXCEPT ![s] = rec]
    PROVE  View' = [View EXCEPT ![s] = Entry(rec)]
<1>1. \A t \in Sessions : disk'[t] = IF t = s THEN rec ELSE disk[t]
  BY DEF TypeOK
<1>2. \A t \in Sessions : Entry(disk'[t]) = [View EXCEPT ![s] = Entry(rec)][t]
  BY <1>1 DEF View
<1> QED
  BY <1>2 DEF View, Entry

(* The pending entries are the unfinished sessions, one by one ... *)
LEMMA PendingView ==
    ASSUME Good, NEW s \in Sessions
    PROVE  View[s] \in {"prepared", "open"} <=> s \in Unfinished
<1>1. disk[s] \in Record \cup {NoRecord}
  BY DEF Good, TypeOK
<1>2. View[s] = Entry(disk[s])
  BY DEF View
<1>3. CASE disk[s] = NoRecord
  BY <1>2, <1>3 DEF Entry, Unfinished
<1>4. CASE disk[s] \in Record
  BY <1>2, <1>4, NullsAssumption, EntryFacts DEF Unfinished
<1> QED
  BY <1>1, <1>3, <1>4

(* ... and as a set. *)
LEMMA LedgerPending ==
    ASSUME Good
    PROVE  Ledger!Pending = Unfinished
<1>1. \A s \in Sessions : View[s] \in {"prepared", "open"} <=> s \in Unfinished
  BY PendingView
<1>2. Unfinished \subseteq Sessions
  BY DEF Unfinished
<1> QED
  BY <1>1, <1>2 DEF Ledger!Pending, View

(* The host stays as it is. *)
LEMMA DirtyKept ==
    ASSUME UNCHANGED lost
    PROVE  (\E i \in Ops : lost[i] # NoValue)' = (\E i \in Ops : lost[i] # NoValue)
BY Zenon

(* A begun record of the unfinished session is a step of Work or Retain. *)
LEMMA SavedIsLedger ==
    ASSUME Good, NEW s \in Sessions, Saved(s)
    PROVE  [Ledger!Next]_Ledger!ledgerVars
<1>1. s \in Ledger!Pending /\ active \in {s, NoSession} /\ s # NoSession
  BY LedgerPending, NullsAssumption DEF Saved
<1>2. View' = View \/ View' = [View EXCEPT ![s] = "open"]
  <2>1. CASE disk' = disk
    BY <2>1 DEF View, Entry
  <2>2. CASE disk' # disk
    <3>1. PICK rec \in Record : rec.state \in Begun /\ disk' = [disk EXCEPT ![s] = rec]
      BY <2>2 DEF Saved
    <3>2. Entry(rec) = "open"
      BY <3>1, EntryFacts
    <3> QED
      BY <3>1, <3>2, ViewChange DEF Good
  <2> QED
    BY <2>1, <2>2
<1>3. (\E i \in Ops : lost[i] # NoValue)' = (\E i \in Ops : lost[i] # NoValue)
  BY DirtyKept DEF Saved
<1>4. active' \in {active, s}
  BY DEF Saved
<1>5. CASE active' # active
  <2>1. Ledger!Retain(s)
    BY <1>1, <1>2, <1>3, <1>4, <1>5 DEF Ledger!Retain, View
  <2> QED
    BY <2>1 DEF Ledger!Next
<1>6. CASE active' = active /\ View' = View
  BY <1>3, <1>6 DEF Ledger!ledgerVars, View
<1>7. CASE active' = active /\ View' = [View EXCEPT ![s] = "open"]
  <2>1. Ledger!Work(s)
    BY <1>1, <1>3, <1>7 DEF Ledger!Work, View
  <2> QED
    BY <2>1 DEF Ledger!Next
<1> QED
  BY <1>2, <1>5, <1>6, <1>7

(* A write of the backend is a step of Work. *)
LEMMA WroteIsLedger ==
    ASSUME Good, NEW s \in Sessions, Wrote(s)
    PROVE  [Ledger!Next]_Ledger!ledgerVars
<1>1. s \in Ledger!Pending /\ active \in {s, NoSession}
  BY LedgerPending DEF Wrote
<1>2. View' = View /\ active' = active
  BY DEF Wrote, View, Entry
<1>3. View[s] = "open"
  BY EntryFacts DEF Wrote, View, Good, TypeOK, Unfinished
<1>4. View' = [View EXCEPT ![s] = "open"]
  BY <1>2, <1>3 DEF View
<1>5. (\E i \in Ops : lost[i] # NoValue)' \in BOOLEAN
  BY Zenon
<1>6. Ledger!Work(s)
  BY <1>1, <1>2, <1>3, <1>4, <1>5 DEF Ledger!Work, View
<1> QED
  BY <1>6 DEF Ledger!Next

(* Writes that go away without a record are a step of Overwritten. *)
LEMMA ClearedIsLedger ==
    ASSUME Good, Cleared
    PROVE  [Ledger!Next]_Ledger!ledgerVars
<1>1. View' = View /\ active' = active
  BY DEF Cleared, View, Entry
<1>2. Dirty' => Dirty
  BY DEF Cleared, Dirty
<1>3. CASE Dirty /\ ~Dirty'
  <2>1. (\E i \in Ops : lost[i] # NoValue)' = FALSE
    BY <1>3, Zenon DEF Dirty
  <2>2. Ledger!Overwritten
    BY <1>1, <1>3, <2>1 DEF Ledger!Overwritten, View, Dirty
  <2> QED
    BY <2>2 DEF Ledger!Next
<1>4. CASE Dirty' <=> Dirty
  <2>1. (\E i \in Ops : lost[i] # NoValue)' = (\E i \in Ops : lost[i] # NoValue)
    BY <1>4, Zenon DEF Dirty
  <2> QED
    BY <1>1, <2>1 DEF Ledger!ledgerVars, View
<1> QED
  BY <1>2, <1>3, <1>4

(* The durable Restored of a clean host is a step of Finish; a lease kept    *)
(* for want of it is a step of Retain.                                       *)
LEMMA ClosedIsLedger ==
    ASSUME Good, NEW s \in Sessions, Closed(s)
    PROVE  [Ledger!Next]_Ledger!ledgerVars
<1>1. s \in Ledger!Pending /\ active \in {s, NoSession} /\ s # NoSession
  BY LedgerPending, NullsAssumption DEF Closed
<1>2. (\E i \in Ops : lost[i] # NoValue)' = (\E i \in Ops : lost[i] # NoValue)
      /\ ~(\E i \in Ops : lost[i] # NoValue)
  BY DirtyKept DEF Closed
<1>3. CASE disk' = disk /\ active' = s
  <2>1. View' = View
    BY <1>3 DEF View, Entry
  <2>2. CASE active = s
    BY <1>2, <1>3, <2>1, <2>2 DEF Ledger!ledgerVars, View
  <2>3. CASE active = NoSession
    <3>1. Ledger!Retain(s)
      BY <1>1, <1>2, <1>3, <2>1, <2>3 DEF Ledger!Retain, View
    <3> QED
      BY <3>1 DEF Ledger!Next
  <2> QED
    BY <1>1, <2>2, <2>3
<1>4. CASE ~(disk' = disk /\ active' = s)
  <2>1. PICK rec \in Record : rec.state = "Restored" /\ disk' = [disk EXCEPT ![s] = rec]
    BY <1>4 DEF Closed
  <2>2. active' \in {s, NoSession}
    BY <1>4 DEF Closed
  <2>3. View' = [View EXCEPT ![s] = "done"]
    BY <2>1, EntryFacts, ViewChange DEF Good
  <2>4. Ledger!Finish(s)
    BY <1>1, <1>2, <2>2, <2>3 DEF Ledger!Finish, View
  <2> QED
    BY <2>4 DEF Ledger!Next
<1> QED
  BY <1>3, <1>4

(* prepare enters a session, abort_prepared withdraws it. *)
LEMMA CreateIsLedger ==
    ASSUME Good, NEW s \in Sessions, CreateIntent(s)
    PROVE  [Ledger!Next]_Ledger!ledgerVars
<1>1. active = NoSession /\ Unfinished = {}
  BY DEF CreateIntent, Good, Rest, PrepareInv, LeaseInv, PrepareSteps
<1>2. Ledger!Pending = {}
  BY <1>1, LedgerPending
<1>3. (\E i \in Ops : lost[i] # NoValue)' = (\E i \in Ops : lost[i] # NoValue)
  BY DirtyKept DEF CreateIntent
<1>4. ~(\E i \in Ops : lost[i] # NoValue)
  BY <1>1 DEF Good, Rest, DiskInv
<1>5. View[s] = "none"
  BY DEF CreateIntent, View, Entry
<1>6. View' = [View EXCEPT ![s] = "prepared"]
  <2>1. NewRecord(snaps) \in Record /\ NewRecord(snaps).state = "IntentDurable"
    BY NewRecordFacts DEF Good, TypeOK
  <2>2. PICK rec \in Record : rec.state = "IntentDurable" /\ disk' = [disk EXCEPT ![s] = rec]
    BY <2>1 DEF CreateIntent
  <2>3. Entry(rec) = "prepared"
    BY <2>2, EntryFacts
  <2>4. View' = [View EXCEPT ![s] = Entry(rec)]
    BY <2>2, ViewChange DEF Good
  <2> QED
    BY <2>3, <2>4
<1>7. active' \in {s, NoSession}
  BY <1>1 DEF CreateIntent
<1>8. Ledger!Prepare(s)
  BY <1>1, <1>2, <1>3, <1>4, <1>5, <1>6, <1>7 DEF Ledger!Prepare, View
<1> QED
  BY <1>8 DEF Ledger!Next

(* abort_prepared withdraws the prepared session. *)
LEMMA AbortIsLedger ==
    ASSUME Good, AbortPrepared
    PROVE  [Ledger!Next]_Ledger!ledgerVars
<1>1. active \in Sessions /\ disk[active] \in Record
  BY DEF AbortPrepared, Good, TypeOK
<1>2. View[active] = "prepared"
  BY <1>1, EntryFacts DEF AbortPrepared, View
<1>3. PICK s \in Sessions : s = active /\ disk' = [disk EXCEPT ![s] = NoRecord]
  BY <1>1 DEF AbortPrepared
<1>4. View' = [View EXCEPT ![s] = "none"]
  <2>1. View' = [View EXCEPT ![s] = Entry(NoRecord)]
    BY <1>3, ViewChange DEF Good
  <2> QED
    BY <2>1 DEF Entry
<1>5. (\E i \in Ops : lost[i] # NoValue)' = (\E i \in Ops : lost[i] # NoValue)
  BY DirtyKept DEF AbortPrepared
<1>6. active' \in {s, NoSession}
  BY <1>3 DEF AbortPrepared
<1>7. Ledger!Withdraw(s)
  BY <1>2, <1>3, <1>4, <1>5, <1>6 DEF Ledger!Withdraw, View
<1> QED
  BY <1>7 DEF Ledger!Next

(* Every effect is a step of the ledger, or none it shows. *)
LEMMA EffectIsLedger ==
    ASSUME Good, Effect
    PROVE  [Ledger!Next]_Ledger!ledgerVars
<1>1. CASE Kept
  <2>1. View' = View /\ active' = active
    BY <1>1 DEF Kept, View, Entry
  <2>2. (\E i \in Ops : lost[i] # NoValue)' = (\E i \in Ops : lost[i] # NoValue)
    BY <1>1, DirtyKept DEF Kept
  <2> QED
    BY <2>1, <2>2 DEF Ledger!ledgerVars, View
<1>2. CASE ReleaseIfRestored \/ Crash
  <2>1. View' = View /\ active' = NoSession
    BY <1>2 DEF ReleaseIfRestored, Crash, View, Entry
  <2>2. (\E i \in Ops : lost[i] # NoValue)' = (\E i \in Ops : lost[i] # NoValue)
    BY <1>2, DirtyKept DEF ReleaseIfRestored, Crash
  <2>3. Ledger!Stop
    BY <2>1, <2>2 DEF Ledger!Stop, View
  <2> QED
    BY <2>3 DEF Ledger!Next
<1> QED
  BY <1>1, <1>2, SavedIsLedger, WroteIsLedger, ClearedIsLedger, ClosedIsLedger,
     CreateIsLedger, AbortIsLedger DEF Effect

(* For any number of operations, sessions and values and a backend with the *)
(* outcomes of CpuBackend: every step of prepare, abort_prepared, apply,    *)
(* restore and recover_unfinished, with every crash and failure in between, *)
(* is a step of SessionLedger or changes nothing the ledger shows.          *)
THEOREM EngineImplementsLedger ==
    ASSUME ApplyOutcomes \subseteq CpuOutcomes
    PROVE  Spec => EngineIsLedger
<1>1. Init => Ledger!Init
  <2> SUFFICES ASSUME Init PROVE Ledger!Init
    OBVIOUS
  <2>1. View = [s \in Sessions |-> "none"] /\ active = NoSession
    BY DEF Init, View, Entry
  <2>2. (\E i \in Ops : lost[i] # NoValue) = FALSE
    <3>1. \A i \in Ops : lost[i] = NoValue
      BY DEF Init
    <3> QED
      BY <3>1, Zenon
  <2> QED
    BY <2>1, <2>2 DEF Ledger!Init, View
<1>2. Good /\ [Next]_vars => Good' /\ [Ledger!Next]_Ledger!ledgerVars
  BY GoodStep, EffectIsLedger
<1> QED
  BY <1>1, <1>2, GoodInit, PTL DEF Spec, EngineIsLedger, Ledger!Spec

(* The lease is given up, other than by a crash, only on a host without a    *)
(* write of a session and with nothing unfinished on disk.                   *)
THEOREM LeaseHeldUntilClean ==
    ASSUME ApplyOutcomes \subseteq CpuOutcomes
    PROVE  Spec => LeaseReleasedClean
<1> DEFINE Clean == active # NoSession /\ active' = NoSession /\ ~Crash =>
                       (\A i \in Ops : lost'[i] = NoValue) /\ Unfinished' = {}
<1>1. ASSUME Good, Good', Effect PROVE Clean
  <2> SUFFICES ASSUME active # NoSession, active' = NoSession, ~Crash
               PROVE  Unfinished' = {}
    BY <1>1 DEF Good, Rest, DiskInv
  <2>0. disk \in [Sessions -> Record \cup {NoRecord}] /\ Unfinished \subseteq {active}
    BY <1>1 DEF Good, TypeOK, FileInv
  <2>1. ~Kept /\ ~Cleared
    BY DEF Kept, Cleared
  <2>2. ASSUME NEW s \in Sessions, Saved(s) \/ Wrote(s) PROVE FALSE
    BY <2>2, NullsAssumption DEF Saved, Wrote
  <2>3. ASSUME NEW s \in Sessions, Closed(s) PROVE Unfinished' = {}
    <3>1. PICK rec \in Record : rec.state = "Restored" /\ disk' = [disk EXCEPT ![s] = rec]
      BY <2>3, NullsAssumption DEF Closed
    <3>2. active = s
      BY <2>3 DEF Closed
    <3> QED
      BY <2>0, <3>1, <3>2 DEF Unfinished
  <2>4. ASSUME NEW s \in Sessions, CreateIntent(s) PROVE FALSE
    BY <1>1, <2>4 DEF CreateIntent, Good, LeaseInv, PrepareSteps
  <2>5. CASE AbortPrepared
    BY <2>0, <2>5 DEF AbortPrepared, Unfinished
  <2>6. CASE ReleaseIfRestored
    BY <2>0, <2>6 DEF ReleaseIfRestored, Unfinished
  <2> QED
    BY <1>1, <2>1, <2>2, <2>3, <2>4, <2>5, <2>6 DEF Effect
<1>2. Good /\ [Next]_vars => Good' /\ [Clean]_vars
  BY <1>1, GoodStep
<1> QED
  BY <1>2, GoodInit, PTL DEF Spec, LeaseReleasedClean

-----------------------------------------------------------------------------
(* The shape of the records and the order of the loops *)

InOrder(rec) ==
    \A i, j \in Ops : i < j /\ rec.ops[j].state # "IntentRecorded" => rec.ops[i].verif = "matched"

(* Every receipt of the backend is bound to the precondition it was given. *)
Bound == "unbound" \notin ApplyOutcomes

(* The operations applied in their order and, if receipts are bound, what    *)
(* encode accepts.                                                           *)
Shape(rec) == InOrder(rec) /\ (Bound => Serializable(rec))

(* The files have the shape, and one that shows an intent is untouched. *)
Filed ==
    \A s \in Sessions : disk[s] # NoRecord =>
        /\ Shape(disk[s])
        /\ disk[s].state = "IntentDurable" => \A i \in Ops : Untouched(disk[s].ops[i])

ShapeInv == Filed /\ (Running => Shape(mem) /\ mem.state # "IntentDurable")

(* Where the loops are: every operation before the one apply is at has a     *)
(* matched readback and none behind it was begun.                            *)
ProgressInv ==
    /\ pc = "applyOp" => \A i \in Ops : i >= idx => Untouched(mem.ops[i])
    /\ pc \in {"applyBackend", "applyRecord", "applyVerify", "applyVerified"} =>
          \A i \in Ops : i > idx => Untouched(mem.ops[i])
    /\ pc = "applyBackend" => mem.ops[idx].state = "Applying"
    /\ pc \in {"applyRecord", "applyVerify"} => mem.ops[idx].state = "Applied"
    /\ pc \in {"applyOp", "applyBackend", "applyRecord", "applyVerify"} =>
          \A i \in Ops : i < idx => mem.ops[i].verif = "matched"
    /\ pc = "applyVerified" => \A i \in Ops : i <= idx => mem.ops[i].verif = "matched"
    /\ pc \in {"restoreVerify", "restoreBackend"} => mem.ops[idx].state = "Restoring"

OrderInv == ShapeInv /\ ProgressInv

(* rec2 is rec with the fields st, re, ve and ro of operation i. *)
Exactly(rec, rec2, i, st, re, ve, ro) ==
    /\ rec2 \in Record
    /\ rec2.state = rec.state
    /\ \A j \in Ops \ {i} : rec2.ops[j] = rec.ops[j]
    /\ rec2.ops[i].state = st /\ rec2.ops[i].receipt = re
    /\ rec2.ops[i].verif = ve /\ rec2.ops[i].restored = ro

(* A legal transition changes the state of its operation and nothing else. *)
LEMMA WithOpExact ==
    ASSUME NEW rec \in Record, NEW i \in Ops, NEW next \in OperationState,
           OpCanTransition(rec.ops[i].state, next)
    PROVE  Exactly(rec, WithOp(rec, i, next), i, next, rec.ops[i].receipt,
                   rec.ops[i].verif, rec.ops[i].restored)
<1>1. rec.ops \in [Ops -> OperationRecord] BY DEF Record
<1>2. rec.ops[i] \in OperationRecord BY <1>1
<1>3. WithOp(rec, i, next) = [rec EXCEPT !.ops[i].state = next]
  BY DEF WithOp
<1>4. [rec.ops[i] EXCEPT !.state = next] \in OperationRecord
  BY <1>2 DEF OperationRecord
<1>5. [rec EXCEPT !.ops[i].state = next]
        = [rec EXCEPT !.ops = [rec.ops EXCEPT ![i] = [rec.ops[i] EXCEPT !.state = next]]]
  BY <1>1, <1>2 DEF Record
<1>6. WithOp(rec, i, next).ops = [rec.ops EXCEPT ![i] = [rec.ops[i] EXCEPT !.state = next]]
  BY <1>3, <1>5 DEF Record
<1>7. WithOp(rec, i, next).ops[i] = [rec.ops[i] EXCEPT !.state = next]
  BY <1>1, <1>6
<1>8. /\ WithOp(rec, i, next).ops[i].state = next
      /\ WithOp(rec, i, next).ops[i].receipt = rec.ops[i].receipt
      /\ WithOp(rec, i, next).ops[i].verif = rec.ops[i].verif
      /\ WithOp(rec, i, next).ops[i].restored = rec.ops[i].restored
  BY <1>2, <1>7 DEF OperationRecord
<1> QED
  BY <1>8, WithOpFacts DEF Exactly

(* Attaching a receipt or a readback changes that field and nothing else. *)
LEMMA AttachExact ==
    ASSUME NEW rec \in Record, NEW i \in Ops
    PROVE  /\ \A b \in {"bound", "unbound"} :
                 Exactly(rec, [rec EXCEPT !.ops[i].receipt = b], i, rec.ops[i].state,
                         b, rec.ops[i].verif, rec.ops[i].restored)
           /\ \A m \in {"matched", "mismatched"} :
                 Exactly(rec, [rec EXCEPT !.ops[i].verif = m], i, rec.ops[i].state,
                         rec.ops[i].receipt, m, rec.ops[i].restored)
           /\ Exactly(rec, [rec EXCEPT !.ops[i].restored = TRUE], i, rec.ops[i].state,
                      rec.ops[i].receipt, rec.ops[i].verif, TRUE)
<1>1. rec.ops \in [Ops -> OperationRecord] BY DEF Record
<1>2. rec.ops[i] \in OperationRecord BY <1>1
<1>3. ASSUME NEW b \in {"bound", "unbound"}
      PROVE  Exactly(rec, [rec EXCEPT !.ops[i].receipt = b], i, rec.ops[i].state,
                         b, rec.ops[i].verif, rec.ops[i].restored)
  <2>1. [rec EXCEPT !.ops[i].receipt = b] \in Record
    BY AttachReceipt DEF OnlyOp
  <2> QED
    BY <1>1, <1>2, <2>1 DEF Exactly, Record, OperationRecord
<1>4. ASSUME NEW m \in {"matched", "mismatched"}
      PROVE  Exactly(rec, [rec EXCEPT !.ops[i].verif = m], i, rec.ops[i].state,
                         rec.ops[i].receipt, m, rec.ops[i].restored)
  <2>1. [rec EXCEPT !.ops[i].verif = m] \in Record
    BY AttachReadback DEF OnlyOp
  <2> QED
    BY <1>1, <1>2, <2>1 DEF Exactly, Record, OperationRecord
<1>5. Exactly(rec, [rec EXCEPT !.ops[i].restored = TRUE], i, rec.ops[i].state,
                      rec.ops[i].receipt, rec.ops[i].verif, TRUE)
  <2>1. [rec EXCEPT !.ops[i].restored = TRUE] \in Record
    BY AttachRestored DEF OnlyOp
  <2> QED
    BY <1>1, <1>2, <2>1 DEF Exactly, Record, OperationRecord
<1> QED
  BY <1>3, <1>4, <1>5

(* Changing the session state only. *)
LEMMA ShapeOfOps ==
    ASSUME NEW rec, NEW rec2, rec2.ops = rec.ops, Shape(rec)
    PROVE  Shape(rec2)
BY DEF Shape, Serializable, InOrder

(* Changing one operation. *)
LEMMA ShapeOfOp ==
    ASSUME NEW rec, NEW rec2, NEW i \in Ops, Shape(rec),
           \A j \in Ops \ {i} : rec2.ops[j] = rec.ops[j],
           Bound => ValidOperation(rec2.ops[i]),
           rec.ops[i].state = "IntentRecorded" => \A k \in Ops : k < i => rec.ops[k].verif = "matched",
           \/ rec2.ops[i].verif = rec.ops[i].verif
           \/ \A j \in Ops : j > i => rec.ops[j].state = "IntentRecorded"
    PROVE  Shape(rec2)
<1>1. Bound => Serializable(rec2)
  BY DEF Shape, Serializable
<1>2. ASSUME NEW k \in Ops, NEW j \in Ops, k < j, rec2.ops[j].state # "IntentRecorded"
      PROVE  rec2.ops[k].verif = "matched"
  <2>1. CASE j = i
    BY <1>2, <2>1 DEF Shape, InOrder, Ops
  <2>2. CASE k = i
    BY <1>2, <2>2 DEF Shape, InOrder, Ops
  <2>3. CASE j # i /\ k # i
    BY <1>2, <2>3 DEF Shape, InOrder
  <2> QED
    BY <2>1, <2>2, <2>3
<1> QED
  BY <1>1, <1>2 DEF Shape, InOrder

(* IntentRecorded, with everything before it matched: Applying. *)
LEMMA ApplyingShape ==
    ASSUME NEW rec \in Record, NEW i \in Ops, Shape(rec), Untouched(rec.ops[i]),
           \A k \in Ops : k < i => rec.ops[k].verif = "matched"
    PROVE  Shape(WithOp(rec, i, "Applying"))
           /\ \A k \in Ops : WithOp(rec, i, "Applying").ops[k].verif = rec.ops[k].verif
<1>1. OpCanTransition(rec.ops[i].state, "Applying") /\ "Applying" \in OperationState
  BY DEF Untouched, OpCanTransition, OperationEdges, OperationState
<1> DEFINE r == WithOp(rec, i, "Applying")
<1>2. Exactly(rec, r, i, "Applying", rec.ops[i].receipt, rec.ops[i].verif, rec.ops[i].restored)
  BY <1>1, WithOpExact
<1> HIDE DEF r
<1>3. (Bound => ValidOperation(rec.ops[i])) /\ rec.ops[i].state = "IntentRecorded"
  BY DEF Shape, Serializable, Untouched
<1>4. Bound => ValidOperation(r.ops[i])
  BY <1>2, <1>3 DEF Exactly, ValidOperation
<1>5. Shape(r)
  BY <1>2, <1>4, ShapeOfOp DEF Exactly
<1>6. \A k \in Ops : r.ops[k].verif = rec.ops[k].verif
  BY <1>2 DEF Exactly
<1> QED
  BY <1>5, <1>6 DEF r

(* Applying with a bound receipt: Applied. *)
LEMMA AppliedShape ==
    ASSUME NEW rec \in Record, NEW i \in Ops, Shape(rec), rec.ops[i].state = "Applying"
    PROVE  /\ Shape(RecordApply(rec, i, "bound"))
           /\ RecordApply(rec, i, "bound").ops[i].state = "Applied"
           /\ \A k \in Ops : RecordApply(rec, i, "bound").ops[k].verif = rec.ops[k].verif
<1> DEFINE a == [rec EXCEPT !.ops[i].receipt = "bound"]
           r == RecordApply(rec, i, "bound")
<1>1. Exactly(rec, a, i, rec.ops[i].state, "bound", rec.ops[i].verif, rec.ops[i].restored)
  BY AttachExact
<1>2. r = WithOp(a, i, "Applied")
  BY DEF RecordApply
<1> HIDE DEF a, r
<1>3. a \in Record /\ OpCanTransition(a.ops[i].state, "Applied") /\ "Applied" \in OperationState
  BY <1>1 DEF Exactly, OpCanTransition, OperationEdges, OperationState
<1>4. Exactly(a, r, i, "Applied", a.ops[i].receipt, a.ops[i].verif, a.ops[i].restored)
  BY <1>2, <1>3, WithOpExact
<1>5. Exactly(rec, r, i, "Applied", "bound", rec.ops[i].verif, rec.ops[i].restored)
  BY <1>1, <1>4 DEF Exactly
<1>6. Bound => ValidOperation(rec.ops[i])
  BY DEF Shape, Serializable
<1>7. Bound => ValidOperation(r.ops[i])
  BY <1>5, <1>6 DEF Exactly, ValidOperation
<1>8. Shape(r)
  BY <1>5, <1>7, ShapeOfOp DEF Exactly
<1> QED
  BY <1>5, <1>8 DEF r, Exactly

(* Applied with a readback: Verified or Failed. *)
LEMMA VerifiedShape ==
    ASSUME NEW rec \in Record, NEW i \in Ops, NEW m \in BOOLEAN, Shape(rec),
           rec.ops[i].state = "Applied",
           \A j \in Ops : j > i => rec.ops[j].state = "IntentRecorded"
    PROVE  /\ Shape(RecordVerification(rec, i, m))
           /\ \A k \in Ops \ {i} : RecordVerification(rec, i, m).ops[k].verif = rec.ops[k].verif
           /\ m => RecordVerification(rec, i, m).ops[i].verif = "matched"
<1> DEFINE v == IF m THEN "matched" ELSE "mismatched"
           n == IF m THEN "Verified" ELSE "Failed"
           a == [rec EXCEPT !.ops[i].verif = v]
           r == RecordVerification(rec, i, m)
<1>1. r = WithOp(a, i, n)
  BY DEF RecordVerification
<1>2. (v = "matched" /\ n = "Verified" /\ m) \/ (v = "mismatched" /\ n = "Failed" /\ ~m)
  OBVIOUS
<1>3. v \in {"matched", "mismatched"} /\ n \in OperationState
  BY DEF OperationState
<1> HIDE DEF v, n
<1>4. Exactly(rec, a, i, rec.ops[i].state, rec.ops[i].receipt, v, rec.ops[i].restored)
  BY <1>3, AttachExact
<1> HIDE DEF a, r
<1>5. a \in Record /\ OpCanTransition(a.ops[i].state, n)
  BY <1>2, <1>4 DEF Exactly, OpCanTransition, OperationEdges
<1>6. Exactly(a, r, i, n, a.ops[i].receipt, a.ops[i].verif, a.ops[i].restored)
  BY <1>1, <1>3, <1>5, WithOpExact
<1>7. Exactly(rec, r, i, n, rec.ops[i].receipt, v, rec.ops[i].restored)
  BY <1>4, <1>6 DEF Exactly
<1>8. Bound => ValidOperation(rec.ops[i])
  BY DEF Shape, Serializable
<1>9. Bound => ValidOperation(r.ops[i])
  BY <1>2, <1>7, <1>8 DEF Exactly, ValidOperation
<1>10. Shape(r)
  BY <1>7, <1>9, ShapeOfOp DEF Exactly
<1> QED
  BY <1>2, <1>7, <1>10 DEF r, Exactly

(* Applying without a receipt: Failed. *)
LEMMA RefusedShape ==
    ASSUME NEW rec \in Record, NEW i \in Ops, Shape(rec), rec.ops[i].state = "Applying"
    PROVE  Shape(FailOperation(rec, i))
<1>1. OpCanTransition(rec.ops[i].state, "Failed") /\ "Failed" \in OperationState
  BY DEF OpCanTransition, OperationEdges, OperationState
<1> DEFINE r == FailOperation(rec, i)
<1>2. Exactly(rec, r, i, "Failed", rec.ops[i].receipt, rec.ops[i].verif, rec.ops[i].restored)
  BY <1>1, WithOpExact DEF FailOperation
<1> HIDE DEF r
<1>3. Bound => ValidOperation(rec.ops[i])
  BY DEF Shape, Serializable
<1>4. Bound => ValidOperation(r.ops[i])
  BY <1>2, <1>3 DEF Exactly, ValidOperation
<1>5. Shape(r)
  BY <1>2, <1>4, ShapeOfOp DEF Exactly
<1> QED
  BY <1>5 DEF r

(* Applying with a receipt for another precondition: Failed, and not what    *)
(* encode accepts.                                                           *)
LEMMA UnboundShape ==
    ASSUME NEW rec \in Record, NEW i \in Ops, Shape(rec), rec.ops[i].state = "Applying", ~Bound
    PROVE  /\ Shape(FailOperation(RecordApply(rec, i, "unbound"), i))
           /\ FailOperation(RecordApply(rec, i, "unbound"), i).state = rec.state
<1> DEFINE a == [rec EXCEPT !.ops[i].receipt = "unbound"]
           b == RecordApply(rec, i, "unbound")
           r == FailOperation(b, i)
<1>1. Exactly(rec, a, i, rec.ops[i].state, "unbound", rec.ops[i].verif, rec.ops[i].restored)
  BY AttachExact
<1>2. b = WithOp(a, i, "Applied") /\ r = WithOp(b, i, "Failed")
  BY DEF RecordApply, FailOperation
<1> HIDE DEF a, b, r
<1>3. a \in Record /\ OpCanTransition(a.ops[i].state, "Applied") /\ "Applied" \in OperationState
  BY <1>1 DEF Exactly, OpCanTransition, OperationEdges, OperationState
<1>4. Exactly(a, b, i, "Applied", a.ops[i].receipt, a.ops[i].verif, a.ops[i].restored)
  BY <1>2, <1>3, WithOpExact
<1>5. b \in Record /\ OpCanTransition(b.ops[i].state, "Failed") /\ "Failed" \in OperationState
  BY <1>4 DEF Exactly, OpCanTransition, OperationEdges, OperationState
<1>6. Exactly(b, r, i, "Failed", b.ops[i].receipt, b.ops[i].verif, b.ops[i].restored)
  BY <1>2, <1>5, WithOpExact
<1>7. Exactly(rec, r, i, "Failed", "unbound", rec.ops[i].verif, rec.ops[i].restored)
  BY <1>1, <1>4, <1>6 DEF Exactly
<1>8. Shape(r)
  BY <1>7, ShapeOfOp DEF Exactly
<1> QED
  BY <1>7, <1>8 DEF r, b, Exactly

(* Whatever may be restored: Restoring. *)
LEMMA RestoringShape ==
    ASSUME NEW rec \in Record, NEW i \in Ops, Shape(rec),
           rec.ops[i].receipt # "none", CanBeginRestore(rec.ops[i])
    PROVE  Shape(BeginRestore(rec, i))
<1>1. OpCanTransition(rec.ops[i].state, "Restoring") /\ "Restoring" \in OperationState
  BY DEF CanBeginRestore, OperationState
<1> DEFINE r == BeginRestore(rec, i)
<1>2. Exactly(rec, r, i, "Restoring", rec.ops[i].receipt, rec.ops[i].verif, rec.ops[i].restored)
  BY <1>1, WithOpExact DEF BeginRestore
<1> HIDE DEF r
<1>3. Bound => ValidOperation(rec.ops[i])
  BY DEF Shape, Serializable
<1>4. /\ rec.ops[i].state # "IntentRecorded"
      /\ Bound => /\ rec.ops[i].state \in {"Applied", "Verified", "Failed", "RestoreFailed"}
                  /\ ~rec.ops[i].restored
  BY <1>1, <1>3 DEF OpCanTransition, OperationEdges, ValidOperation
<1>5. Bound => ValidOperation(r.ops[i])
  BY <1>2, <1>3, <1>4 DEF Exactly, ValidOperation
<1>6. Shape(r)
  BY <1>2, <1>4, <1>5, ShapeOfOp DEF Exactly
<1> QED
  BY <1>6 DEF r

(* Restoring: Restored or RestoreFailed. *)
LEMMA RestoredShape ==
    ASSUME NEW rec \in Record, NEW i \in Ops, Shape(rec), rec.ops[i].state = "Restoring"
    PROVE  /\ Shape(RecordRestore(rec, i))
           /\ Shape(FailRestore(rec, i))
           /\ FailRestore(rec, i).ops[i].state = "RestoreFailed"
<1>0. Bound => ValidOperation(rec.ops[i])
  BY DEF Shape, Serializable
<1>1. Shape(RecordRestore(rec, i))
  <2> DEFINE a == [rec EXCEPT !.ops[i].restored = TRUE]
             r == RecordRestore(rec, i)
  <2>1. Exactly(rec, a, i, rec.ops[i].state, rec.ops[i].receipt, rec.ops[i].verif, TRUE)
    BY AttachExact
  <2>2. r = WithOp(a, i, "Restored")
    BY DEF RecordRestore
  <2> HIDE DEF a, r
  <2>3. a \in Record /\ OpCanTransition(a.ops[i].state, "Restored") /\ "Restored" \in OperationState
    BY <2>1 DEF Exactly, OpCanTransition, OperationEdges, OperationState
  <2>4. Exactly(a, r, i, "Restored", a.ops[i].receipt, a.ops[i].verif, a.ops[i].restored)
    BY <2>2, <2>3, WithOpExact
  <2>5. Exactly(rec, r, i, "Restored", rec.ops[i].receipt, rec.ops[i].verif, TRUE)
    BY <2>1, <2>4 DEF Exactly
  <2>6. Bound => ValidOperation(r.ops[i])
    BY <1>0, <2>5 DEF Exactly, ValidOperation
  <2>7. Shape(r)
    BY <2>5, <2>6, ShapeOfOp DEF Exactly
  <2> QED
    BY <2>7 DEF r
<1>2. Shape(FailRestore(rec, i)) /\ FailRestore(rec, i).ops[i].state = "RestoreFailed"
  <2> DEFINE r == FailRestore(rec, i)
  <2>1. OpCanTransition(rec.ops[i].state, "RestoreFailed") /\ "RestoreFailed" \in OperationState
    BY DEF OpCanTransition, OperationEdges, OperationState
  <2>2. Exactly(rec, r, i, "RestoreFailed", rec.ops[i].receipt, rec.ops[i].verif, rec.ops[i].restored)
    BY <2>1, WithOpExact DEF FailRestore
  <2> HIDE DEF r
  <2>3. Bound => ValidOperation(r.ops[i])
    BY <1>0, <2>2 DEF Exactly, ValidOperation
  <2>4. Shape(r) /\ r.ops[i].state = "RestoreFailed"
    BY <2>2, <2>3, ShapeOfOp DEF Exactly
  <2> QED
    BY <2>4 DEF r
<1> QED
  BY <1>1, <1>2

-----------------------------------------------------------------------------
(* Every step keeps the shape and the order, whatever the backend does *)

(* A journal write of a begun record with the shape keeps the files in shape. *)
LEMMA FiledByReplace ==
    ASSUME TypeOK, Filed, NEW s \in Sessions, NEW rec, Shape(rec), rec.state # "IntentDurable",
           NEW ok \in BOOLEAN, Replace(s, rec, ok)
    PROVE  Filed'
<1>1. disk' = disk \/ disk' = [disk EXCEPT ![s] = rec]
  BY ReplaceEffect
<1>2. disk \in [Sessions -> Record \cup {NoRecord}]
  BY DEF TypeOK
<1> QED
  BY <1>1, <1>2 DEF Filed

(* Outside the two loops only the files count. *)
LEMMA OrderOutside ==
    ASSUME Filed', pc' \in {"idle"} \cup PrepareSteps
    PROVE  OrderInv'
BY DEF OrderInv, ShapeInv, ProgressInv, Running, ApplySteps, RestoreSteps, PrepareSteps

(* Where the loops know nothing of an operation, files and record count. *)
LEMMA OrderAside ==
    ASSUME Filed', Shape(mem'), mem'.state # "IntentDurable",
           pc' \in {"failPersist", "activate", "rollback"} \cup
                   (RestoreSteps \ {"restoreVerify", "restoreBackend"})
    PROVE  OrderInv'
BY DEF OrderInv, ShapeInv, ProgressInv, RestoreSteps

(* What the running call knows of its record. *)
LEMMA OrderGround ==
    ASSUME TypeOK, OrderInv, Running
    PROVE  /\ mem \in Record /\ cur \in Sessions /\ Filed /\ Shape(mem)
           /\ mem.state # "IntentDurable"
           /\ pc \notin {"rollback", "conclude"} => idx \in Ops
BY CallTypes DEF OrderInv, ShapeInv, Running

(* prepare writes a record in shape, and abort_prepared removes one. *)
LEMMA PrepareOrder ==
    ASSUME TypeOK, OrderInv, PrepareBegin \/ AbortPrepared \/ PrepareStep
    PROVE  OrderInv'
<1>0. Filed /\ disk \in [Sessions -> Record \cup {NoRecord}]
  BY DEF OrderInv, ShapeInv, TypeOK
<1>1. CASE PrepareBegin \/ SnapshotOp \/ PrepareFail
  <2>1. disk' = disk /\ pc' \in {"idle"} \cup PrepareSteps
    BY <1>1 DEF PrepareBegin, SnapshotOp, PrepareFail, EndCall, PrepareSteps
  <2>2. Filed'
    BY <1>0, <2>1 DEF Filed
  <2> QED
    BY <2>1, <2>2, OrderOutside
<1>2. CASE AbortPrepared
  <2>1. active \in Sessions /\ disk' = [disk EXCEPT ![active] = NoRecord] /\ pc' = "idle"
    BY <1>2 DEF AbortPrepared, TypeOK, callVars
  <2>2. Filed'
    BY <1>0, <2>1 DEF Filed
  <2> QED
    BY <2>1, <2>2, OrderOutside
<1>3. ASSUME NEW s \in Sessions, CreateIntent(s) PROVE OrderInv'
  <2> DEFINE r == NewRecord(snaps)
  <2>1. Shape(r)
    BY DEF Shape, Serializable, InOrder, ValidOperation, NewRecord
  <2>2. \A i \in Ops : Untouched(r.ops[i])
    BY NewRecordFacts DEF TypeOK
  <2>3. disk' = [disk EXCEPT ![s] = r] /\ pc' = "idle"
    BY <1>3 DEF CreateIntent, EndCall
  <2> HIDE DEF r
  <2>4. Filed'
    BY <1>0, <2>1, <2>2, <2>3 DEF Filed
  <2> QED
    BY <2>3, <2>4, OrderOutside
<1> QED
  BY <1>1, <1>2, <1>3 DEF PrepareStep

(* What backend.apply makes of the record, whichever way it answers. *)
LEMMA BackendOrder ==
    ASSUME TypeOK, OrderInv,
           BackendApplied \/ BackendRefused \/ BackendUnknown \/ BackendLeftover \/ BackendUnbound
    PROVE  OrderInv'
<1>1. /\ pc = "applyBackend" /\ Running /\ idx \in Ops /\ mem \in Record
      /\ Filed /\ Shape(mem) /\ mem.state # "IntentDurable" /\ disk' = disk /\ idx' = idx
  BY OrderGround DEF BackendApplied, BackendRefused, BackendUnknown, BackendLeftover,
                     BackendUnbound, Running, ApplySteps
<1>2. /\ mem.ops[idx].state = "Applying"
      /\ \A k \in Ops : k < idx => mem.ops[k].verif = "matched"
      /\ \A k \in Ops : k > idx => Untouched(mem.ops[k])
  BY <1>1 DEF OrderInv, ProgressInv
<1>3. Filed'
  BY <1>1 DEF Filed
<1>4. CASE BackendApplied
  <2>1. mem' = RecordApply(mem, idx, "bound") /\ pc' = "applyRecord"
    BY <1>4 DEF BackendApplied
  <2>2. Shape(mem') /\ mem'.ops[idx].state = "Applied"
        /\ \A k \in Ops : mem'.ops[k].verif = mem.ops[k].verif
    BY <1>1, <1>2, <2>1, AppliedShape
  <2>3. mem'.state = mem.state /\ \A k \in Ops \ {idx} : mem'.ops[k] = mem.ops[k]
    <3>1. OnlyOp(mem, mem', idx)
      BY <1>1, <2>1, RecordApplyFacts
    <3> QED
      BY <3>1 DEF OnlyOp
  <2>4. \A k \in Ops : k > idx => Untouched(mem'.ops[k])
    BY <1>1, <1>2, <2>3, NumOpsAssumption DEF Ops
  <2> QED
    BY <1>1, <1>2, <1>3, <2>1, <2>2, <2>3, <2>4 DEF OrderInv, ShapeInv, ProgressInv
<1>5. CASE BackendUnknown
  BY <1>1, <1>3, <1>5, OrderAside DEF BackendUnknown
<1>6. CASE BackendRefused \/ BackendLeftover
  <2>1. mem' = FailOperation(mem, idx) /\ pc' = "failPersist"
    BY <1>6 DEF BackendRefused, BackendLeftover
  <2>2. Shape(mem') /\ mem'.state = mem.state
    BY <1>1, <1>2, <2>1, RefusedShape, MoveFacts DEF OnlyOp
  <2> QED
    BY <1>1, <1>3, <2>1, <2>2, OrderAside
<1>7. CASE BackendUnbound
  <2>1. mem' = FailOperation(RecordApply(mem, idx, "unbound"), idx) /\ pc' = "failPersist" /\ ~Bound
    BY <1>7 DEF BackendUnbound, Bound
  <2>2. Shape(mem') /\ mem'.state = mem.state
    BY <1>1, <1>2, <2>1, UnboundShape
  <2> QED
    BY <1>1, <1>3, <2>1, <2>2, OrderAside
<1> QED
  BY <1>4, <1>5, <1>6, <1>7

(* apply takes the operations in their order, each after the readback of    *)
(* the one before.                                                          *)
LEMMA ApplyOrder ==
    ASSUME TypeOK, OrderInv, ApplyBegin \/ ApplyStep
    PROVE  OrderInv'
<1> USE NumOpsAssumption
<1>1. CASE ApplyBegin
  <2>1. /\ active \in Sessions /\ disk[active] \in Record /\ Shape(disk[active]) /\ Filed
        /\ \A i \in Ops : Untouched(disk[active].ops[i])
    BY <1>1 DEF ApplyBegin, TypeOK, OrderInv, ShapeInv, Filed
  <2>2. mem'.ops = disk[active].ops /\ mem'.state = "Applying"
    <3>1. SessionCanTransition(disk[active].state, "Applying") /\ "Applying" \in SessionState
      BY <1>1 DEF ApplyBegin, SessionCanTransition, SessionEdges, SessionState
    <3> QED
      BY <1>1, <2>1, <3>1, WithStateFacts DEF ApplyBegin
  <2>3. Shape(mem')
    BY <2>1, <2>2, ShapeOfOps
  <2>4. PICK ok \in BOOLEAN : Replace(active, mem', ok)
    BY <1>1 DEF ApplyBegin
  <2>5. Filed'
    BY <2>1, <2>2, <2>3, <2>4, FiledByReplace
  <2>6. CASE pc' = "rollback"
    BY <2>2, <2>3, <2>5, <2>6, OrderAside
  <2>7. CASE pc' = "applyOp" /\ idx' = 1
    BY <2>1, <2>2, <2>3, <2>5, <2>7 DEF OrderInv, ShapeInv, ProgressInv, Ops
  <2> QED
    BY <1>1, <2>6, <2>7 DEF ApplyBegin
<1>2. CASE ApplyOp
  <2>1. /\ pc = "applyOp" /\ Running /\ idx \in Ops /\ mem \in Record /\ cur \in Sessions
        /\ Filed /\ Shape(mem) /\ mem.state # "IntentDurable"
    BY <1>2, OrderGround DEF ApplyOp, Running, ApplySteps
  <2>2. /\ \A k \in Ops : k >= idx => Untouched(mem.ops[k])
        /\ \A k \in Ops : k < idx => mem.ops[k].verif = "matched"
    BY <2>1 DEF OrderInv, ProgressInv
  <2>3. Untouched(mem.ops[idx])
    BY <2>1, <2>2 DEF Ops
  <2> DEFINE r == WithOp(mem, idx, "Applying")
  <2>4. Shape(r) /\ \A k \in Ops : r.ops[k].verif = mem.ops[k].verif
    BY <2>1, <2>2, <2>3, ApplyingShape
  <2>5. r.state = mem.state /\ r.ops[idx].state = "Applying"
        /\ \A k \in Ops \ {idx} : r.ops[k] = mem.ops[k]
    <3>1. OpCanTransition(mem.ops[idx].state, "Applying") /\ "Applying" \in OperationState
      BY <2>3 DEF Untouched, OpCanTransition, OperationEdges, OperationState
    <3> QED
      BY <2>1, <3>1, WithOpFacts
  <2>6. mem' = r /\ idx' = idx /\ pc' \in {"applyBackend", "rollback"}
        /\ \E ok \in BOOLEAN : Replace(cur, r, ok)
    BY <1>2 DEF ApplyOp, PersistThen
  <2> HIDE DEF r
  <2>7. Filed'
    BY <2>1, <2>4, <2>5, <2>6, FiledByReplace
  <2>8. CASE pc' = "rollback"
    BY <2>1, <2>4, <2>5, <2>6, <2>7, <2>8, OrderAside
  <2>9. CASE pc' = "applyBackend"
    <3>1. \A k \in Ops : k > idx => Untouched(r.ops[k])
      BY <2>1, <2>2, <2>5 DEF Ops
    <3> QED
      BY <2>1, <2>2, <2>4, <2>5, <2>6, <2>7, <2>9, <3>1 DEF OrderInv, ShapeInv, ProgressInv
  <2> QED
    BY <2>6, <2>8, <2>9
<1>3. CASE BackendApplied \/ BackendRefused \/ BackendUnknown \/ BackendLeftover \/ BackendUnbound
  BY <1>3, BackendOrder
<1>4. CASE ApplyRecord \/ ApplyVerified \/ FailPersist
  <2>1. /\ Running /\ mem' = mem /\ cur \in Sessions /\ Filed /\ Shape(mem) /\ idx \in Ops
        /\ mem.state # "IntentDurable"
    BY <1>4, OrderGround DEF ApplyRecord, ApplyVerified, FailPersist, PersistThen, Running, ApplySteps
  <2>2. PICK ok \in BOOLEAN : Replace(cur, mem, ok)
    BY <1>4 DEF ApplyRecord, ApplyVerified, FailPersist, PersistThen
  <2>3. Filed'
    BY <2>1, <2>2, FiledByReplace
  <2>4. CASE pc' \in {"rollback", "activate"}
    BY <2>1, <2>3, <2>4, OrderAside
  <2>5. CASE ApplyRecord /\ pc' = "applyVerify"
    <3>1. idx' = idx /\ pc = "applyRecord"
      BY <2>5 DEF ApplyRecord
    <3> QED
      BY <2>1, <2>3, <2>5, <3>1 DEF OrderInv, ShapeInv, ProgressInv
  <2>6. CASE ApplyVerified /\ pc' = "applyOp"
    <3>1. idx' = idx + 1 /\ pc = "applyVerified"
      BY <2>6 DEF ApplyVerified
    <3> QED
      BY <2>1, <2>3, <2>6, <3>1 DEF OrderInv, ShapeInv, ProgressInv, Ops
  <2> QED
    BY <1>4, <2>4, <2>5, <2>6 DEF ApplyRecord, ApplyVerified, FailPersist, PersistThen
<1>5. CASE ApplyVerify
  <2>1. /\ pc = "applyVerify" /\ Running /\ idx \in Ops /\ mem \in Record
        /\ Filed /\ Shape(mem) /\ mem.state # "IntentDurable" /\ disk' = disk /\ idx' = idx
    BY <1>5, OrderGround DEF ApplyVerify, Running, ApplySteps
  <2>2. /\ mem.ops[idx].state = "Applied"
        /\ \A k \in Ops : k < idx => mem.ops[k].verif = "matched"
        /\ \A k \in Ops : k > idx => Untouched(mem.ops[k])
    BY <2>1 DEF OrderInv, ProgressInv
  <2>3. \A k \in Ops : k > idx => mem.ops[k].state = "IntentRecorded"
    BY <2>2 DEF Untouched
  <2>4. Filed'
    BY <2>1 DEF Filed
  <2>5. ASSUME NEW m \in BOOLEAN, mem' = RecordVerification(mem, idx, m)
        PROVE  /\ Shape(mem') /\ mem'.state = mem.state
               /\ \A k \in Ops \ {idx} : mem'.ops[k] = mem.ops[k]
               /\ m => mem'.ops[idx].verif = "matched"
    <3>1. Shape(mem') /\ (m => mem'.ops[idx].verif = "matched")
      BY <2>1, <2>2, <2>3, <2>5, VerifiedShape
    <3>2. OnlyOp(mem, mem', idx)
      BY <2>1, <2>5, RecordVerificationFacts
    <3> QED
      BY <3>1, <3>2 DEF OnlyOp
  <2>6. CASE pc' = "failPersist" /\ mem' = RecordVerification(mem, idx, FALSE)
    BY <2>1, <2>4, <2>5, <2>6, OrderAside
  <2>7. CASE pc' = "applyVerified" /\ mem' = RecordVerification(mem, idx, TRUE)
    <3>1. /\ Shape(mem') /\ mem'.state = mem.state /\ mem'.ops[idx].verif = "matched"
          /\ \A k \in Ops \ {idx} : mem'.ops[k] = mem.ops[k]
      BY <2>5, <2>7
    <3>2. /\ \A k \in Ops : k <= idx => mem'.ops[k].verif = "matched"
          /\ \A k \in Ops : k > idx => Untouched(mem'.ops[k])
      BY <2>1, <2>2, <3>1 DEF Ops
    <3> QED
      BY <2>1, <2>4, <2>7, <3>1, <3>2 DEF OrderInv, ShapeInv, ProgressInv
  <2> QED
    BY <1>5, <2>6, <2>7 DEF ApplyVerify
<1>6. CASE Activate \/ ActivateFail
  <2>1. Running /\ mem \in Record /\ cur \in Sessions /\ Filed /\ Shape(mem)
        /\ mem.state # "IntentDurable"
    BY <1>6, OrderGround DEF Activate, ActivateFail, Running, ApplySteps
  <2> DEFINE r == WithState(mem, "Active")
  <2>2. r.ops = mem.ops /\ r.state # "IntentDurable"
    <3>1. "Active" \in SessionState
      BY DEF SessionState
    <3> QED
      BY <2>1, <3>1, WithStateFacts
  <2>3. \E ok \in BOOLEAN : Replace(cur, r, ok)
    BY <1>6 DEF Activate, ActivateFail
  <2>4. pc' = "idle" \/ (pc' = "rollback" /\ mem' = r)
    BY <1>6 DEF Activate, ActivateFail, EndCall
  <2> HIDE DEF r
  <2>5. Shape(r) /\ Filed'
    BY <2>1, <2>2, <2>3, ShapeOfOps, FiledByReplace
  <2> QED
    BY <2>2, <2>4, <2>5, OrderOutside, OrderAside
<1>7. CASE BackendMisnamed \/ ActivateClockError
  <2>1. disk' = disk /\ pc' = "idle"
    BY <1>7 DEF BackendMisnamed, ActivateClockError, EndCall
  <2>2. Filed'
    BY <2>1 DEF OrderInv, ShapeInv, Filed
  <2> QED
    BY <2>1, <2>2, OrderOutside
<1>8. CASE RollbackAfterFailure
  <2>1. Running /\ mem \in Record /\ cur \in Sessions /\ Filed /\ Shape(mem)
        /\ mem.state # "IntentDurable"
    BY <1>8, OrderGround DEF RollbackAfterFailure, Running, ApplySteps
  <2> DEFINE next == IF mem.state = "Active" THEN "Restoring" ELSE "RollingBack"
             r == WithState(mem, next)
  <2>2. r.ops = mem.ops /\ r.state # "IntentDurable"
    <3>1. next \in SessionState /\ next # "IntentDurable"
      BY DEF SessionState
    <3> HIDE DEF next
    <3> QED
      BY <2>1, <3>1, WithStateFacts
  <2>3. mem' = r /\ pc' = "restoreOp" /\ \E ok \in BOOLEAN : Replace(cur, r, ok)
    BY <1>8 DEF RollbackAfterFailure, PersistThen
  <2> HIDE DEF r, next
  <2>4. Shape(r) /\ Filed'
    BY <2>1, <2>2, <2>3, ShapeOfOps, FiledByReplace
  <2> QED
    BY <2>2, <2>3, <2>4, OrderAside DEF RestoreSteps
<1> QED
  BY <1>1, <1>2, <1>3, <1>4, <1>5, <1>6, <1>7, <1>8 DEF ApplyStep

(* restore_record moves one operation at a time along its legal edges.       *)
LEMMA RestoreOrder ==
    ASSUME TypeOK, OrderInv, RestoreCall \/ RestoreStep
    PROVE  OrderInv'
<1>0. Filed
  BY DEF OrderInv, ShapeInv
<1>a. ASSUME NEW s \in Unfinished, NEW ok \in BOOLEAN, Replace(s, RestoreState(disk[s]), ok)
      PROVE  /\ Filed' /\ Shape(RestoreState(disk[s]))
             /\ RestoreState(disk[s]).state # "IntentDurable"
  <2>1. s \in Sessions /\ disk[s] \in Record /\ disk[s].state # "Restored" /\ Shape(disk[s])
    BY <1>0 DEF TypeOK, Unfinished, Filed
  <2>2. RestoreState(disk[s]).ops = disk[s].ops /\ RestoreState(disk[s]).state # "IntentDurable"
    BY <2>1, RestoreStateFacts
  <2>3. Shape(RestoreState(disk[s]))
    BY <2>1, <2>2, ShapeOfOps
  <2> QED
    BY <1>0, <1>a, <2>1, <2>2, <2>3, FiledByReplace
<1>b. ASSUME NEW s \in Unfinished, StartRestore(s) PROVE OrderInv'
  <2>1. TRUE \in BOOLEAN /\ Replace(s, RestoreState(disk[s]), TRUE)
        /\ mem' = RestoreState(disk[s]) /\ pc' = "restoreOp"
    BY <1>b DEF StartRestore
  <2>2. Filed' /\ Shape(mem') /\ mem'.state # "IntentDurable"
    BY <1>a, <2>1
  <2> QED
    BY <2>1, <2>2, OrderAside DEF RestoreSteps
<1>1. CASE RestoreBegin
  BY <1>1, <1>b DEF RestoreBegin
<1>2. CASE RestoreBeginFail
  <2>1. FALSE \in BOOLEAN /\ active \in Unfinished /\ pc' = "idle"
        /\ Replace(active, RestoreState(disk[active]), FALSE)
    BY <1>2 DEF RestoreBeginFail, callVars
  <2> QED
    BY <1>a, <2>1, OrderOutside
<1>3. CASE ReleaseIfRestored
  <2>1. disk' = disk /\ pc' = "idle"
    BY <1>3 DEF ReleaseIfRestored, callVars
  <2> QED
    BY <1>0, <2>1, OrderOutside DEF Filed
<1>4. ASSUME NEW s \in Sessions, RecoverBegin(s) PROVE OrderInv'
  BY <1>4, <1>b DEF RecoverBegin
<1>5. ASSUME NEW s \in Sessions, RecoverBeginFail(s) PROVE OrderInv'
  <2>1. FALSE \in BOOLEAN /\ s \in Unfinished /\ pc' = "idle"
        /\ Replace(s, RestoreState(disk[s]), FALSE)
    BY <1>5 DEF RecoverBeginFail, callVars
  <2> QED
    BY <1>a, <2>1, OrderOutside
<1>6. CASE RestoreSkip \/ RestoreUncertain
  <2>1. /\ Running /\ Shape(mem) /\ mem.state # "IntentDurable" /\ UNCHANGED <<disk, mem>>
        /\ pc' \in {"conclude", "restoreOp"}
    BY <1>6, OrderGround DEF RestoreSkip, RestoreUncertain, NextRestore, Running, RestoreSteps
  <2>2. Filed'
    BY <1>0, <2>1 DEF Filed
  <2> QED
    BY <2>1, <2>2, OrderAside DEF RestoreSteps
<1>7. CASE RestoreOpBegin
  <2>1. /\ pc = "restoreOp" /\ Running /\ idx \in Ops /\ mem \in Record /\ Shape(mem)
        /\ mem.state # "IntentDurable"
        /\ cur \in Sessions /\ idx' = idx /\ pc' = "restoreVerify"
        /\ mem.ops[idx].receipt # "none" /\ CanBeginRestore(mem.ops[idx])
    BY <1>7, OrderGround DEF RestoreOpBegin, Op, Running, RestoreSteps
  <2> DEFINE r == BeginRestore(mem, idx)
  <2>2. mem' = r /\ \E ok \in BOOLEAN : Replace(cur, r, ok)
    BY <1>7 DEF RestoreOpBegin
  <2>3. Shape(r) /\ r.state = mem.state /\ r.ops[idx].state = "Restoring"
    BY <2>1, RestoringShape, MoveFacts DEF OnlyOp
  <2> HIDE DEF r
  <2>4. Filed'
    BY <1>0, <2>1, <2>2, <2>3, FiledByReplace
  <2> QED
    BY <2>1, <2>2, <2>3, <2>4 DEF OrderInv, ShapeInv, ProgressInv
<1>8. CASE RestoreOwned
  <2>1. /\ pc = "restoreVerify" /\ Running /\ Shape(mem) /\ mem.state # "IntentDurable"
        /\ UNCHANGED <<disk, mem, idx>> /\ pc' = "restoreBackend"
    BY <1>8, OrderGround DEF RestoreOwned, Running, RestoreSteps
  <2>2. Filed'
    BY <1>0, <2>1 DEF Filed
  <2> QED
    BY <2>1, <2>2 DEF OrderInv, ShapeInv, ProgressInv
<1>9. CASE RestoreFound \/ RestoreRefused \/ BackendRestored \/ BackendRestoreFailed
  <2>1. /\ pc \in {"restoreVerify", "restoreBackend"} /\ Running /\ idx \in Ops
        /\ mem \in Record /\ Shape(mem) /\ mem.state # "IntentDurable" /\ disk' = disk
        /\ pc' \in {"restoreRecord", "restoreFailPersist"}
    BY <1>9, OrderGround DEF RestoreFound, RestoreRefused, BackendRestored, BackendRestoreFailed,
                             Running, RestoreSteps
  <2>2. mem.ops[idx].state = "Restoring"
    BY <2>1 DEF OrderInv, ProgressInv
  <2>3. mem' \in {RecordRestore(mem, idx), FailRestore(mem, idx)}
    BY <1>9 DEF RestoreFound, RestoreRefused, BackendRestored, BackendRestoreFailed
  <2>4. Shape(mem')
    BY <2>1, <2>2, <2>3, RestoredShape
  <2>5. mem'.state = mem.state
    <3>1. OnlyOp(mem, RecordRestore(mem, idx), idx) /\ OnlyOp(mem, FailRestore(mem, idx), idx)
      BY <2>1, RecordRestoreFacts, MoveFacts
    <3> QED
      BY <2>3, <3>1 DEF OnlyOp
  <2>6. Filed'
    BY <1>0, <2>1 DEF Filed
  <2> QED
    BY <2>1, <2>4, <2>5, <2>6, OrderAside DEF RestoreSteps
<1>10. CASE RestoreRecord \/ RestoreFailPersist
  <2>1. /\ Running /\ Shape(mem) /\ mem.state # "IntentDurable" /\ cur \in Sessions
        /\ UNCHANGED mem /\ pc' \in {"conclude", "restoreOp"}
    BY <1>10, OrderGround DEF RestoreRecord, RestoreFailPersist, NextRestore, Running, RestoreSteps
  <2>2. PICK ok \in BOOLEAN : Replace(cur, mem, ok)
    BY <1>10 DEF RestoreRecord, RestoreFailPersist
  <2>3. Filed'
    BY <1>0, <2>1, <2>2, FiledByReplace
  <2> QED
    BY <2>1, <2>3, OrderAside DEF RestoreSteps
<1>11. CASE ConcludeRestored \/ ConcludeDegraded
  <2>1. /\ pc' = "idle" /\ Running /\ mem \in Record /\ Shape(mem) /\ cur \in Sessions
        /\ mem.state # "IntentDurable"
    BY <1>11, OrderGround DEF ConcludeRestored, ConcludeDegraded, EndCall, Running, RestoreSteps
  <2>2. PICK rec \in {WithState(mem, "Restored"), DegradedRecord(mem)} :
            \E ok \in BOOLEAN : Replace(cur, rec, ok)
    BY <1>11 DEF ConcludeRestored, ConcludeDegraded
  <2>3. rec.ops = mem.ops /\ rec.state # "IntentDurable"
    <3>1. "Restored" \in SessionState
      BY DEF SessionState
    <3> QED
      BY <2>1, <2>2, <3>1, WithStateFacts, DegradedFacts
  <2>4. Shape(rec)
    BY <2>1, <2>3, ShapeOfOps
  <2>5. Filed'
    BY <1>0, <2>1, <2>2, <2>3, <2>4, FiledByReplace
  <2> QED
    BY <2>1, <2>5, OrderOutside
<1> QED
  BY <1>1, <1>2, <1>3, <1>4, <1>5, <1>6, <1>7, <1>8, <1>9, <1>10, <1>11 DEF RestoreCall, RestoreStep

(* A crash ends the call; other writers touch neither files nor records. *)
LEMMA EnvironmentOrder ==
    ASSUME TypeOK, OrderInv, Crash \/ OtherWrite \/ FaultsStop \/ UNCHANGED vars
    PROVE  OrderInv'
<1>1. CASE Crash
  <2>1. disk' = disk /\ pc' = "idle"
    BY <1>1 DEF Crash, EndCall
  <2>2. Filed'
    BY <2>1 DEF OrderInv, ShapeInv, Filed
  <2> QED
    BY <2>1, <2>2, OrderOutside
<1>2. CASE OtherWrite \/ FaultsStop \/ UNCHANGED vars
  <2>1. UNCHANGED <<disk, mem, pc, idx>>
    BY <1>2 DEF OtherWrite, FaultsStop, vars, callVars
  <2> QED
    BY <2>1 DEF OrderInv, ShapeInv, Filed, ProgressInv, Running
<1> QED
  BY <1>1, <1>2

(* The shape and the order hold throughout, over any backend. *)
LEMMA OrderStep == TypeOK /\ OrderInv /\ [Next]_vars => TypeOK' /\ OrderInv'
<1> SUFFICES ASSUME TypeOK, OrderInv, [Next]_vars PROVE OrderInv'
  BY NextType
<1> QED
  BY PrepareOrder, ApplyOrder, RestoreOrder, EnvironmentOrder DEF Next, CallStep

LEMMA OrderInit == Init => TypeOK /\ OrderInv
<1> SUFFICES ASSUME Init PROVE OrderInv
  BY InitType
<1> QED
  BY DEF Init, OrderInv, ShapeInv, Filed, ProgressInv, Running, ApplySteps, RestoreSteps

(* Every durable record shows operations with a matched readback, then at    *)
(* most one that was begun: apply never runs ahead of its verification,      *)
(* whatever its backend answers.                                             *)
THEOREM AppliedInOrder == Spec => []AppliesInOrder
<1>1. OrderInv => AppliesInOrder
  BY DEF OrderInv, ShapeInv, Filed, Shape, InOrder, AppliesInOrder
<1> QED
  BY <1>1, OrderInit, OrderStep, PTL DEF Spec

(* No legal sequence of record operations, with failures and crashes between *)
(* any two, leads to a record that encode refuses to persist, unless the     *)
(* backend hands out a receipt for another precondition than the planned one.*)
THEOREM EncodeNeverRefuses ==
    ASSUME "unbound" \notin ApplyOutcomes
    PROVE  Spec => []RecordsSerializable
<1>1. TypeOK /\ OrderInv => RecordsSerializable
  BY DEF TypeOK, OrderInv, ShapeInv, Running, RecordsSerializable, Shape, Bound
<1> QED
  BY <1>1, OrderInit, OrderStep, PTL DEF Spec

-----------------------------------------------------------------------------
(* The reverse order of restore_record *)

(* The operations from first on were tried, or nothing of them is in place. *)
Tried(first) ==
    \A j \in Ops : j >= first /\ lost[j] # NoValue =>
        mem.ops[j].state \in {"RestoreFailed", "Applying", "Restoring"}

(* Where the restore loop is. *)
UndoInv ==
    /\ pc \in {"restoreOp", "restoreVerify", "restoreBackend"} => Tried(idx + 1)
    /\ pc \in {"restoreRecord", "restoreFailPersist"} => Tried(idx)

(* The loop of restore_record goes on to an earlier operation. *)
LEMMA UndoOnward ==
    ASSUME idx \in Ops, NextRestore, Tried(idx), UNCHANGED <<mem, lost>>
    PROVE  UndoInv'
<1>1. idx' = idx - 1 /\ pc' \in {"conclude", "restoreOp"} /\ idx \in Nat
  BY NumOpsAssumption DEF NextRestore, Ops
<1>2. \A j \in Ops : j >= idx' + 1 /\ lost'[j] # NoValue =>
            mem'.ops[j].state \in {"RestoreFailed", "Applying", "Restoring"}
  BY <1>1, NumOpsAssumption DEF Tried, Ops
<1> QED
  BY <1>1, <1>2 DEF UndoInv, Tried

(* The operation at hand is settled: its write is gone, or it was tried. *)
LEMMA TriedHere ==
    ASSUME NEW first \in Ops, Tried(first + 1),
           \/ lost[first] = NoValue
           \/ mem.ops[first].state \in {"RestoreFailed", "Applying", "Restoring"}
    PROVE  Tried(first)
BY NumOpsAssumption DEF Tried, Ops

(* A loop that starts has nothing behind it. *)
LEMMA UndoStarts ==
    ASSUME pc' = "restoreOp", idx' = NumOps
    PROVE  UndoInv'
BY NumOpsAssumption DEF UndoInv, Tried, Ops

(* restore_record takes the operations in the reverse order and gives up    *)
(* only on what it tried.                                                   *)
LEMMA RestoreUndo ==
    ASSUME Good, OrderInv, UndoInv, Bound, RestoreStep
    PROVE  UndoInv'
<1> USE NumOpsAssumption
<1>0. TypeOK
  BY DEF Good
<1>1. CASE RestoreSkip \/ RestoreUncertain
  <2>1. /\ pc = "restoreOp" /\ idx \in Ops /\ mem \in Record /\ Shape(mem) /\ Covers(mem)
        /\ UNCHANGED <<mem, lost>> /\ NextRestore
    BY <1>0, <1>1, OrderGround, Ground DEF RestoreSkip, RestoreUncertain, Running, RestoreSteps
  <2>2. Tried(idx + 1)
    BY <2>1 DEF UndoInv
  <2>3. ValidOperation(mem.ops[idx]) /\ mem.ops[idx].state \in OperationState
    BY <2>1 DEF Shape, Serializable, Record, OperationRecord
  <2>4. lost[idx] = NoValue \/ mem.ops[idx].state \in {"Applying", "Restoring"}
    <3>1. CASE RestoreSkip
      BY <2>1, <3>1 DEF RestoreSkip, Op, Covers, Owed
    <3>2. CASE RestoreUncertain
      BY <2>3, <3>2 DEF RestoreUncertain, Op, CanBeginRestore, OpCanTransition, OperationEdges,
                        OperationState, ValidOperation
    <3> QED
      BY <1>1, <3>1, <3>2
  <2>5. Tried(idx)
    BY <2>1, <2>2, <2>4, TriedHere
  <2> QED
    BY <2>1, <2>5, UndoOnward
<1>2. CASE RestoreOpBegin
  <2>1. /\ pc = "restoreOp" /\ idx \in Ops /\ mem \in Record
        /\ idx' = idx /\ lost' = lost /\ pc' = "restoreVerify" /\ mem' = BeginRestore(mem, idx)
    BY <1>0, <1>2, OrderGround DEF RestoreOpBegin, Running, RestoreSteps
  <2>2. \A j \in Ops \ {idx} : mem'.ops[j] = mem.ops[j]
    BY <2>1, MoveFacts DEF OnlyOp
  <2>3. Tried(idx + 1)
    BY <2>1 DEF UndoInv
  <2>4. Tried(idx + 1)'
    BY <2>1, <2>2, <2>3 DEF Tried, Ops
  <2> QED
    BY <2>1, <2>4 DEF UndoInv
<1>3. CASE RestoreOwned
  <2>1. pc = "restoreVerify" /\ UNCHANGED <<mem, idx, lost>> /\ pc' = "restoreBackend"
    BY <1>3 DEF RestoreOwned
  <2>2. Tried(idx + 1)
    BY <2>1 DEF UndoInv
  <2>3. Tried(idx + 1)'
    BY <2>1, <2>2 DEF Tried
  <2> QED
    BY <2>1, <2>3 DEF UndoInv
<1>4. CASE RestoreFound \/ RestoreRefused \/ BackendRestored \/ BackendRestoreFailed
  <2>1. /\ pc \in {"restoreVerify", "restoreBackend"} /\ idx \in Ops
        /\ mem \in Record /\ Shape(mem) /\ Covers(mem) /\ idx' = idx
        /\ pc' \in {"restoreRecord", "restoreFailPersist"}
    BY <1>0, <1>4, OrderGround, Ground DEF RestoreFound, RestoreRefused, BackendRestored,
                                           BackendRestoreFailed, Running, RestoreSteps
  <2>2. Tried(idx + 1) /\ mem.ops[idx].state = "Restoring"
    BY <2>1 DEF UndoInv, OrderInv, ProgressInv
  <2>3. \/ mem' = RecordRestore(mem, idx) /\ lost'[idx] = NoValue
        \/ mem' = FailRestore(mem, idx)
    <3>1. CASE RestoreFound
      BY <2>1, <3>1 DEF RestoreFound, Op, Covers, Good, Rest, LostInv
    <3>2. CASE BackendRestored
      BY <1>0, <2>1, <3>2 DEF BackendRestored, TypeOK
    <3>3. CASE RestoreRefused \/ BackendRestoreFailed
      BY <3>3 DEF RestoreRefused, BackendRestoreFailed
    <3> QED
      BY <1>4, <3>1, <3>2, <3>3
  <2>4. \A j \in Ops : lost'[j] \in {lost[j], NoValue}
    BY <1>0, <1>4, <2>1 DEF RestoreFound, RestoreRefused, BackendRestored, BackendRestoreFailed, TypeOK
  <2>5. lost'[idx] = NoValue \/ mem'.ops[idx].state = "RestoreFailed"
    BY <2>1, <2>2, <2>3, RestoredShape
  <2>6. \A j \in Ops \ {idx} : mem'.ops[j] = mem.ops[j]
    <3>1. \A j \in Ops \ {idx} : RecordRestore(mem, idx).ops[j] = mem.ops[j]
      BY <2>1, RecordRestoreFacts DEF OnlyOp
    <3>2. \A j \in Ops \ {idx} : FailRestore(mem, idx).ops[j] = mem.ops[j]
      BY <2>1, MoveFacts DEF OnlyOp
    <3> QED
      BY <2>3, <3>1, <3>2
  <2>7. Tried(idx)'
    BY <2>1, <2>2, <2>4, <2>5, <2>6 DEF Tried, Ops
  <2> QED
    BY <2>1, <2>7 DEF UndoInv
<1>5. CASE RestoreRecord \/ RestoreFailPersist
  <2>1. /\ pc \in {"restoreRecord", "restoreFailPersist"} /\ idx \in Ops
        /\ UNCHANGED <<mem, lost>> /\ NextRestore
    BY <1>0, <1>5, OrderGround DEF RestoreRecord, RestoreFailPersist, Running, RestoreSteps
  <2>2. Tried(idx)
    BY <2>1 DEF UndoInv
  <2> QED
    BY <2>1, <2>2, UndoOnward
<1>6. CASE ConcludeRestored \/ ConcludeDegraded
  BY <1>6 DEF ConcludeRestored, ConcludeDegraded, EndCall, UndoInv
<1> QED
  BY <1>1, <1>2, <1>3, <1>4, <1>5, <1>6 DEF RestoreStep

(* The other steps are outside the loop or start it. *)
LEMMA OutsideUndo ==
    ASSUME Good, UndoInv,
           \/ PrepareBegin \/ AbortPrepared \/ PrepareStep \/ ApplyBegin \/ ApplyStep \/ RestoreCall
           \/ Crash \/ OtherWrite \/ FaultsStop \/ UNCHANGED vars
    PROVE  UndoInv'
<1>1. CASE PrepareBegin \/ AbortPrepared \/ PrepareStep \/ Crash
  BY <1>1 DEF PrepareBegin, AbortPrepared, PrepareStep, SnapshotOp, PrepareFail, CreateIntent,
              Crash, EndCall, callVars, UndoInv
<1>2. CASE ApplyBegin \/ (ApplyStep /\ ~RollbackAfterFailure)
  BY <1>2 DEF ApplyBegin, ApplyStep, ApplyOp, BackendApplied, BackendRefused, BackendUnknown,
              BackendLeftover, BackendUnbound, BackendMisnamed, ApplyRecord, ApplyVerify,
              ApplyVerified, FailPersist, Activate, ActivateClockError, ActivateFail, PersistThen, EndCall, UndoInv
<1>3. CASE RollbackAfterFailure
  BY <1>3, UndoStarts DEF RollbackAfterFailure, PersistThen
<1>4. CASE RestoreCall
  BY <1>4, UndoStarts DEF RestoreCall, RestoreBegin, RestoreBeginFail, ReleaseIfRestored,
                          RecoverBegin, RecoverBeginFail, StartRestore, callVars, UndoInv
<1>5. CASE OtherWrite \/ FaultsStop \/ UNCHANGED vars
  <2>1. UNCHANGED <<mem, pc, idx>>
    BY <1>5 DEF OtherWrite, FaultsStop, vars, callVars
  <2>2. \A i \in Ops : lost'[i] \in {lost[i], NoValue}
    BY <1>5 DEF OtherWrite, FaultsStop, vars, Good, TypeOK
  <2> QED
    BY <2>1, <2>2 DEF UndoInv, Tried
<1> QED
  BY <1>1, <1>2, <1>3, <1>4, <1>5

(* When restore_record writes a target back, every later operation whose     *)
(* write is still in place was tried before it.                              *)
THEOREM RestoredInReverse ==
    ASSUME ApplyOutcomes \subseteq CpuOutcomes
    PROVE  Spec => []ReverseRestoreOrder
<1> DEFINE Inv == Good /\ OrderInv /\ UndoInv
<1>1. Init => Inv
  BY GoodInit, OrderInit DEF Init, UndoInv
<1>2. Inv /\ [Next]_vars => Inv'
  <2> SUFFICES ASSUME Inv, [Next]_vars PROVE Inv'
    OBVIOUS
  <2>1. Good' /\ OrderInv'
    BY GoodStep, OrderStep DEF Good
  <2>2. UndoInv'
    <3>1. Bound
      BY DEF Bound, CpuOutcomes
    <3> QED
      BY <3>1, RestoreUndo, OutsideUndo DEF Next, CallStep
  <2> QED
    BY <2>1, <2>2
<1>3. Inv => ReverseRestoreOrder
  <2> SUFFICES ASSUME Inv, pc = "restoreBackend" PROVE ReverseRestoreOrder
    BY DEF ReverseRestoreOrder
  <2>1. idx \in Ops /\ Tried(idx + 1)
    BY CallTypes DEF Good, RestoreSteps, UndoInv
  <2> QED
    BY <2>1, NumOpsAssumption DEF Tried, ReverseRestoreOrder, Ops
<1> HIDE DEF Inv
<1> QED
  BY <1>1, <1>2, <1>3, PTL DEF Spec
=============================================================================
