--------------------------- MODULE SessionRecord ---------------------------
(***************************************************************************)
(* The durable record of one boost session: the two lifecycle tables, the  *)
(* operations of SessionRecord that the transaction engine drives, and the *)
(* shape rules that every encode and decode enforces.                      *)
(* Sources: sysboost-core/src/session.rs and sysboost-core/src/            *)
(* transaction.rs.                                                         *)
(*                                                                         *)
(* A record is [state, ops]; ops[i] is the i-th operation in apply order.  *)
(* Of an operation the model keeps its lifecycle state, the captured       *)
(* original (snap), whether an apply receipt is attached and bound to the  *)
(* planned precondition, the last readback, and whether a verified restore *)
(* receipt is attached.  Identifiers, timestamps, reasons and failure      *)
(* texts carry no control and are left out; so are the transition and      *)
(* failure lists, whose only effect is their length bound.                 *)
(***************************************************************************)
EXTENDS Naturals

CONSTANTS
    NumOps,      \* operations of a plan; their order is the apply order
    Values,      \* values a target may hold (typed values / fingerprints)
    Desired      \* the value every operation of the plan asks for

ASSUME NumOpsAssumption == NumOps \in Nat \ {0}
ASSUME DesiredAssumption == Desired \in Values

Ops == 1..NumOps

OperationState ==
    {"Planned", "Snapshotted", "IntentRecorded", "Applying", "Applied",
     "Verified", "Restoring", "Restored", "Failed", "RestoreFailed"}

(* OperationState::can_transition *)
OperationEdges ==
    {<<"Planned", "Snapshotted">>, <<"Snapshotted", "IntentRecorded">>,
     <<"IntentRecorded", "Applying">>, <<"Applying", "Applied">>,
     <<"Applying", "Failed">>, <<"Applied", "Verified">>,
     <<"Applied", "Failed">>, <<"Verified", "Restoring">>,
     <<"Applied", "Restoring">>, <<"Applying", "Restoring">>,
     <<"Failed", "Restoring">>, <<"Restoring", "Restored">>,
     <<"Restoring", "RestoreFailed">>, <<"RestoreFailed", "Restoring">>}

SessionState ==
    {"New", "Detected", "Planned", "Snapshotted", "IntentDurable", "Applying",
     "Active", "Restoring", "Restored", "RollingBack", "Degraded",
     "RecoveryPending"}

(* SessionState::can_transition *)
SessionEdges ==
    {<<"New", "Detected">>, <<"Detected", "Planned">>,
     <<"Planned", "Snapshotted">>, <<"Snapshotted", "IntentDurable">>,
     <<"IntentDurable", "Applying">>, <<"IntentDurable", "RollingBack">>,
     <<"Applying", "Active">>, <<"Applying", "RollingBack">>,
     <<"Active", "Restoring">>, <<"Restoring", "Restored">>,
     <<"Restoring", "Degraded">>, <<"RollingBack", "Restored">>,
     <<"RollingBack", "Degraded">>, <<"Degraded", "RecoveryPending">>,
     <<"RecoveryPending", "Restoring">>, <<"RecoveryPending", "Degraded">>}

OpCanTransition(from, to) == <<from, to>> \in OperationEdges
SessionCanTransition(from, to) == <<from, to>> \in SessionEdges

OperationRecord ==
    [state    : OperationState,
     snap     : Values,                            \* snapshot.original
     receipt  : {"none", "bound", "unbound"},      \* apply_receipt
     verif    : {"none", "matched", "mismatched"}, \* verification
     restored : BOOLEAN]                           \* restore_receipt

Record == [state : SessionState, ops : [Ops -> OperationRecord]]

-----------------------------------------------------------------------------
(* The record prepare() builds: SessionRecord::new, the transitions up to   *)
(* IntentDurable, one capture_snapshot per operation and record_intent.     *)
NewRecord(snaps) ==
    [state |-> "IntentDurable",
     ops   |-> [i \in Ops |->
                  [state |-> "IntentRecorded", snap |-> snaps[i],
                   receipt |-> "none", verif |-> "none", restored |-> FALSE]]]

(* Session::transition: a step the table does not list is refused and the  *)
(* record keeps its state.                                                 *)
WithState(rec, next) ==
    IF SessionCanTransition(rec.state, next)
    THEN [rec EXCEPT !.state = next]
    ELSE rec

(* OperationRecord::transition on operation i. *)
WithOp(rec, i, next) ==
    IF OpCanTransition(rec.ops[i].state, next)
    THEN [rec EXCEPT !.ops[i].state = next]
    ELSE rec

(* record_apply: the receipt is attached before the transition is tried. *)
RecordApply(rec, i, binding) ==
    WithOp([rec EXCEPT !.ops[i].receipt = binding], i, "Applied")

(* record_verification followed, on a mismatch, by fail_operation, which   *)
(* finds the operation already Failed.                                     *)
RecordVerification(rec, i, matched) ==
    WithOp([rec EXCEPT !.ops[i].verif =
                IF matched THEN "matched" ELSE "mismatched"],
           i, IF matched THEN "Verified" ELSE "Failed")

(* fail_operation: no second transition when the operation already failed. *)
FailOperation(rec, i) == WithOp(rec, i, "Failed")

(* begin_restore_operation: an already restored operation is accepted as   *)
(* it is, any other must have an edge to Restoring.                        *)
CanBeginRestore(op) == OpCanTransition(op.state, "Restoring")
BeginRestore(rec, i) == WithOp(rec, i, "Restoring")

(* Slip: the verified restore receipt is not attached. *)
RecordRestoreUnattached(rec, i) == WithOp(rec, i, "Restored")

(* record_restore and fail_restore. *)
RecordRestore(rec, i) ==
    WithOp([rec EXCEPT !.ops[i].restored = TRUE], i, "Restored")
FailRestore(rec, i) == WithOp(rec, i, "RestoreFailed")

(* OperationRecord::needs_restore and SessionRecord::restoration_proven. *)
NeedsRestore(op) == op.receipt # "none" /\ op.state # "Restored"
RestorationProven(rec) ==
    \A i \in Ops :
        /\ ~NeedsRestore(rec.ops[i])
        /\ rec.ops[i].state \notin {"Applying", "RestoreFailed"}

-----------------------------------------------------------------------------
(* validate_operation_record: the shapes encode() and decode() accept.     *)
(* Every modelled record has a snapshot equal to its precondition.         *)
ValidOperation(op) ==
    /\ op.receipt # "unbound"
    /\ op.verif # "none" => op.receipt # "none"
    /\ op.restored => op.receipt # "none"
    /\ CASE op.state = "Planned" -> FALSE
         [] op.state \in {"Snapshotted", "IntentRecorded", "Applying"} ->
              op.receipt = "none" /\ op.verif = "none" /\ ~op.restored
         [] op.state = "Applied" ->
              op.receipt # "none" /\ op.verif = "none" /\ ~op.restored
         [] op.state = "Verified" ->
              op.receipt # "none" /\ op.verif = "matched" /\ ~op.restored
         [] op.state \in {"Restoring", "RestoreFailed"} ->
              op.receipt # "none" /\ ~op.restored
         [] op.state = "Restored" -> op.receipt # "none" /\ op.restored
         [] op.state = "Failed" -> ~op.restored /\ op.verif # "matched"

(* validate_for_serialization *)
Serializable(rec) == \A i \in Ops : ValidOperation(rec.ops[i])
=============================================================================
