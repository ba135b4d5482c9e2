---------------------------- MODULE JournalGrowth ----------------------------
(***************************************************************************)
(* How the journal of one session grows while restore passes fail, crash   *)
(* and are retried: prepare_restore_state and restore_record of            *)
(* sysboost-platform/src/transaction.rs with the counts that every encode  *)
(* enforces (validate_for_serialization, SessionRecord::encode).           *)
(*                                                                         *)
(* A journal is [state, ops, t, f, b]: the session state, what is known of *)
(* every operation, the number of transitions and of failures, and its     *)
(* bytes.  disk is what the store holds, mem what the running pass holds.  *)
(***************************************************************************)
EXTENDS JournalBounds

VARIABLES
    disk,    \* the stored record
    mem,     \* the record of the running pass
    at,      \* 0 between passes, otherwise where the pass is
    index,   \* the operation the pass has come to
    failed,  \* number of errors the pass has collected
    doubt,   \* uncertain
    fresh    \* the apply of the session may still be running

journalVars == <<disk, mem, at, index, failed, doubt, fresh>>

Resting == {"Active", "Degraded", "RecoveryPending"}
Unfinished == Resting \cup {"IntentDurable", "Applying", "RollingBack", "Restoring"}

(* What is known of an operation: it needs no restore, it may have applied   *)
(* without a receipt, it is to be restored, it is Restoring, its restore     *)
(* failed, it is done.                                                       *)
Known == {"untouched", "ambiguous", "held", "restoring", "failed", "restored"}

(* validate_for_serialization and the size test of encode *)
Fits(j) == j.t <= MaxTransitions /\ j.f <= MaxFailures /\ j.b <= MaxBytes

(* SessionRecord::transition *)
Transition(j, to, n) == [j EXCEPT !.state = to, !.t = @ + n, !.b = @ + n * TransitionBytes]

(* fail_restore *)
FailRestore(j, i, size) == [j EXCEPT !.ops[i] = "failed", !.f = @ + 1, !.b = @ + size]

(* Slip: a full journal drops what it cannot hold. *)
RecordFailuresCapped(j, n, size) ==
    [j EXCEPT !.f = IF @ + n > MaxFailures THEN MaxFailures ELSE @ + n]

(* record_failure, n times *)
RecordFailures(j, n, size) == [j EXCEPT !.f = @ + n, !.b = @ + n * size]

(* A session whose apply is about to start, is running or has completed: the *)
(* operations before the k-th are held, the k-th may be under way.           *)
GrowthInit ==
    /\ \E state \in {"IntentDurable", "Applying", "Active"}, k \in 1..NumOps + 1, now \in {"untouched", "ambiguous"} :
         /\ state = "IntentDurable" => k = 1 /\ now = "untouched"
         /\ state = "Active" => k = NumOps + 1
         /\ disk = [state |-> state, f |-> 0, b |-> 0,
                    ops |-> [i \in 1..NumOps |-> IF i < k THEN "held" ELSE IF i = k THEN now ELSE "untouched"],
                    t |-> CASE state = "IntentDurable" -> 4 [] state = "Applying" -> 5 [] OTHER -> 6]
    /\ mem = disk
    /\ at = 0
    /\ index = 0
    /\ failed = 0
    /\ doubt = FALSE
    /\ fresh = TRUE

-----------------------------------------------------------------------------
(* prepare_restore_state on what a pass loads *)
Prepared(j) ==
    CASE j.state = "Active" -> Transition(j, "Restoring", 1)
      [] j.state = "Degraded" -> Transition(j, "Restoring", 2)
      [] j.state = "RecoveryPending" -> Transition(j, "Restoring", 1)
      [] j.state \in {"IntentDurable", "Applying"} -> Transition(j, "RollingBack", 1)
      [] OTHER -> j

(* Persisting a record: the store keeps it, or refuses it because it does    *)
(* not fit or because of a fault; ok tells the caller.                       *)
Persist(j, ok) ==
    /\ ok => Fits(j)
    /\ disk' = IF ok THEN j ELSE disk

StartPass ==
    /\ at = 0
    /\ disk.state # "Restored"
    /\ \E ok \in BOOLEAN :
         /\ Persist(Prepared(disk), ok)
         /\ at' = IF ok THEN 1 ELSE 0
    /\ mem' = Prepared(disk)
    /\ index' = NumOps
    /\ failed' = 0
    /\ doubt' = FALSE
    /\ fresh' = FALSE

(* rollback_after_failure: apply failed, recorded why, and goes on to        *)
(* restore whether or not the store takes the new state.  What the record    *)
(* went through in memory is Applying, or Applying and then Active.          *)
RollbackPass ==
    /\ at = 0
    /\ fresh
    /\ \E ok \in BOOLEAN, size \in FailureBytes, n \in {1, 2} :
         LET to == IF disk.state = "Applying" /\ n = 2 THEN "Restoring" ELSE "RollingBack"
             turned == RecordFailures(Transition(disk, to, n), 1, size)
         IN  /\ \/ disk.state = "IntentDurable" /\ n = 2
                \/ disk.state = "Applying"
             /\ Persist(turned, ok)
             /\ mem' = IF ok THEN turned ELSE RecordFailures(turned, 1, size)
    /\ at' = 1
    /\ index' = NumOps
    /\ failed' = 0
    /\ doubt' = FALSE
    /\ fresh' = FALSE

(* An operation that needs nothing, that may have applied unseen, or that    *)
(* begin_restore_operation refuses because it is Restoring already.          *)
SkipOperation ==
    /\ at = 1
    /\ index > 0
    /\ \/ /\ mem.ops[index] \in {"untouched", "restored"}
          /\ UNCHANGED <<mem, failed, doubt>>
       \/ /\ mem.ops[index] = "ambiguous"
          /\ \E size \in FailureBytes : mem' = RecordFailures(mem, 1, size)
          /\ failed' = failed + 1
          /\ doubt' = TRUE
       \/ /\ mem.ops[index] = "restoring"
          /\ failed' = failed + 1
          /\ doubt' = TRUE
          /\ UNCHANGED mem
    /\ index' = index - 1
    /\ UNCHANGED <<disk, at, fresh>>

(* begin_restore_operation and its persist *)
BeginOperation ==
    /\ at = 1
    /\ index > 0
    /\ mem.ops[index] \in {"held", "failed"}
    /\ LET begun == [mem EXCEPT !.ops[index] = "restoring"]
       IN  \E ok \in BOOLEAN, size \in FailureBytes :
             /\ Persist(begun, ok)
             /\ mem' = IF ok THEN begun ELSE RecordFailures(begun, 1, size)
             /\ failed' = IF ok THEN failed ELSE failed + 1
             /\ doubt' = (doubt \/ ~ok)
    /\ at' = 2
    /\ UNCHANGED <<index, fresh>>

(* The original was found or written back, and the receipt is persisted. *)
Restores ==
    /\ at = 2
    /\ LET done == [mem EXCEPT !.ops[index] = "restored"]
       IN  \E ok \in BOOLEAN, size \in FailureBytes :
             /\ Persist(done, ok)
             /\ mem' = IF ok THEN done ELSE RecordFailures(done, 1, size)
             /\ failed' = IF ok THEN failed ELSE failed + 1
             /\ doubt' = (doubt \/ ~ok)
    /\ at' = 1
    /\ index' = index - 1
    /\ UNCHANGED fresh

(* The check, the comparison or the restore failed; whether the journal of   *)
(* it was kept is not looked at.                                             *)
OperationFails ==
    /\ at = 2
    /\ \E ok \in BOOLEAN, size \in FailureBytes :
         /\ mem' = FailRestore(mem, index, size)
         /\ Persist(mem', ok)
    /\ failed' = failed + 1
    /\ at' = 1
    /\ index' = index - 1
    /\ UNCHANGED <<doubt, fresh>>

(* Everything is proven: the session becomes Restored. *)
FinishClean ==
    /\ at = 1
    /\ index = 0
    /\ failed = 0
    /\ mem' = Transition(mem, "Restored", 1)
    /\ \E ok \in BOOLEAN : Persist(mem', ok)
    /\ at' = 0
    /\ UNCHANGED <<index, failed, doubt, fresh>>

(* The collected errors are recorded once more, and the session degrades. *)
FinishFailed ==
    /\ at = 1
    /\ index = 0
    /\ failed > 0
    /\ \E size \in FailureBytes :
         mem' = LET degraded == Transition(RecordFailures(mem, failed, size), "Degraded", 1)
                IN  IF doubt THEN Transition(degraded, "RecoveryPending", 1) ELSE degraded
    /\ \E ok \in BOOLEAN : Persist(mem', ok)
    /\ at' = 0
    /\ UNCHANGED <<index, failed, doubt, fresh>>

(* The helper crashes: what the pass held in memory is gone. *)
PassCrash ==
    /\ at # 0
    /\ at' = 0
    /\ mem' = disk
    /\ UNCHANGED <<disk, index, failed, doubt, fresh>>

GrowthNext ==
    \/ StartPass \/ RollbackPass \/ SkipOperation \/ BeginOperation \/ Restores \/ OperationFails
    \/ FinishClean \/ FinishFailed \/ PassCrash

GrowthSpec == GrowthInit /\ [][GrowthNext]_journalVars

-----------------------------------------------------------------------------
(* Transitions that a pass without a failure adds, from each state. *)
Need(state) ==
    CASE state = "Degraded" -> 3
      [] state \in {"RollingBack", "Restoring"} -> 1
      [] state = "Restored" -> 0
      [] OTHER -> 2

(* However many restore passes failed, crashed or could not be journaled,    *)
(* the numbers of transitions and failures in the stored record leave room   *)
(* for a pass that succeeds: a session that can be restored is never kept    *)
(* from it by MAX_TRANSITIONS or MAX_FAILURES, since a journal that is full  *)
(* of failures stops growing before its transitions run out.                 *)
CleanPassFits ==
    /\ disk.t + Need(disk.state) <= MaxTransitions
    /\ disk.f <= MaxFailures
=============================================================================
