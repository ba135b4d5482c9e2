---------------------------- MODULE WorkloadProofs ----------------------------
(***************************************************************************)
(* The receipts of the workload backend, for every kind of control, every  *)
(* set of values and every number of objects that take the place of one    *)
(* another behind a name.                                                  *)
(***************************************************************************)
EXTENDS WorkloadControl, TLAPS

(* An object that lost its name does not get it back, so a write that went  *)
(* astray is followed by failing identity checks only.                      *)
StrayInv ==
    /\ stray \in BOOLEAN
    /\ stray => obj # 1
    /\ stage \in {"after", "restoreCheck"} /\ point # "check" => ~stray

(* What a read found is there as long as nobody else did something.         *)
ReadInv ==
    Reading /\ ~touched =>
        /\ point \in {"access", "recheck", "done"} => obj = 1
        /\ point \in {"recheck", "done"} => found = val[1]

(* A value is read before it is used, and captured before it is restored.   *)
CapturedInv ==
    /\ stage \notin {"idle", "snap"} \/ progress # "planned" => original \in ControlValues
    /\ Reading /\ point \in {"recheck", "done"} => found \in ControlValues

ControlInv == ControlTypeOK /\ StrayInv /\ ReadInv /\ CapturedInv

(* The invariant holds before the first call. *)
LEMMA ControlInitInv == ControlInit => ControlInv
  <1> SUFFICES ASSUME ControlInit PROVE ControlInv
    OBVIOUS
  <1> USE ControlAssumption
  <1>1. ControlTypeOK
    <2>1. desired \in ControlValues /\ val \in [Objects -> ControlValues]
      BY DEF ControlInit
    <2>2. obj \in {0} \cup Objects BY DEF ControlInit, Objects
    <2> QED BY <2>1, <2>2 DEF ControlInit, ControlTypeOK, ControlPhases, ControlStages
  <1>2. StrayInv /\ ReadInv /\ CapturedInv
    BY DEF ControlInit, StrayInv, ReadInv, CapturedInv, Reading
  <1> QED BY <1>1, <1>2 DEF ControlInv

(* A call that answers leaves nothing to be said of reads. *)
LEMMA AnswerKeeps ==
    ASSUME ControlInv, NEW p \in ControlPhases, Answer(p),
           obj' \in {0} \cup Objects, val' \in [Objects -> ControlValues],
           original' \in ControlValues \cup {NoValue},
           p # "planned" => original' \in ControlValues,
           UNCHANGED <<kind, desired, touched>>,
           stray' \in BOOLEAN, stray' => obj' # 1
    PROVE  ControlInv'
  <1>1. progress' = p /\ stage' = "idle" /\ point' = "check" /\ found' = NoValue
    BY DEF Answer
  <1>2. ControlTypeOK' BY <1>1 DEF ControlInv, ControlTypeOK
  <1>3. StrayInv' BY <1>1 DEF StrayInv
  <1>4. ReadInv' /\ CapturedInv' BY <1>1 DEF ReadInv, CapturedInv, Reading
  <1> QED BY <1>2, <1>3, <1>4 DEF ControlInv

(* A call that enters its next stage begins there with a check. *)
LEMMA StageKeeps ==
    ASSUME ControlInv, NEW s \in ControlStages, ToStage(s),
           s # "snap" => original \in ControlValues,
           UNCHANGED <<kind, obj, val, desired, original, progress, stray, touched>>
    PROVE  ControlInv'
  <1>1. stage' = s /\ point' = "check" /\ found' = NoValue
    BY DEF ToStage
  <1>2. ControlTypeOK' BY <1>1 DEF ControlInv, ControlTypeOK
  <1>3. StrayInv' BY <1>1 DEF ControlInv, StrayInv
  <1>4. ReadInv' /\ CapturedInv'
    BY <1>1 DEF ControlInv, ReadInv, CapturedInv, Reading, ControlStages, ControlWrites
  <1> QED BY <1>2, <1>3, <1>4 DEF ControlInv

(* An error is answered with a failure of apply; restore can be repeated. *)
LEMMA ErrorKeeps ==
    ASSUME ControlInv, stage # "idle", ControlError,
           val' \in [Objects -> ControlValues],
           UNCHANGED <<kind, obj, desired, original, touched>>,
           stray' \in BOOLEAN, stray' => obj' # 1
    PROVE  ControlInv'
  <1>1. /\ obj' \in {0} \cup Objects
        /\ original' \in ControlValues \cup {NoValue}
    BY DEF ControlInv, ControlTypeOK
  <1>2. CASE stage \in {"apply", "valid", "write", "after"}
    <2>1. Answer("failed") BY <1>2 DEF ControlError
    <2>2. original' \in ControlValues BY <1>2 DEF ControlInv, CapturedInv
    <2> QED BY <1>1, <2>1, <2>2, AnswerKeeps DEF ControlPhases
  <1>3. CASE stage \notin {"apply", "valid", "write", "after"}
    <2>1. Answer(progress) BY <1>3 DEF ControlError
    <2>2. progress # "planned" => original' \in ControlValues
      BY DEF ControlInv, CapturedInv
    <2>3. progress \in ControlPhases BY DEF ControlInv, ControlTypeOK
    <2> QED BY <1>1, <2>1, <2>2, <2>3, AnswerKeeps
  <1> QED BY <1>2, <1>3

(* The three steps of a read. *)
LEMMA ReadsKeep ==
    ASSUME ControlInv, UNCHANGED kind, ReadCheck \/ ReadAccess \/ ReadRecheck
    PROVE  ControlInv'
  <1> USE DEF objVars
  <1>1. CASE ReadCheck
    <2>1. ControlTypeOK' BY <1>1 DEF ReadCheck, ControlInv, ControlTypeOK
    <2>2. StrayInv' BY <1>1 DEF ReadCheck, Identified, ControlInv, StrayInv
    <2>3. ReadInv' /\ CapturedInv'
      BY <1>1 DEF ReadCheck, Identified, ControlInv, ReadInv, CapturedInv, Reading
    <2> QED BY <2>1, <2>2, <2>3 DEF ControlInv
  <1>2. CASE ReadAccess
    <2>1. found' \in ControlValues BY <1>2 DEF ReadAccess, ControlInv, ControlTypeOK
    <2>2. ControlTypeOK' BY <1>2, <2>1 DEF ReadAccess, ControlInv, ControlTypeOK
    <2>3. StrayInv' BY <1>2 DEF ReadAccess, ControlInv, StrayInv
    <2>4. ReadInv' BY <1>2 DEF ReadAccess, ControlInv, ReadInv, Reading
    <2>5. CapturedInv' BY <1>2, <2>1 DEF ReadAccess, ControlInv, CapturedInv, Reading
    <2> QED BY <2>2, <2>3, <2>4, <2>5 DEF ControlInv
  <1>3. CASE ReadRecheck
    <2>1. ControlTypeOK' BY <1>3 DEF ReadRecheck, ControlInv, ControlTypeOK
    <2>2. StrayInv' BY <1>3 DEF ReadRecheck, ControlInv, StrayInv
    <2>3. ReadInv' /\ CapturedInv'
      BY <1>3 DEF ReadRecheck, ControlInv, ReadInv, CapturedInv, Reading
    <2> QED BY <2>1, <2>2, <2>3 DEF ControlInv
  <1> QED BY <1>1, <1>2, <1>3

(* The steps of write_mutation. *)
LEMMA WritesKeep ==
    ASSUME ControlInv, UNCHANGED kind,
           WriteCheck \/ WriteAccess \/ WriteRecheck \/ ControlWriteDone
    PROVE  ControlInv'
  <1> USE DEF objVars
  <1>1. CASE WriteCheck \/ WriteRecheck
    <2>1. /\ stage \in ControlWrites /\ point' \in {"access", "done"}
          /\ UNCHANGED <<obj, val, desired, original, progress, stage, found, stray, touched>>
      BY <1>1 DEF WriteCheck, WriteRecheck
    <2>2. ControlTypeOK' BY <2>1 DEF ControlInv, ControlTypeOK
    <2>3. StrayInv' BY <2>1 DEF ControlInv, StrayInv, ControlWrites
    <2>4. ReadInv' /\ CapturedInv' BY <2>1 DEF ControlInv, ReadInv, CapturedInv, Reading
    <2> QED BY <2>2, <2>3, <2>4 DEF ControlInv
  <1>2. CASE WriteAccess
    <2>1. stage \in ControlWrites /\ obj # 0 /\ UNCHANGED <<obj, desired, original, touched>>
      BY <1>2 DEF WriteAccess
    <2>2. Written \in ControlValues
      BY <2>1 DEF Written, ControlInv, ControlTypeOK, CapturedInv, ControlWrites
    <2>3. val' \in [Objects -> ControlValues]
      BY <1>2, <2>2 DEF WriteAccess, ControlInv, ControlTypeOK
    <2>4. stray' \in BOOLEAN /\ (stray' => obj' # 1)
      BY <1>2, <2>1, Zenon DEF WriteAccess, ControlInv, StrayInv
    <2>5. CASE ControlError
      BY <2>1, <2>3, <2>4, <2>5, ErrorKeeps DEF ControlWrites
    <2>6. CASE point' \in {"recheck", "done"} /\ UNCHANGED <<progress, stage, found>>
      <3>1. ControlTypeOK' BY <2>1, <2>3, <2>4, <2>6 DEF ControlInv, ControlTypeOK
      <3>2. StrayInv' BY <2>1, <2>4, <2>6 DEF StrayInv, ControlWrites
      <3>3. ReadInv' /\ CapturedInv'
        BY <2>1, <2>6 DEF ControlInv, ReadInv, CapturedInv, Reading
      <3> QED BY <3>1, <3>2, <3>3 DEF ControlInv
    <2> QED BY <1>2, <2>5, <2>6 DEF WriteAccess
  <1>3. CASE ControlWriteDone
    <2>1. original \in ControlValues
      BY <1>3 DEF ControlWriteDone, ControlInv, CapturedInv, ControlWrites
    <2>2. \E s \in {"after", "restoreCheck"} : ToStage(s)
      BY <1>3 DEF ControlWriteDone
    <2> QED BY <1>3, <2>1, <2>2, StageKeeps DEF ControlWriteDone, ControlStages
  <1> QED BY <1>1, <1>2, <1>3

(* The checks that end a read. *)
LEMMA ChecksKeep ==
    ASSUME ControlInv, UNCHANGED kind,
           \/ OriginalTaken \/ ControlApplyChecked \/ ControlReadBack
           \/ ControlRestoreChecked \/ ControlRestoreProven
    PROVE  ControlInv'
  <1> USE DEF objVars
  <1>0. /\ obj \in {0} \cup Objects /\ val \in [Objects -> ControlValues]
        /\ original \in ControlValues \cup {NoValue} /\ progress \in ControlPhases
        /\ stray \in BOOLEAN /\ (stray => obj # 1)
        /\ progress # "planned" => original \in ControlValues
    BY DEF ControlInv, ControlTypeOK, StrayInv, CapturedInv
  <1>1. CASE OriginalTaken
    <2>1. found \in ControlValues
      BY <1>1 DEF OriginalTaken, ControlInv, CapturedInv, Reading, ControlWrites
    <2>2. CASE Answer(progress) /\ UNCHANGED original
      BY <1>0, <1>1, <2>2, AnswerKeeps DEF OriginalTaken
    <2>3. CASE Answer("snapshotted") /\ original' = found
      BY <1>0, <1>1, <2>1, <2>3, AnswerKeeps DEF OriginalTaken, ControlPhases
    <2> QED BY <1>1, <2>2, <2>3 DEF OriginalTaken
  <1>2. CASE ControlApplyChecked \/ ControlRestoreChecked
    <2>1. /\ stage \in {"apply", "restore"}
          /\ UNCHANGED <<obj, val, desired, original, stray, touched>>
      BY <1>2 DEF ControlApplyChecked, ControlRestoreChecked
    <2>2. original \in ControlValues BY <2>1 DEF ControlInv, CapturedInv
    <2>3. CASE ControlError
      BY <1>0, <2>1, <2>3, ErrorKeeps
    <2>4. CASE /\ \E s \in {"valid", "restoreWrite"} : ToStage(s)
               /\ UNCHANGED progress
      BY <2>1, <2>2, <2>4, StageKeeps DEF ControlStages, ControlWrites
    <2> QED BY <1>2, <2>3, <2>4 DEF ControlApplyChecked, ControlRestoreChecked
  <1>3. CASE ControlReadBack \/ ControlRestoreProven
    <2>1. /\ stage \in {"after", "restoreCheck"}
          /\ UNCHANGED <<obj, val, desired, original, stray, touched>>
      BY <1>3 DEF ControlReadBack, ControlRestoreProven
    <2>2. original \in ControlValues BY <2>1 DEF ControlInv, CapturedInv
    <2>3. CASE ControlError
      BY <1>0, <2>1, <2>3, ErrorKeeps
    <2>4. CASE \E p \in {"applied", "restored"} : Answer(p)
      BY <1>0, <2>1, <2>2, <2>4, AnswerKeeps DEF ControlPhases
    <2> QED BY <1>3, <2>3, <2>4 DEF ControlReadBack, ControlRestoreProven
  <1> QED BY <1>1, <1>2, <1>3

(* Others never bring the object of the plan back. *)
LEMMA OthersKeep ==
    ASSUME ControlInv, UNCHANGED kind, OthersSet \/ OthersReplace
    PROVE  ControlInv'
  <1>1. /\ touched' = TRUE
        /\ UNCHANGED <<desired, original, progress, stage, point, found, stray>>
        /\ obj' = 1 => obj = 1
        /\ obj' \in {0} \cup Objects
        /\ val' \in [Objects -> ControlValues]
    BY DEF OthersSet, OthersReplace, ControlInv, ControlTypeOK
  <1>2. ControlTypeOK' BY <1>1 DEF ControlInv, ControlTypeOK
  <1>3. StrayInv' BY <1>1 DEF ControlInv, StrayInv
  <1>4. ReadInv' BY <1>1 DEF ReadInv
  <1>5. CapturedInv' BY <1>1 DEF ControlInv, CapturedInv, Reading
  <1> QED BY <1>2, <1>3, <1>4, <1>5 DEF ControlInv

(* Every step of the backend and of the host keeps the invariant. *)
LEMMA ControlNextKeeps == ControlInv /\ [ControlNext]_controlVars => ControlInv'
  <1> SUFFICES ASSUME ControlInv, [ControlNext]_controlVars PROVE ControlInv'
    OBVIOUS
  <1>0. CASE UNCHANGED controlVars
    BY <1>0 DEF controlVars, ControlInv, ControlTypeOK, StrayInv, ReadInv, CapturedInv, Reading
  <1>1. CASE UNCHANGED kind /\ ControlCall
    <2>1. UNCHANGED <<kind, obj, val, desired, original, progress, stray, touched>>
      BY <1>1 DEF ControlCall, objVars
    <2>2. CASE ToStage("snap") BY <2>1, <2>2, StageKeeps DEF ControlStages
    <2>3. CASE progress # "planned" /\ \E s \in {"apply", "restore"} : ToStage(s)
      BY <2>1, <2>3, StageKeeps DEF ControlStages, ControlInv, CapturedInv
    <2> QED BY <1>1, <2>2, <2>3 DEF ControlCall
  <1>2. CASE UNCHANGED kind /\ ControlFails
    <2>1. val \in [Objects -> ControlValues] /\ stray \in BOOLEAN /\ (stray => obj # 1)
      BY DEF ControlInv, ControlTypeOK, StrayInv
    <2> QED BY <1>2, <2>1, ErrorKeeps DEF ControlFails, objVars
  <1>3. CASE UNCHANGED kind /\ ControlValidated
    <2>1. original \in ControlValues BY <1>3 DEF ControlValidated, ControlInv, CapturedInv
    <2> QED
      BY <1>3, <2>1, StageKeeps DEF ControlValidated, ControlStages, ControlWrites, objVars
  <1> QED
    BY <1>0, <1>1, <1>2, <1>3, ReadsKeep, WritesKeep, ChecksKeep, OthersKeep
    DEF ControlNext

(* The values that the workload backend captures, reads and writes are      *)
(* values of the control, whatever fails in between: restore never writes   *)
(* what snapshot did not capture.                                           *)
THEOREM ControlTypeCorrect == ControlSpec => []ControlTypeOK
  <1>1. ControlInv => ControlTypeOK BY DEF ControlInv
  <1> QED BY <1>1, ControlInitInv, ControlNextKeeps, PTL DEF ControlSpec

(* Only the two final comparisons give a receipt. *)
LEMMA ReceiptSteps ==
    ASSUME ControlInv, [ControlNext]_controlVars, progress' # progress,
           progress' \in {"applied", "restored"}
    PROVE  /\ \/ ControlReadBack /\ progress' = "applied" /\ found = desired
              \/ ControlRestoreProven /\ progress' = "restored" /\ found = original
           /\ stage \in {"after", "restoreCheck"} /\ point = "done"
           /\ UNCHANGED <<obj, val, desired, original, stray, touched>>
  <1>1. ~(UNCHANGED progress) OBVIOUS
  <1>2. ControlNext BY DEF controlVars
  <1>3. ~ControlError
    BY DEF ControlError, Answer
  <1>4. ControlReadBack \/ ControlRestoreProven
    <2>1. /\ ~ControlCall /\ ~ControlFails /\ ~ReadCheck /\ ~ReadAccess /\ ~ReadRecheck
          /\ ~ControlApplyChecked /\ ~ControlValidated
      BY <1>1, <1>3 DEF ControlCall, ControlFails, ReadCheck, ReadAccess, ReadRecheck,
         ControlApplyChecked, ControlValidated
    <2>2. ~OriginalTaken BY <1>1 DEF OriginalTaken, Answer
    <2>3. /\ ~WriteCheck /\ ~WriteAccess /\ ~WriteRecheck /\ ~ControlWriteDone
          /\ ~ControlRestoreChecked /\ ~OthersSet /\ ~OthersReplace
      BY <1>1, <1>3 DEF WriteCheck, WriteAccess, WriteRecheck, ControlWriteDone,
         ControlRestoreChecked, OthersSet, OthersReplace
    <2> QED BY <1>2, <2>1, <2>2, <2>3 DEF ControlNext
  <1>5. CASE ControlReadBack
    <2>1. found = desired /\ Answer("applied") BY <1>3, <1>5 DEF ControlReadBack
    <2> QED BY <1>5, <2>1 DEF ControlReadBack, Answer, objVars
  <1>6. CASE ControlRestoreProven
    <2>1. found = original /\ Answer("restored") BY <1>3, <1>6 DEF ControlRestoreProven
    <2> QED BY <1>6, <2>1 DEF ControlRestoreProven, Answer, objVars
  <1> QED BY <1>4, <1>5, <1>6

(* A receipt of the workload backend describes the host: for every kind of  *)
(* control and however often the object is replaced, unless others did      *)
(* something since the final readback began, the planned object holds the   *)
(* desired value after apply and the captured one after restore.            *)
THEOREM ReceiptsDescribeTheHost == ControlSpec => ReceiptsAreTruthful
  <1>1. ControlInv /\ [ControlNext]_controlVars => [TruthfulReceipt]_controlVars
    <2> SUFFICES ASSUME ControlInv, [ControlNext]_controlVars, progress' # progress,
                        ~touched', progress' \in {"applied", "restored"}
                 PROVE  /\ obj' = 1
                        /\ progress' = "applied" => val'[1] = desired
                        /\ progress' = "restored" => val'[1] = original
      BY DEF TruthfulReceipt
    <2>1. /\ \/ progress' = "applied" /\ found = desired
             \/ progress' = "restored" /\ found = original
          /\ stage \in {"after", "restoreCheck"} /\ point = "done"
          /\ UNCHANGED <<obj, val, touched>>
      BY ReceiptSteps
    <2>2. obj = 1 /\ found = val[1]
      BY <2>1 DEF ControlInv, ReadInv, Reading, ControlWrites
    <2> QED BY <2>1, <2>2
  <1> QED
    BY <1>1, ControlInitInv, ControlNextKeeps, PTL DEF ControlSpec, ReceiptsAreTruthful

(* A write that landed on another cgroup or on another process is never     *)
(* answered with a receipt: the identity is checked again after the write,  *)
(* and an object that lost its name never gets it back.                     *)
THEOREM ReceiptsAreForTheTarget == ControlSpec => ReceiptsHitTarget
  <1>1. ControlInv /\ [ControlNext]_controlVars => [ReceiptHitsTarget]_controlVars
    <2> SUFFICES ASSUME ControlInv, [ControlNext]_controlVars, progress' # progress,
                        progress' \in {"applied", "restored"}
                 PROVE  ~stray'
      BY DEF ReceiptHitsTarget
    <2>1. stage \in {"after", "restoreCheck"} /\ point = "done" /\ UNCHANGED stray
      BY ReceiptSteps
    <2> QED BY <2>1 DEF ControlInv, StrayInv
  <1> QED
    BY <1>1, ControlInitInv, ControlNextKeeps, PTL DEF ControlSpec, ReceiptsHitTarget
=============================================================================
