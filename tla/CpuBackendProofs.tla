-------------------------- MODULE CpuBackendProofs --------------------------
(***************************************************************************)
(* Two results about the CPU backend: the order in which write_frequency   *)
(* writes the two files of a policy is safe for every set of frequencies,  *)
(* every request and every sequence of failing reads and writes; and no    *)
(* write of apply stays behind unreported, on any kind of node and with    *)
(* other programs writing and replacing the files at any moment.           *)
(***************************************************************************)
EXTENDS CpuBackend, TLAPS

(* The frequency values a plan can carry: a range, or one of its bounds. *)
FrequencyValues ==
    Ranges \cup {<<f, None>> : f \in Freqs} \cup {<<None, f>> : f \in Freqs}

(* The range in the files is one. *)
FilesInv ==
    /\ reg \in [{"min", "max"} -> Freqs]
    /\ reg["min"] <= reg["max"]

(* The request and the snapshot are ranges. *)
ValuesInv ==
    /\ want \in FrequencyValues
    /\ phase \in Phases
    /\ at \in Stages \cup {"idle"}
    /\ at \in Stages \ {"snap"} \/ phase \notin {"planned"} => snap.v \in Ranges

(* With nobody else writing, what a read has read is still there. *)
ReadInv ==
    /\ step \in {"a", "b", "id", "w"}
    /\ at = "idle" => step = "a"
    /\ step \in {"b", "id"} => got.a = reg["min"]
    /\ step = "id" => got.b = reg["max"]
    /\ step = "w" => at \in WriteStages

(* The files still to be written: each of them in turn leaves a range.      *)
PendInv ==
    step = "w" =>
        /\ pend \subseteq {"min", "max"}
        /\ \A r \in pend : Content(r, Target) \in Freqs
        /\ pend = {"min"} => Target[1] <= reg["max"]
        /\ pend = {"max"} => reg["min"] <= Target[2]
        /\ pend = {"min", "max"} =>
             /\ Target[1] <= Target[2]
             /\ minFirst => Target[1] <= reg["max"]
             /\ ~minFirst => reg["min"] <= Target[2]

IInv == FilesInv /\ ValuesInv /\ ReadInv /\ PendInv

(* Lowering the maximum past the current minimum writes the minimum first,  *)
(* everything else the maximum first: either way every prefix of the writes *)
(* of write_frequency leaves a valid range.                                 *)
LEMMA WriteOrderSafe ==
    ASSUME NEW lo \in Nat, NEW hi \in Nat, lo <= hi,
           NEW newLo \in Nat, NEW newHi \in Nat, newLo <= newHi
    PROVE  IF newHi < lo THEN newLo <= hi ELSE lo <= newHi
  OBVIOUS

(* A desired frequency value has at least one bound; both bounds form a     *)
(* range.                                                                   *)
LEMMA DesirableShape ==
    ASSUME NEW v \in FrequencyValues
    PROVE  /\ v = <<v[1], v[2]>>
           /\ v[1] \in Freqs \cup {None}
           /\ v[2] \in Freqs \cup {None}
           /\ v[1] # None /\ v[2] # None => v[1] <= v[2]
  BY FreqsAssumption DEF FrequencyValues, Ranges

(* Ranges are desirable values. *)
LEMMA RangeShape ==
    ASSUME NEW v \in Ranges
    PROVE  /\ v[1] \in Freqs /\ v[2] \in Freqs
           /\ v[1] \in Nat /\ v[2] \in Nat
           /\ v[1] # None /\ v[2] # None
           /\ v[1] <= v[2]
  BY FreqsAssumption DEF Ranges

(* The inductive invariant holds in the beginning and is kept by every step *)
(* of the backend.                                                          *)
LEMMA InitInv == ASSUME node = "frequency", Init PROVE IInv
  <1>1. Registers = {"min", "max"} /\ Contents = Freqs
    BY DEF Registers, Contents
  <1>2. FilesInv
    BY <1>1 DEF Init, FilesInv
  <1>3. want \in FrequencyValues
    BY DEF Init, Desirable, FrequencyValues
  <1> QED
    BY <1>2, <1>3 DEF Init, IInv, ValuesInv, ReadInv, PendInv, Phases, Stages, Pinned,
       WriteStages

(* A step that only moves a read along. *)
LEMMA ReadsKeep ==
    ASSUME node = "frequency", node' = node, IInv, ReadFirst \/ ReadSecond
    PROVE  IInv'
  <1>1. CASE ReadFirst
    <2>1. FilesInv' BY <1>1 DEF IInv, FilesInv, ReadFirst, nodeVars
    <2>2. ValuesInv' BY <1>1 DEF IInv, ValuesInv, ReadFirst, nodeVars
    <2>3. ReadInv' BY <1>1 DEF IInv, ReadInv, ReadFirst, nodeVars
    <2>4. PendInv' BY <1>1 DEF IInv, PendInv, ReadFirst, nodeVars
    <2> QED BY <2>1, <2>2, <2>3, <2>4 DEF IInv
  <1>2. CASE ReadSecond
    <2>1. FilesInv' BY <1>2 DEF IInv, FilesInv, ReadSecond, nodeVars
    <2>2. ValuesInv' BY <1>2 DEF IInv, ValuesInv, ReadSecond, nodeVars
    <2>3. ReadInv' BY <1>2 DEF IInv, ReadInv, ReadSecond, nodeVars
    <2>4. PendInv' BY <1>2 DEF IInv, PendInv, ReadSecond, nodeVars
    <2> QED BY <2>1, <2>2, <2>3, <2>4 DEF IInv
  <1> QED BY <1>1, <1>2

(* A call returns: no read and no write is under way. *)
LEMMA ReturnKeeps ==
    ASSUME node' = node, IInv, NEW p \in Phases, p # "planned" => snap'.v \in Ranges,
           Return(p), FilesInv', want' = want
    PROVE  IInv'
  BY DEF IInv, ValuesInv, ReadInv, PendInv, Return, Stages, Phases, Pinned,
     WriteStages

(* A call enters a stage that begins with a read. *)
LEMMA GoToKeeps ==
    ASSUME node = "frequency", node' = node, IInv, NEW s \in Stages, GoTo(s), FilesInv',
           want' = want, phase' = phase, snap' = snap,
           s # "snap" => snap.v \in Ranges
    PROVE  IInv'
  BY DEF IInv, ValuesInv, ReadInv, PendInv, GoTo, Stages, Phases

(* An error ends the call or leads to the undo. *)
LEMMA ErrorKeeps ==
    ASSUME node = "frequency", node' = node, IInv, OnError, at \in Stages, FilesInv',
           want' = want, snap' = snap
    PROVE  IInv'
  <1>1. CASE at \in {"snap", "restore", "restoreWrite", "restoreCheck"}
    <2>1. Return(phase) BY <1>1 DEF OnError
    <2> QED BY <2>1, ReturnKeeps DEF IInv, ValuesInv
  <1>2. CASE at \in {"apply", "valid"}
    <2>1. Return("refused") BY <1>2 DEF OnError
    <2>2. snap.v \in Ranges BY <1>2 DEF IInv, ValuesInv, Stages
    <2> QED BY <2>1, <2>2, ReturnKeeps DEF Phases
  <1>3. CASE at \in {"write", "after"}
    <2>1. GoTo("fix") /\ phase' = phase BY <1>3 DEF OnError
    <2>2. snap.v \in Ranges BY <1>3 DEF IInv, ValuesInv, Stages, Pinned, WriteStages
    <2> QED BY <2>1, <2>2, GoToKeeps DEF Stages
  <1>4. CASE at \in {"fix", "fixWrite", "fixCheck"}
    <2>1. Return("unknown") BY <1>4 DEF OnError
    <2>2. snap.v \in Ranges BY <1>4 DEF IInv, ValuesInv, Stages, Pinned, WriteStages
    <2> QED BY <2>1, <2>2, ReturnKeeps DEF Phases
  <1> QED BY <1>1, <1>2, <1>3, <1>4 DEF Stages, Pinned, WriteStages

(* The plan of write_frequency. *)
LEMMA PlanKeeps ==
    ASSUME node = "frequency", node' = node, IInv, WritePlanned
    PROVE  IInv'
  <1> DEFINE cur == Typed(got)
             full == Effective(Target, cur)
  <1>1. FilesInv' /\ want' = want /\ snap' = snap
    BY DEF IInv, FilesInv, WritePlanned, nodeVars
  <1>2. CASE full[1] > full[2]
    <2>1. OnError BY <1>2 DEF WritePlanned
    <2>2. at \in Stages BY DEF WritePlanned, Stages
    <2> QED BY <1>1, <2>1, <2>2, ErrorKeeps
  <1>3. CASE ~(full[1] > full[2])
    <2>1. /\ pend' = ToWrite(Target, cur)
          /\ minFirst' = LowersPastMin(Target, cur)
          /\ step' = "w" /\ phase' = phase /\ at' = at /\ got' = got
      BY <1>3 DEF WritePlanned
    <2>2. at \in WriteStages /\ at # "idle" /\ step = "id"
      BY DEF WritePlanned, WriteStages
    <2>3. cur = <<reg["min"], reg["max"]>>
      BY <2>2 DEF IInv, ReadInv, Typed
    <2>4. /\ reg["min"] \in Nat /\ reg["max"] \in Nat
          /\ reg["min"] \in Freqs /\ reg["max"] \in Freqs
          /\ reg["min"] <= reg["max"]
      BY FreqsAssumption DEF IInv, FilesInv
    <2>5. /\ Target[1] \in Freqs \cup {None}
          /\ Target[2] \in Freqs \cup {None}
          /\ Target[1] # None /\ Target[2] # None => Target[1] <= Target[2]
      <3>1. CASE at = "write"
        BY <3>1, DesirableShape DEF Target, IInv, ValuesInv
      <3>2. CASE at # "write"
        <4>1. snap.v \in Ranges
          BY <2>2 DEF IInv, ValuesInv, WriteStages, Stages
        <4> QED BY <3>2, <4>1, RangeShape DEF Target
      <3> QED BY <3>1, <3>2
    <2>6. Target' = Target BY <1>1, <2>1 DEF Target
    <2>7. pend' = {r \in {"min", "max"} : Content(r, Target) \notin {None, Content(r, cur)}}
      BY <2>1 DEF ToWrite
    <2>8. /\ "min" \in pend' => Target[1] \in Freqs /\ Target[1] \in Nat /\ Target[1] # None
          /\ "max" \in pend' => Target[2] \in Freqs /\ Target[2] \in Nat /\ Target[2] # None
          /\ pend' \subseteq {"min", "max"}
          /\ \A r \in pend' : Content(r, Target) \in Freqs
      BY <2>5, <2>7, FreqsAssumption DEF Content
    <2>9. full = <<Or(Target[1], reg["min"]), Or(Target[2], reg["max"])>>
      BY <2>3 DEF Effective
    <2>10. full[1] \in Nat /\ full[2] \in Nat /\ full[1] <= full[2]
      <3>1. full[1] = Or(Target[1], reg["min"]) /\ full[2] = Or(Target[2], reg["max"])
        BY <2>9
      <3>2. full[1] \in Nat /\ full[2] \in Nat
        BY <2>4, <2>5, <3>1, FreqsAssumption DEF Or
      <3> QED BY <1>3, <3>2
    <2>11. (minFirst' => full[2] < reg["min"]) /\ (~minFirst' => ~(full[2] < reg["min"]))
      <3>1. full[2] = Or(Target[2], reg["max"]) BY <2>9
      <3>2. cur[1] = reg["min"] /\ cur[2] = reg["max"] BY <2>3
      <3>3. minFirst' = (full[2] < reg["min"])
        BY <2>1, <3>1, <3>2 DEF LowersPastMin
      <3> HIDE DEF full
      <3> QED BY <3>3
    <2>12. "min" \in pend' => full[1] = Target[1]
      BY <2>8, <2>9 DEF Or
    <2>13. "max" \in pend' => full[2] = Target[2]
      BY <2>8, <2>9 DEF Or
    <2>14. "max" \notin pend' => full[2] = reg["max"]
      BY <2>3, <2>7, <2>9 DEF Or, Content
    <2>15. "min" \notin pend' => full[1] = reg["min"]
      BY <2>3, <2>7, <2>9 DEF Or, Content
    <2>16. reg' = reg BY DEF WritePlanned, nodeVars
    <2>17. PendInv'
      <3>1. pend' = {"min"} => Target[1] <= reg["max"]
        BY <2>10, <2>12, <2>14
      <3>2. pend' = {"max"} => reg["min"] <= Target[2]
        BY <2>10, <2>13, <2>15
      <3>3. pend' = {"min", "max"} =>
              /\ Target[1] <= Target[2]
              /\ minFirst' => Target[1] <= reg["max"]
              /\ ~minFirst' => reg["min"] <= Target[2]
        BY <2>4, <2>10, <2>11, <2>12, <2>13
      <3> QED BY <2>6, <2>8, <2>16, <3>1, <3>2, <3>3 DEF PendInv
    <2>18. ValuesInv' BY <1>1, <2>1 DEF IInv, ValuesInv
    <2>19. ReadInv' BY <2>1, <2>2 DEF ReadInv
    <2> QED BY <1>1, <2>17, <2>18, <2>19 DEF IInv
  <1> QED BY <1>2, <1>3

(* One write of a file, successful or not, leaves a range in the files. *)
LEMMA StoredKeeps ==
    ASSUME node = "frequency", node' = node, IInv, step = "w", pend # {}, Stored
    PROVE  /\ FilesInv'
           /\ NextFile \in pend
           /\ pend \ {NextFile} = {"min"} => Target[1] <= reg'["max"]
           /\ pend \ {NextFile} = {"max"} => reg'["min"] <= Target[2]
  <1>0. pend = {"min"} \/ pend = {"max"} \/ pend = {"min", "max"}
    BY DEF IInv, PendInv
  <1>1. /\ pend \subseteq {"min", "max"}
        /\ NextFile \in pend
        /\ NextFile = "min" => pend = {"min"} \/ (pend = {"min", "max"} /\ minFirst)
        /\ NextFile = "max" => pend = {"max"} \/ (pend = {"min", "max"} /\ ~minFirst)
    BY <1>0 DEF NextFile
  <1>2. CASE NextFile = "min"
    <2>1. Target[1] \in Freqs /\ Target[1] <= reg["max"]
      BY <1>1, <1>2 DEF IInv, PendInv, Content
    <2>2. reg' = [reg EXCEPT !["min"] = Target[1]]
      BY <1>2 DEF Stored, Content
    <2>3. pend \ {NextFile} = {"max"} => Target[1] <= Target[2]
      BY <1>1, <1>2 DEF IInv, PendInv
    <2> QED BY <1>1, <1>2, <2>1, <2>2, <2>3 DEF IInv, FilesInv
  <1>3. CASE NextFile = "max"
    <2>1. Target[2] \in Freqs /\ reg["min"] <= Target[2]
      BY <1>1, <1>3 DEF IInv, PendInv, Content
    <2>2. reg' = [reg EXCEPT !["max"] = Target[2]]
      BY <1>3 DEF Stored, Content
    <2>3. pend \ {NextFile} = {"min"} => Target[1] <= Target[2]
      BY <1>1, <1>3 DEF IInv, PendInv
    <2> QED BY <1>1, <1>3, <2>1, <2>2, <2>3 DEF IInv, FilesInv
  <1> QED BY <1>1, <1>2, <1>3

(* Writes of single files and their failures. *)
LEMMA WritesKeep ==
    ASSUME node = "frequency", node' = node, IInv, WriteFile \/ WriteFails
    PROVE  IInv'
  <1>1. CASE WriteFile
    <2>1. /\ FilesInv' /\ NextFile \in pend
          /\ pend \ {NextFile} = {"min"} => Target[1] <= reg'["max"]
          /\ pend \ {NextFile} = {"max"} => reg'["min"] <= Target[2]
      BY <1>1, StoredKeeps DEF WriteFile
    <2>2. Target' = Target BY <1>1 DEF WriteFile, Target
    <2>3. ValuesInv' BY <1>1 DEF IInv, ValuesInv, WriteFile
    <2>4. ReadInv' BY <1>1 DEF IInv, ReadInv, WriteFile
    <2>5. PendInv'
      <3>1. step = "w" BY <1>1 DEF WriteFile
      <3>0. NextFile \in {"min", "max"}
        BY <1>1, <2>1 DEF WriteFile, IInv, PendInv
      <3>2. pend' = pend \ {NextFile} /\ pend' # {"min", "max"}
        BY <1>1, <2>1, <3>0 DEF WriteFile
      <3>3. pend \subseteq {"min", "max"} /\ \A r \in pend : Content(r, Target) \in Freqs
        BY <3>1 DEF IInv, PendInv
      <3> QED BY <2>1, <2>2, <3>2, <3>3 DEF PendInv
    <2> QED BY <2>1, <2>3, <2>4, <2>5 DEF IInv
  <1>2. CASE WriteFails
    <2>1. FilesInv'
      <3>1. CASE UNCHANGED <<reg, by>> BY <3>1 DEF IInv, FilesInv
      <3>2. CASE Stored BY <1>2, <3>2, StoredKeeps DEF WriteFails
      <3> QED BY <1>2, <3>1, <3>2 DEF WriteFails
    <2>2. at \in Stages BY <1>2 DEF WriteFails, IInv, ReadInv, Stages
    <2> QED BY <1>2, <2>1, <2>2, ErrorKeeps DEF WriteFails
  <1> QED BY <1>1, <1>2

(* Every other step ends in one of the situations above. *)
LEMMA NextKeeps ==
    ASSUME node = "frequency", ~others, IInv, [Next]_vars
    PROVE  IInv'
  <1>0. CASE UNCHANGED vars
    BY <1>0 DEF vars, IInv, FilesInv, ValuesInv, ReadInv, PendInv, Target
  <1>k. node' = node BY DEF Next, vars, kindVars
  <1> USE <1>k
  <1> USE DEF nodeVars
  <1>1. CASE Call
    <2>1. /\ FilesInv' /\ want' = want /\ phase' = phase /\ snap' = snap
      BY <1>1 DEF Call, IInv, FilesInv
    <2>2. CASE phase = "planned" /\ GoTo("snap")
      BY <2>1, <2>2, GoToKeeps DEF Stages
    <2>3. CASE phase = "snapshotted" /\ GoTo("apply")
      BY <2>1, <2>3, GoToKeeps DEF Stages, IInv, ValuesInv
    <2>4. CASE phase = "applied" /\ GoTo("restore")
      BY <2>1, <2>4, GoToKeeps DEF Stages, IInv, ValuesInv
    <2> QED BY <1>1, <2>2, <2>3, <2>4 DEF Call
  <1>2. CASE ReadFirst \/ ReadSecond BY <1>2, ReadsKeep
  <1>3. CASE ReadFails
    <2>1. FilesInv' /\ want' = want /\ snap' = snap /\ at \in Stages
      BY <1>3 DEF ReadFails, IInv, FilesInv, ValuesInv
    <2> QED BY <1>3, <2>1, ErrorKeeps DEF ReadFails
  <1>4. CASE SnapshotTaken
    <2>1. FilesInv' /\ want' = want
      BY <1>4 DEF SnapshotTaken, IInv, FilesInv
    <2>2. CASE Capturable(Typed(got))
      <3>1. snap'.v = Typed(got) /\ Return("snapshotted")
        BY <1>4, <2>2 DEF SnapshotTaken
      <3>2. Typed(got) = <<reg["min"], reg["max"]>>
        BY <1>4 DEF SnapshotTaken, Typed, IInv, ReadInv
      <3>3. Typed(got) \in Ranges
        BY <2>2, <3>2 DEF Capturable, Ranges, IInv, FilesInv
      <3> QED BY <2>1, <3>1, <3>3, ReturnKeeps DEF Phases
    <2>3. CASE ~Capturable(Typed(got))
      <3>1. snap' = snap /\ Return(phase)
        BY <1>4, <2>3 DEF SnapshotTaken
      <3> QED BY <2>1, <3>1, ReturnKeeps DEF IInv, ValuesInv
    <2> QED BY <2>2, <2>3
  <1>5. CASE ApplyChecked
    <2>1. FilesInv' /\ want' = want /\ snap' = snap /\ snap.v \in Ranges
      BY <1>5 DEF ApplyChecked, IInv, FilesInv, ValuesInv, Stages
    <2>2. CASE GoTo("valid") /\ phase' = phase
      BY <2>1, <2>2, GoToKeeps DEF Stages
    <2>3. CASE Return("refused") BY <2>1, <2>3, ReturnKeeps DEF Phases
    <2> QED BY <1>5, <2>2, <2>3 DEF ApplyChecked
  <1>6. CASE Validated
    <2>1. FilesInv' /\ want' = want /\ snap' = snap /\ snap.v \in Ranges
      BY <1>6 DEF Validated, IInv, FilesInv, ValuesInv, Stages
    <2>2. CASE GoTo("write") /\ phase' = phase
      BY <2>1, <2>2, GoToKeeps DEF Stages, WriteStages
    <2>3. CASE Return("refused") BY <2>1, <2>3, ReturnKeeps DEF Phases
    <2> QED BY <1>6, <2>2, <2>3 DEF Validated, StartWrite
  <1>7. CASE WritePlanned BY <1>7, PlanKeeps
  <1>8. CASE WriteFile \/ WriteFails BY <1>8, WritesKeep
  <1>9. CASE WriteDone
    <2>1. FilesInv' /\ want' = want /\ snap' = snap /\ phase' = phase
      BY <1>9 DEF WriteDone, IInv, FilesInv
    <2>2. at \in WriteStages /\ snap.v \in Ranges
      BY <1>9 DEF WriteDone, IInv, ReadInv, ValuesInv, Stages, WriteStages
    <2>3. \E s \in Pinned : GoTo(s)
      BY <1>9, <2>2 DEF WriteDone, WriteStages, Pinned
    <2> QED BY <2>1, <2>2, <2>3, GoToKeeps DEF Stages
  <1>10. CASE ReadBack
    <2>1. FilesInv' /\ want' = want /\ snap' = snap /\ snap.v \in Ranges /\ at \in Stages
      BY <1>10 DEF ReadBack, IInv, FilesInv, ValuesInv, Stages, Pinned
    <2>2. CASE Return("applied") BY <2>1, <2>2, ReturnKeeps DEF Phases
    <2>3. CASE OnError BY <2>1, <2>3, ErrorKeeps
    <2> QED BY <1>10, <2>2, <2>3 DEF ReadBack
  <1>11. CASE FixChecked
    <2>1. FilesInv' /\ want' = want /\ snap' = snap /\ snap.v \in Ranges
      BY <1>11 DEF FixChecked, IInv, FilesInv, ValuesInv, Stages
    <2>2. CASE GoTo("fixWrite") /\ phase' = phase
      BY <2>1, <2>2, GoToKeeps DEF Stages, WriteStages
    <2>3. CASE Return("unknown") BY <2>1, <2>3, ReturnKeeps DEF Phases
    <2> QED BY <1>11, <2>2, <2>3 DEF FixChecked, StartWrite
  <1>12. CASE FixProven
    <2>1. FilesInv' /\ want' = want /\ snap' = snap /\ snap.v \in Ranges
      BY <1>12 DEF FixProven, IInv, FilesInv, ValuesInv, Stages, Pinned
    <2>2. \E p \in {"undone", "unknown"} : Return(p) BY <1>12 DEF FixProven
    <2> QED BY <2>1, <2>2, ReturnKeeps DEF Phases
  <1>13. CASE RestoreChecked
    <2>1. FilesInv' /\ want' = want /\ snap' = snap /\ snap.v \in Ranges
      BY <1>13 DEF RestoreChecked, IInv, FilesInv, ValuesInv, Stages
    <2>2. CASE GoTo("restoreWrite") /\ phase' = phase
      BY <2>1, <2>2, GoToKeeps DEF Stages, WriteStages
    <2>3. CASE Return(phase) BY <2>1, <2>3, ReturnKeeps DEF IInv, ValuesInv
    <2> QED BY <1>13, <2>2, <2>3 DEF RestoreChecked, StartWrite
  <1>14. CASE RestoreProven
    <2>1. FilesInv' /\ want' = want /\ snap' = snap /\ snap.v \in Ranges
      BY <1>14 DEF RestoreProven, IInv, FilesInv, ValuesInv, Stages, Pinned
    <2>2. \E p \in {"restored", phase} : Return(p) BY <1>14 DEF RestoreProven
    <2> QED BY <2>1, <2>2, ReturnKeeps DEF Phases, IInv, ValuesInv
  <1>15. CASE OtherWrite \/ OtherReplace
    BY <1>15 DEF OtherWrite, OtherReplace
  <1> QED
    BY <1>0, <1>1, <1>2, <1>3, <1>4, <1>5, <1>6, <1>7, <1>8, <1>9, <1>10, <1>11,
       <1>12, <1>13, <1>14, <1>15 DEF Next

(* For every set of frequencies: without other writers the kernel never     *)
(* sees a minimum above the maximum, whatever snapshot, apply, the undo of  *)
(* a failed apply and restore do and wherever they fail.                    *)
THEOREM FrequencyRangeValid == Spec => []RangeValid
  <1> DEFINE Inv == node = "frequency" /\ ~others => IInv
  <1>1. Init => Inv BY InitInv
  <1>2. Inv /\ [Next]_vars => Inv'
    <2> SUFFICES ASSUME Inv, [Next]_vars, node' = "frequency", ~others' PROVE IInv'
      OBVIOUS
    <2>1. node = "frequency" /\ ~others BY DEF Next, vars, kindVars
    <2> QED BY <2>1, NextKeeps
  <1>3. Inv => RangeValid BY DEF IInv, FilesInv, RangeValid
  <1> QED BY <1>1, <1>2, <1>3, PTL DEF Spec

-----------------------------------------------------------------------------
(* Nothing of apply stays behind unreported, with other programs writing    *)
(* and replacing the files at any moment, for every kind of node.           *)

Undoing == {"fixWrite", "restoreWrite"}

Untouched == \A r \in Registers : by[r] # "apply"

(* File r does not hold a value of apply other than the original. *)
Clean(r) == by[r] = "apply" => reg[r] \in {None, Content(r, snap.v)}

(* Which call runs in which phase of the operation. *)
CallInv ==
    /\ node \in {"frequency", "boost", "scalar"}
    /\ DOMAIN reg = Registers /\ DOMAIN by = Registers
    /\ phase \in Phases
    /\ at \in Stages \cup {"idle"}
    /\ at = "valid" => node = "frequency"
    /\ at = "snap" => phase = "planned"
    /\ at \in {"apply", "valid", "write", "after", "fix", "fixWrite", "fixCheck"}
         => phase = "snapshotted"
    /\ at \in {"restore", "restoreWrite", "restoreCheck"} => phase = "applied"

(* A bound that was read is one, and what the undo has read of a value of   *)
(* apply is still there: whoever writes it takes it over.                   *)
SeenInv ==
    /\ step \in {"a", "b", "id", "w"}
    /\ node = "frequency" =>
         /\ step \in {"b", "id"} => got.a # None
         /\ step = "id" => got.b # None
         /\ at \in Undoing /\ step \in {"b", "id"} /\ by["min"] = "apply" => reg["min"] = got.a
         /\ at \in Undoing /\ step = "id" /\ by["max"] = "apply" => reg["max"] = got.b
         /\ phase # "planned" => snap.v[1] # None /\ snap.v[2] # None
    /\ step = "w" => at \in WriteStages
    /\ at \in WriteStages /\ node # "frequency" => step = "w" /\ pend \subseteq {snap.id.file}

(* Before the first write nothing is touched; a node of one file is touched *)
(* in the file of the snapshot only; the undo cleans file after file, and   *)
(* what it proves and reports is clean.                                     *)
TouchedInv ==
    /\ phase \in {"planned", "refused"} \/ (phase = "snapshotted" /\ at \in {"idle", "apply", "valid"})
         => Untouched
    /\ node # "frequency" => \A r \in Registers : by[r] = "apply" => r = snap.id.file
    /\ at \in Undoing /\ step = "w" => \A r \in Registers \ pend : Clean(r)
    /\ at \in {"fixCheck", "restoreCheck"} \/ phase \in {"undone", "restored"}
         => \A r \in Registers : Clean(r)

ReportInv == CallInv /\ SeenInv /\ TouchedInv

(* The kind of a node stays. *)
LEMMA RegistersFixed == ASSUME node' = node PROVE Registers' = Registers
  BY DEF Registers

(* The invariant of the reports holds before the first call. *)
LEMMA ReportInit == Init => ReportInv
  <1> SUFFICES ASSUME Init PROVE ReportInv OBVIOUS
  <1>1. CallInv BY DEF Init, CallInv, Phases
  <1>2. SeenInv BY DEF Init, SeenInv, WriteStages, Undoing
  <1>3. Untouched BY DEF Init, Untouched
  <1>4. TouchedInv BY <1>3 DEF Init, TouchedInv, Untouched, Undoing
  <1> QED BY <1>1, <1>2, <1>4 DEF ReportInv

(* The files as a step of the backend's own leaves them. *)
FilesStay == DOMAIN reg' = Registers /\ DOMAIN by' = Registers

(* A call returns with an answer that the files bear out. *)
LEMMA ReturnReports ==
    ASSUME node' = node, ReportInv, NEW p \in Phases, Return(p), FilesStay,
           p \in {"planned", "refused", "snapshotted"} => Untouched',
           p \in {"undone", "restored"} => \A r \in Registers : Clean(r)',
           node = "frequency" /\ p # "planned" => snap'.v[1] # None /\ snap'.v[2] # None,
           node # "frequency" => \A r \in Registers : by'[r] = "apply" => r = snap'.id.file
    PROVE  ReportInv'
  <1>1. phase' = p /\ at' = "idle" /\ step' = "a" /\ pend' = {} BY DEF Return
  <1>2. Registers' = Registers BY RegistersFixed
  <1>3. CallInv' BY <1>1, <1>2 DEF ReportInv, CallInv, FilesStay
  <1>4. SeenInv' BY <1>1 DEF SeenInv, Undoing, WriteStages
  <1>5. TouchedInv' BY <1>1, <1>2 DEF TouchedInv, Undoing
  <1> QED BY <1>3, <1>4, <1>5 DEF ReportInv

(* A call enters a stage that begins with a read; a write does so only for  *)
(* a frequency.                                                             *)
LEMMA GoToReports ==
    ASSUME node' = node, ReportInv, NEW s \in Stages, GoTo(s), FilesStay,
           s \in WriteStages \cup {"valid"} => node = "frequency",
           UNCHANGED <<phase, snap>>,
           s = "snap" => phase = "planned",
           s \in {"apply", "valid", "write", "after", "fix", "fixWrite", "fixCheck"}
             => phase = "snapshotted",
           s \in {"restore", "restoreWrite", "restoreCheck"} => phase = "applied",
           s \in {"snap", "apply", "valid"} => Untouched',
           s \in {"fixCheck", "restoreCheck"} => \A r \in Registers : Clean(r)',
           node # "frequency" => \A r \in Registers : by'[r] = "apply" => r = snap'.id.file
    PROVE  ReportInv'
  <1>1. at' = s /\ step' \in {"a", "b"} /\ (node = "frequency" => step' = "a")
    BY DEF GoTo
  <1>2. Registers' = Registers BY RegistersFixed
  <1>3. CallInv' BY <1>1, <1>2 DEF ReportInv, CallInv, FilesStay
  <1>4. SeenInv' BY <1>1 DEF ReportInv, SeenInv, Undoing, WriteStages
  <1>5. phase \notin {"undone", "restored", "refused"}
    BY DEF Stages, Pinned, WriteStages
  <1>6. TouchedInv' BY <1>1, <1>2, <1>5 DEF TouchedInv, Undoing, Stages, Pinned, WriteStages
  <1> QED BY <1>3, <1>4, <1>6 DEF ReportInv

(* An error of any step of a call that leaves the files to the facts of     *)
(* one-file nodes.                                                          *)
LEMMA ErrorReports ==
    ASSUME node' = node, ReportInv, OnError, at \in Stages, FilesStay,
           snap' = snap,
           at \in {"snap", "apply", "valid"} => Untouched',
           node # "frequency" => \A r \in Registers : by'[r] = "apply" => r = snap.id.file
    PROVE  ReportInv'
  <1>0. /\ at = "snap" => phase = "planned"
        /\ at \in {"restore", "restoreWrite", "restoreCheck"} => phase = "applied"
        /\ at \in {"apply", "valid", "write", "after", "fix", "fixWrite", "fixCheck"}
             => phase = "snapshotted"
        /\ phase \in Phases
        /\ node = "frequency" /\ phase # "planned" => snap'.v[1] # None /\ snap'.v[2] # None
    BY DEF ReportInv, CallInv, SeenInv
  <1>1. CASE at \in {"snap", "restore", "restoreWrite", "restoreCheck"}
    <2>1. Return(phase) BY <1>1 DEF OnError
    <2> QED BY <1>0, <1>1, <2>1, ReturnReports
  <1>2. CASE at \in {"apply", "valid"}
    <2>1. Return("refused") BY <1>2 DEF OnError
    <2> QED BY <1>0, <1>2, <2>1, ReturnReports DEF Phases
  <1>3. CASE at \in {"write", "after"}
    <2>1. GoTo("fix") /\ phase' = phase BY <1>3 DEF OnError
    <2> QED BY <1>0, <1>3, <2>1, GoToReports DEF Stages, WriteStages
  <1>4. CASE at \in {"fix", "fixWrite", "fixCheck"}
    <2>1. Return("unknown") BY <1>4 DEF OnError
    <2> QED BY <1>0, <1>4, <2>1, ReturnReports DEF Phases
  <1> QED BY <1>1, <1>2, <1>3, <1>4 DEF Stages, Pinned, WriteStages

(* A step that leaves files and snapshot alone leaves these facts alone. *)
LEMMA FilesUnchanged ==
    ASSUME node' = node, ReportInv, UNCHANGED <<reg, by, snap>>
    PROVE  /\ FilesStay
           /\ Untouched => Untouched'
           /\ \A r \in Registers : Clean(r) => Clean(r)'
           /\ node # "frequency" => \A r \in Registers : by'[r] = "apply" => r = snap'.id.file
           /\ node = "frequency" /\ phase # "planned" => snap'.v[1] # None /\ snap'.v[2] # None
  <1>1. Registers' = Registers BY RegistersFixed
  <1>2. FilesStay BY DEF FilesStay, ReportInv, CallInv
  <1>3. Untouched => Untouched' BY <1>1 DEF Untouched
  <1>4. \A r \in Registers : Clean(r) => Clean(r)' BY DEF Clean
  <1> QED BY <1>2, <1>3, <1>4 DEF ReportInv, SeenInv, TouchedInv

(* The steps of a read. *)
LEMMA ReadsReport ==
    ASSUME node' = node, ReportInv, ReadFirst \/ ReadSecond
    PROVE  ReportInv'
  <1>1. /\ UNCHANGED <<reg, by, snap, phase, at, pend>>
        /\ at # "idle" /\ step \in {"a", "b"} /\ step' \in {"b", "id"}
    BY DEF ReadFirst, ReadSecond, nodeVars
  <1>2. Registers' = Registers BY RegistersFixed
  <1>3. CallInv' BY <1>1, <1>2 DEF ReportInv, CallInv
  <1>4. SeenInv'
    <2>1. CASE ReadFirst
      <3>1. node = "frequency" => got'.a = reg["min"] /\ reg["min"] # None
        BY <2>1 DEF ReadFirst
      <3>2. step' = "b" BY <2>1 DEF ReadFirst
      <3> QED BY <1>1, <3>1, <3>2 DEF ReportInv, SeenInv
    <2>2. CASE ReadSecond
      <3>1. node = "frequency" =>
              got'.a = got.a /\ got'.b = reg["max"] /\ reg["max"] # None
        BY <2>2 DEF ReadSecond
      <3>2. step = "b" /\ step' = "id" BY <2>2 DEF ReadSecond
      <3> QED BY <1>1, <3>1, <3>2 DEF ReportInv, SeenInv
    <2> QED BY <2>1, <2>2
  <1>5. TouchedInv'
    <2>1. /\ Untouched => Untouched'
          /\ \A r \in Registers : Clean(r) => Clean(r)'
      BY <1>1, FilesUnchanged
    <2> QED BY <1>1, <1>2, <2>1 DEF ReportInv, TouchedInv
  <1> QED BY <1>3, <1>4, <1>5 DEF ReportInv

(* StartWrite for the node of the snapshot. *)
LEMMA StartReports ==
    ASSUME node' = node, ReportInv, NEW s \in WriteStages, NEW f, StartWrite(s, f),
           node = "boost" => f = snap.id.file,
           node = "scalar" => snap.id.file = "value",
           UNCHANGED <<reg, by, snap, phase>>,
           s \in {"write", "fixWrite"} => phase = "snapshotted",
           s = "restoreWrite" => phase = "applied"
    PROVE  ReportInv'
  <1>1. /\ FilesStay
        /\ Untouched => Untouched'
        /\ \A r \in Registers : Clean(r) => Clean(r)'
        /\ node # "frequency" => \A r \in Registers : by'[r] = "apply" => r = snap'.id.file
    BY FilesUnchanged
  <1>2. CASE node = "frequency"
    <2>1. GoTo(s) BY <1>2 DEF StartWrite
    <2> QED BY <1>1, <1>2, <2>1, GoToReports DEF Stages, WriteStages
  <1>3. CASE node # "frequency"
    <2>1. at' = s /\ step' = "w" /\ pend' = {snap.id.file}
      BY <1>3 DEF StartWrite, ReportInv, CallInv
    <2>2. Registers' = Registers BY RegistersFixed
    <2>3. CallInv' BY <1>1, <2>1, <2>2 DEF ReportInv, CallInv, FilesStay, Stages, WriteStages
    <2>4. SeenInv' BY <1>3, <2>1 DEF ReportInv, SeenInv
    <2>5. \A r \in Registers' \ pend' : Clean(r)'
      BY <1>1, <1>3, <2>1, <2>2 DEF Clean
    <2>6. TouchedInv' BY <1>1, <1>3, <2>1, <2>2, <2>5 DEF TouchedInv, WriteStages
    <2> QED BY <2>3, <2>4, <2>6 DEF ReportInv
  <1> QED BY <1>2, <1>3

(* The plan of write_frequency leaves out only what is clean. *)
LEMMA PlanReports ==
    ASSUME node' = node, ReportInv, WritePlanned
    PROVE  ReportInv'
  <1> DEFINE cur == Typed(got)
             full == Effective(Target, cur)
  <1>1. UNCHANGED <<reg, by, snap>> /\ at \in WriteStages /\ step = "id"
    BY DEF WritePlanned, nodeVars
  <1>2. node = "frequency" /\ at \in Stages
    BY <1>1 DEF ReportInv, SeenInv, Stages
  <1>3. Registers' = Registers /\ Registers = {"min", "max"}
    BY <1>2, RegistersFixed DEF Registers
  <1>4. /\ FilesStay
        /\ Untouched => Untouched'
        /\ \A r \in Registers : Clean(r) => Clean(r)'
    BY <1>1, FilesUnchanged
  <1>5. CASE full[1] > full[2]
    <2>1. OnError BY <1>5 DEF WritePlanned
    <2> QED BY <1>1, <1>2, <1>4, <2>1, ErrorReports DEF WriteStages
  <1>6. CASE ~(full[1] > full[2])
    <2>1. /\ pend' = ToWrite(Target, cur) /\ step' = "w"
          /\ phase' = phase /\ at' = at
      BY <1>6 DEF WritePlanned
    <2>2. at \in Undoing => \A r \in Registers \ pend' : Clean(r)
      <3> SUFFICES ASSUME at \in Undoing, NEW r \in {"min", "max"}, r \notin pend',
                          by[r] = "apply"
                   PROVE  reg[r] = Content(r, snap.v)
        BY <1>3 DEF Clean
      <3>1. Target = snap.v BY DEF Target, Undoing
      <3>2. cur[1] = got.a /\ cur[2] = got.b BY <1>2 DEF Typed
      <3>3. phase # "planned" BY DEF ReportInv, CallInv, Undoing
      <3>4. snap.v[1] # None /\ snap.v[2] # None
        BY <1>2, <3>3 DEF ReportInv, SeenInv
      <3>5. CASE r = "min"
        <4>1. reg["min"] = got.a BY <1>1, <1>2, <3>5 DEF ReportInv, SeenInv
        <4>2. snap.v[1] \in {None, cur[1]}
          BY <2>1, <3>1, <3>5 DEF ToWrite, Content
        <4> QED BY <3>2, <3>4, <3>5, <4>1, <4>2 DEF Content
      <3>6. CASE r = "max"
        <4>1. reg["max"] = got.b BY <1>1, <1>2, <3>6 DEF ReportInv, SeenInv
        <4>2. snap.v[2] \in {None, cur[2]}
          BY <2>1, <3>1, <3>6 DEF ToWrite, Content
        <4> QED BY <3>2, <3>4, <3>6, <4>1, <4>2 DEF Content
      <3> QED BY <3>5, <3>6
    <2>3. CallInv' BY <1>3, <1>4, <2>1 DEF ReportInv, CallInv, FilesStay
    <2>4. SeenInv' BY <1>1, <1>2, <2>1 DEF ReportInv, SeenInv
    <2>5. TouchedInv'
      <3>1. at \notin {"idle", "apply", "valid", "fixCheck", "restoreCheck"}
        BY <1>1 DEF WriteStages
      <3>2. phase \notin {"planned", "refused", "undone", "restored"}
        BY <1>1 DEF ReportInv, CallInv, WriteStages
      <3> QED BY <1>2, <1>3, <1>4, <2>1, <2>2, <3>1, <3>2 DEF TouchedInv
    <2> QED BY <2>3, <2>4, <2>5 DEF ReportInv
  <1> QED BY <1>5, <1>6

(* One write of a file: of apply only in the file of the snapshot, of the   *)
(* undo and of restore on what is to be cleaned.                            *)
LEMMA StoredReports ==
    ASSUME node' = node, ReportInv, step = "w", pend # {}, Stored, snap' = snap
    PROVE  /\ FilesStay
           /\ at \in WriteStages
           /\ node # "frequency" => \A r \in Registers : by'[r] = "apply" => r = snap.id.file
           /\ at \in Undoing => \A r \in Registers \ (pend \ {NextFile}) : Clean(r)'
  <1>1. at \in WriteStages BY DEF ReportInv, SeenInv
  <1>2. /\ reg' = [reg EXCEPT ![NextFile] = Content(NextFile, Target)]
        /\ by' = [by EXCEPT ![NextFile] = Writer]
    BY DEF Stored
  <1>3. DOMAIN reg = Registers /\ DOMAIN by = Registers
    BY DEF ReportInv, CallInv
  <1> DEFINE f == NextFile
  <1> HIDE DEF f
  <1>4. /\ \A r \in Registers : r # f => reg'[r] = reg[r] /\ by'[r] = by[r]
        /\ f \in Registers => by'[f] = Writer
        /\ FilesStay
    BY <1>2, <1>3 DEF f, FilesStay
  <1>5. node # "frequency" => f = snap.id.file
    <2> SUFFICES ASSUME node # "frequency" PROVE f = snap.id.file OBVIOUS
    <2>1. f \in pend BY DEF f, NextFile
    <2> QED BY <1>1, <2>1 DEF ReportInv, SeenInv
  <1>6. node # "frequency" => \A r \in Registers : by'[r] = "apply" => r = snap.id.file
    BY <1>4, <1>5 DEF ReportInv, TouchedInv
  <1>7. ASSUME at \in Undoing PROVE \A r \in Registers \ (pend \ {f}) : Clean(r)'
    <2>1. Writer = "restore" BY <1>7 DEF Writer, Undoing
    <2>2. \A r \in Registers \ pend : Clean(r) BY <1>7 DEF ReportInv, TouchedInv
    <2> SUFFICES ASSUME NEW r \in Registers, r \notin pend \ {f} PROVE Clean(r)'
      OBVIOUS
    <2>3. CASE r = f BY <1>4, <2>1, <2>3 DEF Clean
    <2>4. CASE r # f
      <3>1. Clean(r) BY <2>2, <2>4
      <3> QED BY <1>4, <2>4, <3>1 DEF Clean
    <2> QED BY <2>3, <2>4
  <1> QED BY <1>1, <1>4, <1>6, <1>7 DEF f

(* The steps of a write. *)
LEMMA WritesReport ==
    ASSUME node' = node, ReportInv, WriteFile \/ WriteFails \/ WriteDone
    PROVE  ReportInv'
  <1>0. /\ step = "w" /\ at \in WriteStages /\ snap' = snap
        /\ at \in Stages
        /\ phase \notin {"planned", "refused", "undone", "restored"}
        /\ Registers' = Registers
    <2>1. step = "w" /\ snap' = snap BY DEF WriteFile, WriteFails, WriteDone
    <2>2. at \in WriteStages BY <2>1 DEF ReportInv, SeenInv
    <2>3. phase \notin {"planned", "refused", "undone", "restored"}
      BY <2>2 DEF ReportInv, CallInv, WriteStages
    <2> QED BY <2>1, <2>2, <2>3, RegistersFixed DEF Stages
  <1>1. CASE WriteFile
    <2>1. /\ pend # {} /\ Stored /\ pend' = pend \ {NextFile}
          /\ UNCHANGED <<phase, at, step, got>>
      BY <1>1 DEF WriteFile
    <2>2. /\ FilesStay
          /\ node # "frequency" => \A r \in Registers : by'[r] = "apply" => r = snap.id.file
          /\ at \in Undoing => \A r \in Registers \ pend' : Clean(r)'
      BY <1>0, <2>1, StoredReports
    <2>3. CallInv' BY <1>0, <2>1, <2>2 DEF ReportInv, CallInv, FilesStay
    <2>4. SeenInv' BY <1>0, <2>1 DEF ReportInv, SeenInv
    <2>5. TouchedInv' BY <1>0, <2>1, <2>2 DEF TouchedInv, WriteStages
    <2> QED BY <2>3, <2>4, <2>5 DEF ReportInv
  <1>2. CASE WriteFails
    <2>1. /\ FilesStay
          /\ node # "frequency" => \A r \in Registers : by'[r] = "apply" => r = snap.id.file
      <3>1. CASE UNCHANGED <<reg, by>> BY <1>0, <3>1, FilesUnchanged
      <3>2. CASE Stored BY <1>0, <1>2, <3>2, StoredReports DEF WriteFails
      <3> QED BY <1>2, <3>1, <3>2 DEF WriteFails
    <2>2. OnError BY <1>2 DEF WriteFails
    <2> QED BY <1>0, <2>1, <2>2, ErrorReports DEF WriteStages
  <1>3. CASE WriteDone
    <2>1. pend = {} /\ UNCHANGED <<reg, by, phase>> BY <1>3 DEF WriteDone, nodeVars
    <2>2. /\ FilesStay
          /\ \A r \in Registers : Clean(r) => Clean(r)'
          /\ node # "frequency" => \A r \in Registers : by'[r] = "apply" => r = snap'.id.file
      BY <1>0, <2>1, FilesUnchanged
    <2>3. at \in Undoing => \A r \in Registers : Clean(r)
      BY <1>0, <2>1 DEF ReportInv, TouchedInv
    <2>4. /\ at \in {"write", "fixWrite"} => phase = "snapshotted"
          /\ at = "restoreWrite" => phase = "applied"
      BY DEF ReportInv, CallInv
    <2>5. CASE at = "write" /\ GoTo("after")
      BY <1>0, <2>1, <2>2, <2>4, <2>5, GoToReports DEF Stages, Pinned, WriteStages
    <2>6. CASE at = "fixWrite" /\ GoTo("fixCheck")
      BY <1>0, <2>1, <2>2, <2>3, <2>4, <2>6, GoToReports
      DEF Stages, Pinned, WriteStages, Undoing
    <2>7. CASE at = "restoreWrite" /\ GoTo("restoreCheck")
      BY <1>0, <2>1, <2>2, <2>3, <2>4, <2>7, GoToReports
      DEF Stages, Pinned, WriteStages, Undoing
    <2> QED BY <1>0, <1>3, <2>5, <2>6, <2>7 DEF WriteDone, WriteStages
  <1> QED BY <1>1, <1>2, <1>3

(* Whoever else writes or replaces a file takes it over. *)
LEMMA OthersReport ==
    ASSUME node' = node, ReportInv, OtherWrite \/ OtherReplace
    PROVE  ReportInv'
  <1>0. UNCHANGED <<want, snap, phase, at, step, got, pend>> /\ Registers' = Registers
    BY RegistersFixed DEF OtherWrite, OtherReplace
  <1>1. /\ FilesStay
        /\ \A r \in Registers : by'[r] = "apply" => by[r] = "apply" /\ reg'[r] = reg[r]
    <2>1. CASE OtherWrite
      <3>1. PICK r \in Registers, c \in Contents :
               reg' = [reg EXCEPT ![r] = c] /\ by' = [by EXCEPT ![r] = "host"]
        BY <2>1 DEF OtherWrite
      <3> QED BY <3>1 DEF ReportInv, CallInv, FilesStay
    <2>2. CASE OtherReplace
      <3>1. PICK set :
               /\ by' = [r \in Registers |-> IF r \in set THEN "host" ELSE by[r]]
               /\ reg' \in [Registers -> Contents \cup {None}]
               /\ \A r \in Registers \ set : reg'[r] = reg[r]
        BY <2>2 DEF OtherReplace
      <3> QED BY <3>1 DEF FilesStay
    <2> QED BY <2>1, <2>2
  <1>2. Untouched => Untouched' BY <1>0, <1>1 DEF Untouched
  <1>3. \A r \in Registers : Clean(r) => Clean(r)' BY <1>0, <1>1 DEF Clean
  <1>4. CallInv' BY <1>0, <1>1 DEF ReportInv, CallInv, FilesStay
  <1>5. SeenInv'
    <2>1. node = "frequency" => "min" \in Registers /\ "max" \in Registers
      BY DEF Registers
    <2> QED BY <1>0, <1>1, <2>1 DEF ReportInv, SeenInv
  <1>6. TouchedInv' BY <1>0, <1>1, <1>2, <1>3 DEF ReportInv, TouchedInv
  <1> QED BY <1>4, <1>5, <1>6 DEF ReportInv

(* Every step of the backend and of the host keeps the invariant. *)
LEMMA ReportNext == ReportInv /\ [Next]_vars => ReportInv'
  <1> SUFFICES ASSUME ReportInv, [Next]_vars PROVE ReportInv' OBVIOUS
  <1>k. node' = node BY DEF Next, vars, kindVars
  <1>r. Registers' = Registers BY <1>k, RegistersFixed
  <1>0. CASE UNCHANGED vars
    <2>1. /\ Untouched => Untouched'
          /\ \A r \in Registers : Clean(r) => Clean(r)'
      BY <1>0, <1>k, FilesUnchanged DEF vars
    <2>2. CallInv' BY <1>0, <1>r DEF vars, ReportInv, CallInv
    <2>3. SeenInv' BY <1>0 DEF vars, ReportInv, SeenInv
    <2>4. TouchedInv' BY <1>0, <1>r, <2>1 DEF vars, ReportInv, TouchedInv
    <2> QED BY <2>2, <2>3, <2>4 DEF ReportInv
  <1> USE <1>k DEF nodeVars
  <1>s. /\ at = "snap" => phase = "planned"
        /\ at \in {"apply", "valid", "write", "after", "fix", "fixWrite", "fixCheck"}
             => phase = "snapshotted"
        /\ at \in {"restore", "restoreWrite", "restoreCheck"} => phase = "applied"
        /\ phase \in Phases /\ at \in Stages \cup {"idle"}
        /\ node \in {"frequency", "boost", "scalar"}
    BY DEF ReportInv, CallInv
  <1>u. /\ phase \in {"planned", "refused"} => Untouched
        /\ phase = "snapshotted" /\ at \in {"idle", "apply", "valid"} => Untouched
        /\ at \in {"fixCheck", "restoreCheck"} => \A r \in Registers : Clean(r)
    BY DEF ReportInv, TouchedInv
  <1>f. ASSUME UNCHANGED <<reg, by, snap>>
        PROVE  /\ FilesStay
               /\ Untouched => Untouched'
               /\ \A r \in Registers : Clean(r) => Clean(r)'
               /\ node # "frequency" => \A r \in Registers : by'[r] = "apply" => r = snap'.id.file
               /\ node = "frequency" /\ phase # "planned" => snap'.v[1] # None /\ snap'.v[2] # None
    BY <1>f, FilesUnchanged
  <1>i. node = "scalar" /\ Identity = snap.id => snap.id.file = "value"
    BY DEF Identity
  <1>j. node = "boost" /\ Identity = snap.id => got.a = snap.id.file
    BY DEF Identity
  <1>1. CASE Call
    <2>1. UNCHANGED <<reg, by, snap, phase>> /\ at = "idle" BY <1>1 DEF Call
    <2>2. CASE phase = "planned" /\ GoTo("snap")
      BY <1>f, <1>u, <2>1, <2>2, GoToReports DEF Stages, WriteStages
    <2>3. CASE phase = "snapshotted" /\ GoTo("apply")
      BY <1>f, <1>u, <2>1, <2>3, GoToReports DEF Stages, WriteStages
    <2>4. CASE phase = "applied" /\ GoTo("restore")
      BY <1>f, <2>1, <2>4, GoToReports DEF Stages, WriteStages
    <2> QED BY <1>1, <2>2, <2>3, <2>4 DEF Call
  <1>2. CASE ReadFirst \/ ReadSecond BY <1>2, ReadsReport
  <1>3. CASE ReadFails
    <2>1. UNCHANGED <<reg, by, snap>> /\ OnError /\ at \in Stages
      BY <1>3, <1>s DEF ReadFails
    <2>2. at \in {"snap", "apply", "valid"} => Untouched' BY <1>f, <1>s, <1>u, <2>1
    <2> QED BY <1>f, <2>1, <2>2, ErrorReports
  <1>4. CASE SnapshotTaken
    <2>1. UNCHANGED <<reg, by>> /\ at = "snap" /\ step = "id" BY <1>4 DEF SnapshotTaken
    <2>2. FilesStay /\ Untouched'
      BY <1>r, <1>s, <1>u, <2>1 DEF Untouched, FilesStay, ReportInv, CallInv
    <2>3. \A r \in Registers : by'[r] # "apply" BY <1>r, <2>2 DEF Untouched
    <2>4. CASE snap' = [v |-> Typed(got), id |-> Identity] /\ Return("snapshotted")
      <3>1. node = "frequency" => snap'.v[1] # None /\ snap'.v[2] # None
        BY <2>1, <2>4 DEF Typed, ReportInv, SeenInv
      <3> QED BY <2>2, <2>3, <2>4, <3>1, ReturnReports DEF Phases
    <2>5. CASE UNCHANGED snap /\ Return(phase)
      BY <1>s, <2>1, <2>2, <2>3, <2>5, ReturnReports
    <2> QED BY <1>4, <2>4, <2>5 DEF SnapshotTaken
  <1>5. CASE ApplyChecked
    <2>1. UNCHANGED <<reg, by, snap>> /\ at = "apply" BY <1>5 DEF ApplyChecked
    <2>2. CASE Return("refused")
      BY <1>f, <1>s, <1>u, <2>1, <2>2, ReturnReports DEF Phases
    <2>3. CASE node = "frequency" /\ GoTo("valid") /\ phase' = phase
      BY <1>f, <1>s, <1>u, <2>1, <2>3, GoToReports DEF Stages, WriteStages
    <2>4. CASE Identity = snap.id /\ StartWrite("write", got.a) /\ phase' = phase
      BY <1>i, <1>j, <1>s, <2>1, <2>4, StartReports DEF WriteStages
    <2> QED BY <1>5, <2>2, <2>3, <2>4 DEF ApplyChecked
  <1>6. CASE Validated
    <2>1. UNCHANGED <<reg, by, snap>> /\ at = "valid" BY <1>6 DEF Validated
    <2>2. CASE Return("refused")
      BY <1>f, <1>s, <1>u, <2>1, <2>2, ReturnReports DEF Phases
    <2>3. CASE StartWrite("write", None) /\ phase' = phase
      BY <1>s, <2>1, <2>3, StartReports DEF WriteStages, ReportInv, CallInv
    <2> QED BY <1>6, <2>2, <2>3 DEF Validated
  <1>7. CASE WritePlanned BY <1>7, PlanReports
  <1>8. CASE WriteFile \/ WriteFails \/ WriteDone BY <1>8, WritesReport
  <1>9. CASE ReadBack
    <2>1. UNCHANGED <<reg, by, snap>> /\ at = "after" BY <1>9 DEF ReadBack
    <2>2. CASE Return("applied")
      BY <1>f, <1>s, <2>1, <2>2, ReturnReports DEF Phases
    <2>3. CASE OnError
      BY <1>f, <2>1, <2>3, ErrorReports DEF Stages, Pinned
    <2> QED BY <1>9, <2>2, <2>3 DEF ReadBack
  <1>10. CASE FixChecked
    <2>1. UNCHANGED <<reg, by, snap>> /\ at = "fix" BY <1>10 DEF FixChecked
    <2>2. CASE Return("unknown")
      BY <1>f, <1>s, <2>1, <2>2, ReturnReports DEF Phases
    <2>3. CASE Identity = snap.id /\ StartWrite("fixWrite", got.a) /\ phase' = phase
      BY <1>i, <1>j, <1>s, <2>1, <2>3, StartReports DEF WriteStages
    <2> QED BY <1>10, <2>2, <2>3 DEF FixChecked
  <1>11. CASE FixProven
    <2>1. UNCHANGED <<reg, by, snap>> /\ at = "fixCheck" BY <1>11 DEF FixProven
    <2>2. \A r \in Registers : Clean(r)' BY <1>f, <1>u, <2>1
    <2>3. \E p \in {"undone", "unknown"} : Return(p) BY <1>11 DEF FixProven
    <2> QED BY <1>f, <1>s, <2>1, <2>2, <2>3, ReturnReports DEF Phases
  <1>12. CASE RestoreChecked
    <2>1. UNCHANGED <<reg, by, snap>> /\ at = "restore" BY <1>12 DEF RestoreChecked
    <2>2. CASE Return(phase)
      BY <1>f, <1>s, <2>1, <2>2, ReturnReports DEF Phases
    <2>3. CASE Identity = snap.id /\ StartWrite("restoreWrite", got.a) /\ phase' = phase
      BY <1>i, <1>j, <1>s, <2>1, <2>3, StartReports DEF WriteStages
    <2> QED BY <1>12, <2>2, <2>3 DEF RestoreChecked
  <1>13. CASE RestoreProven
    <2>1. UNCHANGED <<reg, by, snap>> /\ at = "restoreCheck" BY <1>13 DEF RestoreProven
    <2>2. \A r \in Registers : Clean(r)' BY <1>f, <1>u, <2>1
    <2>3. \E p \in {"restored", "applied"} : Return(p) BY <1>13, <1>s, <2>1 DEF RestoreProven
    <2> QED BY <1>f, <1>s, <2>1, <2>2, <2>3, ReturnReports DEF Phases
  <1>14. CASE OtherWrite \/ OtherReplace BY <1>14, OthersReport
  <1> QED
    BY <1>0, <1>1, <1>2, <1>3, <1>4, <1>5, <1>6, <1>7, <1>8, <1>9, <1>10, <1>11,
       <1>12, <1>13, <1>14 DEF Next

(* For every kind of node, other programs writing and replacing its files   *)
(* at any moment: between calls a value of apply is in place only when the  *)
(* engine holds a receipt or was told that the result is unknown.  What a   *)
(* refused or undone apply and a restore receipt say is so.                 *)
THEOREM CpuWritesAreReported == Spec => []WritesAreReported
  <1>1. ReportInv => WritesAreReported
    <2> SUFFICES ASSUME ReportInv, at = "idle", phase \notin {"applied", "unknown"},
                        NEW r \in Registers, by[r] = "apply"
                 PROVE  reg[r] \in {None, Content(r, snap.v)}
      BY DEF WritesAreReported, InPlace
    <2>1. phase \in {"planned", "refused", "snapshotted", "undone", "restored"}
      BY DEF ReportInv, CallInv, Phases
    <2>2. phase \in {"undone", "restored"}
      BY <2>1 DEF ReportInv, TouchedInv, Untouched
    <2> QED BY <2>2 DEF ReportInv, TouchedInv, Clean
  <1> QED BY <1>1, ReportInit, ReportNext, PTL DEF Spec
=============================================================================
