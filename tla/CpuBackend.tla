----------------------------- MODULE CpuBackend -----------------------------
(***************************************************************************)
(* The CPU backend of sysboost-linux/src/cpu.rs at the level of single     *)
(* kernel files: what snapshot, apply, the internal undo of a failed apply *)
(* and restore read and write, with every file access a step, so that      *)
(* failing accesses and other programs come in between.                    *)
(*                                                                         *)
(* One node is modelled, of the kind node says, with or without other      *)
(* programs that write and replace its files:                              *)
(*   "frequency"  the files scaling_min_freq and scaling_max_freq of one   *)
(*                policy, identified by the policy directory;              *)
(*   "boost"      cpufreq/boost or cpufreq/no_turbo (inverted), whichever  *)
(*                is found first, identified by the file;                  *)
(*   "scalar"     one file: governor, energy preference, platform profile. *)
(* A read takes three steps: the first part (the minimum, or which boost   *)
(* file there is), the second part (the maximum, or the content), and the  *)
(* identity.  by[r] is a history variable: who wrote file r last.          *)
(***************************************************************************)
EXTENDS Naturals

CONSTANTS
    Freqs,         \* frequencies in kHz, and the contents of a scalar file
    HwMin, HwMax,  \* cpuinfo_min_freq and cpuinfo_max_freq, or None
    None,          \* an absent option, file or read
    MaxGen         \* bound: identities a file or directory goes through

ASSUME FreqsAssumption == Freqs \subseteq Nat /\ None \notin Freqs \cup {0, 1}
ASSUME HardwareAssumption == HwMin \in Freqs \cup {None} /\ HwMax \in Freqs \cup {None}
ASSUME MaxGenAssumption == MaxGen \in Nat \ {0}

VARIABLES
    node,      \* the kind of node
    others,    \* whether other programs write and replace the files
    reg,       \* the kernel's files: content, or None when there is none
    gen,       \* identity (device and inode) of the file or its directory
    by,        \* history: last writer of a file
    want,      \* PlannedMutation.desired
    snap,      \* Snapshot: the typed original and its identity
    phase,     \* what the engine knows of this operation
    at, step,  \* where the running call is, and where its read is
    got,       \* what the running read has read so far
    iface,     \* resolved_node: the boost file the write is pinned to
    pend,      \* files the running write still has to write
    minFirst   \* write_frequency: min_first

kindVars == <<node, others>>
nodeVars == <<reg, gen, by>>
vars == <<node, others, reg, gen, by, want, snap, phase, at, step, got, iface, pend, minFirst>>

Registers ==
    CASE node = "frequency" -> {"min", "max"}
      [] node = "boost"     -> {"boost", "no_turbo"}
      [] node = "scalar"    -> {"value"}

Contents == IF node = "boost" THEN {0, 1} ELSE Freqs

Absent == [a |-> None, b |-> None]

-----------------------------------------------------------------------------
(* Typed values.  A frequency value is <<min, max>>; a plan may leave one   *)
(* of them out.                                                             *)

Ranges == {v \in Freqs \X Freqs : v[1] <= v[2]}

(* The desired values a plan can carry. *)
Desirable ==
    CASE node = "frequency" ->
           Ranges \cup {<<f, None>> : f \in Freqs} \cup {<<None, f>> : f \in Freqs}
      [] node = "boost"  -> {"Enabled", "Disabled"}
      [] node = "scalar" -> Freqs

(* parse_boost, parse_frequency and the parsers of one-word files. *)
Typed(g) ==
    CASE node = "frequency" -> <<g.a, g.b>>
      [] node = "boost"  -> IF (g.a = "boost") = (g.b = 1) THEN "Enabled" ELSE "Disabled"
      [] node = "scalar" -> g.b

(* What write() puts in file r for a typed value: the inverse of Typed. *)
Content(r, v) ==
    CASE r = "min" -> v[1]
      [] r = "max" -> v[2]
      [] r = "boost"    -> IF v = "Enabled" THEN 1 ELSE 0
      [] r = "no_turbo" -> IF v = "Enabled" THEN 0 ELSE 1
      [] r = "value" -> v

(* Option::or and Option::unwrap_or *)
Or(x, y) == IF x = None THEN y ELSE x

(* effective_desired: a missing bound is the current one. *)
Effective(v, cur) ==
    IF node = "frequency" THEN <<Or(v[1], cur[1]), Or(v[2], cur[2])>> ELSE v

(* validate_desired: inside the hardware's bounds, or among the choices the *)
(* kernel advertises (every content of the model is one).                   *)
WithinHardware(f) == /\ HwMin # None => f >= HwMin
                     /\ HwMax # None => f <= HwMax
Admissible(v, cur) ==
    node = "frequency" => /\ WithinHardware(Effective(v, cur)[1])
                          /\ WithinHardware(Effective(v, cur)[2])

(* write_frequency: which files are written for v when cur was read; a      *)
(* bound that is not asked for or already right is left alone.              *)
ToWrite(v, cur) == {r \in {"min", "max"} : Content(r, v) \notin {None, Content(r, cur)}}

(* Slip: the maximum always goes first. *)
LowersPastMinNever(v, cur) == FALSE

(* min_first: lowering the maximum below the current minimum needs the      *)
(* minimum to go first; everything else raises or keeps the maximum first.  *)
LowersPastMin(v, cur) == Or(v[2], cur[2]) < cur[1]

-----------------------------------------------------------------------------
(* The stages of the calls.  A stage with a read starts at step "a" (for a  *)
(* scalar at "b"); step "w" writes files.                                   *)
Pinned == {"after", "fixCheck", "restoreCheck"}
WriteStages == {"write", "fixWrite", "restoreWrite"}
Stages == {"snap", "apply", "valid", "fix", "restore"} \cup Pinned \cup WriteStages
Phases == {"planned", "snapshotted", "applied", "refused", "undone", "unknown",
           "restored"}

GoTo(stage) ==
    /\ at' = stage
    /\ step' = IF node = "scalar" THEN "b" ELSE "a"
    /\ got' = Absent

Return(p) ==
    /\ phase' = p
    /\ at' = "idle"
    /\ step' = "a"
    /\ got' = Absent
    /\ iface' = None
    /\ pend' = {}
    /\ minFirst' = FALSE

Init ==
    /\ node \in {"frequency", "boost", "scalar"}
    /\ others \in BOOLEAN
    /\ reg \in [Registers -> Contents \cup {None}]
    /\ IF node = "boost" THEN \E r \in Registers : reg[r] # None
                         ELSE \A r \in Registers : reg[r] # None
    /\ node = "frequency" => reg["min"] <= reg["max"]
    /\ gen = [r \in Registers |-> 1]
    /\ by = [r \in Registers |-> "host"]
    /\ want \in Desirable
    /\ snap = [v |-> None, id |-> None]
    /\ phase = "planned"
    /\ at = "idle"
    /\ step = "a"
    /\ got = Absent
    /\ iface = None
    /\ pend = {}
    /\ minFirst = FALSE

(* The engine's calls.  restore is called for an operation with a receipt,  *)
(* again and again until it succeeds.                                       *)
Call ==
    /\ at = "idle"
    /\ \/ phase = "planned" /\ GoTo("snap")
       \/ phase = "snapshotted" /\ GoTo("apply")
       \/ phase = "applied" /\ GoTo("restore")
    /\ UNCHANGED <<nodeVars, want, snap, phase, iface, pend, minFirst>>

-----------------------------------------------------------------------------
(* CpuSysfs::read: node_path and raw_node *)

(* node_path of Boost(None): the first boost file that exists. *)
FoundBoost ==
    CASE reg["boost"] # None -> "boost"
      [] reg["boost"] = None /\ reg["no_turbo"] # None -> "no_turbo"
      [] OTHER -> None

ReadFirst ==
    /\ at # "idle" /\ step = "a"
    /\ step' = "b"
    /\ LET first == IF node = "frequency" THEN reg["min"]
                    ELSE IF at \in Pinned THEN iface ELSE FoundBoost
       IN  first # None /\ got' = [got EXCEPT !.a = first]
    /\ UNCHANGED <<nodeVars, want, snap, phase, at, iface, pend, minFirst>>

ReadSecond ==
    /\ at # "idle" /\ step = "b"
    /\ step' = "id"
    /\ LET second == CASE node = "frequency" -> reg["max"]
                       [] node = "boost"     -> reg[got.a]
                       [] node = "scalar"    -> reg["value"]
       IN  second # None /\ got' = [got EXCEPT !.b = second]
    /\ UNCHANGED <<nodeVars, want, snap, phase, at, iface, pend, minFirst>>

(* directory_identity and node_identity of what is there now: which file,   *)
(* and which of its generations.                                            *)
Identity ==
    LET r == CASE node = "frequency" -> "min"
               [] node = "boost"     -> got.a
               [] node = "scalar"    -> "value"
    IN  [file |-> r, gen |-> gen[r]]

(* What an error of the running step means for the call. *)
OnError ==
    CASE at \in {"snap", "restore", "restoreWrite", "restoreCheck"} -> Return(phase)
      [] at \in {"apply", "valid"} -> Return("refused")
      [] at \in {"write", "after"} ->
           /\ GoTo("fix")
           /\ pend' = {}
           /\ UNCHANGED <<phase, iface, minFirst>>
      [] at \in {"fix", "fixWrite", "fixCheck"} -> Return("unknown")

(* Any file access fails, or finds the file gone. *)
ReadFails ==
    /\ at # "idle" /\ step # "w"
    /\ OnError
    /\ UNCHANGED <<nodeVars, want, snap>>

-----------------------------------------------------------------------------
(* validate_state: a value that already is the desired one, or a range      *)
(* upside down (a read torn by another writer), is refused.  The plan's     *)
(* precondition is the value captured; a node that differs from it is       *)
(* refused as well.                                                         *)
Capturable(v) ==
    /\ node = "frequency" => v[1] <= v[2]
    /\ Effective(want, v) # v

(* snapshot_internal *)
SnapshotTaken ==
    /\ at = "snap" /\ step = "id"
    /\ IF Capturable(Typed(got))
       THEN snap' = [v |-> Typed(got), id |-> Identity] /\ Return("snapshotted")
       ELSE UNCHANGED snap /\ Return(phase)
    /\ UNCHANGED <<nodeVars, want>>

StartWrite(stage, file) ==
    /\ iface' = file
    /\ IF node = "frequency"
       THEN GoTo(stage) /\ UNCHANGED pend
       ELSE /\ at' = stage /\ step' = "w" /\ got' = got
            /\ pend' = IF node = "boost" THEN {file} ELSE {"value"}

(* apply_internal: identity and precondition are compared, then the desired *)
(* value is validated, for a frequency against a second read.               *)
ApplyChecked ==
    /\ at = "apply" /\ step = "id"
    /\ IF Identity = snap.id /\ Typed(got) = snap.v
       THEN /\ IF node = "frequency"
               THEN GoTo("valid") /\ UNCHANGED <<iface, pend>>
               ELSE StartWrite("write", got.a)
            /\ UNCHANGED <<phase, minFirst>>
       ELSE Return("refused")
    /\ UNCHANGED <<nodeVars, want, snap>>

Validated ==
    /\ at = "valid" /\ step = "id"
    /\ IF Admissible(want, Typed(got))
       THEN StartWrite("write", None) /\ UNCHANGED <<phase, minFirst>>
       ELSE Return("refused")
    /\ UNCHANGED <<nodeVars, want, snap>>

(* The value the running write is to establish. *)
Target == IF at = "write" THEN want ELSE snap.v

(* write_frequency after its own read of the range. *)
WritePlanned ==
    /\ at \in WriteStages /\ step = "id"
    /\ LET cur == Typed(got)
           full == Effective(Target, cur)
       IN  IF full[1] > full[2]
           THEN OnError
           ELSE /\ pend' = ToWrite(Target, cur)
                /\ minFirst' = LowersPastMin(Target, cur)
                /\ step' = "w"
                /\ UNCHANGED <<phase, at, got, iface>>
    /\ UNCHANGED <<nodeVars, want, snap>>

(* The next file of the running write. *)
NextFile ==
    IF node = "frequency"
    THEN IF "min" \in pend /\ (minFirst \/ "max" \notin pend) THEN "min" ELSE "max"
    ELSE CHOOSE r \in pend : TRUE

Writer == IF at = "write" THEN "apply" ELSE "restore"

Stored == /\ reg' = [reg EXCEPT ![NextFile] = Content(NextFile, Target)]
          /\ by' = [by EXCEPT ![NextFile] = Writer]

WriteFile ==
    /\ step = "w" /\ pend # {}
    /\ reg[NextFile] # None
    /\ Stored
    /\ pend' = pend \ {NextFile}
    /\ UNCHANGED <<gen, want, snap, phase, at, step, got, iface, minFirst>>

(* The store callback refuses, possibly after it took the value. *)
WriteFails ==
    /\ step = "w" /\ pend # {}
    /\ \/ UNCHANGED <<reg, by>>
       \/ reg[NextFile] # None /\ Stored
    /\ OnError
    /\ UNCHANGED <<gen, want, snap>>

(* The write is through: apply, its undo and restore all read back. *)
WriteDone ==
    /\ step = "w" /\ pend = {}
    /\ GoTo(CASE at = "write" -> "after"
              [] at = "fixWrite" -> "fixCheck"
              [] at = "restoreWrite" -> "restoreCheck")
    /\ UNCHANGED <<nodeVars, want, snap, phase, iface, pend, minFirst>>

(* Slip: a readback that differs is an error like any other. *)
ReadBackRefuses ==
    /\ at = "after" /\ step = "id"
    /\ IF Identity = snap.id /\ Typed(got) = Effective(want, snap.v)
       THEN Return("applied")
       ELSE Return("refused")
    /\ UNCHANGED <<nodeVars, want, snap>>

(* The readback of apply: a receipt, or the undo. *)
ReadBack ==
    /\ at = "after" /\ step = "id"
    /\ IF Identity = snap.id /\ Typed(got) = Effective(want, snap.v)
       THEN Return("applied")
       ELSE OnError
    /\ UNCHANGED <<nodeVars, want, snap>>

(* restore_after_failed_apply: only the identity is compared before the     *)
(* original is written.                                                     *)
FixChecked ==
    /\ at = "fix" /\ step = "id"
    /\ IF Identity = snap.id
       THEN StartWrite("fixWrite", got.a) /\ UNCHANGED <<phase, minFirst>>
       ELSE Return("unknown")
    /\ UNCHANGED <<nodeVars, want, snap>>

FixProven ==
    /\ at = "fixCheck" /\ step = "id"
    /\ Return(IF Identity = snap.id /\ Typed(got) = snap.v THEN "undone" ELSE "unknown")
    /\ UNCHANGED <<nodeVars, want, snap>>

(* restore_internal: identity, then ownership, then the write. *)
RestoreChecked ==
    /\ at = "restore" /\ step = "id"
    /\ IF Identity = snap.id /\ Typed(got) = Effective(want, snap.v)
       THEN StartWrite("restoreWrite", got.a) /\ UNCHANGED <<phase, minFirst>>
       ELSE Return(phase)
    /\ UNCHANGED <<nodeVars, want, snap>>

RestoreProven ==
    /\ at = "restoreCheck" /\ step = "id"
    /\ Return(IF Identity = snap.id /\ Typed(got) = snap.v THEN "restored" ELSE phase)
    /\ UNCHANGED <<nodeVars, want, snap>>

-----------------------------------------------------------------------------
(* Other programs write a file, and drivers come and go: a policy directory *)
(* is created anew, a boost file disappears or appears.                     *)
OtherWrite ==
    /\ others
    /\ \E r \in Registers, c \in Contents :
         /\ reg[r] # None
         /\ reg' = [reg EXCEPT ![r] = c]
         /\ by' = [by EXCEPT ![r] = "host"]
         /\ node = "frequency" => reg'["min"] <= reg'["max"]
    /\ UNCHANGED <<gen, want, snap, phase, at, step, got, iface, pend, minFirst>>

OtherReplace ==
    /\ others
    /\ \E set \in IF node = "frequency" THEN {Registers} ELSE {{r} : r \in Registers} :
         /\ \A r \in set : gen[r] < MaxGen
         /\ gen' = [r \in Registers |-> IF r \in set THEN gen[r] + 1 ELSE gen[r]]
         /\ by' = [r \in Registers |-> IF r \in set THEN "host" ELSE by[r]]
         /\ reg' \in [Registers -> Contents \cup {None}]
         /\ \A r \in Registers \ set : reg'[r] = reg[r]
         /\ node = "scalar" => reg'["value"] # None
         /\ node = "frequency" =>
              /\ reg'["min"] # None /\ reg'["max"] # None
              /\ reg'["min"] <= reg'["max"]
    /\ UNCHANGED <<want, snap, phase, at, step, got, iface, pend, minFirst>>

Next ==
    /\ UNCHANGED kindVars
    /\ \/ Call
       \/ ReadFirst \/ ReadSecond \/ ReadFails
       \/ SnapshotTaken \/ ApplyChecked \/ Validated
       \/ WritePlanned \/ WriteFile \/ WriteFails \/ WriteDone
       \/ ReadBack \/ FixChecked \/ FixProven \/ RestoreChecked \/ RestoreProven
       \/ OtherWrite \/ OtherReplace

Spec == Init /\ [][Next]_vars

-----------------------------------------------------------------------------
(* Type invariant of the CPU backend's state: the files, the captured       *)
(* snapshot and the locals of the running call.                             *)
TypeOK ==
    /\ node \in {"frequency", "boost", "scalar"}
    /\ others \in BOOLEAN
    /\ reg \in [Registers -> Contents \cup {None}]
    /\ gen \in [Registers -> 1..MaxGen]
    /\ by \in [Registers -> {"host", "apply", "restore"}]
    /\ want \in Desirable
    /\ phase \in Phases
    /\ at \in Stages \cup {"idle"}
    /\ step \in {"a", "b", "id", "w"}
    /\ pend \subseteq Registers
    /\ minFirst \in BOOLEAN

(* The kernel never sees an invalid range: with nobody else writing, after  *)
(* every single file write of write_frequency, whichever call runs it and   *)
(* whichever write failed before, the minimum is not above the maximum.     *)
RangeValid ==
    node = "frequency" /\ ~others => reg["min"] <= reg["max"]

(* Files that hold a value apply put there, other than the original.        *)
InPlace == {r \in Registers :
              by[r] = "apply" /\ reg[r] # None /\ reg[r] # Content(r, snap.v)}

(* A write of apply is in place between calls only when the engine was told *)
(* so: by a receipt, or by an error of unknown result.  After a known error *)
(* of apply and after a restore receipt nothing of the session is left,     *)
(* other programs writing and replacing files in between or not.            *)
WritesAreReported ==
    at = "idle" /\ phase \notin {"applied", "unknown"} => InPlace = {}
=============================================================================
