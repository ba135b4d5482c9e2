---------------------------- MODULE RecordCodec ----------------------------
(***************************************************************************)
(* The closed binary format of a session record: SessionRecord::encode and *)
(* decode of sysboost-core/src/transaction.rs, the constructors of         *)
(* sysboost-core/src/mutation.rs that every decoded value passes again,    *)
(* and the checks that surround the payload.  A record is written, the     *)
(* file may be rewritten by something else, and a restarted helper reads   *)
(* it.                                                                     *)
(*                                                                         *)
(* A file is a sequence of fields [w, v]: the width in bytes and the value *)
(* (a text is its length and a number that stands for its content, zero    *)
(* for one with a NUL byte).  What the encoder writes and what the decoder *)
(* reads are two separate descriptions, as they are two separate functions *)
(* in the code; Enc and Dec interpret them.  An absent option is <<>>.     *)
(***************************************************************************)
EXTENDS Integers, SequencesExt

CONSTANTS
    MaxOperations,   \* MAX_OPERATIONS, MAX_TARGETS
    MaxTransitions,  \* MAX_TRANSITIONS
    MaxFailures,     \* MAX_FAILURES
    MaxList,         \* MAX_DEPENDENCIES
    MaxEdits         \* bound: changes to the file

VARIABLES rec, file, phase, edits, out

vars == <<rec, file, phase, edits, out>>

(* The lifecycle tables and the shapes of one operation. *)
Life == INSTANCE SessionRecord WITH NumOps <- 1, Values <- {0}, Desired <- 0

MaxStringBytes == 4096
MaxReasonBytes == 1024
MaxPreimage == 4096
MaxRecordBytes == 1048576
Top == 2147483647     \* stands for the largest value of a wide field

-----------------------------------------------------------------------------
(* Constructors of mutation.rs and ids.rs: the values each type admits *)

Limits ==
    [CpuWeight |-> 1..10000, IoWeight |-> 1..10000, Uclamp |-> 0..1024,
     CpuPeriod |-> 1000..1000000, Quota |-> 1..Top, Frequency |-> 1..Top,
     Power |-> 1..Top, Nice |-> -20..19, Level |-> 0..7, Pid |-> 1..Top,
     Any |-> 0..Top, Signed |-> -Top..Top,
     Name |-> 1..64, Identifier |-> 1..128, Reason |-> 1..MaxReasonBytes,
     Raw |-> 0..MaxPreimage]

(* MutationKind::typed_value *)
TypedValue(k) ==
    CASE k[1] = "CpuGovernor" -> <<"Governor", k[3]>>
      [] k[1] = "CpuEnergyPreference" -> <<"EnergyPreference", k[3]>>
      [] k[1] \in {"CgroupUclampMin", "CgroupUclampMax"} -> <<"CgroupUclamp", k[3]>>
      [] k[1] = "CgroupWorkload" -> <<"CgroupLifecycle", "Workload", k[3], 1>>
      [] k[1] = "CgroupBackground" -> <<"CgroupLifecycle", "ConservativeBackground", k[3], 1>>
      [] k[1] = "ProcessNice" -> <<"Nice", k[3]>>
      [] k[1] = "ProcessIoPriority" -> <<"IoPriority", k[3]>>
      [] k[1] \in {"CpuBoost", "PlatformProfile", "RuntimeSysctl"} -> k
      [] OTHER -> <<k[1]>> \o SubSeq(k, 3, Len(k))

(* MutationKind::validate *)
ValidKind(k) ==
    /\ k[1] = "CpuFrequency" =>
         /\ k[3] # <<>> \/ k[4] # <<>>
         /\ k[3] # <<>> /\ k[4] # <<>> => k[3][1] <= k[4][1]
    /\ k[1] = "CgroupUclampMin" => k[3] # <<"Max">>

(* PlannedMutation::new on id, capability, target, kind, desired,            *)
(* precondition, equality, dependencies.                                     *)
ValidMutation(m) ==
    /\ ValidKind(m[4])
    /\ TypedValue(m[4]) = m[5]
    /\ \A i \in DOMAIN m[8] : m[8][i] # m[1]

(* Slip: the text is cut one byte too late. *)
FailureRecordLong(message) ==
    [len |-> IF message.len > MaxReasonBytes THEN MaxReasonBytes + 1 ELSE message.len,
     name |-> message.name]

(* FailureRecord::from_error: a long message is cut at the last character    *)
(* boundary that fits.                                                       *)
FailureRecord(message) ==
    [len |-> IF message.len > MaxReasonBytes THEN MaxReasonBytes - message.over ELSE message.len,
     name |-> message.name]

-----------------------------------------------------------------------------
(* Field descriptions *)

Num(w, limits) == [t |-> "num", w |-> w, in |-> limits]
U8 == Num(1, "Any")
U32 == Num(4, "Any")
U64 == Num(8, "Any")
I64 == Num(8, "Signed")
Id == Num(16, "Any")
Fingerprint == Num(32, "Any")
Text(max, limits) == [t |-> "text", max |-> max, in |-> limits]
Enum(w, table) == [t |-> "enum", w |-> w, table |-> table]
Opt(f) == [t |-> "opt", of |-> f]
Flag == [t |-> "flag"]
List(f, max) == [t |-> "list", of |-> f, max |-> max]
Fields(fs) == [t |-> "fields", of |-> fs]
Variant(table) == [t |-> "variant", of |-> table]
Canonical(f) == [t |-> "set", of |-> f]
Checked(f) == [t |-> "mutation", of |-> f]

-----------------------------------------------------------------------------
(* Encoding: tables from names to tags *)

SessionStateTag ==
    [New |-> 0, Detected |-> 1, Planned |-> 2, Snapshotted |-> 3,
     IntentDurable |-> 4, Applying |-> 5, Active |-> 6, Restoring |-> 7,
     Restored |-> 8, RollingBack |-> 9, Degraded |-> 10, RecoveryPending |-> 11]

OperationStateTag ==
    [Planned |-> 0, Snapshotted |-> 1, IntentRecorded |-> 2, Applying |-> 3,
     Applied |-> 4, Verified |-> 5, Restoring |-> 6, Restored |-> 7,
     Failed |-> 8, RestoreFailed |-> 9]

EqualityTag == [ByteExact |-> 0, ScalarExact |-> 1, SetExact |-> 2]

StageTag ==
    [Detect |-> 0, Plan |-> 1, Snapshot |-> 2, DurableIntent |-> 3, Apply |-> 4,
     Verify |-> 5, Restore |-> 6, Recovery |-> 7, Transport |-> 8, Config |-> 9]

ErrorCodeTag ==
    [ConfigError |-> 1, CapabilityError |-> 2, Unsupported |-> 3,
     AuthorizationError |-> 4, TargetError |-> 5, PlanningError |-> 6,
     SnapshotError |-> 7, DurabilityError |-> 8, TransportError |-> 9,
     ApplyError |-> 10, VerificationError |-> 11, RestoreConflict |-> 12,
     RestoreError |-> 13, JournalCorrupt |-> 14, InvariantViolation |-> 15,
     InvalidInput |-> 16]

EnergyTag == [Performance |-> 0, BalancePerformance |-> 1, BalancePower |-> 2, Power |-> 3]
BoostTag == [Enabled |-> 0, Disabled |-> 1]
GpuProfileTag == [Performance |-> 0, Balanced |-> 1, PowerSave |-> 2]
GroupKindTag == [Workload |-> 0, ConservativeBackground |-> 1]
IoClassTag == [None |-> 0, BestEffort |-> 1, Idle |-> 2]

EncString == Text(MaxStringBytes, "Any")
EncFrequency == Opt(U64)
EncCgroup == Fields(<<U64, U64, EncString>>)
EncProcess == Fields(<<U32, U64>>)
EncUclamp == Variant([Value |-> <<0, Num(2, "Any")>>, Max |-> <<1>>])
EncQuota == Variant([Max |-> <<0>>, Micros |-> <<1, U64>>])
EncIoprio == Fields(<<Enum(1, IoClassTag), U8>>)
EncCpuset == List(U32, MaxList)

EncMutationKind == Variant(
    [CpuFrequency          |-> <<0, U32, EncFrequency, EncFrequency>>,
     CpuGovernor           |-> <<1, U32, EncString>>,
     CpuEnergyPreference   |-> <<2, U32, Enum(1, EnergyTag)>>,
     CpuBoost              |-> <<10, Enum(1, BoostTag)>>,
     PlatformProfile       |-> <<11, EncString>>,
     CgroupCpuWeight       |-> <<3, EncCgroup, Num(2, "Any")>>,
     CgroupCpuMax          |-> <<4, EncCgroup, EncQuota, U64>>,
     CgroupCpuset          |-> <<5, EncCgroup, EncCpuset>>,
     CgroupIoWeight        |-> <<12, EncCgroup, Num(2, "Any")>>,
     CgroupUclampMin       |-> <<13, EncCgroup, EncUclamp>>,
     CgroupUclampMax       |-> <<14, EncCgroup, EncUclamp>>,
     CgroupWorkload        |-> <<15, EncCgroup, EncString>>,
     CgroupBackground      |-> <<16, EncCgroup, EncString>>,
     ProcessPlacement      |-> <<17, EncProcess, EncCgroup>>,
     ProcessNice           |-> <<18, EncProcess, I64>>,
     ProcessIoPriority     |-> <<19, EncProcess, EncIoprio>>,
     GpuPerformanceProfile |-> <<6, U32, Enum(1, GpuProfileTag)>>,
     GpuPowerLimit         |-> <<7, U32, U32>>,
     IrqAffinity           |-> <<8, U32, EncCpuset>>,
     RuntimeSysctl         |-> <<9, Enum(1, [SchedulerUtilClamping |-> 0]), I64>>])

EncTypedValue == Variant(
    [CpuFrequency          |-> <<0, EncFrequency, EncFrequency>>,
     Governor              |-> <<1, EncString>>,
     EnergyPreference      |-> <<2, Enum(1, EnergyTag)>>,
     CpuBoost              |-> <<10, Enum(1, BoostTag)>>,
     PlatformProfile       |-> <<11, EncString>>,
     CgroupCpuWeight       |-> <<3, Num(2, "Any")>>,
     CgroupCpuMax          |-> <<4, EncQuota, U64>>,
     CgroupCpuset          |-> <<5, EncCpuset>>,
     CgroupIoWeight        |-> <<12, Num(2, "Any")>>,
     CgroupUclamp          |-> <<13, EncUclamp>>,
     CgroupLifecycle       |-> <<14, Enum(1, GroupKindTag), EncString, Flag>>,
     ProcessPlacement      |-> <<15, EncCgroup>>,
     Nice                  |-> <<16, I64>>,
     IoPriority            |-> <<17, EncIoprio>>,
     GpuPerformanceProfile |-> <<6, Enum(1, GpuProfileTag)>>,
     GpuPowerLimit         |-> <<7, U32>>,
     IrqAffinity           |-> <<8, EncCpuset>>,
     RuntimeSysctl         |-> <<9, Enum(1, [SchedulerUtilClamping |-> 0]), I64>>])

EncMutation == Fields(<<U32, EncString, EncString, EncMutationKind, EncTypedValue,
                        Fingerprint, Enum(1, EqualityTag), List(U32, MaxList)>>)
EncSnapshot == Fields(<<U32, EncString, [t |-> "bytes"], EncTypedValue, Fingerprint,
                        Enum(1, EqualityTag), Id, Id>>)
EncApplyReceipt == Fields(<<U32, Fingerprint, Fingerprint, Fingerprint>>)
EncVerification == Fields(<<U32, Fingerprint, Opt(Fingerprint), Flag>>)
EncRestoreReceipt == Fields(<<U32, Fingerprint, Flag>>)
EncFailure == Fields(<<Enum(2, ErrorCodeTag), Enum(1, StageTag), Opt(U32),
                       Text(MaxReasonBytes, "Any")>>)
EncOperation == Fields(<<EncMutation, Enum(1, OperationStateTag), Opt(EncSnapshot),
                         Opt(EncApplyReceipt), Opt(EncVerification),
                         Opt(EncRestoreReceipt), Opt(EncFailure)>>)
EncTransition == Fields(<<U64, Id, Enum(1, SessionStateTag), Enum(1, SessionStateTag), Id,
                          Text(MaxReasonBytes, "Any")>>)
EncSession == Fields(<<Id, Id, Fingerprint, Id, Enum(1, SessionStateTag),
                       List(EncString, MaxOperations)>>)
EncRecord == Fields(<<EncSession, List(EncOperation, MaxOperations),
                      List(EncTransition, MaxTransitions), List(EncFailure, MaxFailures)>>)

-----------------------------------------------------------------------------
(* Decoding: the same tables read the other way, tag 0 first *)

SessionStateOf ==
    <<"New", "Detected", "Planned", "Snapshotted", "IntentDurable", "Applying", "Active",
      "Restoring", "Restored", "RollingBack", "Degraded", "RecoveryPending">>
OperationStateOf ==
    <<"Planned", "Snapshotted", "IntentRecorded", "Applying", "Applied", "Verified",
      "Restoring", "Restored", "Failed", "RestoreFailed">>
EqualityOf == <<"ByteExact", "ScalarExact", "SetExact">>
StageOf == <<"Detect", "Plan", "Snapshot", "DurableIntent", "Apply", "Verify", "Restore",
             "Recovery", "Transport", "Config">>
(* No error code has tag 0. *)
ErrorCodeOf ==
    <<"none", "ConfigError", "CapabilityError", "Unsupported", "AuthorizationError",
      "TargetError", "PlanningError", "SnapshotError", "DurabilityError", "TransportError",
      "ApplyError", "VerificationError", "RestoreConflict", "RestoreError",
      "JournalCorrupt", "InvariantViolation", "InvalidInput">>
EnergyOf == <<"Performance", "BalancePerformance", "BalancePower", "Power">>
BoostOf == <<"Enabled", "Disabled">>
GpuProfileOf == <<"Performance", "Balanced", "PowerSave">>
GroupKindOf == <<"Workload", "ConservativeBackground">>
IoClassOf == <<"None", "BestEffort", "Idle">>

DecString(limits) == Text(MaxStringBytes, limits)
DecFrequency == Opt(Num(8, "Frequency"))
DecCgroup == Fields(<<U64, U64, DecString("Identifier")>>)
DecProcess == Fields(<<Num(4, "Pid"), Num(8, "Pid")>>)
DecUclamp == Variant(<< <<"Value", Num(2, "Uclamp")>>, <<"Max">> >>)
DecQuota == Variant(<< <<"Max">>, <<"Micros", Num(8, "Quota")>> >>)
DecIoprio == Fields(<<Enum(1, IoClassOf), Num(1, "Level")>>)
DecCpuset == Canonical(List(U32, MaxList))

DecMutationKind == Variant(
    << <<"CpuFrequency", U32, DecFrequency, DecFrequency>>,
       <<"CpuGovernor", U32, DecString("Name")>>,
       <<"CpuEnergyPreference", U32, Enum(1, EnergyOf)>>,
       <<"CgroupCpuWeight", DecCgroup, Num(2, "CpuWeight")>>,
       <<"CgroupCpuMax", DecCgroup, DecQuota, Num(8, "CpuPeriod")>>,
       <<"CgroupCpuset", DecCgroup, DecCpuset>>,
       <<"GpuPerformanceProfile", U32, Enum(1, GpuProfileOf)>>,
       <<"GpuPowerLimit", U32, Num(4, "Power")>>,
       <<"IrqAffinity", U32, DecCpuset>>,
       <<"RuntimeSysctl", Enum(1, <<"SchedulerUtilClamping">>), I64>>,
       <<"CpuBoost", Enum(1, BoostOf)>>,
       <<"PlatformProfile", DecString("Name")>>,
       <<"CgroupIoWeight", DecCgroup, Num(2, "IoWeight")>>,
       <<"CgroupUclampMin", DecCgroup, DecUclamp>>,
       <<"CgroupUclampMax", DecCgroup, DecUclamp>>,
       <<"CgroupWorkload", DecCgroup, DecString("Name")>>,
       <<"CgroupBackground", DecCgroup, DecString("Name")>>,
       <<"ProcessPlacement", DecProcess, DecCgroup>>,
       <<"ProcessNice", DecProcess, Num(8, "Nice")>>,
       <<"ProcessIoPriority", DecProcess, DecIoprio>> >>)

DecTypedValue == Variant(
    << <<"CpuFrequency", DecFrequency, DecFrequency>>,
       <<"Governor", DecString("Name")>>,
       <<"EnergyPreference", Enum(1, EnergyOf)>>,
       <<"CgroupCpuWeight", Num(2, "CpuWeight")>>,
       <<"CgroupCpuMax", DecQuota, Num(8, "CpuPeriod")>>,
       <<"CgroupCpuset", DecCpuset>>,
       <<"GpuPerformanceProfile", Enum(1, GpuProfileOf)>>,
       <<"GpuPowerLimit", Num(4, "Power")>>,
       <<"IrqAffinity", DecCpuset>>,
       <<"RuntimeSysctl", Enum(1, <<"SchedulerUtilClamping">>), I64>>,
       <<"CpuBoost", Enum(1, BoostOf)>>,
       <<"PlatformProfile", DecString("Name")>>,
       <<"CgroupIoWeight", Num(2, "IoWeight")>>,
       <<"CgroupUclamp", DecUclamp>>,
       <<"CgroupLifecycle", Enum(1, GroupKindOf), DecString("Name"), Flag>>,
       <<"ProcessPlacement", DecCgroup>>,
       <<"Nice", Num(8, "Nice")>>,
       <<"IoPriority", DecIoprio>> >>)

DecMutation == Checked(Fields(
    <<U32, DecString("Identifier"), DecString("Identifier"), DecMutationKind, DecTypedValue,
      Fingerprint, Enum(1, EqualityOf), List(U32, MaxList)>>))
DecSnapshot == Fields(<<U32, DecString("Identifier"), [t |-> "bytes"], DecTypedValue,
                        Fingerprint, Enum(1, EqualityOf), Id, Id>>)
DecApplyReceipt == Fields(<<U32, Fingerprint, Fingerprint, Fingerprint>>)
DecVerification == Fields(<<U32, Fingerprint, Opt(Fingerprint), Flag>>)
DecRestoreReceipt == Fields(<<U32, Fingerprint, Flag>>)
DecFailure == Fields(<<Enum(2, ErrorCodeOf), Enum(1, StageOf), Opt(U32),
                       Text(MaxReasonBytes, "Any")>>)
DecOperation == Fields(<<DecMutation, Enum(1, OperationStateOf), Opt(DecSnapshot),
                         Opt(DecApplyReceipt), Opt(DecVerification),
                         Opt(DecRestoreReceipt), Opt(DecFailure)>>)
DecTransition == Fields(<<U64, Id, Enum(1, SessionStateOf), Enum(1, SessionStateOf), Id,
                          Text(MaxReasonBytes, "Any")>>)
DecSession == Fields(<<Id, Id, Fingerprint, Id, Enum(1, SessionStateOf),
                       List(DecString("Identifier"), MaxOperations)>>)
DecRecord == Fields(<<DecSession, List(DecOperation, MaxOperations),
                      List(DecTransition, MaxTransitions), List(DecFailure, MaxFailures)>>)

-----------------------------------------------------------------------------
(* Encoder and Decoder.  A field the encoder refuses becomes Bad, which      *)
(* makes the whole encoding fail.                                            *)

Bad == [w |-> 0, v |-> -1]

RECURSIVE Enc(_, _)
Enc(f, v) ==
    CASE f.t = "num" -> <<[w |-> f.w, v |-> v]>>
      [] f.t = "flag" -> <<[w |-> 1, v |-> v]>>
      [] f.t = "enum" -> <<[w |-> f.w, v |-> f.table[v]]>>
      [] f.t = "bytes" -> <<[w |-> 4, v |-> v.len], [w |-> v.len, v |-> v.name]>>
      [] f.t = "text" -> IF v.len \in 1..f.max /\ v.name # 0
                         THEN <<[w |-> 4, v |-> v.len], [w |-> v.len, v |-> v.name]>>
                         ELSE <<Bad>>
      [] f.t = "opt" -> <<[w |-> 1, v |-> Len(v)]>>
                        \o FlattenSeq([i \in DOMAIN v |-> Enc(f.of, v[i])])
      [] f.t = "list" -> <<IF Len(v) <= f.max THEN [w |-> 4, v |-> Len(v)] ELSE Bad>>
                         \o FlattenSeq([i \in DOMAIN v |-> Enc(f.of, v[i])])
      [] f.t = "fields" -> FlattenSeq([i \in DOMAIN f.of |-> Enc(f.of[i], v[i])])
      [] f.t = "variant" ->
            LET arm == f.of[v[1]]
            IN  <<[w |-> 1, v |-> arm[1]]>>
                \o FlattenSeq([i \in 1..(Len(arm) - 1) |-> Enc(arm[i + 1], v[i + 1])])

No == [ok |-> FALSE]
Yes(v, rest) == [ok |-> TRUE, v |-> v, rest |-> rest]

(* Decoder::take: the next field has this width. *)
Next1(s, w) == s # <<>> /\ s[1].w = w

RECURSIVE Dec(_, _)
Dec(f, s) ==
    LET Each(fs, from) ==
            LET d[i \in 0..Len(fs)] ==
                    IF i = 0 THEN Yes(<<>>, from)
                    ELSE LET before == d[i - 1]
                         IN  IF ~before.ok THEN No
                             ELSE LET e == Dec(fs[i], before.rest)
                                  IN  IF e.ok THEN Yes(Append(before.v, e.v), e.rest) ELSE No
            IN  d[Len(fs)]
        Sized(max, limits) ==
            IF /\ Next1(s, 4) /\ s[1].v <= max /\ Next1(Tail(s), s[1].v)
               /\ s[1].v \in Limits[limits]
            THEN Yes([len |-> s[1].v, name |-> s[2].v], SubSeq(s, 3, Len(s)))
            ELSE No
    IN  CASE f.t = "num" -> IF Next1(s, f.w) /\ s[1].v \in Limits[f.in]
                            THEN Yes(s[1].v, Tail(s)) ELSE No
          [] f.t = "flag" -> IF Next1(s, 1)
                             THEN Yes(IF s[1].v = 0 THEN 0 ELSE 1, Tail(s)) ELSE No
          [] f.t = "enum" -> IF Next1(s, f.w) /\ s[1].v + 1 \in DOMAIN f.table
                                /\ f.table[s[1].v + 1] # "none"
                             THEN Yes(f.table[s[1].v + 1], Tail(s)) ELSE No
          [] f.t = "bytes" -> Sized(MaxPreimage, "Raw")
          [] f.t = "text" -> LET d == Sized(f.max, f.in)
                             IN  IF d.ok THEN IF d.v.len > 0 /\ d.v.name # 0 THEN d ELSE No ELSE No
          [] f.t = "opt" -> IF ~Next1(s, 1) THEN No
                            ELSE IF s[1].v = 0 THEN Yes(<<>>, Tail(s))
                            ELSE Each(<<f.of>>, Tail(s))
          [] f.t = "list" -> IF Next1(s, 4) /\ s[1].v <= f.max
                             THEN Each([i \in 1..s[1].v |-> f.of], Tail(s)) ELSE No
          [] f.t = "set" -> LET d == Dec(f.of, s)
                            IN  IF ~d.ok \/ (d.ok /\ d.v = <<>>) THEN No
                                ELSE Yes(SetToSortSeq(ToSet(d.v), <), d.rest)
          [] f.t = "fields" -> Each(f.of, s)
          [] f.t = "mutation" -> LET d == Dec(f.of, s)
                                 IN  IF d.ok THEN IF ValidMutation(d.v) THEN d ELSE No ELSE No
          [] f.t = "variant" ->
                IF ~Next1(s, 1) \/ ~(s[1].v + 1 \in DOMAIN f.of) THEN No
                ELSE LET arm == f.of[s[1].v + 1]
                         d == Each(Tail(arm), Tail(s))
                     IN  IF d.ok THEN Yes(<<arm[1]>> \o d.v, d.rest) ELSE No

-----------------------------------------------------------------------------
(* SessionRecord::encode and SessionRecord::decode.  A record is             *)
(* <<session, operations, transitions, failures>>.                           *)

ValidTransitions(session, transitions) ==
    \A i \in DOMAIN transitions :
        /\ transitions[i][1] = i
        /\ transitions[i][2] = session[1]
        /\ transitions[i][3] = IF i = 1 THEN "New" ELSE transitions[i - 1][4]
        /\ Life!SessionCanTransition(transitions[i][3], transitions[i][4])

(* What every part of an operation <<mutation, state, snapshot, apply,       *)
(* verification, restore, failure>> has to agree with: the mutation, and the *)
(* part before it.                                                           *)
BoundParts(mutation, snapshot, apply, verification, restore) ==
    /\ \A k \in DOMAIN snapshot :
          /\ snapshot[k][1] = mutation[1]
          /\ snapshot[k][2] = mutation[3]
          /\ snapshot[k][6] = mutation[7]
          /\ snapshot[k][5] = mutation[6]
          /\ snapshot[k][7] # 0
    /\ \A k \in DOMAIN apply :
          /\ apply[k][1] = mutation[1]
          /\ snapshot # <<>>
          /\ apply[k][2] = mutation[6]
          /\ apply[k][3] = apply[k][4]
    /\ \A k \in DOMAIN verification :
          /\ verification[k][1] = mutation[1]
          /\ apply # <<>>
          /\ verification[k][2] = apply[1][4]
          /\ (verification[k][4] = 1) = (verification[k][3] = <<verification[k][2]>>)
    /\ \A k \in DOMAIN restore :
          /\ restore[k][1] = mutation[1]
          /\ snapshot # <<>> /\ apply # <<>>
          /\ restore[k][3] = 1
          /\ restore[k][2] = snapshot[1][5]

(* The operation as SessionRecord keeps it. *)
Shape(o) ==
    [state    |-> o[2],
     receipt  |-> IF o[4] = <<>> THEN "none" ELSE "bound",
     verif    |-> IF o[5] = <<>> THEN "none" ELSE IF o[5][1][4] = 1 THEN "matched" ELSE "mismatched",
     restored |-> o[6] # <<>>]

(* validate_operation_record: an operation without a snapshot is Planned and *)
(* has no receipt; the shapes of the others are those of SessionRecord.      *)
ValidOperationRecord(o) ==
    /\ BoundParts(o[1], o[3], o[4], o[5], o[6])
    /\ IF o[3] = <<>> THEN o[2] = "Planned" /\ o[4] = <<>> /\ o[5] = <<>> /\ o[6] = <<>>
                      ELSE Life!ValidOperation(Shape(o))

(* validate_for_serialization *)
Validates(r) ==
    LET session == r[1] operations == r[2] transitions == r[3]
    IN  /\ Len(operations) \in 1..MaxOperations
        /\ Len(transitions) <= MaxTransitions
        /\ Len(r[4]) <= MaxFailures
        /\ Len(session[6]) = Len(operations)
        /\ \A i, j \in DOMAIN operations : i # j => operations[i][1][1] # operations[j][1][1]
        /\ \A i \in DOMAIN operations :
              ValidOperationRecord(operations[i]) /\ session[6][i] = operations[i][1][3]
        /\ ValidTransitions(session, transitions)
        /\ session[5] = IF transitions = <<>> THEN "New" ELSE Last(transitions)[4]

Size(s) ==
    LET upto[i \in 0..Len(s)] == IF i = 0 THEN 0 ELSE upto[i - 1] + s[i].w
    IN  upto[Len(s)]

(* The checksum is taken to tell any two payloads apart. *)
Encode(r) ==
    LET payload == Enc(EncRecord, r)
    IN  IF Validates(r) /\ Bad \notin ToSet(payload) /\ 46 + Size(payload) <= MaxRecordBytes
        THEN [magic |-> "SYSBST01", version |-> 1, len |-> Size(payload),
              payload |-> payload, sum |-> payload]
        ELSE [magic |-> "refused"]

(* The checks around the payload. *)
Sealed(f) ==
    /\ 46 + Size(f.payload) <= MaxRecordBytes
    /\ f.magic = "SYSBST01"
    /\ f.version = 1
    /\ f.len = Size(f.payload)
    /\ f.sum = f.payload

(* Slip: what follows the last list is not looked at. *)
DecodeSlack(f) ==
    IF Sealed(f)
    THEN LET d == Dec(DecRecord, f.payload)
         IN  IF d.ok THEN IF Validates(d.v) THEN [ok |-> TRUE, rec |-> d.v] ELSE No ELSE No
    ELSE No

Decode(f) ==
    IF Sealed(f)
    THEN LET d == Dec(DecRecord, f.payload)
         IN  IF d.ok
             THEN IF d.rest = <<>> /\ Validates(d.v) THEN [ok |-> TRUE, rec |-> d.v] ELSE No
             ELSE No
    ELSE No

-----------------------------------------------------------------------------
(* The records: every kind of mutation at the limits of its fields, every    *)
(* original value, every combination of parts, every state.                  *)

Ends(limits) == LET s == Limits[limits] IN {CHOOSE x \in {-20, 0, 1, 1000} : x \in s /\ (x - 1) \notin s,
                                             CHOOSE x \in {7, 19, 64, 128, 1024, 4096, 10000, 1000000, Top} :
                                                x \in s /\ (x = Top \/ (x + 1) \notin s)}
Texts(limits) == [len : Ends(limits), name : {1, 2}]
ACgroup == <<3, 0, [len |-> 128, name |-> 1]>>
AProcess == {<<1, Top>>, <<Top, 1>>}
Cpusets == {<<0>>, <<0, 1, Top>>}
Frequencies == {<<>>, <<1>>, <<Top>>}
Uclamps == {<<"Max">>} \cup {<<"Value", n>> : n \in Ends("Uclamp")}

MutationKinds ==
    {k \in
        {<<"CpuFrequency", 0, a, b>> : a \in Frequencies, b \in Frequencies}
        \cup {<<"CpuGovernor", Top, g>> : g \in Texts("Name")}
        \cup {<<"CpuEnergyPreference", 0, e>> : e \in DOMAIN EnergyTag}
        \cup {<<"CpuBoost", b>> : b \in DOMAIN BoostTag}
        \cup {<<"PlatformProfile", p>> : p \in Texts("Name")}
        \cup {<<"CgroupCpuWeight", ACgroup, n>> : n \in Ends("CpuWeight")}
        \cup {<<"CgroupIoWeight", ACgroup, n>> : n \in Ends("IoWeight")}
        \cup {<<"CgroupCpuMax", ACgroup, q, n>> :
                q \in {<<"Max">>, <<"Micros", 1>>, <<"Micros", Top>>}, n \in Ends("CpuPeriod")}
        \cup {<<"CgroupCpuset", ACgroup, c>> : c \in Cpusets}
        \cup {<<k, ACgroup, u>> : k \in {"CgroupUclampMin", "CgroupUclampMax"}, u \in Uclamps}
        \cup {<<k, ACgroup, n>> : k \in {"CgroupWorkload", "CgroupBackground"}, n \in Texts("Name")}
        \cup {<<"ProcessPlacement", p, ACgroup>> : p \in AProcess}
        \cup {<<"ProcessNice", p, n>> : p \in AProcess, n \in Ends("Nice")}
        \cup {<<"ProcessIoPriority", p, <<c, l>> >> :
                p \in AProcess, c \in DOMAIN IoClassTag, l \in Ends("Level")}
        \cup {<<"GpuPerformanceProfile", 0, p>> : p \in DOMAIN GpuProfileTag}
        \cup {<<"GpuPowerLimit", 0, n>> : n \in Ends("Power")}
        \cup {<<"IrqAffinity", 9, c>> : c \in Cpusets}
        \cup {<<"RuntimeSysctl", "SchedulerUtilClamping", n>> : n \in {-Top, 0, Top}} :
     ValidKind(k)}

Originals == {TypedValue(k) : k \in MutationKinds}
             \cup {<<"CgroupLifecycle", g, [len |-> 64, name |-> 1], 0>> : g \in DOMAIN GroupKindTag}

ATarget == [len |-> 128, name |-> 7]
AReason == [len |-> MaxReasonBytes, name |-> 3]
AKind == <<"CpuBoost", "Disabled">>

(* Messages of errors; over counts the bytes a cut has to give back because  *)
(* the limit falls inside a character.                                       *)
Messages == [len : {1, MaxReasonBytes, MaxReasonBytes + 1}, over : 0..3, name : {5}]

Mutation(kind, equality, dependencies) ==
    <<1, ATarget, ATarget, kind, TypedValue(kind), 11, equality, dependencies>>
Snap(equality, value, raw) == <<1, ATarget, raw, value, 11, equality, 4, 9>>
AFailure(code, stage, about, message) == <<code, stage, about, FailureRecord(message)>>
AMessage == [len |-> 1, over |-> 0, name |-> 5]
PlainFailure == AFailure("ApplyError", "Apply", <<1>>, AMessage)

Receipt == <<1, 11, 12, 12>>
ReadBack(observed, matched) == <<1, 12, observed, matched>>
Proof == <<1, 11, 1>>
ASnap == Snap("SetExact", AKind, [len |-> 2, name |-> 4])

(* An operation on which the calls of SessionRecord have left these parts.   *)
Operation(state, snapshot, apply, verification, restore, failure) ==
    <<Mutation(AKind, "SetExact", <<>>), state, snapshot, apply, verification, restore, failure>>
Untouched(state) == Operation(state, <<>>, <<>>, <<>>, <<>>, <<>>)
Captured(state) == Operation(state, <<ASnap>>, <<>>, <<>>, <<>>, <<>>)
Held(state, verification, failure) ==
    Operation(state, <<ASnap>>, <<Receipt>>, verification, <<>>, failure)

(* Three journeys of a session: where it is, and its operation by then.      *)
Journeys ==
    LET start == << <<"Detected", Untouched("Planned")>>, <<"Planned", Captured("Snapshotted")>>,
                    <<"Snapshotted", Captured("Snapshotted")>>,
                    <<"IntentDurable", Captured("IntentRecorded")>> >>
        good == <<ReadBack(<<12>>, 1)>>
        lost == <<PlainFailure>>
    IN  {start \o << <<"Applying", Captured("Applying")>>, <<"Active", Held("Verified", good, <<>>)>>,
                      <<"Restoring", Held("Restoring", good, <<>>)>>,
                      <<"Degraded", Held("RestoreFailed", good, lost)>>,
                      <<"RecoveryPending", Held("RestoreFailed", good, lost)>>,
                      <<"Restoring", Held("Restoring", good, lost)>>,
                      <<"Restored", Operation("Restored", <<ASnap>>, <<Receipt>>, good, <<Proof>>, lost)>> >>,
         start \o << <<"RollingBack", Captured("IntentRecorded")>>,
                      <<"Restored", Captured("IntentRecorded")>> >>}
        \cup
        {start \o << <<"Applying", Held("Failed", bad, lost)>>,
                      <<"RollingBack", Held("Restoring", bad, lost)>>,
                      <<"Restored", Operation("Restored", <<ASnap>>, <<Receipt>>, bad, <<Proof>>, lost)>> >> :
           bad \in {<<ReadBack(<<>>, 0)>>, <<ReadBack(<<13>>, 0)>>}}

Transitions(journey, n) ==
    [i \in 1..n |-> <<i, 6, IF i = 1 THEN "New" ELSE journey[i - 1][1], journey[i][1], 8, AReason>>]

Record(operation, transitions, failures) ==
    << <<6, 2, 3, 8, IF transitions = <<>> THEN "New" ELSE Last(transitions)[4], <<ATarget>> >>,
       <<operation>>, transitions, failures>>

Options(x) == {<<>>, <<x>>}
Along(journey, n, operation) == Record(operation, Transitions(journey, n), <<>>)
ALong == CHOOSE j \in Journeys : Len(j) = 11

(* Records the calls of SessionRecord build from a backend's answers that    *)
(* agree with each other.                                                    *)
WritableRecords ==
    {Record(<<Mutation(k, "ScalarExact", d), "Planned", <<>>, <<>>, <<>>, <<>>, <<>> >>, <<>>, <<>>) :
        k \in MutationKinds, d \in {<<>>, <<2, Top>>}}
    \cup
    {Along(ALong, 2, <<Mutation(AKind, e, <<>>), "Snapshotted", <<Snap(e, v, raw)>>,
                       <<>>, <<>>, <<>>, <<>> >>) :
        e \in {"ByteExact", "ScalarExact"}, v \in Originals, raw \in [len : Ends("Raw"), name : {4}]}
    \cup
    {Along(ALong, 5, o) : o \in {Captured("Applying"), Held("Applied", <<>>, <<>>)}
                               \cup {Operation("Failed", <<ASnap>>, a, <<>>, <<>>, <<PlainFailure>>) :
                                        a \in Options(Receipt)}}
    \cup
    {Record(Untouched("Planned"), <<>>, <<AFailure(c, "Apply", <<>>, AMessage)>>) : c \in DOMAIN ErrorCodeTag}
    \cup
    {Record(Untouched("Planned"), <<>>, <<AFailure("ApplyError", stage, <<Top>>, AMessage)>>) :
        stage \in DOMAIN StageTag}
    \cup
    {Record(Untouched("Planned"), <<>>, <<AFailure("ApplyError", "Apply", <<>>, m)>>) : m \in Messages}
    \cup
    UNION {{Record(IF n = 0 THEN Untouched("Planned") ELSE j[n][2],
                   Transitions(j, n), [i \in 1..f |-> PlainFailure]) :
              n \in 0..Len(j), f \in 0..MaxFailures} : j \in Journeys}

(* Records that the calls build as well, and encode refuses: a failure too   *)
(* many, and what a backend may answer when it does not keep its contract: a *)
(* receipt for another precondition or another postcondition, a readback     *)
(* whose verdict contradicts its value or that read for something else, the  *)
(* proof of another original.                                                *)
UnwritableRecords ==
    {Record(Untouched("Planned"), <<>>, [i \in 1..(MaxFailures + 1) |-> PlainFailure])}
    \cup
    {Along(ALong, 5, Operation("Applied", <<ASnap>>, <<a>>, <<>>, <<>>, <<>>)) :
        a \in {<<1, 11, 12, 13>>, <<1, 10, 12, 12>>}}
    \cup
    {Along(ALong, 5, Held(sv[1], <<sv[2]>>, <<>>)) :
        sv \in {<<"Verified", ReadBack(<<13>>, 1)>>, <<"Verified", ReadBack(<<>>, 1)>>,
                <<"Failed", ReadBack(<<12>>, 0)>>, <<"Failed", <<1, 13, <<>>, 0>> >>}}
    \cup
    {Along(ALong, 11, Operation("Restored", <<ASnap>>, <<Receipt>>, <<>>, << <<1, 12, 1>> >>, <<>>))}

-----------------------------------------------------------------------------
Init ==
    /\ rec \in WritableRecords \cup UnwritableRecords
    /\ file = [magic |-> "none"]
    /\ phase = "held"
    /\ edits = 0
    /\ out = No

Write ==
    /\ phase = "held"
    /\ phase' = "written"
    /\ file' = Encode(rec)
    /\ UNCHANGED <<rec, edits, out>>

(* Another build of the helper, or an operator's tool, writes a payload      *)
(* under the same version with a length and a checksum that fit it.  (A file *)
(* whose bytes changed under its checksum is refused before anything is      *)
(* decoded.)                                                                 *)
Reseal(payload) == file' = [file EXCEPT !.len = Size(payload), !.payload = payload, !.sum = payload]

(* The payload differs in one place: a number is one more or one less, a     *)
(* text is one byte longer, the end is lost, or something follows.           *)
Rewrite ==
    /\ phase = "written"
    /\ file.magic = "SYSBST01"
    /\ edits < MaxEdits
    /\ edits' = edits + 1
    /\ LET payload == file.payload
       IN  \/ \E i \in DOMAIN payload :
                 \/ payload[i].v < Top /\ Reseal([payload EXCEPT ![i].v = @ + 1])
                 \/ payload[i].v > 0 /\ Reseal([payload EXCEPT ![i].v = @ - 1])
                 \/ /\ payload[i].w = 4 /\ i < Len(payload) /\ payload[i + 1].w = payload[i].v
                    /\ Reseal([payload EXCEPT ![i].v = @ + 1, ![i + 1].w = @ + 1])
           \/ \E n \in {0, Len(payload) - 1} : Reseal(SubSeq(payload, 1, n))
           \/ \E w \in {1, 4} : Reseal(Append(payload, [w |-> w, v |-> 0]))
    /\ UNCHANGED <<rec, phase, out>>

Read ==
    /\ phase = "written"
    /\ file.magic # "refused"
    /\ phase' = "read"
    /\ out' = Decode(file)
    /\ UNCHANGED <<rec, file, edits>>

Next == Write \/ Rewrite \/ Read

Spec == Init /\ [][Next]_vars

-----------------------------------------------------------------------------
(* Properties *)

(* A record that the calls of SessionRecord build from answers that agree    *)
(* with each other is written, one that exceeds a bound or holds an answer   *)
(* not bound to the one before is refused, and a file reads back as the very *)
(* record it was written from, so nothing the helper journals is lost to its *)
(* next start: every tag, boundary value, optional part and failure text.    *)
WrittenIsReadable ==
    /\ phase = "written" => (file.magic = "refused") = (rec \in UnwritableRecords)
    /\ phase = "read" /\ edits = 0 => out = [ok |-> TRUE, rec |-> rec]

NamesCpus(r) ==
    \E i \in DOMAIN r[2] :
        LET o == r[2][i]
        IN  \/ o[1][4][1] \in {"CgroupCpuset", "IrqAffinity"}
            \/ \E k \in DOMAIN o[3] : o[3][k][4][1] \in {"CgroupCpuset", "IrqAffinity"}

(* Recovery can only go on with a session it can write again.  Whatever      *)
(* decode accepts, from whichever writer, encode accepts too, and what it    *)
(* then writes reads back as the same record and is as long as what was      *)
(* read: no byte of the file was skipped, in front of, between or behind the *)
(* fields.  (Only a list of CPUs, which CpuSet::new sorts and rids of        *)
(* repetitions, may become shorter.)                                         *)
AcceptedIsWritable ==
    phase = "read" /\ out.ok =>
        LET again == Encode(out.rec)
        IN  /\ again.magic = "SYSBST01"
            /\ Decode(again) = out
            /\ again.len <= file.len
            /\ again.len < file.len => NamesCpus(out.rec)
=============================================================================
