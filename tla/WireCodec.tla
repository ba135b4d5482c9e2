----------------------------- MODULE WireCodec -----------------------------
(***************************************************************************)
(* The frames of sysboost-protocol/src/lib.rs: every message is encoded    *)
(* into cells (bytes), the cells may be changed, cut off or extended on    *)
(* the way, and a receiver decodes what is left as a request or as a       *)
(* response.                                                               *)
(*                                                                         *)
(* Field widths are constants, so that the short ones TLC uses keep the    *)
(* layout; magic, version and length take one cell each.                   *)
(***************************************************************************)
EXTENDS Integers, Sequences

CONSTANTS
    NumberWidth,   \* cells of a request number (8)
    IdWidth,       \* cells of a plan or session identity (16)
    DigestWidth,   \* cells of a plan digest (32)
    MaxFrame,      \* MAX_FRAME_BYTES
    SomeNumbers,   \* request numbers sent
    RawCells,      \* values of the cells of identities and digests sent
    SomeCells,     \* what damage puts in place of a cell
    MaxDamage      \* bound: changes on the way

VARIABLES msg, frame, damage, dir, out

wireVars == <<msg, frame, damage, dir, out>>

Base == 256
Magic == 83
ProtocolVersion == 1
HeaderLen == 4
Refused == [kind |-> "refused"]

-----------------------------------------------------------------------------
(* The tables *)

Tag == [Prepare |-> 1, Apply |-> 2, Restore |-> 3, Status |-> 4,
        Accepted |-> 129, State |-> 130, Rejected |-> 131]

Requests == {"Prepare", "Apply", "Restore", "Status"}
Responses == {"Accepted", "State", "Rejected"}

StateTag ==
    [New |-> 0, Detected |-> 1, Planned |-> 2, Snapshotted |-> 3,
     IntentDurable |-> 4, Applying |-> 5, Active |-> 6, Restoring |-> 7,
     Restored |-> 8, RollingBack |-> 9, Degraded |-> 10, RecoveryPending |-> 11]

ErrorTag ==
    [ConfigError |-> 1, CapabilityError |-> 2, Unsupported |-> 3,
     AuthorizationError |-> 4, TargetError |-> 5, PlanningError |-> 6,
     SnapshotError |-> 7, DurabilityError |-> 8, TransportError |-> 9,
     ApplyError |-> 10, VerificationError |-> 11, RestoreConflict |-> 12,
     RestoreError |-> 13, JournalCorrupt |-> 14, InvariantViolation |-> 15,
     InvalidInput |-> 16]

(* Slip: two arms of the match are swapped. *)
StateFromTagSwapped ==
    <<"New", "Detected", "Planned", "Snapshotted", "IntentDurable", "Applying",
      "Active", "Restored", "Restoring", "RollingBack", "Degraded", "RecoveryPending">>

(* state_from_tag, from tag 0 on *)
StateFromTag ==
    <<"New", "Detected", "Planned", "Snapshotted", "IntentDurable", "Applying",
      "Active", "Restoring", "Restored", "RollingBack", "Degraded", "RecoveryPending">>

(* error_from_tag, from tag 1 on *)
ErrorFromTag ==
    <<"ConfigError", "CapabilityError", "Unsupported", "AuthorizationError",
      "TargetError", "PlanningError", "SnapshotError", "DurabilityError",
      "TransportError", "ApplyError", "VerificationError", "RestoreConflict",
      "RestoreError", "JournalCorrupt", "InvariantViolation", "InvalidInput">>

(* What follows the request number in the payload, and its width in all. *)
Rest(kind) ==
    CASE kind = "Prepare" -> IdWidth + DigestWidth
      [] kind \in {"Apply", "Restore", "Status", "Accepted"} -> IdWidth
      [] kind = "State" -> IdWidth + 1
      [] kind = "Rejected" -> 2

-----------------------------------------------------------------------------
(* Encoding.  A message is [kind, number, raw, code]: raw holds identity    *)
(* and digest cells, code the session state or the error category.          *)

(* n without its k last cells, for every k up to width. *)
Shifted(n, width) ==
    LET s[k \in 0..width] == IF k = 0 THEN n ELSE s[k - 1] \div Base
    IN  s

(* to_be_bytes: the highest cell comes first. *)
Digits(n, width) == [i \in 1..width |-> Shifted(n, width)[width - i] % Base]

Payload(m) ==
    Digits(m.number, NumberWidth) \o m.raw \o
    (CASE m.kind = "State" -> <<StateTag[m.code]>>
       [] m.kind = "Rejected" -> Digits(ErrorTag[m.code], 2)
       [] OTHER -> <<>>)

Encode(m) == <<Magic, ProtocolVersion, Tag[m.kind], Len(Payload(m))>> \o Payload(m)

-----------------------------------------------------------------------------
(* Decoding *)

(* The number that the first k cells make, for every k. *)
Read(cells) ==
    LET r[k \in 0..Len(cells)] == IF k = 0 THEN 0 ELSE r[k - 1] * Base + cells[k]
    IN  r

(* from_be_bytes *)
Number(cells) == Read(cells)[Len(cells)]

(* Slip: the length field is not compared with the cells that are there. *)
UnframeSlack(f) ==
    /\ Len(f) \in HeaderLen..MaxFrame
    /\ f[1] = Magic
    /\ f[2] = ProtocolVersion

(* unframe *)
Unframe(f) ==
    /\ Len(f) \in HeaderLen..MaxFrame
    /\ f[1] = Magic
    /\ f[2] = ProtocolVersion
    /\ f[4] = Len(f) - HeaderLen

(* The cursor: neither truncated nor followed by more. *)
ExactFields(kind, p) == Len(p) = NumberWidth + Rest(kind)

(* The last field, with the tags its table knows. *)
CodeKnown(kind, p) ==
    CASE kind = "State" -> p[Len(p)] + 1 \in DOMAIN StateFromTag
      [] kind = "Rejected" -> Number(SubSeq(p, NumberWidth + 1, Len(p))) \in DOMAIN ErrorFromTag
      [] OTHER -> TRUE

DecodedCode(kind, p) ==
    CASE kind = "State" -> StateFromTag[p[Len(p)] + 1]
      [] kind = "Rejected" -> ErrorFromTag[Number(SubSeq(p, NumberWidth + 1, Len(p)))]
      [] OTHER -> "none"

RawLen(kind) ==
    CASE kind = "State" -> IdWidth [] kind = "Rejected" -> 0 [] OTHER -> Rest(kind)

Decode(f, kinds) ==
    IF ~Unframe(f) \/ ~\E k \in kinds : Tag[k] = f[3] THEN Refused
    ELSE LET kind == CHOOSE k \in kinds : Tag[k] = f[3]
             p == SubSeq(f, HeaderLen + 1, Len(f))
         IN  IF /\ ExactFields(kind, p)
                /\ Number(SubSeq(p, 1, NumberWidth)) # 0
                /\ CodeKnown(kind, p)
             THEN [kind |-> kind,
                   number |-> Number(SubSeq(p, 1, NumberWidth)),
                   raw |-> SubSeq(p, NumberWidth + 1, NumberWidth + RawLen(kind)),
                   code |-> DecodedCode(kind, p)]
             ELSE Refused

-----------------------------------------------------------------------------
(* Request numbers are not zero and fit their field, and the longest message *)
(* fits a frame.                                                             *)
ASSUME WireAssumption ==
    /\ {NumberWidth, IdWidth, DigestWidth, MaxFrame, MaxDamage} \subseteq Nat
    /\ RawCells \cup SomeCells \subseteq 0..(Base - 1)
    /\ \A n \in SomeNumbers : n \in Nat \ {0} /\ Shifted(n, NumberWidth)[NumberWidth] = 0
    /\ \A k \in Requests \cup Responses : HeaderLen + NumberWidth + Rest(k) <= MaxFrame

Messages ==
    UNION {[kind : {k}, number : SomeNumbers, raw : [1..RawLen(k) -> RawCells],
            code : CASE k = "State" -> DOMAIN StateTag
                     [] k = "Rejected" -> DOMAIN ErrorTag
                     [] OTHER -> {"none"}] : k \in Requests \cup Responses}

WireInit ==
    /\ msg \in Messages
    /\ frame = Encode(msg)
    /\ damage = 0
    /\ dir = "none"
    /\ out = Refused

(* A cell is changed, the end is cut off, or something is appended. *)
Damage ==
    /\ dir = "none"
    /\ damage < MaxDamage
    /\ damage' = damage + 1
    /\ \/ \E i \in DOMAIN frame, c \in SomeCells : frame' = [frame EXCEPT ![i] = c]
       \/ \E n \in 0..(Len(frame) - 1) : frame' = SubSeq(frame, 1, n)
       \/ \E c \in SomeCells : frame' = Append(frame, c)
    /\ UNCHANGED <<msg, dir, out>>

(* The frame reaches Request::decode or Response::decode. *)
Receive ==
    /\ dir = "none"
    /\ \/ dir' = "request" /\ out' = Decode(frame, Requests)
       \/ dir' = "response" /\ out' = Decode(frame, Responses)
    /\ UNCHANGED <<msg, frame, damage>>

WireNext == Damage \/ Receive

WireSpec == WireInit /\ [][WireNext]_wireVars

-----------------------------------------------------------------------------
(* Properties *)

(* Whatever happened to a frame, one that a decoder accepts is the one and   *)
(* only encoding of the message it is taken for: no cell of it is ignored,   *)
(* and no two frames mean the same.                                          *)
CanonicalOnly == out # Refused => Encode(out) = frame

(* A frame that arrives unharmed is decoded to the message that was sent by  *)
(* the side it was sent to and refused by the other side, for every session  *)
(* state and every error category.                                           *)
RoundTrip ==
    dir # "none" /\ frame = Encode(msg) =>
        out = IF (dir = "request") = (msg.kind \in Requests) THEN msg ELSE Refused
=============================================================================
