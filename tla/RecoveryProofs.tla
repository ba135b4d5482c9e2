--------------------------- MODULE RecoveryProofs ---------------------------
(***************************************************************************)
(* What recovery after a crash or a failure rests on, for all values of    *)
(* the constants: the exclusive session lock, the room in the journal, the *)
(* atomic files of the state store, and the managed cgroup.                *)
(***************************************************************************)
EXTENDS SessionLock, JournalGrowth, StateStore, ManagedCgroup, TLAPS

-----------------------------------------------------------------------------
(* The session lock: type correctness, and mutual exclusion as long as no    *)
(* unlink removed a file other than the one it had compared.                 *)

(* A process that possesses a file wrote it, or it is still empty; files    *)
(* are never shared, and files to come are empty.                           *)
FileInv ==
    /\ \A p \in Procs : pc[p] \in Possessing =>
          mine[p] \in Files /\ content[mine[p]] \in {NoProc, p}
    /\ \A p, q \in Procs : p # q /\ mine[p] # NoFile => mine[p] # mine[q]
    /\ \A f \in Files : f > created => content[f] = NoProc

(* What a reclaiming process has read still describes the file it compared  *)
(* and the owner it found dead.                                             *)
ReclaimInv ==
    \A p \in Procs :
        /\ pc[p] \in {"read", "probe", "check", "unlink"} => seen[p] # NoFile
        /\ pc[p] \in {"probe", "check", "unlink"} =>
              owner[p] \in Procs /\ (path = seen[p] => content[path] = owner[p])
        /\ pc[p] \in {"check", "unlink"} => pc[owner[p]] = "dead"

(* Until an unlink goes astray every possessed file is the one at the name. *)
PathInv == raced \/ \A p \in Procs : pc[p] \in Possessing => path = mine[p]

LockInv == TypeOK /\ FileInv /\ ReclaimInv /\ PathInv

-----------------------------------------------------------------------------
(* The lock starts in the inductive invariant. *)
LEMMA LockInitInv == Init => LockInv
<1> SUFFICES ASSUME Init PROVE LockInv OBVIOUS
<1>1. raced \in BOOLEAN BY Zenon DEF Init
<1>2. TypeOK BY <1>1, MaxFilesAssumption DEF Init, TypeOK, NoFile, States
<1> QED BY <1>2 DEF Init, LockInv, FileInv, ReclaimInv, PathInv, Possessing, NoFile

(* Every step of acquire, reclaim and drop keeps the types. *)
LEMMA NextType == TypeOK /\ [Next]_vars => TypeOK'
<1> SUFFICES ASSUME TypeOK, [Next]_vars PROVE TypeOK' OBVIOUS
<1> USE MaxFilesAssumption DEF TypeOK, NoFile, Goto, States, GiveUp, Forget, localVars
<1>1. CASE UNCHANGED vars BY <1>1 DEF vars
<1>2. ASSUME NEW p \in Procs, Create(p) PROVE TypeOK'
  BY <1>2 DEF Create
<1>3. ASSUME NEW p \in Procs, WriteOwner(p) \/ WriteFails(p) PROVE TypeOK'
  <2>1. content' \in [Files -> Procs \cup {NoProc}] BY <1>3 DEF WriteOwner, WriteFails
  <2> QED BY <1>3, <2>1 DEF WriteOwner, WriteFails
<1>4. ASSUME NEW p \in Procs,
             Acquire(p) \/ AlreadyExists(p) \/ ValidateFails(p) \/ FailCheck(p)
               \/ Probe(p) \/ Check(p) \/ Drop(p) \/ DropCheck(p) \/ RemoveFails(p) \/ Crash(p)
      PROVE  TypeOK'
  BY <1>4 DEF Acquire, AlreadyExists, ValidateFails, FailCheck, Probe, Check, Drop,
              DropCheck, RemoveFails, Crash
<1>5. ASSUME NEW p \in Procs, Stat(p) PROVE TypeOK' BY <1>5 DEF Stat
<1>6. ASSUME NEW p \in Procs, Read(p) PROVE TypeOK'
  <2>1. path # NoFile => content[path] \in Procs \cup {NoProc} BY DEF Files
  <2> QED BY <1>6, <2>1 DEF Read
<1>7. ASSUME NEW p \in Procs, FailUnlink(p) \/ UnlinkStale(p) \/ DropUnlink(p)
      PROVE  TypeOK'
  <2>1. path' = NoFile BY <1>7 DEF FailUnlink, UnlinkStale, DropUnlink, Unlink
  <2>2. raced' \in BOOLEAN
    BY <1>7, Zenon DEF FailUnlink, UnlinkStale, DropUnlink, Unlink
  <2> QED BY <1>7, <2>1, <2>2 DEF FailUnlink, UnlinkStale, DropUnlink
<1> QED BY <1>1, <1>2, <1>3, <1>4, <1>5, <1>6, <1>7 DEF Next, Step

(* Steps that only move the process that takes them, and not into the       *)
(* possession of a file or beyond what it has found out.                    *)
LEMMA MoveKeeps ==
    ASSUME LockInv, NEW p \in Procs, NEW to \in States, Goto(p, to),
           pc[p] # "dead",
           UNCHANGED <<path, content, created, mine, seen, owner, raced>>,
           to \in Possessing => pc[p] \in Possessing,
           to \notin {"read", "probe"},
           to = "check" => pc[p] = "probe" /\ pc[owner[p]] = "dead",
           to = "unlink" => pc[p] = "check"
    PROVE  FileInv' /\ ReclaimInv' /\ PathInv'
<1>0. /\ pc'[p] = to
      /\ \A q \in Procs \ {p} : pc'[q] = pc[q]
      /\ \A q \in Procs : pc[q] = "dead" => pc'[q] = "dead"
  BY DEF LockInv, TypeOK, Goto
<1>1. FileInv' BY <1>0 DEF LockInv, FileInv
<1>2. ReclaimInv' BY <1>0 DEF LockInv, ReclaimInv
<1>3. PathInv' BY <1>0 DEF LockInv, PathInv
<1> QED BY <1>1, <1>2, <1>3

(* A process that gives up, or dies, and forgets what it had found out. *)
LEMMA LeaveKeeps ==
    ASSUME LockInv, NEW p \in Procs, NEW to \in {"idle", "dead"}, Goto(p, to),
           pc[p] # "dead", Forget(p), UNCHANGED <<path, content, created, raced>>
    PROVE  FileInv' /\ ReclaimInv' /\ PathInv'
<1>0. /\ pc'[p] = to /\ to \notin Possessing
      /\ \A q \in Procs \ {p} : pc'[q] = pc[q]
      /\ \A q \in Procs : pc[q] = "dead" => pc'[q] = "dead"
  BY DEF LockInv, TypeOK, Goto, Possessing
<1>1. /\ mine'[p] = NoFile
      /\ \A q \in Procs \ {p} : mine'[q] = mine[q] /\ seen'[q] = seen[q] /\ owner'[q] = owner[q]
  BY DEF LockInv, TypeOK, Forget
<1>2. FileInv' BY <1>0, <1>1 DEF LockInv, FileInv
<1>3. ReclaimInv' BY <1>0, <1>1 DEF LockInv, ReclaimInv
<1>4. PathInv' BY <1>0, <1>1 DEF LockInv, PathInv
<1> QED BY <1>2, <1>3, <1>4

(* An unlink, of a file that a comparison has shown to be the process's own  *)
(* or stale.                                                                 *)
LEMMA UnlinkKeeps ==
    ASSUME LockInv, NEW p \in Procs, NEW to \in States, Goto(p, to),
           to \notin Possessing, to \notin {"read", "probe", "check", "unlink"},
           pc[p] # "dead", NEW f, Unlink(f),
           UNCHANGED <<content, created>>, mine'[p] \in {NoFile, mine[p]},
           \A q \in Procs \ {p} :
              mine'[q] = mine[q] /\ seen'[q] = seen[q] /\ owner'[q] = owner[q],
           ~raced /\ path = f => \A q \in Procs \ {p} : pc[q] \notin Possessing
    PROVE  FileInv' /\ ReclaimInv' /\ PathInv'
<1>0. /\ pc'[p] = to
      /\ \A q \in Procs \ {p} : pc'[q] = pc[q]
      /\ \A q \in Procs : pc[q] = "dead" => pc'[q] = "dead"
  BY DEF LockInv, TypeOK, Goto
<1>1. path' = NoFile BY DEF Unlink
<1>2. FileInv' BY <1>0 DEF LockInv, FileInv
<1>3. ReclaimInv' BY <1>0, <1>1 DEF LockInv, ReclaimInv
<1>4. PathInv'
  <2>1. SUFFICES ASSUME ~raced', NEW q \in Procs, pc'[q] \in Possessing PROVE FALSE
    BY DEF PathInv
  <2>2. ~raced /\ path \in {NoFile, f} BY <2>1 DEF Unlink
  <2>3. q # p /\ pc[q] \in Possessing BY <1>0, <2>1
  <2>4. path = mine[q] /\ mine[q] \in Files BY <2>2, <2>3 DEF LockInv, PathInv, FileInv
  <2>5. path # NoFile BY <2>4, MaxFilesAssumption DEF Files, NoFile
  <2> QED BY <2>2, <2>3, <2>5
<1> QED BY <1>2, <1>3, <1>4

(* Every step keeps the inductive invariant. *)
LEMMA NextInv == LockInv /\ [Next]_vars => LockInv'
<1> SUFFICES ASSUME LockInv, [Next]_vars PROVE FileInv' /\ ReclaimInv' /\ PathInv'
  BY NextType DEF LockInv
<1>t. TypeOK BY DEF LockInv
<1>1. CASE UNCHANGED vars
  BY <1>1 DEF vars, LockInv, FileInv, ReclaimInv, PathInv
<1>2. ASSUME NEW p \in Procs,
             Acquire(p) \/ AlreadyExists(p) \/ ValidateFails(p) \/ FailCheck(p)
               \/ Check(p) \/ Drop(p) \/ DropCheck(p) \/ RemoveFails(p) \/ Crash(p)
      PROVE  FileInv' /\ ReclaimInv' /\ PathInv'
  <2>1. pc[p] # "dead" /\ UNCHANGED <<path, content, created, raced>>
    BY <1>2 DEF Acquire, AlreadyExists, ValidateFails, FailCheck, Check, Drop, DropCheck,
                RemoveFails, Crash
  <2>2. CASE Forget(p) /\ (Goto(p, "idle") \/ Goto(p, "dead"))
    BY <2>1, <2>2, LeaveKeeps
  <2>3. ASSUME UNCHANGED localVars,
               NEW to \in {"open", "stat", "failUnlink", "unlink", "dropCheck", "dropUnlink"},
               Goto(p, to),
               to \in {"failUnlink", "dropCheck", "dropUnlink"} => pc[p] \in Possessing,
               to = "unlink" => pc[p] = "check"
        PROVE  FileInv' /\ ReclaimInv' /\ PathInv'
    <3>1. to \in States /\ (to \in Possessing => pc[p] \in Possessing)
      BY <2>3 DEF States, Possessing
    <3> QED BY <2>1, <2>3, <3>1, MoveKeeps DEF localVars
  <2> QED
    BY <1>2, <2>2, <2>3
       DEF Acquire, AlreadyExists, ValidateFails, FailCheck, Check, Drop, DropCheck,
           RemoveFails, Crash, GiveUp, Possessing
<1>3. ASSUME NEW p \in Procs, Probe(p) PROVE FileInv' /\ ReclaimInv' /\ PathInv'
  <2>1. pc[p] = "probe" /\ UNCHANGED <<path, content, created, raced>>
    BY <1>3 DEF Probe
  <2>2. CASE GiveUp(p) BY <2>1, <2>2, LeaveKeeps DEF GiveUp
  <2>3. CASE Goto(p, "check") /\ pc[owner[p]] = "dead" /\ UNCHANGED localVars
    <3>1. "check" \in States /\ "check" \notin Possessing BY DEF States, Possessing
    <3> QED BY <2>1, <2>3, <3>1, MoveKeeps DEF localVars
  <2> QED BY <1>3, <2>2, <2>3 DEF Probe, Stale
<1>4. ASSUME NEW p \in Procs, Create(p) PROVE FileInv' /\ ReclaimInv' /\ PathInv'
  <2>1. /\ path = NoFile /\ created < MaxFiles /\ created' = created + 1
        /\ path' = created + 1 /\ pc[p] = "open"
        /\ UNCHANGED <<content, seen, owner, raced>>
    BY <1>4 DEF Create
  <2>2. /\ mine'[p] = created + 1 /\ pc'[p] = "write"
        /\ \A q \in Procs \ {p} : mine'[q] = mine[q] /\ pc'[q] = pc[q]
    BY <1>4, <1>t DEF Create, Goto, TypeOK
  <2>3. /\ created + 1 \in Files /\ created \in Nat
        /\ \A q \in Procs : mine[q] \in 0..created /\ seen[q] \in 0..created
    BY <1>t, <2>1, MaxFilesAssumption DEF TypeOK, Files
  <2>4. content[created + 1] = NoProc BY <2>3 DEF LockInv, FileInv
  <2>5. FileInv'
    <3>1. \A q \in Procs : pc'[q] \in Possessing =>
             mine'[q] \in Files /\ content'[mine'[q]] \in {NoProc, q}
      BY <2>1, <2>2, <2>3, <2>4 DEF LockInv, FileInv
    <3>2. \A q, r \in Procs : q # r /\ mine'[q] # NoFile => mine'[q] # mine'[r]
      BY <2>2, <2>3 DEF LockInv, FileInv
    <3>3. \A f \in Files : f > created' => content'[f] = NoProc
      BY <2>1, <2>3 DEF LockInv, FileInv, Files
    <3> QED BY <3>1, <3>2, <3>3 DEF FileInv
  <2>6. ReclaimInv'
    BY <2>1, <2>2, <2>3 DEF LockInv, ReclaimInv
  <2>7. ~raced => \A q \in Procs : pc[q] \notin Possessing
    BY <2>1, MaxFilesAssumption DEF LockInv, PathInv, FileInv, Files, NoFile
  <2>8. PathInv' BY <2>1, <2>2, <2>7 DEF PathInv
  <2> QED BY <2>5, <2>6, <2>8
<1>5. ASSUME NEW p \in Procs, WriteOwner(p) \/ WriteFails(p)
      PROVE  FileInv' /\ ReclaimInv' /\ PathInv'
  <2>1. /\ pc[p] = "write" /\ pc[p] \in Possessing
        /\ UNCHANGED <<path, created, mine, seen, owner, raced>>
        /\ content' = content \/ content' = [content EXCEPT ![mine[p]] = p]
    BY <1>5 DEF WriteOwner, WriteFails, localVars, Possessing
  <2>2. /\ pc'[p] \in {"held", "failCheck"}
        /\ \A q \in Procs \ {p} : pc'[q] = pc[q]
    BY <1>5, <1>t DEF WriteOwner, WriteFails, Goto, TypeOK
  <2>3. mine[p] \in Files /\ content[mine[p]] \in {NoProc, p} /\ mine[p] # NoFile
        /\ mine[p] \in 0..created
    BY <1>t, <2>1, MaxFilesAssumption DEF LockInv, FileInv, Files, NoFile, TypeOK
  <2>4. /\ content'[mine[p]] \in {content[mine[p]], p}
        /\ \A f \in Files \ {mine[p]} : content'[f] = content[f]
    BY <1>t, <2>1, <2>3 DEF TypeOK
  <2>5. FileInv'
    <3>1. \A q \in Procs : pc'[q] \in Possessing =>
             mine'[q] \in Files /\ content'[mine'[q]] \in {NoProc, q}
      BY <2>1, <2>2, <2>3, <2>4 DEF LockInv, FileInv
    <3>2. \A f \in Files : f > created' => content'[f] = NoProc
      <4>1. created \in Nat BY <1>t, MaxFilesAssumption DEF TypeOK
      <4> QED BY <2>1, <2>3, <2>4, <4>1 DEF LockInv, FileInv, Files
    <3> QED BY <2>1, <3>1, <3>2 DEF LockInv, FileInv
  <2>6. path # NoFile => path \in Files
    BY <1>t, MaxFilesAssumption DEF TypeOK, Files, NoFile
  <2>7. ReclaimInv'
    BY <2>1, <2>2, <2>3, <2>4, <2>6, NoProcAssumption DEF LockInv, ReclaimInv
  <2>8. PathInv' BY <2>1, <2>2 DEF LockInv, PathInv
  <2> QED BY <2>5, <2>7, <2>8
<1>6. ASSUME NEW p \in Procs, Stat(p) \/ Read(p)
      PROVE  FileInv' /\ ReclaimInv' /\ PathInv'
  <2>0. CASE GiveUp(p)
    BY <1>6, <2>0, LeaveKeeps DEF Stat, Read, GiveUp
  <2>m. SUFFICES ASSUME ~GiveUp(p) PROVE FileInv' /\ ReclaimInv' /\ PathInv'
    BY <2>0
  <2>1. /\ UNCHANGED <<path, content, created, mine, raced>>
        /\ pc'[p] \in {"read", "probe"} /\ pc[p] # "dead"
        /\ \A q \in Procs \ {p} : pc'[q] = pc[q] /\ seen'[q] = seen[q] /\ owner'[q] = owner[q]
    BY <1>6, <1>t, <2>m DEF Stat, Read, Goto, TypeOK
  <2>2. FileInv' BY <2>1 DEF LockInv, FileInv, Possessing
  <2>3. PathInv' BY <2>1 DEF LockInv, PathInv, Possessing
  <2>4. path # NoFile => content[path] \in Procs \cup {NoProc}
    BY <1>t, MaxFilesAssumption DEF TypeOK, Files, NoFile
  <2>5. /\ pc'[p] = "read" => seen'[p] # NoFile
        /\ pc'[p] = "probe" => seen'[p] # NoFile /\ owner'[p] \in Procs
                               /\ owner'[p] = content[path]
    BY <1>6, <1>t, <2>4, <2>m DEF Stat, Read, Goto, TypeOK, LockInv, ReclaimInv
  <2>6. ReclaimInv' BY <2>1, <2>5 DEF LockInv, ReclaimInv
  <2> QED BY <2>2, <2>3, <2>6
<1>7. ASSUME NEW p \in Procs, FailUnlink(p) \/ DropUnlink(p)
      PROVE  FileInv' /\ ReclaimInv' /\ PathInv'
  <2>1. /\ Unlink(mine[p]) /\ Goto(p, "idle") /\ pc[p] \in Possessing /\ pc[p] # "dead"
        /\ UNCHANGED <<content, created>> /\ Forget(p)
    BY <1>7 DEF FailUnlink, DropUnlink, Possessing, GiveUp
  <2>f. /\ mine'[p] = NoFile
        /\ \A q \in Procs \ {p} :
              mine'[q] = mine[q] /\ seen'[q] = seen[q] /\ owner'[q] = owner[q]
    BY <1>t, <2>1 DEF TypeOK, Forget
  <2>2. ~raced => \A q \in Procs \ {p} : pc[q] \notin Possessing
    BY <2>1, MaxFilesAssumption DEF LockInv, PathInv, FileInv, Files, NoFile
  <2>3. "idle" \in States /\ "idle" \notin Possessing BY DEF States, Possessing
  <2> QED BY <2>1, <2>f, <2>2, <2>3, UnlinkKeeps
<1>8. ASSUME NEW p \in Procs, UnlinkStale(p)
      PROVE  FileInv' /\ ReclaimInv' /\ PathInv'
  <2>1. /\ pc[p] = "unlink" /\ Unlink(seen[p])
        /\ UNCHANGED <<content, created>>
    BY <1>8 DEF UnlinkStale
  <2>f. /\ mine'[p] \in {NoFile, mine[p]}
        /\ \A q \in Procs \ {p} :
              mine'[q] = mine[q] /\ seen'[q] = seen[q] /\ owner'[q] = owner[q]
    BY <1>8, <1>t DEF UnlinkStale, GiveUp, Forget, TypeOK
  <2>2. PICK to \in {"open", "idle"} : Goto(p, to) BY <1>8 DEF UnlinkStale, GiveUp
  <2>3. to \in States /\ to \notin Possessing BY <2>2 DEF States, Possessing
  <2>4. ASSUME ~raced, path = seen[p], NEW q \in Procs, pc[q] \in Possessing PROVE FALSE
    <3>1. /\ owner[p] \in Procs /\ content[path] = owner[p] /\ pc[owner[p]] = "dead"
      BY <2>1, <2>4 DEF LockInv, ReclaimInv
    <3>2. path = mine[q] /\ content[path] \in {NoProc, q}
      BY <2>4 DEF LockInv, PathInv, FileInv
    <3>3. owner[p] = q BY <3>1, <3>2, NoProcAssumption
    <3> QED BY <2>4, <3>1, <3>3 DEF Possessing
  <2> QED BY <2>1, <2>f, <2>2, <2>3, <2>4, UnlinkKeeps
<1> QED BY <1>1, <1>2, <1>3, <1>4, <1>5, <1>6, <1>7, <1>8 DEF Next, Step

(* Every process is at a step of acquire, reclaim_stale_lock or drop, and   *)
(* deals with files that exist.                                             *)
THEOREM LockTypeCorrect == Spec => []TypeOK
<1>1. Init => TypeOK BY LockInitInv DEF LockInv
<1> QED BY <1>1, NextType, PTL DEF Spec

(* For any number of processes and files: two processes hold the lease at   *)
(* once only if some unlink removed a file it had not compared.             *)
THEOREM LockExclusion == Spec => []ExclusionUnlessRaced
<1>1. LockInv => ExclusionUnlessRaced
  <2>1. SUFFICES ASSUME LockInv, ~raced, NEW p \in Procs, NEW q \in Procs,
                        pc[p] = "held", pc[q] = "held"
                 PROVE  p = q
    BY DEF ExclusionUnlessRaced, MutualExclusion
  <2>2. mine[p] = path /\ mine[q] = path /\ mine[p] \in Files
    BY <2>1 DEF LockInv, PathInv, FileInv, Possessing
  <2>3. mine[p] # NoFile BY <2>2, MaxFilesAssumption DEF Files, NoFile
  <2> QED BY <2>1, <2>2, <2>3 DEF LockInv, FileInv
<1> QED BY <1>1, LockInitInv, NextInv, PTL DEF Spec

-----------------------------------------------------------------------------
(* The counts of a journal never keep a session from being restored, for     *)
(* every number of operations, every size of failures and all bounds with    *)
(* MaxTransitions >= 3 * MaxFailures + 8 (16384 and 4096 in the code).       *)
(*                                                                           *)
(* A restore pass adds up to three transitions, and one that adds more       *)
(* than the first ones also adds a failure.  So a journal in a state has     *)
(* at most Margin(state) + 3 * f transitions, and the failures of what is    *)
(* stored are bounded by the encoder.                                        *)

JournalStates == Unfinished \cup {"Restored"}

Journals == [state : JournalStates, ops : [1..NumOps -> Known], t : Nat, f : Nat, b : Int]

Margin(state) ==
    CASE state = "IntentDurable" -> 4
      [] state \in {"Applying", "Degraded"} -> 5
      [] state \in {"Active", "RecoveryPending"} -> 6
      [] state \in {"RollingBack", "Restoring"} -> 7
      [] OTHER -> 8

Within(j) == j.t <= Margin(j.state) + 3 * j.f

JournalTypeInv ==
    /\ disk \in Journals
    /\ mem \in Journals
    /\ at \in {0, 1, 2}
    /\ failed \in Nat

(* What is stored has few transitions for its failures, and the encoder      *)
(* accepted it; so has what a running pass holds, which is being restored.   *)
JournalInv ==
    /\ JournalTypeInv
    /\ Within(disk)
    /\ disk.f <= MaxFailures
    /\ at # 0 => mem.state \in {"RollingBack", "Restoring"} /\ Within(mem)

-----------------------------------------------------------------------------
(* What the operations on a record do to its counts.                         *)

LEMMA TransitionCounts ==
    ASSUME NEW j \in Journals, NEW to \in JournalStates, NEW n \in Nat
    PROVE  /\ Transition(j, to, n) \in Journals
           /\ Transition(j, to, n).state = to
           /\ Transition(j, to, n).t = j.t + n
           /\ Transition(j, to, n).f = j.f
<1> DEFINE count == j.t + n
           bytes == j.b + n * TransitionBytes
<1>1. count \in Nat /\ bytes \in Int
  BY BoundsAssumption DEF Journals
<1>2. Transition(j, to, n) = [j EXCEPT !.state = to, !.t = count, !.b = bytes]
  BY DEF Transition
<1>3. count = j.t + n
  OBVIOUS
<1> HIDE DEF count, bytes
<1> QED
  BY <1>1, <1>2, <1>3 DEF Journals

LEMMA RecordFailuresCounts ==
    ASSUME NEW j \in Journals, NEW n \in Nat, NEW size \in FailureBytes
    PROVE  /\ RecordFailures(j, n, size) \in Journals
           /\ RecordFailures(j, n, size).state = j.state
           /\ RecordFailures(j, n, size).t = j.t
           /\ RecordFailures(j, n, size).f = j.f + n
<1> DEFINE count == j.f + n
           bytes == j.b + n * size
<1>1. count \in Nat /\ bytes \in Int
  BY BoundsAssumption DEF Journals
<1>2. RecordFailures(j, n, size) = [j EXCEPT !.f = count, !.b = bytes]
  BY DEF RecordFailures
<1>3. count = j.f + n
  OBVIOUS
<1> HIDE DEF count, bytes
<1> QED
  BY <1>1, <1>2, <1>3 DEF Journals

LEMMA FailRestoreCounts ==
    ASSUME NEW j \in Journals, NEW i, NEW size \in FailureBytes
    PROVE  /\ FailRestore(j, i, size) \in Journals
           /\ FailRestore(j, i, size).state = j.state
           /\ FailRestore(j, i, size).t = j.t
           /\ FailRestore(j, i, size).f = j.f + 1
<1> DEFINE count == j.f + 1
           bytes == j.b + size
           marked == [j.ops EXCEPT ![i] = "failed"]
<1>1. count \in Nat /\ bytes \in Int
  BY BoundsAssumption DEF Journals
<1>2. marked \in [1..NumOps -> Known]
  BY DEF Journals, Known
<1>3. FailRestore(j, i, size) = [j EXCEPT !.ops = marked, !.f = count, !.b = bytes]
  BY DEF FailRestore
<1>4. count = j.f + 1
  OBVIOUS
<1> HIDE DEF count, bytes, marked
<1> QED
  BY <1>1, <1>2, <1>3, <1>4 DEF Journals

(* Marking an operation leaves the counts alone.                             *)
LEMMA MarkCounts ==
    ASSUME NEW j \in Journals, NEW i, NEW k \in Known
    PROVE  LET m == [j EXCEPT !.ops[i] = k]
           IN  /\ m \in Journals
               /\ m.state = j.state
               /\ m.t = j.t
               /\ m.f = j.f
BY DEF Journals

(* A pass starts within the margin of the states it can start from.          *)
LEMMA PreparedWithin ==
    ASSUME NEW j \in Journals, Within(j), j.state # "Restored"
    PROVE  /\ Prepared(j) \in Journals
           /\ Prepared(j).state \in {"RollingBack", "Restoring"}
           /\ Within(Prepared(j))
           /\ Prepared(j).f = j.f
<1>r. "Restoring" \in JournalStates /\ "RollingBack" \in JournalStates
  BY DEF JournalStates, Unfinished, Resting
<1>s. /\ j.state \in JournalStates /\ j.t \in Nat /\ j.f \in Nat
  BY DEF JournalStates, Unfinished, Resting, Journals
<1>1. CASE j.state \in {"Active", "RecoveryPending"}
  <2>1. Prepared(j) = Transition(j, "Restoring", 1)
    BY <1>1 DEF Prepared
  <2>2. /\ Transition(j, "Restoring", 1) \in Journals
        /\ Transition(j, "Restoring", 1).state = "Restoring"
        /\ Transition(j, "Restoring", 1).t = j.t + 1
        /\ Transition(j, "Restoring", 1).f = j.f
    BY <1>r, TransitionCounts
  <2> QED
    BY <1>1, <1>s, <2>1, <2>2 DEF Within, Margin
<1>2. CASE j.state = "Degraded"
  <2>1. Prepared(j) = Transition(j, "Restoring", 2)
    BY <1>2 DEF Prepared
  <2>2. /\ Transition(j, "Restoring", 2) \in Journals
        /\ Transition(j, "Restoring", 2).state = "Restoring"
        /\ Transition(j, "Restoring", 2).t = j.t + 2
        /\ Transition(j, "Restoring", 2).f = j.f
    BY <1>r, TransitionCounts
  <2> QED
    BY <1>2, <1>s, <2>1, <2>2 DEF Within, Margin
<1>3. CASE j.state \in {"IntentDurable", "Applying"}
  <2>1. Prepared(j) = Transition(j, "RollingBack", 1)
    BY <1>3 DEF Prepared
  <2>2. /\ Transition(j, "RollingBack", 1) \in Journals
        /\ Transition(j, "RollingBack", 1).state = "RollingBack"
        /\ Transition(j, "RollingBack", 1).t = j.t + 1
        /\ Transition(j, "RollingBack", 1).f = j.f
    BY <1>r, TransitionCounts
  <2> QED
    BY <1>3, <1>s, <2>1, <2>2 DEF Within, Margin
<1>4. CASE j.state \in {"RollingBack", "Restoring"}
  BY <1>4, <1>s DEF Prepared
<1> QED
  BY <1>1, <1>2, <1>3, <1>4, <1>s DEF JournalStates, Unfinished, Resting

(* Whatever is persisted within the margin keeps the stored record in it.    *)
LEMMA PersistKeeps ==
    ASSUME NEW j \in Journals, NEW ok \in BOOLEAN, Persist(j, ok), Within(j), JournalInv
    PROVE  disk' \in Journals /\ Within(disk') /\ disk'.f <= MaxFailures
BY DEF Persist, Fits, JournalInv, JournalTypeInv

-----------------------------------------------------------------------------
LEMMA JournalInit == GrowthInit => JournalInv
<1> SUFFICES ASSUME GrowthInit PROVE JournalInv
  OBVIOUS
<1>1. PICK state \in {"IntentDurable", "Applying", "Active"}, k \in 1..NumOps + 1, now \in {"untouched", "ambiguous"} :
        disk = [state |-> state, f |-> 0, b |-> 0,
                ops |-> [i \in 1..NumOps |-> IF i < k THEN "held" ELSE IF i = k THEN now ELSE "untouched"],
                t |-> CASE state = "IntentDurable" -> 4 [] state = "Applying" -> 5 [] OTHER -> 6]
  BY DEF GrowthInit
<1>2. disk \in Journals
  BY <1>1 DEF Journals, JournalStates, Unfinished, Resting, Known
<1>3. Within(disk) /\ disk.f <= MaxFailures
  BY <1>1, BoundsAssumption DEF Within, Margin
<1> QED
  BY <1>2, <1>3 DEF GrowthInit, JournalInv, JournalTypeInv

LEMMA JournalStep == JournalInv /\ [GrowthNext]_journalVars => JournalInv'
<1> SUFFICES ASSUME JournalInv, [GrowthNext]_journalVars PROVE JournalInv'
  OBVIOUS
<1>t. /\ disk \in Journals /\ mem \in Journals /\ failed \in Nat /\ at \in {0, 1, 2}
      /\ Within(disk) /\ disk.f \in Nat /\ mem.f \in Nat /\ mem.t \in Nat
  BY DEF JournalInv, JournalTypeInv, Journals
<1>p. at # 0 => mem.state \in {"RollingBack", "Restoring"} /\ Within(mem)
  BY DEF JournalInv
<1>1. CASE StartPass
  <2>1. /\ Prepared(disk) \in Journals /\ Within(Prepared(disk))
        /\ Prepared(disk).state \in {"RollingBack", "Restoring"}
    BY <1>1, <1>t, PreparedWithin DEF StartPass
  <2>2. PICK ok \in BOOLEAN : Persist(Prepared(disk), ok) /\ at' = IF ok THEN 1 ELSE 0
    BY <1>1 DEF StartPass
  <2>3. disk' \in Journals /\ Within(disk') /\ disk'.f <= MaxFailures
    BY <2>1, <2>2, PersistKeeps
  <2> QED
    BY <1>1, <2>1, <2>2, <2>3 DEF StartPass, JournalInv, JournalTypeInv, Within
<1>2. CASE RollbackPass
  <2>1. PICK ok \in BOOLEAN, size \in FailureBytes, n \in {1, 2} :
          LET to == IF disk.state = "Applying" /\ n = 2 THEN "Restoring" ELSE "RollingBack"
              turned == RecordFailures(Transition(disk, to, n), 1, size)
          IN  /\ \/ disk.state = "IntentDurable" /\ n = 2
                 \/ disk.state = "Applying"
              /\ Persist(turned, ok)
              /\ mem' = IF ok THEN turned ELSE RecordFailures(turned, 1, size)
    BY <1>2 DEF RollbackPass
  <2> DEFINE to == IF disk.state = "Applying" /\ n = 2 THEN "Restoring" ELSE "RollingBack"
             moved == Transition(disk, to, n)
             turned == RecordFailures(moved, 1, size)
             again == RecordFailures(turned, 1, size)
  <2>2. /\ to \in JournalStates /\ to \in {"RollingBack", "Restoring"} /\ n \in Nat
        /\ disk.t + n <= 7 + 3 * disk.f /\ disk.t \in Nat
    <3>1. disk.state \in {"IntentDurable", "Applying"} /\ (disk.state = "IntentDurable" => n = 2)
      BY <2>1
    <3>2. disk.t \in Nat /\ disk.f \in Nat
      BY <1>t DEF Journals
    <3>3. n \in 1..2
      OBVIOUS
    <3>4. Margin(disk.state) = IF disk.state = "IntentDurable" THEN 4 ELSE 5
      BY <3>1 DEF Margin
    <3>5. disk.t <= Margin(disk.state) + 3 * disk.f
      BY <1>t DEF Within
    <3>6. disk.t + n <= 7 + 3 * disk.f
      BY <3>2, <3>3, <3>4, <3>5
    <3>7. to \in {"RollingBack", "Restoring"}
      OBVIOUS
    <3>8. {"RollingBack", "Restoring"} \subseteq JournalStates
      BY DEF JournalStates, Unfinished, Resting
    <3> QED
      BY <3>2, <3>3, <3>6, <3>7, <3>8
  <2>3. moved \in Journals /\ moved.state = to /\ moved.t = disk.t + n /\ moved.f = disk.f
    <3> HIDE DEF to
    <3> QED
      BY <1>t, <2>2, TransitionCounts
  <2> HIDE DEF moved
  <2>4. turned \in Journals /\ turned.state = to /\ turned.t = disk.t + n /\ turned.f = disk.f + 1
    BY <2>3, RecordFailuresCounts
  <2> HIDE DEF turned
  <2>5. again \in Journals /\ again.state = to /\ again.t = disk.t + n /\ again.f = disk.f + 2
    <3>1. /\ again \in Journals /\ again.state = turned.state /\ again.t = turned.t
          /\ again.f = turned.f + 1
      BY <2>4, RecordFailuresCounts
    <3> HIDE DEF again, to
    <3> QED
      BY <1>t, <2>4, <3>1
  <2> HIDE DEF again, to
  <2>6. Within(turned) /\ Within(again)
    BY <1>t, <2>2, <2>4, <2>5 DEF Within, Margin
  <2>7. Persist(turned, ok) /\ mem' = IF ok THEN turned ELSE again
    BY <2>1 DEF turned, again, moved, to
  <2>8. disk' \in Journals /\ Within(disk') /\ disk'.f <= MaxFailures
    BY <2>4, <2>6, <2>7, PersistKeeps
  <2>9. mem' \in Journals /\ Within(mem') /\ mem'.state \in {"RollingBack", "Restoring"}
    BY <2>2, <2>4, <2>5, <2>6, <2>7
  <2> QED
    BY <1>2, <2>8, <2>9 DEF RollbackPass, JournalInv, JournalTypeInv, Within
<1>3. CASE SkipOperation
  <2>1. /\ mem' \in Journals /\ Within(mem') /\ mem'.state = mem.state /\ failed' \in Nat
    <3>1. CASE UNCHANGED mem /\ failed' \in {failed, failed + 1}
      BY <3>1, <1>3, <1>t, <1>p DEF SkipOperation, Within
    <3>2. CASE failed' = failed + 1 /\ \E size \in FailureBytes : mem' = RecordFailures(mem, 1, size)
      <4>1. PICK size \in FailureBytes : mem' = RecordFailures(mem, 1, size)
        BY <3>2
      <4>a. /\ RecordFailures(mem, 1, size) \in Journals
            /\ RecordFailures(mem, 1, size).state = mem.state
            /\ RecordFailures(mem, 1, size).t = mem.t
            /\ RecordFailures(mem, 1, size).f = mem.f + 1
        BY <1>t, RecordFailuresCounts
      <4>2. mem' \in Journals /\ mem'.state = mem.state /\ mem'.t = mem.t /\ mem'.f = mem.f + 1
        BY <4>1, <4>a
      <4> QED
        BY <3>2, <4>2, <1>3, <1>t, <1>p DEF SkipOperation, Within, Margin
    <3> QED
      BY <1>3, <3>1, <3>2 DEF SkipOperation
  <2> QED
    BY <1>3, <2>1, <1>p DEF SkipOperation, JournalInv, JournalTypeInv, Within
<1>4. CASE BeginOperation
  <2> DEFINE begun == [mem EXCEPT !.ops[index] = "restoring"]
  <2>1. PICK ok \in BOOLEAN, size \in FailureBytes :
          /\ Persist(begun, ok)
          /\ mem' = IF ok THEN begun ELSE RecordFailures(begun, 1, size)
          /\ failed' = IF ok THEN failed ELSE failed + 1
    BY <1>4 DEF BeginOperation
  <2>2. begun \in Journals /\ begun.state = mem.state /\ begun.t = mem.t /\ begun.f = mem.f
    BY <1>t, MarkCounts DEF Known
  <2> HIDE DEF begun
  <2>3. /\ RecordFailures(begun, 1, size) \in Journals
        /\ RecordFailures(begun, 1, size).state = mem.state
        /\ RecordFailures(begun, 1, size).t = mem.t
        /\ RecordFailures(begun, 1, size).f = mem.f + 1
    BY <2>2, RecordFailuresCounts
  <2>4. Within(begun) /\ Within(RecordFailures(begun, 1, size))
    BY <1>4, <1>t, <1>p, <2>2, <2>3 DEF BeginOperation, Within, Margin
  <2>5. disk' \in Journals /\ Within(disk') /\ disk'.f <= MaxFailures
    BY <2>1, <2>2, <2>4, PersistKeeps
  <2>6. mem' \in Journals /\ Within(mem') /\ mem'.state = mem.state /\ failed' \in Nat
    BY <1>t, <2>1, <2>2, <2>3, <2>4
  <2> QED
    BY <1>4, <1>p, <2>5, <2>6 DEF BeginOperation, JournalInv, JournalTypeInv, Within
<1>5. CASE Restores
  <2> DEFINE finished == [mem EXCEPT !.ops[index] = "restored"]
  <2>1. PICK ok \in BOOLEAN, size \in FailureBytes :
          /\ Persist(finished, ok)
          /\ mem' = IF ok THEN finished ELSE RecordFailures(finished, 1, size)
          /\ failed' = IF ok THEN failed ELSE failed + 1
    BY <1>5 DEF Restores
  <2>2. finished \in Journals /\ finished.state = mem.state /\ finished.t = mem.t /\ finished.f = mem.f
    BY <1>t, MarkCounts DEF Known
  <2> HIDE DEF finished
  <2>3. /\ RecordFailures(finished, 1, size) \in Journals
        /\ RecordFailures(finished, 1, size).state = mem.state
        /\ RecordFailures(finished, 1, size).t = mem.t
        /\ RecordFailures(finished, 1, size).f = mem.f + 1
    BY <2>2, RecordFailuresCounts
  <2>4. Within(finished) /\ Within(RecordFailures(finished, 1, size))
    BY <1>5, <1>t, <1>p, <2>2, <2>3 DEF Restores, Within, Margin
  <2>5. disk' \in Journals /\ Within(disk') /\ disk'.f <= MaxFailures
    BY <2>1, <2>2, <2>4, PersistKeeps
  <2>6. mem' \in Journals /\ Within(mem') /\ mem'.state = mem.state /\ failed' \in Nat
    BY <1>t, <2>1, <2>2, <2>3, <2>4
  <2> QED
    BY <1>5, <1>p, <2>5, <2>6 DEF Restores, JournalInv, JournalTypeInv, Within
<1>6. CASE OperationFails
  <2>1. PICK ok \in BOOLEAN, size \in FailureBytes :
          mem' = FailRestore(mem, index, size) /\ Persist(mem', ok)
    BY <1>6 DEF OperationFails
  <2>2. mem' \in Journals /\ mem'.state = mem.state /\ mem'.t = mem.t /\ mem'.f = mem.f + 1
    BY <2>1, <1>t, FailRestoreCounts
  <2>3. Within(mem')
    BY <1>6, <1>t, <1>p, <2>2 DEF OperationFails, Within, Margin
  <2>4. disk' \in Journals /\ Within(disk') /\ disk'.f <= MaxFailures
    BY <2>1, <2>2, <2>3, PersistKeeps
  <2> QED
    BY <1>6, <1>t, <1>p, <2>2, <2>3, <2>4 DEF OperationFails, JournalInv, JournalTypeInv, Within
<1>7. CASE FinishClean
  <2>1. mem' = Transition(mem, "Restored", 1) /\ \E ok \in BOOLEAN : Persist(mem', ok)
    BY <1>7 DEF FinishClean
  <2>0. "Restored" \in JournalStates /\ 1 \in Nat
    BY DEF JournalStates
  <2>2. mem' \in Journals /\ mem'.state = "Restored" /\ mem'.t = mem.t + 1 /\ mem'.f = mem.f
    <3>1. mem' = Transition(mem, "Restored", 1)
      BY <2>1
    <3>2. mem \in Journals
      BY <1>t
    <3> QED
      BY <2>0, <3>1, <3>2, TransitionCounts
  <2>3. Within(mem')
    BY <1>7, <1>t, <1>p, <2>2 DEF FinishClean, Within, Margin
  <2>4. disk' \in Journals /\ Within(disk') /\ disk'.f <= MaxFailures
    BY <2>1, <2>2, <2>3, PersistKeeps
  <2> QED
    BY <1>7, <2>2, <2>4 DEF FinishClean, JournalInv, JournalTypeInv, Within
<1>8. CASE FinishFailed
  <2>1. PICK size \in FailureBytes :
          mem' = LET degraded == Transition(RecordFailures(mem, failed, size), "Degraded", 1)
                 IN  IF doubt THEN Transition(degraded, "RecoveryPending", 1) ELSE degraded
    BY <1>8 DEF FinishFailed
  <2> DEFINE told == RecordFailures(mem, failed, size)
             degraded == Transition(told, "Degraded", 1)
             pending == Transition(degraded, "RecoveryPending", 1)
  <2>2. told \in Journals /\ told.t = mem.t /\ told.f = mem.f + failed
    BY <1>t, RecordFailuresCounts
  <2> HIDE DEF told
  <2>3. /\ degraded \in Journals /\ degraded.state = "Degraded"
        /\ degraded.t = mem.t + 1 /\ degraded.f = mem.f + failed
    <3>1. "Degraded" \in JournalStates
      BY DEF JournalStates, Unfinished, Resting
    <3>2. degraded \in Journals /\ degraded.state = "Degraded" /\ degraded.t = told.t + 1 /\ degraded.f = told.f
      BY <2>2, <3>1, TransitionCounts
    <3> QED
      BY <2>2, <3>2
  <2> HIDE DEF degraded
  <2>4. /\ pending \in Journals /\ pending.state = "RecoveryPending"
        /\ pending.t = mem.t + 2 /\ pending.f = mem.f + failed
    <3>1. "RecoveryPending" \in JournalStates
      BY DEF JournalStates, Unfinished, Resting
    <3>2. /\ pending \in Journals /\ pending.state = "RecoveryPending"
          /\ pending.t = degraded.t + 1 /\ pending.f = degraded.f
      BY <2>3, <3>1, TransitionCounts
    <3> HIDE DEF pending
    <3> QED
      BY <1>t, <2>3, <3>2
  <2> HIDE DEF pending
  <2>5. failed >= 1 /\ mem.t <= 7 + 3 * mem.f
    BY <1>8, <1>t, <1>p DEF FinishFailed, Within, Margin
  <2>6. Within(degraded) /\ Within(pending)
    BY <1>t, <2>3, <2>4, <2>5 DEF Within, Margin
  <2>7. mem' \in {degraded, pending}
    BY <2>1 DEF told, degraded, pending
  <2>8. mem' \in Journals /\ Within(mem')
    BY <2>3, <2>4, <2>6, <2>7
  <2>9. disk' \in Journals /\ Within(disk') /\ disk'.f <= MaxFailures
    <3>1. PICK ok \in BOOLEAN : Persist(mem', ok)
      BY <1>8 DEF FinishFailed
    <3> QED
      BY <3>1, <2>8, PersistKeeps
  <2> QED
    BY <1>8, <1>t, <2>8, <2>9 DEF FinishFailed, JournalInv, JournalTypeInv, Within
<1>9. CASE PassCrash
  BY <1>9, <1>t DEF PassCrash, JournalInv, JournalTypeInv, Within
<1>10. CASE UNCHANGED journalVars
  BY <1>10 DEF journalVars, JournalInv, JournalTypeInv, Within
<1> QED
  BY <1>1, <1>2, <1>3, <1>4, <1>5, <1>6, <1>7, <1>8, <1>9, <1>10 DEF GrowthNext

LEMMA JournalEnough == JournalInv => CleanPassFits
<1> SUFFICES ASSUME JournalInv PROVE CleanPassFits
  OBVIOUS
<1>1. /\ disk.state \in JournalStates /\ disk.t \in Nat /\ disk.f \in Nat
      /\ disk.t <= Margin(disk.state) + 3 * disk.f /\ disk.f <= MaxFailures
  BY DEF JournalInv, JournalTypeInv, Journals, Within
<1>2. Margin(disk.state) \in Nat /\ Need(disk.state) \in Nat /\ Margin(disk.state) + Need(disk.state) <= 8
  BY <1>1 DEF Margin, Need, JournalStates, Unfinished, Resting
<1> QED
  BY <1>1, <1>2, BoundsAssumption DEF CleanPassFits

(* However many restore passes of restore_record and rollback_after_failure  *)
(* fail, crash or cannot be journaled, the stored record has room for the    *)
(* transitions of one that succeeds (MAX_TRANSITIONS, MAX_FAILURES).         *)
THEOREM RestoreIsNeverBlocked == GrowthSpec => []CleanPassFits
<1>1. JournalInv /\ [GrowthNext]_journalVars => JournalInv'
  BY JournalStep
<1> QED
  BY JournalInit, JournalEnough, <1>1, PTL DEF GrowthSpec

-----------------------------------------------------------------------------
(* FileStateStore implements RecordStore, for every set of sessions and of   *)
(* records and any number of calls and faults.                               *)
(*                                                                           *)
(* The refinement needs to know, of every access of write_atomic and         *)
(* remove, what the ones before it established: data is synced before it     *)
(* is renamed, so no name ever leads to a torn file; a file created during   *)
(* the call can only have been taken away since the last check; and once     *)
(* the directory is synced the disk agrees with the name.                    *)

Contents == Records \cup {None, Foreign}

Early == {"check", "open", "write", "sync", "recheck", "rename"}
Late == {"postcheck", "syncdir", "answer"}

StoreTypeInv ==
    /\ file \in [Sessions -> Contents]
    /\ saved \in [Sessions -> Contents]
    /\ soft = {}
    /\ access \in {"idle", "unlink"} \cup Early \cup Late

(* The call under way, and whether it has renamed or unlinked. *)
CallInv ==
    /\ access = "idle" => req = NoRequest /\ done = FALSE
    /\ access # "idle" => req \in Calls
    /\ access \in Early => req.kind \in {"create", "replace"} /\ done = FALSE
    /\ access = "unlink" => req.kind = "remove" /\ done = FALSE
    /\ access \in Late => done = TRUE

(* What the accesses so far have established. *)
ProgressInv ==
    /\ access \in {"recheck", "rename"} => tmp = "synced"
    /\ access = "rename" /\ req.kind = "create" => file[req.session] \in {None, Foreign}
    /\ access \in Late => file[req.session] \in {req.record, None, Foreign}
    /\ access = "answer" => saved[req.session] = file[req.session]

StoreInv == StoreTypeInv /\ CallInv /\ ProgressInv

-----------------------------------------------------------------------------
LEMMA CallFacts ==
    ASSUME NEW r \in Calls
    PROVE  /\ r # NoRequest /\ r.session \in Sessions
           /\ r.kind = "remove" => r.record = None
           /\ r.kind # "remove" => r.record \in Records /\ r.kind \in {"create", "replace"}
           /\ r.record \in Contents
BY DEF Calls, NoRequest, Contents

LEMMA StoreInitInv == StoreInit => StoreInv /\ Store!Init
BY DEF StoreInit, StoreInv, StoreTypeInv, CallInv, ProgressInv, Contents, Early, Late,
       Store!Init, Store!None, Store!NoRequest, NoRequest, None

(* A call that fails before or after it took effect.                         *)
LEMMA FailedStep ==
    ASSUME StoreInv, access # "idle", Failed
    PROVE  StoreInv' /\ Store!Fail
<1>1. req # NoRequest
  BY CallFacts DEF StoreInv, CallInv
<1>2. StoreInv'
  BY DEF Failed, Return, StoreInv, StoreTypeInv, CallInv, ProgressInv, Early, Late
<1>3. Store!Fail
  BY <1>1 DEF Failed, Return, Store!Fail, Store!NoRequest, NoRequest
<1> QED
  BY <1>2, <1>3

(* An access that changes nothing a reader of the store sees.                *)
LEMMA ProceedStep ==
    ASSUME StoreInv, NEW next, Proceed(next), UNCHANGED file
    PROVE  UNCHANGED Store!storeVars
BY DEF Proceed, Store!storeVars

LEMMA StoreStep ==
    ASSUME StoreInv, [StoreNext]_storeVars
    PROVE  StoreInv' /\ [Store!Next]_Store!storeVars
<1> USE DEF StoreInv
<1>n. None \notin Records /\ Foreign \notin Records /\ None # Foreign
  BY RecordsAssumption DEF None, Foreign
<1>c. access # "idle" => /\ req \in Calls /\ req # NoRequest /\ req.session \in Sessions
                         /\ req.record \in Contents
  BY CallFacts DEF CallInv
<1>f. ASSUME access # "idle", Failed PROVE StoreInv' /\ [Store!Next]_Store!storeVars
  BY <1>f, FailedStep DEF Store!Next
<1>1. ASSUME NEW r \in Calls, Begin(r) PROVE StoreInv' /\ [Store!Next]_Store!storeVars
  <2>1. r.kind \in {"create", "replace", "remove"}
    BY CallFacts
  <2>2. StoreInv'
    BY <1>1, <2>1 DEF Begin, StoreTypeInv, CallInv, ProgressInv, Early, Late
  <2>3. r \in Store!Requests
    BY DEF Calls, Store!Requests, None, Store!None
  <2>4. Store!Begin
    BY <1>1, <2>3 DEF Begin, CallInv, Store!Begin, Store!NoRequest, NoRequest
  <2> QED
    BY <2>2, <2>4 DEF Store!Next
<1>2. CASE CheckTarget
  <2>1. CASE Failed
    BY <1>2, <1>f, <2>1 DEF CheckTarget
  <2>2. CASE Proceed("open") /\ UNCHANGED <<file, soft, tmp>>
    BY <1>2, <2>2, ProceedStep DEF CheckTarget, Proceed, StoreTypeInv, CallInv, ProgressInv, Early, Late
  <2> QED
    BY <1>2, <2>1, <2>2 DEF CheckTarget
<1>3. CASE OpenTemporary
  <2>1. CASE Failed
    BY <1>3, <1>f, <2>1 DEF OpenTemporary
  <2>2. CASE Proceed("write") /\ UNCHANGED <<file, soft>>
    BY <1>3, <2>2, ProceedStep DEF OpenTemporary, Proceed, StoreTypeInv, CallInv, ProgressInv, Early, Late
  <2> QED
    BY <1>3, <2>1, <2>2 DEF OpenTemporary
<1>4. CASE WriteAll
  <2>1. CASE Failed
    BY <1>4, <1>f, <2>1 DEF WriteAll
  <2>2. CASE Proceed("sync") /\ UNCHANGED <<file, soft>>
    BY <1>4, <2>2, ProceedStep DEF WriteAll, Proceed, StoreTypeInv, CallInv, ProgressInv, Early, Late
  <2> QED
    BY <1>4, <2>1, <2>2 DEF WriteAll
<1>5. CASE SyncAll
  <2>1. CASE Failed
    BY <1>5, <1>f, <2>1 DEF SyncAll
  <2>2. CASE tmp' = "synced" /\ Proceed("recheck") /\ UNCHANGED <<file, soft>>
    BY <1>5, <2>2, ProceedStep DEF SyncAll, Proceed, StoreTypeInv, CallInv, ProgressInv, Early, Late
  <2> QED
    BY <1>5, <2>1, <2>2 DEF SyncAll
<1>6. CASE Recheck
  <2>1. CASE Failed
    BY <1>6, <1>f, <2>1 DEF Recheck
  <2>2. CASE TargetValid /\ Proceed("rename") /\ UNCHANGED <<file, soft, tmp>>
    BY <1>6, <2>2, ProceedStep
       DEF Recheck, TargetValid, Proceed, StoreTypeInv, CallInv, ProgressInv, Early, Late
  <2> QED
    BY <1>6, <2>1, <2>2 DEF Recheck
<1>7. CASE Rename
  <2>1. CASE Failed
    BY <1>7, <1>f, <2>1 DEF Rename
  <2>2. CASE /\ file' = [file EXCEPT ![req.session] = req.record]
             /\ soft' = IF tmp = "synced" THEN soft \ {req.session} ELSE soft \cup {req.session}
             /\ tmp' = "none" /\ done' = TRUE
             /\ access' = "postcheck"
             /\ UNCHANGED <<req, reply, calls, saved, load, faults, litter>>
    <3>1. access = "rename" /\ tmp = "synced" /\ ~done
      BY <1>7 DEF Rename, CallInv, ProgressInv, Early
    <3>2. StoreTypeInv' /\ file'[req.session] = req.record
      BY <1>c, <2>2, <3>1 DEF StoreTypeInv, Late
    <3>3. CallInv' /\ ProgressInv'
      BY <1>c, <2>2, <3>1, <3>2 DEF CallInv, ProgressInv, Early, Late
    <3>4. req.kind = "create" => file[req.session] \notin Records
      BY <1>n, <3>1 DEF ProgressInv
    <3>5. Store!Commit
      BY <1>c, <2>2, <3>1, <3>4 DEF Store!Commit, Store!NoRequest, NoRequest
    <3> QED
      BY <3>2, <3>3, <3>5 DEF Store!Next
  <2> QED
    BY <1>7, <2>1, <2>2 DEF Rename
<1>8. CASE PostCheck
  <2>1. CASE Failed
    BY <1>8, <1>f, <2>1 DEF PostCheck
  <2>2. CASE Proceed("syncdir") /\ UNCHANGED <<file, soft, tmp>>
    BY <1>8, <2>2, ProceedStep DEF PostCheck, Proceed, StoreTypeInv, CallInv, ProgressInv, Early, Late
  <2> QED
    BY <1>8, <2>1, <2>2 DEF PostCheck
<1>9. CASE SyncDirectory
  <2>1. CASE Failed
    BY <1>9, <1>f, <2>1 DEF SyncDirectory
  <2>2. CASE /\ saved' = file /\ access' = "answer"
             /\ UNCHANGED <<req, done, reply, calls, file, soft, tmp, litter, load, faults>>
    <3>1. StoreInv'
      BY <1>9, <2>2 DEF SyncDirectory, StoreTypeInv, CallInv, ProgressInv, Early, Late
    <3>2. Store!Persist
      BY <2>2 DEF Store!Persist
    <3> QED
      BY <3>1, <3>2 DEF Store!Next
  <2> QED
    BY <1>9, <2>1, <2>2 DEF SyncDirectory
<1>10. CASE Answer
  <2>1. StoreInv'
    BY <1>10 DEF Answer, Return, StoreTypeInv, CallInv, ProgressInv, Early, Late
  <2>2. /\ file[req.session] \in {req.record, None, Foreign}
        /\ saved[req.session] = file[req.session]
    BY <1>10 DEF Answer, ProgressInv, Late
  <2>3. Store!Succeed
    BY <1>10, <1>c, <2>2
       DEF Answer, Return, Store!Succeed, Store!NoRequest, NoRequest, Store!None, Store!Foreign, None, Foreign
  <2> QED
    BY <2>1, <2>3 DEF Store!Next
<1>11. CASE UnlinkFile
  <2>0. access = "unlink" /\ req.kind = "remove" /\ ~done /\ req.record = None
    BY <1>11, <1>c, CallFacts DEF UnlinkFile, CallInv
  <2>1. CASE Failed
    BY <1>f, <2>0, <2>1
  <2>2. CASE /\ file' = [file EXCEPT ![req.session] = None]
             /\ soft' = soft \ {req.session}
             /\ done' = TRUE /\ access' = "syncdir"
             /\ UNCHANGED <<req, reply, calls, saved, tmp, litter, load, faults>>
    <3>1. StoreTypeInv' /\ file'[req.session] = None
      BY <1>c, <2>0, <2>2 DEF StoreTypeInv, Contents, Late
    <3>2. CallInv' /\ ProgressInv'
      BY <1>c, <2>0, <2>2, <3>1 DEF CallInv, ProgressInv, Early, Late
    <3>3. Store!Commit
      BY <1>c, <2>0, <2>2 DEF Store!Commit, Store!NoRequest, NoRequest
    <3> QED
      BY <3>1, <3>2, <3>3 DEF Store!Next
  <2>3. CASE file[req.session] = None /\ Return("ok") /\ UNCHANGED <<file, saved, soft, tmp, litter, load, faults>>
    <3>1. StoreInv'
      BY <2>3 DEF Return, StoreTypeInv, CallInv, ProgressInv, Early, Late
    <3>2. Store!Succeed
      BY <1>c, <2>0, <2>3 DEF Return, Store!Succeed, Store!NoRequest, NoRequest, Store!None, None
    <3> QED
      BY <3>1, <3>2 DEF Store!Next
  <2> QED
    BY <1>11, <2>1, <2>2, <2>3 DEF UnlinkFile
<1>12. ASSUME UNCHANGED <<file, saved, soft, tmp, litter, callVars, faults>>
       PROVE  StoreInv' /\ [Store!Next]_Store!storeVars
  BY <1>12 DEF callVars, StoreTypeInv, CallInv, ProgressInv, Store!storeVars
<1>13. CASE LoadBegin \/ LoadEnd \/ \E s \in Sessions : LoadEntry(s)
  BY <1>12, <1>13 DEF LoadBegin, LoadEnd, LoadEntry
<1>14. ASSUME NEW s \in Sessions, Interfere(s) PROVE StoreInv' /\ [Store!Next]_Store!storeVars
  <2>1. PICK x \in {None, Foreign} : file' = [file EXCEPT ![s] = x]
    BY <1>14 DEF Interfere
  <2>2. saved' = [saved EXCEPT ![s] = x] /\ soft' = soft \ {s} /\ UNCHANGED <<req, access, done, reply, calls, tmp>>
    BY <1>14, <2>1 DEF Interfere, StoreTypeInv, callVars
  <2>3. StoreTypeInv'
    BY <2>1, <2>2 DEF StoreTypeInv, Contents
  <2>4. CallInv'
    BY <2>2 DEF CallInv
  <2>5. access # "idle" => /\ file'[req.session] \in {file[req.session], None, Foreign}
                           /\ saved[req.session] = file[req.session] => saved'[req.session] = file'[req.session]
    BY <1>c, <2>1, <2>2 DEF StoreTypeInv
  <2>6. ProgressInv'
    BY <2>2, <2>5 DEF ProgressInv, Late
  <2>7. Store!Interfere(s)
    BY <2>1, <2>2 DEF StoreTypeInv, Store!Interfere, Store!None, Store!Foreign, None, Foreign
  <2> QED
    BY <2>3, <2>4, <2>6, <2>7 DEF Store!Next
<1>15. CASE StoreCrash
  <2>1. StoreInv'
    BY <1>15 DEF StoreCrash, Return, StoreTypeInv, CallInv, ProgressInv, Early, Late
  <2>2. Store!Fail
    BY <1>15, <1>c DEF StoreCrash, Return, Store!Fail, Store!NoRequest, NoRequest
  <2> QED
    BY <2>1, <2>2 DEF Store!Next
<1>16. CASE LosePower
  <2>1. PICK kept \in SUBSET Sessions :
          file' = [s \in Sessions |-> IF s \notin kept THEN saved[s] ELSE file[s]]
    BY <1>16 DEF LosePower, StoreTypeInv
  <2>2. /\ file' \in [Sessions -> Contents] /\ \A s \in Sessions : file'[s] \in {file[s], saved[s]}
        /\ saved' = file' /\ soft' = {} /\ Return("none")
    BY <1>16, <2>1 DEF LosePower, StoreTypeInv
  <2>3. StoreInv'
    BY <2>2 DEF Return, StoreTypeInv, CallInv, ProgressInv, Early, Late
  <2>4. Store!LosePower
    BY <2>2 DEF Return, Store!LosePower, Store!NoRequest, NoRequest, Contents, Store!None, Store!Foreign, None, Foreign
  <2> QED
    BY <2>3, <2>4 DEF Store!Next
<1>17. CASE UNCHANGED storeVars
  BY <1>12, <1>17 DEF storeVars, callVars
<1> QED
  BY <1>1, <1>2, <1>3, <1>4, <1>5, <1>6, <1>7, <1>8, <1>9, <1>10, <1>11, <1>13, <1>14, <1>15, <1>16, <1>17 DEF StoreNext

(* write_atomic, remove and load_unfinished are a store of whole records:    *)
(* with failing accesses, crashes, losses of power and interference at any   *)
(* access, every step is a step of RecordStore or changes nothing it shows.  *)
THEOREM StoreImplemented == StoreSpec => StoreIsAtomic
<1>1. StoreInit => StoreInv /\ Store!Init
  BY StoreInitInv
<1>2. StoreInv /\ [StoreNext]_storeVars => StoreInv' /\ [Store!Next]_Store!storeVars
  BY StoreStep
<1> QED
  BY <1>1, <1>2, PTL DEF StoreSpec, StoreIsAtomic, Store!Spec

-----------------------------------------------------------------------------
(* load_unfinished: of the sessions nobody interfered with, those still to   *)
(* be read have a file, and those that were read are found rightly.          *)

Loads == [on : BOOLEAN, left : SUBSET Sessions, found : SUBSET Sessions,
          result : {"none", "loaded", "refused", "faulted"}, moved : SUBSET Sessions]

LoadInv ==
    /\ load \in Loads
    /\ load.on \/ load.result # "none" => access = "idle"
    /\ load.on => load.result = "none"
    /\ load.on => \A s \in Sessions \ load.moved :
          IF s \in load.left THEN file[s] # None /\ s \notin load.found
          ELSE s \in load.found <=> file[s] \in Records \ Finished
    /\ LoadIsExact

(* A load that has not begun says nothing.                                   *)
LEMMA NoLoadHolds ==
    ASSUME load' = NoLoad \/ (UNCHANGED load /\ ~load.on /\ load.result = "none"), LoadInv
    PROVE  LoadInv'
<1>1. load' \in Loads /\ ~load'.on /\ load'.result = "none"
  <2>1. CASE load' = NoLoad
    BY <2>1 DEF NoLoad, Loads
  <2>2. CASE UNCHANGED load /\ ~load.on /\ load.result = "none"
    BY <2>2 DEF LoadInv
  <2> QED
    BY <2>1, <2>2
<1> QED
  BY <1>1 DEF LoadInv, LoadIsExact

LEMMA LoadInit == StoreInit => LoadInv
BY DEF StoreInit, LoadInv, LoadIsExact, NoLoad, Loads

LEMMA LoadEntryKeeps ==
    ASSUME StoreInv, LoadInv, NEW s \in Sessions, LoadEntry(s)
    PROVE  LoadInv'
<1>1. load \in Loads /\ load.on /\ s \in load.left /\ load.result = "none" /\ UNCHANGED <<file, access>>
  BY DEF LoadEntry, LoadInv, callVars
<1>2. file[s] \in Contents
  BY DEF StoreInv, StoreTypeInv
<1>3. CASE /\ file[s] \in Records
           /\ load' = [load EXCEPT !.left = @ \ {s},
                                   !.found = IF file[s] \in Finished THEN @ ELSE @ \cup {s}]
  <2>1. /\ load' \in Loads /\ load'.on /\ load'.result = "none" /\ load'.moved = load.moved
        /\ load'.left = load.left \ {s}
        /\ load'.found = IF file[s] \in Finished THEN load.found ELSE load.found \cup {s}
    BY <1>1, <1>3 DEF Loads
  <2>2. ASSUME NEW t \in Sessions \ load.moved
        PROVE  IF t \in load'.left THEN file[t] # None /\ t \notin load'.found
               ELSE t \in load'.found <=> file[t] \in Records \ Finished
    <3>1. IF t \in load.left THEN file[t] # None /\ t \notin load.found
          ELSE t \in load.found <=> file[t] \in Records \ Finished
      BY <1>1 DEF LoadInv
    <3>2. CASE t = s
      BY <1>1, <1>3, <2>1, <3>1, <3>2
    <3>3. CASE t # s
      BY <2>1, <3>1, <3>3
    <3> QED
      BY <3>2, <3>3
  <2> QED
    BY <1>1, <2>1, <2>2 DEF LoadInv, LoadIsExact
<1>4. CASE file[s] \notin Records /\ load' = [load EXCEPT !.on = FALSE, !.result = "refused"]
  <2>1. load' \in Loads /\ ~load'.on /\ load'.result = "refused" /\ load'.moved = load.moved
    BY <1>1, <1>4 DEF Loads
  <2>2. load.moved # {} \/ file[s] = Foreign
    BY <1>1, <1>2, <1>4 DEF LoadInv, Contents
  <2> QED
    BY <1>1, <2>1, <2>2 DEF LoadInv, LoadIsExact
<1>5. CASE load' = [load EXCEPT !.on = FALSE, !.result = "faulted"]
  <2>1. load' \in Loads /\ ~load'.on /\ load'.result = "faulted"
    BY <1>1, <1>5 DEF Loads
  <2> QED
    BY <1>1, <2>1 DEF LoadInv, LoadIsExact
<1> QED
  BY <1>3, <1>4, <1>5 DEF LoadEntry

LEMMA LoadStep ==
    ASSUME StoreInv, LoadInv, [StoreNext]_storeVars
    PROVE  LoadInv'
<1>i. access # "idle" => ~load.on /\ load.result = "none"
  BY DEF LoadInv
<1>1. CASE \E r \in Calls : Begin(r)
  BY <1>1, NoLoadHolds DEF Begin
<1>2. CASE CheckTarget \/ OpenTemporary \/ WriteAll \/ SyncAll \/ Recheck
  <2>1. access # "idle" /\ UNCHANGED load
    BY <1>2 DEF CheckTarget, OpenTemporary, WriteAll, SyncAll, Recheck, Failed, Proceed
  <2> QED
    BY <1>i, <2>1, NoLoadHolds
<1>3. CASE Rename \/ PostCheck \/ SyncDirectory \/ Answer \/ UnlinkFile \/ StoreCrash
  <2>1. access # "idle" /\ UNCHANGED load
    BY <1>3 DEF Rename, PostCheck, SyncDirectory, Answer, UnlinkFile, StoreCrash, Failed, Proceed
  <2> QED
    BY <1>i, <2>1, NoLoadHolds
<1>4. CASE LosePower
  BY <1>4, NoLoadHolds DEF LosePower
<1>5. CASE LoadBegin
  <2>1. load' = [on |-> TRUE, left |-> {s \in Sessions : file[s] # None}, found |-> {},
                 result |-> "none", moved |-> {}]
    BY <1>5 DEF LoadBegin, NoLoad
  <2>2. UNCHANGED <<file, access>> /\ access = "idle"
    BY <1>5 DEF LoadBegin, callVars
  <2>3. None \notin Records
    BY RecordsAssumption DEF None
  <2> QED
    BY <2>1, <2>2, <2>3 DEF LoadInv, LoadIsExact, Loads
<1>6. CASE LoadEnd
  <2>1. UNCHANGED <<file, access>> /\ load.on /\ load.left = {} /\ load \in Loads /\ access = "idle"
    BY <1>6 DEF LoadEnd, LoadInv, callVars
  <2>2. /\ load' \in Loads /\ ~load'.on /\ load'.result = "loaded"
        /\ load'.moved = load.moved /\ load'.found = load.found
    BY <1>6, <2>1 DEF LoadEnd, Loads
  <2> QED
    BY <2>1, <2>2 DEF LoadInv, LoadIsExact
<1>7. CASE \E s \in Sessions : LoadEntry(s)
  BY <1>7, LoadEntryKeeps
<1>8. ASSUME NEW s \in Sessions, Interfere(s) PROVE LoadInv'
  <2>1. /\ load \in Loads /\ UNCHANGED access
        /\ \A t \in Sessions : t # s => file'[t] = file[t]
    BY <1>8 DEF Interfere, LoadInv, callVars, StoreInv, StoreTypeInv
  <2>2. /\ load' \in Loads /\ load'.moved = load.moved \cup {s}
        /\ load'.on = load.on /\ load'.left = load.left /\ load'.found = load.found
        /\ load'.result = load.result
    BY <1>8, <2>1 DEF Interfere, Loads
  <2> QED
    BY <2>1, <2>2 DEF LoadInv, LoadIsExact
<1>9. CASE UNCHANGED storeVars
  BY <1>9 DEF storeVars, LoadInv, LoadIsExact
<1> QED
  BY <1>1, <1>2, <1>3, <1>4, <1>5, <1>6, <1>7, <1>8, <1>9 DEF StoreNext

(* load_unfinished finds exactly the sessions that are not restored, and     *)
(* refuses only what somebody else put in place of a state file.             *)
THEOREM LoadsAreExact == StoreSpec => []LoadIsExact
<1>1. StoreInit => StoreInv /\ LoadInv
  BY StoreInitInv, LoadInit
<1>2. StoreInv /\ LoadInv /\ [StoreNext]_storeVars => StoreInv' /\ LoadInv'
  BY StoreStep, LoadStep
<1>3. LoadInv => LoadIsExact
  BY DEF LoadInv
<1> QED
  BY <1>1, <1>2, <1>3, PTL DEF StoreSpec

-----------------------------------------------------------------------------
(* The managed cgroup.  While the helper lives and others leave the name     *)
(* alone during its calls, the group it is about to remove is the one it     *)
(* made: mkdir made what insert_child identifies, that identity is what a    *)
(* restore looks up, and from the lookup to the rmdir the name still leads   *)
(* to it.                                                                    *)

GroupTypeInv ==
    /\ crossed \in BOOLEAN /\ crashes \in BOOLEAN
    /\ where \in {"idle", "snap"} \cup ApplySteps \cup RestoreSteps

(* What the engine knows of the operation while a call is running. *)
GroupPhaseInv ==
    /\ where = "snap" => phase = "planned"
    /\ where \in ApplySteps => phase = "snapshotted"
    /\ where \in RestoreSteps => phase = "applied"

(* Which group the names and identities in use lead to. *)
OwnInv ==
    ~crashes /\ ~crossed =>
        /\ removed \subseteq own
        /\ where \in {"insert", "undo"} => child \in own
        /\ where = "after" \/ phase = "applied" => known \in own \cup {0}
        /\ where \in {"procs", "entries", "rmdir"} => known # 0 /\ child = known

GroupInv == GroupTypeInv /\ GroupPhaseInv /\ OwnInv

LEMMA GroupInitInv == GroupInit => GroupInv
<1> SUFFICES ASSUME GroupInit PROVE GroupInv
  OBVIOUS
<1>1. GroupTypeInv
  BY Zenon DEF GroupInit, GroupTypeInv
<1>2. where = "idle" /\ phase = "planned" /\ removed = {}
  BY DEF GroupInit
<1> QED
  BY <1>1, <1>2 DEF GroupInv, GroupPhaseInv, OwnInv, ApplySteps, RestoreSteps

(* A step that leaves the host and the identity alone and moves the call     *)
(* along or ends it.                                                         *)
LEMMA GroupMoveKeeps ==
    ASSUME GroupInv, UNCHANGED <<child, known, own, crossed, removed, crashes>>,
           where' \in {"idle", "snap"} \cup ApplySteps \cup RestoreSteps,
           GroupPhaseInv',
           where' \notin {"insert", "after"},
           where' = "undo" => where = "insert",
           where' = "procs" => known # 0 /\ child = known,
           where' = "entries" => where = "procs",
           where' = "rmdir" => where = "entries",
           phase' = "applied" => phase = "applied" \/ where = "after"
    PROVE  GroupInv'
<1>1. GroupTypeInv'
  BY DEF GroupInv, GroupTypeInv
<1>2. OwnInv'
  BY DEF GroupInv, OwnInv
<1> QED
  BY <1>1, <1>2 DEF GroupInv

LEMMA GroupErrorKeeps ==
    ASSUME GroupInv, OnError, where # "idle",
           UNCHANGED <<child, known, own, crossed, removed, crashes>>
    PROVE  GroupInv'
<1>1. where' = "idle"
  BY DEF OnError, GroupReturn
<1>2. phase' = "applied" => phase = "applied"
  BY DEF OnError, GroupReturn
<1>3. GroupPhaseInv'
  BY <1>1 DEF GroupPhaseInv, ApplySteps, RestoreSteps
<1> QED
  BY <1>1, <1>2, <1>3, GroupMoveKeeps DEF ApplySteps, RestoreSteps

(* The steps of apply. *)
LEMMA GroupApplyStep ==
    ASSUME GroupInv, UNCHANGED crashes,
           Call \/ InspectionFails \/ SnapshotTaken \/ ApplyChecked
                \/ MakeGroup \/ InsertChild \/ UndoMake \/ ReadBack
    PROVE  GroupInv'
<1> USE DEF hostVars
<1>1. CASE Call
  <2>1. /\ UNCHANGED <<child, known, own, crossed, removed, phase>>
        /\ where' \in {"snap", "apply", "restore"}
        /\ where' = "snap" => phase = "planned"
        /\ where' = "apply" => phase = "snapshotted"
        /\ where' = "restore" => phase = "applied"
    BY <1>1 DEF Call, GroupGoto
  <2>2. GroupPhaseInv'
    BY <2>1 DEF GroupPhaseInv, ApplySteps, RestoreSteps
  <2> QED
    BY <2>1, <2>2, GroupMoveKeeps DEF ApplySteps, RestoreSteps
<1>2. CASE InspectionFails
  BY <1>2, GroupErrorKeeps DEF InspectionFails
<1>3. CASE SnapshotTaken
  <2>1. /\ UNCHANGED <<child, known, own, crossed, removed>>
        /\ where' = "idle" /\ (phase' = phase \/ phase' = "snapshotted")
    BY <1>3 DEF SnapshotTaken, GroupReturn
  <2>2. GroupPhaseInv'
    BY <2>1 DEF GroupPhaseInv, ApplySteps, RestoreSteps
  <2> QED
    BY <2>1, <2>2, GroupMoveKeeps
<1>4. CASE ApplyChecked
  <2>1. where \in {"apply", "exists"} /\ UNCHANGED <<child, known, own, crossed, removed>>
    BY <1>4 DEF ApplyChecked
  <2>2. CASE OnError
    BY <2>1, <2>2, GroupErrorKeeps
  <2>3. CASE ~OnError
    <3>1. where' \in {"exists", "mkdir"} /\ UNCHANGED phase
      BY <1>4, <2>3 DEF ApplyChecked, GroupGoto
    <3>2. GroupPhaseInv'
      BY <2>1, <3>1 DEF GroupInv, GroupPhaseInv, ApplySteps, RestoreSteps
    <3> QED
      BY <2>1, <3>1, <3>2, GroupMoveKeeps DEF ApplySteps, RestoreSteps
  <2> QED
    BY <2>2, <2>3
<1>5. CASE MakeGroup
  <2>1. where = "mkdir" /\ UNCHANGED <<known, crossed, removed>>
    BY <1>5 DEF MakeGroup
  <2>2. CASE Present
    BY <1>5, <2>1, <2>2, GroupErrorKeeps DEF MakeGroup
  <2>3. CASE ~Present
    <3>1. /\ child' = made + 1 /\ own' = own \cup {made + 1}
          /\ where' = "insert" /\ UNCHANGED phase
      BY <1>5, <2>3 DEF MakeGroup, GroupGoto
    <3>2. phase = "snapshotted"
      BY <2>1 DEF GroupInv, GroupPhaseInv, ApplySteps
    <3>3. GroupTypeInv' /\ GroupPhaseInv'
      BY <2>1, <3>1, <3>2 DEF GroupInv, GroupTypeInv, GroupPhaseInv, ApplySteps, RestoreSteps
    <3>4. OwnInv'
      BY <2>1, <3>1, <3>2 DEF GroupInv, OwnInv
    <3> QED
      BY <3>3, <3>4 DEF GroupInv
  <2> QED
    BY <2>2, <2>3
<1>6. CASE InsertChild
  <2>1. where = "insert" /\ UNCHANGED <<child, own, crossed, removed, phase>>
    BY <1>6 DEF InsertChild, GroupGoto
  <2>2. phase = "snapshotted"
    BY <2>1 DEF GroupInv, GroupPhaseInv, ApplySteps
  <2>3. (where' = "after" /\ known' = child) \/ (where' = "undo" /\ UNCHANGED known)
    BY <1>6 DEF InsertChild, GroupGoto
  <2>4. GroupTypeInv' /\ GroupPhaseInv'
    BY <2>1, <2>2, <2>3 DEF GroupInv, GroupTypeInv, GroupPhaseInv, ApplySteps, RestoreSteps
  <2>5. OwnInv'
    BY <2>1, <2>2, <2>3 DEF GroupInv, OwnInv
  <2> QED
    BY <2>4, <2>5 DEF GroupInv
<1>7. CASE UndoMake
  <2>1. where = "undo" /\ UNCHANGED <<known, own, crossed>>
    BY <1>7 DEF UndoMake
  <2>2. where' = "idle" /\ phase' = "failed"
    BY <1>7, <2>1 DEF UndoMake, OnError, GroupReturn, ApplySteps
  <2>3. removed' = removed \/ removed' = removed \cup {child}
    BY <1>7 DEF UndoMake, RemoveDir
  <2>4. GroupTypeInv' /\ GroupPhaseInv'
    BY <2>1, <2>2 DEF GroupInv, GroupTypeInv, GroupPhaseInv, ApplySteps, RestoreSteps
  <2>5. OwnInv'
    BY <2>1, <2>2, <2>3 DEF GroupInv, OwnInv
  <2> QED
    BY <2>4, <2>5 DEF GroupInv
<1>8. CASE ReadBack
  <2>1. where = "after" /\ UNCHANGED <<child, known, own, crossed, removed>>
    BY <1>8 DEF ReadBack
  <2>2. CASE OnError
    BY <2>1, <2>2, GroupErrorKeeps
  <2>3. CASE ~OnError
    <3>1. where' = "idle" /\ phase' = "applied"
      BY <1>8, <2>3 DEF ReadBack, GroupReturn
    <3>2. GroupPhaseInv'
      BY <3>1 DEF GroupPhaseInv, ApplySteps, RestoreSteps
    <3> QED
      BY <2>1, <3>1, <3>2, GroupMoveKeeps
  <2> QED
    BY <2>2, <2>3
<1> QED
  BY <1>1, <1>2, <1>3, <1>4, <1>5, <1>6, <1>7, <1>8

(* The checks of restore, each of which ends the call or moves it along. *)
LEMMA GroupCheckKeeps ==
    ASSUME GroupInv, UNCHANGED <<child, known, own, crossed, removed, crashes, phase>>,
           \/ where = "restore" /\ where' = "lookup"
           \/ where = "lookup" /\ where' = "procs" /\ known # 0 /\ child = known
           \/ where = "procs" /\ where' = "entries"
           \/ where = "entries" /\ where' = "rmdir"
    PROVE  GroupInv'
<1>1. phase = "applied"
  BY DEF GroupInv, GroupPhaseInv, RestoreSteps
<1>2. GroupPhaseInv'
  BY <1>1 DEF GroupPhaseInv, ApplySteps, RestoreSteps
<1> QED
  BY <1>2, GroupMoveKeeps DEF ApplySteps, RestoreSteps

(* The steps of restore. *)
LEMMA GroupRestoreStep ==
    ASSUME GroupInv, UNCHANGED crashes,
           RestoreChecked \/ LookupChild \/ ChildEmpty \/ ChildBare
                \/ RemoveChild \/ ForgetChild \/ RestoreProven
    PROVE  GroupInv'
<1> USE DEF hostVars
<1>1. CASE RestoreChecked \/ LookupChild \/ ChildEmpty \/ ChildBare
  <2>1. where # "idle" /\ UNCHANGED <<child, known, own, crossed, removed>>
    BY <1>1 DEF RestoreChecked, LookupChild, ChildEmpty, ChildBare
  <2>2. CASE OnError
    BY <2>1, <2>2, GroupErrorKeeps
  <2>3. CASE ~OnError
    BY <1>1, <2>1, <2>3, GroupCheckKeeps
       DEF RestoreChecked, LookupChild, ChildEmpty, ChildBare, GroupGoto
  <2> QED
    BY <2>2, <2>3
<1>2. CASE RemoveChild
  <2>1. where = "rmdir" /\ UNCHANGED <<known, own, crossed>>
    BY <1>2 DEF RemoveChild
  <2>2. phase = "applied"
    BY <2>1 DEF GroupInv, GroupPhaseInv, RestoreSteps
  <2>3. CASE Removable
    <3>1. removed' = removed \cup {child} /\ where' = "forget" /\ UNCHANGED phase
      BY <1>2, <2>3 DEF RemoveChild, RemoveDir, GroupGoto
    <3>2. GroupTypeInv' /\ GroupPhaseInv'
      BY <2>1, <2>2, <3>1
         DEF GroupInv, GroupTypeInv, GroupPhaseInv, ApplySteps, RestoreSteps
    <3>3. OwnInv'
      BY <2>1, <2>2, <3>1 DEF GroupInv, OwnInv
    <3> QED
      BY <3>2, <3>3 DEF GroupInv
  <2>4. CASE ~Removable
    BY <1>2, <2>1, <2>4, GroupErrorKeeps DEF RemoveChild
  <2> QED
    BY <2>3, <2>4
<1>3. CASE ForgetChild
  <2>1. /\ where = "forget" /\ where' = "restoreCheck" /\ known' = 0
        /\ UNCHANGED <<child, own, crossed, removed, phase>>
    BY <1>3 DEF ForgetChild, GroupGoto
  <2>2. GroupTypeInv' /\ GroupPhaseInv'
    BY <2>1 DEF GroupInv, GroupTypeInv, GroupPhaseInv, ApplySteps, RestoreSteps
  <2>3. OwnInv'
    BY <2>1 DEF GroupInv, OwnInv
  <2> QED
    BY <2>2, <2>3 DEF GroupInv
<1>4. CASE RestoreProven
  <2>1. where = "restoreCheck" /\ UNCHANGED <<child, known, own, crossed, removed>>
    BY <1>4 DEF RestoreProven
  <2>2. CASE OnError
    BY <2>1, <2>2, GroupErrorKeeps
  <2>3. CASE ~OnError
    <3>1. where' = "idle" /\ phase' = "restored"
      BY <1>4, <2>3 DEF RestoreProven, GroupReturn
    <3>2. GroupPhaseInv'
      BY <3>1 DEF GroupPhaseInv, ApplySteps, RestoreSteps
    <3> QED
      BY <2>1, <3>1, <3>2, GroupMoveKeeps
  <2> QED
    BY <2>2, <2>3
<1> QED
  BY <1>1, <1>2, <1>3, <1>4

(* Crashes, and what others do to the name. *)
LEMMA GroupOthersStep ==
    ASSUME GroupInv, UNCHANGED crashes,
           Restart \/ OtherCreate \/ OtherRemove \/ OtherUse \/ FaultsStop
    PROVE  GroupInv'
<1> USE DEF hostVars
<1>1. CASE Restart
  <2>1. crashes' /\ where' = "idle" /\ crossed' = crossed
    BY <1>1, Zenon DEF Restart
  <2>2. GroupTypeInv' /\ GroupPhaseInv'
    BY <2>1 DEF GroupInv, GroupTypeInv, GroupPhaseInv, ApplySteps, RestoreSteps
  <2>3. OwnInv'
    BY <2>1, Zenon DEF OwnInv
  <2> QED
    BY <2>2, <2>3 DEF GroupInv
<1>2. CASE OtherCreate \/ OtherRemove
  <2>1. /\ UNCHANGED <<known, phase, where, own, removed>>
        /\ crossed' = (crossed \/ where # "idle")
    BY <1>2, Zenon DEF OtherCreate, OtherRemove
  <2>2. crossed' \in BOOLEAN
    BY <2>1, Zenon
  <2>3. GroupTypeInv' /\ GroupPhaseInv'
    BY <2>1, <2>2 DEF GroupInv, GroupTypeInv, GroupPhaseInv
  <2>4. ~crossed' => ~crossed /\ where = "idle"
    BY <2>1, Zenon
  <2>5. OwnInv'
    BY <2>1, <2>4 DEF GroupInv, OwnInv
  <2> QED
    BY <2>3, <2>5 DEF GroupInv
<1>3. CASE OtherUse \/ FaultsStop
  <2>1. UNCHANGED <<child, known, phase, where, own, crossed, removed>>
    BY <1>3 DEF OtherUse, FaultsStop
  <2> QED
    BY <2>1 DEF GroupInv, GroupTypeInv, GroupPhaseInv, OwnInv
<1> QED
  BY <1>1, <1>2, <1>3

(* While the helper lives, restore and the cleanup of a failed creation      *)
(* remove only groups the session made, unless others created or removed the *)
(* name while a call was running.                                            *)
THEOREM RemovesOnlyItsOwn == GroupSpec => []RemovesOwnUnlessRaced
<1>1. ASSUME GroupInv, [GroupNext]_groupVars PROVE GroupInv'
  <2>1. CASE UNCHANGED groupVars
    BY <1>1, <2>1 DEF groupVars, GroupInv, GroupTypeInv, GroupPhaseInv, OwnInv
  <2>2. CASE GroupNext
    BY <1>1, <2>2, GroupApplyStep, GroupRestoreStep, GroupOthersStep DEF GroupNext, GroupStep
  <2> QED
    BY <1>1, <2>1, <2>2
<1>2. GroupInv => RemovesOwnUnlessRaced
  BY DEF GroupInv, OwnInv, RemovesOwnUnlessRaced
<1> QED
  BY <1>1, <1>2, GroupInitInv, PTL DEF GroupSpec
=============================================================================
