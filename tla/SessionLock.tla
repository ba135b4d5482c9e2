---------------------------- MODULE SessionLock ----------------------------
(***************************************************************************)
(* FileSessionLock of sysboost-platform/src/state.rs: the exclusive lease  *)
(* of the mutating coordinator, kept as the file .mutating.lock that names *)
(* its owner.  Every file-system call of acquire, reclaim_stale_lock,      *)
(* remove_file_if_identity and the guard's drop is a step of its own, so   *)
(* that several processes interleave and crash between any two of them.    *)
(*                                                                         *)
(* A process stands for one process generation (pid, start time and boot   *)
(* identity), so a crashed process never comes back.  A file stands for an *)
(* inode of the runtime directory; they are numbered in creation order and *)
(* never reused.  path is the file the name .mutating.lock refers to.      *)
(***************************************************************************)
EXTENDS Naturals, FiniteSets

CONSTANTS
    Procs,      \* process generations
    NoProc,     \* the owner of a file that is still empty
    MaxFiles    \* bound on the lock files ever created

ASSUME NoProcAssumption == NoProc \notin Procs
ASSUME MaxFilesAssumption == MaxFiles \in Nat

Files == 1..MaxFiles
NoFile == 0

VARIABLES
    path,       \* the file at .mutating.lock, or NoFile
    content,    \* the owner written in each file
    created,    \* how many files were ever created
    pc,         \* where each process is
    attempt,    \* the attempt of acquire's loop
    mine,       \* the file the process created last (its guard's identity)
    seen,       \* reclaim_stale_lock: identity
    owner,      \* reclaim_stale_lock: owner
    raced       \* history: some unlink removed a file it had not checked

vars == <<path, content, created, pc, attempt, mine, seen, owner, raced>>
localVars == <<attempt, mine, seen, owner>>

States == {"idle", "open", "write", "held", "stat", "read", "probe", "check",
           "unlink", "dropCheck", "dropUnlink", "failCheck", "failUnlink", "dead"}

(* The process has created its file and not given it up. *)
Possessing == {"write", "held", "dropCheck", "dropUnlink", "failCheck", "failUnlink"}

Init ==
    /\ path = NoFile
    /\ content = [f \in Files |-> NoProc]
    /\ created = 0
    /\ pc = [p \in Procs |-> "idle"]
    /\ attempt = [p \in Procs |-> 1]
    /\ mine = [p \in Procs |-> NoFile]
    /\ seen = [p \in Procs |-> NoFile]
    /\ owner = [p \in Procs |-> NoProc]
    /\ raced = FALSE

Goto(p, to) == pc' = [pc EXCEPT ![p] = to]

(* acquire returns an error, or the guard is gone, and what they knew with it. *)
Forget(p) ==
    /\ attempt' = [attempt EXCEPT ![p] = 1]
    /\ mine' = [mine EXCEPT ![p] = NoFile]
    /\ seen' = [seen EXCEPT ![p] = NoFile]
    /\ owner' = [owner EXCEPT ![p] = NoProc]
GiveUp(p) == Goto(p, "idle") /\ Forget(p)

(* remove_file takes away whatever the name refers to by now. *)
Unlink(checked) ==
    /\ path' = NoFile
    /\ raced' = (raced \/ path \notin {NoFile, checked})

-----------------------------------------------------------------------------
(* acquire *)

Acquire(p) ==
    /\ pc[p] = "idle"
    /\ Goto(p, "open")
    /\ UNCHANGED <<path, content, created, localVars, raced>>

(* open(create_new) makes a new, empty file ... *)
Create(p) ==
    /\ pc[p] = "open"
    /\ path = NoFile
    /\ created < MaxFiles
    /\ created' = created + 1
    /\ path' = created + 1
    /\ mine' = [mine EXCEPT ![p] = created + 1]
    /\ attempt' = [attempt EXCEPT ![p] = 1]
    /\ Goto(p, "write")
    /\ UNCHANGED <<content, seen, owner, raced>>

(* ... or finds one. *)
AlreadyExists(p) ==
    /\ pc[p] = "open"
    /\ path # NoFile
    /\ Goto(p, "stat")
    /\ UNCHANGED <<path, content, created, localVars, raced>>

(* The owner is written and synced: the lease is held. *)
WriteOwner(p) ==
    /\ pc[p] = "write"
    /\ content' = [content EXCEPT ![mine[p]] = p]
    /\ Goto(p, "held")
    /\ UNCHANGED <<path, created, localVars, raced>>

(* Writing or syncing fails: acquire removes its file and returns an error. *)
(* The owner may have been written before the failure.                      *)
WriteFails(p) ==
    /\ pc[p] = "write"
    /\ \/ content' = content
       \/ content' = [content EXCEPT ![mine[p]] = p]
    /\ Goto(p, "failCheck")
    /\ UNCHANGED <<path, created, localVars, raced>>

(* validate_open_file fails before created_identity is set: acquire returns *)
(* an error and the empty file stays.                                       *)
ValidateFails(p) ==
    /\ pc[p] = "write"
    /\ GiveUp(p)
    /\ UNCHANGED <<path, content, created, raced>>

(* remove_file_if_identity of the file just created: compare ... *)
FailCheck(p) ==
    /\ pc[p] = "failCheck"
    /\ IF path = mine[p]
       THEN Goto(p, "failUnlink") /\ UNCHANGED localVars
       ELSE GiveUp(p)
    /\ UNCHANGED <<path, content, created, raced>>

(* ... and unlink. *)
FailUnlink(p) ==
    /\ pc[p] = "failUnlink"
    /\ Unlink(mine[p])
    /\ GiveUp(p)
    /\ UNCHANGED <<content, created>>

-----------------------------------------------------------------------------
(* reclaim_stale_lock *)

(* validate_regular_path takes the identity. *)
Stat(p) ==
    /\ pc[p] = "stat"
    /\ IF path = NoFile
       THEN GiveUp(p)
       ELSE /\ Goto(p, "read") /\ seen' = [seen EXCEPT ![p] = path]
            /\ UNCHANGED <<attempt, mine, owner>>
    /\ UNCHANGED <<path, content, created, raced>>

(* read_verified_file and parse_lock_owner; an empty file is JournalCorrupt. *)
Read(p) ==
    /\ pc[p] = "read"
    /\ IF path = NoFile \/ content[path] = NoProc
       THEN GiveUp(p)
       ELSE /\ Goto(p, "probe") /\ owner' = [owner EXCEPT ![p] = content[path]]
            /\ UNCHANGED <<attempt, mine, seen>>
    /\ UNCHANGED <<path, content, created, raced>>

(* Slips: a live owner counts as stale; a dead one does not. *)
StaleAlways(q) == q \in Procs
StaleNever(q) == q \notin Procs

(* probe_process and same_generation: the lock is stale when its owner      *)
(* generation is gone.  A probe that fails ends acquire as a live owner does.*)
Stale(q) == pc[q] = "dead"

Probe(p) ==
    /\ pc[p] = "probe"
    /\ IF Stale(owner[p])
       THEN Goto(p, "check") /\ UNCHANGED localVars
       ELSE GiveUp(p)
    /\ UNCHANGED <<path, content, created, raced>>

(* remove_file_if_identity: compare the identity again ... *)
Check(p) ==
    /\ pc[p] = "check"
    /\ IF path = seen[p]
       THEN Goto(p, "unlink") /\ UNCHANGED localVars
       ELSE GiveUp(p)
    /\ UNCHANGED <<path, content, created, raced>>

(* ... unlink, and go round acquire's loop, which makes two attempts.  When *)
(* the name is gone remove_file fails and so does acquire.                  *)
UnlinkStale(p) ==
    /\ pc[p] = "unlink"
    /\ Unlink(seen[p])
    /\ IF path # NoFile /\ attempt[p] = 1
       THEN /\ Goto(p, "open") /\ attempt' = [attempt EXCEPT ![p] = 2] /\ UNCHANGED mine
            /\ seen' = [seen EXCEPT ![p] = NoFile] /\ owner' = [owner EXCEPT ![p] = NoProc]
       ELSE GiveUp(p)
    /\ UNCHANGED <<content, created>>

-----------------------------------------------------------------------------
(* Drop of FileSessionLockGuard: compare, then unlink. *)

Drop(p) ==
    /\ pc[p] = "held"
    /\ Goto(p, "dropCheck")
    /\ UNCHANGED <<path, content, created, localVars, raced>>

DropCheck(p) ==
    /\ pc[p] = "dropCheck"
    /\ IF path = mine[p]
       THEN Goto(p, "dropUnlink") /\ UNCHANGED localVars
       ELSE GiveUp(p)
    /\ UNCHANGED <<path, content, created, raced>>

DropUnlink(p) ==
    /\ pc[p] = "dropUnlink"
    /\ Unlink(mine[p])
    /\ GiveUp(p)
    /\ UNCHANGED <<content, created>>

(* remove_file fails and its error is dropped, after a failed write as in    *)
(* the guard's drop: the file stays behind.                                 *)
RemoveFails(p) ==
    /\ pc[p] \in {"failUnlink", "dropUnlink"}
    /\ GiveUp(p)
    /\ UNCHANGED <<path, content, created, raced>>

Crash(p) ==
    /\ pc[p] # "dead"
    /\ Goto(p, "dead") /\ Forget(p)
    /\ UNCHANGED <<path, content, created, raced>>

(* A step of acquire or of a drop under way. *)
Step(p) ==
    \/ Create(p) \/ AlreadyExists(p) \/ WriteOwner(p) \/ WriteFails(p)
    \/ ValidateFails(p) \/ FailCheck(p) \/ FailUnlink(p) \/ Stat(p) \/ Read(p) \/ Probe(p)
    \/ Check(p) \/ UnlinkStale(p) \/ DropCheck(p) \/ DropUnlink(p) \/ RemoveFails(p)

Next == \E p \in Procs : Acquire(p) \/ Step(p) \/ Drop(p) \/ Crash(p)

Spec == Init /\ [][Next]_vars

(* A process that runs goes on, and asks again for a lease it did not get. *)
FairSpec ==
    Spec /\ \A p \in Procs : WF_vars(Step(p)) /\ WF_vars(Acquire(p))

-----------------------------------------------------------------------------
(* Properties *)

TypeOK ==
    /\ created \in 0..MaxFiles
    /\ path \in 0..created
    /\ content \in [Files -> Procs \cup {NoProc}]
    /\ pc \in [Procs -> States]
    /\ attempt \in [Procs -> {1, 2}]
    /\ mine \in [Procs -> 0..created]
    /\ seen \in [Procs -> 0..created]
    /\ owner \in [Procs -> Procs \cup {NoProc}]
    /\ raced \in BOOLEAN

(* "Exclusive lock port for the one mutating session": never two holders.   *)
(* Two processes that reclaim one stale file break it: the second unlink    *)
(* takes away the file the first has created in the meantime.               *)
MutualExclusion ==
    \A p, q \in Procs : pc[p] = "held" /\ pc[q] = "held" => p = q

(* The check-then-unlink window is the only hole: as long as no unlink has  *)
(* removed a file other than the one it compared, there are never two       *)
(* holders, whatever crashes, failed writes, reclaims and drops interleave. *)
ExclusionUnlessRaced == raced \/ MutualExclusion

Survivor(p) == pc[p] # "dead" /\ \A q \in Procs \ {p} : pc[q] = "dead"
Served(p) == pc[p] \in {"held", "dead"} \/ created = MaxFiles

(* A lock file left by a creation of the process itself that failed half-way, *)
(* or an empty one that some creation left.                                 *)
Orphaned(p) == pc[p] = "idle" /\ path # NoFile /\ content[path] \in {NoProc, p}

(* A written lock whose owner died is reclaimed: the only process left gets *)
(* the lease, or its own creation of a new file failed half-way.            *)
(* (created = MaxFiles only says that the bound was met.)                   *)
DeadOwnerReclaimed ==
    \A p \in Procs :
        (Survivor(p) /\ path # NoFile /\ content[path] \notin {NoProc, p})
            ~> (Served(p) \/ Orphaned(p))

(* "stale lock from a dead owner is reclaimed for crash recovery", whatever *)
(* the owner had written when it died.  An owner that dies between creating *)
(* the file and writing it leaves a lock nobody can parse or remove.        *)
StaleLockReclaimed ==
    \A p \in Procs : (Survivor(p) /\ path # NoFile) ~> Served(p)
=============================================================================
