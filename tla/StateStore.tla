----------------------------- MODULE StateStore -----------------------------
(***************************************************************************)
(* FileStateStore of sysboost-platform/src/state.rs: write_atomic, remove  *)
(* and load_unfinished, one step per access to the file system, with       *)
(* failing accesses, an administrator who puts another object in a file's  *)
(* place, a process that dies and a machine that loses power.              *)
(***************************************************************************)
EXTENDS Integers, FiniteSets

CONSTANTS
    Sessions,
    Records,        \* the contents of a state file, positive numbers
    Finished,       \* those in state Restored
    MaxFaults,      \* bound on crashes, losses of power and interferences
    MaxCalls        \* bound on the calls

ASSUME RecordsAssumption == Records \subseteq Nat \ {0} /\ Finished \subseteq Records

VARIABLES
    file,           \* what the name of a session's state file leads to
    saved,          \* what it leads to after a loss of power
    soft,           \* sessions whose file has data that was not synced
    tmp,            \* the temporary file: "none", "empty", "written" or "synced"
    litter,         \* a temporary file of an earlier call was left behind
    req,            \* the call under way
    access,         \* its next access
    done,           \* it has renamed or unlinked
    reply,          \* of the last call: "none", "ok" or "failed"
    load,           \* load_unfinished: [on, left, found, result, moved]
    faults, calls

storeVars == <<file, saved, soft, tmp, litter, req, access, done, reply, load, faults, calls>>
callVars == <<req, access, done, reply, calls>>

None == 0
Foreign == -1
Torn == -2
NoRequest == [kind |-> "none"]
NoLoad == [on |-> FALSE, left |-> {}, found |-> {}, result |-> "none", moved |-> {}]
Calls ==
    [kind : {"create", "replace"}, session : Sessions, record : Records]
    \cup [kind : {"remove"}, session : Sessions, record : {None}]

StoreInit ==
    /\ file = [s \in Sessions |-> None] /\ saved = file
    /\ soft = {} /\ tmp = "none" /\ litter = FALSE
    /\ req = NoRequest /\ access = "idle" /\ done = FALSE /\ reply = "none"
    /\ load = NoLoad
    /\ faults = 0 /\ calls = 0

Begin(r) ==
    /\ access = "idle" /\ ~load.on /\ calls < MaxCalls
    /\ req' = r /\ done' = FALSE /\ reply' = "none" /\ calls' = calls + 1
    /\ access' = IF r.kind = "remove" THEN "unlink" ELSE "check"
    /\ load' = NoLoad
    /\ UNCHANGED <<file, saved, soft, tmp, litter, faults>>

\* ensure_root and validate_target_for_write.
TargetValid ==
    \/ req.kind = "create" /\ file[req.session] = None
    \/ req.kind = "replace" /\ file[req.session] \notin {None, Foreign}

Return(answer) ==
    /\ req' = NoRequest /\ access' = "idle" /\ done' = FALSE /\ reply' = answer
    /\ UNCHANGED calls

\* The error path: a temporary file that was created and not renamed is
\* removed, and stays when that fails.
Failed ==
    /\ Return("failed")
    /\ tmp' = "none"
    /\ litter' \in IF tmp = "none" THEN {litter} ELSE {litter, TRUE}
    /\ UNCHANGED <<file, saved, soft, load, faults>>

Proceed(next) ==
    /\ access' = next
    /\ UNCHANGED <<req, done, reply, calls, saved, load, faults, litter>>

CheckTarget ==
    /\ access = "check"
    /\ \/ TargetValid /\ Proceed("open") /\ UNCHANGED <<file, soft, tmp>>
       \/ Failed

OpenTemporary ==
    /\ access = "open"
    /\ \/ tmp' = "empty" /\ Proceed("write") /\ UNCHANGED <<file, soft>>
       \/ Failed

WriteAll ==
    /\ access = "write"
    /\ \/ tmp' = "written" /\ Proceed("sync") /\ UNCHANGED <<file, soft>>
       \/ Failed

\* Slip: the data is left to the page cache.
SyncAllLater ==
    /\ access = "sync"
    /\ Proceed("recheck")
    /\ UNCHANGED <<file, soft, tmp>>

SyncAll ==
    /\ access = "sync"
    /\ \/ tmp' = "synced" /\ Proceed("recheck") /\ UNCHANGED <<file, soft>>
       \/ Failed

Recheck ==
    /\ access = "recheck"
    /\ \/ TargetValid /\ Proceed("rename") /\ UNCHANGED <<file, soft, tmp>>
       \/ Failed

Rename ==
    /\ access = "rename"
    /\ \/ /\ file' = [file EXCEPT ![req.session] = req.record]
          /\ soft' = IF tmp = "synced" THEN soft \ {req.session} ELSE soft \cup {req.session}
          /\ tmp' = "none" /\ done' = TRUE
          /\ access' = "postcheck"
          /\ UNCHANGED <<req, reply, calls, saved, load, faults, litter>>
       \/ Failed

\* validate_regular_path on what the name leads to now.
PostCheck ==
    /\ access = "postcheck"
    /\ \/ file[req.session] \notin {None, Foreign} /\ Proceed("syncdir") /\ UNCHANGED <<file, soft, tmp>>
       \/ Failed

SyncDirectory ==
    /\ access = "syncdir"
    /\ \/ /\ saved' = file
          /\ access' = "answer"
          /\ UNCHANGED <<req, done, reply, calls, file, soft, tmp, litter, load, faults>>
       \/ Failed

Answer ==
    /\ access = "answer"
    /\ Return("ok")
    /\ UNCHANGED <<file, saved, soft, tmp, litter, load, faults>>

\* remove: a file that is gone already is no error.
UnlinkFile ==
    /\ access = "unlink"
    /\ \/ /\ file[req.session] \notin {None, Foreign}
          /\ file' = [file EXCEPT ![req.session] = None]
          /\ soft' = soft \ {req.session}
          /\ done' = TRUE /\ access' = "syncdir"
          /\ UNCHANGED <<req, reply, calls, saved, tmp, litter, load, faults>>
       \/ /\ file[req.session] = None
          /\ Return("ok")
          /\ UNCHANGED <<file, saved, soft, tmp, litter, load, faults>>
       \/ Failed

-----------------------------------------------------------------------------
(* load_unfinished.                                                        *)

LoadBegin ==
    /\ access = "idle" /\ ~load.on
    /\ load' = [NoLoad EXCEPT !.on = TRUE, !.left = {s \in Sessions : file[s] # None}]
    /\ UNCHANGED <<file, saved, soft, tmp, litter, callVars, faults>>

\* Slip: a file that cannot be read is passed over.
LoadEntrySkips(s) ==
    /\ load.on /\ s \in load.left
    /\ \/ load' = [load EXCEPT !.left = @ \ {s},
                               !.found = IF file[s] \in Records \ Finished THEN @ \cup {s} ELSE @]
       \/ load' = [load EXCEPT !.left = @ \ {s}]
    /\ UNCHANGED <<file, saved, soft, tmp, litter, callVars, faults>>

\* The next state file: it must be a private regular file that decodes, or
\* the whole load fails.
LoadEntry(s) ==
    /\ load.on /\ s \in load.left
    /\ \/ /\ file[s] \in Records
          /\ load' = [load EXCEPT !.left = @ \ {s},
                                  !.found = IF file[s] \in Finished THEN @ ELSE @ \cup {s}]
       \/ /\ file[s] \notin Records
          /\ load' = [load EXCEPT !.on = FALSE, !.result = "refused"]
       \/ load' = [load EXCEPT !.on = FALSE, !.result = "faulted"]
    /\ UNCHANGED <<file, saved, soft, tmp, litter, callVars, faults>>

\* Temporary files with a well-formed name were passed over.
LoadEnd ==
    /\ load.on /\ load.left = {}
    /\ load' = [load EXCEPT !.on = FALSE, !.result = "loaded"]
    /\ UNCHANGED <<file, saved, soft, tmp, litter, callVars, faults>>

-----------------------------------------------------------------------------
(* The process dies; its temporary file stays. *)
StoreCrash ==
    /\ access # "idle" /\ faults < MaxFaults
    /\ faults' = faults + 1
    /\ Return("none")
    /\ litter' = (litter \/ tmp # "none") /\ tmp' = "none"
    /\ UNCHANGED <<file, saved, soft, load>>

(* Names and data that were not synced may or may not be on the disk. *)
LosePower ==
    /\ faults < MaxFaults
    /\ faults' = faults + 1
    /\ \E kept \in SUBSET Sessions :
          file' = [s \in Sessions |-> IF s \notin kept THEN saved[s]
                                      ELSE IF s \in soft THEN Torn ELSE file[s]]
    /\ saved' = file' /\ soft' = {}
    /\ litter' \in {litter, litter \/ tmp # "none"} /\ tmp' = "none"
    /\ load' = NoLoad
    /\ Return("none")

(* The administrator removes the file or puts another object in its place. *)
Interfere(s) ==
    /\ faults < MaxFaults
    /\ faults' = faults + 1
    /\ \E x \in {None, Foreign} : file' = [file EXCEPT ![s] = x]
    /\ saved' = [saved EXCEPT ![s] = file'[s]]
    /\ soft' = soft \ {s}
    /\ load' = [load EXCEPT !.moved = @ \cup {s}]
    /\ UNCHANGED <<tmp, litter, callVars>>

StoreNext ==
    \/ \E r \in Calls : Begin(r)
    \/ CheckTarget \/ OpenTemporary \/ WriteAll \/ SyncAll \/ Recheck \/ Rename
    \/ PostCheck \/ SyncDirectory \/ Answer \/ UnlinkFile
    \/ LoadBegin \/ LoadEnd
    \/ \E s \in Sessions : LoadEntry(s) \/ Interfere(s)
    \/ StoreCrash \/ LosePower

StoreSpec == StoreInit /\ [][StoreNext]_storeVars

-----------------------------------------------------------------------------
Store == INSTANCE RecordStore WITH
    stored <- file, durable <- saved, request <- req, committed <- done

(* The files are a store of whole records: a call that succeeds has taken  *)
(* effect for good, and a call that fails, a crash or a loss of power at   *)
(* any access of write_atomic or remove leaves the old record or the new.  *)
StoreIsAtomic == Store!Spec

(* A load that succeeds returns exactly the sessions that are not restored, *)
(* and it fails only for a file it cannot read or that is not ours, never   *)
(* for what a crash in the middle of a write left behind (load_unfinished). *)
LoadIsExact ==
    /\ load.result = "loaded" =>
           \A s \in Sessions \ load.moved :
               s \in load.found <=> file[s] \in Records \ Finished
    /\ load.result = "refused" => load.moved # {} \/ \E s \in Sessions : file[s] = Foreign

=============================================================================
