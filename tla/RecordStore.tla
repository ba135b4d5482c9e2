----------------------------- MODULE RecordStore -----------------------------
(***************************************************************************)
(* What the transaction engine takes a SessionStateStore to be: one record *)
(* per session that is created, replaced or removed as a whole.  A call    *)
(* that succeeds has taken effect for good; a call that fails, or a crash, *)
(* leaves the old record or the new one.  StateStore implements it.        *)
(***************************************************************************)
EXTENDS Integers

CONSTANTS Sessions, Records

VARIABLES
    stored,     \* the record a reader finds, None, or Foreign
    durable,    \* what a loss of power leaves
    request,    \* the call under way, or NoRequest
    committed,  \* it has taken effect
    reply       \* of the last call: "none", "ok" or "failed"

storeVars == <<stored, durable, request, committed, reply>>

None == 0
Foreign == -1      \* an object that is not a private regular file
NoRequest == [kind |-> "none"]
Requests ==
    [kind : {"create", "replace"}, session : Sessions, record : Records]
    \cup [kind : {"remove"}, session : Sessions, record : {None}]

Init ==
    /\ stored = [s \in Sessions |-> None]
    /\ durable = stored
    /\ request = NoRequest /\ committed = FALSE /\ reply = "none"

Begin ==
    /\ request = NoRequest
    /\ request' \in Requests /\ committed' = FALSE /\ reply' = "none"
    /\ UNCHANGED <<stored, durable>>

\* A record is never created over another one.
Commit ==
    /\ request # NoRequest /\ ~committed
    /\ request.kind = "create" => stored[request.session] \notin Records
    /\ stored' = [stored EXCEPT ![request.session] = request.record]
    /\ committed' = TRUE
    /\ UNCHANGED <<durable, request, reply>>

Persist ==
    /\ durable' = stored
    /\ UNCHANGED <<stored, request, committed, reply>>

\* Success means that the record asked for is in place for good, unless it
\* was taken away from outside.  A remove that finds no file succeeds without
\* a promise that the absence lasts.
Succeed ==
    /\ request # NoRequest
    /\ stored[request.session] \in {request.record, None, Foreign}
    /\ committed => durable[request.session] = stored[request.session]
    /\ request' = NoRequest /\ committed' = FALSE /\ reply' = "ok"
    /\ UNCHANGED <<stored, durable>>

\* An error, or the end of the process.
Fail ==
    /\ request # NoRequest
    /\ request' = NoRequest /\ committed' = FALSE /\ reply' \in {"failed", "none"}
    /\ UNCHANGED <<stored, durable>>

\* What was not persisted may or may not survive.
LosePower ==
    /\ stored' \in {f \in [Sessions -> Records \cup {None, Foreign}] :
                        \A s \in Sessions : f[s] \in {stored[s], durable[s]}}
    /\ durable' = stored'
    /\ request' = NoRequest /\ committed' = FALSE /\ reply' = "none"

Interfere(s) ==
    /\ stored' \in {[stored EXCEPT ![s] = Foreign], [stored EXCEPT ![s] = None]}
    /\ durable' = [durable EXCEPT ![s] = stored'[s]]
    /\ UNCHANGED <<request, committed, reply>>

Next ==
    \/ Begin \/ Commit \/ Persist \/ Succeed \/ Fail \/ LosePower
    \/ \E s \in Sessions : Interfere(s)

Spec == Init /\ [][Next]_storeVars
=============================================================================
