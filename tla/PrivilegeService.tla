------------------------- MODULE PrivilegeService --------------------------
(***************************************************************************)
(* The privileged helper of sysboost-platform/src/privilege.rs between a   *)
(* controller and the transaction engine.  Frames may be delivered late,   *)
(* out of order, again or never, and answers may be lost; the helper may   *)
(* stop at any step and is then constructed anew, which empties its plan   *)
(* catalog, its session bindings and its memory of request numbers.        *)
(*                                                                         *)
(* The engine is the one SessionLedger specifies.  A frame carries the     *)
(* peer the transport authenticated, never one taken from its bytes.       *)
(***************************************************************************)
EXTENDS SessionLedger, Naturals, Sequences

CONSTANTS
    PlanIds, Digests, Bodies,   \* a plan is an identity, a digest and content
    Expected, Others,           \* the peer of the helper's policy; other
                                \* peers, and none where it is not known
    Nothing,
    MaxRequests,                \* bound: requests a controller numbers
    MaxLives                    \* bound: times the helper is constructed

ASSUME PeersAssumption == Expected \notin Others
ASSUME BoundsAssumption == MaxRequests \in Nat /\ MaxLives \in Nat

VARIABLES
    sent,      \* frames on the way; a frame is never used up
    next,      \* the controller's next request number
    gone,      \* the controller is gone
    life,      \* how many times the helper was constructed
    at,        \* where the handler of the helper is
    req,       \* the request it handles
    sid,       \* the session engine.prepare returned
    catalog,   \* ApprovedPlanCatalog
    bound,     \* sessions: the plan of each SessionBinding
    last,      \* last_request
    record,    \* history: the plan the engine prepared a session for
    ran        \* history: request numbers dispatched by this helper

callVars == <<at, req, sid>>
ctlVars == <<sent, next, gone>>
memory == <<catalog, bound, last>>
history == <<record, ran>>
vars == <<ledgerVars, ctlVars, life, callVars, memory, history>>

Plans == [id : PlanIds, digest : Digests, body : Bodies]
Peers == {Expected} \cup Others
Up == at # "down" /\ at # "recover"

(* A request: from a frame with its number, or from an in-process caller     *)
(* (number 0), who passes the whole plan or handle.                          *)
Request(op, peer, n, arg) == [op |-> op, peer |-> peer, id |-> n, arg |-> arg]

-----------------------------------------------------------------------------
(* The controller and the transport *)

(* A frame under a fresh number, naming any plan or any session. *)
SendWire ==
    /\ ~gone
    /\ next <= MaxRequests
    /\ \E peer \in Peers :
          \/ \E p \in [id : PlanIds, digest : Digests] :
                sent' = sent \cup {Request("Prepare", peer, next, p)}
          \/ \E s \in Sessions, op \in {"Apply", "Restore", "Status"} :
                sent' = sent \cup {Request(op, peer, next, s)}
    /\ next' = next + 1
    /\ UNCHANGED <<ledgerVars, gone, life, callVars, memory, history>>

(* The controller goes away, and its frames with it. *)
Disconnect ==
    /\ ~gone
    /\ gone' = TRUE
    /\ sent' = {}
    /\ UNCHANGED <<ledgerVars, next, life, callVars, memory, history>>

-----------------------------------------------------------------------------
(* The handler *)

(* Whatever the answer says, and whether or not it arrives. *)
Answer ==
    /\ at' = "idle"
    /\ req' = Nothing
    /\ sid' = NoSession

(* Slip: the plan last registered under an identity wins. *)
CanRegisterAgain(p) == TRUE

(* ApprovedPlanCatalog::register: the same plan again or a fresh identity. *)
CanRegister(p) == catalog[p.id] \in {Nothing, p}

RegisterPlan ==
    /\ at = "idle"
    /\ \E p \in Plans :
          /\ CanRegister(p)
          /\ catalog' = [catalog EXCEPT ![p.id] = p]
    /\ UNCHANGED <<ledgerVars, ctlVars, life, callVars, bound, last, history>>

(* Slip: a number that was used before is accepted again. *)
AcceptRequestIdAgain(r) == r.id >= last[r.peer]

(* accept_request_id *)
AcceptRequestId(r) == r.id > last[r.peer]

Dispatch(r) ==
    /\ at' = r.op
    /\ req' = r
    /\ UNCHANGED sid

(* handle_frame up to dispatch: the peer is authenticated and the number    *)
(* consumed; everything else leaves the helper as it is.                    *)
HandleFrame(r) ==
    /\ at = "idle"
    /\ r.peer = Expected
    /\ AcceptRequestId(r)
    /\ last' = [last EXCEPT ![r.peer] = r.id]
    /\ ran' = Append(ran, r.id)
    /\ Dispatch(r)
    /\ UNCHANGED <<ledgerVars, ctlVars, life, catalog, bound, record>>

(* prepare_for_peer: registration and preparation in one call. *)
PrepareForPeer(p) ==
    /\ at = "idle"
    /\ CanRegister(p)
    /\ catalog' = [catalog EXCEPT ![p.id] = p]
    /\ Dispatch(Request("Prepare", Expected, 0, [id |-> p.id, digest |-> p.digest]))
    /\ UNCHANGED <<ledgerVars, ctlVars, life, bound, last, history>>

(* apply_for_peer, restore_for_peer: the handle must be the bound one. *)
CallForPeer(op, s, p) ==
    /\ at = "idle"
    /\ bound[s] = p
    /\ p # Nothing
    /\ Dispatch(Request(op, Expected, 0, s))
    /\ UNCHANGED <<ledgerVars, ctlVars, life, memory, history>>

(* ApprovedPlanCatalog::get *)
Approved(p) == catalog[p.id] # Nothing /\ catalog[p.id].digest = p.digest

(* The plan is not approved, a backend does not admit one of its mutations, *)
(* or engine.prepare fails before anything is durable.                      *)
PrepareRefused ==
    /\ at = "Prepare"
    /\ Answer
    /\ UNCHANGED <<ledgerVars, ctlVars, life, memory, history>>

(* engine.prepare; without the lease it has failed and returns its error. *)
PrepareByIdentity ==
    /\ at = "Prepare"
    /\ Approved(req.arg)
    /\ \E s \in Sessions :
          /\ Prepare(s)
          /\ record' = [record EXCEPT ![s] = catalog[req.arg.id]]
          /\ IF lease' = s
             THEN at' = "check" /\ sid' = s /\ UNCHANGED req
             ELSE Answer
    /\ UNCHANGED <<ctlVars, life, memory, ran>>

(* validate_snapshot_identities holds: the session is bound and answered. *)
Bind ==
    /\ at = "check"
    /\ bound' = [bound EXCEPT ![sid] = [id |-> req.arg.id, digest |-> req.arg.digest]]
    /\ Answer
    /\ UNCHANGED <<ledgerVars, ctlVars, life, catalog, last, history>>

(* It does not: the prepared session is withdrawn.  abort_prepared may fail *)
(* before it removed anything; the answer is an error in every case.        *)
AbortPrepared ==
    /\ at = "check"
    /\ \/ Withdraw(sid)
       \/ UNCHANGED ledgerVars
    /\ Answer
    /\ UNCHANGED <<ctlVars, life, memory, history>>

(* Slip: apply and restore reach the engine without a binding. *)
LookupSessionAny(s) == TRUE

(* lookup_session: bound by this helper, for this peer. *)
LookupSession(s) == bound[s] # Nothing

(* engine.apply and engine.restore at work on the session of the lease. *)
EngineWorks ==
    /\ at \in {"Apply", "Restore"}
    /\ LookupSession(req.arg)
    /\ lease = req.arg
    /\ Work(req.arg) \/ Finish(req.arg) \/ Release
    /\ UNCHANGED <<ctlVars, life, callVars, memory, history>>

(* The call returns, or was refused, or only read the state. *)
Return ==
    /\ at \in {"Apply", "Restore", "Status"}
    /\ Answer
    /\ UNCHANGED <<ledgerVars, ctlVars, life, memory, history>>

-----------------------------------------------------------------------------
(* Stopping and construction *)

HelperStops ==
    /\ Up
    /\ Stop
    /\ at' = "down"
    /\ req' = Nothing
    /\ sid' = NoSession
    /\ UNCHANGED <<ctlVars, life, memory, history>>

(* PrivilegeService::new: recover_unfinished runs first ... *)
Construct ==
    /\ at = "down"
    /\ life < MaxLives
    /\ at' = "recover"
    /\ UNCHANGED <<ledgerVars, ctlVars, life, req, sid, memory, history>>

RecoverUnfinished ==
    /\ at = "recover"
    /\ \E s \in Sessions : Work(s) \/ (Finish(s) /\ lease' = NoSession)
    /\ UNCHANGED <<ctlVars, life, callVars, memory, history>>

(* ... and fails the construction unless every session was restored. *)
ConstructFails ==
    /\ at = "recover"
    /\ at' = "down"
    /\ UNCHANGED <<ledgerVars, ctlVars, life, req, sid, memory, history>>

Constructed ==
    /\ at = "recover"
    /\ Pending = {}
    /\ at' = "idle"
    /\ life' = life + 1
    /\ catalog' = [i \in PlanIds |-> Nothing]
    /\ bound' = [s \in Sessions |-> Nothing]
    /\ last' = [p \in Peers |-> 0]
    /\ ran' = <<>>
    /\ UNCHANGED <<ledgerVars, ctlVars, req, sid, record>>

-----------------------------------------------------------------------------
ServiceInit ==
    /\ Init
    /\ sent = {}
    /\ next = 1
    /\ gone = FALSE
    /\ life = 1
    /\ at = "idle"
    /\ req = Nothing
    /\ sid = NoSession
    /\ catalog = [i \in PlanIds |-> Nothing]
    /\ bound = [s \in Sessions |-> Nothing]
    /\ last = [p \in Peers |-> 0]
    /\ record = [s \in Sessions |-> Nothing]
    /\ ran = <<>>

(* The handler goes on with the request it has, and a construction ends. *)
HandlerStep ==
    \/ PrepareRefused \/ PrepareByIdentity \/ Bind \/ AbortPrepared
    \/ EngineWorks \/ Return
    \/ RecoverUnfinished \/ ConstructFails \/ Constructed

CallerStep ==
    /\ ~gone
    /\ \/ \E r \in sent : HandleFrame(r)
       \/ RegisterPlan
       \/ \E p \in Plans : PrepareForPeer(p)
       \/ \E op \in {"Apply", "Restore"}, s \in Sessions,
             p \in [id : PlanIds, digest : Digests] : CallForPeer(op, s, p)

ServiceNext ==
    \/ HandlerStep \/ CallerStep
    \/ SendWire \/ Disconnect
    \/ HelperStops \/ Construct

ServiceSpec == ServiceInit /\ [][ServiceNext]_vars

-----------------------------------------------------------------------------
(* Properties *)

(* Delayed and repeated frames: within the life of a helper the requests of *)
(* the peer take effect in the order of their numbers and none of them      *)
(* twice (accept_request_id consumes the number before the dispatch).       *)
InOrderOnce == \A i, j \in DOMAIN ran : i < j => ran[i] < ran[j]

(* What a running helper cannot name it has never applied: a session that is *)
(* pending without a binding (abort_prepared failed, or create after its     *)
(* rename) is a bare intent, and a helper that was constructed after a stop  *)
(* has no other (recover_unfinished came first).                             *)
UnboundNeverApplied ==
    Up => \A s \in Pending : bound[s] = Nothing => st[s] = "prepared" /\ ~dirty

(* A session the helper acts for is the plan that was approved under the     *)
(* identity and digest of its handle, however plans are registered later.    *)
BoundPlanIsApproved ==
    Up => \A s \in Sessions : bound[s] # Nothing =>
        /\ record[s] = catalog[bound[s].id]
        /\ record[s].digest = bound[s].digest
=============================================================================
