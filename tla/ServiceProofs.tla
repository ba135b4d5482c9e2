--------------------------- MODULE ServiceProofs ---------------------------
(***************************************************************************)
(* The three promises of the privileged helper, for all sets of plans,     *)
(* peers and sessions and any number of requests and lives; the stability  *)
(* of the routing by the backend registry, for all sets of backends,       *)
(* capabilities and operations; and the two promises of the frames that    *)
(* requests and responses travel in.                                       *)
(*                                                                         *)
(* The inductive invariant of the helper says how its memory and the       *)
(* ledger of the engine hang together: request numbers taken are at most   *)
(* the last one, at most one session is pending, a bound session was never *)
(* withdrawn, its plan is still in the catalog, and the session that is    *)
(* being checked is not bound yet.                                         *)
(*                                                                         *)
(* That of the registry: the refusals of register keep the owned names of  *)
(* any two backends apart, so a captured mutation has one owner, and a     *)
(* backend that is registered later cannot come before it.                 *)
(*                                                                         *)
(* The frames of the protocol, for all field widths, all numbers that fit  *)
(* theirs and any damage on the way: big-endian cells and numbers are      *)
(* inverse to each other (by induction over the cells, as the least        *)
(* counterexample), so are the tag tables, and fields of known widths can  *)
(* be taken apart and put together again.                                  *)
(***************************************************************************)
EXTENDS PrivilegeService, BackendRegistry, WireCodec, WellFoundedInduction, TLAPS

PlanRefs == [id : PlanIds, digest : Digests]
Calls == {"Apply", "Restore", "Status"}

(* A request names what its kind names. *)
WellFormed(r) ==
    /\ r.id \in Nat
    /\ r.op \in {"Prepare"} \cup Calls
    /\ r.op = "Prepare" => r.arg \in PlanRefs
    /\ r.op \in Calls => r.arg \in Sessions

TypeInv ==
    /\ \A r \in sent : WellFormed(r)
    /\ next \in Nat
    /\ at \in {"idle", "Prepare", "check", "down", "recover"} \cup Calls
    /\ at = "Prepare" => req.arg \in PlanRefs
    /\ at \in Calls => req.arg \in Sessions
    /\ catalog \in [PlanIds -> Plans \cup {Nothing}]
    /\ bound \in [Sessions -> PlanRefs \cup {Nothing}]
    /\ last \in [Peers -> Nat]
    /\ ran \in Seq(Nat)
    /\ DOMAIN record = Sessions
    /\ DOMAIN st = Sessions

(* What was dispatched was numbered no higher than the last request. *)
NumberInv == \A i \in DOMAIN ran : ran[i] <= last[Expected]

(* At most one session is pending, and a bound one has a record. *)
LedgerInv ==
    /\ \A s, t \in Pending : s = t
    /\ \A s \in Sessions : bound[s] # Nothing => st[s] # "none"

(* The plan of a bound session is in the catalog and the session's own. *)
PlanInv ==
    \A s \in Sessions : bound[s] # Nothing =>
        /\ bound[s] \in PlanRefs
        /\ catalog[bound[s].id] # Nothing
        /\ record[s] = catalog[bound[s].id]
        /\ record[s].digest = bound[s].digest

(* The session that is being checked belongs to the requested plan. *)
CheckInv ==
    at = "check" =>
        /\ req.arg \in PlanRefs
        /\ Approved(req.arg)
        /\ sid \in Sessions
        /\ st[sid] # "none"
        /\ bound[sid] = Nothing
        /\ record[sid] = catalog[req.arg.id]

ServiceInv ==
    /\ TypeInv /\ NumberInv /\ LedgerInv /\ PlanInv /\ CheckInv
    /\ InOrderOnce /\ UnboundNeverApplied

-----------------------------------------------------------------------------
LEMMA ServiceInitInv == ServiceInit => ServiceInv
<1> SUFFICES ASSUME ServiceInit PROVE ServiceInv
  OBVIOUS
<1>1. TypeInv
  BY DEF ServiceInit, Init, TypeInv, Calls
<1>2. NumberInv /\ InOrderOnce
  BY DEF ServiceInit, NumberInv, InOrderOnce
<1>3. LedgerInv /\ PlanInv /\ CheckInv /\ UnboundNeverApplied
  BY DEF ServiceInit, Init, LedgerInv, PlanInv, CheckInv, UnboundNeverApplied, Pending
<1> QED
  BY <1>1, <1>2, <1>3 DEF ServiceInv

(* Steps that leave the ledger, the memory and the history alone and end, or *)
(* do not begin, the check of a session.                                     *)
LEMMA QuietStep ==
    ASSUME ServiceInv, UNCHANGED <<ledgerVars, memory, history>>, TypeInv',
           at' # "check", Up' => Up
    PROVE  ServiceInv'
<1>1. (NumberInv /\ InOrderOnce)'
  BY DEF ServiceInv, NumberInv, InOrderOnce, memory, history
<1>2. (LedgerInv /\ PlanInv)'
  BY DEF ServiceInv, LedgerInv, PlanInv, Pending, memory, history, ledgerVars
<1>3. CheckInv' /\ UnboundNeverApplied'
  BY DEF ServiceInv, CheckInv, UnboundNeverApplied, Pending, memory, history, ledgerVars
<1> QED
  BY <1>1, <1>2, <1>3 DEF ServiceInv

LEMMA SendWireStep == ServiceInv /\ SendWire => ServiceInv'
<1> SUFFICES ASSUME ServiceInv, SendWire PROVE ServiceInv'
  OBVIOUS
<1>1. \A r \in sent' : WellFormed(r)
  <2>1. PICK peer \in Peers :
          \/ \E p \in PlanRefs : sent' = sent \cup {Request("Prepare", peer, next, p)}
          \/ \E s \in Sessions, op \in Calls : sent' = sent \cup {Request(op, peer, next, s)}
    BY DEF SendWire, PlanRefs, Calls
  <2>2. next \in Nat /\ \A r \in sent : WellFormed(r)
    BY DEF ServiceInv, TypeInv
  <2>3. \A p \in PlanRefs : WellFormed(Request("Prepare", peer, next, p))
    BY <2>2 DEF WellFormed, Request, Calls
  <2>4. \A s \in Sessions, op \in Calls : WellFormed(Request(op, peer, next, s))
    BY <2>2 DEF WellFormed, Request, Calls
  <2> QED
    BY <2>1, <2>2, <2>3, <2>4
<1>2. TypeInv'
  BY <1>1 DEF ServiceInv, TypeInv, SendWire, ledgerVars, callVars, memory, history
<1>3. UNCHANGED <<at, req, sid>>
  BY DEF SendWire, callVars
<1>4. (NumberInv /\ InOrderOnce)'
  BY DEF ServiceInv, NumberInv, InOrderOnce, SendWire, memory, history
<1>5. (LedgerInv /\ PlanInv /\ CheckInv /\ UnboundNeverApplied)'
  BY <1>3 DEF ServiceInv, LedgerInv, PlanInv, CheckInv, UnboundNeverApplied, Pending, Up, Approved,
     SendWire, memory, history, ledgerVars
<1> QED
  BY <1>2, <1>4, <1>5 DEF ServiceInv

LEMMA DisconnectStep == ServiceInv /\ Disconnect => ServiceInv'
<1> SUFFICES ASSUME ServiceInv, Disconnect PROVE ServiceInv'
  OBVIOUS
<1>1. TypeInv'
  BY DEF ServiceInv, TypeInv, Disconnect, ledgerVars, callVars, memory, history
<1>2. (NumberInv /\ InOrderOnce)'
  BY DEF ServiceInv, NumberInv, InOrderOnce, Disconnect, memory, history
<1>3. (LedgerInv /\ PlanInv /\ CheckInv /\ UnboundNeverApplied)'
  BY DEF ServiceInv, LedgerInv, PlanInv, CheckInv, UnboundNeverApplied, Pending, Up, Approved,
     Disconnect, callVars, memory, history, ledgerVars
<1> QED
  BY <1>1, <1>2, <1>3 DEF ServiceInv

(* A plan enters the catalog; the plans of bound sessions stay.              *)
LEMMA CatalogGrows ==
    ASSUME ServiceInv, NEW p \in Plans, CanRegister(p),
           catalog' = [catalog EXCEPT ![p.id] = p]
    PROVE  /\ catalog' \in [PlanIds -> Plans \cup {Nothing}]
           /\ \A i \in PlanIds : catalog[i] # Nothing => catalog'[i] = catalog[i]
<1>1. p.id \in PlanIds
  BY DEF Plans
<1> QED
  BY <1>1 DEF ServiceInv, TypeInv, CanRegister

LEMMA RegisterStep == ServiceInv /\ RegisterPlan => ServiceInv'
<1> SUFFICES ASSUME ServiceInv, RegisterPlan PROVE ServiceInv'
  OBVIOUS
<1>1. PICK p \in Plans : CanRegister(p) /\ catalog' = [catalog EXCEPT ![p.id] = p]
  BY DEF RegisterPlan
<1>2. /\ catalog' \in [PlanIds -> Plans \cup {Nothing}]
      /\ \A i \in PlanIds : catalog[i] # Nothing => catalog'[i] = catalog[i]
  BY <1>1, CatalogGrows
<1>3. TypeInv'
  BY <1>2 DEF ServiceInv, TypeInv, RegisterPlan, ledgerVars, ctlVars, callVars, history
<1>4. (NumberInv /\ InOrderOnce)'
  BY DEF ServiceInv, NumberInv, InOrderOnce, RegisterPlan, history
<1>5. PlanInv'
  BY <1>2 DEF ServiceInv, PlanInv, RegisterPlan, history, PlanRefs
<1>6. (LedgerInv /\ CheckInv /\ UnboundNeverApplied)'
  BY DEF ServiceInv, LedgerInv, CheckInv, UnboundNeverApplied, Pending, Up,
     RegisterPlan, callVars, ledgerVars
<1> QED
  BY <1>3, <1>4, <1>5, <1>6 DEF ServiceInv

LEMMA HandleFrameStep ==
    ASSUME ServiceInv, NEW r \in sent, HandleFrame(r)
    PROVE  ServiceInv'
<1>1. /\ WellFormed(r) /\ r.peer = Expected /\ r.id > last[Expected] /\ Expected \in Peers
      /\ last[Expected] \in Nat /\ r.id \in Nat
  BY DEF ServiceInv, TypeInv, HandleFrame, AcceptRequestId, Peers, WellFormed
<1>2. /\ last' \in [Peers -> Nat] /\ last'[Expected] = r.id
      /\ ran' = Append(ran, r.id) /\ ran \in Seq(Nat)
  BY <1>1 DEF ServiceInv, TypeInv, HandleFrame
<1>3. /\ ran' \in Seq(Nat) /\ Len(ran') = Len(ran) + 1 /\ ran'[Len(ran) + 1] = r.id
      /\ \A i \in 1..Len(ran) : ran'[i] = ran[i]
  BY <1>1, <1>2
<1>4. (NumberInv /\ InOrderOnce)'
  <2>1. \A i \in 1..Len(ran) : ran[i] \in Nat /\ ran[i] <= last[Expected]
    BY <1>2 DEF ServiceInv, NumberInv
  <2>2. \A i \in 1..Len(ran) : ran'[i] \in Nat /\ ran'[i] < r.id
    BY <1>1, <1>3, <2>1
  <2>3. \A i, j \in 1..Len(ran) : i < j => ran'[i] < ran'[j]
    BY <1>2, <1>3 DEF ServiceInv, InOrderOnce
  <2>4. DOMAIN ran' = 1..(Len(ran) + 1) /\ Len(ran) \in Nat
    BY <1>2, <1>3
  <2> QED
    BY <1>1, <1>2, <1>3, <2>2, <2>3, <2>4 DEF NumberInv, InOrderOnce
<1>5. TypeInv'
  BY <1>1, <1>2, <1>3 DEF ServiceInv, TypeInv, HandleFrame, Dispatch, WellFormed, ledgerVars, ctlVars
<1>6. at' # "check" /\ Up
  BY <1>1 DEF HandleFrame, Dispatch, WellFormed, Calls, Up
<1>7. (LedgerInv /\ PlanInv /\ CheckInv /\ UnboundNeverApplied)'
  BY <1>6 DEF ServiceInv, LedgerInv, PlanInv, CheckInv, UnboundNeverApplied, Pending,
     HandleFrame, ledgerVars
<1> QED
  BY <1>4, <1>5, <1>7 DEF ServiceInv

LEMMA PrepareForPeerStep ==
    ASSUME ServiceInv, NEW p \in Plans, PrepareForPeer(p)
    PROVE  ServiceInv'
<1>1. /\ catalog' \in [PlanIds -> Plans \cup {Nothing}]
      /\ \A i \in PlanIds : catalog[i] # Nothing => catalog'[i] = catalog[i]
  BY CatalogGrows DEF PrepareForPeer
<1>2. at' = "Prepare" /\ req'.arg = [id |-> p.id, digest |-> p.digest] /\ Up
  BY DEF PrepareForPeer, Dispatch, Request, Up
<1>3. [id |-> p.id, digest |-> p.digest] \in PlanRefs
  BY DEF Plans, PlanRefs
<1>4. TypeInv'
  BY <1>1, <1>2, <1>3 DEF ServiceInv, TypeInv, PrepareForPeer, ledgerVars, ctlVars, history, Calls
<1>5. (NumberInv /\ InOrderOnce)'
  BY DEF ServiceInv, NumberInv, InOrderOnce, PrepareForPeer, history
<1>6. PlanInv'
  BY <1>1 DEF ServiceInv, PlanInv, PrepareForPeer, history, PlanRefs
<1>7. (LedgerInv /\ CheckInv /\ UnboundNeverApplied)'
  BY <1>2 DEF ServiceInv, LedgerInv, CheckInv, UnboundNeverApplied, Pending, PrepareForPeer, ledgerVars
<1> QED
  BY <1>4, <1>5, <1>6, <1>7 DEF ServiceInv

LEMMA CallForPeerStep ==
    ASSUME ServiceInv, NEW op \in {"Apply", "Restore"}, NEW s \in Sessions, NEW p, CallForPeer(op, s, p)
    PROVE  ServiceInv'
<1>1. at' = op /\ req'.arg = s /\ Up
  BY DEF CallForPeer, Dispatch, Request, Up
<1>2. TypeInv'
  BY <1>1 DEF ServiceInv, TypeInv, CallForPeer, ledgerVars, ctlVars, memory, history, Calls
<1> QED
  BY <1>1, <1>2, QuietStep DEF CallForPeer, ledgerVars, memory, history

(* engine.prepare: the session it enters was not bound, and is the only      *)
(* pending one, on a clean host.                                             *)
LEMMA PrepareStep == ServiceInv /\ PrepareByIdentity => ServiceInv'
<1> SUFFICES ASSUME ServiceInv, PrepareByIdentity PROVE ServiceInv'
  OBVIOUS
<1>1. PICK s \in Sessions :
        /\ Prepare(s)
        /\ record' = [record EXCEPT ![s] = catalog[req.arg.id]]
        /\ IF lease' = s THEN at' = "check" /\ sid' = s /\ UNCHANGED req ELSE Answer
  BY DEF PrepareByIdentity
<1>2. /\ at = "Prepare" /\ Approved(req.arg) /\ req.arg \in PlanRefs /\ Up
      /\ UNCHANGED <<catalog, bound, last, ran, sent, next>>
  BY DEF PrepareByIdentity, ServiceInv, TypeInv, ctlVars, memory, Up
<1>3. /\ st[s] = "none" /\ Pending = {} /\ ~dirty /\ dirty' = dirty
      /\ st' = [st EXCEPT ![s] = "prepared"] /\ DOMAIN st = Sessions /\ DOMAIN record = Sessions
  BY <1>1 DEF Prepare, ServiceInv, TypeInv
<1>4. bound[s] = Nothing
  BY <1>3 DEF ServiceInv, LedgerInv
<1>5. /\ st'[s] = "prepared" /\ \A t \in Sessions \ {s} : st'[t] = st[t] /\ t \notin Pending
      /\ DOMAIN st' = Sessions
  BY <1>3
<1>6. Pending' = {s}
  BY <1>5 DEF Pending
<1>7. TypeInv'
  <2>1. at' \in {"idle", "check"}
    BY <1>1 DEF Answer
  <2> QED
    BY <1>1, <1>2, <1>5, <2>1 DEF ServiceInv, TypeInv, Calls
<1>8. (NumberInv /\ InOrderOnce)'
  BY <1>2 DEF ServiceInv, NumberInv, InOrderOnce
<1>9. LedgerInv'
  BY <1>2, <1>4, <1>5, <1>6 DEF ServiceInv, LedgerInv
<1>10. PlanInv'
  BY <1>1, <1>2, <1>3, <1>4 DEF ServiceInv, PlanInv
<1>11. CheckInv'
  <2>1. record'[s] = catalog[req.arg.id]
    BY <1>1, <1>3
  <2>2. CASE lease' = s
    BY <1>1, <1>2, <1>4, <1>5, <2>1, <2>2 DEF CheckInv, Approved
  <2>3. CASE lease' # s
    BY <1>1, <2>3 DEF CheckInv, Answer
  <2> QED
    BY <2>2, <2>3
<1>12. UnboundNeverApplied'
  BY <1>3, <1>5, <1>6 DEF UnboundNeverApplied
<1> QED
  BY <1>7, <1>8, <1>9, <1>10, <1>11, <1>12 DEF ServiceInv

LEMMA BindStep == ServiceInv /\ Bind => ServiceInv'
<1> SUFFICES ASSUME ServiceInv, Bind PROVE ServiceInv'
  OBVIOUS
<1>1. /\ req.arg \in PlanRefs /\ Approved(req.arg) /\ sid \in Sessions
      /\ st[sid] # "none" /\ record[sid] = catalog[req.arg.id] /\ Up
  BY DEF Bind, ServiceInv, CheckInv, Up
<1>2. [id |-> req.arg.id, digest |-> req.arg.digest] \in PlanRefs
  BY <1>1 DEF PlanRefs
<1> DEFINE ref == [id |-> req.arg.id, digest |-> req.arg.digest]
<1>3. /\ bound' = [bound EXCEPT ![sid] = ref] /\ bound' \in [Sessions -> PlanRefs \cup {Nothing}]
      /\ bound'[sid] = ref /\ \A t \in Sessions \ {sid} : bound'[t] = bound[t]
      /\ UNCHANGED <<catalog, last, ran, record, st, dirty, lease, sent, next>> /\ at' = "idle"
  BY <1>1, <1>2 DEF Bind, ServiceInv, TypeInv, Answer, ledgerVars, ctlVars, history
<1>4. TypeInv'
  BY <1>3 DEF ServiceInv, TypeInv, Calls
<1>5. (NumberInv /\ InOrderOnce)'
  BY <1>3 DEF ServiceInv, NumberInv, InOrderOnce
<1>6. LedgerInv' /\ CheckInv'
  BY <1>1, <1>3 DEF ServiceInv, LedgerInv, CheckInv, Pending
<1>7. PlanInv'
  <2>1. catalog[ref.id] # Nothing /\ record[sid] = catalog[ref.id] /\ record[sid].digest = ref.digest
    BY <1>1 DEF Approved
  <2> QED
    BY <1>2, <1>3, <2>1 DEF ServiceInv, PlanInv
<1>8. UnboundNeverApplied'
  <2> SUFFICES ASSUME NEW t \in Pending', bound'[t] = Nothing PROVE st'[t] = "prepared" /\ ~dirty'
    BY DEF UnboundNeverApplied
  <2>1. t \in Pending /\ t \in Sessions
    BY <1>3 DEF Pending
  <2>2. CASE t = sid
    BY <1>1, <1>3, <2>1, <2>2 DEF ServiceInv, CheckInv, UnboundNeverApplied, Bind
  <2>3. CASE t # sid
    BY <1>1, <1>3, <2>1, <2>3 DEF ServiceInv, UnboundNeverApplied
  <2> QED
    BY <2>2, <2>3
<1> QED
  BY <1>4, <1>5, <1>6, <1>7, <1>8 DEF ServiceInv

LEMMA AbortStep == ServiceInv /\ AbortPrepared => ServiceInv'
<1> SUFFICES ASSUME ServiceInv, AbortPrepared PROVE ServiceInv'
  OBVIOUS
<1>1. /\ sid \in Sessions /\ bound[sid] = Nothing /\ at = "check" /\ Up
      /\ UNCHANGED <<catalog, bound, last, ran, record, sent, next>> /\ at' = "idle"
  BY DEF AbortPrepared, ServiceInv, CheckInv, Answer, Up, ctlVars, memory, history
<1>2. /\ DOMAIN st' = Sessions /\ dirty' = dirty
      /\ \A t \in Sessions : st'[t] = st[t] \/ (t = sid /\ st'[t] = "none")
  <2>1. DOMAIN st = Sessions
    BY DEF ServiceInv, TypeInv
  <2>2. CASE Withdraw(sid)
    BY <1>1, <2>1, <2>2 DEF Withdraw
  <2>3. CASE UNCHANGED ledgerVars
    BY <2>1, <2>3 DEF ledgerVars
  <2> QED
    BY <2>2, <2>3 DEF AbortPrepared
<1>3. Pending' \subseteq Pending
  BY <1>2 DEF Pending
<1>4. TypeInv'
  BY <1>1, <1>2 DEF ServiceInv, TypeInv, Calls
<1>5. (NumberInv /\ InOrderOnce)'
  BY <1>1 DEF ServiceInv, NumberInv, InOrderOnce
<1>6. LedgerInv'
  BY <1>1, <1>2, <1>3 DEF ServiceInv, LedgerInv
<1>7. PlanInv' /\ CheckInv'
  BY <1>1 DEF ServiceInv, PlanInv, CheckInv
<1>8. UnboundNeverApplied'
  BY <1>1, <1>2, <1>3 DEF ServiceInv, UnboundNeverApplied, Pending
<1> QED
  BY <1>4, <1>5, <1>6, <1>7, <1>8 DEF ServiceInv

(* The engine at work on one session enters no other and forgets none.       *)
LEMMA EngineKeeps ==
    ASSUME ServiceInv, NEW s \in Sessions, Work(s) \/ Finish(s) \/ Release
    PROVE  /\ DOMAIN st' = Sessions
           /\ Pending' \subseteq Pending
           /\ \A t \in Sessions : st[t] # "none" => st'[t] # "none"
           /\ dirty' # dirty => s \in Pending
           /\ s \notin Pending => UNCHANGED <<st, dirty>>
           /\ \A t \in Sessions \ {s} : st'[t] = st[t]
<1>1. DOMAIN st = Sessions
  BY DEF ServiceInv, TypeInv
<1>2. CASE Work(s)
  BY <1>1, <1>2 DEF Work, Pending
<1>3. CASE Finish(s)
  BY <1>1, <1>3 DEF Finish, Pending
<1>4. CASE Release
  BY <1>1, <1>4 DEF Release, Pending
<1> QED
  BY <1>2, <1>3, <1>4

LEMMA EngineWorksStep == ServiceInv /\ EngineWorks => ServiceInv'
<1> SUFFICES ASSUME ServiceInv, EngineWorks PROVE ServiceInv'
  OBVIOUS
<1> DEFINE s == req.arg
<1>1. /\ s \in Sessions /\ bound[s] # Nothing /\ at \in {"Apply", "Restore"} /\ Up
      /\ Work(s) \/ Finish(s) \/ Release
      /\ UNCHANGED <<catalog, bound, last, ran, record, sent, next, at, req, sid>>
  BY DEF EngineWorks, LookupSession, ServiceInv, TypeInv, Calls, Up, ctlVars, callVars, memory, history
<1>2. /\ DOMAIN st' = Sessions
      /\ Pending' \subseteq Pending
      /\ \A t \in Sessions : st[t] # "none" => st'[t] # "none"
      /\ s \notin Pending => UNCHANGED <<st, dirty>>
      /\ \A t \in Sessions \ {s} : st'[t] = st[t]
  BY <1>1, EngineKeeps
<1> HIDE DEF s
<1>3. TypeInv'
  BY <1>1, <1>2 DEF ServiceInv, TypeInv
<1>4. (NumberInv /\ InOrderOnce)'
  BY <1>1 DEF ServiceInv, NumberInv, InOrderOnce
<1>5. LedgerInv'
  BY <1>1, <1>2 DEF ServiceInv, LedgerInv
<1>6. PlanInv' /\ CheckInv'
  BY <1>1 DEF ServiceInv, PlanInv, CheckInv
<1>7. UnboundNeverApplied'
  <2> SUFFICES ASSUME NEW t \in Pending', bound'[t] = Nothing PROVE st'[t] = "prepared" /\ ~dirty'
    BY DEF UnboundNeverApplied
  <2>1. t \in Pending /\ t # s /\ t \in Sessions
    BY <1>1, <1>2 DEF Pending
  <2>2. s \notin Pending
    BY <2>1 DEF ServiceInv, LedgerInv
  <2> QED
    BY <1>1, <1>2, <2>1, <2>2 DEF ServiceInv, UnboundNeverApplied
<1> QED
  BY <1>3, <1>4, <1>5, <1>6, <1>7 DEF ServiceInv

LEMMA RecoverStep == ServiceInv /\ RecoverUnfinished => ServiceInv'
<1> SUFFICES ASSUME ServiceInv, RecoverUnfinished PROVE ServiceInv'
  OBVIOUS
<1>1. PICK s \in Sessions : Work(s) \/ Finish(s)
  BY DEF RecoverUnfinished
<1>2. /\ at = "recover" /\ UNCHANGED <<catalog, bound, last, ran, record, sent, next, at, req, sid>>
  BY DEF RecoverUnfinished, ctlVars, callVars, memory, history
<1>3. /\ DOMAIN st' = Sessions
      /\ Pending' \subseteq Pending
      /\ \A t \in Sessions : st[t] # "none" => st'[t] # "none"
  BY <1>1, EngineKeeps
<1>4. TypeInv'
  BY <1>2, <1>3 DEF ServiceInv, TypeInv
<1>5. (NumberInv /\ InOrderOnce)'
  BY <1>2 DEF ServiceInv, NumberInv, InOrderOnce
<1>6. LedgerInv'
  BY <1>2, <1>3 DEF ServiceInv, LedgerInv
<1>7. PlanInv' /\ CheckInv' /\ UnboundNeverApplied'
  BY <1>2 DEF ServiceInv, PlanInv, CheckInv, UnboundNeverApplied, Up
<1> QED
  BY <1>4, <1>5, <1>6, <1>7 DEF ServiceInv

LEMMA StopStep == ServiceInv /\ HelperStops => ServiceInv'
<1> SUFFICES ASSUME ServiceInv, HelperStops PROVE ServiceInv'
  OBVIOUS
<1>1. /\ at' = "down" /\ UNCHANGED <<catalog, bound, last, ran, record, sent, next, st, dirty>>
  BY DEF HelperStops, Stop, ctlVars, memory, history
<1>2. TypeInv'
  BY <1>1 DEF ServiceInv, TypeInv, Calls
<1>3. (NumberInv /\ InOrderOnce)'
  BY <1>1 DEF ServiceInv, NumberInv, InOrderOnce
<1>4. LedgerInv' /\ PlanInv' /\ CheckInv' /\ UnboundNeverApplied'
  BY <1>1 DEF ServiceInv, LedgerInv, PlanInv, CheckInv, UnboundNeverApplied, Up, Pending
<1> QED
  BY <1>2, <1>3, <1>4 DEF ServiceInv

LEMMA ConstructedStep == ServiceInv /\ Constructed => ServiceInv'
<1> SUFFICES ASSUME ServiceInv, Constructed PROVE ServiceInv'
  OBVIOUS
<1>1. /\ Pending = {} /\ at' = "idle" /\ UNCHANGED <<record, sent, next, st, dirty>>
      /\ catalog' = [i \in PlanIds |-> Nothing] /\ bound' = [t \in Sessions |-> Nothing]
      /\ last' = [p \in Peers |-> 0] /\ ran' = <<>>
  BY DEF Constructed, ledgerVars, ctlVars
<1>2. TypeInv'
  BY <1>1 DEF ServiceInv, TypeInv, Calls
<1>3. (NumberInv /\ InOrderOnce)'
  BY <1>1 DEF NumberInv, InOrderOnce
<1>4. LedgerInv' /\ PlanInv' /\ CheckInv' /\ UnboundNeverApplied'
  BY <1>1 DEF LedgerInv, PlanInv, CheckInv, UnboundNeverApplied, Pending
<1> QED
  BY <1>2, <1>3, <1>4 DEF ServiceInv

(* A refusal, an answer and the two ends of a construction that failed.      *)
LEMMA IdleStep ==
    ServiceInv /\ (PrepareRefused \/ Return \/ Construct \/ ConstructFails) => ServiceInv'
<1> SUFFICES ASSUME ServiceInv, PrepareRefused \/ Return \/ Construct \/ ConstructFails PROVE ServiceInv'
  OBVIOUS
<1>1. /\ at' \in {"idle", "recover", "down"} /\ (Up' => Up)
      /\ UNCHANGED <<ledgerVars, memory, history, sent, next>>
  BY DEF PrepareRefused, Return, Construct, ConstructFails, Answer, Up, ctlVars, memory, history
<1>2. TypeInv'
  BY <1>1 DEF ServiceInv, TypeInv, Calls, memory, history, ledgerVars
<1> QED
  BY <1>1, <1>2, QuietStep

LEMMA ServiceStep == ServiceInv /\ [ServiceNext]_vars => ServiceInv'
<1> SUFFICES ASSUME ServiceInv, [ServiceNext]_vars PROVE ServiceInv'
  OBVIOUS
<1>1. CASE HandlerStep
  BY <1>1, IdleStep, PrepareStep, BindStep, AbortStep, EngineWorksStep, RecoverStep, ConstructedStep
     DEF HandlerStep
<1>2. CASE CallerStep
  BY <1>2, HandleFrameStep, RegisterStep, PrepareForPeerStep, CallForPeerStep DEF CallerStep
<1>3. CASE SendWire \/ Disconnect \/ HelperStops \/ Construct
  BY <1>3, SendWireStep, DisconnectStep, StopStep, IdleStep
<1>4. CASE UNCHANGED vars
  <2>1. UNCHANGED <<ledgerVars, ctlVars, callVars, memory, history>>
    BY <1>4 DEF vars
  <2>2. TypeInv'
    BY <2>1 DEF ServiceInv, TypeInv, ledgerVars, ctlVars, callVars, memory, history
  <2>3. (NumberInv /\ InOrderOnce)'
    BY <2>1 DEF ServiceInv, NumberInv, InOrderOnce, memory, history
  <2>4. LedgerInv' /\ PlanInv' /\ CheckInv' /\ UnboundNeverApplied'
    BY <2>1 DEF ServiceInv, LedgerInv, PlanInv, CheckInv, UnboundNeverApplied, Pending, Up, Approved,
       ledgerVars, callVars, memory, history
  <2> QED
    BY <2>2, <2>3, <2>4 DEF ServiceInv
<1> QED
  BY <1>1, <1>2, <1>3, <1>4 DEF ServiceNext

(* Within the life of a helper handle_frame lets the requests of a peer take *)
(* effect in the order of their numbers and none twice, however they are     *)
(* delayed and repeated.                                                     *)
THEOREM RequestsInOrder == ServiceSpec => []InOrderOnce
<1>1. ServiceInv => InOrderOnce
  BY DEF ServiceInv
<1> QED
  BY ServiceInitInv, ServiceStep, <1>1, PTL DEF ServiceSpec

(* What a running helper has no binding for, and so cannot restore by name,  *)
(* is a bare intent on a clean host, also after abort_prepared failed and    *)
(* after any number of restarts.                                             *)
THEOREM NothingUnboundApplied == ServiceSpec => []UnboundNeverApplied
<1>1. ServiceInv => UnboundNeverApplied
  BY DEF ServiceInv
<1> QED
  BY ServiceInitInv, ServiceStep, <1>1, PTL DEF ServiceSpec

(* A bound session runs the plan that is approved under its identity and     *)
(* digest, whatever was registered in between.                               *)
THEOREM ApprovedPlansOnly == ServiceSpec => []BoundPlanIsApproved
<1>1. ServiceInv => BoundPlanIsApproved
  BY DEF ServiceInv, PlanInv, BoundPlanIsApproved
<1> QED
  BY ServiceInitInv, ServiceStep, <1>1, PTL DEF ServiceSpec

-----------------------------------------------------------------------------
(* The registry of backends.                                                 *)

RegistryTypeInv ==
    /\ backends \in Seq(Descriptor)
    /\ aggregate \in [Names -> Nat]
    /\ held \in [Mutation -> Nat]

(* No two backends own the same name. *)
OwnershipInv ==
    \A i, j \in DOMAIN backends : i # j =>
        /\ backends[i].caps \cap backends[j].caps = {}
        /\ backends[i].ops \cap backends[j].ops = {}

Owned(n) == \E i \in DOMAIN backends : n \in backends[i].caps \/ n \in backends[i].ops

(* The registry's own descriptor counts every owned name once. *)
AggregateInv == \A n \in Names : aggregate[n] = IF Owned(n) THEN 1 ELSE 0

(* A snapshot was taken by a backend that owns the mutation. *)
HeldInv ==
    \A m \in Mutation : held[m] # 0 =>
        /\ held[m] \in DOMAIN backends
        /\ m[1] \in backends[held[m]].ops
        /\ m[2] \in backends[held[m]].caps

RegistryInv == RegistryTypeInv /\ OwnershipInv /\ AggregateInv /\ HeldInv

-----------------------------------------------------------------------------
LEMMA RegistryInitInv == RegistryInit => RegistryInv
BY DEF RegistryInit, RegistryInv, RegistryTypeInv, OwnershipInv, AggregateInv, HeldInv, Owned

(* backend_for returns a registered owner, or 0. *)
LEMMA BackendForOwns ==
    ASSUME RegistryInv, NEW m \in Mutation, BackendFor(m) # 0
    PROVE  /\ BackendFor(m) \in DOMAIN backends
           /\ m[1] \in backends[BackendFor(m)].ops
           /\ m[2] \in backends[BackendFor(m)].caps
<1> DEFINE owners == {i \in DOMAIN backends : m[1] \in backends[i].ops /\ m[2] \in backends[i].caps}
<1>1. owners # {} /\ BackendFor(m) = CHOOSE i \in owners : \A j \in owners : i <= j
  BY DEF BackendFor
<1>2. \A i, j \in owners : i = j
  BY DEF RegistryInv, OwnershipInv
<1>3. owners \subseteq Nat
  BY DEF RegistryInv, RegistryTypeInv
<1>4. \E i \in owners : \A j \in owners : i <= j
  BY <1>1, <1>2, <1>3
<1>5. BackendFor(m) \in owners
  BY <1>1, <1>4
<1> QED
  BY <1>5

(* The owner of a mutation is where it is routed to. *)
LEMMA OwnerIsRouted ==
    ASSUME RegistryInv, NEW m \in Mutation, NEW i \in DOMAIN backends,
           m[1] \in backends[i].ops, m[2] \in backends[i].caps
    PROVE  BackendFor(m) = i
<1> DEFINE owners == {k \in DOMAIN backends : m[1] \in backends[k].ops /\ m[2] \in backends[k].caps}
<1>1. i \in Nat
  BY DEF RegistryInv, RegistryTypeInv
<1>2. owners = {i}
  BY DEF RegistryInv, OwnershipInv
<1>3. \A k \in owners : k = i
  BY <1>2
<1>4. BackendFor(m) = CHOOSE k \in owners : \A j \in owners : k <= j
  BY <1>2 DEF BackendFor
<1>5. \E k \in owners : \A j \in owners : k <= j
  BY <1>1, <1>2
<1> HIDE DEF owners
<1> QED
  BY <1>3, <1>4, <1>5

LEMMA RegisterKeeps ==
    ASSUME RegistryInv, NEW d \in Descriptor, Register(d)
    PROVE  RegistryInv'
<1> DEFINE n == Len(backends)
<1>1. /\ backends' = Append(backends, d) /\ backends \in Seq(Descriptor) /\ n \in Nat
      /\ UNCHANGED held
  BY DEF Register, RegistryInv, RegistryTypeInv
<1>2. /\ backends' \in Seq(Descriptor) /\ DOMAIN backends' = 1..(n + 1) /\ DOMAIN backends = 1..n
      /\ backends'[n + 1] = d /\ \A i \in 1..n : backends'[i] = backends[i]
  BY <1>1
<1> HIDE DEF n
<1>3. \A i \in 1..n : d.caps \cap backends[i].caps = {} /\ d.ops \cap backends[i].ops = {}
  BY <1>2 DEF Register, Duplicate
<1>4. OwnershipInv'
  <2> SUFFICES ASSUME NEW i \in 1..(n + 1), NEW j \in 1..(n + 1), i # j
               PROVE  /\ backends'[i].caps \cap backends'[j].caps = {}
                      /\ backends'[i].ops \cap backends'[j].ops = {}
    BY <1>2 DEF OwnershipInv
  <2>1. CASE i \in 1..n /\ j \in 1..n
    BY <1>2, <2>1 DEF RegistryInv, OwnershipInv
  <2>2. CASE i = n + 1 /\ j \in 1..n
    BY <1>2, <1>3, <2>2
  <2>3. CASE i \in 1..n /\ j = n + 1
    BY <1>2, <1>3, <2>3
  <2> QED
    BY <1>1, <2>1, <2>2, <2>3 DEF n
<1>5. AggregateInv' /\ aggregate' \in [Names -> Nat]
  <2>1. aggregate' = [x \in Names |-> aggregate[x] + IF x \in d.caps \cup d.ops THEN 1 ELSE 0]
    BY DEF Register
  <2>2. \A x \in Names : aggregate[x] \in Nat /\ aggregate[x] = IF Owned(x) THEN 1 ELSE 0
    BY DEF RegistryInv, RegistryTypeInv, AggregateInv
  <2>3. aggregate' \in [Names -> Nat]
    BY <2>1, <2>2
  <2> SUFFICES ASSUME NEW x \in Names PROVE aggregate'[x] = IF Owned(x)' THEN 1 ELSE 0
    BY <2>3 DEF AggregateInv
  <2>4. Owned(x)' <=> Owned(x) \/ x \in d.caps \cup d.ops
    BY <1>1, <1>2 DEF Owned, n
  <2>5. x \in d.caps \cup d.ops => ~Owned(x)
    <3> SUFFICES ASSUME x \in d.caps \cup d.ops, NEW i \in 1..n,
                        x \in backends[i].caps \/ x \in backends[i].ops
                 PROVE  FALSE
      BY <1>2 DEF Owned
    <3>0. backends[i] \in Descriptor
      BY <1>1, <1>2
    <3>1. /\ d.caps \subseteq Capabilities /\ d.ops \subseteq Operations
          /\ backends[i].caps \subseteq Capabilities /\ backends[i].ops \subseteq Operations
      BY <3>0 DEF Descriptor
    <3>2. /\ x \notin d.caps \/ x \notin backends[i].caps
          /\ x \notin d.ops \/ x \notin backends[i].ops
      BY <1>3
    <3>3. x \notin Capabilities \/ x \notin Operations
      BY NamesAssumption
    <3> QED
      BY <3>1, <3>2, <3>3
  <2> QED
    BY <2>1, <2>2, <2>4, <2>5
<1>6. HeldInv'
  BY <1>1, <1>2 DEF RegistryInv, HeldInv, n
<1>7. RegistryTypeInv'
  BY <1>1, <1>2, <1>5 DEF RegistryInv, RegistryTypeInv
<1> QED
  BY <1>4, <1>5, <1>6, <1>7 DEF RegistryInv

LEMMA RegistryStep ==
    ASSUME RegistryInv, [RegistryNext]_registryVars
    PROVE  RegistryInv'
<1>1. ASSUME NEW d \in Descriptor, Register(d) PROVE RegistryInv'
  BY <1>1, RegisterKeeps
<1>2. ASSUME NEW m \in Mutation, TakeSnapshot(m) PROVE RegistryInv'
  <2>1. UNCHANGED <<backends, aggregate>>
    BY <1>2 DEF TakeSnapshot
  <2>2. CASE Admits(m)
    <3>1. /\ BackendFor(m) \in DOMAIN backends
          /\ m[1] \in backends[BackendFor(m)].ops
          /\ m[2] \in backends[BackendFor(m)].caps
      BY <2>2, BackendForOwns DEF Admits
    <3>2. held' = [held EXCEPT ![m] = BackendFor(m)]
      BY <1>2, <2>2 DEF TakeSnapshot
    <3>3. BackendFor(m) \in Nat
      BY <3>1 DEF RegistryInv, RegistryTypeInv
    <3> QED
      BY <2>1, <3>1, <3>2, <3>3 DEF RegistryInv, RegistryTypeInv, OwnershipInv, AggregateInv, HeldInv, Owned
  <2>3. CASE ~Admits(m)
    <3>1. UNCHANGED held
      BY <1>2, <2>3 DEF TakeSnapshot
    <3> QED
      BY <2>1, <3>1 DEF RegistryInv, RegistryTypeInv, OwnershipInv, AggregateInv, HeldInv, Owned
  <2> QED
    BY <2>2, <2>3
<1>3. ASSUME NEW m \in Mutation, Continue(m) PROVE RegistryInv'
  BY <1>3 DEF Continue, RegistryInv, RegistryTypeInv, OwnershipInv, AggregateInv, HeldInv, Owned
<1>4. CASE UNCHANGED registryVars
  BY <1>4 DEF registryVars, RegistryInv, RegistryTypeInv, OwnershipInv, AggregateInv, HeldInv, Owned
<1> QED
  BY <1>1, <1>2, <1>3, <1>4 DEF RegistryNext

LEMMA RegistryRoutes == RegistryInv => RoutedToOwner
<1> SUFFICES ASSUME RegistryInv, NEW m \in Mutation, held[m] # 0
             PROVE  /\ BackendFor(m) = held[m]
                    /\ \A i \in DOMAIN backends :
                          m[1] \in backends[i].ops \/ m[2] \in backends[i].caps => i = held[m]
                    /\ aggregate[m[1]] = 1 /\ aggregate[m[2]] = 1
  BY DEF RoutedToOwner
<1>1. /\ held[m] \in DOMAIN backends
      /\ m[1] \in backends[held[m]].ops /\ m[2] \in backends[held[m]].caps
  BY DEF RegistryInv, HeldInv
<1>2. BackendFor(m) = held[m]
  BY <1>1, OwnerIsRouted
<1>3. ASSUME NEW i \in DOMAIN backends, m[1] \in backends[i].ops \/ m[2] \in backends[i].caps
      PROVE  i = held[m]
  BY <1>1, <1>3 DEF RegistryInv, OwnershipInv
<1>4. m[1] \in Names /\ m[2] \in Names
  BY DEF Mutation, Names
<1>5. aggregate[m[1]] = 1 /\ aggregate[m[2]] = 1
  BY <1>1, <1>4 DEF RegistryInv, AggregateInv, Owned
<1> QED
  BY <1>2, <1>3, <1>5

(* Whatever register admits or refuses after a snapshot was taken, apply,    *)
(* verify and restore of the mutation reach the backend that took it.        *)
THEOREM RoutingIsStable == RegistrySpec => []RoutedToOwner
<1>1. RegistryInv /\ [RegistryNext]_registryVars => RegistryInv'
  BY RegistryStep
<1> QED
  BY RegistryInitInv, RegistryRoutes, <1>1, PTL DEF RegistrySpec

-----------------------------------------------------------------------------
(* The frames *)

(* The values of a byte. *)
Cells == 0..(Base - 1)

(* Induction, as the least counterexample. *)
LEMMA SmallestNumber ==
    ASSUME NEW T, T \subseteq Nat, T # {}
    PROVE  \E x \in T : \A y \in T : x <= y
<1> DEFINE less == {ss \in Nat \X Nat : ss[1] < ss[2]}
<1>1. IsWellFoundedOn(less, Nat)
  BY NatLessThanWellFounded DEF OpToRel
<1>2. \E x \in T : \A y \in T : ~(<<y, x>> \in less)
  <2> HIDE DEF less
  <2> QED
    BY <1>1, WFMin
<1>3. PICK x \in T : \A y \in T : ~(<<y, x>> \in less)
  BY <1>2
<1>4. ASSUME NEW y \in T PROVE x <= y
  <2>1. x \in Nat /\ y \in Nat /\ <<y, x>> \in Nat \X Nat
    OBVIOUS
  <2>2. ~(y < x)
    BY <1>3, <2>1
  <2> HIDE DEF less
  <2> QED
    BY <2>1, <2>2
<1> QED
  BY <1>4

(* What holds of 0, and of k + 1 if of k, holds up to w. *)
LEMMA UpTo ==
    ASSUME NEW w \in Nat, NEW T, 0 \in T, \A k \in 0..w : k < w /\ k \in T => k + 1 \in T
    PROVE  0..w \subseteq T
<1> DEFINE missing == (0..w) \ T
<1> SUFFICES ASSUME missing # {} PROVE FALSE
  OBVIOUS
<1>1. PICK x \in missing : \A y \in missing : x <= y
  <2>1. missing \subseteq Nat
    OBVIOUS
  <2> HIDE DEF missing
  <2> QED
    BY <2>1, SmallestNumber
<1>2. x \in 1..w /\ x - 1 \in 0..w /\ x - 1 < w
  BY <1>1
<1>3. x - 1 \in T
  BY <1>1, <1>2
<1>4. (x - 1) + 1 \in T /\ (x - 1) + 1 = x
  BY <1>2, <1>3
<1> QED
  BY <1>1, <1>4

-----------------------------------------------------------------------------
(* Numbers and their cells: to_be_bytes and from_be_bytes undo each other.  *)

LEMMA BytesAreNumbers == Cells \subseteq Nat
BY DEF Cells, Base

LEMMA LastCell ==
    ASSUME NEW n \in Nat
    PROVE  /\ n \div Base \in Nat
           /\ n % Base \in Cells
           /\ n = (n \div Base) * Base + (n % Base)
BY DEF Base, Cells

LEMMA AppendedCell ==
    ASSUME NEW n \in Nat, NEW c \in Cells
    PROVE  /\ n * Base + c \in Nat
           /\ (n * Base + c) \div Base = n
           /\ (n * Base + c) % Base = c
BY DEF Base, Cells

(* The equation that Shifted solves, and that it has a solution. *)
IsShifted(s, n, w) == s = [k \in 0..w |-> IF k = 0 THEN n ELSE s[k - 1] \div Base]

LEMMA ShiftedExists ==
    ASSUME NEW n \in Nat, NEW w \in Nat
    PROVE  \E s : IsShifted(s, n, w)
<1> DEFINE T == {j \in 0..w : \E s \in [0..j -> Nat] : IsShifted(s, n, j)}
<1>1. 0 \in T
  <2> DEFINE s == [k \in 0..0 |-> n]
  <2>1. s \in [0..0 -> Nat] /\ IsShifted(s, n, 0)
    BY DEF IsShifted
  <2> HIDE DEF s
  <2> QED
    BY <2>1
<1>2. ASSUME NEW j \in 0..w, j < w, j \in T PROVE j + 1 \in T
  <2>1. PICK s \in [0..j -> Nat] : IsShifted(s, n, j)
    BY <1>2
  <2>2. s[j] \div Base \in Nat /\ \A k \in 0..j : s[k] = IF k = 0 THEN n ELSE s[k - 1] \div Base
    <3>1. s[j] \in Nat
      OBVIOUS
    <3>2. s[j] \div Base \in Nat
      BY <3>1, LastCell
    <3> QED
      BY <2>1, <3>2 DEF IsShifted
  <2> DEFINE t == [k \in 0..(j + 1) |-> IF k = j + 1 THEN s[j] \div Base ELSE s[k]]
  <2>3. t \in [0..(j + 1) -> Nat]
    BY <2>2
  <2>4. ASSUME NEW k \in 0..(j + 1) PROVE t[k] = IF k = 0 THEN n ELSE t[k - 1] \div Base
    BY <2>2
  <2>5. IsShifted(t, n, j + 1)
    <3> HIDE DEF t
    <3> QED
      BY <2>3, <2>4 DEF IsShifted
  <2>6. j + 1 \in 0..w
    BY <1>2
  <2> HIDE DEF t
  <2> QED
    BY <2>3, <2>5, <2>6
<1>3. w \in T
  <2> HIDE DEF T
  <2>1. w \in 0..w
    OBVIOUS
  <2> QED
    BY <1>1, <1>2, <2>1, UpTo
<1> QED
  BY <1>3

LEMMA ShiftedUnfolds ==
    ASSUME NEW n \in Nat, NEW w \in Nat
    PROVE  /\ Shifted(n, w) \in [0..w -> Nat]
           /\ Shifted(n, w)[0] = n
           /\ \A k \in 0..w : k < w => Shifted(n, w)[k + 1] = Shifted(n, w)[k] \div Base
<1> DEFINE s == CHOOSE f : IsShifted(f, n, w)
<1>1. IsShifted(s, n, w)
  BY ShiftedExists, Zenon
<1>2. Shifted(n, w) = s
  BY Zenon DEF Shifted, IsShifted
<1> HIDE DEF s
<1>3. DOMAIN s = 0..w /\ \A k \in 0..w : s[k] = IF k = 0 THEN n ELSE s[k - 1] \div Base
  BY <1>1 DEF IsShifted
<1>4. s[0] = n /\ \A k \in 0..w : k < w => s[k + 1] = s[k] \div Base
  BY <1>3
<1> DEFINE T == {k \in 0..w : s[k] \in Nat}
<1>5. 0 \in T
  BY <1>4
<1>6. ASSUME NEW k \in 0..w, k < w, k \in T PROVE k + 1 \in T
  BY <1>4, <1>6, LastCell
<1>7. 0..w \subseteq T
  <2> HIDE DEF T
  <2> QED
    BY <1>5, <1>6, UpTo
<1>8. s \in [0..w -> Nat]
  <2>1. s = [k \in 0..w |-> s[k]]
    BY <1>1 DEF IsShifted
  <2> QED
    BY <1>7, <2>1
<1> QED
  BY <1>2, <1>4, <1>8

LEMMA DigitsCells ==
    ASSUME NEW n \in Nat, NEW w \in Nat
    PROVE  /\ Digits(n, w) \in [1..w -> Cells]
           /\ Digits(n, w) \in Seq(Cells)
           /\ Len(Digits(n, w)) = w
           /\ \A i \in 1..w : Digits(n, w)[i] = Shifted(n, w)[w - i] % Base
<1>1. \A i \in 1..w : Shifted(n, w)[w - i] % Base \in Cells
  <2> TAKE i \in 1..w
  <2>1. w - i \in 0..w /\ Shifted(n, w) \in [0..w -> Nat]
    BY ShiftedUnfolds
  <2>2. Shifted(n, w)[w - i] \in Nat
    BY <2>1
  <2> QED
    BY <2>2, LastCell
<1>2. Digits(n, w) \in [1..w -> Cells]
  BY <1>1 DEF Digits
<1>3. \A i \in 1..w : Digits(n, w)[i] = Shifted(n, w)[w - i] % Base
  BY DEF Digits
<1> QED
  BY <1>2, <1>3

(* The same for Read. *)
IsRead(r, cells) ==
    r = [k \in 0..Len(cells) |-> IF k = 0 THEN 0 ELSE r[k - 1] * Base + cells[k]]

ReadUpTo(r, cells, j) ==
    r = [k \in 0..j |-> IF k = 0 THEN 0 ELSE r[k - 1] * Base + cells[k]]

LEMMA ReadExists ==
    ASSUME NEW cells \in Seq(Cells)
    PROVE  \E r : IsRead(r, cells)
<1> DEFINE w == Len(cells)
           T == {j \in 0..w : \E r \in [0..j -> Nat] : ReadUpTo(r, cells, j)}
<1>0. w \in Nat /\ \A k \in 1..w : cells[k] \in Cells
  OBVIOUS
<1> HIDE DEF w
<1>1. 0 \in T
  <2> DEFINE r == [k \in 0..0 |-> 0]
  <2>1. r \in [0..0 -> Nat] /\ ReadUpTo(r, cells, 0)
    BY DEF ReadUpTo
  <2> HIDE DEF r
  <2> QED
    BY <1>0, <2>1
<1>2. ASSUME NEW j \in 0..w, j < w, j \in T PROVE j + 1 \in T
  <2>1. PICK r \in [0..j -> Nat] : ReadUpTo(r, cells, j)
    BY <1>2
  <2>2. /\ r[j] * Base + cells[j + 1] \in Nat
        /\ \A k \in 0..j : r[k] = IF k = 0 THEN 0 ELSE r[k - 1] * Base + cells[k]
    <3>1. r[j] \in Nat /\ cells[j + 1] \in Cells
      BY <1>0, <1>2
    <3> QED
      BY <2>1, <3>1, AppendedCell DEF ReadUpTo
  <2> DEFINE t == [k \in 0..(j + 1) |-> IF k = j + 1 THEN r[j] * Base + cells[j + 1] ELSE r[k]]
  <2>3. t \in [0..(j + 1) -> Nat]
    BY <1>0, <2>2
  <2>4. ASSUME NEW k \in 0..(j + 1) PROVE t[k] = IF k = 0 THEN 0 ELSE t[k - 1] * Base + cells[k]
    <3>1. CASE k = j + 1
      <4>1. k # 0 /\ k - 1 = j /\ j \in 0..(j + 1) /\ j # j + 1
        BY <1>0, <3>1
      <4>2. t[k] = r[j] * Base + cells[k] /\ t[k - 1] = r[j]
        BY <3>1, <4>1
      <4> QED
        BY <4>1, <4>2
    <3>2. CASE k # j + 1
      <4>1. k \in 0..j /\ t[k] = r[k]
        BY <1>0, <3>2
      <4>2. k # 0 => k - 1 \in 0..(j + 1) /\ k - 1 # j + 1 /\ t[k - 1] = r[k - 1]
        BY <1>0, <4>1
      <4> HIDE DEF t
      <4> QED
        BY <2>2, <4>1, <4>2
    <3> QED
      BY <3>1, <3>2
  <2>5. ReadUpTo(t, cells, j + 1)
    <3> HIDE DEF t
    <3> QED
      BY <2>3, <2>4 DEF ReadUpTo
  <2>6. j + 1 \in 0..w
    BY <1>0, <1>2
  <2> HIDE DEF t
  <2> QED
    BY <2>3, <2>5, <2>6
<1>3. w \in T
  <2> HIDE DEF T
  <2>1. w \in 0..w
    BY <1>0
  <2> QED
    BY <1>0, <1>1, <1>2, <2>1, UpTo
<1>4. PICK r : ReadUpTo(r, cells, w)
  BY <1>3
<1>5. IsRead(r, cells)
  BY <1>4 DEF ReadUpTo, IsRead, w
<1> QED
  BY <1>5

LEMMA ReadUnfolds ==
    ASSUME NEW cells \in Seq(Cells)
    PROVE  /\ \A k \in 0..Len(cells) : Read(cells)[k] \in Nat
           /\ Read(cells)[0] = 0
           /\ \A k \in 0..Len(cells) : k < Len(cells) =>
                  Read(cells)[k + 1] = Read(cells)[k] * Base + cells[k + 1]
<1> DEFINE w == Len(cells)
           s == CHOOSE f : IsRead(f, cells)
<1>0. w \in Nat /\ \A k \in 1..w : cells[k] \in Cells
  OBVIOUS
<1>1. IsRead(s, cells)
  BY ReadExists, Zenon
<1>2. Read(cells) = s
  BY Zenon DEF Read, IsRead
<1> HIDE DEF s
<1>3. \A k \in 0..w : s[k] = IF k = 0 THEN 0 ELSE s[k - 1] * Base + cells[k]
  BY <1>1 DEF IsRead
<1> HIDE DEF w
<1>4. s[0] = 0 /\ \A k \in 0..w : k < w => s[k + 1] = s[k] * Base + cells[k + 1]
  BY <1>0, <1>3
<1> DEFINE T == {k \in 0..w : s[k] \in Nat}
<1>5. 0 \in T
  BY <1>0, <1>4
<1>6. ASSUME NEW k \in 0..w, k < w, k \in T PROVE k + 1 \in T
  <2>1. cells[k + 1] \in Cells /\ s[k] \in Nat /\ k + 1 \in 0..w
    BY <1>0, <1>6
  <2> QED
    BY <1>4, <1>6, <2>1, AppendedCell
<1>7. 0..w \subseteq T
  <2> HIDE DEF T
  <2> QED
    BY <1>0, <1>5, <1>6, UpTo
<1> QED
  BY <1>2, <1>4, <1>7 DEF w

(* A number that fits its field is read as it was written. *)
LEMMA NumberOfDigits ==
    ASSUME NEW n \in Nat, NEW w \in Nat, Shifted(n, w)[w] = 0
    PROVE  Number(Digits(n, w)) = n
<1> DEFINE d == Digits(n, w)
           s == Shifted(n, w)
           T == {k \in 0..w : Read(d)[k] = s[w - k]}
<1>1. /\ s \in [0..w -> Nat] /\ s[0] = n /\ s[w] = 0
      /\ \A k \in 0..w : k < w => s[k + 1] = s[k] \div Base
  BY ShiftedUnfolds
<1>2. /\ d \in Seq(Cells) /\ Len(d) = w
      /\ \A i \in 1..w : d[i] = s[w - i] % Base
  BY DigitsCells
<1>3. /\ Read(d)[0] = 0
      /\ \A k \in 0..w : k < w => Read(d)[k + 1] = Read(d)[k] * Base + d[k + 1]
  BY <1>2, ReadUnfolds
<1> HIDE DEF d, s
<1>4. 0 \in T
  BY <1>1, <1>3
<1>5. ASSUME NEW k \in 0..w, k < w, k \in T PROVE k + 1 \in T
  <2> DEFINE j == w - (k + 1)
  <2>1. j \in 0..w /\ j < w /\ j + 1 = w - k /\ k + 1 \in 1..w
    BY <1>5
  <2>2. s[w - k] = s[j] \div Base /\ d[k + 1] = s[j] % Base /\ s[j] \in Nat
    BY <1>1, <1>2, <2>1
  <2>3. Read(d)[k + 1] = (s[j] \div Base) * Base + (s[j] % Base)
    BY <1>3, <1>5, <2>2
  <2>4. Read(d)[k + 1] = s[j]
    BY <2>2, <2>3, LastCell
  <2> QED
    BY <2>1, <2>4
<1>6. 0..w \subseteq T
  <2> HIDE DEF T
  <2> QED
    BY <1>4, <1>5, UpTo
<1>7. w \in T /\ w - w = 0
  BY <1>6
<1>8. Read(d)[w] = n
  BY <1>1, <1>7
<1> QED
  BY <1>2, <1>8 DEF Number, d

(* Cells that were read are written as they were. *)
LEMMA DigitsOfNumber ==
    ASSUME NEW cells \in Seq(Cells)
    PROVE  Digits(Number(cells), Len(cells)) = cells
<1> DEFINE w == Len(cells)
           n == Number(cells)
           s == Shifted(n, w)
           r == Read(cells)
           T == {k \in 0..w : s[k] = r[w - k]}
<1>0. w \in Nat /\ \A k \in 1..w : cells[k] \in Cells
  OBVIOUS
<1>1. /\ \A k \in 0..w : r[k] \in Nat
      /\ r[0] = 0
      /\ \A k \in 0..w : k < w => r[k + 1] = r[k] * Base + cells[k + 1]
  BY ReadUnfolds
<1>2. n = r[w] /\ n \in Nat
  BY <1>0, <1>1 DEF Number
<1>3. /\ s[0] = n
      /\ \A k \in 0..w : k < w => s[k + 1] = s[k] \div Base
  BY <1>0, <1>2, ShiftedUnfolds
<1>4. /\ Digits(n, w) \in [1..w -> Cells]
      /\ \A i \in 1..w : Digits(n, w)[i] = s[w - i] % Base
  BY <1>0, <1>2, DigitsCells
<1>5. cells \in [1..w -> Cells]
  OBVIOUS
<1> HIDE DEF w, n, s, r
<1>6. ASSUME NEW j \in 0..w, j < w
      PROVE  r[j + 1] \div Base = r[j] /\ r[j + 1] % Base = cells[j + 1]
  <2>1. r[j] \in Nat /\ cells[j + 1] \in Cells
    BY <1>0, <1>1, <1>6
  <2>2. r[j + 1] = r[j] * Base + cells[j + 1]
    BY <1>1, <1>6
  <2> QED
    BY <2>1, <2>2, AppendedCell
<1>7. 0 \in T
  BY <1>0, <1>2, <1>3
<1>8. ASSUME NEW k \in 0..w, k < w, k \in T PROVE k + 1 \in T
  <2> DEFINE j == w - (k + 1)
  <2>1. j \in 0..w /\ j < w /\ j + 1 = w - k /\ k + 1 \in 0..w
    BY <1>0, <1>8
  <2>2. s[k + 1] = r[j + 1] \div Base
    BY <1>3, <1>8, <2>1
  <2> QED
    BY <1>6, <2>1, <2>2
<1>9. 0..w \subseteq T
  <2> HIDE DEF T
  <2> QED
    BY <1>0, <1>7, <1>8, UpTo
<1>10. ASSUME NEW i \in 1..w PROVE Digits(n, w)[i] = cells[i]
  <2>1. w - i \in 0..w /\ w - (w - i) = i /\ i - 1 \in 0..w /\ i - 1 < w /\ (i - 1) + 1 = i
    BY <1>0
  <2>2. s[w - i] = r[i]
    BY <1>9, <2>1
  <2>3. r[i] % Base = cells[i]
    BY <1>6, <2>1
  <2> QED
    BY <1>4, <2>2, <2>3
<1>11. Digits(n, w) = cells
  <2>1. Digits(n, w) = [i \in 1..w |-> Digits(n, w)[i]] /\ cells = [i \in 1..w |-> cells[i]]
    BY <1>4, <1>5
  <2> QED
    BY <1>10, <2>1
<1> QED
  BY <1>11 DEF w, n

-----------------------------------------------------------------------------
(* Fields of a sequence. *)

LEMMA SameCells ==
    ASSUME NEW S, NEW s \in Seq(S), NEW t \in Seq(S), Len(s) = Len(t),
           \A i \in 1..Len(t) : s[i] = t[i]
    PROVE  s = t
OBVIOUS

LEMMA WiderSeq ==
    ASSUME NEW S, NEW T, S \subseteq T, NEW s \in Seq(S)
    PROVE  s \in Seq(T) /\ Len(s) \in Nat
OBVIOUS

LEMMA TableIsSeq ==
    ASSUME NEW S, NEW n \in Nat, NEW s \in [1..n -> S]
    PROVE  s \in Seq(S) /\ Len(s) = n
OBVIOUS

(* The cells of s are those of a, of b and of c, in this order. *)
InTurn(s, a, b, c) ==
    /\ \A i \in 1..Len(a) : s[i] = a[i]
    /\ \A i \in 1..Len(b) : s[Len(a) + i] = b[i]
    /\ \A i \in 1..Len(c) : s[Len(a) + Len(b) + i] = c[i]

LEMMA JoinedCells ==
    ASSUME NEW S, NEW a \in Seq(S), NEW b \in Seq(S), NEW c \in Seq(S)
    PROVE  InTurn(a \o b \o c, a, b, c)
BY DEF InTurn

(* s is made of the fields a, b and c. *)
Fields(S, s, a, b, c) ==
    /\ s \in Seq(S)
    /\ Len(s) = Len(a) + Len(b) + Len(c)
    /\ SubSeq(s, 1, Len(a)) = a
    /\ SubSeq(s, Len(a) + 1, Len(a) + Len(b)) = b
    /\ SubSeq(s, Len(a) + Len(b) + 1, Len(s)) = c

LEMMA Joined ==
    ASSUME NEW S, NEW a \in Seq(S), NEW b \in Seq(S), NEW c \in Seq(S), NEW s, s = a \o b \o c
    PROVE  Fields(S, s, a, b, c)
<1>1. s \in Seq(S) /\ Len(s) = Len(a) + Len(b) + Len(c)
  OBVIOUS
<1>2. /\ \A i \in 1..Len(a) : s[i] = a[i]
      /\ \A i \in 1..Len(b) : s[Len(a) + i] = b[i]
      /\ \A i \in 1..Len(c) : s[Len(a) + Len(b) + i] = c[i]
  <2>1. InTurn(s, a, b, c)
    BY JoinedCells, Zenon
  <2> QED
    BY <2>1 DEF InTurn
<1>3. SubSeq(s, 1, Len(a)) = a
  BY <1>1, <1>2
<1>4. SubSeq(s, Len(a) + 1, Len(a) + Len(b)) = b
  <2> DEFINE q == SubSeq(s, Len(a) + 1, Len(a) + Len(b))
  <2>1. q \in Seq(S) /\ Len(q) = Len(b) /\ \A i \in 1..Len(b) : q[i] = s[Len(a) + i]
    BY <1>1
  <2> HIDE DEF q
  <2>2. q = b
    BY <1>2, <2>1, SameCells
  <2> QED
    BY <2>2 DEF q
<1>5. SubSeq(s, Len(a) + Len(b) + 1, Len(s)) = c
  <2> DEFINE q == SubSeq(s, Len(a) + Len(b) + 1, Len(s))
  <2>1. q \in Seq(S) /\ Len(q) = Len(c) /\ \A i \in 1..Len(c) : q[i] = s[Len(a) + Len(b) + i]
    BY <1>1
  <2> HIDE DEF q
  <2>2. q = c
    BY <1>2, <2>1, SameCells
  <2> QED
    BY <2>2 DEF q
<1> QED
  BY <1>1, <1>3, <1>4, <1>5 DEF Fields

(* s falls into three fields after its cells m and n. *)
Parts(S, s, m, n) ==
    /\ SubSeq(s, 1, m) \o SubSeq(s, m + 1, n) \o SubSeq(s, n + 1, Len(s)) = s
    /\ SubSeq(s, 1, m) \in Seq(S) /\ Len(SubSeq(s, 1, m)) = m
    /\ SubSeq(s, m + 1, n) \in Seq(S) /\ Len(SubSeq(s, m + 1, n)) = n - m
    /\ SubSeq(s, n + 1, Len(s)) \in Seq(S)
    /\ Len(SubSeq(s, n + 1, Len(s))) = Len(s) - n

LEMMA Parted ==
    ASSUME NEW S, NEW s \in Seq(S), NEW m \in Nat, NEW n \in Nat, m <= n, n <= Len(s)
    PROVE  Parts(S, s, m, n)
<1> DEFINE a == SubSeq(s, 1, m)
           b == SubSeq(s, m + 1, n)
           c == SubSeq(s, n + 1, Len(s))
<1>1. a \in Seq(S) /\ Len(a) = m /\ \A i \in 1..m : a[i] = s[i]
  OBVIOUS
<1>2. b \in Seq(S) /\ Len(b) = n - m /\ \A i \in 1..(n - m) : b[i] = s[m + i]
  OBVIOUS
<1>3. c \in Seq(S) /\ Len(c) = Len(s) - n /\ \A i \in 1..(Len(s) - n) : c[i] = s[n + i]
  OBVIOUS
<1> HIDE DEF a, b, c
<1>4. a \o b \o c \in Seq(S) /\ Len(a \o b \o c) = Len(s)
  <2>1. a \o b \o c \in Seq(S) /\ Len(a \o b \o c) = Len(a) + Len(b) + Len(c)
    BY <1>1, <1>2, <1>3, Joined DEF Fields
  <2> QED
    BY <1>1, <1>2, <1>3, <2>1
<1>5. ASSUME NEW i \in 1..Len(s) PROVE (a \o b \o c)[i] = s[i]
  <2> DEFINE g == a \o b \o c
  <2>0. /\ \A j \in 1..Len(a) : g[j] = a[j]
        /\ \A j \in 1..Len(b) : g[Len(a) + j] = b[j]
        /\ \A j \in 1..Len(c) : g[Len(a) + Len(b) + j] = c[j]
    <3>1. InTurn(g, a, b, c)
      BY <1>1, <1>2, <1>3, JoinedCells, Zenon
    <3> QED
      BY <3>1, Zenon DEF InTurn
  <2> HIDE DEF g
  <2>1. CASE i <= m
    <3>1. i \in 1..Len(a) /\ i \in 1..m
      BY <1>1, <2>1
    <3>2. g[i] = a[i] /\ a[i] = s[i]
      BY <1>1, <2>0, <3>1, Zenon
    <3> QED
      BY <3>2 DEF g
  <2>2. CASE m < i /\ i <= n
    <3>1. i - m \in 1..(n - m) /\ i - m \in 1..Len(b) /\ m + (i - m) = i /\ Len(a) + (i - m) = i
      BY <1>1, <1>2, <2>2
    <3>2. g[Len(a) + (i - m)] = b[i - m] /\ b[i - m] = s[m + (i - m)]
      BY <1>2, <2>0, <3>1, Zenon
    <3> QED
      BY <3>1, <3>2 DEF g
  <2>3. CASE n < i
    <3>1. /\ i - n \in 1..(Len(s) - n) /\ i - n \in 1..Len(c)
          /\ n + (i - n) = i /\ Len(a) + Len(b) + (i - n) = i
      BY <1>1, <1>2, <1>3, <2>3
    <3>2. g[Len(a) + Len(b) + (i - n)] = c[i - n] /\ c[i - n] = s[n + (i - n)]
      BY <1>3, <2>0, <3>1, Zenon
    <3> QED
      BY <3>1, <3>2 DEF g
  <2>4. i <= m \/ (m < i /\ i <= n) \/ n < i
    OBVIOUS
  <2> QED
    BY <2>1, <2>2, <2>3, <2>4, Zenon
<1>6. a \o b \o c = s
  BY <1>4, <1>5, SameCells
<1> QED
  BY <1>1, <1>2, <1>3, <1>6 DEF a, b, c, Parts

LEMMA LastField ==
    ASSUME NEW S, NEW s \in Seq(S), NEW n \in Nat, n = Len(s), n # 0
    PROVE  SubSeq(s, n, n) = <<s[n]>> /\ s[n] \in S
<1> DEFINE q == SubSeq(s, n, n)
<1>1. n \in 1..Len(s) /\ s[n] \in S
  OBVIOUS
<1>2. q \in Seq(S) /\ Len(q) = 1 /\ q[1] = s[n]
  BY <1>1
<1> HIDE DEF q
<1>3. q = <<s[n]>>
  BY <1>2
<1> QED
  BY <1>1, <1>3 DEF q

LEMMA Headed ==
    ASSUME NEW h1, NEW h2, NEW h3, NEW h4, NEW S, NEW p \in Seq(S),
           h1 \in S, h2 \in S, h3 \in S, h4 \in S
    PROVE  LET f == <<h1, h2, h3, h4>> \o p
           IN  /\ f \in Seq(S) /\ Len(f) = 4 + Len(p)
               /\ f[1] = h1 /\ f[2] = h2 /\ f[3] = h3 /\ f[4] = h4
               /\ \A i \in 1..Len(p) : f[4 + i] = p[i]
               /\ SubSeq(f, 5, Len(f)) = p
<1> DEFINE f == <<h1, h2, h3, h4>> \o p
<1>1. <<h1, h2, h3, h4>> \in Seq(S) /\ Len(<<h1, h2, h3, h4>>) = 4
  OBVIOUS
<1>2. /\ f \in Seq(S) /\ Len(f) = 4 + Len(p)
      /\ f[1] = h1 /\ f[2] = h2 /\ f[3] = h3 /\ f[4] = h4
      /\ \A i \in 1..Len(p) : f[4 + i] = p[i]
  BY <1>1
<1> HIDE DEF f
<1>3. SubSeq(f, 5, Len(f)) = p
  <2> DEFINE q == SubSeq(f, 5, Len(f))
  <2>1. q \in Seq(S) /\ Len(q) = Len(p) /\ \A i \in 1..Len(p) : q[i] = f[4 + i]
    BY <1>2
  <2> HIDE DEF q
  <2>2. q = p
    BY <1>2, <2>1
  <2> QED
    BY <2>2 DEF q
<1> QED
  BY <1>2, <1>3 DEF f

LEMMA Beheaded ==
    ASSUME NEW S, NEW f \in Seq(S), Len(f) >= 4
    PROVE  /\ SubSeq(f, 5, Len(f)) \in Seq(S)
           /\ Len(SubSeq(f, 5, Len(f))) = Len(f) - 4
           /\ \A i \in 1..(Len(f) - 4) : SubSeq(f, 5, Len(f))[i] = f[4 + i]
           /\ <<f[1], f[2], f[3], f[4]>> \o SubSeq(f, 5, Len(f)) = f
<1> DEFINE p == SubSeq(f, 5, Len(f))
<1>1. p \in Seq(S) /\ Len(p) = Len(f) - 4 /\ \A i \in 1..(Len(f) - 4) : p[i] = f[4 + i]
  <2>1. p \in Seq(S) /\ Len(p) = Len(f) - 4
    <3>1. PICK n \in Nat : n = 4
      OBVIOUS
    <3>2. n <= n /\ n <= Len(f)
      BY <3>1
    <3>3. SubSeq(f, n + 1, Len(f)) \in Seq(S) /\ Len(SubSeq(f, n + 1, Len(f))) = Len(f) - n
      BY <3>2, Parted DEF Parts
    <3>4. n + 1 = 5 /\ Len(f) - n = Len(f) - 4
      BY <3>1
    <3> QED
      BY <3>3, <3>4
  <2>2. \A i \in 1..(Len(f) - 4) : p[i] = f[4 + i]
    OBVIOUS
  <2> QED
    BY <2>1, <2>2
<1>2. f[1] \in S /\ f[2] \in S /\ f[3] \in S /\ f[4] \in S
  <2>1. \A i \in 1..Len(f) : f[i] \in S
    OBVIOUS
  <2>2. 1 \in 1..Len(f) /\ 2 \in 1..Len(f) /\ 3 \in 1..Len(f) /\ 4 \in 1..Len(f)
    OBVIOUS
  <2> QED
    BY <2>1, <2>2
<1> HIDE DEF p
<1> DEFINE g == <<f[1], f[2], f[3], f[4]>> \o p
<1>3. /\ g \in Seq(S) /\ Len(g) = 4 + Len(p)
      /\ g[1] = f[1] /\ g[2] = f[2] /\ g[3] = f[3] /\ g[4] = f[4]
      /\ \A i \in 1..Len(p) : g[4 + i] = p[i]
  BY <1>1, <1>2, Headed
<1> HIDE DEF g
<1>4. ASSUME NEW i \in 1..Len(f) PROVE g[i] = f[i]
  <2>1. CASE i \in 1..4
    BY <1>3, <2>1
  <2>2. CASE i > 4
    <3>1. i - 4 \in 1..Len(p) /\ 4 + (i - 4) = i
      BY <1>1, <2>2
    <3> QED
      BY <1>1, <1>3, <3>1
  <2> QED
    BY <2>1, <2>2
<1>5. g = f
  BY <1>1, <1>3, <1>4
<1> QED
  BY <1>1, <1>5 DEF p, g

-----------------------------------------------------------------------------
(* The tables are inverse to one another. *)

LEMMA StateTable ==
    /\ DOMAIN StateFromTag = 1..12
    /\ \A c \in DOMAIN StateTag :
          StateTag[c] \in 0..11 /\ StateFromTag[StateTag[c] + 1] = c
    /\ \A t \in Nat : t + 1 \in 1..12 => StateTag[StateFromTag[t + 1]] = t
BY DEF StateTag, StateFromTag

LEMMA ErrorTable ==
    /\ DOMAIN ErrorFromTag = 1..16
    /\ \A c \in DOMAIN ErrorTag :
          ErrorTag[c] \in 1..16 /\ ErrorFromTag[ErrorTag[c]] = c
    /\ \A t \in 1..16 : ErrorTag[ErrorFromTag[t]] = t
BY DEF ErrorTag, ErrorFromTag

LEMMA KindTable ==
    /\ \A k \in Requests \cup Responses : Tag[k] \in Cells
    /\ \A k, l \in Requests \cup Responses : Tag[k] = Tag[l] => k = l
BY DEF Tag, Requests, Responses, Cells, Base

LEMMA Widths ==
    ASSUME NEW k \in Requests \cup Responses
    PROVE  /\ Rest(k) \in Nat /\ RawLen(k) \in Nat /\ NumberWidth \in Nat
           /\ Rest(k) = RawLen(k) + (IF k = "State" THEN 1 ELSE IF k = "Rejected" THEN 2 ELSE 0)
BY WireAssumption DEF Requests, Responses, Rest, RawLen

(* Kinds, their codes and the cells of a code. *)
Kinds == Requests \cup Responses

CodesOf(kind) ==
    CASE kind = "State" -> DOMAIN StateTag
      [] kind = "Rejected" -> DOMAIN ErrorTag
      [] OTHER -> {"none"}

CodeCells(kind, code) ==
    CASE kind = "State" -> <<StateTag[code]>>
      [] kind = "Rejected" -> Digits(ErrorTag[code], 2)
      [] OTHER -> <<>>

(* A message that the encoder is given and the decoder makes. *)
IsMessage(m) ==
    /\ m.kind \in Kinds
    /\ m.number \in Nat
    /\ m.raw \in Seq(Cells)
    /\ Len(m.raw) = RawLen(m.kind)
    /\ m.code \in CodesOf(m.kind)

(* The last field has the width that the kind gives it. *)
LEMMA CodeFits ==
    ASSUME NEW kind \in Kinds, NEW code \in CodesOf(kind)
    PROVE  /\ CodeCells(kind, code) \in Seq(Cells)
           /\ Len(CodeCells(kind, code)) = Rest(kind) - RawLen(kind)
<1>0. Rest(kind) - RawLen(kind) = IF kind = "State" THEN 1 ELSE IF kind = "Rejected" THEN 2 ELSE 0
  BY Widths DEF Kinds
<1>1. CASE kind = "State"
  <2>1. StateTag[code] \in Cells
    BY <1>1, StateTable DEF CodesOf, Cells, Base
  <2>2. CodeCells(kind, code) = <<StateTag[code]>>
    BY <1>1 DEF CodeCells
  <2>3. Rest(kind) - RawLen(kind) = 1
    BY <1>0, <1>1
  <2>4. <<StateTag[code]>> \in Seq(Cells) /\ Len(<<StateTag[code]>>) = 1
    BY <2>1
  <2> QED
    BY <2>2, <2>3, <2>4
<1>2. CASE kind = "Rejected"
  <2>1. ErrorTag[code] \in Nat
    BY <1>2, ErrorTable DEF CodesOf
  <2>2. CodeCells(kind, code) = Digits(ErrorTag[code], 2)
    BY <1>2 DEF CodeCells
  <2>3. Rest(kind) - RawLen(kind) = 2
    BY <1>0, <1>2
  <2>4. Digits(ErrorTag[code], 2) \in Seq(Cells) /\ Len(Digits(ErrorTag[code], 2)) = 2
    BY <2>1, DigitsCells
  <2> QED
    BY <2>2, <2>3, <2>4
<1>3. CASE kind # "State" /\ kind # "Rejected"
  <2>1. CodeCells(kind, code) = <<>>
    BY <1>3 DEF CodeCells
  <2> QED
    BY <1>0, <1>3, <2>1
<1> QED
  BY <1>1, <1>2, <1>3

(* The fields of the payload can be told apart by their widths. *)
LEMMA PayloadFields ==
    ASSUME NEW m, IsMessage(m)
    PROVE  /\ Payload(m) \in Seq(Cells)
           /\ Len(Payload(m)) = NumberWidth + Rest(m.kind)
           /\ SubSeq(Payload(m), 1, NumberWidth) = Digits(m.number, NumberWidth)
           /\ SubSeq(Payload(m), NumberWidth + 1, NumberWidth + RawLen(m.kind)) = m.raw
           /\ SubSeq(Payload(m), NumberWidth + RawLen(m.kind) + 1, Len(Payload(m)))
                = CodeCells(m.kind, m.code)
<1> DEFINE a == Digits(m.number, NumberWidth)
           b == m.raw
           c == CodeCells(m.kind, m.code)
<1>1. Payload(m) = a \o b \o c
  BY DEF Payload, CodeCells
<1>2. NumberWidth \in Nat /\ Rest(m.kind) \in Nat /\ RawLen(m.kind) \in Nat
  BY Widths DEF IsMessage, Kinds
<1>3. a \in Seq(Cells) /\ Len(a) = NumberWidth
  BY <1>2, DigitsCells DEF IsMessage
<1>4. b \in Seq(Cells) /\ Len(b) = RawLen(m.kind)
  BY DEF IsMessage
<1>5. c \in Seq(Cells) /\ Len(c) = Rest(m.kind) - RawLen(m.kind)
  BY CodeFits DEF IsMessage
<1> HIDE DEF a, b, c
<1> DEFINE p == Payload(m)
<1>6. Fields(Cells, p, a, b, c)
  <2>1. p = a \o b \o c
    BY <1>1
  <2>2. a \in Seq(Cells) /\ b \in Seq(Cells) /\ c \in Seq(Cells)
    BY <1>3, <1>4, <1>5
  <2> HIDE DEF p
  <2> QED
    BY <2>1, <2>2, Joined, Zenon
<1> HIDE DEF p
<1>7. /\ Len(p) = NumberWidth + Rest(m.kind)
      /\ SubSeq(p, 1, NumberWidth) = a
      /\ SubSeq(p, NumberWidth + 1, NumberWidth + RawLen(m.kind)) = b
      /\ SubSeq(p, NumberWidth + RawLen(m.kind) + 1, Len(p)) = c
  BY <1>2, <1>3, <1>4, <1>5, <1>6 DEF Fields
<1> QED
  BY <1>6, <1>7 DEF a, b, c, p, Fields

(* The header comes first and the payload is what follows it. *)
LEMMA EncodedFrame ==
    ASSUME NEW m, IsMessage(m)
    PROVE  /\ Encode(m) \in Seq(Nat)
           /\ Len(Encode(m)) = HeaderLen + Len(Payload(m))
           /\ Encode(m)[1] = Magic /\ Encode(m)[2] = ProtocolVersion
           /\ Encode(m)[3] = Tag[m.kind] /\ Encode(m)[4] = Len(Payload(m))
           /\ \A i \in 1..Len(Payload(m)) : Encode(m)[4 + i] = Payload(m)[i]
           /\ SubSeq(Encode(m), HeaderLen + 1, Len(Encode(m))) = Payload(m)
<1> DEFINE p == Payload(m)
           t == Tag[m.kind]
<1>1. p \in Seq(Cells) /\ Cells \subseteq Nat
  BY PayloadFields DEF Cells, Base
<1>2. p \in Seq(Nat) /\ Len(p) \in Nat
  BY <1>1, WiderSeq
<1>3. t \in Nat /\ Magic \in Nat /\ ProtocolVersion \in Nat
  BY <1>1, KindTable DEF IsMessage, Kinds, Magic, ProtocolVersion
<1>4. Encode(m) = <<Magic, ProtocolVersion, t, Len(p)>> \o p
  BY DEF Encode
<1> HIDE DEF p, t
<1>5. LET f == <<Magic, ProtocolVersion, t, Len(p)>> \o p
      IN  /\ f \in Seq(Nat) /\ Len(f) = 4 + Len(p)
          /\ f[1] = Magic /\ f[2] = ProtocolVersion /\ f[3] = t /\ f[4] = Len(p)
          /\ \A i \in 1..Len(p) : f[4 + i] = p[i]
          /\ SubSeq(f, 5, Len(f)) = p
  BY <1>2, <1>3, Headed
<1>6. /\ Encode(m) \in Seq(Nat) /\ Len(Encode(m)) = 4 + Len(p)
      /\ Encode(m)[1] = Magic /\ Encode(m)[2] = ProtocolVersion
      /\ Encode(m)[3] = t /\ Encode(m)[4] = Len(p)
      /\ \A i \in 1..Len(p) : Encode(m)[4 + i] = p[i]
      /\ SubSeq(Encode(m), 5, Len(Encode(m))) = p
  BY <1>4, <1>5, Zenon
<1>7. HeaderLen = 4 /\ HeaderLen + 1 = 5
  BY DEF HeaderLen
<1> QED
  BY <1>6, <1>7 DEF p, t

(* Every message that is sent is one. *)
LEMMA MessageShape ==
    ASSUME NEW m \in Messages
    PROVE  /\ IsMessage(m)
           /\ m.number \in SomeNumbers
           /\ m = [kind |-> m.kind, number |-> m.number, raw |-> m.raw, code |-> m.code]
<1>1. PICK k \in Kinds :
        m \in [kind : {k}, number : SomeNumbers, raw : [1..RawLen(k) -> RawCells], code : CodesOf(k)]
  BY DEF Messages, Kinds, CodesOf
<1>2. m.kind = k /\ m.number \in SomeNumbers /\ m.raw \in [1..RawLen(k) -> RawCells] /\ m.code \in CodesOf(k)
  BY <1>1
<1>3. m = [kind |-> m.kind, number |-> m.number, raw |-> m.raw, code |-> m.code]
  BY <1>1
<1>4. RawLen(k) \in Nat
  BY Widths DEF Kinds
<1>5. m.raw \in Seq(Cells) /\ Len(m.raw) = RawLen(k)
  <2>1. m.raw \in [1..RawLen(k) -> Cells]
    BY <1>2, WireAssumption DEF Cells
  <2> QED
    BY <1>4, <2>1, TableIsSeq
<1>6. m.number \in Nat
  BY <1>2, WireAssumption
<1> QED
  BY <1>2, <1>3, <1>5, <1>6 DEF IsMessage

-----------------------------------------------------------------------------
(* What a decoder makes of a frame that it accepts. *)
Taken(f, kind) ==
    LET p == SubSeq(f, HeaderLen + 1, Len(f))
    IN  [kind |-> kind,
         number |-> Number(SubSeq(p, 1, NumberWidth)),
         raw |-> SubSeq(p, NumberWidth + 1, NumberWidth + RawLen(kind)),
         code |-> DecodedCode(kind, p)]

(* When it does. *)
Accepts(f, kind) ==
    LET p == SubSeq(f, HeaderLen + 1, Len(f))
    IN  /\ Unframe(f)
        /\ Tag[kind] = f[3]
        /\ ExactFields(kind, p)
        /\ Number(SubSeq(p, 1, NumberWidth)) # 0
        /\ CodeKnown(kind, p)

LEMMA DecodeAccepts ==
    ASSUME NEW f, NEW kinds \in {Requests, Responses}
    PROVE  /\ \A k \in kinds : Accepts(f, k) => Decode(f, kinds) = Taken(f, k)
           /\ (\A k \in kinds : ~Accepts(f, k)) => Decode(f, kinds) = Refused
<1>1. \A k, l \in kinds : Tag[k] = Tag[l] => k = l
  BY KindTable
<1>2. ASSUME NEW k \in kinds, Accepts(f, k) PROVE Decode(f, kinds) = Taken(f, k)
  <2>1. Tag[k] = f[3]
    BY <1>2 DEF Accepts
  <2>2. k = CHOOSE l \in kinds : Tag[l] = f[3]
    BY <1>1, <2>1
  <2> QED
    BY <1>2, <2>1, <2>2, Zenon DEF Decode, Accepts, Taken
<1>3. ASSUME \A k \in kinds : ~Accepts(f, k) PROVE Decode(f, kinds) = Refused
  <2>1. CASE ~Unframe(f) \/ ~\E k \in kinds : Tag[k] = f[3]
    BY <2>1, Zenon DEF Decode
  <2>2. CASE Unframe(f) /\ \E k \in kinds : Tag[k] = f[3]
    <3> DEFINE l == CHOOSE k \in kinds : Tag[k] = f[3]
    <3>1. l \in kinds /\ Tag[l] = f[3]
      BY <2>2, Zenon
    <3>2. ~Accepts(f, l)
      BY <1>3, <3>1
    <3> QED
      BY <2>2, <3>1, <3>2, Zenon DEF Decode, Accepts
  <2> QED
    BY <2>1, <2>2, Zenon
<1> QED
  BY <1>2, <1>3

(* The last field is decoded to the code it was made of, and encoded to the *)
(* cells it was read from.                                                   *)
LEMMA CodeRead ==
    ASSUME NEW kind \in Kinds, NEW code \in CodesOf(kind), NEW p \in Seq(Cells),
           Len(p) = NumberWidth + Rest(kind),
           SubSeq(p, NumberWidth + RawLen(kind) + 1, Len(p)) = CodeCells(kind, code)
    PROVE  CodeKnown(kind, p) /\ DecodedCode(kind, p) = code
<1>0. /\ Rest(kind) \in Nat /\ RawLen(kind) \in Nat /\ NumberWidth \in Nat
      /\ Rest(kind) = RawLen(kind) + (IF kind = "State" THEN 1 ELSE IF kind = "Rejected" THEN 2 ELSE 0)
  BY Widths DEF Kinds
<1>1. CASE kind = "State"
  <2>1. NumberWidth + RawLen(kind) + 1 = Len(p)
    BY <1>0, <1>1
  <2>2. SubSeq(p, Len(p), Len(p)) = <<StateTag[code]>>
    BY <1>1, <2>1 DEF CodeCells
  <2>3. SubSeq(p, Len(p), Len(p)) = <<p[Len(p)]>>
    <3>1. Len(p) \in Nat /\ Len(p) # 0
      BY <1>0, <2>1
    <3> QED
      BY <3>1, LastField
  <2>4. p[Len(p)] = StateTag[code]
    BY <2>2, <2>3
  <2>5. StateTag[code] + 1 \in DOMAIN StateFromTag /\ StateFromTag[StateTag[code] + 1] = code
    BY <1>1, StateTable DEF CodesOf
  <2> QED
    BY <1>1, <2>4, <2>5 DEF CodeKnown, DecodedCode
<1>2. CASE kind = "Rejected"
  <2>1. RawLen(kind) = 0 /\ NumberWidth + RawLen(kind) + 1 = NumberWidth + 1
    BY <1>0, <1>2 DEF RawLen
  <2>2. SubSeq(p, NumberWidth + 1, Len(p)) = Digits(ErrorTag[code], 2)
    BY <1>2, <2>1 DEF CodeCells
  <2>3. ErrorTag[code] \in 1..16 /\ ErrorFromTag[ErrorTag[code]] = code /\ DOMAIN ErrorFromTag = 1..16
    BY <1>2, ErrorTable DEF CodesOf
  <2>4. Shifted(ErrorTag[code], 2)[2] = 0
    <3> DEFINE s == Shifted(ErrorTag[code], 2)
    <3>1. ErrorTag[code] \in Nat /\ 2 \in Nat
      BY <2>3
    <3>2. s[0] = ErrorTag[code] /\ \A k \in 0..2 : k < 2 => s[k + 1] = s[k] \div Base
      BY <3>1, ShiftedUnfolds
    <3> HIDE DEF s
    <3>3. s[1] = s[0] \div Base /\ s[2] = s[1] \div Base
      <4>1. s[0 + 1] = s[0] \div Base /\ s[1 + 1] = s[1] \div Base
        BY <3>2
      <4> QED
        BY <4>1
    <3>4. s[1] = 0
      BY <2>3, <3>2, <3>3 DEF Base
    <3>5. s[2] = 0
      BY <3>3, <3>4 DEF Base
    <3> QED
      BY <3>5 DEF s
  <2>5. Number(Digits(ErrorTag[code], 2)) = ErrorTag[code]
    BY <2>3, <2>4, NumberOfDigits
  <2> QED
    BY <1>2, <2>2, <2>3, <2>5 DEF CodeKnown, DecodedCode
<1>3. CASE kind # "State" /\ kind # "Rejected"
  BY <1>3 DEF CodeKnown, DecodedCode, CodesOf
<1> QED
  BY <1>1, <1>2, <1>3

LEMMA CodeWritten ==
    ASSUME NEW kind \in Kinds, NEW p \in Seq(Cells),
           Len(p) = NumberWidth + Rest(kind), CodeKnown(kind, p)
    PROVE  /\ DecodedCode(kind, p) \in CodesOf(kind)
           /\ CodeCells(kind, DecodedCode(kind, p)) =
                SubSeq(p, NumberWidth + RawLen(kind) + 1, Len(p))
<1> DEFINE q == SubSeq(p, NumberWidth + RawLen(kind) + 1, Len(p))
<1>0. /\ Rest(kind) \in Nat /\ RawLen(kind) \in Nat /\ NumberWidth \in Nat
      /\ Rest(kind) = RawLen(kind) + (IF kind = "State" THEN 1 ELSE IF kind = "Rejected" THEN 2 ELSE 0)
  BY Widths DEF Kinds
<1>1. CASE kind = "State"
  <2>1. NumberWidth + RawLen(kind) + 1 = Len(p) /\ Len(p) \in Nat /\ Len(p) # 0
    BY <1>0, <1>1
  <2>2. p[Len(p)] \in Nat /\ p[Len(p)] + 1 \in 1..12
    <3>1. p[Len(p)] \in Cells
      BY <2>1, LastField
    <3>2. p[Len(p)] + 1 \in DOMAIN StateFromTag
      BY <1>1 DEF CodeKnown
    <3>3. p[Len(p)] \in Nat
      BY <3>1, BytesAreNumbers
    <3> QED
      BY <3>2, <3>3, StateTable
  <2>3. q = <<p[Len(p)]>>
    BY <2>1, LastField
  <2>4. DecodedCode(kind, p) = StateFromTag[p[Len(p)] + 1]
    BY <1>1 DEF DecodedCode
  <2>5. StateFromTag[p[Len(p)] + 1] \in DOMAIN StateTag
    BY <2>2 DEF StateFromTag, StateTag
  <2>6. StateTag[StateFromTag[p[Len(p)] + 1]] = p[Len(p)]
    BY <2>2, StateTable
  <2> QED
    BY <1>1, <2>3, <2>4, <2>5, <2>6 DEF CodesOf, CodeCells
<1>2. CASE kind = "Rejected"
  <2>1. NumberWidth + RawLen(kind) + 1 = NumberWidth + 1 /\ Len(p) = NumberWidth + 2
    BY <1>0, <1>2 DEF RawLen
  <2>2. q = SubSeq(p, NumberWidth + 1, Len(p))
    BY <2>1
  <2>3. q \in Seq(Cells) /\ Len(q) = 2
    <3>1. NumberWidth <= NumberWidth /\ NumberWidth <= Len(p) /\ Len(p) - NumberWidth = 2
      BY <1>0, <2>1
    <3>2. Parts(Cells, p, NumberWidth, NumberWidth)
      BY <1>0, <3>1, Parted
    <3> QED
      BY <2>2, <3>1, <3>2 DEF Parts
  <2> HIDE DEF q
  <2>4. Number(q) \in 1..16 /\ DecodedCode(kind, p) = ErrorFromTag[Number(q)]
    BY <1>2, <2>2, ErrorTable DEF CodeKnown, DecodedCode
  <2>5. ErrorFromTag[Number(q)] \in DOMAIN ErrorTag
    BY <2>4 DEF ErrorFromTag, ErrorTag
  <2>6. ErrorTag[ErrorFromTag[Number(q)]] = Number(q)
    BY <2>4, ErrorTable
  <2>7. Digits(Number(q), 2) = q
    BY <2>3, DigitsOfNumber
  <2>8. CodeCells(kind, DecodedCode(kind, p)) = q
    BY <1>2, <2>4, <2>6, <2>7 DEF CodeCells
  <2> QED
    BY <1>2, <2>4, <2>5, <2>8 DEF CodesOf, q
<1>3. CASE kind # "State" /\ kind # "Rejected"
  <2>1. NumberWidth + RawLen(kind) = Len(p)
    BY <1>0, <1>3
  <2>2. q = <<>>
    BY <1>0, <2>1
  <2> QED
    BY <1>3, <2>2 DEF DecodedCode, CodesOf, CodeCells
<1> QED
  BY <1>1, <1>2, <1>3

-----------------------------------------------------------------------------
(* The two halves of the codec, on frames. *)
LEMMA Decoded ==
    ASSUME NEW m \in Messages, NEW kinds \in {Requests, Responses}
    PROVE  Decode(Encode(m), kinds) = IF m.kind \in kinds THEN m ELSE Refused
<1> DEFINE f == Encode(m)
           p == Payload(m)
<1>1. /\ IsMessage(m) /\ m.number \in SomeNumbers
      /\ m = [kind |-> m.kind, number |-> m.number, raw |-> m.raw, code |-> m.code]
  BY MessageShape
<1>2. /\ m.kind \in Kinds /\ m.code \in CodesOf(m.kind) /\ m.number \in Nat \ {0}
      /\ Shifted(m.number, NumberWidth)[NumberWidth] = 0 /\ NumberWidth \in Nat
  BY <1>1, WireAssumption DEF IsMessage
<1>3. /\ p \in Seq(Cells)
      /\ Len(p) = NumberWidth + Rest(m.kind)
      /\ SubSeq(p, 1, NumberWidth) = Digits(m.number, NumberWidth)
      /\ SubSeq(p, NumberWidth + 1, NumberWidth + RawLen(m.kind)) = m.raw
      /\ SubSeq(p, NumberWidth + RawLen(m.kind) + 1, Len(p)) = CodeCells(m.kind, m.code)
  BY <1>1, PayloadFields
<1>4. /\ Len(f) = HeaderLen + Len(p)
      /\ f[1] = Magic /\ f[2] = ProtocolVersion
      /\ f[3] = Tag[m.kind] /\ f[4] = Len(p)
      /\ SubSeq(f, HeaderLen + 1, Len(f)) = p
  BY <1>1, EncodedFrame
<1> HIDE DEF f, p
<1>5. Number(SubSeq(p, 1, NumberWidth)) = m.number
  BY <1>2, <1>3, NumberOfDigits
<1>6. CodeKnown(m.kind, p) /\ DecodedCode(m.kind, p) = m.code
  BY <1>2, <1>3, CodeRead
<1>7. Unframe(f)
  <2>1. Rest(m.kind) \in Nat /\ HeaderLen + NumberWidth + Rest(m.kind) <= MaxFrame /\ MaxFrame \in Nat
    BY <1>2, Widths, WireAssumption DEF Kinds
  <2>2. Len(f) = HeaderLen + (NumberWidth + Rest(m.kind)) /\ f[4] = NumberWidth + Rest(m.kind)
    BY <1>3, <1>4
  <2>3. Len(f) \in HeaderLen..MaxFrame /\ f[4] = Len(f) - HeaderLen
    BY <1>2, <2>1, <2>2 DEF HeaderLen
  <2> QED
    BY <1>4, <2>3 DEF Unframe
<1>8. Accepts(f, m.kind)
  BY <1>2, <1>3, <1>4, <1>5, <1>6, <1>7 DEF Accepts, ExactFields
<1>9. Taken(f, m.kind) = m
  BY <1>1, <1>3, <1>4, <1>5, <1>6, Zenon DEF Taken
<1>10. CASE m.kind \in kinds
  BY <1>8, <1>9, <1>10, DecodeAccepts DEF f
<1>11. CASE m.kind \notin kinds
  <2>1. ASSUME NEW k \in kinds PROVE ~Accepts(f, k)
    <3>1. k \in Kinds /\ k # m.kind
      BY <1>11 DEF Kinds
    <3>2. Tag[k] # f[3]
      BY <1>2, <1>4, <3>1, KindTable DEF Kinds
    <3> QED
      BY <3>2 DEF Accepts
  <2> QED
    BY <1>11, <2>1, DecodeAccepts DEF f
<1> QED
  BY <1>10, <1>11

(* Every cell is a byte, the length, in one cell, excepted. *)
IsFrame(f) == f \in Seq(Nat) /\ \A i \in 1..Len(f) : i # 4 => f[i] \in Cells

LEMMA Canonical ==
    ASSUME NEW f, IsFrame(f), NEW kinds \in {Requests, Responses}
    PROVE  Decode(f, kinds) = Refused \/ Encode(Decode(f, kinds)) = f
<1> SUFFICES ASSUME NEW k \in kinds, Accepts(f, k) PROVE Encode(Taken(f, k)) = f
  BY DecodeAccepts
<1> DEFINE p == SubSeq(f, HeaderLen + 1, Len(f))
           n == SubSeq(p, 1, NumberWidth)
           b == SubSeq(p, NumberWidth + 1, NumberWidth + RawLen(k))
           c == SubSeq(p, NumberWidth + RawLen(k) + 1, Len(p))
           m == Taken(f, k)
<1>1. /\ Unframe(f) /\ Tag[k] = f[3] /\ Len(p) = NumberWidth + Rest(k) /\ CodeKnown(k, p)
  BY DEF Accepts, ExactFields
<1>2. f \in Seq(Nat) /\ Len(f) >= 4 /\ HeaderLen + 1 = 5
  BY <1>1 DEF IsFrame, Unframe, HeaderLen
<1>3. /\ p \in Seq(Nat) /\ Len(p) = Len(f) - 4
      /\ \A i \in 1..(Len(f) - 4) : p[i] = f[4 + i]
      /\ <<f[1], f[2], f[3], f[4]>> \o p = f
  <2>1. p = SubSeq(f, 5, Len(f))
    BY <1>2
  <2> HIDE DEF p
  <2> QED
    BY <1>2, <2>1, Beheaded
<1>4. k \in Kinds
  BY DEF Kinds
<1>5. m.kind = k /\ m.number = Number(n) /\ m.raw = b /\ m.code = DecodedCode(k, p)
  BY DEF Taken
<1>6. /\ Rest(k) \in Nat /\ RawLen(k) \in Nat /\ NumberWidth \in Nat /\ RawLen(k) <= Rest(k)
  BY <1>4, Widths DEF Kinds
<1> HIDE DEF m, p
<1>7. p \in Seq(Cells)
  <2>1. \A i \in 1..Len(p) : p[i] \in Cells
    <3> TAKE i \in 1..Len(p)
    <3>1. i \in 1..(Len(f) - 4) /\ 4 + i \in 1..Len(f) /\ 4 + i # 4
      BY <1>2, <1>3
    <3>2. f[4 + i] \in Cells
      BY <3>1 DEF IsFrame
    <3> QED
      BY <1>3, <3>1, <3>2
  <2> QED
    BY <1>3, <2>1
<1>8. /\ n \o b \o c = p
      /\ n \in Seq(Cells) /\ Len(n) = NumberWidth
  <2>1. NumberWidth + RawLen(k) \in Nat /\ NumberWidth <= NumberWidth + RawLen(k)
        /\ NumberWidth + RawLen(k) <= Len(p)
    BY <1>1, <1>6
  <2>2. Parts(Cells, p, NumberWidth, NumberWidth + RawLen(k))
    BY <1>6, <1>7, <2>1, Parted
  <2> QED
    BY <2>2 DEF Parts
<1>9. DecodedCode(k, p) \in CodesOf(k) /\ CodeCells(k, DecodedCode(k, p)) = c
  BY <1>1, <1>4, <1>7, CodeWritten
<1>10. Digits(Number(n), NumberWidth) = n
  BY <1>8, DigitsOfNumber
<1> HIDE DEF n, b, c
<1>11. Payload(m) = n \o b \o c
  <2>1. Payload(m) = Digits(m.number, NumberWidth) \o m.raw \o CodeCells(m.kind, m.code)
    BY DEF Payload, CodeCells
  <2> QED
    BY <1>5, <1>9, <1>10, <2>1
<1>12. Payload(m) = p
  BY <1>8, <1>11
<1>13. f[1] = Magic /\ f[2] = ProtocolVersion /\ f[3] = Tag[k] /\ f[4] = Len(p)
  BY <1>1, <1>3 DEF Unframe, HeaderLen
<1>14. Encode(m) = f
  BY <1>3, <1>5, <1>12, <1>13, Zenon DEF Encode
<1> QED
  BY <1>14 DEF m

-----------------------------------------------------------------------------
(* A message was sent, its frame is made of bytes, and the receiver has what *)
(* its decoder made of the frame.                                            *)
WireInv ==
    /\ msg \in Messages
    /\ IsFrame(frame)
    /\ \/ dir = "none" /\ out = Refused
       \/ dir = "request" /\ out = Decode(frame, Requests)
       \/ dir = "response" /\ out = Decode(frame, Responses)

LEMMA WireInvInit == WireInit => WireInv
<1> SUFFICES ASSUME WireInit PROVE WireInv
  OBVIOUS
<1>1. msg \in Messages /\ frame = Encode(msg) /\ IsMessage(msg)
  BY MessageShape DEF WireInit
<1> DEFINE p == Payload(msg)
           f == Encode(msg)
<1>2. p \in Seq(Cells)
  BY <1>1, PayloadFields
<1>3. /\ f \in Seq(Nat) /\ Len(f) = 4 + Len(p)
      /\ f[1] = Magic /\ f[2] = ProtocolVersion /\ f[3] = Tag[msg.kind]
      /\ \A i \in 1..Len(p) : f[4 + i] = p[i]
  BY <1>1, EncodedFrame DEF HeaderLen
<1>4. Magic \in Cells /\ ProtocolVersion \in Cells /\ Tag[msg.kind] \in Cells
  <2>1. msg.kind \in Requests \cup Responses
    BY <1>1 DEF IsMessage, Kinds
  <2>2. Magic \in Cells /\ ProtocolVersion \in Cells
    BY DEF Magic, ProtocolVersion, Cells, Base
  <2> QED
    BY <2>1, <2>2, KindTable
<1> HIDE DEF f, p
<1>5. ASSUME NEW i \in 1..Len(f), i # 4 PROVE f[i] \in Cells
  <2>1. CASE i \in 1..3
    BY <1>3, <1>4, <2>1
  <2>2. CASE i > 4
    <3>1. i - 4 \in 1..Len(p) /\ 4 + (i - 4) = i
      BY <1>2, <1>3, <2>2
    <3>2. f[i] = p[i - 4] /\ p[i - 4] \in Cells
      BY <1>2, <1>3, <3>1
    <3> QED
      BY <3>2
  <2>3. i \in 1..3 \/ i > 4
    BY <1>3, <1>5
  <2> QED
    BY <2>1, <2>2, <2>3
<1>6. IsFrame(frame)
  BY <1>1, <1>3, <1>5 DEF IsFrame, f
<1> QED
  BY <1>1, <1>6 DEF WireInv, WireInit

LEMMA DamageKeeps == WireInv /\ Damage => WireInv'
<1> SUFFICES ASSUME WireInv, Damage PROVE WireInv'
  OBVIOUS
<1>1. frame \in Seq(Nat) /\ \A i \in 1..Len(frame) : i # 4 => frame[i] \in Cells
  BY DEF WireInv, IsFrame
<1>2. SomeCells \subseteq Cells
  BY WireAssumption DEF Cells
<1>3. ASSUME NEW i \in DOMAIN frame, NEW c \in SomeCells, frame' = [frame EXCEPT ![i] = c]
      PROVE  IsFrame(frame')
  <2>1. c \in Cells /\ c \in Nat
    BY <1>2, BytesAreNumbers
  <2>2. frame' \in Seq(Nat) /\ Len(frame') = Len(frame)
    BY <1>1, <1>3, <2>1
  <2>3. \A j \in 1..Len(frame) : frame'[j] = IF j = i THEN c ELSE frame[j]
    BY <1>1, <1>3
  <2> QED
    BY <1>1, <2>1, <2>2, <2>3 DEF IsFrame
<1>4. ASSUME NEW n \in 0..(Len(frame) - 1), frame' = SubSeq(frame, 1, n)
      PROVE  IsFrame(frame')
  <2>1. n \in Nat /\ n <= Len(frame)
    BY <1>1
  <2>2. frame' \in Seq(Nat) /\ Len(frame') = n
    BY <1>1, <1>4, <2>1
  <2>3. \A j \in 1..n : frame'[j] = frame[j] /\ j \in 1..Len(frame)
    BY <1>1, <1>4, <2>1
  <2> QED
    BY <1>1, <2>2, <2>3 DEF IsFrame
<1>5. ASSUME NEW c \in SomeCells, frame' = Append(frame, c)
      PROVE  IsFrame(frame')
  <2>1. c \in Cells /\ c \in Nat
    BY <1>2, BytesAreNumbers
  <2>2. frame' \in Seq(Nat) /\ Len(frame') = Len(frame) + 1
    BY <1>1, <1>5, <2>1
  <2>3. \A j \in 1..(Len(frame) + 1) : frame'[j] = IF j = Len(frame) + 1 THEN c ELSE frame[j]
    BY <1>1, <1>5
  <2>4. \A j \in 1..(Len(frame) + 1) : j # Len(frame) + 1 => j \in 1..Len(frame)
    BY <1>1
  <2> QED
    BY <1>1, <2>1, <2>2, <2>3, <2>4 DEF IsFrame
<1>6. IsFrame(frame')
  BY <1>3, <1>4, <1>5 DEF Damage
<1> QED
  BY <1>6 DEF WireInv, Damage

LEMMA WireInvHolds == WireSpec => []WireInv
<1>1. WireInv /\ [WireNext]_wireVars => WireInv'
  <2> SUFFICES ASSUME WireInv, [WireNext]_wireVars PROVE WireInv'
    OBVIOUS
  <2>1. CASE Damage
    BY <2>1, DamageKeeps
  <2>2. CASE Receive
    BY <2>2 DEF WireInv, Receive
  <2>3. CASE UNCHANGED wireVars
    BY <2>3 DEF WireInv, wireVars
  <2> QED
    BY <2>1, <2>2, <2>3 DEF WireNext
<1> QED
  BY <1>1, WireInvInit, PTL DEF WireSpec

(* Whatever was changed, cut off or appended on the way: a frame that        *)
(* Request::decode or Response::decode accepts is, cell by cell, what encode *)
(* makes of the message it is taken for, for all field widths.               *)
THEOREM FramesAreCanonical == WireSpec => []CanonicalOnly
<1>1. WireInv => CanonicalOnly
  BY Canonical DEF WireInv, CanonicalOnly
<1> QED
  BY <1>1, WireInvHolds, PTL

(* A frame that arrives unharmed is decoded to the very message that was     *)
(* sent by the side it was sent to and refused by the other, for all field   *)
(* widths and all numbers that fit theirs.                                   *)
THEOREM FramesRoundTrip == WireSpec => []RoundTrip
<1>1. WireInv => RoundTrip
  <2> SUFFICES ASSUME WireInv, dir # "none", frame = Encode(msg)
               PROVE  out = IF (dir = "request") = (msg.kind \in Requests) THEN msg ELSE Refused
    BY DEF RoundTrip
  <2>1. msg \in Messages /\ msg.kind \in Requests \cup Responses
    BY MessageShape DEF WireInv, IsMessage, Kinds
  <2>2. msg.kind \in Responses <=> msg.kind \notin Requests
    BY <2>1 DEF Requests, Responses
  <2>3. CASE dir = "request" /\ out = Decode(frame, Requests)
    <3>1. out = IF msg.kind \in Requests THEN msg ELSE Refused
      BY <2>1, <2>3, Decoded
    <3> QED
      BY <2>3, <3>1
  <2>4. CASE dir = "response" /\ out = Decode(frame, Responses)
    <3>1. out = IF msg.kind \in Responses THEN msg ELSE Refused
      BY <2>1, <2>4, Decoded
    <3> QED
      BY <2>2, <2>4, <3>1
  <2> QED
    BY <2>3, <2>4 DEF WireInv
<1> QED
  BY <1>1, WireInvHolds, PTL
=============================================================================
