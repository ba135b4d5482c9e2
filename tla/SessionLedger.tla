--------------------------- MODULE SessionLedger ---------------------------
(***************************************************************************)
(* What the transaction engine promises its callers: the ledger of boost   *)
(* sessions.  A session is entered only on a clean host while no other is  *)
(* unfinished and the lease is free; the host is changed only while the    *)
(* entered session is being worked on; and the entry is closed only when   *)
(* the host is clean again.  TransactionEngine implements it               *)
(* (EngineRefinement), and PrivilegeService is written on top of it.       *)
(*                                                                         *)
(*   none      no record on disk                                           *)
(*   prepared  IntentDurable: snapshots taken, nothing applied             *)
(*   open      any later state that is not Restored                        *)
(*   done      Restored                                                    *)
(***************************************************************************)
CONSTANTS Sessions, NoSession

VARIABLES
    st,      \* what the durable record of a session says
    lease,   \* the session whose lease the coordinator holds
    dirty    \* a write of some session is in place on the host

ledgerVars == <<st, lease, dirty>>

Pending == {s \in Sessions : st[s] \in {"prepared", "open"}}

Init ==
    /\ st = [s \in Sessions |-> "none"]
    /\ lease = NoSession
    /\ dirty = FALSE

(* prepare.  The lease is missed when create fails after its rename. *)
Prepare(s) ==
    /\ lease = NoSession
    /\ Pending = {}
    /\ ~dirty
    /\ st[s] = "none"
    /\ st' = [st EXCEPT ![s] = "prepared"]
    /\ lease' \in {s, NoSession}
    /\ UNCHANGED dirty

(* abort_prepared.  The lease is kept when remove fails after its unlink. *)
Withdraw(s) ==
    /\ lease = s
    /\ st[s] = "prepared"
    /\ st' = [st EXCEPT ![s] = "none"]
    /\ lease' \in {s, NoSession}
    /\ UNCHANGED dirty

(* apply, restore and recover_unfinished at work: the host may be changed. *)
Work(s) ==
    /\ lease \in {s, NoSession}
    /\ s \in Pending
    /\ st' = [st EXCEPT ![s] = "open"]
    /\ dirty' \in IF st[s] = "open" THEN BOOLEAN ELSE {dirty}
    /\ UNCHANGED lease

(* Every original is proven.  The lease is kept (or taken by a recovery)    *)
(* when the record reached the disk and the store reported an error.        *)
Finish(s) ==
    /\ lease \in {s, NoSession}
    /\ s \in Pending
    /\ ~dirty
    /\ st' = [st EXCEPT ![s] = "done"]
    /\ lease' \in {s, NoSession}
    /\ UNCHANGED dirty

(* A recovery that did not come through keeps the lock. *)
Retain(s) ==
    /\ lease = NoSession
    /\ s \in Pending
    /\ lease' = s
    /\ st' \in {st, [st EXCEPT ![s] = "open"]}
    /\ UNCHANGED dirty

(* A later call finds the held session restored. *)
Release ==
    /\ lease # NoSession
    /\ st[lease] = "done"
    /\ lease' = NoSession
    /\ UNCHANGED <<st, dirty>>

(* The process ends. *)
Stop ==
    /\ lease' = NoSession
    /\ UNCHANGED <<st, dirty>>

(* Another program overwrites what a session had written. *)
Overwritten ==
    /\ dirty
    /\ dirty' = FALSE
    /\ UNCHANGED <<st, lease>>

Next ==
    \/ \E s \in Sessions :
          Prepare(s) \/ Withdraw(s) \/ Work(s) \/ Finish(s) \/ Retain(s)
    \/ Release \/ Stop \/ Overwritten

Spec == Init /\ [][Next]_ledgerVars
=============================================================================
