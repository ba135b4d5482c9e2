-------------------------- MODULE EngineRefinement --------------------------
(***************************************************************************)
(* TransactionEngine implements SessionLedger: the refinement mapping reads *)
(* the ledger off the files on disk, the lease of the engine and the       *)
(* targets of the host.                                                    *)
(***************************************************************************)
EXTENDS TransactionEngine

(* The ledger's view of a durable record. *)
Entry(rec) ==
    CASE rec = NoRecord -> "none"
      [] rec # NoRecord /\ rec.state = "IntentDurable" -> "prepared"
      [] rec # NoRecord /\ rec.state = "Restored" -> "done"
      [] OTHER -> "open"

Ledger == INSTANCE SessionLedger WITH
    st <- [s \in Sessions |-> Entry(disk[s])],
    lease <- active,
    dirty <- \E i \in Ops : lost[i] # NoValue

(* The engine is a ledger of sessions: whatever crashes and whatever store, *)
(* backend or clock call fails, every step of prepare, abort_prepared,      *)
(* apply, restore and recover_unfinished is a step of SessionLedger or      *)
(* changes nothing the ledger shows.                                        *)
EngineIsLedger == Ledger!Spec
=============================================================================
