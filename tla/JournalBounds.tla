---------------------------- MODULE JournalBounds ----------------------------
(***************************************************************************)
(* The bounds on a session record that sysboost-core/src/transaction.rs    *)
(* enforces whenever it is encoded.                                        *)
(***************************************************************************)
EXTENDS Integers

CONSTANTS
    NumOps,          \* operations of the plan
    MaxTransitions,  \* MAX_TRANSITIONS
    MaxFailures,     \* MAX_FAILURES
    MaxBytes,        \* MAX_SESSION_RECORD_BYTES
    TransitionBytes, \* bytes of a transition
    FailureBytes     \* possible bytes of a failure

(* 16384 and 4096 in the code. *)
ASSUME BoundsAssumption ==
    /\ NumOps \in Nat /\ MaxTransitions \in Nat /\ MaxFailures \in Nat
    /\ MaxBytes \in Nat /\ TransitionBytes \in Nat /\ FailureBytes \subseteq Nat
    /\ MaxTransitions >= 3 * MaxFailures + 8
=============================================================================
