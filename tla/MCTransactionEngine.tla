------------------------ MODULE MCTransactionEngine ------------------------
(***************************************************************************)
(* Instances of TransactionEngine for TLC.  base and other are two values  *)
(* a target may have before the session and that other programs may write; *)
(* boost is what the plan asks for.                                        *)
(***************************************************************************)
EXTENDS EngineRefinement

CONSTANTS s1, s2, boost, base, other

OneSession == {s1}
TwoSessions == {s1, s2}
SomeValues == {boost, base, other}

(* Every outcome the trait MutationBackend leaves open. *)
AnyOutcomes == {"receipt", "refused", "unknown", "leftover", "unbound", "misnamed"}

WorkloadOutcomes == {"receipt", "refused", "leftover"}
=============================================================================
