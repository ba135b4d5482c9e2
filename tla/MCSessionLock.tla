--------------------------- MODULE MCSessionLock ---------------------------
(***************************************************************************)
(* Instances of SessionLock for TLC.                                       *)
(***************************************************************************)
EXTENDS SessionLock

CONSTANTS p1, p2, p3

ThreeProcs == {p1, p2, p3}
TwoProcs == {p1, p2}
=============================================================================
