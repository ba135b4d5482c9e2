-------------------------- MODULE MCWorkloadControl --------------------------
(* Instances of WorkloadControl for TLC. *)
EXTENDS WorkloadControl

MCControlValues == {"v1", "v2", "v3"}
MCDiscovered == {"v1", "v2"}
=============================================================================
