----------------------------- MODULE MCMtCoder -----------------------------
(* Instances of MtCoder for TLC. *)
EXTENDS MtCoder

NoFaults  == {}
AllFaults == FaultKinds
=============================================================================
