---------------------------- MODULE MCCoderMixer ----------------------------
(* Instances of CoderMixer for TLC. *)
EXTENDS CoderMixer

OneFault == {"false"}
=============================================================================
