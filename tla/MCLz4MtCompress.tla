-------------------------- MODULE MCLz4MtCompress --------------------------
(* Instances of Lz4MtCompress for TLC. *)
EXTENDS Lz4MtCompress

AllFaults == Codes
=============================================================================
