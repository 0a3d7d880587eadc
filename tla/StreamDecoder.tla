--------------------------- MODULE StreamDecoder ---------------------------
(***************************************************************************)
(* What a decoder of a stream promises its caller, however many threads it *)
(* has and however often it changes from many to one.  The output is at    *)
(* every moment a beginning of goal, what decoding the stream from its     *)
(* first byte to its end gives.  Success is reported only for all of goal, *)
(* unless the caller wants no more than a part (~ strict) and the stream   *)
(* is bad; an error only when the stream is not good or something outside  *)
(* the decoder failed.  Of a stream that has everything but its end mark   *)
(* either may be reported.                                                 *)
(***************************************************************************)
EXTENDS Integers, Sequences, SequencesExt

VARIABLES
  goal,     \* what the stream decodes to
  verdict,  \* on the stream: "good", "unmarked" (only the end mark lacks) or "bad"
  strict,   \* the caller asked for the whole stream
  out,      \* the output so far
  failed,   \* reading, writing, the progress callback or the last resort failed
  status    \* "run", then "ok" or "error"

dvars == <<goal, verdict, strict, out, failed, status>>

DInit == status = "run" /\ out = <<>> /\ failed = FALSE

Emit ==
  /\ status = "run"
  /\ IsPrefix(out, out') /\ IsPrefix(out', goal)
  /\ UNCHANGED <<goal, verdict, strict, status>>
  /\ failed => failed'

Fail ==
  /\ status = "run" /\ failed' = TRUE
  /\ UNCHANGED <<goal, verdict, strict, out, status>>

Succeed ==
  /\ status = "run" /\ status' = "ok"
  /\ (verdict # "bad" /\ out = goal) \/ (verdict = "bad" /\ ~ strict)
  /\ UNCHANGED <<goal, verdict, strict, out, failed>>

GiveUp ==
  /\ status = "run" /\ status' = "error"
  /\ failed \/ verdict # "good"
  /\ UNCHANGED <<goal, verdict, strict, out, failed>>

\* Another stream is decoded.
Again == status # "run" /\ status' = "run" /\ out' = <<>> /\ failed' = FALSE

DNext == Emit \/ Fail \/ Succeed \/ GiveUp \/ Again

DSpec == DInit /\ [][DNext]_dvars
=============================================================================
