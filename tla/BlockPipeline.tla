--------------------------- MODULE BlockPipeline ---------------------------
(***************************************************************************)
(* What a block-parallel coder promises to its caller.  The input is cut   *)
(* into total blocks; worker threads code them in any order; the caller    *)
(* sees the coded blocks arrive on the output stream and, at the end, one  *)
(* result.  While nothing has failed the output is the input, in order and *)
(* without a gap.  After a failure the output may skip blocks (they were   *)
(* lost with the thread that failed) but never goes back, and the result   *)
(* is an error.  The caller may then use the coder again.                  *)
(***************************************************************************)
EXTENDS Integers, Sequences

VARIABLES
  total,    \* number of blocks of the input
  out,      \* the blocks written so far, by number
  failed,   \* some step of the coder has failed
  status    \* "run", then "ok" or "error"

pvars == <<total, out, failed, status>>

LastOf(s) == IF s = <<>> THEN 0 ELSE s[Len(s)]

PInit ==
  /\ total \in Nat \ {0}
  /\ out = <<>>
  /\ failed = FALSE
  /\ status = "run"

\* The next block reaches the output stream.
Emit ==
  /\ status = "run"
  /\ ~ failed
  /\ Len(out) < total
  /\ out' = Append(out, Len(out) + 1)
  /\ UNCHANGED <<total, failed, status>>

\* A block that was already coded when another one failed is still written.
EmitLate ==
  /\ status = "run"
  /\ failed
  /\ \E b \in LastOf(out) + 1 .. total : out' = Append(out, b)
  /\ UNCHANGED <<total, failed, status>>

Fail ==
  /\ status = "run"
  /\ failed' = TRUE
  /\ UNCHANGED <<total, out, status>>

\* Success is reported only for the whole input, an error only for a failure.
Succeed ==
  /\ status = "run"
  /\ ~ failed
  /\ Len(out) = total
  /\ status' = "ok"
  /\ UNCHANGED <<total, out, failed>>

GiveUp ==
  /\ status = "run"
  /\ failed
  /\ status' = "error"
  /\ UNCHANGED <<total, out, failed>>

\* The caller starts again with another input.
Again ==
  /\ status # "run"
  /\ status' = "run"
  /\ out' = <<>>
  /\ failed' = FALSE
  /\ total' \in Nat \ {0}

PNext == Emit \/ EmitLate \/ Fail \/ Succeed \/ GiveUp \/ Again

PSpec == PInit /\ [][PNext]_pvars
=============================================================================
