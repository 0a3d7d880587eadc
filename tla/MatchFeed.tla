----------------------------- MODULE MatchFeed -----------------------------
(***************************************************************************)
(* What a match finder promises the encoder (IMatchFinder2 of C/LzFind.h): *)
(* it goes through the stream position by position; the number of bytes it *)
(* says are available reaches further and further into the stream and is   *)
(* zero only at its very end, or when something failed; a failure is       *)
(* known to the encoder when it finishes.                                  *)
(***************************************************************************)
EXTENDS Integers

VARIABLES
  size,    \* length of the stream
  at,      \* positions gone through
  told,    \* how far the encoder knows there are bytes
  failed,  \* reading or the match finder itself failed
  status   \* "idle", "run", "ok", "error"

fvars == <<size, at, told, failed, status>>

FInit == status = "idle" /\ at = 0 /\ told = 0 /\ failed = FALSE

Open ==
  /\ status # "run" /\ status' = "run"
  /\ size' \in Nat /\ at' = 0 /\ told' = 0 /\ failed' = FALSE

Learn ==
  /\ status = "run"
  /\ told' \in told .. size
  /\ UNCHANGED <<size, at, failed, status>>

Advance ==
  /\ status = "run" /\ at < told /\ at' = at + 1
  /\ UNCHANGED <<size, told, failed, status>>

\* After a failure the stream may as well end where it is.
Fail ==
  /\ failed' = TRUE
  /\ UNCHANGED <<size, at, told, status>>

Finish ==
  /\ status = "run" /\ at = told
  /\ status' = IF failed THEN "error" ELSE "ok"
  /\ ~ failed => at = size
  /\ UNCHANGED <<size, at, told, failed>>

\* The encoder may stop in the middle.
Cancel ==
  /\ status = "run" /\ status' = "idle"
  /\ UNCHANGED <<size, at, told, failed>>

FNext == Open \/ Learn \/ Advance \/ Fail \/ Finish \/ Cancel

FSpec == FInit /\ [][FNext]_fvars
=============================================================================
