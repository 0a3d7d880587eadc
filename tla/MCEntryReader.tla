--------------------------- MODULE MCEntryReader ---------------------------
(* Instances of EntryReader for TLC. *)
EXTENDS EntryReader

\* The entry decodes to what its header says, to less, or to more.
AnyLength == {Size - 1, Size, Size + 1}
=============================================================================
