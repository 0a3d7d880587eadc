---------------------------- MODULE ByteChannel ----------------------------
(***************************************************************************)
(* What the pipes between the coders of a folder promise.  Bytes move from *)
(* a writer to a reader in order; the writer is told how many the reader   *)
(* took before it goes on.  Either side may close.  The reader sees the    *)
(* end only after the writer closed, the writer sees a cut only after the  *)
(* reader closed, and then both know how many bytes went through.          *)
(***************************************************************************)
EXTENDS Integers

CONSTANT Bond

VARIABLES
  moved,     \* bytes the reader has taken
  told,      \* bytes the writer knows were taken
  writing, reading,  \* the ends that are open
  ended,     \* pipes whose reader has seen the end
  cut        \* pipes whose writer has seen the cut

cvars == <<moved, told, writing, reading, ended, cut>>

Fresh ==
  /\ moved = [b \in Bond |-> 0] /\ told = [b \in Bond |-> 0]
  /\ writing = Bond /\ reading = Bond /\ ended = {} /\ cut = {}

Move(b) ==
  /\ b \in writing \cap reading
  /\ moved'[b] \in Nat /\ moved'[b] > moved[b]
  /\ moved' = [moved EXCEPT ![b] = moved'[b]]
  /\ UNCHANGED <<told, writing, reading, ended, cut>>

Tell(b) ==
  /\ b \in writing
  /\ told' = [told EXCEPT ![b] = moved[b]]
  /\ UNCHANGED <<moved, writing, reading, ended, cut>>

End(b) ==
  /\ b \in reading \ writing
  /\ ended' = ended \cup {b}
  /\ UNCHANGED <<moved, told, writing, reading, cut>>

Cut(b) ==
  /\ b \in writing \ reading /\ told[b] = moved[b]
  /\ cut' = cut \cup {b}
  /\ UNCHANGED <<moved, told, writing, reading, ended>>

\* A writer closes only when it knows what became of everything it wrote.
CloseWriting(b) ==
  /\ b \in writing /\ told[b] = moved[b]
  /\ writing' = writing \ {b}
  /\ UNCHANGED <<moved, told, reading, ended, cut>>

CloseReading(b) ==
  /\ b \in reading
  /\ reading' = reading \ {b}
  /\ UNCHANGED <<moved, told, writing, ended, cut>>

\* The pipes are used again once both ends of all of them are closed.
Reopen ==
  /\ writing = {} /\ reading = {}
  /\ moved' = [b \in Bond |-> 0] /\ told' = [b \in Bond |-> 0]
  /\ writing' = Bond /\ reading' = Bond /\ ended' = {} /\ cut' = {}

CNext ==
  \/ \E b \in Bond : \/ Move(b) \/ Tell(b) \/ End(b) \/ Cut(b)
                     \/ CloseWriting(b) \/ CloseReading(b)
  \/ Reopen

CSpec == Fresh /\ [][CNext]_cvars
=============================================================================
