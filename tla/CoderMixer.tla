---------------------------- MODULE CoderMixer ----------------------------
(***************************************************************************)
(* CMixerMT of CPP/7zip/Archive/Common/CoderMixer2.cpp with the            *)
(* CStreamBinder (CPP/7zip/Common/StreamBinder.cpp) between each coder and *)
(* the next, and the CVirtThread under each of them.                       *)
(*                                                                         *)
(* The coders are a chain numbered along the flow of data (a chain is what *)
(* all methods but BCJ2 make); coder c writes to binder c, which coder     *)
(* c + 1 reads.  A coder reads, writes and ends as it likes: before its    *)
(* input ends, with an error, or going on after a write was cut.  The n-th *)
(* byte that goes through a binder is the number n.  The first input and   *)
(* the last output are outside of the model.                               *)
(***************************************************************************)
EXTENDS Integers, Sequences, SequencesExt

CONSTANTS
  N,        \* coders
  Main,     \* MainCoderIndex: the coder that runs on the calling thread
  MaxSize,  \* bound: largest size of one read or write
  MaxBytes, \* bound: bytes a coder writes in all
  MaxCalls, \* bound: folders coded with one mixer
  Faults    \* errors a coder may end with: a subset of FaultKinds

\* In the order in which one of them becomes the result: E_ABORT, E_OUTOFMEMORY,
\* any other, S_FALSE, E_FAIL.
Rank == <<"abort", "memory", "other", "false", "fail">>
FaultKinds == ToSet(Rank)

Coder == 0 .. N - 1
Bond  == 0 .. N - 2

ASSUME CoderMixerAssumption ==
  /\ N \in Nat \ {0} /\ Main \in Coder
  /\ MaxSize \in Nat \ {0} /\ MaxBytes \in Nat /\ MaxCalls \in Nat \ {0}
  /\ Faults \subseteq FaultKinds

HasIn(c)  == c > 0
HasOut(c) == c < N - 1
In(c)  == c - 1
Out(c) == c

VARIABLES
  \* the binders
  canRead,            \* _canRead_Event
  canWrite,           \* _canWrite_Semaphore
  waitWrite,          \* _waitWrite
  buf,                \* the _bufSize bytes at _buf
  readingWasClosed2,
  processedSize,      \* ProcessedSize
  reading, writing,   \* the binders whose CBinderInStream, CBinderOutStream exists
  \* the coders and their threads
  pc, size, res,
  startEvent, finishedEvent,
  \* CMixerMT::Code
  main, next, result, calls,
  \* history of this call
  written,   \* bytes that Write said were processed
  got,       \* bytes that Read returned
  ended,     \* binders whose reader was told the end
  cut,       \* binders whose writer was told the cut
  failed,    \* coders that ended with an error
  lost       \* a Release failed because the semaphore was full

binderVars == <<canRead, canWrite, waitWrite, buf, readingWasClosed2, processedSize>>
streamVars == <<reading, writing>>
threadVars == <<startEvent, finishedEvent>>
mainVars   == <<main, next, result, calls>>
history    == <<written, got, ended, cut, failed, lost>>
vars == <<binderVars, streamVars, pc, size, res, threadVars, mainVars, history>>

\* "idle", "start", "code", "wait" of the caller
MainPc  == {"idle", "start", "code", "wait"}
CoderPc == {"idle", "run", "readWait", "readCopy", "readRelease", "writeWait", "writeDone",
            "closeIn", "closeOut", "finish"}
Results == FaultKinds \cup {"ok", "cut"}

Init ==
  /\ canRead = [b \in Bond |-> FALSE] /\ canWrite = [b \in Bond |-> 0]
  /\ waitWrite = [b \in Bond |-> TRUE] /\ buf = [b \in Bond |-> <<>>]
  /\ readingWasClosed2 = [b \in Bond |-> FALSE] /\ processedSize = [b \in Bond |-> 0]
  /\ reading = Bond /\ writing = Bond
  /\ pc = [c \in Coder |-> "idle"] /\ size = [c \in Coder |-> 0]
  /\ res = [c \in Coder |-> "ok"]
  /\ startEvent = [c \in Coder |-> FALSE] /\ finishedEvent = [c \in Coder |-> FALSE]
  /\ main = "start" /\ next = 0 /\ result = "none" /\ calls = 1
  /\ written = [b \in Bond |-> 0] /\ got = [b \in Bond |-> <<>>]
  /\ ended = {} /\ cut = {} /\ failed = {} /\ lost = FALSE

Goto(c, l) == pc' = [pc EXCEPT ![c] = l]
Resize(c, k) == size' = [size EXCEPT ![c] = k]

MaxCountIsTwo == 2                                             \* mutant

\* The maximum of the semaphore.
MaxCount == 3

\* A release beyond the maximum changes nothing; nobody looks at its result.
Release(b, k) ==
  IF canWrite[b] + k <= MaxCount
    THEN canWrite' = [canWrite EXCEPT ![b] = @ + k] /\ UNCHANGED lost
    ELSE lost' = TRUE /\ UNCHANGED canWrite

-----------------------------------------------------------------------------
(* CStreamBinder::Read, called by coder c. *)

\* (Once a coder has seen the end another Read would only tell it again.)
Read(c) ==
  /\ pc[c] = "run" /\ HasIn(c) /\ In(c) \notin ended
  /\ \E k \in 1..MaxSize : Resize(c, k)
  /\ Goto(c, IF waitWrite[In(c)] THEN "readWait" ELSE "readCopy")
  /\ UNCHANGED <<binderVars, streamVars, res, threadVars, mainVars, history>>

ReadWait(c) ==
  /\ pc[c] = "readWait" /\ canRead[In(c)]
  /\ canRead' = [canRead EXCEPT ![In(c)] = FALSE]
  /\ waitWrite' = [waitWrite EXCEPT ![In(c)] = FALSE]
  /\ Goto(c, "readCopy")
  /\ UNCHANGED <<canWrite, buf, readingWasClosed2, processedSize, streamVars, size, res,
                 threadVars, mainVars, history>>

\* The writer is let go only when its whole buffer was read.
WholeRead(left) == left = <<>>

\* Nothing in the buffer although the event was set: the stream is finished.
ReadCopy(c) ==
  /\ pc[c] = "readCopy"
  /\ LET b    == In(c)
         k    == Min({size[c], Len(buf[b])})
         left == SubSeq(buf[b], k + 1, Len(buf[b]))
     IN \/ /\ k = 0
           /\ ended' = ended \cup {b}
           /\ Goto(c, "run")
           /\ UNCHANGED <<waitWrite, buf, processedSize, got>>
        \/ /\ k > 0
           /\ got' = [got EXCEPT ![b] = @ \o SubSeq(buf[b], 1, k)]
           /\ buf' = [buf EXCEPT ![b] = left]
           /\ processedSize' = [processedSize EXCEPT ![b] = @ + k]
           /\ waitWrite' = [waitWrite EXCEPT ![b] = @ \/ WholeRead(left)]
           /\ Goto(c, IF WholeRead(left) THEN "readRelease" ELSE "run")
           /\ UNCHANGED ended
  /\ Resize(c, 0)
  /\ UNCHANGED <<canRead, canWrite, readingWasClosed2, streamVars, res, threadVars, mainVars,
                 written, cut, failed, lost>>

ReadRelease(c) ==
  /\ pc[c] = "readRelease"
  /\ Release(In(c), 1)
  /\ Goto(c, "run")
  /\ UNCHANGED <<canRead, waitWrite, buf, readingWasClosed2, processedSize, streamVars, size,
                 res, threadVars, mainVars, written, got, ended, cut, failed>>

-----------------------------------------------------------------------------
(* CStreamBinder::Write, called by coder c. *)

\* Once the writer knows that reading was closed every write is cut.
WriteCut(c) ==
  /\ pc[c] = "run" /\ HasOut(c)
  /\ readingWasClosed2[Out(c)]
  /\ cut' = cut \cup {Out(c)}
  /\ UNCHANGED <<binderVars, streamVars, pc, size, res, threadVars, mainVars, written, got,
                 ended, failed, lost>>

Write(c) ==
  /\ pc[c] = "run" /\ HasOut(c)
  /\ ~ readingWasClosed2[Out(c)]
  /\ LET b == Out(c)
     IN \E k \in 1..MaxSize :
          /\ written[b] + k <= MaxBytes
          /\ Resize(c, k)
          /\ buf' = [buf EXCEPT ![b] = [j \in 1..k |-> written[b] + j]]
          /\ canRead' = [canRead EXCEPT ![b] = TRUE]
  /\ Goto(c, "writeWait")
  /\ UNCHANGED <<canWrite, waitWrite, readingWasClosed2, processedSize, streamVars, res,
                 threadVars, mainVars, history>>

UnlockedAtZero(b) == canWrite[b] >= 0                          \* mutant

\* The wait of the writer can be passed.
Unlocked(b) == canWrite[b] > 0

WriteWait(c) ==
  /\ pc[c] = "writeWait" /\ Unlocked(Out(c))
  /\ canWrite' = [canWrite EXCEPT ![Out(c)] = @ - 1]
  /\ Goto(c, "writeDone")
  /\ UNCHANGED <<canRead, waitWrite, buf, readingWasClosed2, processedSize, streamVars, size,
                 res, threadVars, mainVars, history>>

\* What the reader has taken of the buffer.
Taken(c) == size[c] - Len(buf[Out(c)])

WriteDone(c) ==
  /\ pc[c] = "writeDone"
  /\ LET b == Out(c)
     IN IF Taken(c) # 0
          THEN /\ written' = [written EXCEPT ![b] = @ + Taken(c)]
               /\ UNCHANGED <<readingWasClosed2, cut>>
          ELSE /\ readingWasClosed2' = [readingWasClosed2 EXCEPT ![b] = TRUE]
               /\ cut' = cut \cup {b}
               /\ UNCHANGED written
  /\ Goto(c, "run") /\ Resize(c, 0)
  /\ UNCHANGED <<canRead, canWrite, waitWrite, buf, processedSize, streamVars, res,
                 threadVars, mainVars, got, ended, failed, lost>>

-----------------------------------------------------------------------------
(* CCoderMT::Code around the coder, and the thread around that. *)

\* CVirtThread: a thread waits for its start event.
ThreadStart(c) ==
  /\ c # Main /\ pc[c] = "idle" /\ startEvent[c]
  /\ startEvent' = [startEvent EXCEPT ![c] = FALSE]
  /\ Goto(c, "run")
  /\ UNCHANGED <<binderVars, streamVars, size, res, finishedEvent, mainVars, history>>

\* The coder returns.  Only a coder whose writes may be cut returns a cut; the
\* last one writes to an outside stream.
EndCode(c) ==
  /\ pc[c] = "run"
  /\ \E r \in {"ok", "cut"} \cup Faults :
       /\ r = "cut" => ~ HasOut(c) \/ Out(c) \in cut
       /\ res' = [res EXCEPT ![c] = r]
       /\ failed' = IF r \in FaultKinds THEN failed \cup {c} ELSE failed
  /\ Goto(c, "closeIn")
  /\ UNCHANGED <<binderVars, streamVars, size, threadVars, mainVars, written, got, ended, cut,
                 lost>>

OneUnlock == 1                                                 \* mutant

\* One unlock for the end of a partial write, one to stop the next.
CloseUnlocks == 2

\* Release: first the streams the coder reads (CloseRead_CallOnce) ...
CloseIn(c) ==
  /\ pc[c] = "closeIn"
  /\ IF HasIn(c)
       THEN Release(In(c), CloseUnlocks) /\ reading' = reading \ {In(c)}
       ELSE UNCHANGED <<canWrite, lost, reading>>
  /\ Goto(c, "closeOut")
  /\ UNCHANGED <<canRead, waitWrite, buf, readingWasClosed2, processedSize, writing, size, res,
                 threadVars, mainVars, written, got, ended, cut, failed>>

\* ... then those it writes (CloseWrite).
CloseOut(c) ==
  /\ pc[c] = "closeOut"
  /\ IF HasOut(c)
       THEN /\ buf' = [buf EXCEPT ![Out(c)] = <<>>]
            /\ canRead' = [canRead EXCEPT ![Out(c)] = TRUE]
            /\ writing' = writing \ {Out(c)}
       ELSE UNCHANGED <<buf, canRead, writing>>
  /\ Goto(c, "finish")
  /\ UNCHANGED <<canWrite, waitWrite, readingWasClosed2, processedSize, reading, size, res,
                 threadVars, mainVars, history>>

\* The main coder's Code returns to CMixerMT::Code; a thread reports its end.
Finish(c) ==
  /\ pc[c] = "finish"
  /\ Goto(c, "idle")
  /\ IF c = Main
       THEN main' = "wait" /\ next' = 0 /\ UNCHANGED finishedEvent
       ELSE finishedEvent' = [finishedEvent EXCEPT ![c] = TRUE] /\ UNCHANGED <<main, next>>
  /\ UNCHANGED <<binderVars, streamVars, size, res, startEvent, result, calls, history>>

CoderStep(c) ==
  \/ ThreadStart(c) \/ Read(c) \/ ReadWait(c) \/ ReadCopy(c) \/ ReadRelease(c)
  \/ WriteCut(c) \/ Write(c) \/ WriteWait(c) \/ WriteDone(c)
  \/ EndCode(c) \/ CloseIn(c) \/ CloseOut(c) \/ Finish(c)

-----------------------------------------------------------------------------
(* CMixerMT. *)

ClosedKept(b) == readingWasClosed2[b]                          \* mutant

\* What the writer knew of the binder's previous reader is forgotten.
ClosedAtStart(b) == FALSE

\* ReInit2 and Init for another folder, and Create of the threads that exist.
Call ==
  /\ main = "idle" /\ calls < MaxCalls
  /\ canRead' = [b \in Bond |-> FALSE] /\ canWrite' = [b \in Bond |-> 0]
  /\ waitWrite' = [b \in Bond |-> TRUE] /\ buf' = [b \in Bond |-> <<>>]
  /\ readingWasClosed2' = [b \in Bond |-> ClosedAtStart(b)]
  /\ processedSize' = [b \in Bond |-> 0]
  /\ reading' = Bond /\ writing' = Bond
  /\ startEvent' = [c \in Coder |-> FALSE] /\ finishedEvent' = [c \in Coder |-> FALSE]
  /\ main' = "start" /\ next' = 0 /\ result' = "none" /\ calls' = calls + 1
  /\ written' = [b \in Bond |-> 0] /\ got' = [b \in Bond |-> <<>>]
  /\ ended' = {} /\ cut' = {} /\ failed' = {}
  /\ UNCHANGED <<pc, size, res, lost>>

\* The other coders' threads are started one after the other ...
StartThread ==
  /\ main = "start" /\ next < N
  /\ startEvent' = [startEvent EXCEPT ![next] = next # Main]
  /\ next' = next + 1
  /\ UNCHANGED <<binderVars, streamVars, pc, size, res, finishedEvent, main, result, calls,
                 history>>

\* ... then the main coder runs on the calling thread.
RunMain ==
  /\ main = "start" /\ next = N
  /\ main' = "code"
  /\ Goto(Main, "run")
  /\ UNCHANGED <<binderVars, streamVars, size, res, threadVars, next, result, calls, history>>

NoWait(c) == TRUE                                              \* mutant

\* WaitExecuteFinish of coder c returns.
Finished(c) == finishedEvent[c]

WaitCoder ==
  /\ main = "wait" /\ next < N
  /\ next # Main => Finished(next)
  /\ finishedEvent' = [finishedEvent EXCEPT ![next] = FALSE]
  /\ next' = next + 1
  /\ UNCHANGED <<binderVars, streamVars, pc, size, res, startEvent, main, result, calls,
                 history>>

\* The worst of the coders' results; a cut is none.
MixerResult ==
  LET found == {k \in DOMAIN Rank : \E c \in Coder : res[c] = Rank[k]}
  IN IF found = {} THEN "ok" ELSE Rank[Min(found)]

Return ==
  /\ main = "wait" /\ next = N
  /\ main' = "idle" /\ result' = MixerResult
  /\ UNCHANGED <<binderVars, streamVars, pc, size, res, threadVars, next, calls, history>>

Mixer == StartThread \/ RunMain \/ WaitCoder \/ Return

Terminating == main = "idle" /\ calls = MaxCalls /\ UNCHANGED vars

Next == (\E c \in Coder : CoderStep(c)) \/ Mixer \/ Call \/ Terminating

Spec == Init /\ [][Next]_vars

\* The threads are scheduled, and a coder does not read or write for ever:
\* its output is bounded, and after the end of its input it returns.
FairSpec == Spec /\ WF_vars(Mixer) /\ \A c \in Coder : WF_vars(CoderStep(c))

-----------------------------------------------------------------------------
(* Properties. *)

\* Every variable has its type.
TypeOK ==
  /\ canRead \in [Bond -> BOOLEAN] /\ canWrite \in [Bond -> 0..MaxCount]
  /\ waitWrite \in [Bond -> BOOLEAN] /\ buf \in [Bond -> Seq(Nat)]
  /\ readingWasClosed2 \in [Bond -> BOOLEAN] /\ processedSize \in [Bond -> Nat]
  /\ reading \subseteq Bond /\ writing \subseteq Bond
  /\ pc \in [Coder -> CoderPc] /\ size \in [Coder -> 0..MaxSize] /\ res \in [Coder -> Results]
  /\ startEvent \in [Coder -> BOOLEAN] /\ finishedEvent \in [Coder -> BOOLEAN]
  /\ main \in MainPc /\ next \in 0..N /\ result \in Results \cup {"none"}
  /\ calls \in 1..MaxCalls
  /\ written \in [Bond -> Nat] /\ got \in [Bond -> Seq(Nat)]
  /\ ended \subseteq Bond /\ cut \subseteq Bond /\ failed \subseteq Coder /\ lost \in BOOLEAN

\* The reader gets the writer's bytes in order, none twice and none left out,
\* however reads and writes are cut and whichever side closes
\* (StreamBinder.cpp:72-151).
DataInOrder ==
  \A b \in Bond : /\ got[b] = [i \in 1 .. Len(got[b]) |-> i]
                  /\ processedSize[b] = Len(got[b])

\* No unlock of the writer is lost at the limit of the semaphore
\* (StreamBinder.cpp:49-50, StreamBinder.h:61-67).
NoUnlockLost == ~ lost

\* What a pipe carries and counts is right (StreamBinder.cpp:49-151).
PipeSound == DataInOrder /\ NoUnlockLost

\* When Code returns every thread is idle and has closed its streams: the next
\* folder may reset the binders under them (CoderMixer2.cpp:947-954, 1093-1102).
QuietAtReturn ==
  main = "idle" =>
    /\ \A c \in Coder : pc[c] = "idle" /\ ~ startEvent[c]
    /\ reading = {} /\ writing = {}

\* Code returns success exactly if no coder failed in this call, a cut being no
\* failure; a result of an earlier folder does not count
\* (CoderMixer2.cpp:1058-1134).
ErrorsReported == main = "idle" => (result = "ok" <=> failed = {})

\* Code leaves nothing behind, neither a thread nor an error.
ReturnSound == QuietAtReturn /\ ErrorsReported

Channel == INSTANCE ByteChannel WITH
  moved <- [b \in Bond |-> Len(got[b])],
  told  <- written

\* The binders keep the promise of a byte channel: the writer is told of every
\* byte that was taken, so that the size of the stream between two coders is
\* right; the end and the cut are seen only after the other side closed
\* (StreamBinder.cpp:43-151, StreamBinder.h:30-31).
ImplementsChannel == Channel!CSpec

\* Code returns for every folder, whatever coder ends first and however
\* (StreamBinder.h:61-67, CoderMixer2.cpp:1066-1104).
CodeReturns == main # "idle" ~> main = "idle"
=============================================================================
