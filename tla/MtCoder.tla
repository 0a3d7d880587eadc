------------------------------ MODULE MtCoder ------------------------------
(***************************************************************************)
(* C/MtCoder.c: the multi-thread block coder under the LZMA2 and xz        *)
(* encoders.  A caller runs MtCoder_Code; worker threads pass readEvent    *)
(* from one to the next to read the blocks in order, code them in          *)
(* parallel, and pass the right to write (writeIndex) along the ring of    *)
(* blocks so that the coded blocks reach the output in the order they were *)
(* read.  There is no writer thread (MTCODER_USE_WRITE_THREAD is off).     *)
(*                                                                         *)
(* A block of data is its number in the input, 1..total.  The reader       *)
(* learns that the input ended with the last block (a short read, or       *)
(* inDataSize reached).  Failures of the system's synchronisation calls    *)
(* are not modelled.                                                       *)
(***************************************************************************)
EXTENDS Integers, Sequences

CONSTANTS
  ThreadsMax,     \* MTCODER_THREADS_MAX
  NumThreadsMax,  \* the caller's numThreadsMax
  ExtraBlocks,    \* 0..3: blocks added when blockSize is small
  MaxInput,       \* bound: blocks in an input and the one after it together
  MaxCalls,       \* bound: calls of MtCoder_Code on one object
  EarlyReuse,     \* the caller may come back while threads of its last call end
  Faults          \* failures that can happen: a subset of FaultKinds

FaultKinds == {"read", "code", "write", "thread"}

ASSUME MtCoderAssumption ==
  /\ ThreadsMax \in Nat \ {0}
  /\ NumThreadsMax \in Nat \ {0}
  /\ ExtraBlocks \in 0..3
  /\ MaxInput \in Nat \ {0}
  /\ MaxCalls \in Nat \ {0} /\ EarlyReuse \in BOOLEAN
  /\ Faults \subseteq FaultKinds

GetNumBlocks(n) == n + n \div 8 + 1

BlocksMax == GetNumBlocks(ThreadsMax) + 3

NumThreads == IF NumThreadsMax > ThreadsMax THEN ThreadsMax ELSE NumThreadsMax

NumBlocksMax == GetNumBlocks(NumThreads) + ExtraBlocks

Thread == 0 .. NumThreads - 1
Slot   == 0 .. NumBlocksMax - 1      \* positions of the ring of blocks
Buf    == 0 .. BlocksMax - 1         \* indexes of output buffers
None   == -1

NextPastEnd(i) == IF i + 1 > NumBlocksMax THEN 0 ELSE i + 1    \* mutant

\* The slot after i.
Next(i) == IF i + 1 >= NumBlocksMax THEN 0 ELSE i + 1

Res == FaultKinds \cup {"ok"}

ThreadPc == {"none", "idle", "waitRead", "read", "waitBlock", "check", "start",
             "setRead", "takeBuf", "code", "store", "publish", "write", "release",
             "postMore", "postLast", "incr", "finish"}

MainPc == {"idle", "first", "noThread", "open", "wait", "collect", "free"}

VARIABLES
  \* the caller
  main, calls, result, total, expected, out,
  \* the object: what the reader owns
  readEvent, stopReading, readRes, readProcessed, blockIndex, numStarted,
  \* the ring, guarded by cs and blocksSemaphore
  blocksSemaphore, freeBlocks, readyBlocks, writeIndex, writeRes, blocks, bufData,
  \* results and the end of a call
  progressRes, numFinished, finishedEvent,
  \* the threads and their locals
  pc, startEvent, res, finished, inBuf, bi, bufIndex, wi, numFin

callerVars == <<main, calls, result, total, expected>>
readerVars == <<readEvent, stopReading, readRes, readProcessed, blockIndex, numStarted>>
ringVars   == <<blocksSemaphore, freeBlocks, readyBlocks, writeIndex, writeRes>>
dataVars   == <<blocks, bufData, out>>
endVars    == <<numFinished, finishedEvent>>
localVars  == <<res, finished, inBuf, bi, bufIndex, wi, numFin>>

vars == <<callerVars, readerVars, ringVars, dataVars, endVars, progressRes,
          pc, startEvent, localVars>>

NoBlock == [res |-> "ok", bufIndex |-> None, finished |-> FALSE]

\* expectedDataSize, in blocks; 0 when it is unknown.  An input whose last
\* block is empty reaches the expected size one block earlier.
Hints(n) == {0, n - 1, n}

Init ==
  /\ main = "idle" /\ calls = 1 /\ result = "none"
  /\ total \in 1..MaxInput /\ expected \in Hints(total)
  /\ readEvent = FALSE /\ stopReading = FALSE /\ readRes = "ok"
  /\ readProcessed = 0 /\ blockIndex = 0 /\ numStarted = 0
  /\ blocksSemaphore = 0 /\ freeBlocks = <<>> /\ writeIndex = 0 /\ writeRes = "ok"
  /\ readyBlocks = [i \in Slot |-> FALSE]
  /\ blocks = [i \in Slot |-> NoBlock]
  /\ bufData = [b \in Buf |-> 0]
  /\ out = <<>>
  /\ numFinished = 0 /\ finishedEvent = FALSE /\ progressRes = "ok"
  /\ pc = [t \in Thread |-> "none"]
  /\ startEvent = [t \in Thread |-> FALSE]
  /\ res = [t \in Thread |-> "ok"] /\ finished = [t \in Thread |-> FALSE]
  /\ inBuf = [t \in Thread |-> 0] /\ bi = [t \in Thread |-> 0]
  /\ bufIndex = [t \in Thread |-> None] /\ wi = [t \in Thread |-> 0]
  /\ numFin = [t \in Thread |-> 0]

AfterWaitManualReset(e) == e                                   \* mutant

\* An auto-reset event after the wait that took it.
AfterWait(e) == FALSE

ReadEventAfterOk(r) == r = "ok"                                \* mutant

\* readEvent is set whatever the result r of reading was.
ReadEventAfter(r) == TRUE

\* writeIndex while a thread owns the right to write slot i.
TakenFrom(i) == None

SlotFreeOffByOne(n) == n >= 0                                  \* mutant

\* The wait for blocksSemaphore can be passed.
SlotFree(n) == n > 0

\* The free list is a stack; its end is marked by None.
GiveBack(b, s)  == <<b>> \o s
FirstFree(s)    == IF s = <<>> THEN None ELSE Head(s)
WithoutFirst(s) == IF s = <<>> THEN s ELSE Tail(s)

StickyForgotten(r, b) == r                                     \* mutant

\* The writer's result after it loaded a block whose result is b.
Sticky(r, b) == IF r = "ok" THEN b ELSE r

LastOneEarly(n) == n + 1 >= numStarted                         \* mutant

\* The n-th thread to finish is the last one.
LastOne(n) == n = numStarted

\* The result r of the writers of the previous call is forgotten.
ResAtStart(r) == "ok"

\* MtProgress_SetError: the first error is kept.
SetError(e) == progressRes' = IF progressRes = "ok" THEN e ELSE progressRes

Goto(t, l) == pc' = [pc EXCEPT ![t] = l]

\* The locals of an iteration that is over are not kept.
Leave(t) ==
  /\ res' = [res EXCEPT ![t] = "ok"]
  /\ bufIndex' = [bufIndex EXCEPT ![t] = None]
  /\ finished' = [finished EXCEPT ![t] = FALSE]

-----------------------------------------------------------------------------
(* The caller of MtCoder_Code. *)

\* MtCoderThread_CreateAndStart on threads[numStarted]: a thread left over from
\* an earlier call is used again, a new one may fail to be created.
StartThread(t) ==
  /\ startEvent' = [startEvent EXCEPT ![t] = TRUE]
  /\ numStarted' = numStarted + 1

\* pc once the thread t exists
Created(t) == [pc EXCEPT ![t] = IF @ = "none" THEN "idle" ELSE @]

\* Every thread that exists waits for its startEvent again.
AtRest == \A t \in Thread : pc[t] \in {"none", "idle"} /\ ~ startEvent[t]

\* The caller comes back with another input on the same object.
NewInput ==
  /\ main = "idle" /\ result # "none" /\ calls < MaxCalls
  /\ EarlyReuse \/ AtRest
  /\ calls' = calls + 1 /\ result' = "none" /\ out' = <<>>
  /\ total' \in 1 .. MaxInput - total /\ expected' \in Hints(total')
  /\ UNCHANGED <<main, readerVars, ringVars, blocks, bufData, endVars, progressRes,
                 pc, startEvent, localVars>>

\* The assignments at the start of MtCoder_Code.
Prologue ==
  /\ main = "idle" /\ result = "none"
  /\ main' = "first"
  /\ readRes' = "ok" /\ progressRes' = "ok"
  /\ finishedEvent' = FALSE /\ readEvent' = FALSE
  /\ blocksSemaphore' = NumBlocksMax
  /\ freeBlocks' = [i \in 1..BlocksMax |-> i - 1]
  /\ readProcessed' = 0 /\ blockIndex' = 0 /\ stopReading' = FALSE
  /\ writeIndex' = 0 /\ writeRes' = ResAtStart(writeRes)
  /\ readyBlocks' = [i \in Slot |-> FALSE]
  /\ numFinished' = 0 /\ numStarted' = 0
  /\ UNCHANGED <<calls, result, total, expected, dataVars, pc, startEvent, localVars>>

\* threads[0] is started for the first block.
StartFirst ==
  /\ main = "first"
  /\ \/ /\ main' = "open"
        /\ StartThread(0)
        /\ pc' = Created(0)
     \/ /\ pc[0] = "none" /\ "thread" \in Faults
        /\ main' = "noThread"
        /\ numStarted' = numStarted + 1
        /\ UNCHANGED <<startEvent, pc>>
  /\ UNCHANGED <<calls, result, total, expected, readEvent, stopReading, readRes, readProcessed,
                 blockIndex, ringVars, dataVars, endVars, progressRes, localVars>>

\* When that fails MtCoder_Code returns at once and does not free the object.
ReturnNoThread ==
  /\ main = "noThread"
  /\ main' = "idle" /\ result' = "thread"
  /\ UNCHANGED <<calls, total, expected, readerVars, ringVars, dataVars, endVars,
                 progressRes, pc, startEvent, localVars>>

OpenReading ==
  /\ main = "open"
  /\ main' = "wait"
  /\ readEvent' = TRUE
  /\ UNCHANGED <<calls, result, total, expected, stopReading, readRes, readProcessed,
                 blockIndex, numStarted, ringVars, dataVars, endVars, progressRes,
                 pc, startEvent, localVars>>

WaitFinished ==
  /\ main = "wait" /\ finishedEvent
  /\ main' = "collect"
  /\ finishedEvent' = FALSE
  /\ UNCHANGED <<calls, result, total, expected, readerVars, ringVars, dataVars,
                 numFinished, progressRes, pc, startEvent, localVars>>

CallResult ==
  CASE readRes # "ok"     -> readRes
    [] readRes = "ok" /\ progressRes # "ok" -> progressRes
    [] OTHER              -> writeRes

Collect ==
  /\ main = "collect"
  /\ IF CallResult = "ok"
       THEN main' = "idle" /\ result' = "ok"
       ELSE main' = "free" /\ UNCHANGED result
  /\ UNCHANGED <<calls, total, expected, readerVars, ringVars, dataVars, endVars,
                 progressRes, pc, startEvent, localVars>>

\* MtCoder_Free: every thread that exists is told to stop, and joined once it
\* is back at its startEvent.
Free ==
  /\ main = "free"
  /\ \A t \in Thread : pc[t] \in {"none", "idle"}
  /\ pc' = [t \in Thread |-> "none"]
  /\ startEvent' = [t \in Thread |-> FALSE]
  /\ main' = "idle" /\ result' = CallResult
  /\ UNCHANGED <<calls, total, expected, readerVars, ringVars, dataVars, endVars,
                 progressRes, localVars>>

MainStep == Prologue \/ StartFirst \/ ReturnNoThread \/ OpenReading \/ WaitFinished \/ Collect \/ Free

-----------------------------------------------------------------------------
(* A worker thread: ThreadFunc around ThreadFunc2. *)

WaitStart(t) ==
  /\ pc[t] = "idle" /\ startEvent[t]
  /\ startEvent' = [startEvent EXCEPT ![t] = FALSE]
  /\ Goto(t, "waitRead")
  /\ UNCHANGED <<callerVars, readerVars, ringVars, dataVars, endVars, progressRes,
                 localVars>>

\* The thread takes the right to read.  When reading has stopped it only hands
\* the right on; after an error it has a block to report but nothing to read.
TakeRead(t) ==
  /\ pc[t] = "waitRead" /\ readEvent
  /\ IF stopReading
       THEN /\ Goto(t, "incr")
            /\ readEvent' = TRUE
            /\ UNCHANGED <<res, finished>>
       ELSE /\ readEvent' = AfterWait(readEvent)
            /\ res' = [res EXCEPT ![t] = progressRes]
            /\ finished' = [finished EXCEPT ![t] = TRUE]
            /\ Goto(t, IF progressRes = "ok" THEN "read" ELSE "waitBlock")
  /\ UNCHANGED <<callerVars, stopReading, readRes, readProcessed, blockIndex, numStarted,
                 ringVars, dataVars, endVars, progressRes, startEvent,
                 inBuf, bi, bufIndex, wi, numFin>>

Read(t) ==
  /\ pc[t] = "read"
  /\ Goto(t, "waitBlock")
  /\ \/ /\ readProcessed' = readProcessed + 1
        /\ inBuf' = [inBuf EXCEPT ![t] = readProcessed + 1]
        /\ finished' = [finished EXCEPT ![t] = readProcessed + 1 = total]
        /\ UNCHANGED <<readRes, progressRes, res>>
     \/ /\ "read" \in Faults
        /\ readRes' = "read"
        /\ SetError("read")
        /\ res' = [res EXCEPT ![t] = "read"]
        /\ UNCHANGED <<readProcessed, inBuf, finished>>
  /\ UNCHANGED <<callerVars, readEvent, stopReading, blockIndex, numStarted, ringVars,
                 dataVars, endVars, startEvent, bi, bufIndex, wi, numFin>>

\* One slot of the ring is taken before the right to read is handed on.
TakeSlot(t) ==
  /\ pc[t] = "waitBlock" /\ SlotFree(blocksSemaphore)
  /\ blocksSemaphore' = blocksSemaphore - 1
  /\ bi' = [bi EXCEPT ![t] = blockIndex]
  /\ blockIndex' = Next(blockIndex)
  /\ bufIndex' = [bufIndex EXCEPT ![t] = None]
  /\ Goto(t, "check")
  /\ UNCHANGED <<callerVars, readEvent, stopReading, readRes, readProcessed, numStarted,
                 freeBlocks, readyBlocks, writeIndex, writeRes, dataVars, endVars,
                 progressRes, startEvent, res, finished, inBuf, wi, numFin>>

\* An error of another thread turns this block into the last one.
Check(t) ==
  LET r == IF res[t] = "ok" THEN progressRes ELSE res[t]
      f == finished[t] \/ r # "ok"
  IN /\ pc[t] = "check"
     /\ res' = [res EXCEPT ![t] = r]
     /\ finished' = [finished EXCEPT ![t] = f]
     /\ Goto(t, IF ~ f /\ numStarted < NumThreads
                       /\ (expected = 0 \/ expected # readProcessed)
                  THEN "start" ELSE "setRead")
     /\ UNCHANGED <<callerVars, readerVars, ringVars, dataVars, endVars, progressRes,
                    startEvent, inBuf, bi, bufIndex, wi, numFin>>

\* Another thread is started while this one still owns the right to read.
StartNext(t) ==
  /\ pc[t] = "start"
  /\ \/ /\ StartThread(numStarted)
        /\ pc' = [Created(numStarted) EXCEPT ![t] = "setRead"]
        /\ UNCHANGED <<progressRes, res, finished>>
     \/ /\ pc[numStarted] = "none" /\ "thread" \in Faults
        /\ SetError("thread")
        /\ res' = [res EXCEPT ![t] = "thread"]
        /\ finished' = [finished EXCEPT ![t] = TRUE]
        /\ Goto(t, "setRead")
        /\ UNCHANGED <<startEvent, numStarted>>
  /\ UNCHANGED <<callerVars, readEvent, stopReading, readRes, readProcessed, blockIndex,
                 ringVars, dataVars, endVars, inBuf, bi, bufIndex, wi, numFin>>

HandRead(t) ==
  /\ pc[t] = "setRead"
  /\ stopReading' = (stopReading \/ finished[t])
  /\ readEvent' = ReadEventAfter(res[t])
  /\ Goto(t, IF res[t] = "ok" THEN "takeBuf" ELSE "store")
  /\ UNCHANGED <<callerVars, readRes, readProcessed, blockIndex, numStarted, ringVars,
                 dataVars, endVars, progressRes, startEvent, localVars>>

TakeBuf(t) ==
  /\ pc[t] = "takeBuf"
  /\ bufIndex' = [bufIndex EXCEPT ![t] = FirstFree(freeBlocks)]
  /\ freeBlocks' = WithoutFirst(freeBlocks)
  /\ Goto(t, "code")
  /\ UNCHANGED <<callerVars, readerVars, blocksSemaphore, readyBlocks, writeIndex,
                 writeRes, dataVars, endVars, progressRes, startEvent,
                 res, finished, inBuf, bi, wi, numFin>>

\* The callback Code fills the output buffer from the thread's input buffer.
Code(t) ==
  /\ pc[t] = "code"
  /\ Goto(t, "store")
  /\ inBuf' = [inBuf EXCEPT ![t] = 0]
  /\ \/ /\ bufData' = [bufData EXCEPT ![bufIndex[t]] = inBuf[t]]
        /\ UNCHANGED <<progressRes, res>>
     \/ /\ "code" \in Faults
        /\ SetError("code")
        /\ res' = [res EXCEPT ![t] = "code"]
        /\ UNCHANGED bufData
  /\ UNCHANGED <<callerVars, readerVars, ringVars, blocks, out, endVars, startEvent,
                 finished, bi, bufIndex, wi, numFin>>

Store(t) ==
  /\ pc[t] = "store"
  /\ blocks' = [blocks EXCEPT ![bi[t]] =
                  [res |-> res[t], bufIndex |-> bufIndex[t], finished |-> finished[t]]]
  /\ Goto(t, "publish")
  /\ UNCHANGED <<callerVars, readerVars, ringVars, bufData, out, endVars, progressRes,
                 startEvent, localVars>>

\* The right to write is at this slot, or the block waits for the writer.
Publish(t) ==
  /\ pc[t] = "publish"
  /\ bi' = [bi EXCEPT ![t] = 0]
  /\ \/ /\ writeIndex = bi[t]
        /\ writeIndex' = TakenFrom(bi[t])
        /\ wi' = [wi EXCEPT ![t] = bi[t]]
        /\ res' = [res EXCEPT ![t] = IF writeRes # "ok" THEN writeRes ELSE @]
        /\ Goto(t, "write")
        /\ UNCHANGED <<readyBlocks, bufIndex, finished>>
     \/ /\ writeIndex # bi[t]
        /\ readyBlocks' = [readyBlocks EXCEPT ![bi[t]] = TRUE]
        /\ Goto(t, IF res[t] # "ok" \/ finished[t] THEN "incr" ELSE "waitRead")
        /\ Leave(t)
        /\ UNCHANGED <<writeIndex, wi>>
  /\ UNCHANGED <<callerVars, readerVars, blocksSemaphore, freeBlocks, writeRes, dataVars,
                 endVars, progressRes, startEvent, inBuf, numFin>>

\* The callback Write, skipped for a block without data or after an error.
Write(t) ==
  /\ pc[t] = "write"
  /\ Goto(t, "release")
  /\ \/ /\ res[t] = "ok" /\ bufIndex[t] # None
        /\ out' = Append(out, bufData[bufIndex[t]])
        /\ UNCHANGED <<writeRes, progressRes, res>>
     \/ /\ res[t] = "ok" /\ bufIndex[t] # None
        /\ "write" \in Faults
        /\ writeRes' = "write"
        /\ SetError("write")
        /\ res' = [res EXCEPT ![t] = "write"]
        /\ UNCHANGED out
     \/ /\ res[t] # "ok" \/ bufIndex[t] = None
        /\ UNCHANGED <<out, writeRes, progressRes, res>>
  /\ UNCHANGED <<callerVars, readerVars, blocksSemaphore, freeBlocks, readyBlocks,
                 writeIndex, blocks, bufData, endVars, startEvent,
                 finished, inBuf, bi, bufIndex, wi, numFin>>

\* In one critical section the buffer goes back to the free list and the right
\* to write goes to the next slot, or stays here when its block is ready.
Release(t) ==
  LET w == Next(wi[t])
  IN /\ pc[t] = "release"
     /\ wi' = [wi EXCEPT ![t] = w]
     /\ freeBlocks' = IF bufIndex[t] = None THEN freeBlocks
                      ELSE GiveBack(bufIndex[t], freeBlocks)
     /\ IF readyBlocks[w]
          THEN /\ readyBlocks' = [readyBlocks EXCEPT ![w] = FALSE]
               /\ Goto(t, "postMore")
               /\ UNCHANGED writeIndex
          ELSE /\ writeIndex' = w
               /\ Goto(t, "postLast")
               /\ UNCHANGED readyBlocks
     /\ UNCHANGED <<callerVars, readerVars, blocksSemaphore, writeRes, dataVars, endVars,
                    progressRes, startEvent, res, finished, inBuf, bi, bufIndex, numFin>>

\* The slot is given back.  A writer that keeps the right goes on with the next
\* block; its own error is kept in preference to the block's.
Post(t) ==
  /\ pc[t] \in {"postMore", "postLast"}
  /\ blocksSemaphore' = blocksSemaphore + 1
  /\ IF pc[t] = "postMore"
       THEN LET block == blocks[wi[t]]
            IN /\ res' = [res EXCEPT ![t] = Sticky(@, block.res)]
               /\ bufIndex' = [bufIndex EXCEPT ![t] = block.bufIndex]
               /\ finished' = [finished EXCEPT ![t] = block.finished]
               /\ Goto(t, "write") /\ UNCHANGED wi
       ELSE /\ Goto(t, IF finished[t] \/ res[t] # "ok" THEN "incr" ELSE "waitRead")
            /\ Leave(t) /\ wi' = [wi EXCEPT ![t] = 0]
  /\ UNCHANGED <<callerVars, readerVars, freeBlocks, readyBlocks, writeIndex, writeRes,
                 dataVars, endVars, progressRes, startEvent, inBuf, bi, numFin>>

\* InterlockedIncrement and the comparison that follows it are two steps.
CountFinished(t) ==
  /\ pc[t] = "incr"
  /\ numFinished' = numFinished + 1
  /\ numFin' = [numFin EXCEPT ![t] = numFinished + 1]
  /\ Goto(t, "finish")
  /\ UNCHANGED <<callerVars, readerVars, ringVars, dataVars, finishedEvent, progressRes,
                 startEvent, res, finished, inBuf, bi, bufIndex, wi>>

SignalFinished(t) ==
  /\ pc[t] = "finish"
  /\ finishedEvent' = (finishedEvent \/ LastOne(numFin[t]))
  /\ numFin' = [numFin EXCEPT ![t] = 0]
  /\ Goto(t, "idle")
  /\ UNCHANGED <<callerVars, readerVars, ringVars, dataVars, numFinished, progressRes,
                 startEvent, res, finished, inBuf, bi, bufIndex, wi>>

ThreadStep(t) ==
  \/ WaitStart(t) \/ TakeRead(t) \/ Read(t) \/ TakeSlot(t) \/ Check(t)
  \/ StartNext(t) \/ HandRead(t) \/ TakeBuf(t) \/ Code(t) \/ Store(t)
  \/ Publish(t) \/ Write(t) \/ Release(t) \/ Post(t)
  \/ CountFinished(t) \/ SignalFinished(t)

\* The caller has its last result and the threads that are left wait.
Terminating ==
  /\ main = "idle" /\ result # "none" /\ (calls = MaxCalls \/ total = MaxInput)
  /\ \A t \in Thread : pc[t] \in {"none", "idle"}
  /\ UNCHANGED vars

NextStep == MainStep \/ NewInput \/ (\E t \in Thread : ThreadStep(t)) \/ Terminating

Spec == Init /\ [][NextStep]_vars

\* Every thread that can go on is scheduled, and the callbacks return.
FairSpec == Spec /\ WF_vars(MainStep) /\ \A t \in Thread : WF_vars(ThreadStep(t))

-----------------------------------------------------------------------------
(* Properties. *)

CallerTypes ==
  /\ main \in MainPc /\ calls \in 1..MaxCalls /\ result \in Res \cup {"none"}
  /\ total \in 1..MaxInput /\ expected \in 0..MaxInput

ReaderTypes ==
  /\ readEvent \in BOOLEAN /\ stopReading \in BOOLEAN /\ readRes \in Res
  /\ readProcessed \in Nat /\ blockIndex \in Slot /\ numStarted \in Nat

RingTypes ==
  /\ blocksSemaphore \in Nat /\ freeBlocks \in Seq(Buf)
  /\ readyBlocks \in [Slot -> BOOLEAN] /\ writeIndex \in Slot \cup {None}
  /\ writeRes \in Res

BlockRecord == [res : Res, bufIndex : Buf \cup {None}, finished : BOOLEAN]

DataTypes ==
  /\ blocks \in [Slot -> BlockRecord]
  /\ bufData \in [Buf -> Nat] /\ out \in Seq(Nat)

EndTypes == progressRes \in Res /\ numFinished \in Nat /\ finishedEvent \in BOOLEAN

ThreadTypes ==
  /\ pc \in [Thread -> ThreadPc] /\ startEvent \in [Thread -> BOOLEAN]
  /\ res \in [Thread -> Res] /\ finished \in [Thread -> BOOLEAN]
  /\ inBuf \in [Thread -> Nat] /\ bi \in [Thread -> Slot]
  /\ bufIndex \in [Thread -> Buf \cup {None}] /\ wi \in [Thread -> Slot]
  /\ numFin \in [Thread -> Nat]

\* Every variable keeps its type; in particular the ring indexes stay in the
\* ring and the semaphore never goes below zero (MtCoder.c:175, 187, 286).
TypeOK ==
  /\ CallerTypes
  /\ ReaderTypes
  /\ RingTypes
  /\ DataTypes
  /\ EndTypes
  /\ ThreadTypes

Reading(t) == pc[t] \in {"read", "waitBlock", "check", "start", "setRead"}
Writing(t) == pc[t] \in {"write", "release", "postMore"}

\* One thread at a time reads the input, moves blockIndex and starts threads
\* (MtCoder.c:116-221), although readEvent is set from five places.
ReaderExclusive ==
  /\ \A t, u \in Thread : Reading(t) /\ Reading(u) => t = u
  /\ readEvent => \A t \in Thread : ~ Reading(t)

\* The right to write is at one place: in writeIndex or with one thread
\* (MtCoder.c:252-312).
WriterExclusive ==
  /\ \A t, u \in Thread : Writing(t) /\ Writing(u) => t = u
  /\ writeIndex # None => \A t \in Thread : ~ Writing(t)

\* Both rights have one owner.
RightsExclusive == ReaderExclusive /\ WriterExclusive

\* The buffer a thread works on; at postMore it is still named in the block
\* whose ready flag the thread has taken.
ThreadBuf(t) ==
  IF pc[t] \in {"code", "store", "publish", "write", "release"} THEN bufIndex[t]
  ELSE IF pc[t] = "postMore" THEN blocks[wi[t]].bufIndex
  ELSE None

SlotBuf(i) == IF readyBlocks[i] THEN blocks[i].bufIndex ELSE None

\* No output buffer is in two places: filled by one thread while another one
\* writes it, waiting in two slots, or in use and in the free list
\* (MtCoder.c:228-231, 271-304).
BufferExclusive ==
  /\ \A t, u \in Thread : t # u /\ ThreadBuf(t) # None => ThreadBuf(t) # ThreadBuf(u)
  /\ \A i, j \in Slot : i # j /\ SlotBuf(i) # None => SlotBuf(i) # SlotBuf(j)
  /\ \A t \in Thread, i \in Slot : SlotBuf(i) # None => SlotBuf(i) # ThreadBuf(t)
  /\ \A k \in DOMAIN freeBlocks :
       /\ \A t \in Thread : freeBlocks[k] # ThreadBuf(t)
       /\ \A i \in Slot : freeBlocks[k] # SlotBuf(i)

\* The slot whose semaphore unit a thread took and that it has not published.
OwnsSlot(t) == pc[t] \in {"check", "start", "setRead", "takeBuf", "code", "store", "publish"}

\* A slot of the ring is used again only after its block was written: nobody
\* else fills it, and the record a writer is about to load is not overwritten
\* (MtCoder.c:185-188, 242-247, 315-319), and
\* no slot is released twice (MtCoder.c:308).
SlotExclusive ==
  /\ blocksSemaphore <= NumBlocksMax
  /\ \A t \in Thread : OwnsSlot(t) =>
       /\ ~ readyBlocks[bi[t]]
       /\ \A u \in Thread \ {t} :
            /\ OwnsSlot(u) => bi[u] # bi[t]
            /\ pc[u] = "postMore" => wi[u] # bi[t]

\* A thread that needs a buffer finds one, and never one beyond the number of
\* slots, because a writer returns the buffer before it releases the slot
\* (MtCoder.c:293-308).
BufferAvailable ==
  \A t \in Thread : pc[t] = "takeBuf" =>
    FirstFree(freeBlocks) \in 0 .. NumBlocksMax - 1

\* The ring: the slots, the buffers and the free list are in step.
RingSafe == SlotExclusive /\ BufferExclusive /\ BufferAvailable

\* When the caller is woken, no thread that was started for this call still
\* works for it (MtCoder.c:350-352).
NoStragglers ==
  finishedEvent =>
    \A t \in Thread : pc[t] \in {"none", "idle", "finish"} /\ ~ startEvent[t]

\* SZ_OK is returned only for a complete output, in the order of the input
\* (Lzma2Enc.h:31, "SZ_OK - OK").
ResultSound == result = "ok" => out = [i \in 1..total |-> i]

Status == CASE result = "none" -> "run"
            [] result = "ok"   -> "ok"
            [] OTHER           -> "error"

Pipeline == INSTANCE BlockPipeline WITH
  failed <- \/ main # "idle" /\ progressRes # "ok"
            \/ main = "noThread"
            \/ result \notin {"none", "ok"},
  status <- Status

\* The coder keeps the promise of a block pipeline: the output is the input in
\* order and without a gap while nothing failed, goes forward only after a
\* failure, and the result tells the two apart (MtCoder.c:445-600).
ImplementsPipeline == Pipeline!PSpec

\* Every call of MtCoder_Code returns, whatever fails: the right to read and
\* the slots are always handed on (MtCoder.c:118, 171).
CallReturns == result = "none" ~> result # "none"
=============================================================================
