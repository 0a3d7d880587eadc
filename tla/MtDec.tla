------------------------------- MODULE MtDec -------------------------------
(***************************************************************************)
(* C/MtDec.c, the multi-thread decoder, with the callbacks and the single- *)
(* thread decoder of C/Lzma2DecMt.c on it and the result of CDecoder::Code *)
(* of CPP/7zip/Compress/Lzma2Decoder.cpp around it.                        *)
(*                                                                         *)
(* The threads form a ring.  The right to read (canRead) goes round: its   *)
(* holder reads and parses input up to the end of a block, leaves what it  *)
(* read too far in the cross block, and passes the right on.  Blocks are   *)
(* decoded in parallel.  The right to write (canWrite) follows.  Whoever   *)
(* cannot go on (finish) passes nothing on and, as the last writer, either *)
(* starts the ring again or ends it.  If memory, threads or the size of a  *)
(* block were the reason, one thread then decodes the rest: first the      *)
(* input the threads still hold, then the cross block, then the stream.    *)
(*                                                                         *)
(* Input and output are units (see Lzma2Stream); a block's output reaches  *)
(* the output stream in one write.  Failures of the system's events are    *)
(* not modelled.                                                           *)
(***************************************************************************)
EXTENDS Lzma2Stream, SequencesExt

CONSTANTS
  ThreadsMax,   \* props.numThreads, more than 1
  InBufSize,    \* props.inBufSize_MT, in units
  OutBlockMax,  \* props.outBlockMax, in units
  Inputs,       \* streams: records of kind, outSize, finish
  Faults,       \* what can fail: a subset of FaultKinds
  MaxFaults,    \* bound: failures in one call
  MaxCalls      \* bound: calls with one decoder

\* "memory" for the threads' buffers, "last" for the single-thread decoder's.
FaultKinds == {"read", "write", "progress", "thread", "memory", "last"}

ASSUME MtDecAssumption ==
  /\ ThreadsMax \in Nat \ {0} /\ InBufSize \in Nat \ {0} /\ OutBlockMax \in Nat \ {0}
  /\ Faults \subseteq FaultKinds /\ MaxFaults \in Nat /\ MaxCalls \in Nat \ {0}
  /\ \A i \in Inputs : i.kind \in Seq(Kinds) /\ i.outSize \in Nat /\ i.finish \in BOOLEAN

Thread == 0 .. ThreadsMax - 1
None == -1

VARIABLES
  \* the caller
  input, main, calls, sres, result, out,
  tryMt,              \* _tryMt
  failures, failed,   \* how many, and the kinds that the caller must be told of
  \* CMtDec and CLzma2DecMt: what the reader owns
  pos,                \* units read from inStream
  readWasFinished, readRes, blockIndex,
  cross,              \* the units of crossBlock from crossStart to crossEnd
  crossBlock,         \* crossBlock was allocated
  numStarted, startedLimit,
  outParsed,          \* outProcessed_Parse
  \* what mtProgress.cs guards
  interrupt,          \* interruptIndex, None when not needInterrupt
  progressRes,        \* mtProgress.res
  \* what the writer owns
  wasInterrupted, isAllocError, overflow, threadingError, exitThread, inProcessed,
  filledStart, numFilled,
  \* the threads: MtDec's, the coder's, and the locals of MtDec_ThreadFunc2
  pc, canRead, canWrite,
  inBuf,              \* the links of buffers, each the units in it
  filledSize,         \* inDataSize of CMtDecThread: what MtDec_Read has to give ...
  filledFirst,        \* ... and inDataSize_Start, its part in the first link
  coder, loc,
  outBufSize,         \* of the coder's buffer, None when there is none
  \* Lzma2Dec_Decode_ST
  tMode, fresh

callerVars == <<input, main, calls, sres, result, tryMt>>
readerVars == <<pos, readWasFinished, readRes, blockIndex, cross, crossBlock, numStarted,
                startedLimit, outParsed>>
csVars     == <<interrupt, progressRes>>
writerVars == <<wasInterrupted, isAllocError, overflow, threadingError, exitThread,
                inProcessed, filledStart, numFilled>>
filledVars == <<filledSize, filledFirst>>
stVars     == <<tMode, fresh>>
faultVars  == <<failures, failed>>
vars == <<callerVars, out, faultVars, readerVars, csVars, writerVars, pc, canRead, canWrite,
          inBuf, filledVars, coder, loc, outBufSize,
          stVars>>

MainPc == {"start", "mt", "st", "result", "done"}
ThreadPc == {"none", "waitRead", "read", "parse", "hand", "code", "waitWrite", "write", "ended"}

NoCoder == [status |-> "more", inPre |-> 0, outPre |-> 0, data |-> <<>>, used |-> 0]
NoLoc == [block |-> 0, links |-> 0, got |-> <<>>, size |-> 0, first |-> 0, crossed |-> FALSE,
          finish |-> FALSE, needCode |-> FALSE, needWrite |-> FALSE, alloc |-> FALSE,
          over |-> FALSE, thread |-> FALSE, stop |-> FALSE, code |-> "ok", next |-> None, write |-> FALSE]

Init ==
  /\ input \in Inputs /\ main = "start" /\ calls = 1 /\ sres = "ok" /\ result = "none"
  /\ out = <<>> /\ tryMt = TRUE /\ failures = 0 /\ failed = {}
  /\ pos = 0 /\ readWasFinished = FALSE /\ readRes = "ok" /\ blockIndex = 1
  /\ cross = <<>> /\ crossBlock = FALSE /\ numStarted = 0 /\ startedLimit = ThreadsMax
  /\ outParsed = 0 /\ interrupt = None /\ progressRes = "ok"
  /\ wasInterrupted = FALSE /\ isAllocError = FALSE /\ overflow = FALSE
  /\ threadingError = FALSE /\ exitThread = FALSE /\ inProcessed = 0
  /\ filledStart = 0 /\ numFilled = 0
  /\ pc = [t \in Thread |-> "none"] /\ canRead = [t \in Thread |-> FALSE]
  /\ canWrite = [t \in Thread |-> FALSE] /\ inBuf = [t \in Thread |-> <<>>]
  /\ filledSize = [t \in Thread |-> 0] /\ filledFirst = [t \in Thread |-> 0]
  /\ coder = [t \in Thread |-> NoCoder] /\ loc = [t \in Thread |-> NoLoc]
  /\ outBufSize = [t \in Thread |-> None] /\ tMode = FALSE /\ fresh = TRUE

Goto(t, l) == pc' = [pc EXCEPT ![t] = l]

\* Whether something of kind k fails now.
MayFail(k) == {FALSE} \cup (IF k \in Faults /\ failures < MaxFaults THEN {TRUE} ELSE {})
Count(f) == IF f THEN 1 ELSE 0
Failing(n) == failures' = failures + n /\ failures' <= MaxFaults
Fatal(kinds) == failed' = failed \cup kinds
Kind(f, k) == IF f THEN {k} ELSE {}

Interrupted(t) == interrupt # None /\ loc[t].block > interrupt

\* MtDec_Interrupt: only an earlier block moves the mark.
Interrupt(t) ==
  interrupt' = IF interrupt = None \/ loc[t].block < interrupt THEN loc[t].block ELSE interrupt

\* The progress callback is asked only while it has not failed.
Progress(f) ==
  /\ f => progressRes = "ok"
  /\ progressRes' = IF f THEN "progress" ELSE progressRes

-----------------------------------------------------------------------------
(* Reading and parsing. *)

\* Event_Wait(canRead), then the index of the block and a look at the progress.
TakeRead(t) ==
  /\ pc[t] = "waitRead" /\ canRead[t]
  /\ canRead' = [canRead EXCEPT ![t] = FALSE]
  /\ \/ /\ exitThread
        /\ Goto(t, "ended")
        /\ UNCHANGED <<blockIndex, csVars, loc, faultVars>>
     \/ /\ ~ exitThread
        /\ blockIndex' = blockIndex + 1
        /\ \E f \in MayFail("progress") :
             /\ Progress(f) /\ Failing(Count(f)) /\ Fatal(Kind(f, "progress"))
             /\ LET stop == progressRes' # "ok" \/ (interrupt # None /\ blockIndex > interrupt)
                IN /\ loc' = [loc EXCEPT ![t] =
                                [NoLoc EXCEPT !.block = blockIndex, !.stop = stop,
                                              !.finish = IF stop THEN TRUE ELSE readWasFinished]]
                   /\ Goto(t, IF stop THEN "waitWrite" ELSE "read")
        /\ UNCHANGED interrupt
  /\ UNCHANGED <<callerVars, out, pos, readWasFinished, readRes, cross, crossBlock, numStarted,
                 startedLimit, outParsed, writerVars, canWrite, inBuf, filledVars, coder,
                 outBufSize, stVars>>

\* A link is allocated unless the block that used the buffer before left one.
NoLink(t) ==
  /\ pc[t] = "read" /\ loc[t].links >= Len(inBuf[t])
  /\ TRUE \in MayFail("memory") /\ Failing(1)
  /\ loc' = [loc EXCEPT ![t].finish = TRUE, ![t].alloc = TRUE]
  /\ Goto(t, "hand")
  /\ UNCHANGED <<callerVars, out, failed, readerVars, csVars, writerVars, canRead, canWrite,
                 inBuf, filledVars, coder,
                 outBufSize, stVars>>

SetLink(links, i, units) == [links EXCEPT ![i] = units]
PutLink(t, units) ==
  inBuf' = [inBuf EXCEPT ![t] = IF loc[t].links < Len(@) THEN SetLink(@, loc[t].links + 1, units)
                                ELSE Append(@, units)]

\* The first link takes what is in the cross block.
TakeCross(t) ==
  /\ pc[t] = "read" /\ loc[t].links = 0 /\ cross # <<>>
  /\ PutLink(t, cross)
  /\ loc' = [loc EXCEPT ![t].got = cross, ![t].crossed = TRUE, ![t].size = Len(cross),
                        ![t].first = Len(cross)]
  /\ Goto(t, "parse")
  /\ UNCHANGED <<callerVars, out, faultVars, readerVars, csVars, writerVars, canRead, canWrite,
                 filledVars, coder,
                 outBufSize, stVars>>

Units(from, n) == [i \in 1 .. n |-> from + i]
Rest == Len(input.kind) - pos

\* SeqInStream_ReadMax; what came before an error is still decoded.  The ring
\* may begin again after that and read again: a stream that has failed gives
\* nothing more.
ReadStream(t) ==
  /\ pc[t] = "read"
  /\ loc[t].links > 0 \/ cross = <<>>
  /\ \E e \in IF readRes = "read" THEN {TRUE} ELSE MayFail("read"), f \in MayFail("progress"),
        n \in 0 .. Min({InBufSize, Rest}) :
       /\ IF e THEN readRes = "read" => n = 0 ELSE n = Min({InBufSize, Rest})
       /\ f => n > 0 \/ loc[t].crossed
       /\ Failing(Count(e /\ readRes = "ok") + Count(f))
       /\ Fatal(Kind(e, "read") \cup Kind(f, "progress"))
       /\ Progress(f)
       /\ pos' = pos + n
       /\ readRes' = IF e THEN "read" ELSE readRes
       /\ LET finish == e \/ n # InBufSize
              stop   == (n > 0 \/ loc[t].crossed) /\ (progressRes' # "ok" \/ Interrupted(t))
          IN /\ readWasFinished' = (readWasFinished \/ finish)
             /\ PutLink(t, Units(pos, n))
             /\ loc' = [loc EXCEPT ![t].got = Units(pos, n), ![t].crossed = FALSE,
                                   ![t].size = @ + n,
                                   ![t].first = IF loc[t].links = 0 THEN n ELSE @,
                                   ![t].finish = finish,
                                   ![t].stop = @ \/ stop]
             /\ Goto(t, IF stop THEN "hand" ELSE "parse")
  /\ UNCHANGED <<callerVars, out, blockIndex, cross, crossBlock, numStarted, startedLimit,
                 outParsed, interrupt, writerVars, canRead, canWrite, filledVars, coder,
                 outBufSize, stVars>>

\* The limit of a block's output, and whether it may be cut there.
Room == input.outSize - outParsed
LimitOfBlock == OutBlockMax                                    \* mutant
Limit == Min({OutBlockMax, Room})
Partial == OutBlockMax >= Room /\ ~ input.finish

\* Parse of what the link holds.  A block that ends inside gives the rest to
\* the cross block.
ParseLink(t) ==
  /\ pc[t] = "parse"
  /\ LET l     == loc[t]
         old   == IF l.links = 0 THEN NoCoder ELSE coder[t]
     IN \E r \in Parse(input.kind, l.got, old.outPre, Limit, Partial),
           noCross \in MayFail("memory") :
          LET part  == r.size < Len(l.got)
              ends  == r.status \in {"mark", "notSpecified", "notFinished"}
              stop  == r.status # "more" \/ l.finish
              after == SubSeq(l.got, r.size + 1, Len(l.got))
              toCross == r.status = "new" /\ part
          IN /\ noCross => toCross /\ ~ l.crossed /\ ~ crossBlock
             /\ Failing(Count(noCross))
             /\ coder' = [coder EXCEPT ![t] =
                  [status |-> r.status, inPre |-> old.inPre + r.size,
                   outPre |-> IF r.status = "overflow" THEN old.outPre ELSE r.out,
                   data |-> <<>>, used |-> 0]]
             /\ outParsed' = IF r.status \in {"more", "overflow"} THEN outParsed
                             ELSE outParsed + r.out
             /\ cross' = IF \/ toCross /\ ~ noCross
                            \/ l.crossed /\ part /\ r.status # "overflow"
                           THEN after ELSE <<>>
             /\ crossBlock' = (crossBlock \/ (toCross /\ ~ l.crossed /\ ~ noCross))
             /\ inBuf' = IF l.crossed /\ r.status # "overflow"
                           THEN [inBuf EXCEPT ![t] = SetLink(@, 1, SubSeq(l.got, 1, r.size))]
                           ELSE inBuf
             /\ loc' = [loc EXCEPT ![t] =
                  [l EXCEPT !.needWrite = TRUE, !.got = <<>>,
                            !.links = @ + 1,
                            !.over = r.status = "overflow",
                            !.alloc = noCross,
                            !.needCode = r.status # "overflow" /\ stop,
                            !.finish = r.status = "overflow" \/ noCross \/ ends
                                       \/ (@ /\ ~ toCross),
                            !.size = IF r.status = "overflow" \/ noCross THEN @
                                     ELSE @ - Len(after),
                            !.first = IF l.links = 0 /\ r.status # "overflow" /\ ~ noCross
                                        THEN r.size ELSE @]]
             /\ Goto(t, IF stop THEN "hand" ELSE "read")
  /\ UNCHANGED <<callerVars, out, failed, pos, readWasFinished, readRes, blockIndex, numStarted,
                 startedLimit, csVars, writerVars, canRead, canWrite, filledVars,
                 outBufSize, stVars>>

-----------------------------------------------------------------------------
(* PreCode, the next thread, and Code. *)

\* Lzma2DecMt_MtCallback_PreCode.  A buffer of no size cannot be allocated.
Grow(t) == outBufSize[t] < coder[t].outPre
PreCodeResults(t) ==
  IF coder[t].inPre = 0                  THEN {"data"}
  ELSE IF Grow(t) /\ coder[t].outPre = 0 THEN {"memory"}
  ELSE {"ok"} \cup Kind(Grow(t) /\ TRUE \in MayFail("memory"), "memory")

NextThread(t, n) == IF t + 1 >= n THEN 0 ELSE t + 1

MayStartOneMore(n) == n <= startedLimit                         \* mutant
MayStart(n) == n < startedLimit

HandOnAlways(t, n, ends) == [canRead EXCEPT ![NextThread(t, n)] = TRUE]   \* mutant

\* The right to read goes on unless decoding cannot (finish).
HandOn(t, n, ends) == IF ends THEN canRead ELSE [canRead EXCEPT ![NextThread(t, n)] = TRUE]

\* The reader looks at the interrupts once more.
Stops(t) == loc[t].stop \/ progressRes # "ok" \/ Interrupted(t)

\* With the result c of PreCode, a thread is started if there may be one more,
\* and the right to read is passed on.
PassRead(t, c, noThread) ==
  LET l      == loc[t]
      finish == l.finish \/ Stops(t) \/ c # "ok"
      more   == ~ finish /\ MayStart(numStarted)
      alone  == noThread /\ numStarted = 1
      ends   == finish \/ alone
      n      == IF more /\ ~ noThread THEN numStarted + 1 ELSE numStarted
      coded  == l.needCode /\ ~ Stops(t) /\ c = "ok"
  IN /\ noThread => more /\ pc[numStarted] = "none"
     /\ Failing(Count(noThread) + Count(c = "memory" /\ coder[t].outPre # 0))
     /\ outBufSize' = CASE c = "memory" -> [outBufSize EXCEPT ![t] = None]
                        [] coded /\ Grow(t) -> [outBufSize EXCEPT ![t] = coder[t].outPre]
                        [] OTHER -> outBufSize
     /\ numStarted' = n
     /\ startedLimit' = IF noThread /\ ~ alone THEN numStarted ELSE startedLimit
     /\ canRead' = HandOn(t, n, ends)
     /\ pc' = [pc EXCEPT ![n - 1] = IF n > numStarted THEN "waitRead" ELSE @,
                         ![t] = IF coded /\ ~ alone THEN "code" ELSE "waitWrite"]
     /\ loc' = [loc EXCEPT ![t] =
          [l EXCEPT !.stop = Stops(t), !.code = c, !.thread = alone, !.finish = ends,
                    !.needCode = @ /\ c = "ok" /\ ~ alone,
                    !.next = IF ends THEN None ELSE NextThread(t, n)]]

HandRead(t) ==
  /\ pc[t] = "hand"
  /\ \E c \in IF loc[t].needCode /\ ~ Stops(t) THEN PreCodeResults(t) ELSE {"ok"} :
       \E noThread \in MayFail("thread") : PassRead(t, c, noThread)
  /\ UNCHANGED <<callerVars, out, failed, pos, readWasFinished, readRes, blockIndex, cross,
                 crossBlock, outParsed, csVars, writerVars, canWrite, inBuf, filledVars, coder,
                 stVars>>

\* The first size units in links, of which first (if any) are in the first one.
Data(links, first, size) ==
  IF size = 0 THEN <<>>
  ELSE SubSeq((IF first = 0 THEN Head(links) ELSE SubSeq(Head(links), 1, first))
              \o FlattenSeq(Tail(links)), 1, size)

\* The block ends in a known place, so all of it must decode.
Whole(c) == c.status \in {"mark", "new"}

\* Code for each link.  An error interrupts only the later blocks; a look at
\* the progress between two links may end it too.
Code(t) ==
  /\ pc[t] = "code"
  /\ LET c == coder[t]
         d == Decode(input.kind, Data(inBuf[t], loc[t].first, loc[t].size), TRUE, c.outPre,
                     Whole(c))
     IN \/ /\ coder' = [coder EXCEPT ![t].data = d.out, ![t].used = d.used]
           /\ IF d.status = "error"
                THEN Interrupt(t) /\ loc' = [loc EXCEPT ![t].code = "data"]
                ELSE UNCHANGED <<interrupt, loc>>
           /\ UNCHANGED <<progressRes, faultVars>>
        \/ /\ loc[t].size > loc[t].first
           /\ \E f \in MayFail("progress") :
                /\ Progress(f) /\ Failing(Count(f)) /\ Fatal(Kind(f, "progress"))
                /\ progressRes' # "ok" \/ Interrupted(t)
                /\ loc' = [loc EXCEPT ![t].stop = Interrupted(t)]
           /\ UNCHANGED <<interrupt, coder>>
  /\ Goto(t, "waitWrite")
  /\ UNCHANGED <<callerVars, out, readerVars, writerVars, canRead, canWrite, inBuf, filledVars,
                 outBufSize, stVars>>

-----------------------------------------------------------------------------
(* Writing and passing on. *)

\* Event_Wait(canWrite).  The first writer that cannot go on says why; its
\* block is kept for the single thread unless it is only an error in the data.
TakeWrite(t) ==
  /\ pc[t] = "waitWrite" /\ canWrite[t]
  /\ canWrite' = [canWrite EXCEPT ![t] = FALSE]
  /\ LET l     == loc[t]
         first == ~ wasInterrupted
         alloc == l.alloc \/ l.code = "memory"
         keep  == l.thread \/ alloc \/ l.over
     IN \E f \in MayFail("progress") :
          /\ f => l.needCode
          /\ Progress(f) /\ Failing(Count(f)) /\ Fatal(Kind(f, "progress"))
          /\ wasInterrupted' = (wasInterrupted \/ l.code # "ok" \/ keep)
          /\ isAllocError' = (isAllocError \/ (first /\ alloc))
          /\ overflow' = (overflow \/ (first /\ l.over))
          /\ threadingError' = (threadingError \/ (first /\ l.thread))
          /\ loc' = [loc EXCEPT ![t].write = l.needWrite /\ first /\ ~ keep /\ ~ l.stop
                                               /\ (l.needCode => progressRes' = "ok")]
  /\ Goto(t, "write")
  /\ UNCHANGED <<callerVars, out, readerVars, interrupt, exitThread, inProcessed, filledStart,
                 numFilled, canRead, inBuf, filledVars, coder, outBufSize, stVars>>

\* ISeqOutStream_Write: all of data, or a part of it and an error.
WriteOut(data, fails) ==
  IF fails
    THEN /\ data # <<>>
         /\ \E n \in 0 .. Len(data) - 1 : out' = out \o SubSeq(data, 1, n)
    ELSE out' = out \o data

\* Decoding goes on after this block: the loop that Write of Lzma2DecMt ends.
Continues(t, fails) ==
  IF loc[t].needWrite
    THEN loc[t].write /\ ~ fails /\ coder[t].status \in {"more", "new"}
    ELSE ~ loc[t].finish

KeepsFailed(t) == ~ loc[t].write /\ loc[t].code # "ok"          \* mutant

\* The block is kept for the single thread.
Keeps(t) ==
  /\ ~ loc[t].write
  /\ \/ ~ loc[t].needCode \/ wasInterrupted \/ loc[t].code # "ok" \/ loc[t].stop
     \/ numFilled # 0

\* The rights to read and write go on (to the next thread, or from the last
\* block to thread 0), or the ring ends.
PassOn(t, goesOn) ==
  LET finish == loc[t].finish
      next   == IF finish THEN 0 ELSE loc[t].next
      ends   == finish /\ ~ goesOn
  IN /\ canWrite' = IF ends THEN canWrite ELSE [canWrite EXCEPT ![next] = TRUE]
     /\ canRead' = IF finish /\ ~ (ends /\ t = 0) THEN [canRead EXCEPT ![0] = TRUE] ELSE canRead
     /\ exitThread' = (exitThread \/ (ends /\ t # 0))
     /\ Goto(t, IF ends /\ t = 0 THEN "ended" ELSE "waitRead")

\* Links that are not kept stay allocated; what is in them is of no use.
Used(links) == [i \in 1 .. Len(links) |-> <<>>]

\* Write, and the rest of the iteration.
Write(t) ==
  /\ pc[t] = "write"
  /\ \E fails \in IF loc[t].write THEN MayFail("write") ELSE {FALSE} :
       LET l      == loc[t]
           goesOn == Continues(t, fails)
           counts == Keeps(t) /\ (l.size # 0 \/ ~ l.finish)
       IN /\ IF l.write THEN WriteOut(coder[t].data, fails) ELSE UNCHANGED out
          /\ Failing(Count(fails)) /\ Fatal(Kind(fails, "write"))
          /\ inProcessed' = IF l.write THEN inProcessed + coder[t].used ELSE inProcessed
          /\ wasInterrupted' = (wasInterrupted \/ fails)
          /\ IF fails \/ (~ goesOn /\ ~ l.finish) THEN Interrupt(t) ELSE UNCHANGED interrupt
          /\ filledStart' = IF Keeps(t) /\ numFilled = 0 THEN t ELSE filledStart
          /\ numFilled' = IF counts THEN numFilled + 1 ELSE numFilled
          /\ filledSize' = [filledSize EXCEPT ![t] = IF counts THEN l.size ELSE @]
          /\ filledFirst' = [filledFirst EXCEPT ![t] = IF counts THEN l.first ELSE @]
          /\ inBuf' = [inBuf EXCEPT ![t] = IF counts THEN @ ELSE Used(@)]
          /\ PassOn(t, goesOn)
  /\ coder' = [coder EXCEPT ![t] = NoCoder]
  /\ loc' = [loc EXCEPT ![t] = NoLoc]
  /\ UNCHANGED <<callerVars, readerVars, progressRes, isAllocError, overflow, threadingError,
                 outBufSize, stVars>>

-----------------------------------------------------------------------------
(* The caller. *)

\* The prologues of Lzma2DecMt_Decode and MtDec_Code; the calling thread is
\* thread 0.  After a call that ended in one thread, CDecoder asks for one.
Start ==
  /\ main = "start"
  /\ main' = IF tryMt THEN "mt" ELSE "st"
  /\ inProcessed' = 0 /\ pos' = 0 /\ readWasFinished' = FALSE /\ readRes' = "ok"
  /\ fresh' = TRUE /\ tMode' = FALSE
  /\ IF ~ tryMt THEN UNCHANGED <<outParsed, blockIndex, isAllocError, overflow, threadingError,
                                 interrupt, wasInterrupted, cross, filledStart, numFilled,
                                 startedLimit, numStarted, progressRes, exitThread, canRead,
                                 canWrite, pc>>
     ELSE /\ outParsed' = 0 /\ blockIndex' = 1
          /\ isAllocError' = FALSE /\ overflow' = FALSE /\ threadingError' = FALSE
          /\ interrupt' = None /\ wasInterrupted' = FALSE /\ cross' = <<>>
          /\ filledStart' = 0 /\ numFilled' = 0
          /\ startedLimit' = ThreadsMax /\ numStarted' = 1
          /\ progressRes' = "ok" /\ exitThread' = FALSE
          /\ canRead' = [canRead EXCEPT ![0] = TRUE]
          /\ canWrite' = [canWrite EXCEPT ![0] = TRUE]
          /\ pc' = [pc EXCEPT ![0] = "waitRead"]
  /\ UNCHANGED <<input, calls, sres, result, tryMt, out, faultVars, crossBlock, inBuf,
                 filledVars, coder, loc, outBufSize>>

\* MtDec_PrepareRead keeps the links of the threads that hold input.
Filled(t) ==
  /\ t <= numStarted
  /\ numFilled > (IF t >= filledStart THEN t - filledStart ELSE t + numStarted - filledStart)

\* MtDec_Code returns: the call ends, or one thread goes on.
Return ==
  /\ main = "mt" /\ pc[0] = "ended"
  /\ LET goesOn == isAllocError \/ threadingError \/ overflow
     IN IF progressRes # "ok" \/ ~ goesOn
          THEN /\ main' = "result" /\ sres' = IF progressRes # "ok" THEN progressRes ELSE readRes
               /\ tryMt' = TRUE
               /\ UNCHANGED <<faultVars, crossBlock, inBuf, outBufSize, tMode>>
          ELSE \E f \in MayFail("last") :
               /\ Failing(Count(f)) /\ Fatal(Kind(f, "last"))
               /\ main' = IF f THEN "result" ELSE "st"
               /\ sres' = IF f THEN "memory" ELSE "ok"
               /\ tryMt' = FALSE
               /\ tMode' = (numFilled # 0 \/ cross # <<>>)
               /\ crossBlock' = (crossBlock /\ cross # <<>>)
               /\ inBuf' = [t \in Thread |-> IF Filled(t) THEN inBuf[t] ELSE <<>>]
               /\ outBufSize' = [t \in Thread |-> None]
  /\ Goto(0, "none")
  /\ UNCHANGED <<input, calls, result, out, pos, readWasFinished, readRes, blockIndex, cross,
                 numStarted, startedLimit, outParsed, csVars, writerVars, canRead, canWrite,
                 filledVars, coder, loc, fresh>>

NoMoreIsFine(decoded, w) == "ok"                               \* mutant

\* The decoder wants more of a stream that has no more.
NoMore(decoded, w) == IF decoded = "more" /\ w = <<>> THEN "eof" ELSE "ok"

\* One round of Lzma2Dec_Decode_ST over the piece w; what it decodes is
\* written at once.  Reading w failed when e.
DecodePiece(w, e) ==
  LET d == Decode(input.kind, w, fresh, input.outSize - Len(out), input.finish)
  IN \E fails \in MayFail("write"), f \in MayFail("progress") :
       /\ ~ (fails /\ f) /\ (f => d.status = "more" /\ w # <<>>)
       /\ WriteOut(d.out, fails)
       /\ Failing(Count(e) + Count(fails \/ f))
       /\ Fatal(Kind(e, "read") \cup Kind(fails, "write") \cup Kind(f, "progress"))
       /\ inProcessed' = inProcessed + d.used
       /\ fresh' = (fresh /\ d.used = 0)
       /\ sres' = IF fails  THEN "write"
                  ELSE IF f THEN "progress"
                  ELSE IF \/ d.status = "error"
                          \/ d.status = "mark" /\ input.finish /\ input.outSize # Len(out')
                         THEN "data"
                  ELSE NoMore(d.status, w)
       /\ main' = IF d.status = "more" /\ sres' = "ok" THEN "st" ELSE "result"

callerRest == <<input, calls, result, tryMt, blockIndex, numStarted, startedLimit, outParsed,
                csVars, wasInterrupted, isAllocError, overflow, threadingError, exitThread,
                pc, canRead, canWrite, coder, loc, outBufSize>>

NextFilled(i) == IF i + 1 = numStarted THEN 0 ELSE i + 1

\* MtDec_Read: a link of the thread whose turn it is, of which there may be
\* several rounds; at its end the thread's other links are freed.
ReadFilled ==
  /\ main = "st" /\ tMode /\ numFilled # 0
  /\ LET t    == filledStart
         lim  == IF filledFirst[t] # 0 THEN filledFirst[t] ELSE Min({InBufSize, filledSize[t]})
         last == filledSize[t] = lim
     IN /\ DecodePiece(SubSeq(Head(inBuf[t]), 1, lim), FALSE)
        /\ filledFirst' = [filledFirst EXCEPT ![t] = 0]
        /\ filledSize' = [filledSize EXCEPT ![t] = @ - lim]
        /\ inBuf' = [inBuf EXCEPT ![t] = IF last THEN <<>> ELSE Tail(@)]
        /\ numFilled' = IF last THEN numFilled - 1 ELSE numFilled
        /\ filledStart' = IF last /\ numFilled > 1
                            THEN NextFilled(filledStart) ELSE filledStart
  /\ UNCHANGED <<callerRest, pos, readWasFinished, readRes, cross, crossBlock, tMode>>

ReadCross ==
  /\ main = "st" /\ tMode /\ numFilled = 0 /\ cross # <<>>
  /\ DecodePiece(cross, FALSE)
  /\ cross' = <<>>
  /\ UNCHANGED <<callerRest, pos, readWasFinished, readRes, crossBlock, filledStart, numFilled,
                 inBuf, filledVars, tMode>>

ReadNext ==
  /\ main = "st" /\ ~ (tMode /\ (numFilled # 0 \/ cross # <<>>))
  /\ IF readWasFinished
       THEN DecodePiece(<<>>, FALSE) /\ UNCHANGED <<pos, readWasFinished, readRes>>
       ELSE \E e \in MayFail("read"), n \in 0 .. Min({InBufSize, Rest}) :
              /\ n = 0 => e \/ Rest = 0
              /\ DecodePiece(Units(pos, n), e)
              /\ pos' = pos + n /\ readWasFinished' = (e \/ n = 0)
              /\ readRes' = IF e THEN "read" ELSE "ok"
  /\ tMode' = FALSE /\ crossBlock' = (crossBlock /\ ~ tMode)
  /\ UNCHANGED <<callerRest, cross, filledStart, numFilled, inBuf, filledVars>>

\* The end of Lzma2DecMt_Decode, and CDecoder::Code after it.
Finish ==
  /\ main = "result" /\ main' = "done"
  /\ LET res == IF sres \in {"ok", "eof"} /\ readRes # "ok" THEN readRes ELSE sres
         bad == \/ failed \cap {"progress", "write"} # {}
                \/ res # "ok"
                \/ input.finish /\ (Len(input.kind) # inProcessed \/ input.outSize # Len(out))
     IN sres' = res /\ result' = IF bad THEN "error" ELSE "ok"
  /\ UNCHANGED <<input, calls, tryMt, out, faultVars, readerVars, csVars, writerVars, pc, canRead,
                 canWrite, inBuf, filledVars, coder, loc, outBufSize, stVars>>

\* The same decoder gets another stream.
NextCall ==
  /\ main = "done" /\ calls < MaxCalls
  /\ main' = "start" /\ calls' = calls + 1 /\ result' = "none" /\ sres' = "ok"
  /\ input' \in Inputs
  /\ out' = <<>> /\ failures' = 0 /\ failed' = {}
  /\ UNCHANGED <<tryMt, readerVars, csVars, writerVars, pc, canRead, canWrite, inBuf, filledVars,
                 coder, loc, outBufSize, stVars>>

ThreadStep(t) ==
  \/ TakeRead(t) \/ NoLink(t) \/ TakeCross(t) \/ ReadStream(t) \/ ParseLink(t) \/ HandRead(t)
  \/ Code(t) \/ TakeWrite(t) \/ Write(t)

MainStep == Start \/ Return \/ ReadFilled \/ ReadCross \/ ReadNext \/ Finish

Terminating == main = "done" /\ calls = MaxCalls /\ UNCHANGED vars

Next == MainStep \/ NextCall \/ (\E t \in Thread : ThreadStep(t)) \/ Terminating

Spec == Init /\ [][Next]_vars

\* Threads that can run do run, and the caller waits for nothing else.
Fairness == WF_vars(MainStep) /\ \A t \in Thread : WF_vars(ThreadStep(t))

FairSpec == Spec /\ Fairness

-----------------------------------------------------------------------------
(* Properties. *)

\* Every variable keeps its type (CMtDec and CLzma2DecMt, C/MtDec.h:86): ring
\* indexes name started threads, and sizes agree with the links.
TypeOK ==
  /\ input \in Inputs /\ main \in MainPc /\ calls \in 1 .. MaxCalls
  /\ result \in {"none", "ok", "error"} /\ tryMt \in BOOLEAN
  /\ failures \in 0 .. MaxFaults /\ failed \subseteq FaultKinds
  /\ pos \in Nat /\ inProcessed \in 0 .. pos /\ readWasFinished \in BOOLEAN /\ crossBlock \in BOOLEAN
  /\ readRes \in {"ok", "read"} /\ progressRes \in {"ok", "progress"}
  /\ numStarted \in 0 .. ThreadsMax /\ startedLimit \in 1 .. ThreadsMax
  /\ filledStart \in Thread /\ numFilled \in 0 .. ThreadsMax
  /\ interrupt \in {None} \cup 1 .. blockIndex
  /\ pc \in [Thread -> ThreadPc] /\ canRead \in [Thread -> BOOLEAN]
  /\ canWrite \in [Thread -> BOOLEAN] /\ tMode \in BOOLEAN /\ fresh \in BOOLEAN
  /\ outParsed \in Nat /\ (main # "start" => pos <= Len(input.kind))

Reading(t) ==
  canRead[t] \/ pc[t] \in {"read", "parse", "hand"}
  \/ (loc[t].finish /\ pc[t] \in {"code", "waitWrite", "write"})
Writing(t) == canWrite[t] \/ pc[t] = "write"
Busy(t) == pc[t] \notin {"none", "waitRead", "ended"}

\* While the ring runs, exactly one thread has the right to read, at most one
\* the right to write, and the writer's block is older than every other block
\* at work; nobody is in the ring when MtDec_Code returns (MtDec.c:273, 581,
\* 664, 777-793).
RightsExclusive ==
  /\ main = "mt" /\ pc[0] # "ended" => \E t \in Thread : \A u \in Thread : Reading(u) <=> u = t
  /\ \A t, u \in Thread : Writing(t) /\ Writing(u) => t = u
  /\ \A t, u \in Thread : Writing(t) /\ Busy(t) /\ Busy(u) => loc[t].block <= loc[u].block
  /\ main # "mt" \/ pc[0] = "ended" =>
       \A t \in Thread : ~ Busy(t) /\ ~ canRead[t] /\ ~ canWrite[t]

\* What the threads hold, in the order in which MtDec_Read gives it.
Held ==
  FlattenSeq([i \in 1 .. numFilled |->
    LET t == (filledStart + i - 1) % numStarted IN Data(inBuf[t], filledFirst[t], filledSize[t])])

\* When the single thread takes over, and as long as it reads, the input the
\* threads hold, the cross block and the rest of the stream follow in this
\* order on what was decoded: no unit is lost, read twice or out of order.
\* Only what lies behind the end of decoding may be gone (MtDec.c:754-772,
\* 882-943).
NothingLost ==
  main = "st" =>
    LET kept == (IF tMode THEN Held \o cross ELSE <<>>)
    IN \/ kept \o Units(pos, Rest) = Units(inProcessed, Len(input.kind) - inProcessed)
       \/ /\ IsPrefix(kept, Units(inProcessed, Len(input.kind) - inProcessed))
          /\ Decode(input.kind, kept, fresh, input.outSize - Len(out), input.finish).status # "more"

\* The multi-thread decoder, with the single thread behind it, is a decoder of
\* the stream (Lzma2DecMt.c:802, Lzma2Decoder.cpp:84): the output is at every
\* moment a beginning of what the stream decodes to, success means all of it,
\* and lack of memory or threads in the ring is never an error.
Decoder ==
  INSTANCE StreamDecoder WITH
    goal    <- Ideal(input.kind, input.outSize, input.finish).out,
    verdict <- Verdict(input.kind, input.outSize, input.finish),
    strict  <- input.finish,
    failed  <- failed # {},
    status  <- IF result = "none" THEN "run" ELSE result
ImplementsDecoder == Decoder!DSpec

\* Lzma2DecMt.h:53 says of finishMode "1 - if lzma2 stream must be finished":
\* a call with it succeeds only for a stream with its end mark.
FinishedIsMarked ==
  result = "ok" /\ input.finish => Verdict(input.kind, input.outSize, TRUE) = "good"

\* Every call returns: no right is lost on any path of errors, and the single
\* thread comes to an end.
CallReturns == (main = "start") ~> (main = "done")
=============================================================================
