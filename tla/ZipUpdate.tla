----------------------------- MODULE ZipUpdate -----------------------------
(***************************************************************************)
(* The multi-thread update of a zip archive: Update2 of                    *)
(* CPP/7zip/Archive/Zip/ZipUpdate.cpp with COutMemStream and the pool of   *)
(* memory blocks below it (CPP/7zip/Common/OutMemStream.cpp,               *)
(* MemBlocks.cpp) and COutArchive above the archive's stream.              *)
(*                                                                         *)
(* The main thread hands files to threads ahead of time and writes the     *)
(* archive in the order of the items.  The thread of the item that is due  *)
(* (the front) may write to the archive itself, from where it needs one    *)
(* more block on; the others collect what they write in blocks of one      *)
(* pool and wait when it is empty.  What they have written is detached     *)
(* when they finish, and copied when the item is due.                      *)
(*                                                                         *)
(* A coder writes units, one per call of Write; a header is one unit.  The *)
(* archive's stream is the CCacheOutStream that Update puts in front of    *)
(* it: once a write failed, all later ones do (_hres).  Items of the old   *)
(* archive stand for everything main writes on its own.                    *)
(***************************************************************************)
EXTENDS Integers, SequencesExt, FiniteSetsExt

CONSTANTS
  Requests,     \* updateItems: sequences over Kinds
  NumThreads,   \* threads.Threads
  Pools,        \* numbers of blocks AllocateSpaceAlways can get
  BlockSize,    \* of a block, in units
  Sizes,        \* what a coder can write in one pass, in units
  NumMethods,   \* _options.MethodSequence.Size()
  SeqModes,     \* outSeqMode
  Faults,       \* what can fail: a subset of FaultKinds
  MaxFaults     \* bound: failures in one update

Kinds == {"file", "old"}
FaultKinds == {"stream", "code", "write", "close"}

ASSUME ZipUpdateAssumption ==
  /\ NumThreads \in Nat \ {0} /\ Pools \subseteq Nat /\ BlockSize \in Nat \ {0}
  /\ Sizes \subseteq Nat /\ Sizes # {} /\ IsFiniteSet(Sizes) /\ NumMethods \in Nat \ {0}
  /\ SeqModes \subseteq BOOLEAN /\ Faults \subseteq FaultKinds /\ MaxFaults \in Nat
  /\ \A r \in Requests : r \in Seq(Kinds)

Thread == 1 .. NumThreads
None == 0

VARIABLES
  items, seqOut, pool,             \* the request, outSeqMode, blocks in all
  \* locals of Update2
  main, itemIndex, mtItemIndex, threadIndices,
  refs,                            \* CMemRefs: what is known of each item
  lastReal,                        \* lastRealStreamItemIndex
  result, failures, stopping,      \* stopping: the thread StopWait_Close is at
  \* COutArchive and the stream under it
  file, pos, hres, curPos, headerPos,
  \* CMtSem and CMemBlockManagerMt
  ready, readySem, freeBlocks, poolSem,
  \* CThreadInfo
  pc, info,
  stream,                          \* COutMemStream
  packed                           \* history: what the coder said of an item

requestVars == <<items, seqOut, pool>>
mainVars    == <<main, itemIndex, mtItemIndex, threadIndices, refs, lastReal, result, stopping>>
archiveVars == <<file, pos, hres, curPos, headerPos>>
poolVars    == <<freeBlocks, poolSem>>
semVars     == <<ready, readySem>>
threadVars  == <<pc, info, stream, packed>>
vars == <<requestVars, mainVars, failures, archiveVars, poolVars, semVars, threadVars>>

MainPc == {"loop", "wait", "stop", "join", "done"}
ThreadPc == {"idle", "code", "alloc", "release", "post", "ended"}
Results == {"none", "ok", "stream", "code", "write", "abort", "internal"}

NoRef == [skip |-> FALSE, finished |-> FALSE, seq |-> FALSE, pack |-> 0, blocks |-> 0,
          mem |-> <<>>, total |-> 0]
NoInfo == [free |-> TRUE, exit |-> FALSE, compress |-> FALSE, item |-> None, seq |-> FALSE,
           pass |-> 1, n |-> 0, size |-> 0, result |-> "ok", pack |-> 0]
NoStream == [blocks |-> 0, mem |-> <<>>, total |-> 0, cur |-> 0, real |-> FALSE,
             unlocked |-> FALSE, toReal |-> FALSE, stop |-> FALSE, offset |-> 0]

Init ==
  /\ items \in Requests /\ seqOut \in SeqModes /\ pool \in Pools
  /\ main = "loop" /\ itemIndex = 1 /\ mtItemIndex = 1 /\ threadIndices = <<>>
  /\ refs = [i \in DOMAIN items |-> NoRef] /\ lastReal = 0 /\ result = "none"
  /\ failures = 0 /\ stopping = 0
  /\ file = <<>> /\ pos = 0 /\ hres = "ok" /\ curPos = 0 /\ headerPos = 0
  /\ ready = <<>> /\ readySem = 0 /\ freeBlocks = pool /\ poolSem = pool
  /\ pc = [t \in Thread |-> "idle"] /\ info = [t \in Thread |-> NoInfo]
  /\ stream = [t \in Thread |-> NoStream]
  /\ packed = [i \in DOMAIN items |-> [pass |-> 0, pack |-> 0]]

-----------------------------------------------------------------------------
(* The archive's contents. *)

Fill == [kind |-> "zero", item |-> None, pass |-> 0, n |-> 0]
Unit(i, p, k) == [kind |-> "data", item |-> i, pass |-> p, n |-> k]
Units(i, p, n) == [k \in 1 .. n |-> Unit(i, p, k)]
OldData(i) == [kind |-> "old", item |-> i, pass |-> 0, n |-> 1]
CentralDir == [kind |-> "central", item |-> None, pass |-> 0, n |-> 0]

\* DescriptorMode of Compress and Set_Pre_CompressionResult: ZipCrypto needs
\* the CRC before the data, or a descriptor behind them.
Descriptor(seq) == seqOut \/ seq

\* With a descriptor the local header has no sizes.
Header(i, d, pack) == [kind |-> "head", item |-> i, pass |-> 0, n |-> IF d THEN -1 ELSE pack]
PreHeader(i, d) == Header(i, d, -1)
Trailer(i, d, pack) ==
  IF d THEN <<[kind |-> "descr", item |-> i, pass |-> 0, n |-> pack]>> ELSE <<>>

\* A file after writing s at position p, and cut to a length.
Put(f, p, s) ==
  [k \in 1 .. Max({Len(f), p + Len(s)}) |->
     IF k \in p + 1 .. p + Len(s) THEN s[k - p] ELSE IF k <= Len(f) THEN f[k] ELSE Fill]
Cut(f, n) == SubSeq(f, 1, n)

MayFail(k) == k \in Faults /\ failures < MaxFaults

\* A write fails by itself or because one failed before.
WriteFails ==
  /\ \/ hres # "ok" /\ UNCHANGED failures
     \/ hres = "ok" /\ MayFail("write") /\ failures' = failures + 1
  /\ hres' = "write"
  /\ UNCHANGED <<file, pos>>

WriteAt(p, s) ==
  /\ hres = "ok"
  /\ file' = Put(file, p, s) /\ pos' = p + Len(s)
  /\ UNCHANGED <<hres, failures>>

-----------------------------------------------------------------------------
(* CMemBlockManagerMt and COutMemStream. *)

\* FreeBlock: into the list, then the semaphore.
FreeTo(n) == freeBlocks' = freeBlocks + n /\ poolSem' = poolSem + n

\* Blocks a Detach keeps: those that begin before TotalSize.
Kept(s) == Cardinality({b \in 0 .. s.blocks - 1 : b * BlockSize < s.total})
SurplusAll(s) == s.blocks                                               \* mutant
Surplus(s) == s.blocks - Kept(s)

\* WriteToStream has a block for every unit.
HasAll(s) == s.total <= s.blocks * BlockSize
Collected(s) == SubSeq(s.mem, 1, s.total)

\* memcpy at the current position.
Remember(s, u) ==
  [s EXCEPT !.mem = Put(@, s.cur, <<u>>), !.cur = @ + 1, !.total = Max({@, s.cur + 1})]
HasRoom(s) == s.cur < s.blocks * BlockSize

\* COutMemStream::Init.
FreshStillUnlocked(s) ==                                                \* mutant
  [NoStream EXCEPT !.stop = s.stop, !.unlocked = s.unlocked]
Fresh(s) == [NoStream EXCEPT !.stop = s.stop]

\* Seek to the begin and SetSize(0) of the memory stream, before another pass.
RewindKeepsSize(s) == [s EXCEPT !.cur = 0]                              \* mutant
RewindKeepsPos(s) == [s EXCEPT !.total = 0]                             \* mutant
Rewind(s) == [s EXCEPT !.cur = 0, !.total = 0]

\* CMemBlocks::Free, of a stream or of a finished item: no blocks, no data.
Emptied(s) == [s EXCEPT !.blocks = 0, !.mem = <<>>, !.total = 0]

-----------------------------------------------------------------------------
(* Update2: starting threads ahead. *)

NumItems == Len(items)

\* A return out of the loop, or an exception; the destructors come next.
Leave(r) == main' = "stop" /\ result' = r /\ stopping' = 1
GoOn(l)  == main' = l /\ UNCHANGED <<result, stopping>>
NextItem == itemIndex' = itemIndex + 1 /\ GoOn("loop")

MayStart == Len(threadIndices) < NumThreads /\ mtItemIndex <= NumItems
FreeThreads == {t \in Thread : info[t].free}

\* Items without a new file, and files that GetStream leaves out.
PassOver ==
  /\ main = "loop" /\ itemIndex <= NumItems /\ MayStart
  /\ mtItemIndex' = mtItemIndex + 1
  /\ \/ items[mtItemIndex] = "old" /\ UNCHANGED refs
     \/ items[mtItemIndex] = "file" /\ refs' = [refs EXCEPT ![mtItemIndex].skip = TRUE]
  /\ UNCHANGED <<requestVars, main, itemIndex, threadIndices, lastReal, result, stopping, failures,
                 archiveVars, poolVars, semVars, threadVars>>

\* GetStream fails, or no thread is free.
CannotStart ==
  /\ main = "loop" /\ itemIndex <= NumItems /\ MayStart /\ items[mtItemIndex] = "file"
  /\ mtItemIndex' = mtItemIndex + 1
  /\ \/ MayFail("stream") /\ failures' = failures + 1 /\ Leave("stream")
     \/ FreeThreads = {} /\ Leave("internal") /\ UNCHANGED failures
  /\ UNCHANGED <<requestVars, itemIndex, threadIndices, refs, lastReal, archiveVars, poolVars,
                 semVars, threadVars>>

\* What main sets before CompressEvent.Set.
Given(i, item, seq) ==
  [i EXCEPT !.free = FALSE, !.item = item, !.seq = seq, !.compress = TRUE]

StartFile ==
  /\ main = "loop" /\ itemIndex <= NumItems /\ MayStart /\ items[mtItemIndex] = "file"
  /\ FreeThreads # {}
  /\ LET t == Min(FreeThreads) IN
       \E seq \in BOOLEAN :
         /\ refs' = [refs EXCEPT ![mtItemIndex].seq = seq]
         /\ info' = [info EXCEPT ![t] = Given(@, mtItemIndex, seq)]
         /\ stream' = [stream EXCEPT ![t] = Fresh(@)]
         /\ FreeTo(stream[t].blocks)
         /\ threadIndices' = Append(threadIndices, t)
  /\ mtItemIndex' = mtItemIndex + 1
  /\ UNCHANGED <<requestVars, main, itemIndex, lastReal, result, stopping, failures, archiveVars,
                 semVars, pc, packed>>

-----------------------------------------------------------------------------
(* Update2: the item that is due. *)

Due(k) == main = "loop" /\ itemIndex <= NumItems /\ ~ MayStart /\ items[itemIndex] = k

SkipItem ==
  /\ Due("file") /\ refs[itemIndex].skip
  /\ NextItem
  /\ UNCHANGED <<requestVars, mtItemIndex, threadIndices, refs, lastReal, failures, archiveVars,
                 poolVars, semVars, threadVars>>

\* UpdateItemOldData, and in the same way what WriteDirHeader does.
CopyOld ==
  /\ Due("old")
  /\ \/ /\ WriteAt(pos, <<Header(itemIndex, FALSE, 1), OldData(itemIndex)>>)
        /\ headerPos' = curPos /\ curPos' = curPos + 2
        /\ NextItem
     \/ WriteFails /\ Leave("write") /\ UNCHANGED <<itemIndex, curPos, headerPos>>
     \/ /\ MayFail("stream") /\ failures' = failures + 1 /\ Leave("stream")
        /\ UNCHANGED <<itemIndex, archiveVars>>
  /\ UNCHANGED <<requestVars, mtItemIndex, threadIndices, refs, lastReal, poolVars, semVars,
                 threadVars>>

\* A file that was finished before its turn.  The result of the copy is not
\* looked at; what comes after it fails if it failed.
CopyFinished ==
  /\ Due("file") /\ ~ refs[itemIndex].skip /\ refs[itemIndex].finished
  /\ LET r == refs[itemIndex]
         d == Descriptor(r.seq)
         tail == Trailer(itemIndex, d, r.pack)
     IN \/ /\ \/ WriteAt(pos, <<Header(itemIndex, d, r.pack)>> \o Collected(r) \o tail)
              \/ WriteFails /\ Collected(r) # <<>> /\ hres = "ok" /\ ~ d
           /\ headerPos' = curPos /\ curPos' = curPos + 1 + r.pack + Len(tail)
           /\ refs' = [refs EXCEPT ![itemIndex] = Emptied(@)]
           /\ FreeTo(r.blocks)
           /\ lastReal' = Max({lastReal, itemIndex})
           /\ NextItem
        \/ /\ WriteFails /\ Leave("write")
           /\ UNCHANGED <<itemIndex, refs, lastReal, curPos, headerPos, poolVars>>
  /\ UNCHANGED <<requestVars, mtItemIndex, threadIndices, semVars, threadVars>>

\* The front may write to the archive from now on.
Unlocked(s, at) ==
  IF s.unlocked THEN s ELSE [s EXCEPT !.unlocked = TRUE, !.toReal = TRUE, !.offset = at]
Unlock(t, at) == stream' = [stream EXCEPT ![t] = Unlocked(@, at)]

OpenFront ==
  /\ Due("file") /\ ~ refs[itemIndex].skip /\ ~ refs[itemIndex].finished
  /\ \/ /\ lastReal < itemIndex /\ threadIndices # <<>>
        /\ WriteAt(pos, <<PreHeader(itemIndex, Descriptor(refs[itemIndex].seq))>>)
        /\ headerPos' = curPos /\ curPos' = curPos + 1 /\ lastReal' = itemIndex
        /\ Unlock(Head(threadIndices), curPos') /\ GoOn("wait")
     \/ /\ lastReal >= itemIndex /\ threadIndices # <<>>
        /\ Unlock(Head(threadIndices), curPos) /\ GoOn("wait")
        /\ UNCHANGED <<archiveVars, failures, lastReal>>
     \/ /\ lastReal < itemIndex /\ WriteFails /\ Leave("write")
        /\ UNCHANGED <<curPos, headerPos, lastReal, stream>>
     \/ /\ threadIndices = <<>> /\ Leave("internal")
        /\ UNCHANGED <<archiveVars, failures, lastReal, stream>>
  /\ UNCHANGED <<requestVars, itemIndex, mtItemIndex, threadIndices, refs, poolVars, semVars, pc,
                 info, packed>>

-----------------------------------------------------------------------------
(* Update2: a thread has finished. *)

\* The position of t in threadIndices.
At(t) == SelectInSeq(threadIndices, LAMBDA u : u = t)
RemovedFront(t) == Tail(threadIndices)                                  \* mutant
Removed(t) == RemoveAt(threadIndices, At(t))

\* The front is written to its end: what is still in blocks, then the real
\* header over the first one, or the descriptor.
FrontDone(t) ==
  LET i == itemIndex
      s == stream[t]
      d == Descriptor(info[t].seq)
      data == Collected(s)
      end  == headerPos + 1 + info[t].pack
  IN /\ threadIndices' = Removed(t)
     /\ \/ /\ info[t].item = i /\ d = Descriptor(refs[i].seq) /\ HasAll(s) /\ hres = "ok"
           /\ LET f == Put(file, pos, data)
              IN IF d THEN /\ file' = Put(f, pos + Len(data), Trailer(i, d, info[t].pack))
                           /\ pos' = pos + Len(data) + 1 /\ curPos' = end + 1
                      ELSE /\ file' = Put(f, headerPos, <<Header(i, d, info[t].pack)>>)
                           /\ pos' = end /\ curPos' = end
           /\ stream' = [stream EXCEPT ![t] = Emptied(@)]
           /\ FreeTo(s.blocks)
           /\ NextItem
           /\ UNCHANGED <<hres, failures>>
        \/ /\ info[t].item = i /\ d = Descriptor(refs[i].seq) /\ HasAll(s)
           /\ WriteFails /\ Leave("write")
           /\ UNCHANGED <<itemIndex, curPos, stream, poolVars>>
        \/ /\ info[t].item # i \/ d # Descriptor(refs[i].seq) \/ ~ HasAll(s)
           /\ Leave("internal")
           /\ UNCHANGED <<itemIndex, failures, file, pos, hres, curPos, stream, poolVars>>
     /\ UNCHANGED <<refs, headerPos>>

\* DetachData: CMemLockBlocks::Detach.
Detached(r, s, pack) ==
  [r EXCEPT !.finished = TRUE, !.pack = pack, !.blocks = Kept(s), !.total = s.total,
            !.mem = SubSeq(s.mem, 1, Min({Len(s.mem), Kept(s) * BlockSize}))]

\* Another one is detached from its thread, with the blocks it needs.
OtherDone(t) ==
  /\ threadIndices' = Removed(t)
  /\ refs' = [refs EXCEPT ![info[t].item] = Detached(@, stream[t], info[t].pack)]
  /\ stream' = [stream EXCEPT ![t] = Emptied(@)]
  /\ FreeTo(Surplus(stream[t]))
  /\ GoOn("loop")
  /\ UNCHANGED <<itemIndex, failures, archiveVars>>

\* Semaphore.Lock, GetFreeItem, and what becomes of the item.
Collect ==
  /\ main = "wait" /\ readySem > 0
  /\ readySem' = readySem - 1
  /\ IF ready = <<>>
     THEN /\ Leave("internal")
          /\ UNCHANGED <<ready, itemIndex, threadIndices, refs, failures, archiveVars, poolVars, info,
                         stream>>
     ELSE LET t == Head(ready)
          IN /\ ready' = Tail(ready)
             /\ info' = [info EXCEPT ![t].free = TRUE]
             /\ \/ /\ info[t].result = "ok" /\ At(t) = 1 /\ FrontDone(t)
                \/ /\ info[t].result = "ok" /\ At(t) > 1 /\ OtherDone(t)
                \/ /\ info[t].result # "ok" \/ At(t) = 0
                   /\ Leave(IF info[t].result # "ok" THEN info[t].result ELSE "internal")
                   /\ UNCHANGED <<itemIndex, threadIndices, refs, failures, archiveVars,
                                  poolVars, stream>>
  /\ UNCHANGED <<requestVars, mtItemIndex, lastReal, pc, packed>>

-----------------------------------------------------------------------------
(* Update2 and Update: the end. *)

WriteCentralDir ==
  /\ main = "loop" /\ itemIndex > NumItems
  /\ \/ WriteAt(pos, <<CentralDir>>) /\ curPos' = curPos + 1 /\ Leave("ok")
     \/ WriteFails /\ Leave("write") /\ UNCHANGED curPos
  /\ UNCHANGED <<requestVars, itemIndex, mtItemIndex, threadIndices, refs, lastReal, headerPos,
                 poolVars, semVars, threadVars>>

\* ~CThreads: StopWait_Close of each thread.
Exiting(i) == [i EXCEPT !.exit = TRUE, !.compress = TRUE]

StopThread ==
  /\ main = "stop"
  /\ info' = [info EXCEPT ![stopping] = Exiting(@)]
  /\ stream' = [stream EXCEPT ![stopping].stop = TRUE]
  /\ main' = "join"
  /\ UNCHANGED <<requestVars, itemIndex, mtItemIndex, threadIndices, refs, lastReal, result,
                 stopping, failures, archiveVars, poolVars, semVars, pc, packed>>

\* After the last one the cache is flushed, unless Update2 failed.
JoinThread ==
  /\ main = "join" /\ pc[stopping] = "ended"
  /\ \/ /\ stopping < NumThreads
        /\ main' = "stop" /\ stopping' = stopping + 1
        /\ UNCHANGED <<result, failures, hres>>
     \/ /\ stopping = NumThreads /\ main' = "done"
        /\ \/ /\ result' = IF result = "ok" THEN hres ELSE result
              /\ UNCHANGED <<failures, hres>>
           \/ /\ result = "ok" /\ hres = "ok" /\ MayFail("close")
              /\ failures' = failures + 1 /\ hres' = "write" /\ result' = "write"
        /\ UNCHANGED stopping
  /\ UNCHANGED <<requestVars, itemIndex, mtItemIndex, threadIndices, refs, lastReal, file, pos,
                 curPos, headerPos, poolVars, semVars, threadVars>>

-----------------------------------------------------------------------------
(* CThreadInfo::WaitAndCode with CAddCommon::Compress and COutMemStream. *)

Goto(t, l) == pc' = [pc EXCEPT ![t] = l]

\* A pass of Compress's loop begins, in which the coder writes k units.
OnPass(i, p, k) == [i EXCEPT !.pass = p, !.n = 0, !.size = k]

Begun(i, k) == [OnPass(i, 1, k) EXCEPT !.compress = FALSE]

\* CompressEvent.Lock, then ExitThread.
Begin(t) ==
  /\ pc[t] = "idle" /\ info[t].compress
  /\ \/ /\ info[t].exit /\ info' = [info EXCEPT ![t].compress = FALSE] /\ Goto(t, "ended")
     \/ /\ ~ info[t].exit /\ Goto(t, "code")
        /\ \E k \in Sizes :
             info' = [info EXCEPT ![t] = Begun(@, k)]
  /\ UNCHANGED <<requestVars, mainVars, failures, archiveVars, poolVars, semVars, stream, packed>>

\* Compress returns r.
Returned(i, r) == [i EXCEPT !.result = r, !.n = 0, !.size = 0]
Returns(t, r) == info' = [info EXCEPT ![t] = Returned(@, r)] /\ Goto(t, "release")
Wrote(t) == info' = [info EXCEPT ![t].n = @ + 1] /\ UNCHANGED pc

Coding(t) == pc[t] = "code" /\ info[t].n < info[t].size
AtEnd(t) == pc[t] = "code" /\ info[t].n = info[t].size
Next1(t) == Unit(info[t].item, info[t].pass, info[t].n + 1)

\* Write into a block that is there.
WriteBlock(t) ==
  /\ Coding(t) /\ ~ stream[t].real /\ HasRoom(stream[t])
  /\ stream' = [stream EXCEPT ![t] = Remember(@, Next1(t))]
  /\ Wrote(t)
  /\ UNCHANGED <<requestVars, mainVars, failures, archiveVars, poolVars, semVars, packed>>

\* Write in real stream mode.
WriteReal(t) ==
  /\ Coding(t) /\ stream[t].real
  /\ \/ WriteAt(pos, <<Next1(t)>>) /\ Wrote(t)
     \/ WriteFails /\ Returns(t, "write")
  /\ UNCHANGED <<requestVars, mainVars, curPos, headerPos, poolVars, semVars, stream, packed>>

\* No room: WaitForMultiObj_Any_Infinite looks at its three objects in order.
MustWait(t) == Coding(t) /\ ~ stream[t].real /\ ~ HasRoom(stream[t])

WaitStop(t) ==
  /\ MustWait(t) /\ stream[t].stop
  /\ stream' = [stream EXCEPT ![t].stop = FALSE]
  /\ Returns(t, "abort")
  /\ UNCHANGED <<requestVars, mainVars, failures, archiveVars, poolVars, semVars, packed>>

ToReal(s) == [s EXCEPT !.toReal = FALSE, !.real = TRUE]

WaitReal(t) ==
  /\ MustWait(t) /\ ~ stream[t].stop /\ stream[t].toReal
  /\ LET s == ToReal(stream[t])
     IN \/ /\ HasAll(s)
           /\ WriteAt(pos, Collected(s) \o <<Next1(t)>>)
           /\ stream' = [stream EXCEPT ![t] = Emptied(s)] /\ FreeTo(s.blocks)
           /\ Wrote(t)
        \/ /\ HasAll(s)
           /\ WriteFails /\ Returns(t, "write")
           /\ \/ s.total > 0 /\ stream' = [stream EXCEPT ![t] = s] /\ UNCHANGED poolVars
              \/ stream' = [stream EXCEPT ![t] = Emptied(s)] /\ FreeTo(s.blocks)
        \/ /\ ~ HasAll(s)
           /\ stream' = [stream EXCEPT ![t] = s] /\ Returns(t, "internal")
           /\ UNCHANGED <<failures, file, pos, hres, poolVars>>
  /\ UNCHANGED <<requestVars, mainVars, curPos, headerPos, semVars, packed>>

WaitBlock(t) ==
  /\ MustWait(t) /\ ~ stream[t].stop /\ ~ stream[t].toReal /\ poolSem > 0
  /\ poolSem' = poolSem - 1
  /\ Goto(t, "alloc")
  /\ UNCHANGED <<requestVars, mainVars, failures, archiveVars, freeBlocks, semVars, info, stream,
                 packed>>

AllocateBlock(t) ==
  /\ pc[t] = "alloc"
  /\ \/ /\ freeBlocks > 0
        /\ freeBlocks' = freeBlocks - 1
        /\ stream' = [stream EXCEPT ![t].blocks = @ + 1]
        /\ Goto(t, "code") /\ UNCHANGED info
     \/ freeBlocks = 0 /\ Returns(t, "internal") /\ UNCHANGED <<freeBlocks, stream>>
  /\ UNCHANGED <<requestVars, mainVars, failures, archiveVars, poolSem, semVars, packed>>

\* The coder has written all of a pass.  PackSize is the position Seek tells.
PackSize(t) == IF stream[t].real THEN pos - stream[t].offset ELSE stream[t].cur
Passes(seq) == IF seq \/ seqOut THEN 1 ELSE NumMethods

Coded(i, pack) == [Returned(i, "ok") EXCEPT !.pack = pack]

PassEnds(t) ==
  /\ AtEnd(t)
  /\ info' = [info EXCEPT ![t] = Coded(@, PackSize(t))]
  /\ packed' = [packed EXCEPT ![info[t].item] = [pass |-> info[t].pass, pack |-> info[t].n]]
  /\ Goto(t, "release")
  /\ UNCHANGED <<requestVars, mainVars, failures, archiveVars, poolVars, semVars, stream>>

NextMethod(t) ==
  \E k \in Sizes : info' = [info EXCEPT ![t] = OnPass(@, @.pass + 1, k)]

\* The result was not smaller than the file: the next method, from the begin.
NextPass(t) ==
  /\ AtEnd(t) /\ info[t].pass < Passes(info[t].seq)
  /\ \/ /\ ~ stream[t].real
        /\ stream' = [stream EXCEPT ![t] = Rewind(@)]
        /\ NextMethod(t)
        /\ UNCHANGED <<failures, file, pos, hres, pc>>
     \/ /\ stream[t].real /\ hres = "ok"
        /\ file' = Cut(file, stream[t].offset) /\ pos' = stream[t].offset
        /\ NextMethod(t)
        /\ UNCHANGED <<failures, hres, pc, stream>>
     \/ /\ stream[t].real /\ WriteFails /\ Returns(t, "write") /\ UNCHANGED stream
  /\ UNCHANGED <<requestVars, mainVars, curPos, headerPos, poolVars, semVars, packed>>

\* The coder fails, outside a call of Write that waits.
CodeFails(t) ==
  /\ pc[t] = "code" /\ ~ MustWait(t) /\ MayFail("code") /\ failures' = failures + 1
  /\ Returns(t, "code")
  /\ UNCHANGED <<requestVars, mainVars, archiveVars, poolVars, semVars, stream, packed>>

\* CMtSem::ReleaseItem: into the list, then the semaphore.
ReleaseItem(t) ==
  /\ pc[t] = "release"
  /\ ready' = <<t>> \o ready
  /\ Goto(t, "post")
  /\ UNCHANGED <<requestVars, mainVars, failures, archiveVars, poolVars, readySem, info, stream,
                 packed>>

Post(t) ==
  /\ pc[t] = "post"
  /\ readySem' = readySem + 1
  /\ Goto(t, "idle")
  /\ UNCHANGED <<requestVars, mainVars, failures, archiveVars, poolVars, ready, info, stream,
                 packed>>

-----------------------------------------------------------------------------
MainStep ==
  \/ PassOver \/ CannotStart \/ StartFile
  \/ SkipItem \/ CopyOld \/ CopyFinished \/ OpenFront
  \/ Collect \/ WriteCentralDir \/ StopThread \/ JoinThread

ThreadStep(t) ==
  \/ Begin(t) \/ WriteBlock(t) \/ WriteReal(t) \/ WaitStop(t) \/ WaitReal(t) \/ WaitBlock(t)
  \/ AllocateBlock(t) \/ PassEnds(t) \/ NextPass(t) \/ CodeFails(t) \/ ReleaseItem(t) \/ Post(t)

Terminating == main = "done" /\ UNCHANGED vars

Next == MainStep \/ (\E t \in Thread : ThreadStep(t)) \/ Terminating

Spec == Init /\ [][Next]_vars

\* Both sides run when they can; a coder ends, as its output is bounded.
Fairness == WF_vars(MainStep) /\ \A t \in Thread : WF_vars(ThreadStep(t))

FairSpec == Spec /\ Fairness

-----------------------------------------------------------------------------
(* Properties. *)

\* Every variable keeps its type (ZipUpdate.cpp:1251, OutMemStream.h:17): the
\* semaphores stay within their maximum, positions within their stream.
TypeOK ==
  /\ items \in Requests /\ seqOut \in SeqModes /\ pool \in Pools
  /\ main \in MainPc /\ itemIndex \in 1 .. NumItems + 1 /\ mtItemIndex \in 1 .. NumItems + 1
  /\ threadIndices \in Seq(Thread) /\ ready \in Seq(Thread)
  /\ lastReal \in 0 .. NumItems /\ result \in Results /\ failures \in 0 .. MaxFaults
  /\ readySem \in 0 .. NumThreads /\ poolSem \in 0 .. pool /\ freeBlocks \in 0 .. pool
  /\ pos \in 0 .. Len(file) /\ curPos \in Nat /\ headerPos \in 0 .. curPos
  /\ pc \in [Thread -> ThreadPc]
  /\ \A t \in Thread :
       /\ stream[t].blocks \in 0 .. pool /\ stream[t].cur \in 0 .. Max(Sizes)
       /\ info[t].result \in Results \ {"none"} /\ info[t].item \in 0 .. NumItems
  /\ \A i \in 1 .. NumItems : refs[i].blocks \in 0 .. pool

\* What the code takes for impossible is impossible (ZipUpdate.cpp:1361, 1515,
\* 1527, 1538, 1541; OutMemStream.cpp:115; MemBlocks.cpp:159): there is a free
\* thread to start, a thread to take when the semaphore was passed, the front is
\* the item that is due, a block after the pool's semaphore, and a block for
\* every byte that is said to be collected.
NoInternalError ==
  /\ result # "internal" /\ \A t \in Thread : info[t].result # "internal"
  /\ \A i \in 1 .. NumItems : HasAll(refs[i])

\* The blocks of n[1] to n[m].
BlocksIn(n, m) ==
  LET sum[k \in 0 .. m] == IF k = 0 THEN 0 ELSE sum[k - 1] + n[k].blocks IN sum[m]

\* No block of the pool is lost or given out twice while threads, main and the
\* array of finished items pass them on (MemBlocks.cpp:113-130, 167-215): they are
\* free, with a stream, or with an item; and who passed the semaphore finds one.
PoolSound ==
  /\ freeBlocks + BlocksIn(stream, NumThreads) + BlocksIn(refs, NumItems) = pool
  /\ poolSem + Cardinality({t \in Thread : pc[t] = "alloc"}) = freeBlocks

\* What the archive holds of item i.
Entry(i) ==
  CASE items[i] = "old" -> <<Header(i, FALSE, 1), OldData(i)>>
    [] items[i] = "file" /\ refs[i].skip -> <<>>
    [] OTHER -> LET d == Descriptor(refs[i].seq)
                IN <<Header(i, d, packed[i].pack)>>
                     \o Units(i, packed[i].pass, packed[i].pack) \o Trailer(i, d, packed[i].pack)
Entries(n) == FlattenSeq([i \in 1 .. n |-> Entry(i)])

\* Between two items the archive is exactly the entries of the items before,
\* each with the data its coder wrote in its last pass and nothing else, and both
\* positions are at its end (ZipUpdate.cpp:1401-1580).
Settled == file = Entries(itemIndex - 1) /\ pos = Len(file) /\ curPos = Len(file)

\* From the header of the item that is due until it is whole, only the thread of
\* that item has written to the archive, behind that header, and what it has
\* written is in place (ZipUpdate.cpp:1494-1549; OutMemStream.cpp:32-37, 83-92).
FrontOnly ==
  LET t == Head(threadIndices)
      done == Entries(itemIndex - 1) \o <<PreHeader(itemIndex, Descriptor(refs[itemIndex].seq))>>
      n == Len(file) - Len(done)
  IN /\ n \in 0 .. Max(Sizes) /\ (n > 0 => stream[t].real)
     /\ file = done \o Units(itemIndex, info[t].pass, n)
     /\ curPos = Len(done)

\* The archive has every entry in the order of the items, whole, at every
\* moment, as long as no write to it failed; and the update says so only then,
\* although the result of copying a finished item is not looked at
\* (ZipUpdate.cpp:1451).
ArchiveRight ==
  /\ hres = "ok" =>
       /\ main = "loop" /\ lastReal < itemIndex => Settled
       /\ main \in {"loop", "wait"} /\ lastReal = itemIndex => FrontOnly
  /\ result = "ok" /\ main = "done" =>
       hres = "ok" /\ file = Entries(NumItems) \o <<CentralDir>>

\* An update comes to an end, with all threads joined, whatever fails and however
\* few blocks there are (ZipUpdate.cpp:1509; OutMemStream.cpp:72-75): the thread that
\* main waits for never waits for a block that only a later item could give back.
UpdateReturns == <>(main = "done")
=============================================================================
