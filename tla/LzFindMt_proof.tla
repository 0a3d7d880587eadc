--------------------------- MODULE LzFindMt_proof ---------------------------
(* Proofs about LzFindMt: the two CMtSync keep the data locked, stop cleanly *)
(* and lose no block; positions, pointers and the buffer agree over its      *)
(* moves; the whole is a match finder. For every size of blocks, rings and   *)
(* streams, every choice of calls by the encoder and every failure.          *)
EXTENDS LzFindMt, TLAPS

-----------------------------------------------------------------------------
(* The inductive invariant: what the flags of a CMtSync say about the place  *)
(* of its producer and of its user.                                          *)

ControlTypes ==
  /\ needStart \in [Sync -> BOOLEAN] /\ csWasEntered \in [Sync -> BOOLEAN]
  /\ exit \in [Sync -> BOOLEAN] /\ stopWriting \in [Sync -> BOOLEAN]
  /\ canStart \in [Sync -> BOOLEAN] /\ wasStopped \in [Sync -> BOOLEAN]
  /\ created \in [Sync -> BOOLEAN]
  /\ free \in [Sync -> Nat] /\ filled \in [Sync -> Nat]
  /\ cs \in [Sync -> {"none", "hash", "bt", "lz"}]
  /\ hashPc \in HashPc /\ btPc \in BtPc /\ lzPc \in LzPc

\* The critical sections: beside their users only the hash thread enters one.
Sections ==
  /\ BufferLocked
  /\ hashPc = "enter" <=> cs["bt"] = "hash"
  /\ cs["hash"] \in {"none", "bt"} /\ cs["bt"] # "bt"

\* A thread that does not exist, or no longer, and whom that can be seen by.
Existence ==
  /\ hashPc = "none" => lzPc \in {"new", "joinBt", "joinHash", "done"}
  /\ hashPc = "ended" => lzPc \in {"joinHash", "done"}
  /\ btPc = "none" => lzPc \in {"new", "joinBt", "joinHash", "done"}
  /\ btPc = "ended" => lzPc \in {"joinBt", "joinHash", "done"}

\* The hash thread and its user, the tree thread.
HashHandshake ==
  /\ needStart["hash"] =>
       /\ hashPc \in {"none", "start", "ended"} /\ ~ wasStopped["hash"]
       /\ canStart["hash"] => exit["hash"] /\ lzPc \in {"joinHash", "done"}
  /\ ~ needStart["hash"] =>
       /\ hashPc \in {"start", "top", "enter"} /\ ~ exit["hash"]
       /\ btPc \in {"wait", "lock", "fill", "end", "top", "lockBlock", "stopHash"}
       /\ hashPc = "start" <=> canStart["hash"] \/ wasStopped["hash"]
       /\ ~ (canStart["hash"] /\ wasStopped["hash"])
       /\ wasStopped["hash"] => stopWriting["hash"]
       /\ stopWriting["hash"] <=> btPc = "stopHash"
  /\ btPc \in {"wait", "lock", "lockBlock", "stopHash"} => ~ needStart["hash"]

\* The tree thread and its user, the encoder.
BtHandshake ==
  /\ needStart["bt"] =>
       /\ btPc \in {"none", "start", "ended"} /\ ~ wasStopped["bt"]
       /\ canStart["bt"] => exit["bt"] /\ lzPc \in {"joinBt", "joinHash", "done"}
  /\ ~ needStart["bt"] =>
       /\ lzPc \in {"run", "wait", "lock", "got", "finish", "stop"} /\ ~ exit["bt"]
       /\ btPc \notin {"none", "ended"}
       /\ btPc = "start" <=> canStart["bt"] \/ wasStopped["bt"]
       /\ ~ (canStart["bt"] /\ wasStopped["bt"])
       /\ wasStopped["bt"] => stopWriting["bt"]
       /\ stopWriting["bt"] <=> lzPc = "stop"
  /\ lzPc \in {"wait", "lock", "got", "finish", "stop"} => ~ needStart["bt"]
  /\ btPc = "stopHash" => stopWriting["bt"]

\* LZ wants blocks, or its stop has not yet come to the tree thread.
LzNeedsBlocks ==
  \/ lzPc \in {"run", "wait", "lock", "got", "finish"}
  \/ lzPc = "stop" /\ ~ wasStopped["bt"]

\* The blocks, and that a ring is whole before its producer is started.
Rings ==
  /\ BlocksAccounted
  /\ lzPc = "run" /\ needStart["bt"] =>
       free["bt"] = BtNumBlocks /\ filled["bt"] = 0 /\ btNumAvailBytes = 0
  /\ needStart["hash"] /\ LzNeedsBlocks =>
       free["hash"] = HashNumBlocks /\ filled["hash"] = 0

Control == ControlTypes /\ Sections /\ Existence /\ HashHandshake /\ BtHandshake /\ Rings

\* A release leaves a number in every semaphore (LzFindMt.c:133, 177).
LEMMA ReleasedType ==
  ASSUME NEW sem \in [Sync -> Nat], NEW s \in Sync
  PROVE  Released(sem, s) \in [Sync -> Nat]
<1>1. NumBlocks(s) \in Nat
  BY LzFindMtAssumption DEF NumBlocks
<1>2. Min2(sem[s] + 1, NumBlocks(s)) \in Nat
  BY <1>1 DEF Min2
<1>3. QED
  BY <1>2 DEF Released

\* What the call for the next block assigns has the right types.
LEMMA AskNextTypes ==
  ASSUME ControlTypes, NEW s \in Sync, AskNext(s)
  PROVE  /\ needStart' \in [Sync -> BOOLEAN] /\ csWasEntered' \in [Sync -> BOOLEAN]
         /\ exit' \in [Sync -> BOOLEAN] /\ stopWriting' \in [Sync -> BOOLEAN]
         /\ canStart' \in [Sync -> BOOLEAN] /\ wasStopped' \in [Sync -> BOOLEAN]
         /\ free' \in [Sync -> Nat] /\ cs' \in [Sync -> {"none", "hash", "bt", "lz"}]
<1> USE DEF ControlTypes, AskNext, Unlocked
<1>1. CASE needStart[s]
  BY <1>1, ZenonT(40)
<1>2. CASE ~ needStart[s]
  <2>1. Released(free, s) \in [Sync -> Nat]
    BY ReleasedType
  <2>2. free' = Released(free, s)
    BY <1>2
  <2>3. UNCHANGED <<needStart, stopWriting, exit, wasStopped, canStart>>
    BY <1>2
  <2>4. cs' = [cs EXCEPT ![s] = "none"] /\ csWasEntered' = [csWasEntered EXCEPT ![s] = FALSE]
    BY <1>2
  <2>5. QED
    BY <2>1, <2>2, <2>3, <2>4
<1>3. QED
  BY <1>1, <1>2

\* The tree thread is told to stop: the types are kept (LzFindMt.c:786-791).
LEMMA BtStopTypes == ASSUME ControlTypes, BtStop PROVE ControlTypes'
<1> USE DEF ControlTypes, BtStop, HashIdle, BtPc
<1>1. CASE needStart["hash"]
  <2>1. free' = [free EXCEPT !["bt"] = @ - 1] /\ free["bt"] > 0
    BY <1>1
  <2>2. free' \in [Sync -> Nat]
    BY <2>1 DEF Sync
  <2>3. QED
    BY <1>1, <2>2 DEF hashVars
<1>2. CASE ~ needStart["hash"]
  <2>1. Released(free, "hash") \in [Sync -> Nat]
    BY ReleasedType DEF Sync
  <2>2. free' = [Released(free, "hash") EXCEPT !["bt"] = @ - 1] /\ free["bt"] > 0
    BY <1>2
  <2>3. Released(free, "hash")["bt"] = free["bt"]
    BY DEF Released, Sync
  <2>4. free' \in [Sync -> Nat]
    BY <2>1, <2>2, <2>3 DEF Sync
  <2>5. QED
    BY <1>2, <2>4 DEF hashVars, Unlocked
<1>3. QED
  BY <1>1, <1>2

\* The encoder gives up the stream: the types are kept (LzFindMt.c:944-948).
LEMMA ReleaseStreamTypes == ASSUME ControlTypes, ReleaseStream PROVE ControlTypes'
<1> USE DEF ControlTypes, ReleaseStream, AskStop, LzPc
<1>1. CASE needStart["bt"]
  BY <1>1 DEF hashVars
<1>2. CASE ~ needStart["bt"]
  <2>1. Released(free, "bt") \in [Sync -> Nat]
    BY ReleasedType DEF Sync
  <2>2. free' \in [Sync -> Nat]
    BY <1>2, <2>1
  <2>3. QED
    BY <1>2, <2>2 DEF hashVars, Unlocked
<1>3. QED
  BY <1>1, <1>2

\* A step of the hash thread keeps the invariant (LzFindMt.c:448-570).
LEMMA HashControl == Control /\ HashStep => Control'
<1> SUFFICES ASSUME Control, HashStep PROVE Control'
  OBVIOUS
<1> USE LzFindMtAssumption
    DEF Control, ControlTypes, Sections, Existence, HashHandshake, BtHandshake, Rings,
        LzNeedsBlocks, BufferLocked, BlocksAccounted, BtWorks, LzWorks, Producing, InUse, Count,
        NumBlocks, User, Sync, HashPc, BtPc, LzPc, hashVars, mfVars, takeVars, btLocals, lzVars,
        fileVars, syncVars, Released, Min2, Unlocked, Lock, AskNext, AskStop, SeeStopped,
        SendExit, HashIdle
<1>1. CASE HashStart
  BY <1>1 DEF HashStart
<1>2. CASE EnterBt
  BY <1>2 DEF EnterBt
<1>3. CASE Move
  BY <1>3 DEF Move
<1>4. CASE FillHash
  BY <1>4 DEF FillHash
<1>5. QED
  BY <1>1, <1>2, <1>3, <1>4 DEF HashStep

\* A step of the tree thread keeps it (LzFindMt.c:579-800).
LEMMA BtControl == Control /\ BtStep => Control'
<1> SUFFICES ASSUME Control, BtStep PROVE Control'
  OBVIOUS
<1> USE LzFindMtAssumption
    DEF Control, ControlTypes, Sections, Existence, HashHandshake, BtHandshake, Rings,
        LzNeedsBlocks, BufferLocked, BlocksAccounted, BtWorks, LzWorks, Producing, InUse, Count,
        NumBlocks, User, Sync, HashPc, BtPc, LzPc, hashVars, mfVars, takeVars, btLocals, lzVars,
        fileVars, syncVars, Released, Min2, Unlocked, Lock, AskNext, AskStop, SeeStopped,
        SendExit, HashIdle
<1>1. CASE BtStart
  BY <1>1 DEF BtStart
<1>2. CASE BeginBlock
  BY <1>2 DEF BeginBlock
<1>3. CASE LockBlock
  BY <1>3 DEF LockBlock
<1>4. CASE BtStop
  <2>1. ControlTypes'
    BY <1>4, BtStopTypes
  <2>2. CASE needStart["hash"]
    <3>1. Sections' /\ Existence' /\ HashHandshake' /\ BtHandshake'
      BY <1>4, <2>2 DEF BtStop
    <3>2. Rings'
      BY <1>4, <2>2 DEF BtStop
    <3>3. QED
      BY <2>1, <3>1, <3>2
  <2>3. CASE ~ needStart["hash"]
    <3>1. Sections' /\ Existence' /\ HashHandshake' /\ BtHandshake'
      BY <1>4, <2>3 DEF BtStop
    <3>2. Rings'
      BY <1>4, <2>3 DEF BtStop
    <3>3. QED
      BY <2>1, <3>1, <3>2
  <2>4. QED
    BY <2>2, <2>3
<1>5. CASE HashStopped
  BY <1>5 DEF HashStopped
<1>6. CASE AskHash
  <2>1. ControlTypes'
    BY <1>6, AskNextTypes DEF AskHash
  <2>2. CASE needStart["hash"]
    <3>1. Sections' /\ Existence' /\ HashHandshake' /\ BtHandshake'
      BY <1>6, <2>2 DEF AskHash
    <3>2. Rings'
      BY <1>6, <2>2 DEF AskHash
    <3>3. QED
      BY <2>1, <3>1, <3>2
  <2>3. CASE ~ needStart["hash"]
    <3>1. Sections' /\ Existence' /\ HashHandshake' /\ BtHandshake'
      BY <1>6, <2>3 DEF AskHash
    <3>2. Rings'
      BY <1>6, <2>3 DEF AskHash
    <3>3. QED
      BY <2>1, <3>1, <3>2
  <2>4. QED
    BY <2>2, <2>3
<1>7. CASE TakeHash
  BY <1>7 DEF TakeHash
<1>8. CASE LockHash
  BY <1>8 DEF LockHash
<1>9. CASE Process
  BY <1>9, ZenonT(40) DEF Process
<1>10. CASE EndBlock
  BY <1>10 DEF EndBlock
<1>11. QED
  BY <1>1, <1>2, <1>3, <1>4, <1>5, <1>6, <1>7, <1>8, <1>9, <1>10
  DEF BtStep

\* A call of the encoder, and its return, keep it (LzFindMt.c:850-1010).
LEMMA LzControl == Control /\ (LzCall \/ LzReturn) => Control'
<1> SUFFICES ASSUME Control, LzCall \/ LzReturn PROVE Control'
  OBVIOUS
<1> USE LzFindMtAssumption
    DEF Control, ControlTypes, Sections, Existence, HashHandshake, BtHandshake, Rings,
        LzNeedsBlocks, BufferLocked, BlocksAccounted, BtWorks, LzWorks, Producing, InUse, Count,
        NumBlocks, User, Sync, HashPc, BtPc, LzPc, hashVars, mfVars, takeVars, btLocals, lzVars,
        fileVars, syncVars, Released, Min2, Unlocked, Lock, AskNext, AskStop, SeeStopped,
        SendExit, HashIdle
<1>1. CASE Create
  BY <1>1 DEF Create
<1>2. CASE InitFile
  BY <1>2 DEF InitFile
<1>3. CASE AskBlock
  <2>1. ControlTypes'
    BY <1>3, AskNextTypes DEF AskBlock
  <2>2. CASE needStart["bt"]
    <3>1. Sections' /\ Existence' /\ HashHandshake' /\ BtHandshake'
      BY <1>3, <2>2 DEF AskBlock
    <3>2. Rings'
      BY <1>3, <2>2 DEF AskBlock
    <3>3. QED
      BY <2>1, <3>1, <3>2
  <2>3. CASE ~ needStart["bt"]
    <3>1. Sections' /\ Existence' /\ HashHandshake' /\ BtHandshake'
      BY <1>3, <2>3 DEF AskBlock
    <3>2. Rings'
      BY <1>3, <2>3 DEF AskBlock
    <3>3. QED
      BY <2>1, <3>1, <3>2
  <2>4. QED
    BY <2>2, <2>3
<1>4. CASE TakeBlock
  BY <1>4 DEF TakeBlock
<1>5. CASE LockBt
  BY <1>5 DEF LockBt
<1>6. CASE Advance
  BY <1>6 DEF Advance
<1>7. CASE EndOfStream
  BY <1>7 DEF EndOfStream
<1>8. CASE ReleaseStream
  <2>1. ControlTypes'
    BY <1>8, ReleaseStreamTypes
  <2>2. CASE needStart["bt"]
    <3>1. Sections' /\ Existence' /\ HashHandshake' /\ BtHandshake'
      BY <1>8, <2>2 DEF ReleaseStream
    <3>2. Rings'
      BY <1>8, <2>2 DEF ReleaseStream
    <3>3. QED
      BY <2>1, <3>1, <3>2
  <2>3. CASE ~ needStart["bt"]
    <3>1. Sections' /\ Existence' /\ HashHandshake' /\ BtHandshake'
      BY <1>8, <2>3 DEF ReleaseStream
    <3>2. Rings'
      BY <1>8, <2>3 DEF ReleaseStream
    <3>3. QED
      BY <2>1, <3>1, <3>2
  <2>4. QED
    BY <2>2, <2>3
<1>9. CASE Stopped
  BY <1>9 DEF Stopped
<1>10. CASE Destruct
  BY <1>10 DEF Destruct
<1>11. CASE JoinBt
  BY <1>11 DEF JoinBt
<1>12. CASE JoinHash
  BY <1>12 DEF JoinHash
<1>13. QED
  BY <1>1, <1>2, <1>3, <1>4, <1>5, <1>6, <1>7, <1>8, <1>9, <1>10, <1>11,
     <1>12 DEF LzCall, LzReturn

-----------------------------------------------------------------------------
(* The theorems. *)

\* At first no thread exists and no file is begun.
LEMMA InitControl == Init => Control
  BY LzFindMtAssumption
  DEF Init, Control, ControlTypes, Sections, Existence, HashHandshake, BtHandshake, Rings,
      LzNeedsBlocks, BufferLocked, BlocksAccounted, BtWorks, LzWorks, User, Sync, HashPc, BtPc,
      LzPc

\* The invariant holds in every execution.
THEOREM ControlInvariant == Spec => []Control
<1>1. Control /\ UNCHANGED vars => Control'
  BY DEF Control, ControlTypes, Sections, Existence, HashHandshake, BtHandshake, Rings,
         LzNeedsBlocks, BufferLocked, BlocksAccounted, BtWorks, LzWorks, Producing, InUse, vars,
         syncVars,
         hashVars, lzVars
<1>2. Control /\ [Next]_vars => Control'
  BY <1>1, HashControl, BtControl, LzControl DEF Next, Terminating
<1>3. QED
  BY InitControl, <1>2, PTL DEF Spec

\* Whoever works on the data of the buffer holds its critical section, and
\* csWasEntered says so, on every path of start, block, failure and stop
\* (LzFindMt.c:102, 448-1010).
THEOREM DataIsLocked == Spec => []BufferLocked
<1>1. Control => BufferLocked
  BY DEF Control, Sections
<1>2. QED
  BY <1>1, ControlInvariant, PTL

\* When the stop of a file has come back both threads wait for their next
\* start and nothing is left over, wherever the stop met them
\* (LzFindMt.c:153-187, 755, 813).
THEOREM StopLeavesNothing == Spec => []StopIsClean
<1>1. Control => StopIsClean
  BY DEF Control, ControlTypes, Sections, Existence, HashHandshake, BtHandshake, StopIsClean,
         BufferLocked, BtWorks, LzWorks, Sync, User
<1>2. QED
  BY <1>1, ControlInvariant, PTL

\* Between start and stop every block is free, filled or with one thread, so
\* that no release of a semaphore is lost (LzFindMt.c:122-181).
THEOREM NoBlockIsLost == Spec => []BlocksAccounted
<1>1. Control => BlocksAccounted
  BY DEF Control, Rings
<1>2. QED
  BY <1>1, ControlInvariant, PTL

\* The handshakes leave nothing behind and lose no block (LzFindMt.c:122-187).
THEOREM HandshakesAreSound == Spec => []HandshakesSound
BY StopLeavesNothing, NoBlockIsLost, PTL DEF HandshakesSound

-----------------------------------------------------------------------------
(* The positions. What the blocks of both rings hold is read as two queues:  *)
(* the blocks of heads ahead of BT and the blocks of matches ahead of LZ,    *)
(* each block with the position of the stream it starts at.                  *)

\* The place of a ring with n blocks that is i places on.
Ring(i, n) == IF i < n THEN i ELSE i - n

\* Nothing more is read: the end was reached or a read failed (LzFind.c:123-130).
Ended == streamEndWasReached \/ readResult # "ok"

\* What the encoder may look at after its position.
Lookahead == KeepAddAfter + MatchMaxLen

\* The position BT works on.
BtPos == base + btBuffer

\* The hash thread was started and its user has not stopped it.
HashOn == ~ needStart["hash"] /\ ~ stopWriting["hash"]

\* The same for the tree thread.
BtOn == ~ needStart["bt"] /\ ~ stopWriting["bt"]

\* A block of either ring.
BlockType == [pos : Seq(Int), avail : Nat, ok : BOOLEAN]

\* The buffer: positions, what was read of the stream, room for it.
Buffer ==
  /\ base \in Nat /\ mfBuffer \in Nat /\ streamPos \in Nat /\ size \in Nat
  /\ streamEndWasReached \in BOOLEAN /\ readResult \in {"ok", "read"}
  /\ Pos <= streamPos /\ streamPos <= size /\ streamPos <= Room
  /\ streamEndWasReached => streamPos = size
  /\ hashPc = "enter" => NeedMove

\* The numbers of both rings: no semaphore counts beyond its ring, every index is a block.
RingTypes ==
  /\ numProcessedBlocks \in [Sync -> Nat]
  /\ numProcessedBlocks["hash"] < HashNumBlocks /\ numProcessedBlocks["bt"] < BtNumBlocks
  /\ free["hash"] <= HashNumBlocks /\ filled["hash"] <= HashNumBlocks
  /\ free["bt"] <= BtNumBlocks /\ filled["bt"] <= BtNumBlocks
  /\ hashBlock \in 0 .. HashNumBlocks - 1 /\ hashBi \in 0 .. HashNumBlocks - 1
  /\ btBlock \in 0 .. BtNumBlocks - 1 /\ btBi \in 0 .. BtNumBlocks - 1

\* The blocks: a block of heads leaves room for its two numbers (LzFindMt.c:521-525).
RingBlockTypes ==
  /\ hashBuf \in [0 .. HashNumBlocks - 1 -> BlockType]
  /\ \A i \in 0 .. HashNumBlocks - 1 : Len(hashBuf[i].pos) <= HashBlockSize - 2
  /\ btBuf \in [0 .. BtNumBlocks - 1 -> BlockType]

\* The variables of BT; while it asks for heads its block has room (LzFindMt.c:595-607).
BtTypes ==
  /\ d \in BlockType
  /\ hashBufPos \in 0 .. HashBlockSize - 2 /\ hashNumAvail \in Nat /\ numProcessed \in Nat
  /\ curPos \in 2 .. BtBlockSize /\ btBuffer \in Int /\ failure_BT \in BOOLEAN
  /\ Producing("bt") => 2 + Len(d.pos) <= curPos
  /\ btPc \in {"wait", "lock"} => curPos < Limit /\ ~ failure_BT

\* The variables of the encoder.
LzTypes ==
  /\ btBufPos \in Nat /\ btNumAvailBytes \in Nat /\ lzPos \in Nat \ {0} /\ lzPointer \in Int
  /\ failure_LZ_BT \in BOOLEAN /\ status \in {"idle", "run", "ok", "error"}
  /\ status = "run" <=> lzPc \in {"run", "wait", "lock", "got"}

\* The types of all the data.
DataTypes == RingTypes /\ RingBlockTypes /\ BtTypes /\ LzTypes

\* The blocks of heads that are filled or in the hands of BT.
HeadsAhead == filled["hash"] + Count(InUse("hash"))

\* BT has a block of heads, the first of those ahead.
BtHasHeads == btPc \in {"top", "lockBlock", "fill", "end"}

\* The hash thread fills the block after those ahead; BT takes them in their order.
HashRing ==
  /\ hashPc # "start" => hashBlock = Ring(hashBi + HeadsAhead, HashNumBlocks)
  /\ hashPc = "start" => filled["hash"] = 0 /\ btPc = "wait" /\ hashBi = 0
  /\ numProcessedBlocks["hash"] = Ring(hashBi + 1, HashNumBlocks)

\* No move has taken away the history of the position of BT.
HistoryKept == base = 0 \/ HistorySize <= btBuffer

\* The blocks of matches that are filled or in the hands of LZ.
BlocksAhead == filled["bt"] + Count(InUse("bt"))

\* How far the tree thread will say there are bytes, from where its blocks end.
Future == IF Producing("bt") THEN d.avail ELSE hashNumAvail

\* The tree thread fills the block after those ahead; LZ takes them in their order.
TreeRing ==
  /\ btBlock = Ring(btBi + BlocksAhead, BtNumBlocks)
  /\ numProcessedBlocks["bt"] = Ring(btBi + 1, BtNumBlocks)

\* The block that BT fills starts at e: it has the positions up to that of BT, and
\* the bytes it will tell of are those that BT knows of (LzFindMt.c:623-651, 740-757).
Follows(e) ==
  /\ e = BtPos - numProcessed /\ Len(d.pos) = numProcessed
  /\ e + d.avail = BtPos + hashNumAvail
  /\ \A k \in 1 .. Len(d.pos) : d.pos[k] = e + k - 1

\* The hash thread of this file has not been asked for anything: MatchFinder_Init has
\* set the buffer back, and BT has nothing of its file.
Fresh ==
  /\ base = 0 /\ mfBuffer = 0 /\ streamPos = 0 /\ ~ streamEndWasReached /\ readResult = "ok"
  /\ hashBi = 0 /\ hashBufPos = 0 /\ hashNumAvail = 0 /\ ~ failure_BT /\ btBuffer = 0
  /\ hashBuf[0].pos = <<>>
  /\ Producing("bt") =>
       d.pos = <<>> /\ d.avail = 0 /\ numProcessed = 0 /\ curPos = 2 /\ btPc # "end"

\* LZ waits for its first block and BT for its first heads.
FreshBt ==
  /\ lzPc = "wait" /\ filled["bt"] = 0 /\ lzPos = 1 /\ lzPointer = 0
  /\ btNumAvailBytes = 0 /\ btBi = 0 /\ btBufPos = 0
  /\ numProcessedBlocks["bt"] = Ring(1, BtNumBlocks)
  /\ btPc # "start" => btBlock = 0

\* The encoder has not asked for its first block (LzFindMt.c:881-940).
FreshLz == lzPos = 1 /\ lzPointer = 0 /\ btNumAvailBytes = 0 /\ btBi = 0

\* The encoder is in the middle of a file.
LzOn == lzPc \in {"run", "wait", "lock", "got", "finish"}

\* The pointer of LZ, which the hash thread moves, is at its position, and no move has
\* taken away the encoder's history (LzFindMt.c:476-482).
LzPlace == LzOn => base + lzPointer = At /\ (base = 0 \/ base + HistorySize <= At)

-----------------------------------------------------------------------------
(* Arithmetic of the rings.                                                  *)

\* What a number modulo m is, in the range that the indexes of a ring need.
LEMMA ModRange == ASSUME NEW x \in Nat, NEW m \in Nat \ {0} PROVE x % m \in 0 .. m - 1
OBVIOUS

\* The code goes to the next block of a ring modulo its size: that is one place on.
LEMMA NextMod == ASSUME NEW x \in Nat, NEW n \in Nat \ {0}, x < n
  PROVE (x + 1) % n = Ring(x + 1, n)
<1>1. CASE x + 1 < n
  BY <1>1, SMT DEF Ring
<1>2. CASE x + 1 = n
  BY <1>2, SMT DEF Ring
<1>3. QED BY <1>1, <1>2

\* The second block of a ring, which both threads have as their next one at a start
\* (LzFindMt.c:128).
LEMMA OneMod == ASSUME NEW n \in Nat \ {0} PROVE 1 % n = Ring(1, n)
BY NextMod, SMT DEF Ring

\* Products of a number of blocks and their size, which the SMT solver needs to be told.
LEMMA Times == ASSUME NEW a \in Int, NEW b \in Int, NEW c \in Nat
  PROVE /\ (a + 1 - b) * c = (a - b) * c + c
        /\ a <= b => a * c <= b * c
OBVIOUS

\* The indexes of the next blocks stay in their rings (LzFindMt.c:139, 501, 783).
LEMMA NextInRing == ASSUME ControlTypes, RingTypes
  PROVE  /\ (hashBlock + 1) % HashNumBlocks \in 0 .. HashNumBlocks - 1
         /\ (btBlock + 1) % BtNumBlocks \in 0 .. BtNumBlocks - 1
         /\ 1 % HashNumBlocks \in 0 .. HashNumBlocks - 1
         /\ 1 % BtNumBlocks \in 0 .. BtNumBlocks - 1
         /\ (numProcessedBlocks["hash"] + 1) % HashNumBlocks \in 0 .. HashNumBlocks - 1
         /\ (numProcessedBlocks["bt"] + 1) % BtNumBlocks \in 0 .. BtNumBlocks - 1
<1>1. /\ hashBlock + 1 \in Nat /\ btBlock + 1 \in Nat /\ 1 \in Nat
      /\ numProcessedBlocks["hash"] + 1 \in Nat /\ numProcessedBlocks["bt"] + 1 \in Nat
  BY DEF RingTypes, Sync
<1>2. QED
  BY <1>1, ModRange, LzFindMtAssumption, Zenon

-----------------------------------------------------------------------------
(* The types of the data and the buffer.                                     *)

\* Every step keeps the numbers of both rings in their ranges.
LEMMA RingTypesKept == ASSUME ControlTypes, RingTypes, Next PROVE RingTypes'
<1> USE LzFindMtAssumption
    DEF ControlTypes, RingTypes, Sync, NumBlocks, Released, Min2, hashVars, mfVars, takeVars,
        btLocals, lzVars, fileVars, syncVars, AskStop, AskNext, NextIndex, Lock, SeeStopped, SendExit
<1>1. CASE HashStart
  BY <1>1 DEF HashStart
<1>2. CASE EnterBt
  BY <1>2 DEF EnterBt
<1>3. CASE Move
  BY <1>3 DEF Move
<1>4. CASE FillHash
  <2>1. (hashBlock + 1) % HashNumBlocks \in 0 .. HashNumBlocks - 1
    BY NextInRing
  <2>2. hashBlock' \in 0 .. HashNumBlocks - 1
    BY <1>4, <2>1 DEF FillHash
  <2>3. QED
    BY <1>4, <2>2 DEF FillHash
<1>5. CASE BtStart
  BY <1>5 DEF BtStart
<1>6. CASE BeginBlock
  BY <1>6 DEF BeginBlock
<1>7. CASE LockBlock
  BY <1>7 DEF LockBlock
<1>8. CASE BtStop
  <2>1. CASE needStart["hash"]
    BY <1>8, <2>1 DEF BtStop, HashIdle
  <2>2. CASE ~ needStart["hash"]
    BY <1>8, <2>2 DEF BtStop, HashIdle
  <2>3. QED
    BY <2>1, <2>2
<1>9. CASE HashStopped
  BY <1>9 DEF HashStopped
<1>10. CASE AskHash
  <2>1. 1 % HashNumBlocks \in 0 .. HashNumBlocks - 1
    BY NextInRing
  <2>2. (numProcessedBlocks["hash"] + 1) % HashNumBlocks \in 0 .. HashNumBlocks - 1
    BY NextInRing
  <2>3. CASE needStart["hash"]
    BY <1>10, <2>1, <2>3 DEF AskHash
  <2>4. CASE ~ needStart["hash"]
    BY <1>10, <2>2, <2>4 DEF AskHash
  <2>5. QED
    BY <2>3, <2>4
<1>11. CASE TakeHash
  BY <1>11 DEF TakeHash
<1>12. CASE LockHash
  BY <1>12 DEF LockHash
<1>13. CASE Process
  BY <1>13 DEF Process
<1>14. CASE EndBlock
  <2>1. (btBlock + 1) % BtNumBlocks \in 0 .. BtNumBlocks - 1
    BY NextInRing
  <2>3. QED
    BY <1>14, <2>1 DEF EndBlock
<1>15. CASE Create
  BY <1>15 DEF Create
<1>16. CASE InitFile
  BY <1>16 DEF InitFile
<1>17. CASE AskBlock
  <2>1. 1 % BtNumBlocks \in 0 .. BtNumBlocks - 1
    BY NextInRing
  <2>2. (numProcessedBlocks["bt"] + 1) % BtNumBlocks \in 0 .. BtNumBlocks - 1
    BY NextInRing
  <2>3. CASE needStart["bt"]
    BY <1>17, <2>1, <2>3 DEF AskBlock
  <2>4. CASE ~ needStart["bt"]
    BY <1>17, <2>2, <2>4 DEF AskBlock
  <2>5. QED
    BY <2>3, <2>4
<1>18. CASE Advance
  BY <1>18 DEF Advance
<1>19. CASE EndOfStream
  BY <1>19 DEF EndOfStream
<1>20. CASE ReleaseStream
  <2>1. CASE needStart["bt"]
    BY <1>20, <2>1 DEF ReleaseStream
  <2>2. CASE ~ needStart["bt"]
    BY <1>20, <2>2 DEF ReleaseStream
  <2>3. QED
    BY <2>1, <2>2
<1>21. CASE Destruct
  BY <1>21 DEF Destruct
<1>22. CASE TakeBlock
  BY <1>22 DEF TakeBlock
<1>23. CASE LockBt
  BY <1>23 DEF LockBt
<1>24. CASE Stopped
  BY <1>24 DEF Stopped
<1>25. CASE JoinBt
  BY <1>25 DEF JoinBt
<1>26. CASE JoinHash
  BY <1>26 DEF JoinHash
<1>27. CASE Terminating
  BY <1>27 DEF Terminating, vars
<1>28. QED
  BY <1>1, <1>2, <1>3, <1>4, <1>5, <1>6, <1>7, <1>8, <1>9, <1>10, <1>11, <1>12, <1>13, <1>14,
     <1>15, <1>16, <1>17, <1>18, <1>19, <1>20, <1>21, <1>22, <1>23, <1>24, <1>25, <1>26, <1>27
     DEF Next, HashStep, BtStep, LzCall, LzReturn

\* What a read leaves: the buffer is not overrun, the end of the stream is seen only
\* there, and unless it is or the read fails there is more than keepSizeAfter
\* (LzFind.c:123-185).
LEMMA Reading ==
  ASSUME Buffer, ~ NeedMove, NEW r \in Reads
  PROVE  /\ r = <<r[1], r[2], r[3]>>
         /\ r[1] \in Nat /\ r[2] \in BOOLEAN /\ r[3] \in {"ok", "read"}
         /\ streamPos <= r[1] /\ r[1] <= size /\ r[1] <= Room
         /\ r[2] => r[1] = size
         /\ Ended => r[1] = streamPos /\ r[2] = streamEndWasReached /\ r[3] = readResult
         /\ ~ r[2] /\ r[3] = "ok" => r[1] - Pos > KeepAfter
<1> USE LzFindMtAssumption DEF Buffer, Pos, Room, Ended
<1>0. KeepAfter \in Nat /\ BlockSize \in Nat
  BY DEF KeepAfter, BlockSize, KeepBefore
<1>1. CASE KeepAfter < streamPos - Pos \/ streamEndWasReached \/ readResult # "ok"
  <2>1. r = <<streamPos, streamEndWasReached, readResult>>
    BY <1>1 DEF Reads
  <2>2. QED
    BY <1>0, <1>1, <2>1
<1>2. CASE ~ (KeepAfter < streamPos - Pos \/ streamEndWasReached \/ readResult # "ok")
  <2>1. BlockSize - mfBuffer > KeepAfter
    BY <1>0, <1>2 DEF NeedMove
  <2>2. CASE size > Pos + KeepAfter
             /\ r \in {<<n, FALSE, "ok">> : n \in {Pos + KeepAfter + 1, Min2(Room, size)}}
    <3>1. PICK n \in {Pos + KeepAfter + 1, Min2(Room, size)} : r = <<n, FALSE, "ok">>
      BY <2>2
    <3>2. n \in Nat /\ streamPos <= n /\ n <= size /\ n <= Room /\ n - Pos > KeepAfter
      BY <1>0, <1>2, <2>1, <2>2 DEF Min2
    <3>3. QED
      BY <1>2, <3>1, <3>2
  <2>3. CASE ~ (size > Pos + KeepAfter) /\ r = <<size, TRUE, "ok">>
    <3>1. r[1] = size /\ r[2] = TRUE /\ r[3] = "ok"
      BY <2>3
    <3>2. size \in Nat /\ streamPos <= size /\ size <= Room
      BY <1>0, <1>2, <2>1, <2>3
    <3>3. ~ Ended
      BY <1>2
    <3>4. r = <<r[1], r[2], r[3]>>
      BY <2>3
    <3>5. r[2] \in BOOLEAN /\ (r[2] => r[1] = size) /\ ~ (~ r[2] /\ r[3] = "ok")
      BY <3>1
    <3>6. QED
      BY <3>1, <3>2, <3>3, <3>4, <3>5
  <2>4. CASE r \in {<<n, FALSE, "read">> : n \in {streamPos, Min2(Pos + KeepAfter, size)}}
    <3>1. PICK n \in {streamPos, Min2(Pos + KeepAfter, size)} : r = <<n, FALSE, "read">>
      BY <2>4
    <3>2. n \in Nat /\ streamPos <= n /\ n <= size /\ n <= Room
      BY <1>0, <1>2, <2>1 DEF Min2
    <3>3. QED
      BY <1>2, <3>1, <3>2
  <2>5. QED
    BY <1>2, <2>2, <2>3, <2>4 DEF Reads
<1>3. QED
  BY <1>1, <1>2

\* The block of n heads from the position of the hash thread.
NewBlock(n, a) == Block(Positions(Pos, n), a)

\* What a filled block leaves, for the bytes available and the heads put into it
\* (LzFindMt.c:490-547).
FillsHash(a, n) ==
  /\ streamPos' = Pos + a
  /\ n = IF a >= NumHashBytes THEN NumHeads(a) ELSE 0
  /\ hashBuf' = [hashBuf EXCEPT ![hashBlock] = NewBlock(n, a)]
  /\ mfBuffer' = mfBuffer + (IF a >= NumHashBytes THEN n ELSE a)
  /\ a >= NumHashBytes => n >= 1 /\ n <= HashBlockSize - 2 /\ n <= a
  /\ a < NumHashBytes => Ended'
  /\ streamPos <= streamPos' /\ streamPos' <= size /\ streamPos' <= Room
  /\ streamEndWasReached' \in BOOLEAN /\ readResult' \in {"ok", "read"}
  /\ streamEndWasReached' => streamPos' = size
  /\ Ended => streamPos' = streamPos /\ streamEndWasReached' = streamEndWasReached
     /\ readResult' = readResult
  /\ ~ Ended' => a > KeepAfter

\* The hash thread fills a block in that way: with no heads only when nothing more
\* will be read (LzFindMt.c:515-547).
LEMMA Filling ==
  ASSUME Buffer, FillHash, ~ exit["hash"], ~ stopWriting["hash"]
  PROVE  \E a, n \in Nat : FillsHash(a, n)
<1> USE LzFindMtAssumption
<1>1. PICK r \in Reads :
        LET avail == r[1] - Pos
            n     == IF avail >= NumHashBytes THEN NumHeads(avail) ELSE 0
        IN /\ streamPos' = r[1] /\ streamEndWasReached' = r[2] /\ readResult' = r[3]
           /\ hashBuf' = [hashBuf EXCEPT ![hashBlock] = Block(Positions(Pos, n), avail)]
           /\ mfBuffer' = mfBuffer + (IF avail >= NumHashBytes THEN n ELSE avail)
  BY DEF FillHash
<1>2. ~ NeedMove
  BY DEF FillHash
<1>3. /\ r[1] \in Nat /\ r[2] \in BOOLEAN /\ r[3] \in {"ok", "read"}
      /\ streamPos <= r[1] /\ r[1] <= size /\ r[1] <= Room
      /\ r[2] => r[1] = size
      /\ Ended => r[1] = streamPos /\ r[2] = streamEndWasReached /\ r[3] = readResult
      /\ ~ r[2] /\ r[3] = "ok" => r[1] - Pos > KeepAfter
  BY <1>2, Reading
<1> DEFINE a == r[1] - Pos
           n == IF a >= NumHashBytes THEN NumHeads(a) ELSE 0
<1>4. a \in Nat /\ Pos \in Nat /\ r[1] = Pos + a
  BY <1>3 DEF Buffer, Pos
<1>5. n \in Nat /\ (a >= NumHashBytes => n >= 1 /\ n <= HashBlockSize - 2 /\ n <= a)
  BY <1>4 DEF NumHeads, Min2
<1>6. a < NumHashBytes => r[2] \/ r[3] # "ok"
  BY <1>3, <1>4 DEF KeepAfter
<1>7. hashBuf' = [hashBuf EXCEPT ![hashBlock] = NewBlock(n, a)]
  BY <1>1 DEF NewBlock
<1>8. streamPos' = Pos + a
  BY <1>1, <1>4
<1>9. mfBuffer' = mfBuffer + (IF a >= NumHashBytes THEN n ELSE a)
  BY <1>1
<1>10. Ended' <=> r[2] \/ r[3] # "ok"
  BY <1>1 DEF Ended
<1>10a. n = IF a >= NumHashBytes THEN NumHeads(a) ELSE 0
  OBVIOUS
<1>11. Room' = Room
  BY DEF FillHash, Room
<1>13. streamPos' = r[1] /\ streamEndWasReached' = r[2] /\ readResult' = r[3]
  BY <1>1
<1>14. ~ Ended' => a > KeepAfter
  BY <1>3, <1>10
<1> HIDE DEF a, n
<1>12. FillsHash(a, n)
  BY <1>3, <1>5, <1>6, <1>7, <1>8, <1>9, <1>10, <1>10a, <1>13, <1>14 DEF FillsHash
<1>15. QED
  BY <1>4, <1>5, <1>12

\* The fields of a new block of heads.
LEMMA NewBlockType == ASSUME Buffer, NEW n \in Nat, NEW a \in Nat
  PROVE NewBlock(n, a) \in BlockType /\ Len(NewBlock(n, a).pos) = n
        /\ NewBlock(n, a).avail = a /\ (\A k \in 1 .. n : NewBlock(n, a).pos[k] = Pos + k - 1)
        /\ (n = 0 => NewBlock(n, a).pos = <<>>)
<1>1. Positions(Pos, n) = [i \in 1 .. n |-> Pos + i - 1] /\ Pos \in Nat
  BY DEF Positions, Pos, Buffer
<1>2. Positions(Pos, n) \in Seq(Int) /\ Len(Positions(Pos, n)) = n
  BY <1>1
<1>3. n = 0 => Positions(Pos, n) = <<>>
  BY <1>2
<1>4. NewBlock(n, a).pos = Positions(Pos, n) /\ NewBlock(n, a).avail = a
  BY DEF NewBlock, Block
<1>5. NewBlock(n, a) \in BlockType
  BY <1>2 DEF NewBlock, Block, BlockType
<1>6. QED
  BY <1>1, <1>2, <1>3, <1>4, <1>5

\* A block that was never filled.
LEMMA ErasedType == Erased \in BlockType /\ Len(Erased.pos) = 0
  BY DEF Erased, BlockType

\* Every step keeps the buffer sound: the reads stay in the room that the moves
\* make (LzFind.c:123-215, LzFindMt.c:467-488).
LEMMA BufferKept == ASSUME Control, Buffer, Next PROVE Buffer'
<1>0. KeepBefore \in Nat /\ KeepAfter \in Nat /\ BlockSize = KeepBefore + KeepAfter + Reserve
      /\ Reserve \in Nat /\ MoveAlign \in Nat \ {0} /\ Reserve >= MoveAlign
  BY LzFindMtAssumption DEF KeepBefore, KeepAfter, BlockSize
<1>a. CASE UNCHANGED <<mfVars, hashPc, size>>
  BY <1>a DEF Buffer, mfVars, Pos, Room, NeedMove
<1> USE DEF hashVars, mfVars, takeVars, btLocals, lzVars, fileVars, syncVars
<1>1. CASE HashStart
  BY <1>1 DEF HashStart, Buffer, NeedMove, Pos, Room
<1>2. CASE EnterBt
  BY <1>2 DEF EnterBt, Buffer, NeedMove, Pos, Room
<1>3. CASE Move
  <2>1. mfBuffer >= KeepBefore + Reserve /\ mfBuffer \in Nat /\ base \in Nat
    BY <1>3, <1>0 DEF Move, Buffer, NeedMove
  <2>2. (mfBuffer - KeepBefore) \in Nat /\ mfBuffer - KeepBefore >= MoveAlign
    BY <1>0, <2>1
  <2>3. (mfBuffer - KeepBefore) % MoveAlign \in 0 .. MoveAlign - 1
    BY <1>0, <2>2, ModRange
  <2>4. MoveOffset \in Nat /\ MoveOffset <= mfBuffer - KeepBefore
    BY <1>0, <2>1, <2>2, <2>3 DEF MoveOffset
  <2>5. base' = base + MoveOffset /\ mfBuffer' = mfBuffer - MoveOffset
    BY <1>3 DEF Move
  <2>6. QED
    BY <1>3, <1>0, <2>1, <2>4, <2>5 DEF Move, Buffer, Pos, Room
<1>4. CASE FillHash
  <2>1. CASE exit["hash"] \/ stopWriting["hash"]
    BY <1>4, <2>1 DEF FillHash, Buffer, Pos, Room
  <2>2. CASE ~ exit["hash"] /\ ~ stopWriting["hash"]
    <3>1. PICK a, n \in Nat : FillsHash(a, n)
      BY <1>4, <2>2, Filling
    <3>2. base' = base /\ hashPc' = hashPc /\ hashPc = "top" /\ size' = size
      BY <1>4, <2>2 DEF FillHash
    <3> DEFINE k == IF a >= NumHashBytes THEN n ELSE a
    <3>4a. k \in Nat /\ k <= a /\ mfBuffer' = mfBuffer + k
      BY <3>1 DEF FillsHash
    <3> HIDE DEF k
    <3>4. mfBuffer' \in Nat
      BY <3>4a DEF Buffer
    <3>5. Pos \in Nat /\ Pos' <= Pos + a
      BY <3>2, <3>4a DEF Pos, Buffer
    <3>7. Room' = Room /\ Room \in Nat
      BY <1>0, <3>2 DEF Room, Buffer
    <3>6. QED
      BY <3>1, <3>2, <3>4, <3>5, <3>7 DEF FillsHash, Buffer
  <2>3. QED
    BY <2>1, <2>2
<1>5. CASE BtStart
  BY <1>5, <1>a DEF BtStart
<1>6. CASE BeginBlock
  BY <1>6, <1>a DEF BeginBlock
<1>7. CASE LockBlock
  BY <1>7, <1>a DEF LockBlock
<1>8. CASE BtStop
  BY <1>8, <1>a DEF BtStop
<1>9. CASE HashStopped
  BY <1>9, <1>a DEF HashStopped
<1>10. CASE AskHash
  BY <1>10, <1>a DEF AskHash
<1>11. CASE TakeHash
  BY <1>11, <1>a DEF TakeHash
<1>12. CASE LockHash
  BY <1>12, <1>a DEF LockHash
<1>13. CASE Process
  BY <1>13, <1>a DEF Process
<1>14. CASE EndBlock
  BY <1>14, <1>a DEF EndBlock
<1>15. CASE Create
  BY <1>15, <1>0 DEF Create, Buffer, Pos, Room, Control, Existence, Sections, HashHandshake
<1>16. CASE InitFile
  <2>1. CASE UNCHANGED mfVars /\ UNCHANGED size
    BY <1>16, <2>1, <1>a DEF InitFile
  <2>2. CASE base' = 0 /\ mfBuffer' = 0 /\ streamPos' = 0 /\ streamEndWasReached' = FALSE
            /\ readResult' = "ok" /\ size' \in Sizes
               /\ ~ (\E s \in Sync : ~ needStart[s] \/ csWasEntered[s])
    <3>1. hashPc' # "enter"
      BY <1>16, <2>2 DEF InitFile, Control, HashHandshake, Sync
    <3>2. size' \in Nat
      BY <2>2, LzFindMtAssumption
    <3>3. Pos' = 0 /\ Room' \in Nat
      BY <1>0, <2>2 DEF Pos, Room
    <3>4. Pos' <= streamPos' /\ streamPos' <= size' /\ streamPos' <= Room'
      BY <2>2, <3>2, <3>3
    <3>5. ~ streamEndWasReached' /\ streamEndWasReached' \in BOOLEAN
      BY <2>2
    <3>6. QED
      BY <2>2, <3>1, <3>2, <3>4, <3>5 DEF Buffer
  <2>3. QED
    BY <1>16, <2>1, <2>2 DEF InitFile
<1>17. CASE AskBlock
  BY <1>17, <1>a DEF AskBlock
<1>18. CASE Advance
  BY <1>18, <1>a DEF Advance
<1>19. CASE EndOfStream
  BY <1>19, <1>a DEF EndOfStream
<1>20. CASE ReleaseStream
  BY <1>20, <1>a DEF ReleaseStream
<1>21. CASE Destruct
  BY <1>21, <1>a DEF Destruct
<1>22. CASE TakeBlock
  BY <1>22, <1>a DEF TakeBlock
<1>23. CASE LockBt
  BY <1>23, <1>a DEF LockBt
<1>24. CASE Stopped
  BY <1>24, <1>a DEF Stopped
<1>25. CASE JoinBt
  BY <1>25, <1>a DEF JoinBt
<1>26. CASE JoinHash
  BY <1>26, <1>a DEF JoinHash
<1>27. CASE Terminating
  BY <1>27, <1>a DEF Terminating, vars
<1>28. QED
  BY <1>1, <1>2, <1>3, <1>4, <1>5, <1>6, <1>7, <1>8, <1>9, <1>10, <1>11, <1>12, <1>13, <1>14,
     <1>15, <1>16, <1>17, <1>18, <1>19, <1>20, <1>21, <1>22, <1>23, <1>24, <1>25, <1>26, <1>27
     DEF Next, HashStep, BtStep, LzCall, LzReturn

\* Every step keeps the types of the blocks.
LEMMA RingBlockTypesKept == ASSUME Control, Buffer, RingTypes, RingBlockTypes, BtTypes, Next
       PROVE RingBlockTypes'
<1> USE LzFindMtAssumption
<1>a. CASE UNCHANGED <<hashBuf, btBuf>>
  BY <1>a DEF RingBlockTypes
<1> USE DEF hashVars, mfVars, takeVars, btLocals, lzVars, fileVars, syncVars
<1>1. CASE HashStart
  BY <1>1, <1>a DEF HashStart
<1>2. CASE EnterBt
  BY <1>2, <1>a DEF EnterBt
<1>3. CASE Move
  BY <1>3, <1>a DEF Move
<1>4. CASE FillHash
  <2>1. CASE exit["hash"] \/ stopWriting["hash"]
    BY <1>4, <1>a, <2>1 DEF FillHash
  <2>2. CASE ~ exit["hash"] /\ ~ stopWriting["hash"]
    <3>1. PICK a, n \in Nat : FillsHash(a, n)
      BY <1>4, <2>2, Filling
    <3>2. NewBlock(n, a) \in BlockType /\ Len(NewBlock(n, a).pos) = n
      BY <3>1, NewBlockType
    <3>3. n <= HashBlockSize - 2
      BY <3>1 DEF FillsHash
    <3>4. hashBuf' = [hashBuf EXCEPT ![hashBlock] = NewBlock(n, a)] /\ btBuf' = btBuf
      BY <1>4, <3>1 DEF FillsHash, FillHash
    <3>5. QED
      BY <3>2, <3>3, <3>4 DEF RingBlockTypes, RingTypes
  <2>3. QED
    BY <2>1, <2>2
<1>5. CASE BtStart
  BY <1>5, <1>a DEF BtStart
<1>6. CASE BeginBlock
  BY <1>6, <1>a DEF BeginBlock
<1>7. CASE LockBlock
  BY <1>7, <1>a DEF LockBlock
<1>8. CASE BtStop
  BY <1>8, <1>a DEF BtStop
<1>9. CASE HashStopped
  BY <1>9, <1>a DEF HashStopped
<1>10. CASE AskHash
  <2>1. hashBuf' = [hashBuf EXCEPT ![hashBi] = IF needStart["hash"] THEN @ ELSE Erased]
        /\ btBuf' = btBuf
    BY <1>10 DEF AskHash
  <2>2. QED
    BY <2>1, ErasedType DEF RingBlockTypes, RingTypes
<1>11. CASE TakeHash
  BY <1>11, <1>a DEF TakeHash
<1>12. CASE LockHash
  BY <1>12, <1>a DEF LockHash
<1>13. CASE Process
  BY <1>13, <1>a DEF Process
<1>14. CASE EndBlock
  <2>1. btBuf' = [btBuf EXCEPT ![btBlock] = [d EXCEPT !.ok = ~ failure_BT]] /\ hashBuf' = hashBuf
    BY <1>14 DEF EndBlock
  <2>2. [d EXCEPT !.ok = ~ failure_BT] \in BlockType
    BY DEF BtTypes, BlockType
  <2>3. QED
    BY <2>1, <2>2 DEF RingBlockTypes, RingTypes
<1>15. CASE Create
  BY <1>15, <1>a DEF Create
<1>16. CASE InitFile
  <2>1. CASE UNCHANGED <<hashBuf, btBuf>>
    BY <2>1, <1>a
  <2>2. CASE hashBuf' = [i \in DOMAIN hashBuf |-> Erased]
             /\ btBuf' = [i \in DOMAIN btBuf |-> Erased]
    BY <2>2, ErasedType DEF RingBlockTypes
  <2>3. QED
    BY <1>16, <2>1, <2>2 DEF InitFile
<1>17. CASE AskBlock
  <2>1. btBuf' = [btBuf EXCEPT ![btBi] = IF needStart["bt"] THEN @ ELSE Erased]
        /\ hashBuf' = hashBuf
    BY <1>17 DEF AskBlock
  <2>2. QED
    BY <2>1, ErasedType DEF RingBlockTypes, RingTypes
<1>18. CASE Advance
  BY <1>18, <1>a DEF Advance
<1>19. CASE EndOfStream
  BY <1>19, <1>a DEF EndOfStream
<1>20. CASE ReleaseStream
  BY <1>20, <1>a DEF ReleaseStream
<1>21. CASE Destruct
  BY <1>21, <1>a DEF Destruct
<1>22. CASE TakeBlock
  BY <1>22, <1>a DEF TakeBlock
<1>23. CASE LockBt
  BY <1>23, <1>a DEF LockBt
<1>24. CASE Stopped
  BY <1>24, <1>a DEF Stopped
<1>25. CASE JoinBt
  BY <1>25, <1>a DEF JoinBt
<1>26. CASE JoinHash
  BY <1>26, <1>a DEF JoinHash
<1>27. CASE Terminating
  BY <1>27, <1>a DEF Terminating, vars
<1>28. QED
  BY <1>1, <1>2, <1>3, <1>4, <1>5, <1>6, <1>7, <1>8, <1>9, <1>10, <1>11, <1>12, <1>13, <1>14,
     <1>15, <1>16, <1>17, <1>18, <1>19, <1>20, <1>21, <1>22, <1>23, <1>24, <1>25, <1>26, <1>27
     DEF Next, HashStep, BtStep, LzCall, LzReturn

\* Every step keeps the types of what the encoder has.
LEMMA LzTypesKept == ASSUME Control, RingTypes, RingBlockTypes, LzTypes, Next PROVE LzTypes'
<1> USE LzFindMtAssumption
<1>a. CASE UNCHANGED <<lzVars, lzPointer, status, lzPc>>
  BY <1>a DEF LzTypes, lzVars
<1> USE DEF hashVars, mfVars, takeVars, btLocals, lzVars, fileVars, syncVars
<1>1. CASE HashStart
  BY <1>1, <1>a DEF HashStart
<1>2. CASE EnterBt
  BY <1>2, <1>a DEF EnterBt
<1>3. CASE Move
  <2>1. lzPointer' = lzPointer - MoveOffset
    BY <1>3 DEF Move, Moved
  <2>2. QED
    BY <1>3, <2>1 DEF Move, LzTypes
<1>4. CASE FillHash
  BY <1>4, <1>a DEF FillHash
<1>5. CASE BtStart
  BY <1>5, <1>a DEF BtStart
<1>6. CASE BeginBlock
  BY <1>6, <1>a DEF BeginBlock
<1>7. CASE LockBlock
  BY <1>7, <1>a DEF LockBlock
<1>8. CASE BtStop
  BY <1>8, <1>a DEF BtStop
<1>9. CASE HashStopped
  BY <1>9, <1>a DEF HashStopped
<1>10. CASE AskHash
  BY <1>10, <1>a DEF AskHash
<1>11. CASE TakeHash
  BY <1>11, <1>a DEF TakeHash
<1>12. CASE LockHash
  BY <1>12, <1>a DEF LockHash
<1>13. CASE Process
  BY <1>13, <1>a DEF Process
<1>14. CASE EndBlock
  BY <1>14, <1>a DEF EndBlock
<1>15. CASE Create
  BY <1>15 DEF Create, LzTypes
<1>16. CASE InitFile
  <2>1. CASE UNCHANGED <<lzVars, lzPointer, lzPc>> /\ status' = "error"
    BY <1>16, <2>1 DEF InitFile, LzTypes
  <2>2. CASE ~ (UNCHANGED <<lzVars, lzPointer, lzPc>> /\ status' = "error")
    <3>1. btBufPos' = 0 /\ btNumAvailBytes' = 0 /\ ~ failure_LZ_BT' /\ failure_LZ_BT' \in BOOLEAN
          /\ lzPos' = 1 /\ lzPointer' = 0 /\ status' = "run" /\ lzPc' = "run"
      BY <1>16, <2>2 DEF InitFile
    <3>2. QED
      BY <3>1 DEF LzTypes
  <2>3. QED
    BY <2>1, <2>2
<1>17. CASE AskBlock
  BY <1>17 DEF AskBlock, LzTypes
<1>18. CASE Advance
  BY <1>18 DEF Advance, LzTypes
<1>19. CASE EndOfStream
  BY <1>19 DEF EndOfStream, LzTypes
<1>20. CASE ReleaseStream
  BY <1>20 DEF ReleaseStream, LzTypes
<1>21. CASE Destruct
  BY <1>21 DEF Destruct, LzTypes
<1>22. CASE TakeBlock
  BY <1>22 DEF TakeBlock, LzTypes
<1>23. CASE LockBt
  <2>1. btBuf[btBi].avail \in Nat /\ btBuf[btBi].ok \in BOOLEAN
    BY DEF RingBlockTypes, RingTypes, BlockType
  <2>2. QED
    BY <1>23, <2>1 DEF LockBt, LzTypes
<1>24. CASE Stopped
  BY <1>24 DEF Stopped, LzTypes
<1>25. CASE JoinBt
  BY <1>25 DEF JoinBt, LzTypes
<1>26. CASE JoinHash
  BY <1>26 DEF JoinHash, LzTypes
<1>27. CASE Terminating
  BY <1>27, <1>a DEF Terminating, vars
<1>28. QED
  BY <1>1, <1>2, <1>3, <1>4, <1>5, <1>6, <1>7, <1>8, <1>9, <1>10, <1>11, <1>12, <1>13, <1>14,
     <1>15, <1>16, <1>17, <1>18, <1>19, <1>20, <1>21, <1>22, <1>23, <1>24, <1>25, <1>26, <1>27
     DEF Next, HashStep, BtStep, LzCall, LzReturn

\* GetMatches takes n heads and appends their positions to BT's block
\* (LzFindMt.c:652-734).
Processes(n) ==
  \E before \in n - 1 .. (n - 1) * MaxItem, last \in {1, MaxItem} :
    /\ curPos + before < Limit
    /\ curPos' = curPos + before + last
    /\ d' = [d EXCEPT !.pos = @ \o SubSeq(hashBuf[hashBi].pos, hashBufPos + 1, hashBufPos + n)]
    /\ hashBufPos' = hashBufPos + n /\ hashNumAvail' = hashNumAvail - n
    /\ numProcessed' = numProcessed + n /\ btBuffer' = btBuffer + n

\* A call of GetMatches that does not fail takes at least one head and no more than
\* the block has.
LEMMA Processing == ASSUME Process, btPc' = btPc PROVE \E n \in 1 .. HeadsLeft : Processes(n)
  BY DEF Process, Processes

\* Every step keeps the types of what BT has; the condition, that the block has as many
\* bytes as heads, is proved below (ProcessAvail).
LEMMA BtTypesKept ==
  ASSUME Control, Buffer, RingTypes, RingBlockTypes, BtTypes, Next,
         Process => hashNumAvail >= HeadsLeft
  PROVE  BtTypes'
<1> USE LzFindMtAssumption
<1>a. CASE UNCHANGED <<takeVars, failure_BT, btBuffer, btLocals, btPc>>
  BY <1>a DEF BtTypes, takeVars, btLocals, Producing
<1> USE DEF hashVars, mfVars, takeVars, btLocals, lzVars, fileVars, syncVars
<1>1. CASE HashStart
  BY <1>1, <1>a DEF HashStart
<1>2. CASE EnterBt
  BY <1>2, <1>a DEF EnterBt
<1>3. CASE Move
  <2>1. btBuffer' = btBuffer - MoveOffset /\ MoveOffset \in Int
    <3>1. mfBuffer - KeepBefore \in Int
      BY DEF Buffer, KeepBefore
    <3>2. (mfBuffer - KeepBefore) % MoveAlign \in Int
      BY <3>1
    <3>3. QED
      BY <1>3, <3>1, <3>2 DEF Move, Moved, MoveOffset
  <2>2. QED
    BY <1>3, <2>1 DEF Move, BtTypes, Producing
<1>4. CASE FillHash
  BY <1>4, <1>a DEF FillHash
<1>5. CASE BtStart
  BY <1>5 DEF BtStart, BtTypes, Producing
<1>6. CASE BeginBlock
  <2>1. Block(<<>>, hashNumAvail) \in BlockType /\ Len(Block(<<>>, hashNumAvail).pos) = 0
    BY DEF Block, BlockType, BtTypes
  <2>2. d' = Block(<<>>, hashNumAvail) /\ curPos' = 2 /\ numProcessed' = 0
    BY <1>6 DEF BeginBlock
  <2>3. QED
    BY <1>6, <2>1, <2>2 DEF BeginBlock, BtTypes, Producing
<1>7. CASE LockBlock
  BY <1>7 DEF LockBlock, BtTypes, Producing
<1>8. CASE BtStop
  BY <1>8 DEF BtStop, BtTypes, Producing
<1>9. CASE HashStopped
  BY <1>9 DEF HashStopped, BtTypes, Producing
<1>10. CASE AskHash
  BY <1>10 DEF AskHash, BtTypes, Producing
<1>11. CASE TakeHash
  BY <1>11 DEF TakeHash, BtTypes, Producing
<1>12. CASE LockHash
  <2> DEFINE avail == hashBuf[hashBi].avail
             p == IF AtEnd(avail) THEN d.pos \o [i \in 1 .. avail |-> NoPos] ELSE d.pos
  <2>1. avail \in Nat
    BY DEF RingBlockTypes, RingTypes, BlockType
  <2>2. d' = Block(p, numProcessed + avail) /\ hashNumAvail' = (IF AtEnd(avail) THEN 0 ELSE avail)
        /\ curPos' = (IF AtEnd(avail) THEN curPos + avail ELSE curPos)
        /\ btPc' = (IF AtEnd(avail) THEN "end" ELSE "fill") /\ btPc = "lock"
    BY <1>12 DEF LockHash, AvailSum
  <2>3. d.pos \in Seq(Int) /\ numProcessed \in Nat
    BY DEF BtTypes, BlockType
  <2>4. [i \in 1 .. avail |-> NoPos] \in Seq(Int) /\ Len([i \in 1 .. avail |-> NoPos]) = avail
    BY <2>1 DEF NoPos
  <2> DEFINE q == [i \in 1 .. avail |-> NoPos]
  <2>4a. q \in Seq(Int) /\ Len(q) = avail
    BY <2>4
  <2> HIDE DEF q
  <2>5. d.pos \o q \in Seq(Int) /\ Len(d.pos \o q) = Len(d.pos) + avail
    <3> HIDE DEF avail
    <3>1. QED
      BY <2>1, <2>3, <2>4a, SMTT(30)
  <2>6. p \in Seq(Int) /\ Len(p) = Len(d.pos) + (IF AtEnd(avail) THEN avail ELSE 0)
    BY <2>1, <2>3, <2>5 DEF q
  <2>7. d' \in BlockType /\ Len(d'.pos) = Len(p)
    BY <2>1, <2>2, <2>3, <2>6 DEF Block, BlockType
  <2>8. UNCHANGED <<hashBufPos, numProcessed, btBuffer, failure_BT>>
    BY <1>12 DEF LockHash
  <2>9. AtEnd(avail) => avail < NumHashBytes
    BY DEF AtEnd
  <2> HIDE DEF avail, p
  <2>10. CASE AtEnd(avail)
    <3>1. hashNumAvail' = 0 /\ curPos' = curPos + avail /\ btPc' = "end" /\ avail < NumHashBytes
          /\ Len(d'.pos) = Len(d.pos) + avail
      BY <2>2, <2>6, <2>7, <2>9, <2>10
    <3>2. QED
      BY <2>1, <2>2, <2>7, <2>8, <3>1 DEF BtTypes, Producing, Limit
  <2>11. CASE ~ AtEnd(avail)
    <3>1. hashNumAvail' = avail /\ curPos' = curPos /\ btPc' = "fill" /\ Len(d'.pos) = Len(d.pos)
      BY <2>2, <2>6, <2>7, <2>11
    <3>2. QED
      BY <2>1, <2>2, <2>7, <2>8, <3>1 DEF BtTypes, Producing, Limit
  <2>12. QED
    BY <2>10, <2>11
<1>13. CASE Process
  <2>1. CASE failure_BT' = TRUE /\ btPc' = "end"
             /\ UNCHANGED <<curPos, d, hashBufPos, hashNumAvail, numProcessed, btBuffer>>
    BY <1>13, <2>1 DEF Process, BtTypes, Producing
  <2>2. CASE btPc' = btPc /\ UNCHANGED failure_BT
    <3>1. PICK n \in 1 .. HeadsLeft : \E before \in n - 1 .. (n - 1) * MaxItem, last \in {1, MaxItem} :
            /\ curPos + before < Limit
            /\ curPos' = curPos + before + last
            /\ d' = [d EXCEPT !.pos = @ \o SubSeq(hashBuf[hashBi].pos, hashBufPos + 1, hashBufPos + n)]
            /\ hashBufPos' = hashBufPos + n /\ hashNumAvail' = hashNumAvail - n
            /\ numProcessed' = numProcessed + n /\ btBuffer' = btBuffer + n
      BY <1>13, <2>2, Processing DEF Processes
    <3>0. HeadsLeft \in Int
      BY DEF HeadsLeft, RingBlockTypes, RingTypes, BlockType, BtTypes
    <3>2. PICK before \in n - 1 .. (n - 1) * MaxItem, last \in {1, MaxItem} :
            curPos + before < Limit /\ curPos' = curPos + before + last
      BY <3>1
    <3>3. n \in Nat \ {0} /\ n <= HeadsLeft
      BY <3>0
    <3>4. MaxItem \in Nat \ {0} /\ MaxItem <= 2 * MatchMaxLen
      BY DEF MaxItem
    <3>5. before \in Int /\ before >= n - 1
      BY <3>2, <3>3, <3>4
    <3>6. curPos' >= curPos + n /\ curPos' <= BtBlockSize /\ curPos' \in Int
      BY <3>2, <3>3, <3>4, <3>5 DEF Limit, BtTypes
    <3> DEFINE q == SubSeq(hashBuf[hashBi].pos, hashBufPos + 1, hashBufPos + n)
    <3>7. hashBuf[hashBi].pos \in Seq(Int) /\ hashBufPos \in Nat
          /\ Len(hashBuf[hashBi].pos) <= HashBlockSize - 2
          /\ hashBufPos + n <= Len(hashBuf[hashBi].pos)
      BY <3>3 DEF HeadsLeft, RingBlockTypes, RingTypes, BlockType, BtTypes
    <3>8. q \in Seq(Int) /\ Len(q) = n
      BY <3>3, <3>7
    <3>9. d' = [d EXCEPT !.pos = @ \o q]
      BY <3>1
    <3> HIDE DEF q
    <3>10. d' \in BlockType /\ Len(d'.pos) = Len(d.pos) + n
      <4>1. d \in BlockType /\ d.pos \in Seq(Int)
        BY DEF BtTypes, BlockType
      <4>2. d.pos \o q \in Seq(Int) /\ Len(d.pos \o q) = Len(d.pos) + n
        <5>1. n \in Nat /\ n = Len(q) /\ q \in Seq(Int)
          BY <3>3, <3>8
        <5>2. QED
          BY <4>1, <5>1
      <4>3. d'.pos = d.pos \o q /\ d' \in BlockType
        BY <3>9, <4>1, <4>2 DEF BlockType
      <4>4. QED
        BY <4>2, <4>3
    <3>11. hashBufPos' = hashBufPos + n /\ hashNumAvail' = hashNumAvail - n
           /\ numProcessed' = numProcessed + n /\ btBuffer' = btBuffer + n
      BY <3>1
    <3>12. btPc = "fill"
      BY <1>13 DEF Process
    <3>13. HeadsLeft \in Int /\ hashNumAvail >= n
      BY <1>13, <3>3, <3>7 DEF HeadsLeft, BtTypes
    <3>14. QED
      BY <2>2, <3>3, <3>6, <3>7, <3>10, <3>11, <3>12, <3>13 DEF BtTypes, Producing
  <2>3. QED
    BY <1>13, <2>1, <2>2 DEF Process
<1>14. CASE EndBlock
  <2>1. d' = Erased /\ curPos' = 2 /\ numProcessed' = 0 /\ btPc' = "top"
        /\ UNCHANGED <<hashBufPos, hashNumAvail, failure_BT, btBuffer>>
    BY <1>14 DEF EndBlock
  <2>2. QED
    BY <2>1, ErasedType DEF BtTypes, Producing
<1>15. CASE Create
  <2>1. btPc' \in {"start", "none"} /\ UNCHANGED <<takeVars, failure_BT, btBuffer, btLocals>>
    BY <1>15 DEF Create
  <2>2. QED
    BY <2>1 DEF BtTypes, Producing
<1>16. CASE InitFile
  <2>1. CASE UNCHANGED <<takeVars, failure_BT, btBuffer>>
    BY <1>16, <1>a, <2>1 DEF InitFile
  <2>2. CASE hashBufPos' = 0 /\ hashNumAvail' = 0 /\ failure_BT' = FALSE /\ btBuffer' = 0
    <3>1. UNCHANGED <<btLocals, btPc>>
      BY <1>16 DEF InitFile
    <3>2. ~ failure_BT' /\ failure_BT' \in BOOLEAN
      BY <2>2
    <3>3. QED
      BY <2>2, <3>1, <3>2 DEF BtTypes, Producing
  <2>3. QED
    BY <1>16, <2>1, <2>2 DEF InitFile
<1>17. CASE AskBlock
  BY <1>17, <1>a DEF AskBlock
<1>18. CASE Advance
  BY <1>18, <1>a DEF Advance
<1>19. CASE EndOfStream
  BY <1>19, <1>a DEF EndOfStream
<1>20. CASE ReleaseStream
  BY <1>20, <1>a DEF ReleaseStream
<1>21. CASE Destruct
  BY <1>21, <1>a DEF Destruct
<1>22. CASE TakeBlock
  BY <1>22, <1>a DEF TakeBlock
<1>23. CASE LockBt
  BY <1>23, <1>a DEF LockBt
<1>24. CASE Stopped
  BY <1>24, <1>a DEF Stopped
<1>25. CASE JoinBt
  BY <1>25, <1>a DEF JoinBt
<1>26. CASE JoinHash
  BY <1>26, <1>a DEF JoinHash
<1>27. CASE Terminating
  BY <1>27, <1>a DEF Terminating, vars
<1>28. QED
  BY <1>1, <1>2, <1>3, <1>4, <1>5, <1>6, <1>7, <1>8, <1>9, <1>10, <1>11, <1>12, <1>13, <1>14,
     <1>15, <1>16, <1>17, <1>18, <1>19, <1>20, <1>21, <1>22, <1>23, <1>24, <1>25, <1>26, <1>27
     DEF Next, HashStep, BtStep, LzCall, LzReturn

-----------------------------------------------------------------------------
(* The queue of heads, as an operator of plain values: B[0 .. n - 1] are the *)
(* blocks, S[j] the position that block j starts at, pos the end of the last. *)

\* b has the heads of the positions from s up to e, and knows of the bytes that the
\* encoder may look at after the last of them.
HeadsFor(b, s, e, good, sz) ==
  /\ b.avail >= NumHashBytes /\ Len(b.pos) = e - s
  /\ e - s >= 1 /\ e - s <= HashBlockSize - 2 /\ e - s <= b.avail
  /\ \A k \in 1 .. Len(b.pos) : b.pos[k] = s + k - 1
  /\ good = 1 => s + b.avail >= Min2(e + Lookahead, sz)

\* b has the last bytes of the stream, from s to e, too few for a head
\* (LzFindMt.c:515-525).
NoHeadsFor(b, s, e, fin, sp) ==
  b.avail < NumHashBytes /\ b.pos = <<>> /\ e = s + b.avail /\ fin = 1 /\ e = sp

\* The blocks of heads follow on one another up to the position of the hash thread, none
\* knows of bytes that were not read, a later one of no fewer, and each covers no more
\* than the size of a block while there is more to read.
HashQueue(B, n, S, pos, sp, fin, good, sz) ==
  /\ S[n] = pos
  /\ \A j \in 0 .. n - 1 :
       /\ S[j] + B[j].avail <= sp
       /\ HeadsFor(B[j], S[j], S[j + 1], good, sz) \/ NoHeadsFor(B[j], S[j], S[j + 1], fin, sp)
  /\ \A i, j \in 0 .. n : i <= j => S[i] <= S[j]
  /\ \A i, j \in 0 .. n - 1 : i <= j => S[i] + B[i].avail <= S[j] + B[j].avail
  /\ fin = 0 => \A j \in 0 .. n : pos - S[j] <= (n - j) * HashBlockSize

\* A block is put at the end of the queue; what was read may have grown.
HashPushCase(B, n, S, pos, sp, fin, good, sz, b, pos1, sp1, fin1, good1) ==
  /\ B \in [Nat -> BlockType] /\ n \in Nat /\ S \in [Nat -> Nat] /\ pos \in Nat /\ sp \in Nat
  /\ fin \in {0, 1} /\ good \in {0, 1} /\ sz \in Nat /\ HashQueue(B, n, S, pos, sp, fin, good, sz)
  /\ b \in BlockType /\ pos1 \in Nat /\ sp1 \in Nat /\ fin1 \in {0, 1} /\ good1 \in {0, 1}
  /\ sp <= sp1 /\ (fin = 1 => fin1 = 1 /\ sp1 = sp) /\ (good1 = 1 => good = 1)
  /\ pos + b.avail = sp1
  /\ (HeadsFor(b, pos, pos1, good1, sz) \/ NoHeadsFor(b, pos, pos1, fin1, sp1))

\* The queue with a block put at its end is a queue (LzFindMt.c:490-547).
LEMMA HashPush ==
  ASSUME NEW B, NEW n, NEW S, NEW pos, NEW sp, NEW fin, NEW good, NEW sz, NEW b, NEW pos1,
         NEW sp1, NEW fin1, NEW good1,
         HashPushCase(B, n, S, pos, sp, fin, good, sz, b, pos1, sp1, fin1, good1)
  PROVE  HashQueue([B EXCEPT ![n] = b], n + 1, [S EXCEPT ![n + 1] = pos1], pos1, sp1, fin1, good1, sz)
<1>c. /\ B \in [Nat -> BlockType] /\ n \in Nat /\ S \in [Nat -> Nat] /\ pos \in Nat /\ sp \in Nat
      /\ fin \in {0, 1} /\ good \in {0, 1} /\ sz \in Nat
         /\ HashQueue(B, n, S, pos, sp, fin, good, sz)
      /\ b \in BlockType /\ pos1 \in Nat /\ sp1 \in Nat /\ fin1 \in {0, 1} /\ good1 \in {0, 1}
      /\ sp <= sp1 /\ (fin = 1 => fin1 = 1 /\ sp1 = sp) /\ (good1 = 1 => good = 1)
      /\ pos + b.avail = sp1
      /\ (HeadsFor(b, pos, pos1, good1, sz) \/ NoHeadsFor(b, pos, pos1, fin1, sp1))
  BY DEF HashPushCase
<1> USE <1>c
<1> USE LzFindMtAssumption
<1> DEFINE B1 == [B EXCEPT ![n] = b]
           S1 == [S EXCEPT ![n + 1] = pos1]
<1>1. S1 \in [Nat -> Nat] /\ B1 \in [Nat -> BlockType] /\ S1[n + 1] = pos1 /\ B1[n] = b
  OBVIOUS
<1>2. \A j \in 0 .. n : S1[j] = S[j]
  OBVIOUS
<1>3. \A j \in 0 .. n - 1 : B1[j] = B[j]
  OBVIOUS
<1>4. \A j \in Nat : B1[j].avail \in Nat
  BY <1>1 DEF BlockType
<1>4a. \A j \in Nat : B[j].avail \in Nat
  BY DEF BlockType
<1>5. S[n] = pos /\ pos <= pos1 /\ b.avail \in Nat
  BY DEF HashQueue, HeadsFor, NoHeadsFor, BlockType
<1>5a. pos1 <= sp1
  <2>1. CASE HeadsFor(b, pos, pos1, good1, sz)
    <3>1. pos1 - pos <= b.avail /\ b.avail \in Nat
      BY <1>5, <2>1 DEF HeadsFor
    <3>2. QED
      BY <3>1
  <2>2. CASE NoHeadsFor(b, pos, pos1, fin1, sp1)
    <3>1. pos1 = sp1
      BY <2>2 DEF NoHeadsFor
    <3>2. QED
      BY <3>1
  <2>3. QED
    BY <2>1, <2>2
<1> HIDE DEF B1, S1
<1>6. ASSUME NEW j \in 0 .. n
      PROVE  /\ S1[j] + B1[j].avail <= sp1
             /\ HeadsFor(B1[j], S1[j], S1[j + 1], good1, sz) \/ NoHeadsFor(B1[j], S1[j], S1[j + 1], fin1, sp1)
  <2>1. CASE j = n
    BY <1>1, <1>2, <1>5, <2>1
  <2>2. CASE j < n
    <3>1. S1[j] = S[j] /\ S1[j + 1] = S[j + 1] /\ B1[j] = B[j] /\ B[j].avail \in Nat /\ S[j] \in Nat
      BY <1>2, <1>3, <1>4a, <2>2
    <3>2. /\ S[j] + B[j].avail <= sp
          /\ HeadsFor(B[j], S[j], S[j + 1], good, sz) \/ NoHeadsFor(B[j], S[j], S[j + 1], fin, sp)
      BY <2>2 DEF HashQueue
    <3>3. S[j] + B[j].avail <= sp1
      BY <3>1, <3>2
    <3>4. HeadsFor(B[j], S[j], S[j + 1], good, sz) => HeadsFor(B[j], S[j], S[j + 1], good1, sz)
      BY DEF HeadsFor
    <3>5. NoHeadsFor(B[j], S[j], S[j + 1], fin, sp) => NoHeadsFor(B[j], S[j], S[j + 1], fin1, sp1)
      BY DEF NoHeadsFor
    <3>6. QED
      BY <3>1, <3>2, <3>3, <3>4, <3>5
  <2>3. QED
    BY <2>1, <2>2
<1>7. ASSUME NEW i \in 0 .. n + 1, NEW j \in 0 .. n + 1, i <= j PROVE S1[i] <= S1[j]
  <2>1. CASE j <= n
    BY <1>2, <1>7, <2>1 DEF HashQueue
  <2>2. CASE j = n + 1 /\ i <= n
    <3>1. S[i] <= S[n] /\ S1[i] = S[i] /\ S[i] \in Nat
      BY <1>2, <2>2 DEF HashQueue
    <3>2. QED
      BY <1>1, <1>5, <2>2, <3>1
  <2>3. CASE i = n + 1
    BY <1>1, <1>7, <2>3
  <2>4. QED
    BY <2>1, <2>2, <2>3
<1>8. ASSUME NEW i \in 0 .. n, NEW j \in 0 .. n, i <= j
      PROVE  S1[i] + B1[i].avail <= S1[j] + B1[j].avail
  <2>1. CASE j < n
    BY <1>2, <1>3, <1>8, <2>1 DEF HashQueue
  <2>2. CASE j = n
    <3>1. S1[j] + B1[j].avail = sp1
      BY <1>1, <1>2, <1>5, <2>2
    <3>2. S1[i] + B1[i].avail <= sp1
      BY <1>6
    <3>3. QED
      BY <3>1, <3>2
  <2>3. QED
    BY <2>1, <2>2
<1>9. ASSUME fin1 = 0, NEW j \in 0 .. n + 1 PROVE pos1 - S1[j] <= (n + 1 - j) * HashBlockSize
  <2>1. fin = 0 /\ pos1 - pos <= HashBlockSize
    BY <1>9 DEF HeadsFor, NoHeadsFor
  <2>2. CASE j <= n
    <3>1. pos - S[j] <= (n - j) * HashBlockSize /\ S1[j] = S[j] /\ S[j] \in Nat
      BY <1>2, <2>1, <2>2 DEF HashQueue
    <3>2. (n + 1 - j) * HashBlockSize = (n - j) * HashBlockSize + HashBlockSize
      BY Times
    <3>3. (n - j) * HashBlockSize \in Int
      OBVIOUS
    <3>4. QED
      BY <2>1, <3>1, <3>2, <3>3
  <2>3. CASE j = n + 1
    BY <1>1, <2>3
  <2>4. QED
    BY <2>2, <2>3
<1>10. \A j \in 0 .. (n + 1) - 1 : j \in 0 .. n
  OBVIOUS
<1>11. HashQueue(B1, n + 1, S1, pos1, sp1, fin1, good1, sz)
  BY <1>1, <1>6, <1>7, <1>8, <1>9, <1>10 DEF HashQueue
<1>12. QED
  BY <1>11 DEF B1, S1

\* The queue without its first.
Rest(f) == [j \in Nat |-> f[j + 1]]

\* A queue with at least one block.
HashPopCase(B, n, S, pos, sp, fin, good, sz) ==
  /\ B \in [Nat -> BlockType] /\ n \in Nat \ {0} /\ S \in [Nat -> Nat] /\ pos \in Nat
  /\ sp \in Nat /\ fin \in {0, 1} /\ good \in {0, 1} /\ sz \in Nat
  /\ HashQueue(B, n, S, pos, sp, fin, good, sz)

\* The queue without its first block is a queue (LzFindMt.c:122-147).
LEMMA HashPop ==
  ASSUME NEW B, NEW n, NEW S, NEW pos, NEW sp, NEW fin, NEW good, NEW sz,
         HashPopCase(B, n, S, pos, sp, fin, good, sz)
  PROVE  HashQueue(Rest(B), n - 1, Rest(S), pos, sp, fin, good, sz)
<1>c. /\ B \in [Nat -> BlockType] /\ n \in Nat \ {0} /\ S \in [Nat -> Nat] /\ pos \in Nat
      /\ sp \in Nat /\ fin \in {0, 1} /\ good \in {0, 1} /\ sz \in Nat
      /\ HashQueue(B, n, S, pos, sp, fin, good, sz)
  BY DEF HashPopCase
<1> USE <1>c
<1> USE LzFindMtAssumption
<1> DEFINE B1 == Rest(B)
           S1 == Rest(S)
<1>1. \A j \in Nat : B1[j] = B[j + 1] /\ S1[j] = S[j + 1]
  BY DEF Rest
<1> HIDE DEF B1, S1
<1>2. S1[n - 1] = pos
  BY <1>1 DEF HashQueue
<1>3. ASSUME NEW j \in 0 .. (n - 1) - 1
      PROVE  /\ S1[j] + B1[j].avail <= sp
             /\ HeadsFor(B1[j], S1[j], S1[j + 1], good, sz) \/ NoHeadsFor(B1[j], S1[j], S1[j + 1], fin, sp)
  <2>1. j + 1 \in 0 .. n - 1 /\ B1[j] = B[j + 1] /\ S1[j] = S[j + 1] /\ S1[j + 1] = S[(j + 1) + 1]
    BY <1>1
  <2>2. QED
    BY <2>1 DEF HashQueue
<1>4. ASSUME NEW i \in 0 .. n - 1, NEW j \in 0 .. n - 1, i <= j PROVE S1[i] <= S1[j]
  <2>1. i + 1 \in 0 .. n /\ j + 1 \in 0 .. n /\ i + 1 <= j + 1 /\ S1[i] = S[i + 1]
        /\ S1[j] = S[j + 1]
    BY <1>1, <1>4
  <2>2. QED
    BY <2>1 DEF HashQueue
<1>5. ASSUME NEW i \in 0 .. (n - 1) - 1, NEW j \in 0 .. (n - 1) - 1, i <= j
      PROVE S1[i] + B1[i].avail <= S1[j] + B1[j].avail
  <2>1. i + 1 \in 0 .. n - 1 /\ j + 1 \in 0 .. n - 1 /\ i + 1 <= j + 1 /\ S1[i] = S[i + 1]
        /\ S1[j] = S[j + 1]
        /\ B1[i] = B[i + 1] /\ B1[j] = B[j + 1]
    BY <1>1, <1>5
  <2>2. QED
    BY <2>1 DEF HashQueue
<1>6. ASSUME fin = 0, NEW j \in 0 .. n - 1 PROVE pos - S1[j] <= (n - 1 - j) * HashBlockSize
  <2>1. j + 1 \in 0 .. n /\ S1[j] = S[j + 1] /\ n - (j + 1) = n - 1 - j
    BY <1>1
  <2>2. pos - S[j + 1] <= (n - (j + 1)) * HashBlockSize
    BY <1>6, <2>1 DEF HashQueue
  <2>3. QED
    BY <2>1, <2>2
<1>7. HashQueue(B1, n - 1, S1, pos, sp, fin, good, sz)
  BY <1>2, <1>3, <1>4, <1>5, <1>6 DEF HashQueue
<1>8. QED
  BY <1>7 DEF B1, S1

-----------------------------------------------------------------------------
(* The queue of matches: C[0 .. n - 1] are the blocks, T[j] the position     *)
(* that block j starts at, e the end of the last.                            *)

\* The entries of b are those of the positions from s on; only the last positions of
\* a stream have an entry without a search (LzFindMt.c:640-651).
EntriesFrom(b, s, fin, sp) ==
  \A k \in 1 .. Len(b.pos) :
    b.pos[k] = s + k - 1 \/ (fin = 1 /\ b.pos[k] = NoPos /\ s + k - 1 + NumHashBytes > sp)

\* c has the entries of the positions from s up to e, and unless BT failed knows of
\* the bytes that the encoder may look at after them.
MatchesFor(c, s, e, sp, fin, good, sz, bad) ==
  /\ Len(c.pos) = e - s
  /\ EntriesFrom(c, s, fin, sp)
  /\ c.ok /\ good = 1 => s + c.avail >= Min2(e + Lookahead, sz)
  /\ ~ c.ok => bad = 1

\* The blocks of matches follow on one another up to e, a later one knows of no fewer
\* bytes, and each covers no more than the size of a block.
TreeQueue(C, n, T, e, sp, fin, good, sz, bad) ==
  /\ T[n] = e
  /\ \A j \in 0 .. n - 1 : MatchesFor(C[j], T[j], T[j + 1], sp, fin, good, sz, bad)
  /\ \A i, j \in 0 .. n : i <= j => T[i] <= T[j]
  /\ \A i, j \in 0 .. n - 1 : i <= j => T[i] + C[i].avail <= T[j] + C[j].avail
  /\ \A j \in 0 .. n : e - T[j] <= (n - j) * BtBlockSize

\* No block knows of bytes beyond reach.
ReachesTo(C, n, T, reach) == \A j \in 0 .. n - 1 : T[j] + C[j].avail <= reach

\* A block is put at the end of the queue, and knows of at least all that the others
\* do.
TreePushCase(C, n, T, e, sp, fin, good, sz, bad, reach, c, e1, reach1) ==
  /\ C \in [Nat -> BlockType] /\ n \in Nat /\ T \in [Nat -> Nat] /\ e \in Nat /\ sp \in Nat
  /\ fin \in {0, 1} /\ good \in {0, 1} /\ sz \in Nat /\ bad \in {0, 1} /\ reach \in Nat
  /\ TreeQueue(C, n, T, e, sp, fin, good, sz, bad) /\ ReachesTo(C, n, T, reach) /\ c \in BlockType
  /\ e1 \in Nat /\ reach1 \in Nat /\ MatchesFor(c, e, e1, sp, fin, good, sz, bad) /\ e <= e1
  /\ e1 - e <= BtBlockSize /\ reach <= e + c.avail /\ e + c.avail <= reach1

\* The queue with a block put at its end is a queue (LzFindMt.c:736-757).
LEMMA TreePush ==
  ASSUME NEW C, NEW n, NEW T, NEW e, NEW sp, NEW fin, NEW good, NEW sz, NEW bad, NEW reach,
         NEW c, NEW e1, NEW reach1,
         TreePushCase(C, n, T, e, sp, fin, good, sz, bad, reach, c, e1, reach1)
  PROVE  /\ TreeQueue([C EXCEPT ![n] = c], n + 1, [T EXCEPT ![n + 1] = e1], e1, sp, fin, good, sz, bad)
         /\ ReachesTo([C EXCEPT ![n] = c], n + 1, [T EXCEPT ![n + 1] = e1], reach1)
<1>c. /\ C \in [Nat -> BlockType] /\ n \in Nat /\ T \in [Nat -> Nat] /\ e \in Nat /\ sp \in Nat
      /\ fin \in {0, 1} /\ good \in {0, 1} /\ sz \in Nat /\ bad \in {0, 1} /\ reach \in Nat
      /\ TreeQueue(C, n, T, e, sp, fin, good, sz, bad) /\ ReachesTo(C, n, T, reach)
         /\ c \in BlockType
      /\ e1 \in Nat /\ reach1 \in Nat /\ MatchesFor(c, e, e1, sp, fin, good, sz, bad) /\ e <= e1
      /\ e1 - e <= BtBlockSize /\ reach <= e + c.avail /\ e + c.avail <= reach1
  BY DEF TreePushCase
<1> USE <1>c
<1> USE LzFindMtAssumption
<1> DEFINE C1 == [C EXCEPT ![n] = c]
           T1 == [T EXCEPT ![n + 1] = e1]
<1>1. T1 \in [Nat -> Nat] /\ C1 \in [Nat -> BlockType] /\ T1[n + 1] = e1 /\ C1[n] = c
  OBVIOUS
<1>2. \A j \in 0 .. n : T1[j] = T[j]
  OBVIOUS
<1>3. \A j \in 0 .. n - 1 : C1[j] = C[j]
  OBVIOUS
<1>4a. \A j \in Nat : C[j].avail \in Nat
  BY DEF BlockType
<1>5. T[n] = e /\ c.avail \in Nat
  BY DEF TreeQueue, BlockType
<1> HIDE DEF C1, T1
<1>6. ASSUME NEW j \in 0 .. n
      PROVE  MatchesFor(C1[j], T1[j], T1[j + 1], sp, fin, good, sz, bad)
  <2>1. CASE j = n
    BY <1>1, <1>2, <1>5, <2>1
  <2>2. CASE j < n
    <3>1. T1[j] = T[j] /\ T1[j + 1] = T[j + 1] /\ C1[j] = C[j]
      BY <1>2, <1>3, <2>2
    <3>2. MatchesFor(C[j], T[j], T[j + 1], sp, fin, good, sz, bad)
      BY <2>2 DEF TreeQueue
    <3>3. QED
      BY <3>1, <3>2
  <2>3. QED
    BY <2>1, <2>2
<1>7. ASSUME NEW i \in 0 .. n + 1, NEW j \in 0 .. n + 1, i <= j PROVE T1[i] <= T1[j]
  <2>1. CASE j <= n
    BY <1>2, <1>7, <2>1 DEF TreeQueue
  <2>2. CASE j = n + 1 /\ i <= n
    <3>1. T[i] <= T[n] /\ T1[i] = T[i] /\ T[i] \in Nat
      BY <1>2, <2>2 DEF TreeQueue
    <3>2. QED
      BY <1>1, <1>5, <2>2, <3>1
  <2>3. CASE i = n + 1
    BY <1>1, <1>7, <2>3
  <2>4. QED
    BY <2>1, <2>2, <2>3
<1>8. ASSUME NEW i \in 0 .. n PROVE T1[i] + C1[i].avail <= e + c.avail
  <2>1. CASE i < n
    <3>1. T1[i] = T[i] /\ C1[i] = C[i] /\ T[i] \in Nat /\ C[i].avail \in Nat
      BY <1>2, <1>3, <1>4a, <2>1
    <3>2. T[i] + C[i].avail <= reach
      BY <2>1 DEF ReachesTo
    <3>3. QED
      BY <1>5, <3>1, <3>2
  <2>2. CASE i = n
    BY <1>1, <1>2, <1>5, <2>2
  <2>3. QED
    BY <2>1, <2>2
<1>9. ASSUME NEW i \in 0 .. n, NEW j \in 0 .. n, i <= j
      PROVE  T1[i] + C1[i].avail <= T1[j] + C1[j].avail
  <2>1. CASE j < n
    BY <1>2, <1>3, <1>9, <2>1 DEF TreeQueue
  <2>2. CASE j = n
    <3>1. T1[j] + C1[j].avail = e + c.avail
      BY <1>1, <1>2, <1>5, <2>2
    <3>2. QED
      BY <1>8, <3>1
  <2>3. QED
    BY <2>1, <2>2
<1>10. ASSUME NEW j \in 0 .. n + 1 PROVE e1 - T1[j] <= (n + 1 - j) * BtBlockSize
  <2>2. CASE j <= n
    <3>1. e - T[j] <= (n - j) * BtBlockSize /\ T1[j] = T[j] /\ T[j] \in Nat
      BY <1>2, <2>2 DEF TreeQueue
    <3>2. (n + 1 - j) * BtBlockSize = (n - j) * BtBlockSize + BtBlockSize
      BY Times
    <3>3. (n - j) * BtBlockSize \in Int
      OBVIOUS
    <3>4. QED
      BY <3>1, <3>2, <3>3
  <2>3. CASE j = n + 1
    BY <1>1, <2>3
  <2>4. QED
    BY <2>2, <2>3
<1>11. \A j \in 0 .. (n + 1) - 1 : j \in 0 .. n
  OBVIOUS
<1>12. TreeQueue(C1, n + 1, T1, e1, sp, fin, good, sz, bad)
  BY <1>1, <1>6, <1>7, <1>9, <1>10, <1>11 DEF TreeQueue
<1>13. ASSUME NEW i \in 0 .. n PROVE T1[i] + C1[i].avail <= reach1
  <2>0. i \in Nat
    OBVIOUS
  <2>0a. C1[i] \in BlockType /\ T1[i] \in Nat
    BY <1>1, <2>0
  <2>1. T1[i] \in Nat /\ C1[i].avail \in Nat
    BY <2>0a DEF BlockType
  <2>2. T1[i] + C1[i].avail <= e + c.avail
    BY <1>8
  <2>3. QED
    BY <1>5, <2>1, <2>2
<1>14. ReachesTo(C1, n + 1, T1, reach1)
  BY <1>11, <1>13 DEF ReachesTo
<1>15. QED
  BY <1>12, <1>14 DEF C1, T1

\* A queue with at least one block.
TreePopCase(C, n, T, e, sp, fin, good, sz, bad, reach) ==
  /\ C \in [Nat -> BlockType] /\ n \in Nat \ {0} /\ T \in [Nat -> Nat] /\ e \in Nat
  /\ sp \in Nat /\ fin \in {0, 1} /\ good \in {0, 1} /\ sz \in Nat /\ bad \in {0, 1}
  /\ reach \in Nat /\ TreeQueue(C, n, T, e, sp, fin, good, sz, bad) /\ ReachesTo(C, n, T, reach)

\* The queue without its first block is a queue (LzFindMt.c:122-147).
LEMMA TreePop ==
  ASSUME NEW C, NEW n, NEW T, NEW e, NEW sp, NEW fin, NEW good, NEW sz, NEW bad, NEW reach,
         TreePopCase(C, n, T, e, sp, fin, good, sz, bad, reach)
  PROVE  /\ TreeQueue(Rest(C), n - 1, Rest(T), e, sp, fin, good, sz, bad)
         /\ ReachesTo(Rest(C), n - 1, Rest(T), reach)
<1>c. /\ C \in [Nat -> BlockType] /\ n \in Nat \ {0} /\ T \in [Nat -> Nat] /\ e \in Nat
      /\ sp \in Nat /\ fin \in {0, 1} /\ good \in {0, 1} /\ sz \in Nat /\ bad \in {0, 1}
      /\ reach \in Nat /\ TreeQueue(C, n, T, e, sp, fin, good, sz, bad) /\ ReachesTo(C, n, T, reach)
  BY DEF TreePopCase
<1> USE <1>c
<1> USE LzFindMtAssumption
<1> DEFINE C1 == Rest(C)
           T1 == Rest(T)
<1>1. \A j \in Nat : C1[j] = C[j + 1] /\ T1[j] = T[j + 1]
  BY DEF Rest
<1> HIDE DEF C1, T1
<1>2. T1[n - 1] = e
  BY <1>1 DEF TreeQueue
<1>3. ASSUME NEW j \in 0 .. (n - 1) - 1
      PROVE  MatchesFor(C1[j], T1[j], T1[j + 1], sp, fin, good, sz, bad)
             /\ T1[j] + C1[j].avail <= reach
  <2>1. j + 1 \in 0 .. n - 1 /\ C1[j] = C[j + 1] /\ T1[j] = T[j + 1] /\ T1[j + 1] = T[(j + 1) + 1]
    BY <1>1
  <2>2. QED
    BY <2>1 DEF TreeQueue, ReachesTo
<1>4. ASSUME NEW i \in 0 .. n - 1, NEW j \in 0 .. n - 1, i <= j PROVE T1[i] <= T1[j]
  <2>1. i + 1 \in 0 .. n /\ j + 1 \in 0 .. n /\ i + 1 <= j + 1 /\ T1[i] = T[i + 1]
        /\ T1[j] = T[j + 1]
    BY <1>1, <1>4
  <2>2. QED
    BY <2>1 DEF TreeQueue
<1>5. ASSUME NEW i \in 0 .. (n - 1) - 1, NEW j \in 0 .. (n - 1) - 1, i <= j
      PROVE T1[i] + C1[i].avail <= T1[j] + C1[j].avail
  <2>1. i + 1 \in 0 .. n - 1 /\ j + 1 \in 0 .. n - 1 /\ i + 1 <= j + 1 /\ T1[i] = T[i + 1]
        /\ T1[j] = T[j + 1]
        /\ C1[i] = C[i + 1] /\ C1[j] = C[j + 1]
    BY <1>1, <1>5
  <2>2. QED
    BY <2>1 DEF TreeQueue
<1>6. ASSUME NEW j \in 0 .. n - 1 PROVE e - T1[j] <= (n - 1 - j) * BtBlockSize
  <2>1. j + 1 \in 0 .. n /\ T1[j] = T[j + 1] /\ n - (j + 1) = n - 1 - j
    BY <1>1
  <2>2. e - T[j + 1] <= (n - (j + 1)) * BtBlockSize
    BY <2>1 DEF TreeQueue
  <2>3. QED
    BY <2>1, <2>2
<1>7. TreeQueue(C1, n - 1, T1, e, sp, fin, good, sz, bad) /\ ReachesTo(C1, n - 1, T1, reach)
  BY <1>2, <1>3, <1>4, <1>5, <1>6 DEF TreeQueue, ReachesTo
<1>8. QED
  BY <1>7 DEF C1, T1

\* More of the stream is read, its end is reached, a read or BT fails.
TreeGrowCase(C, n, T, e, sp, fin, good, sz, bad, sp1, fin1, good1, bad1) ==
  /\ C \in [Nat -> BlockType] /\ n \in Nat /\ T \in [Nat -> Nat] /\ e \in Nat /\ sp \in Nat
  /\ fin \in {0, 1} /\ good \in {0, 1} /\ sz \in Nat /\ bad \in {0, 1}
  /\ TreeQueue(C, n, T, e, sp, fin, good, sz, bad) /\ sp1 \in Nat /\ fin1 \in {0, 1}
  /\ good1 \in {0, 1} /\ bad1 \in {0, 1} /\ (fin = 1 => fin1 = 1 /\ sp1 = sp)
  /\ (good1 = 1 => good = 1) /\ (bad = 1 => bad1 = 1)

\* The queue stays a queue when more is read or something fails: a search was left out
\* only at an end that does not move any more.
LEMMA TreeGrow ==
  ASSUME NEW C, NEW n, NEW T, NEW e, NEW sp, NEW fin, NEW good, NEW sz, NEW bad, NEW sp1,
         NEW fin1, NEW good1, NEW bad1,
         TreeGrowCase(C, n, T, e, sp, fin, good, sz, bad, sp1, fin1, good1, bad1)
  PROVE  TreeQueue(C, n, T, e, sp1, fin1, good1, sz, bad1)
<1>c. /\ C \in [Nat -> BlockType] /\ n \in Nat /\ T \in [Nat -> Nat] /\ e \in Nat /\ sp \in Nat
      /\ fin \in {0, 1} /\ good \in {0, 1} /\ sz \in Nat /\ bad \in {0, 1}
      /\ TreeQueue(C, n, T, e, sp, fin, good, sz, bad) /\ sp1 \in Nat /\ fin1 \in {0, 1}
      /\ good1 \in {0, 1} /\ bad1 \in {0, 1} /\ (fin = 1 => fin1 = 1 /\ sp1 = sp)
      /\ (good1 = 1 => good = 1) /\ (bad = 1 => bad1 = 1)
  BY DEF TreeGrowCase
<1> USE <1>c
<1>1. \A j \in 0 .. n - 1 : MatchesFor(C[j], T[j], T[j + 1], sp, fin, good, sz, bad)
  BY DEF TreeQueue
<1>2. ASSUME NEW j \in 0 .. n - 1
    PROVE MatchesFor(C[j], T[j], T[j + 1], sp1, fin1, good1, sz, bad1)
  <2>1. MatchesFor(C[j], T[j], T[j + 1], sp, fin, good, sz, bad)
    BY <1>1
  <2>2. EntriesFrom(C[j], T[j], fin1, sp1)
    BY <2>1 DEF MatchesFor, EntriesFrom
  <2>3. QED
    BY <2>1, <2>2 DEF MatchesFor
<1>3. QED
  BY <1>2 DEF TreeQueue

-----------------------------------------------------------------------------
(* What BT takes from the queue of heads, and the invariant of the data.     *)

\* BT works through the queue: at the head number "used" of the first block when it has
\* it, at the start of the first one otherwise; the bytes it knows of are its block's.
TakesHeads(B, n, S, locked, at, used, avail, sp) ==
  /\ locked = 1 =>
       /\ B[0].avail >= NumHashBytes /\ at = S[0] + used
       /\ used <= Len(B[0].pos) /\ avail = B[0].avail - used
  /\ locked = 0 =>
       /\ used = 0 /\ at = S[0]
       /\ \A j \in 0 .. n - 1 : at + avail <= S[j] + B[j].avail
       /\ at + avail <= sp

\* BT has told of all of the stream: the blocks that the hash thread still fills are
\* empty, and BT goes on taking them (LzFindMt.c:632-651).
AllTaken(B, n, locked, at, used, avail, pos, sp, fin, bad) ==
  /\ fin = 1 /\ pos = sp /\ at <= sp /\ avail = 0 /\ used = 0 /\ bad = 0
  /\ locked = 1 => B[0].pos = <<>>
  /\ \A j \in 0 .. n - 1 : (j = 0 /\ locked = 1) \/ B[j].avail = 0

\* Ended, as a number, to be a parameter of the queues.
Fin == Count(Ended)

\* No read has failed, as a number.
Good == Count(readResult = "ok")

\* BT has failed, as a number.
Bad == Count(failure_BT)

\* BT has a block of heads, as a number.
BtHas == Count(BtHasHeads)

\* The queue of heads is what the ring has from the block on that BT takes next.
HashRingHolds(B) == \A j \in 0 .. HeadsAhead - 1 : B[j] = hashBuf[Ring(hashBi + j, HashNumBlocks)]

\* The queue of matches is what the ring has from the block on that LZ takes next.
TreeRingHolds(C) == \A j \in 0 .. BlocksAhead - 1 : C[j] = btBuf[Ring(btBi + j, BtNumBlocks)]

\* The blocks of heads ahead are the queue B, from the positions S.
HashData(B, S) ==
  HashRingHolds(B) /\ HashQueue(B, HeadsAhead, S, Pos, streamPos, Fin, Good, size)

\* BT takes them from the queue, or has taken all that there is to take. A failure of
\* BT is before the end of the stream.
TakeData(B, S, spent) ==
  /\ spent = 0 =>
       /\ TakesHeads(B, HeadsAhead, S, BtHas, BtPos, hashBufPos, hashNumAvail, streamPos)
       /\ btPc = "end" => failure_BT
       /\ failure_BT => BtPos < size
  /\ spent = 1 =>
       AllTaken(B, HeadsAhead, BtHas, BtPos, hashBufPos, hashNumAvail, Pos, streamPos, Fin, Bad)

\* The blocks of matches ahead are the queue C, from the positions T, up to e.
TreeData(C, T, e) ==
  /\ TreeRingHolds(C) /\ TreeQueue(C, BlocksAhead, T, e, streamPos, Fin, Good, size, Bad)
  /\ ReachesTo(C, BlocksAhead, T, e + Future) /\ e + Future <= streamPos

\* LZ is in the first block of matches, or at its start when it waits for it.
LzData(C, T, e) ==
  /\ lzPc \in {"run", "got", "finish"} =>
       /\ At >= T[0] /\ At + btNumAvailBytes = T[0] + C[0].avail
       /\ failure_LZ_BT <=> ~ C[0].ok
       /\ ~ failure_LZ_BT => At = T[0] + btBufPos /\ btBufPos <= Len(C[0].pos)
       /\ lzPc = "run" => ~ failure_LZ_BT
  /\ lzPc \in {"wait", "lock"} =>
       /\ At = T[0] /\ btBufPos = 0
       /\ \A j \in 0 .. BlocksAhead - 1 : At + btNumAvailBytes <= T[j] + C[j].avail
       /\ At + btNumAvailBytes <= e + Future

\* What BT has put into the block it fills continues the queue of matches at e; after
\* the last heads the block has the rest of the stream, and then nothing.
BtData(e, spent) ==
  /\ spent = 0 => /\ btPc = "top" => e = BtPos
                  /\ Producing("bt") => Follows(e)
  /\ spent = 1 => /\ btPc = "top" => e = streamPos
                  /\ btPc \in {"lockBlock", "fill", "wait", "lock"} =>
                       e = streamPos /\ d.pos = <<>> /\ numProcessed = 0 /\ d.avail = 0
                  /\ btPc = "end" =>
                       /\ e + Len(d.pos) = streamPos /\ e + d.avail = streamPos
                       /\ EntriesFrom(d, e, Fin, streamPos)

\* The queues agree with one another and with both threads.
AllData(B, S, C, T, e, spent) ==
  /\ HashData(B, S) /\ TakeData(B, S, spent)
  /\ BtOn => TreeData(C, T, e) /\ LzData(C, T, e) /\ BtData(e, spent)

\* The rings hold such queues.
SomeData ==
  \E B \in [Nat -> BlockType], S \in [Nat -> Nat], C \in [Nat -> BlockType], T \in [Nat -> Nat],
     e \in Nat, spent \in {0, 1} : AllData(B, S, C, T, e, spent)

\* The inductive invariant of the data, beside Control: the types; while the hash thread
\* runs, the rings hold what they should; before that the file is as it was opened; and
\* no move of the buffer took away what is still needed.
DataInv ==
  /\ Buffer /\ DataTypes
  /\ HashOn => HashRing /\ HistoryKept /\ SomeData
  /\ HashOn /\ BtOn => TreeRing
  /\ needStart["hash"] /\ LzNeedsBlocks => Fresh
  /\ needStart["hash"] /\ BtOn => FreshBt
  /\ needStart["bt"] /\ lzPc = "run" => FreshLz
  /\ LzPlace

-----------------------------------------------------------------------------
(* The places of the threads while the rings are in use, and the frames of   *)
(* the parts of the invariant.                                               *)

\* Count is one for what is true.
LEMMA CountValue == ASSUME NEW b
       PROVE Count(b) \in {0, 1} /\ (Count(b) = 1 <=> b) /\ (Count(b) = 0 <=> ~ b)
BY DEF Count

\* Fin is one when the stream has ended.
LEMMA FinValue == Fin \in {0, 1} /\ (Fin = 1 <=> Ended) /\ (Fin = 0 <=> ~ Ended)
BY DEF Count, Fin

\* Good is one as long as no read has failed.
LEMMA GoodValue == Good \in {0, 1} /\ (Good = 1 <=> readResult = "ok")
/\ (Good = 0 <=> readResult # "ok")
BY DEF Count, Good

\* Bad is one when BT has failed.
LEMMA BadValue == Bad \in {0, 1} /\ (Bad = 1 <=> failure_BT) /\ (Bad = 0 <=> ~ failure_BT)
BY DEF Count, Bad

\* BtHas is one when BT has heads.
LEMMA BtHasValue == BtHas \in {0, 1} /\ (BtHas = 1 <=> BtHasHeads) /\ (BtHas = 0 <=> ~ BtHasHeads)
BY DEF Count, BtHas

\* Where the threads are while the hash thread is in use, and how many blocks are ahead
\* of BT (from Control).
LEMMA HashOnPlaces ==
  ASSUME Control, HashOn
  PROVE  /\ btPc \in {"wait", "lock", "fill", "end", "top", "lockBlock"}
         /\ hashPc \in {"start", "top", "enter"} /\ ~ exit["hash"] /\ ~ needStart["bt"]
         /\ lzPc \in {"run", "wait", "lock", "got", "finish", "stop"}
         /\ lzPc # "stop" => BtOn
         /\ free["hash"] \in Nat /\ filled["hash"] \in Nat /\ HeadsAhead \in Nat
         /\ free["hash"] + HeadsAhead = HashNumBlocks
         /\ btPc # "wait" => HeadsAhead = filled["hash"] + 1
         /\ btPc = "wait" => HeadsAhead = filled["hash"]
         /\ hashPc = "start" <=> canStart["hash"]
<1> USE DEF Control, ControlTypes, HashOn, BtOn, Sync
<1>1. btPc \in {"wait", "lock", "fill", "end", "top", "lockBlock"}
      /\ hashPc \in {"start", "top", "enter"} /\ ~ exit["hash"]
      /\ (hashPc = "start" <=> canStart["hash"])
  BY DEF HashHandshake
<1>2. ~ needStart["bt"]
  BY <1>1 DEF BtHandshake
<1>3. lzPc \in {"run", "wait", "lock", "got", "finish", "stop"} /\ (lzPc # "stop" => BtOn)
  BY <1>2 DEF BtHandshake
<1>4. free["hash"] \in Nat /\ filled["hash"] \in Nat
  OBVIOUS
<1>5. free["hash"] + filled["hash"] + Count(Producing("hash")) + Count(InUse("hash")) = HashNumBlocks
  BY DEF Rings, BlocksAccounted, NumBlocks
<1>6. Count(Producing("hash")) = 0
  BY DEF Count, Producing
<1>7. Count(InUse("hash")) = IF btPc = "wait" THEN 0 ELSE 1
  BY <1>1 DEF Count, InUse
<1>8. HeadsAhead \in Nat /\ free["hash"] + HeadsAhead = HashNumBlocks
  BY <1>4, <1>5, <1>6, <1>7 DEF HeadsAhead
<1>9. (btPc # "wait" => HeadsAhead = filled["hash"] + 1)
      /\ (btPc = "wait" => HeadsAhead = filled["hash"])
  BY <1>4, <1>7 DEF HeadsAhead
<1>10. QED
  BY <1>1, <1>2, <1>3, <1>4, <1>8, <1>9

\* Where the threads are while the tree thread is in use, and how many blocks are ahead
\* of LZ (from Control).
LEMMA BtOnPlaces ==
  ASSUME Control, BtOn
  PROVE  /\ lzPc \in {"run", "wait", "lock", "got", "finish"} /\ ~ needStart["bt"]
            /\ btPc # "stopHash"
         /\ needStart["hash"] \/ HashOn
         /\ free["bt"] \in Nat /\ filled["bt"] \in Nat /\ BlocksAhead \in Nat
         /\ free["bt"] + BlocksAhead + Count(Producing("bt")) = BtNumBlocks
         /\ lzPc # "wait" => BlocksAhead = filled["bt"] + 1
         /\ lzPc = "wait" => BlocksAhead = filled["bt"]
<1> USE DEF Control, ControlTypes, HashOn, BtOn, Sync
<1>1. lzPc \in {"run", "wait", "lock", "got", "finish"} /\ ~ needStart["bt"] /\ btPc # "stopHash"
  BY DEF BtHandshake
<1>2. needStart["hash"] \/ HashOn
  BY <1>1 DEF HashHandshake
<1>4. free["bt"] \in Nat /\ filled["bt"] \in Nat
  OBVIOUS
<1>5. free["bt"] + filled["bt"] + Count(Producing("bt")) + Count(InUse("bt")) = BtNumBlocks
  BY DEF Rings, BlocksAccounted, NumBlocks
<1>6. Count(Producing("bt")) \in {0, 1}
  BY CountValue
<1>7. Count(InUse("bt")) = IF lzPc = "wait" THEN 0 ELSE 1
  BY <1>1 DEF Count, InUse
<1>8. BlocksAhead \in Nat /\ free["bt"] + BlocksAhead + Count(Producing("bt")) = BtNumBlocks
  BY <1>4, <1>5, <1>6, <1>7 DEF BlocksAhead
<1>9. (lzPc # "wait" => BlocksAhead = filled["bt"] + 1)
      /\ (lzPc = "wait" => BlocksAhead = filled["bt"])
  BY <1>4, <1>7 DEF BlocksAhead
<1>10. QED
  BY <1>1, <1>2, <1>4, <1>8, <1>9

\* The queue of heads is kept by what touches neither its ring nor the stream.
LEMMA FrameHash ==
  ASSUME NEW B, NEW S, HashData(B, S), UNCHANGED <<hashBuf, hashBi, streamPos, size>>,
         Fin' = Fin, Good' = Good, Pos' = Pos, HeadsAhead' = HeadsAhead
  PROVE  HashData(B, S)'
BY DEF HashData, HashRingHolds

\* So is the place of BT in it,
LEMMA FrameTake ==
  ASSUME NEW B, NEW S, NEW spent, TakeData(B, S, spent),
         UNCHANGED <<hashBufPos, hashNumAvail, streamPos, size, failure_BT>>,
         Fin' = Fin, BtHas' = BtHas, Pos' = Pos, BtPos' = BtPos, HeadsAhead' = HeadsAhead,
         btPc' = "end" => btPc = "end"
  PROVE  TakeData(B, S, spent)'
BY DEF TakeData, Bad

\* the queue of matches,
LEMMA FrameTree ==
  ASSUME NEW C, NEW T, NEW e, TreeData(C, T, e), UNCHANGED <<btBuf, btBi, streamPos, size,
         failure_BT>>,
         Fin' = Fin, Good' = Good, BlocksAhead' = BlocksAhead, Future' = Future
  PROVE  TreeData(C, T, e)'
BY DEF TreeData, TreeRingHolds, Bad

\* the place of LZ in it,
LEMMA FrameLz ==
  ASSUME NEW C, NEW T, NEW e, LzData(C, T, e),
         UNCHANGED <<lzPc, btBufPos, btNumAvailBytes, failure_LZ_BT, lzPos>>,
         BlocksAhead' = BlocksAhead, Future' = Future
  PROVE  LzData(C, T, e)'
BY DEF LzData, At

\* and the block that BT fills.
LEMMA FrameBt ==
  ASSUME NEW e, NEW spent, BtData(e, spent),
         UNCHANGED <<btPc, d, numProcessed, streamPos, hashNumAvail>>,
         Fin' = Fin, BtPos' = BtPos
  PROVE  BtData(e, spent)'
BY DEF BtData, Follows, Producing

-----------------------------------------------------------------------------
(* The steps that move no block.                                             *)

\* The types of the fields of a block.
LEMMA BlockFields == ASSUME NEW b \in BlockType
  PROVE b.pos \in Seq(Int) /\ Len(b.pos) \in Nat /\ b.avail \in Nat /\ b.ok \in BOOLEAN
<1>1. b.pos \in Seq(Int) /\ b.avail \in Nat /\ b.ok \in BOOLEAN
  BY DEF BlockType
<1>2. QED
  BY <1>1

\* Queues of the next state are enough for SomeData of the next state.
LEMMA Collect ==
  ASSUME NEW B \in [Nat -> BlockType], NEW S \in [Nat -> Nat], NEW C \in [Nat -> BlockType],
         NEW T \in [Nat -> Nat], NEW e \in Nat, NEW spent \in {0, 1},
         HashData(B, S)', TakeData(B, S, spent)',
         BtOn' => TreeData(C, T, e)' /\ LzData(C, T, e)' /\ BtData(e, spent)'
  PROVE  SomeData'
<1>1. AllData(B, S, C, T, e, spent)'
  BY DEF AllData
<1>2. QED
  BY <1>1 DEF SomeData

\* The hash thread begins its run (LzFindMt.c:455-465).
LEMMA DataHashStart == ASSUME Control, DataInv, HashOn, HashStart PROVE SomeData'
<1> USE DEF hashVars, mfVars, takeVars, btLocals, lzVars, fileVars, syncVars
<1>0. PICK B \in [Nat -> BlockType], S \in [Nat -> Nat], C \in [Nat -> BlockType], T \in [Nat -> Nat],
          e \in Nat, spent \in {0, 1} : AllData(B, S, C, T, e, spent)
  BY DEF DataInv, SomeData
<1>1. HashData(B, S) /\ TakeData(B, S, spent)
      /\ (BtOn => TreeData(C, T, e) /\ LzData(C, T, e) /\ BtData(e, spent))
  BY <1>0 DEF AllData
<1>2. Fin' = Fin /\ Good' = Good /\ Pos' = Pos /\ BtPos' = BtPos
  BY DEF HashStart, Fin, Good, Ended, Pos, BtPos
<1>3. HeadsAhead' = HeadsAhead /\ BtHas' = BtHas
  BY DEF HashStart, HeadsAhead, InUse, BtHas, BtHasHeads, Count
<1>4. HashData(B, S)'
  BY <1>1, <1>2, <1>3, FrameHash DEF HashStart
<1>5. TakeData(B, S, spent)'
  BY <1>1, <1>2, <1>3, FrameTake DEF HashStart
<1>6. BtOn' => BtOn
  BY DEF HashStart, BtOn
<1>7. BlocksAhead' = BlocksAhead /\ Future' = Future
  BY DEF HashStart, BlocksAhead, InUse, Count, Future, Producing
<1>8. BtOn => TreeData(C, T, e)'
  BY <1>1, <1>2, <1>7, FrameTree DEF HashStart
<1>9. BtOn => LzData(C, T, e)'
  BY <1>1, <1>7, FrameLz DEF HashStart
<1>10. BtOn => BtData(e, spent)'
  BY <1>1, <1>2, FrameBt DEF HashStart
<1>11. QED
  BY <1>4, <1>5, <1>6, <1>8, <1>9, <1>10, Collect

\* The hash thread takes the encoder's lock to move the buffer (LzFindMt.c:471-476).
LEMMA DataEnterBt == ASSUME Control, DataInv, HashOn, EnterBt PROVE SomeData'
<1> USE DEF hashVars, mfVars, takeVars, btLocals, lzVars, fileVars, syncVars
<1>0. PICK B \in [Nat -> BlockType], S \in [Nat -> Nat], C \in [Nat -> BlockType], T \in [Nat -> Nat],
          e \in Nat, spent \in {0, 1} : AllData(B, S, C, T, e, spent)
  BY DEF DataInv, SomeData
<1>1. HashData(B, S) /\ TakeData(B, S, spent)
      /\ (BtOn => TreeData(C, T, e) /\ LzData(C, T, e) /\ BtData(e, spent))
  BY <1>0 DEF AllData
<1>2. Fin' = Fin /\ Good' = Good /\ Pos' = Pos /\ BtPos' = BtPos
  BY DEF EnterBt, Fin, Good, Ended, Pos, BtPos
<1>3. HeadsAhead' = HeadsAhead /\ BtHas' = BtHas
  BY DEF EnterBt, HeadsAhead, InUse, BtHas, BtHasHeads, Count
<1>4. HashData(B, S)'
  BY <1>1, <1>2, <1>3, FrameHash DEF EnterBt
<1>5. TakeData(B, S, spent)'
  BY <1>1, <1>2, <1>3, FrameTake DEF EnterBt
<1>6. BtOn' => BtOn
  BY DEF EnterBt, BtOn
<1>7. BlocksAhead' = BlocksAhead /\ Future' = Future
  BY DEF EnterBt, BlocksAhead, InUse, Count, Future, Producing
<1>8. BtOn => TreeData(C, T, e)'
  BY <1>1, <1>2, <1>7, FrameTree DEF EnterBt
<1>9. BtOn => LzData(C, T, e)'
  BY <1>1, <1>7, FrameLz DEF EnterBt
<1>10. BtOn => BtData(e, spent)'
  BY <1>1, <1>2, FrameBt DEF EnterBt
<1>11. QED
  BY <1>4, <1>5, <1>6, <1>8, <1>9, <1>10, Collect

\* A move is by a number of bytes.
LEMMA MoveOffsetType == ASSUME Buffer PROVE MoveOffset \in Int
<1>1. mfBuffer - KeepBefore \in Int
  BY LzFindMtAssumption DEF Buffer, KeepBefore
<1>2. (mfBuffer - KeepBefore) % MoveAlign \in Int
  BY <1>1, LzFindMtAssumption
<1>3. QED
  BY <1>1, <1>2 DEF MoveOffset

\* The move changes where positions are in the buffer and no position
\* (LzFindMt.c:476-488).
LEMMA DataMove == ASSUME Control, DataInv, HashOn, Move PROVE SomeData'
<1> USE DEF hashVars, mfVars, takeVars, btLocals, lzVars, fileVars, syncVars
<1>0. PICK B \in [Nat -> BlockType], S \in [Nat -> Nat], C \in [Nat -> BlockType], T \in [Nat -> Nat],
          e \in Nat, spent \in {0, 1} : AllData(B, S, C, T, e, spent)
  BY DEF DataInv, SomeData
<1>1. HashData(B, S) /\ TakeData(B, S, spent)
      /\ (BtOn => TreeData(C, T, e) /\ LzData(C, T, e) /\ BtData(e, spent))
  BY <1>0 DEF AllData
<1>a. base' = base + MoveOffset /\ mfBuffer' = mfBuffer - MoveOffset
      /\ btBuffer' = btBuffer - MoveOffset
  BY DEF Move, Moved
<1>b. MoveOffset \in Int /\ base \in Int /\ mfBuffer \in Int /\ btBuffer \in Int
  BY MoveOffsetType DEF DataInv, DataTypes, Buffer, BtTypes
<1>2. Fin' = Fin /\ Good' = Good /\ Pos' = Pos /\ BtPos' = BtPos
  BY <1>a, <1>b DEF Move, Fin, Good, Ended, Pos, BtPos
<1>3. HeadsAhead' = HeadsAhead /\ BtHas' = BtHas
  BY DEF Move, HeadsAhead, InUse, BtHas, BtHasHeads, Count
<1>4. HashData(B, S)'
  BY <1>1, <1>2, <1>3, FrameHash DEF Move
<1>5. TakeData(B, S, spent)'
  BY <1>1, <1>2, <1>3, FrameTake DEF Move
<1>6. BtOn' => BtOn
  BY DEF Move, BtOn
<1>7. BlocksAhead' = BlocksAhead /\ Future' = Future
  BY DEF Move, BlocksAhead, InUse, Count, Future, Producing
<1>8. BtOn => TreeData(C, T, e)'
  BY <1>1, <1>2, <1>7, FrameTree DEF Move
<1>9. BtOn => LzData(C, T, e)'
  BY <1>1, <1>7, FrameLz DEF Move
<1>10. BtOn => BtData(e, spent)'
  BY <1>1, <1>2, FrameBt DEF Move
<1>11. QED
  BY <1>4, <1>5, <1>6, <1>8, <1>9, <1>10, Collect

\* LZ gets a filled block from the semaphore (LzFindMt.c:144).
LEMMA DataTakeBlock == ASSUME Control, DataInv, HashOn, TakeBlock PROVE SomeData'
<1> USE DEF hashVars, mfVars, takeVars, btLocals, lzVars, fileVars, syncVars
<1>0. PICK B \in [Nat -> BlockType], S \in [Nat -> Nat], C \in [Nat -> BlockType], T \in [Nat -> Nat],
          e \in Nat, spent \in {0, 1} : AllData(B, S, C, T, e, spent)
  BY DEF DataInv, SomeData
<1>1. HashData(B, S) /\ TakeData(B, S, spent)
      /\ (BtOn => TreeData(C, T, e) /\ LzData(C, T, e) /\ BtData(e, spent))
  BY <1>0 DEF AllData
<1>f. filled \in [Sync -> Nat] /\ Sync = {"hash", "bt"}
  BY DEF Control, ControlTypes, Sync
<1>2. Fin' = Fin /\ Good' = Good /\ Pos' = Pos /\ BtPos' = BtPos
  BY DEF TakeBlock, Fin, Good, Ended, Pos, BtPos
<1>3. HeadsAhead' = HeadsAhead /\ BtHas' = BtHas
  BY DEF TakeBlock, HeadsAhead, InUse, BtHas, BtHasHeads, Count
<1>4. HashData(B, S)'
  BY <1>1, <1>2, <1>3, FrameHash DEF TakeBlock
<1>5. TakeData(B, S, spent)'
  BY <1>1, <1>2, <1>3, FrameTake DEF TakeBlock
<1>6. BtOn' => BtOn
  BY DEF TakeBlock, BtOn
<1>7. BlocksAhead' = BlocksAhead /\ Future' = Future
  BY <1>f DEF TakeBlock, BlocksAhead, InUse, Count, Future, Producing
<1>8. BtOn => TreeData(C, T, e)'
  BY <1>1, <1>2, <1>7, FrameTree DEF TakeBlock
<1>9. BtOn => LzData(C, T, e)'
  BY <1>1, <1>7 DEF TakeBlock, LzData, At
<1>10. BtOn => BtData(e, spent)'
  BY <1>1, <1>2, FrameBt DEF TakeBlock
<1>11. QED
  BY <1>4, <1>5, <1>6, <1>8, <1>9, <1>10, Collect

\* LZ locks it and reads its numbers (LzFindMt.c:960-977).
LEMMA DataLockBt == ASSUME Control, DataInv, HashOn, LockBt PROVE SomeData'
<1> USE DEF hashVars, mfVars, takeVars, btLocals, lzVars, fileVars, syncVars
<1>0. PICK B \in [Nat -> BlockType], S \in [Nat -> Nat], C \in [Nat -> BlockType], T \in [Nat -> Nat],
          e \in Nat, spent \in {0, 1} : AllData(B, S, C, T, e, spent)
  BY DEF DataInv, SomeData
<1>1. HashData(B, S) /\ TakeData(B, S, spent)
      /\ (BtOn => TreeData(C, T, e) /\ LzData(C, T, e) /\ BtData(e, spent))
  BY <1>0 DEF AllData
<1>a. BtOn /\ BlocksAhead >= 1 /\ BlocksAhead \in Nat /\ lzPc = "lock"
  BY HashOnPlaces, BtOnPlaces DEF LockBt, ControlTypes, Control, Sync
<1>b. C[0] = btBuf[btBi] /\ C[0] \in BlockType
  <2>1. 0 \in 0 .. BlocksAhead - 1 /\ btBi \in 0 .. BtNumBlocks - 1
    BY <1>a DEF DataInv, DataTypes, RingTypes
  <2>2. Ring(btBi + 0, BtNumBlocks) = btBi
    BY <2>1, LzFindMtAssumption DEF Ring
  <2>3. QED
    BY <1>1, <1>a, <2>1, <2>2 DEF TreeData, TreeRingHolds
<1>2. Fin' = Fin /\ Good' = Good /\ Pos' = Pos /\ BtPos' = BtPos
  BY DEF LockBt, Fin, Good, Ended, Pos, BtPos
<1>3. HeadsAhead' = HeadsAhead /\ BtHas' = BtHas
  BY DEF LockBt, HeadsAhead, InUse, BtHas, BtHasHeads, Count
<1>4. HashData(B, S)'
  BY <1>1, <1>2, <1>3, FrameHash DEF LockBt
<1>5. TakeData(B, S, spent)'
  BY <1>1, <1>2, <1>3, FrameTake DEF LockBt
<1>6. BtOn' => BtOn
  BY DEF LockBt, BtOn, Lock
<1>7. BlocksAhead' = BlocksAhead /\ Future' = Future
  BY DEF LockBt, Lock, BlocksAhead, InUse, Count, Future, Producing
<1>8. BtOn => TreeData(C, T, e)'
  BY <1>1, <1>2, <1>7, FrameTree DEF LockBt
<1>9. LzData(C, T, e)'
  <2>1. /\ lzPc' = "got" /\ btNumAvailBytes' = C[0].avail /\ (failure_LZ_BT' <=> ~ C[0].ok)
        /\ UNCHANGED <<btBufPos, lzPos>>
    BY <1>b DEF LockBt
  <2>2. At = T[0] /\ btBufPos = 0
    BY <1>1, <1>a DEF LzData
  <2>3. Len(C[0].pos) \in Nat /\ T[0] \in Nat /\ C[0].avail \in Nat
    BY <1>b, BlockFields
  <2>3a. failure_LZ_BT' \in BOOLEAN /\ (failure_LZ_BT' <=> ~ C[0].ok)
    BY <1>b, <2>1, BlockFields DEF LockBt
  <2>4. At' = T[0] /\ btBufPos' = 0
    BY <2>1, <2>2 DEF At
  <2>5. At' >= T[0] /\ At' + btNumAvailBytes' = T[0] + C[0].avail
    BY <2>1, <2>3, <2>4
  <2>6. At' = T[0] + btBufPos' /\ btBufPos' <= Len(C[0].pos)
    BY <2>3, <2>4
  <2>7. QED
    BY <2>1, <2>3a, <2>5, <2>6 DEF LzData
<1>10. BtOn => BtData(e, spent)'
  BY <1>1, <1>2, FrameBt DEF LockBt
<1>11. QED
  BY <1>4, <1>5, <1>6, <1>8, <1>9, <1>10, Collect

\* LZ takes the next entry (LzFindMt.c:1282-1346).
LEMMA DataAdvance == ASSUME Control, DataInv, HashOn, Advance PROVE SomeData'
<1> USE DEF hashVars, mfVars, takeVars, btLocals, lzVars, fileVars, syncVars
<1>0. PICK B \in [Nat -> BlockType], S \in [Nat -> Nat], C \in [Nat -> BlockType], T \in [Nat -> Nat],
          e \in Nat, spent \in {0, 1} : AllData(B, S, C, T, e, spent)
  BY DEF DataInv, SomeData
<1>1. HashData(B, S) /\ TakeData(B, S, spent)
      /\ (BtOn => TreeData(C, T, e) /\ LzData(C, T, e) /\ BtData(e, spent))
  BY <1>0 DEF AllData
<1>2. Fin' = Fin /\ Good' = Good /\ Pos' = Pos /\ BtPos' = BtPos
  BY DEF Advance, Fin, Good, Ended, Pos, BtPos
<1>3. HeadsAhead' = HeadsAhead /\ BtHas' = BtHas
  BY DEF Advance, HeadsAhead, InUse, BtHas, BtHasHeads, Count
<1>4. HashData(B, S)'
  BY <1>1, <1>2, <1>3, FrameHash DEF Advance
<1>5. TakeData(B, S, spent)'
  BY <1>1, <1>2, <1>3, FrameTake DEF Advance
<1>6. BtOn' => BtOn
  BY DEF Advance, BtOn
<1>7. BlocksAhead' = BlocksAhead /\ Future' = Future
  BY DEF Advance, BlocksAhead, InUse, Count, Future, Producing
<1>8. BtOn => TreeData(C, T, e)'
  BY <1>1, <1>2, <1>7, FrameTree DEF Advance
<1>9. LzData(C, T, e)'
  <2>0. BtOn /\ BlocksAhead >= 1 /\ BlocksAhead \in Nat /\ lzPc \in {"run", "got"}
    BY HashOnPlaces, BtOnPlaces DEF Advance, ControlTypes, Control, Sync
  <2>1. C[0] = btBuf[btBi] /\ C[0] \in BlockType
    <3>1. 0 \in 0 .. BlocksAhead - 1 /\ btBi \in 0 .. BtNumBlocks - 1
      BY <2>0 DEF DataInv, DataTypes, RingTypes
    <3>2. Ring(btBi + 0, BtNumBlocks) = btBi
      BY <3>1, LzFindMtAssumption DEF Ring
    <3>3. QED
      BY <1>1, <2>0, <3>1, <3>2 DEF TreeData, TreeRingHolds
  <2>2. lzPos \in Nat /\ btBufPos \in Nat /\ btNumAvailBytes \in Nat /\ Len(C[0].pos) \in Nat
        /\ T[0] \in Nat
        /\ C[0].avail \in Nat
    <3>1. Len(C[0].pos) \in Nat /\ C[0].avail \in Nat
      BY <2>1, BlockFields
    <3>2. QED
      BY <3>1 DEF DataInv, DataTypes, LzTypes
  <2>3. /\ At >= T[0] /\ At + btNumAvailBytes = T[0] + C[0].avail
        /\ failure_LZ_BT <=> ~ C[0].ok
        /\ ~ failure_LZ_BT => At = T[0] + btBufPos /\ btBufPos <= Len(C[0].pos)
    BY <1>1, <2>0 DEF LzData
  <2>4. CASE failure_LZ_BT
    BY <2>1, <2>2, <2>3, <2>4 DEF Advance, LzData, At, BlockLeft
  <2>5. CASE ~ failure_LZ_BT
    <3>1. lzPos' = lzPos + 1 /\ btBufPos' = btBufPos + 1 /\ btNumAvailBytes' = btNumAvailBytes - 1
          /\ lzPc' = "run" /\ failure_LZ_BT' = failure_LZ_BT
      BY <2>5 DEF Advance
    <3>2. btBufPos < Len(C[0].pos)
      BY <2>1, <2>5 DEF Advance, BlockLeft
    <3>3. At = lzPos - 1 /\ At = T[0] + btBufPos /\ At + btNumAvailBytes = T[0] + C[0].avail
      BY <2>3, <2>5 DEF At
    <3>4. At' = lzPos
      BY <2>2, <3>1 DEF At
    <3>3a. PICK t \in Nat, len \in Nat, av \in Nat : t = T[0] /\ len = Len(C[0].pos)
                /\ av = C[0].avail
      BY <2>2
    <3>3b. lzPos - 1 = t + btBufPos /\ (lzPos - 1) + btNumAvailBytes = t + av /\ btBufPos < len
      BY <3>2, <3>3, <3>3a
    <3>3c. lzPos \in Nat /\ btBufPos \in Nat /\ btNumAvailBytes \in Nat
      BY <2>2
    <3>3d. lzPos >= t /\ lzPos = t + (btBufPos + 1) /\ btBufPos + 1 <= len
           /\ lzPos + (btNumAvailBytes - 1) = t + av
      BY <3>3b, <3>3c
    <3>4a. /\ lzPos >= T[0] /\ lzPos = T[0] + (btBufPos + 1) /\ btBufPos + 1 <= Len(C[0].pos)
           /\ lzPos + (btNumAvailBytes - 1) = T[0] + C[0].avail
      BY <3>3a, <3>3d
    <3>5. At' >= T[0] /\ At' = T[0] + btBufPos' /\ btBufPos' <= Len(C[0].pos)
          /\ At' + btNumAvailBytes' = T[0] + C[0].avail
      BY <3>1, <3>4, <3>4a
    <3>6. QED
      BY <2>3, <2>5, <3>1, <3>5 DEF LzData
  <2>6. QED
    BY <2>4, <2>5
<1>10. BtOn => BtData(e, spent)'
  BY <1>1, <1>2, FrameBt DEF Advance
<1>11. QED
  BY <1>4, <1>5, <1>6, <1>8, <1>9, <1>10, Collect

\* The encoder sees that no bytes are left (LzmaEnc.c:2172-2198).
LEMMA DataEndOfStream == ASSUME Control, DataInv, HashOn, EndOfStream PROVE SomeData'
<1> USE DEF hashVars, mfVars, takeVars, btLocals, lzVars, fileVars, syncVars
<1>0. PICK B \in [Nat -> BlockType], S \in [Nat -> Nat], C \in [Nat -> BlockType], T \in [Nat -> Nat],
          e \in Nat, spent \in {0, 1} : AllData(B, S, C, T, e, spent)
  BY DEF DataInv, SomeData
<1>1. HashData(B, S) /\ TakeData(B, S, spent)
      /\ (BtOn => TreeData(C, T, e) /\ LzData(C, T, e) /\ BtData(e, spent))
  BY <1>0 DEF AllData
<1>2. Fin' = Fin /\ Good' = Good /\ Pos' = Pos /\ BtPos' = BtPos
  BY DEF EndOfStream, Fin, Good, Ended, Pos, BtPos
<1>3. HeadsAhead' = HeadsAhead /\ BtHas' = BtHas
  BY DEF EndOfStream, HeadsAhead, InUse, BtHas, BtHasHeads, Count
<1>4. HashData(B, S)'
  BY <1>1, <1>2, <1>3, FrameHash DEF EndOfStream
<1>5. TakeData(B, S, spent)'
  BY <1>1, <1>2, <1>3, FrameTake DEF EndOfStream
<1>6. BtOn' => BtOn
  BY DEF EndOfStream, BtOn
<1>7. BlocksAhead' = BlocksAhead /\ Future' = Future
  BY DEF EndOfStream, BlocksAhead, InUse, Count, Future, Producing
<1>8. BtOn => TreeData(C, T, e)'
  BY <1>1, <1>2, <1>7, FrameTree DEF EndOfStream
<1>9. BtOn => LzData(C, T, e)'
  BY <1>1 DEF EndOfStream, LzData, At
<1>10. BtOn => BtData(e, spent)'
  BY <1>1, <1>2, FrameBt DEF EndOfStream
<1>11. QED
  BY <1>4, <1>5, <1>6, <1>8, <1>9, <1>10, Collect

\* The encoder stops the tree thread (LzFindMt.c:944-950).
LEMMA DataReleaseStream == ASSUME Control, DataInv, HashOn, ReleaseStream PROVE SomeData'
<1> USE DEF hashVars, mfVars, takeVars, btLocals, lzVars, fileVars, syncVars
<1>0. PICK B \in [Nat -> BlockType], S \in [Nat -> Nat], C \in [Nat -> BlockType], T \in [Nat -> Nat],
          e \in Nat, spent \in {0, 1} : AllData(B, S, C, T, e, spent)
  BY DEF DataInv, SomeData
<1>1. HashData(B, S) /\ TakeData(B, S, spent)
      /\ (BtOn => TreeData(C, T, e) /\ LzData(C, T, e) /\ BtData(e, spent))
  BY <1>0 DEF AllData
<1>2. Fin' = Fin /\ Good' = Good /\ Pos' = Pos /\ BtPos' = BtPos
  BY DEF ReleaseStream, AskStop, Fin, Good, Ended, Pos, BtPos
<1>3. HeadsAhead' = HeadsAhead /\ BtHas' = BtHas
  BY DEF ReleaseStream, AskStop, HeadsAhead, InUse, BtHas, BtHasHeads, Count
<1>4. HashData(B, S)'
  BY <1>1, <1>2, <1>3, FrameHash DEF ReleaseStream
<1>5. TakeData(B, S, spent)'
  BY <1>1, <1>2, <1>3, FrameTake DEF ReleaseStream
<1>6. ~ BtOn'
  BY HashOnPlaces DEF ReleaseStream, AskStop, BtOn, Control, ControlTypes, Sync
<1>11. QED
  BY <1>4, <1>5, <1>6, Collect

\* BT locks the heads that it has again for its next block (LzFindMt.c:740-749).
LEMMA DataLockBlock == ASSUME Control, DataInv, HashOn, LockBlock PROVE SomeData'
<1> USE DEF hashVars, mfVars, takeVars, btLocals, lzVars, fileVars, syncVars
<1>0. PICK B \in [Nat -> BlockType], S \in [Nat -> Nat], C \in [Nat -> BlockType], T \in [Nat -> Nat],
          e \in Nat, spent \in {0, 1} : AllData(B, S, C, T, e, spent)
  BY DEF DataInv, SomeData
<1>1. HashData(B, S) /\ TakeData(B, S, spent)
      /\ (BtOn => TreeData(C, T, e) /\ LzData(C, T, e) /\ BtData(e, spent))
  BY <1>0 DEF AllData
<1>2. Fin' = Fin /\ Good' = Good /\ Pos' = Pos /\ BtPos' = BtPos
  BY DEF LockBlock, Fin, Good, Ended, Pos, BtPos
<1>3. HeadsAhead' = HeadsAhead /\ BtHas' = BtHas
  BY DEF LockBlock, HeadsAhead, InUse, BtHas, BtHasHeads, Count
<1>4. HashData(B, S)'
  BY <1>1, <1>2, <1>3, FrameHash DEF LockBlock
<1>5. TakeData(B, S, spent)'
  BY <1>1, <1>2, <1>3, FrameTake DEF LockBlock
<1>6. BtOn' => BtOn
  BY DEF LockBlock, BtOn
<1>7. BlocksAhead' = BlocksAhead /\ Future' = Future
  BY DEF LockBlock, BlocksAhead, InUse, Count, Future, Producing
<1>8. BtOn => TreeData(C, T, e)'
  BY <1>1, <1>2, <1>7, FrameTree DEF LockBlock
<1>9. BtOn => LzData(C, T, e)'
  BY <1>1, <1>7, FrameLz DEF LockBlock
<1>10. BtOn => BtData(e, spent)'
  BY <1>1, <1>2 DEF LockBlock, BtData, Follows, Producing
<1>11. QED
  BY <1>4, <1>5, <1>6, <1>8, <1>9, <1>10, Collect

\* BT gets a filled block of heads from the semaphore (LzFindMt.c:144).
LEMMA DataTakeHash == ASSUME Control, DataInv, HashOn, TakeHash PROVE SomeData'
<1> USE DEF hashVars, mfVars, takeVars, btLocals, lzVars, fileVars, syncVars
<1>0. PICK B \in [Nat -> BlockType], S \in [Nat -> Nat], C \in [Nat -> BlockType], T \in [Nat -> Nat],
          e \in Nat, spent \in {0, 1} : AllData(B, S, C, T, e, spent)
  BY DEF DataInv, SomeData
<1>1. HashData(B, S) /\ TakeData(B, S, spent)
      /\ (BtOn => TreeData(C, T, e) /\ LzData(C, T, e) /\ BtData(e, spent))
  BY <1>0 DEF AllData
<1>f. filled \in [Sync -> Nat] /\ Sync = {"hash", "bt"}
  BY DEF Control, ControlTypes, Sync
<1>2. Fin' = Fin /\ Good' = Good /\ Pos' = Pos /\ BtPos' = BtPos
  BY DEF TakeHash, Fin, Good, Ended, Pos, BtPos
<1>3. HeadsAhead' = HeadsAhead /\ BtHas' = BtHas
  BY <1>f DEF TakeHash, HeadsAhead, InUse, BtHas, BtHasHeads, Count
<1>4. HashData(B, S)'
  BY <1>1, <1>2, <1>3, FrameHash DEF TakeHash
<1>5. TakeData(B, S, spent)'
  BY <1>1, <1>2, <1>3, FrameTake DEF TakeHash
<1>6. BtOn' => BtOn
  BY DEF TakeHash, BtOn
<1>7. BlocksAhead' = BlocksAhead /\ Future' = Future
  BY DEF TakeHash, BlocksAhead, InUse, Count, Future, Producing
<1>8. BtOn => TreeData(C, T, e)'
  BY <1>1, <1>2, <1>7, FrameTree DEF TakeHash
<1>9. BtOn => LzData(C, T, e)'
  BY <1>1, <1>7, FrameLz DEF TakeHash
<1>10. BtOn => BtData(e, spent)'
  BY <1>1, <1>2 DEF TakeHash, BtData, Follows, Producing
<1>11. QED
  BY <1>4, <1>5, <1>6, <1>8, <1>9, <1>10, Collect

\* BT begins a block of matches (LzFindMt.c:777-783).
LEMMA DataBeginBlock == ASSUME Control, DataInv, HashOn, BeginBlock PROVE SomeData'
<1> USE DEF hashVars, mfVars, takeVars, btLocals, lzVars, fileVars, syncVars
<1>0. PICK B \in [Nat -> BlockType], S \in [Nat -> Nat], C \in [Nat -> BlockType], T \in [Nat -> Nat],
          e \in Nat, spent \in {0, 1} : AllData(B, S, C, T, e, spent)
  BY DEF DataInv, SomeData
<1>1. HashData(B, S) /\ TakeData(B, S, spent)
      /\ (BtOn => TreeData(C, T, e) /\ LzData(C, T, e) /\ BtData(e, spent))
  BY <1>0 DEF AllData
<1>2. Fin' = Fin /\ Good' = Good /\ Pos' = Pos /\ BtPos' = BtPos
  BY DEF BeginBlock, Fin, Good, Ended, Pos, BtPos
<1>3. HeadsAhead' = HeadsAhead /\ BtHas' = BtHas
  BY DEF BeginBlock, HeadsAhead, InUse, BtHas, BtHasHeads, Count
<1>4. HashData(B, S)'
  BY <1>1, <1>2, <1>3, FrameHash DEF BeginBlock
<1>5. TakeData(B, S, spent)'
  BY <1>1, <1>2, <1>3, FrameTake DEF BeginBlock
<1>6. BtOn' => BtOn
  BY DEF BeginBlock, BtOn
<1>7. BlocksAhead' = BlocksAhead /\ Future' = Future /\ btPc' = "lockBlock"
      /\ d'.avail = hashNumAvail /\ d'.pos = <<>>
      /\ numProcessed' = 0 /\ btPc = "top"
  BY DEF BeginBlock, HashOn, BlocksAhead, InUse, Count, Future, Producing, Block
<1>8. BtOn => TreeData(C, T, e)'
  BY <1>1, <1>2, <1>7, FrameTree DEF BeginBlock
<1>9. BtOn => LzData(C, T, e)'
  BY <1>1, <1>7, FrameLz DEF BeginBlock
<1>10. BtOn => BtData(e, spent)'
  <2>1. hashNumAvail' = hashNumAvail /\ streamPos' = streamPos /\ hashNumAvail \in Nat
    BY DEF BeginBlock, DataInv, DataTypes, BtTypes
  <2>2. CASE spent = 0
    <3>1. BtOn => e = BtPos
      BY <1>1, <1>7, <2>2 DEF BtData
    <3>2. BtOn => Follows(e)'
      BY <1>2, <1>7, <2>1, <3>1 DEF Follows
    <3>3. QED
      BY <1>7, <2>2, <3>2 DEF BtData
  <2>3. CASE spent = 1
    <3>1. BtOn => e = streamPos
      BY <1>1, <1>7, <2>3 DEF BtData
    <3>2. hashNumAvail = 0
      BY <1>1, <2>3 DEF TakeData, AllTaken
    <3>3. QED
      BY <1>7, <2>1, <2>3, <3>1, <3>2 DEF BtData
  <2>4. QED
    BY <2>2, <2>3
<1>11. QED
  BY <1>4, <1>5, <1>6, <1>8, <1>9, <1>10, Collect

-----------------------------------------------------------------------------
(* The queue of heads grows and shrinks under BT.                            *)

\* A block of heads is put at the end of the queue that BT takes from.
FlowPushCase(B, n, S, pos, locked, at, used, avail, sp, b, pos1, sp1) ==
  /\ B \in [Nat -> BlockType] /\ n \in Nat /\ S \in [Nat -> Nat] /\ pos \in Nat
  /\ locked \in {0, 1} /\ at \in Int /\ used \in Nat /\ avail \in Nat /\ sp \in Nat
  /\ S[n] = pos /\ TakesHeads(B, n, S, locked, at, used, avail, sp) /\ (locked = 1 => n >= 1)
  /\ b \in BlockType /\ pos1 \in Nat /\ sp1 \in Nat /\ sp <= sp1 /\ pos + b.avail = sp1

\* The place of BT does not depend on what the hash thread adds.
LEMMA FlowPush ==
  ASSUME NEW B, NEW n, NEW S, NEW pos, NEW locked, NEW at, NEW used, NEW avail, NEW sp, NEW b,
         NEW pos1, NEW sp1,
         FlowPushCase(B, n, S, pos, locked, at, used, avail, sp, b, pos1, sp1)
  PROVE  TakesHeads([B EXCEPT ![n] = b], n + 1, [S EXCEPT ![n + 1] = pos1], locked, at, used, avail, sp1)
<1>c. /\ B \in [Nat -> BlockType] /\ n \in Nat /\ S \in [Nat -> Nat] /\ pos \in Nat
      /\ locked \in {0, 1} /\ at \in Int /\ used \in Nat /\ avail \in Nat /\ sp \in Nat
      /\ S[n] = pos /\ TakesHeads(B, n, S, locked, at, used, avail, sp) /\ (locked = 1 => n >= 1)
      /\ b \in BlockType /\ pos1 \in Nat /\ sp1 \in Nat /\ sp <= sp1 /\ pos + b.avail = sp1
  BY DEF FlowPushCase
<1> USE <1>c
<1> DEFINE B1 == [B EXCEPT ![n] = b]
           S1 == [S EXCEPT ![n + 1] = pos1]
<1>1. (\A j \in 0 .. n : S1[j] = S[j]) /\ B1[n] = b
  OBVIOUS
<1>2. \A j \in 0 .. n - 1 : B1[j] = B[j]
  OBVIOUS
<1>3. S1[0] = S[0] /\ (locked = 1 => B1[0] = B[0])
  BY <1>1, <1>2
<1> HIDE DEF B1, S1
<1>4. CASE locked = 1
  <2>1. TakesHeads(B1, n + 1, S1, locked, at, used, avail, sp1)
    <3>1. B1[0] = B[0] /\ S1[0] = S[0]
      BY <1>3, <1>4
    <3>2. /\ B[0].avail >= NumHashBytes /\ at = S[0] + used
          /\ used <= Len(B[0].pos) /\ avail = B[0].avail - used
      BY <1>4 DEF TakesHeads
    <3>3. /\ B1[0].avail >= NumHashBytes /\ at = S1[0] + used
          /\ used <= Len(B1[0].pos) /\ avail = B1[0].avail - used
      BY <3>1, <3>2, Zenon
    <3>4. ~ (locked = 0)
      BY <1>4
    <3>5. QED
      BY <3>3, <3>4, Zenon DEF TakesHeads
  <2>2. QED
    BY <2>1 DEF B1, S1
<1>5. CASE locked = 0
  <2>1. at + avail <= sp1
    BY <1>5 DEF TakesHeads
  <2>2. ASSUME NEW j \in 0 .. (n + 1) - 1 PROVE at + avail <= S1[j] + B1[j].avail
    <3>1. CASE j = n
      BY <1>1, <2>1, <3>1
    <3>2. CASE j < n
      <4>1. j \in 0 .. n - 1 /\ S1[j] = S[j] /\ B1[j] = B[j]
        BY <1>1, <1>2, <3>2
      <4>2. QED
        BY <1>5, <4>1 DEF TakesHeads
    <3>3. QED
      BY <3>1, <3>2
  <2>3. TakesHeads(B1, n + 1, S1, locked, at, used, avail, sp1)
    BY <1>3, <1>5, <2>1, <2>2 DEF TakesHeads
  <2>4. QED
    BY <2>3 DEF B1, S1
<1>6. QED
  BY <1>4, <1>5

\* An empty block is put at the end of a queue of which all is taken.
SpentPushCase(B, n, pos, fin, bad, locked, at, used, avail, sp, b) ==
  /\ B \in [Nat -> BlockType] /\ n \in Nat /\ pos \in Nat /\ fin \in {0, 1} /\ bad \in {0, 1}
  /\ locked \in {0, 1} /\ at \in Int /\ used \in Nat /\ avail \in Nat /\ sp \in Nat
  /\ AllTaken(B, n, locked, at, used, avail, pos, sp, fin, bad) /\ (locked = 1 => n >= 1)
  /\ b \in BlockType /\ b.avail = 0

\* After the end the hash thread adds nothing but empty blocks.
LEMMA SpentPush ==
  ASSUME NEW B, NEW n, NEW pos, NEW fin, NEW bad, NEW locked, NEW at, NEW used, NEW avail,
         NEW sp, NEW b,
         SpentPushCase(B, n, pos, fin, bad, locked, at, used, avail, sp, b)
  PROVE  AllTaken([B EXCEPT ![n] = b], n + 1, locked, at, used, avail, pos, sp, fin, bad)
<1>c. /\ B \in [Nat -> BlockType] /\ n \in Nat /\ pos \in Nat /\ fin \in {0, 1} /\ bad \in {0, 1}
      /\ locked \in {0, 1} /\ at \in Int /\ used \in Nat /\ avail \in Nat /\ sp \in Nat
      /\ AllTaken(B, n, locked, at, used, avail, pos, sp, fin, bad) /\ (locked = 1 => n >= 1)
      /\ b \in BlockType /\ b.avail = 0
  BY DEF SpentPushCase
<1> USE <1>c
<1> DEFINE B1 == [B EXCEPT ![n] = b]
<1>1. B1[n] = b
  OBVIOUS
<1>2. \A j \in 0 .. n - 1 : B1[j] = B[j]
  OBVIOUS
<1> HIDE DEF B1
<1>3. ASSUME NEW j \in 0 .. (n + 1) - 1 PROVE (j = 0 /\ locked = 1) \/ B1[j].avail = 0
  <2>1. CASE j = n
    BY <1>1, <2>1
  <2>2. CASE j < n
    <3>1. j \in 0 .. n - 1 /\ B1[j] = B[j]
      BY <1>2, <2>2
    <3>2. QED
      BY <3>1 DEF AllTaken
  <2>3. QED
    BY <2>1, <2>2
<1>4. locked = 1 => B1[0].pos = <<>>
  <2>1. locked = 1 => B1[0] = B[0]
    BY <1>2
  <2>2. QED
    BY <2>1 DEF AllTaken
<1>5. AllTaken(B1, n + 1, locked, at, used, avail, pos, sp, fin, bad)
  BY <1>3, <1>4 DEF AllTaken
<1>6. QED
  BY <1>5 DEF B1

\* BT has used all heads of the first block.
FlowPopCase(B, n, S, pos, sp, fin, good, sz, at, used, avail) ==
  /\ B \in [Nat -> BlockType] /\ n \in Nat \ {0} /\ S \in [Nat -> Nat] /\ pos \in Nat
  /\ sp \in Nat /\ fin \in {0, 1} /\ good \in {0, 1} /\ sz \in Nat
  /\ HashQueue(B, n, S, pos, sp, fin, good, sz) /\ at \in Int /\ used \in Nat /\ avail \in Nat
  /\ TakesHeads(B, n, S, 1, at, used, avail, sp) /\ used = Len(B[0].pos)

\* BT gives its block back and is at the start of the next one, which knows of no fewer
\* bytes (LzFindMt.c:609-615).
LEMMA FlowPop ==
  ASSUME NEW B, NEW n, NEW S, NEW pos, NEW sp, NEW fin, NEW good, NEW sz, NEW at, NEW used,
         NEW avail,
         FlowPopCase(B, n, S, pos, sp, fin, good, sz, at, used, avail)
  PROVE  TakesHeads(Rest(B), n - 1, Rest(S), 0, at, 0, avail, sp)
<1>c. /\ B \in [Nat -> BlockType] /\ n \in Nat \ {0} /\ S \in [Nat -> Nat] /\ pos \in Nat
      /\ sp \in Nat /\ fin \in {0, 1} /\ good \in {0, 1} /\ sz \in Nat
      /\ HashQueue(B, n, S, pos, sp, fin, good, sz) /\ at \in Int /\ used \in Nat /\ avail \in Nat
      /\ TakesHeads(B, n, S, 1, at, used, avail, sp) /\ used = Len(B[0].pos)
  BY DEF FlowPopCase
<1> USE <1>c
<1> USE LzFindMtAssumption
<1>1. 0 \in 0 .. n - 1 /\ 0 + 1 = 1 /\ 0 \in Nat /\ 1 \in Nat
  OBVIOUS
<1>2. /\ S[0] + B[0].avail <= sp
      /\ HeadsFor(B[0], S[0], S[0 + 1], good, sz) \/ NoHeadsFor(B[0], S[0], S[0 + 1], fin, sp)
  BY <1>1 DEF HashQueue
<1>3. B[0].avail >= NumHashBytes /\ at = S[0] + used /\ avail = B[0].avail - used
  BY DEF TakesHeads
<1>4. PICK s0 \in Nat, s1 \in Nat, a0 \in Nat : s0 = S[0] /\ s1 = S[1] /\ a0 = B[0].avail
  BY DEF BlockType
<1>4a. ~ (B[0].avail < NumHashBytes)
  <2>1. a0 >= NumHashBytes
    BY <1>3, <1>4
  <2>2. ~ (a0 < NumHashBytes)
    BY <2>1
  <2>3. QED
    BY <1>4, <2>2, Zenon
<1>5. HeadsFor(B[0], S[0], S[1], good, sz)
  BY <1>1, <1>2, <1>4a, Zenon DEF NoHeadsFor
<1>6. used = s1 - s0
  BY <1>4, <1>5 DEF HeadsFor
<1>7. at = s1 /\ at + avail = s0 + a0
  BY <1>3, <1>4, <1>6
<1>8. ASSUME NEW j \in 0 .. (n - 1) - 1 PROVE at + avail <= Rest(S)[j] + Rest(B)[j].avail
  <2>1. j + 1 \in 0 .. n - 1 /\ 0 <= j + 1 /\ Rest(S)[j] = S[j + 1] /\ Rest(B)[j] = B[j + 1]
    BY DEF Rest
  <2>2. S[0] + B[0].avail <= S[j + 1] + B[j + 1].avail
    BY <1>1, <2>1 DEF HashQueue
  <2>3. QED
    BY <1>4, <1>7, <2>1, <2>2
<1>9. Rest(S)[0] = S[1]
  BY DEF Rest
<1>10. at + avail <= sp
  BY <1>2, <1>4, <1>7
<1>11. QED
  BY <1>4, <1>7, <1>8, <1>9, <1>10 DEF TakesHeads

\* BT has the first of the empty blocks.
SpentPopCase(B, n, pos, fin, bad, at, used, avail, sp) ==
  /\ B \in [Nat -> BlockType] /\ n \in Nat \ {0} /\ pos \in Nat /\ fin \in {0, 1}
  /\ bad \in {0, 1} /\ at \in Int /\ used \in Nat /\ avail \in Nat /\ sp \in Nat
  /\ AllTaken(B, n, 1, at, used, avail, pos, sp, fin, bad)

\* BT gives an empty block back.
LEMMA SpentPop ==
  ASSUME NEW B, NEW n, NEW pos, NEW fin, NEW bad, NEW at, NEW used, NEW avail, NEW sp,
         SpentPopCase(B, n, pos, fin, bad, at, used, avail, sp)
  PROVE  AllTaken(Rest(B), n - 1, 0, at, 0, avail, pos, sp, fin, bad)
<1>c. /\ B \in [Nat -> BlockType] /\ n \in Nat \ {0} /\ pos \in Nat /\ fin \in {0, 1}
      /\ bad \in {0, 1} /\ at \in Int /\ used \in Nat /\ avail \in Nat /\ sp \in Nat
      /\ AllTaken(B, n, 1, at, used, avail, pos, sp, fin, bad)
  BY DEF SpentPopCase
<1> USE <1>c
<1>1. ASSUME NEW j \in 0 .. (n - 1) - 1 PROVE Rest(B)[j].avail = 0
  <2>1. j + 1 \in 0 .. n - 1 /\ Rest(B)[j] = B[j + 1] /\ j + 1 # 0
    BY DEF Rest
  <2>2. QED
    BY <2>1 DEF AllTaken
<1>2. QED
  BY <1>1 DEF AllTaken

\* BT gets a block with too few bytes for a head.
SpentBeginCase(B, n, S, pos, sp, fin, good, sz, at) ==
  /\ B \in [Nat -> BlockType] /\ n \in Nat \ {0} /\ S \in [Nat -> Nat] /\ pos \in Nat
  /\ sp \in Nat /\ fin \in {0, 1} /\ good \in {0, 1} /\ sz \in Nat /\ pos <= sp
  /\ HashQueue(B, n, S, pos, sp, fin, good, sz) /\ at \in Int /\ at <= S[0]
  /\ B[0].avail < NumHashBytes

\* With that block BT has all of the stream (LzFindMt.c:632-651).
LEMMA SpentBegin ==
  ASSUME NEW B, NEW n, NEW S, NEW pos, NEW sp, NEW fin, NEW good, NEW sz, NEW at,
         SpentBeginCase(B, n, S, pos, sp, fin, good, sz, at)
  PROVE  AllTaken(B, n, 1, at, 0, 0, pos, sp, fin, 0) /\ S[0] + B[0].avail = sp /\ fin = 1
<1>c. /\ B \in [Nat -> BlockType] /\ n \in Nat \ {0} /\ S \in [Nat -> Nat] /\ pos \in Nat
      /\ sp \in Nat /\ fin \in {0, 1} /\ good \in {0, 1} /\ sz \in Nat /\ pos <= sp
      /\ HashQueue(B, n, S, pos, sp, fin, good, sz) /\ at \in Int /\ at <= S[0]
      /\ B[0].avail < NumHashBytes
  BY DEF SpentBeginCase
<1> USE <1>c
<1> USE LzFindMtAssumption
<1>1. 0 \in 0 .. n - 1 /\ 0 + 1 = 1 /\ 0 \in Nat /\ 1 \in Nat /\ 1 \in 0 .. n /\ n \in 0 .. n
      /\ 1 <= n
  OBVIOUS
<1>2. HeadsFor(B[0], S[0], S[0 + 1], good, sz) \/ NoHeadsFor(B[0], S[0], S[0 + 1], fin, sp)
  BY <1>1 DEF HashQueue
<1>3. PICK s0 \in Nat, s1 \in Nat, a0 \in Nat : s0 = S[0] /\ s1 = S[1] /\ a0 = B[0].avail
  BY DEF BlockType
<1>3a. ~ (B[0].avail >= NumHashBytes)
  <2>1. a0 < NumHashBytes
    BY <1>3
  <2>2. QED
    BY <1>3, <2>1
<1>4. ~ HeadsFor(B[0], S[0], S[0 + 1], good, sz)
  BY <1>3a, Zenon DEF HeadsFor
<1>5. B[0].pos = <<>> /\ s1 = s0 + a0 /\ fin = 1 /\ s1 = sp
  BY <1>1, <1>2, <1>3, <1>4 DEF NoHeadsFor
<1>6. S[1] <= S[n] /\ S[n] = pos
  BY <1>1 DEF HashQueue
<1>7. pos = sp
  <2>1. sp <= pos
    BY <1>3, <1>5, <1>6
  <2>2. QED
    BY <2>1
<1>8. at <= sp
  <2>1. at <= s0 /\ s0 + a0 = sp
    BY <1>3, <1>5
  <2>2. QED
    BY <2>1
<1>9. ASSUME NEW j \in 0 .. n - 1, j # 0 PROVE B[j].avail = 0
  <2>1. j \in 0 .. n /\ 1 <= j
    BY <1>9
  <2>2. S[1] <= S[j] /\ S[j] + B[j].avail <= sp
    BY <1>1, <2>1 DEF HashQueue
  <2>3. PICK sj \in Nat, aj \in Nat : sj = S[j] /\ aj = B[j].avail
    <3>1. j \in Nat
      OBVIOUS
    <3>2. B[j].avail \in Nat /\ S[j] \in Nat
      BY <3>1 DEF BlockType
    <3>3. QED
      BY <3>2
  <2>4. sp <= sj /\ sj + aj <= sp
    BY <1>3, <1>5, <2>2, <2>3
  <2>5. aj = 0
    BY <2>4
  <2>6. QED
    BY <2>3, <2>5
<1>10. QED
  BY <1>3, <1>5, <1>7, <1>8, <1>9 DEF AllTaken

-----------------------------------------------------------------------------
(* A block of heads is filled (HashThreadFunc).                              *)

\* The block that the hash thread fills continues the queue of heads: it has the positions
\* from Pos on, and it knows of the bytes that the encoder may look at, because the
\* read before left keepSizeAfter of them unless the stream ended (LzFindMt.c:490-547).
LEMMA HeadsOfFill ==
  ASSUME Buffer, NEW a \in Nat, NEW n \in Nat, FillsHash(a, n), UNCHANGED <<base, size>>
  PROVE  /\ HeadsFor(NewBlock(n, a), Pos, Pos', Good', size)
            \/ NoHeadsFor(NewBlock(n, a), Pos, Pos', Fin', streamPos')
         /\ Pos' \in Nat /\ streamPos' \in Nat /\ Pos + a = streamPos' /\ streamPos <= streamPos'
         /\ (a = 0 => Pos' = Pos)
<1> USE LzFindMtAssumption
<1>1. PICK k \in Nat : k = IF a >= NumHashBytes THEN n ELSE a
  OBVIOUS
<1>2. PICK p \in Nat : p = Pos
  BY DEF Pos, Buffer
<1>3. Pos' = p + k
  BY <1>1, <1>2 DEF FillsHash, Pos, Buffer
<1>4. streamPos' = p + a /\ streamPos <= streamPos' /\ streamPos' <= size
  BY <1>2 DEF FillsHash
<1>5. /\ Len(NewBlock(n, a).pos) = n /\ NewBlock(n, a).avail = a
      /\ (\A j \in 1 .. n : NewBlock(n, a).pos[j] = Pos + j - 1)
      /\ (n = 0 => NewBlock(n, a).pos = <<>>)
  BY NewBlockType
<1>6. /\ n = IF a >= NumHashBytes THEN NumHeads(a) ELSE 0
      /\ a >= NumHashBytes => n >= 1 /\ n <= HashBlockSize - 2 /\ n <= a
      /\ a < NumHashBytes => Ended'
      /\ streamEndWasReached' => streamPos' = size
      /\ ~ Ended' => a > KeepAfter
  BY DEF FillsHash
<1>7. CASE a >= NumHashBytes
  <2>1. k = n /\ Pos' = p + n
    BY <1>1, <1>3, <1>7
  <2>2. ASSUME Good' = 1 PROVE p + a >= Min2((p + n) + Lookahead, size)
    <3>1. readResult' = "ok"
      BY <2>2 DEF Good, Count
    <3>2. CASE streamEndWasReached'
      <4>1. p + a = size
        BY <1>4, <1>6, <3>2
      <4>2. Lookahead \in Nat /\ size \in Nat
        BY DEF Lookahead, Buffer
      <4>3. QED
        BY <4>1, <4>2 DEF Min2
    <3>3. CASE ~ streamEndWasReached'
      <4>1. a > KeepAfter
        BY <1>6, <3>1, <3>3 DEF Ended
      <4>2. Lookahead \in Nat /\ KeepAfter = Lookahead + HashBlockSize /\ size \in Nat
        BY DEF Lookahead, KeepAfter, Buffer
      <4>3. p + a >= (p + n) + Lookahead
        BY <1>6, <1>7, <4>1, <4>2
      <4>4. QED
        BY <4>2, <4>3 DEF Min2
    <3>4. QED
      BY <3>2, <3>3
  <2>2a. Good' = 1 => Pos + NewBlock(n, a).avail >= Min2(Pos' + Lookahead, size)
    BY <1>2, <1>5, <2>1, <2>2
  <2>3. Pos' - Pos = n
    BY <1>2, <2>1
  <2>4. HeadsFor(NewBlock(n, a), Pos, Pos', Good', size)
    BY <1>5, <1>6, <1>7, <2>2a, <2>3 DEF HeadsFor
  <2>5. a # 0
    BY <1>7
  <2>6. QED
    BY <1>2, <1>4, <2>1, <2>4, <2>5
<1>8. CASE ~ (a >= NumHashBytes)
  <2>1. n = 0 /\ k = a /\ a < NumHashBytes
    BY <1>1, <1>6, <1>8
  <2>2. Fin' = 1
    BY <1>6, <2>1 DEF Fin, Count
  <2>3. Pos' = Pos + a /\ Pos' = streamPos'
    BY <1>2, <1>3, <1>4, <2>1
  <2>4. NoHeadsFor(NewBlock(n, a), Pos, Pos', Fin', streamPos')
    BY <1>5, <2>1, <2>2, <2>3 DEF NoHeadsFor
  <2>5. QED
    BY <1>2, <1>4, <2>1, <2>3, <2>4
<1>9. QED
  BY <1>7, <1>8

\* The block after those ahead is the new end of the queue in the ring.
LEMMA HashRingPush ==
  ASSUME RingTypes, RingBlockTypes, NEW B \in [Nat -> BlockType], HashRingHolds(B),
         NEW b \in BlockType,
         NEW m \in Nat, m = HeadsAhead, m < HashNumBlocks,
         hashBlock = Ring(hashBi + m, HashNumBlocks),
         hashBuf' = [hashBuf EXCEPT ![hashBlock] = b], hashBi' = hashBi, HeadsAhead' = m + 1,
         NEW B1, B1 = [B EXCEPT ![m] = b]
  PROVE  HashRingHolds(B1)'
<1> USE LzFindMtAssumption
<1>1. PICK i \in 0 .. HashNumBlocks - 1 : i = hashBi
  BY DEF RingTypes
<1>2. B1[m] = b /\ \A j \in 0 .. m - 1 : B1[j] = B[j]
  OBVIOUS
<1>3. ASSUME NEW j \in 0 .. m PROVE B1[j] = hashBuf'[Ring(i + j, HashNumBlocks)]
  <2>1. Ring(i + j, HashNumBlocks) \in 0 .. HashNumBlocks - 1
        /\ Ring(i + m, HashNumBlocks) \in 0 .. HashNumBlocks - 1
    BY <1>1 DEF Ring
  <2>2. j # m => Ring(i + j, HashNumBlocks) # Ring(i + m, HashNumBlocks)
    BY <1>1 DEF Ring
  <2>3. CASE j = m
    BY <1>1, <1>2, <2>1, <2>3 DEF RingBlockTypes
  <2>4. CASE j # m
    <3>1. hashBuf'[Ring(i + j, HashNumBlocks)] = hashBuf[Ring(i + j, HashNumBlocks)]
      BY <1>1, <2>1, <2>2, <2>4 DEF RingBlockTypes
    <3>2. j \in 0 .. m - 1 /\ j \in 0 .. HeadsAhead - 1
      BY <2>4
    <3>3. B[j] = hashBuf[Ring(i + j, HashNumBlocks)]
      BY <1>1, <3>2, Zenon DEF HashRingHolds
    <3>4. QED
      BY <1>2, <3>1, <3>2, <3>3
  <2>5. QED
    BY <2>3, <2>4
<1>4. HeadsAhead' - 1 = m /\ hashBi' = i
  BY <1>1
<1>5. \A j \in 0 .. m : B1[j] = hashBuf'[Ring(hashBi' + j, HashNumBlocks)]
  BY <1>3, <1>4, Zenon
<1>6. QED
  BY <1>4, <1>5, Zenon DEF HashRingHolds

\* The hash thread fills a block (LzFindMt.c:490-547).
LEMMA DataFillHash == ASSUME Control, DataInv, HashOn, FillHash PROVE SomeData'
<1> USE DEF hashVars, mfVars, takeVars, btLocals, lzVars, fileVars, syncVars
<1>0. PICK B \in [Nat -> BlockType], S \in [Nat -> Nat], C \in [Nat -> BlockType], T \in [Nat -> Nat],
          e \in Nat, spent \in {0, 1} : AllData(B, S, C, T, e, spent)
  BY DEF DataInv, SomeData
<1>1. HashData(B, S) /\ TakeData(B, S, spent)
      /\ (BtOn => TreeData(C, T, e) /\ LzData(C, T, e) /\ BtData(e, spent))
  BY <1>0 DEF AllData
<1>2. /\ ~ exit["hash"] /\ ~ stopWriting["hash"] /\ HeadsAhead \in Nat
         /\ free["hash"] + HeadsAhead = HashNumBlocks
      /\ free["hash"] \in Nat /\ filled["hash"] \in Nat /\ free["hash"] > 0
         /\ filled["hash"] <= HeadsAhead
      /\ btPc # "wait" => HeadsAhead = filled["hash"] + 1
  BY HashOnPlaces DEF FillHash, HashOn
<1>3. PICK a \in Nat, n \in Nat : FillsHash(a, n)
  BY <1>2, Filling DEF DataInv
<1>4. UNCHANGED <<base, size, hashBi, hashBufPos, hashNumAvail, btBuffer, failure_BT, btPc, btBuf, btBi, lzVars,
                  lzPc, d, numProcessed, needStart, stopWriting>>
      /\ filled' = Released(filled, "hash") /\ hashPc = "top"
  BY <1>2 DEF FillHash
<1>5. Buffer /\ RingTypes /\ RingBlockTypes /\ BtTypes
  BY DEF DataInv, DataTypes
<1>5a. NewBlock(n, a) \in BlockType /\ NewBlock(n, a).avail = a
  BY <1>5, NewBlockType
<1>6. PICK b \in BlockType : b = NewBlock(n, a) /\ b.avail = a
  BY <1>5a
<1>7. /\ HeadsFor(b, Pos, Pos', Good', size) \/ NoHeadsFor(b, Pos, Pos', Fin', streamPos')
      /\ Pos' \in Nat /\ streamPos' \in Nat /\ Pos + a = streamPos' /\ streamPos <= streamPos'
      /\ (a = 0 => Pos' = Pos)
  <2>1. UNCHANGED <<base, size>>
    BY <1>4
  <2>2. /\ HeadsFor(NewBlock(n, a), Pos, Pos', Good', size)
           \/ NoHeadsFor(NewBlock(n, a), Pos, Pos', Fin', streamPos')
        /\ Pos' \in Nat /\ streamPos' \in Nat /\ Pos + a = streamPos' /\ streamPos <= streamPos'
        /\ (a = 0 => Pos' = Pos)
    BY <1>3, <1>5, <2>1, HeadsOfFill
  <2>3. QED
    BY <1>6, <2>2, Zenon
<1>8. hashBuf' = [hashBuf EXCEPT ![hashBlock] = b]
  BY <1>3, <1>6 DEF FillsHash
<1>9. HeadsAhead' = HeadsAhead + 1
  <2>1. filled'["hash"] = filled["hash"] + 1
    BY <1>2, <1>4 DEF Released, Min2, NumBlocks, Control, ControlTypes, Sync
  <2>2. filled["hash"] \in Nat /\ btPc' = btPc
    BY <1>2, <1>4
  <2>3. Count(InUse("hash")) \in {0, 1}
    BY CountValue
  <2>4. Count(InUse("hash"))' = Count(InUse("hash"))
    BY <1>4 DEF Count, InUse
  <2>5. QED
    BY <2>1, <2>2, <2>3, <2>4 DEF HeadsAhead
<1>10. /\ Fin = 1 => Fin' = 1 /\ streamPos' = streamPos
       /\ Good' = 1 => Good = 1
  <2>1. /\ Ended => streamPos' = streamPos /\ streamEndWasReached' = streamEndWasReached
           /\ readResult' = readResult
        /\ readResult' \in {"ok", "read"} /\ readResult \in {"ok", "read"}
    BY <1>3, <1>5 DEF FillsHash, Buffer
  <2>2. Ended => Ended'
    BY <2>1 DEF Ended
  <2>3. readResult' = "ok" => readResult = "ok"
    BY <2>1 DEF Ended
  <2>4. QED
    BY <2>1, <2>2, <2>3 DEF Fin, Good, Count
<1>11. PICK m \in Nat, pos \in Nat, sp \in Nat, sz \in Nat, fin \in {0, 1}, good \in {0, 1} :
         m = HeadsAhead /\ pos = Pos /\ sp = streamPos /\ sz = size /\ fin = Fin /\ good = Good
  <2>1. HeadsAhead \in Nat /\ Fin \in {0, 1} /\ Good \in {0, 1}
    BY <1>2, FinValue, GoodValue
  <2>2. Pos \in Nat /\ streamPos \in Nat /\ size \in Nat
    BY <1>5 DEF Buffer, Pos
  <2>3. QED
    BY <2>1, <2>2, Zenon
<1>12. Fin' \in {0, 1} /\ Good' \in {0, 1}
  BY DEF Fin, Good, Count
<1>13. PICK pos1 \in Nat, sp1 \in Nat, fin1 \in {0, 1}, good1 \in {0, 1} :
         pos1 = Pos' /\ sp1 = streamPos' /\ fin1 = Fin' /\ good1 = Good'
  <2>1. Pos' \in Nat /\ streamPos' \in Nat
    BY <1>7
  <2>2. QED
    BY <1>12, <2>1, Zenon
<1>14. PICK B1 \in [Nat -> BlockType], S1 \in [Nat -> Nat] :
         B1 = [B EXCEPT ![m] = b] /\ S1 = [S EXCEPT ![m + 1] = pos1]
  OBVIOUS
<1>15. HashQueue(B, m, S, pos, sp, fin, good, sz)
  <2>1. HashQueue(B, HeadsAhead, S, Pos, streamPos, Fin, Good, size)
    BY <1>1 DEF HashData
  <2>2. QED
    BY <1>11, <2>1, Zenon
<1>16. /\ sp <= sp1 /\ (fin = 1 => fin1 = 1 /\ sp1 = sp) /\ (good1 = 1 => good = 1)
          /\ pos + b.avail = sp1
       /\ HeadsFor(b, pos, pos1, good1, sz) \/ NoHeadsFor(b, pos, pos1, fin1, sp1)
       /\ (b.avail = 0 => pos1 = pos)
  <2>1. /\ HeadsFor(b, pos, pos1, good1, sz) \/ NoHeadsFor(b, pos, pos1, fin1, sp1)
        /\ (fin = 1 => fin1 = 1 /\ sp1 = sp) /\ (good1 = 1 => good = 1)
        /\ pos + a = sp1 /\ sp <= sp1 /\ (a = 0 => pos1 = pos) /\ b.avail = a
    BY <1>6, <1>7, <1>10, <1>11, <1>13, Zenon
  <2>2. pos + b.avail = sp1 /\ (b.avail = 0 => pos1 = pos)
    BY <2>1, Zenon
  <2>3. QED
    BY <2>1, <2>2, Zenon
<1>17. HashQueue(B1, m + 1, S1, pos1, sp1, fin1, good1, sz)
  <2>1. HashQueue([B EXCEPT ![m] = b], m + 1, [S EXCEPT ![m + 1] = pos1], pos1, sp1, fin1, good1, sz)
    <3>1. HashPushCase(B, m, S, pos, sp, fin, good, sz, b, pos1, sp1, fin1, good1)
      BY <1>15, <1>16 DEF HashPushCase
    <3>2. QED
      BY <3>1, HashPush, Zenon
  <2>2. QED
    BY <1>14, <2>1, Zenon
<1>18. HashData(B1, S1)'
  <2>1. HashRingHolds(B1)'
    <3>1. hashBlock = Ring(hashBi + HeadsAhead, HashNumBlocks) /\ HeadsAhead < HashNumBlocks
      BY <1>2, <1>4 DEF DataInv, HashRing
    <3>2. HashRingHolds(B)
      BY <1>1 DEF HashData
    <3>3. hashBi' = hashBi
      BY <1>4
    <3>4. hashBlock = Ring(hashBi + m, HashNumBlocks) /\ HeadsAhead' = m + 1 /\ m < HashNumBlocks
      BY <1>9, <1>11, <3>1
    <3>5. QED
      BY <1>5, <1>8, <1>11, <1>14, <3>2, <3>3, <3>4, HashRingPush
  <2>2. HeadsAhead' = m + 1 /\ size' = sz
    BY <1>4, <1>9, <1>11
  <2>3. HashQueue(B1, HeadsAhead', S1, Pos', streamPos', Fin', Good', size')
    BY <1>13, <1>17, <2>2, Zenon
  <2>4. QED
    BY <2>1, <2>3, Zenon DEF HashData
<1>19. BtHas' = BtHas /\ BtPos' = BtPos /\ (BtHas = 1 => m >= 1) /\ BtHas \in {0, 1}
       /\ BtPos \in Int
  <2>1. BtHas' = BtHas /\ BtPos' = BtPos
    BY <1>4, Zenon DEF BtHas, BtHasHeads, BtPos
  <2>2. btPc # "wait" => m >= 1
    BY <1>2, <1>11
  <2>3. BtHas = 1 => btPc # "wait"
    BY BtHasValue DEF BtHasHeads
  <2>4. BtPos \in Int
    BY <1>5 DEF BtPos, Buffer, BtTypes
  <2>5. QED
    BY <2>1, <2>2, <2>3, <2>4, BtHasValue
<1>20. TakeData(B1, S1, spent)'
  <2>1. hashBufPos \in Nat /\ hashNumAvail \in Nat /\ Bad' = Bad
    BY <1>4, <1>5 DEF BtTypes, Bad
  <2>2. PICK lk \in {0, 1}, at \in Int, us \in Nat, av \in Nat, bad \in {0, 1} :
          lk = BtHas /\ at = BtPos /\ us = hashBufPos /\ av = hashNumAvail /\ bad = Bad
    BY <1>19, <2>1, BadValue
  <2>3. CASE spent = 0
    <3>0. TakesHeads(B, HeadsAhead, S, BtHas, BtPos, hashBufPos, hashNumAvail, streamPos)
      BY <1>1, <2>3, Zenon DEF TakeData
    <3>1. TakesHeads(B, m, S, lk, at, us, av, sp)
      BY <1>11, <2>2, <3>0, Zenon
    <3>2. S[m] = pos
      BY <1>15 DEF HashQueue
    <3>3. lk = 1 => m >= 1
      BY <1>19, <2>2
    <3>4a. TakesHeads([B EXCEPT ![m] = b], m + 1, [S EXCEPT ![m + 1] = pos1], lk, at, us, av, sp1)
      <4>1. FlowPushCase(B, m, S, pos, lk, at, us, av, sp, b, pos1, sp1)
        BY <1>16, <3>1, <3>2, <3>3 DEF FlowPushCase
      <4>2. QED
        BY <4>1, FlowPush, Zenon
    <3>4. TakesHeads(B1, m + 1, S1, lk, at, us, av, sp1)
      BY <1>14, <3>4a, Zenon
    <3>5. TakesHeads(B1, HeadsAhead, S1, BtHas, BtPos, hashBufPos, hashNumAvail, streamPos)'
      <4>1. HeadsAhead' = m + 1 /\ BtHas' = lk /\ BtPos' = at /\ hashBufPos' = us
            /\ hashNumAvail' = av
            /\ streamPos' = sp1
        BY <1>4, <1>9, <1>11, <1>13, <1>19, <2>2
      <4>2. QED
        BY <3>4, <4>1, Zenon
    <3>6. (btPc' = "end" => failure_BT') /\ (failure_BT' => BtPos' < size')
      BY <1>1, <1>4, <1>19, <2>3 DEF TakeData
    <3>7. QED
      BY <2>3, <3>5, <3>6 DEF TakeData
  <2>4. CASE spent = 1
    <3>0. AllTaken(B, HeadsAhead, BtHas, BtPos, hashBufPos, hashNumAvail, Pos, streamPos, Fin, Bad)
      BY <1>1, <2>4, Zenon DEF TakeData
    <3>1. AllTaken(B, m, lk, at, us, av, pos, sp, fin, bad)
      BY <1>11, <2>2, <3>0, Zenon
    <3>2. lk = 1 => m >= 1
      BY <1>19, <2>2
    <3>3. fin = 1 /\ pos = sp
      BY <3>1 DEF AllTaken
    <3>4. sp1 = sp /\ fin1 = 1 /\ b.avail = 0
      <4>1. sp1 = sp /\ fin1 = 1
        BY <1>16, <3>3
      <4>2. PICK x \in Nat : x = b.avail
        BY <1>6
      <4>3. pos + x = pos
        BY <1>16, <3>3, <4>1, <4>2
      <4>3a. x = 0
        BY <4>3
      <4>4. QED
        BY <4>1, <4>2, <4>3a, Zenon
    <3>5. pos1 = pos
      BY <1>16, <3>4
    <3>6. AllTaken(B1, m + 1, lk, at, us, av, pos, sp, fin, bad)
      <4>1. AllTaken([B EXCEPT ![m] = b], m + 1, lk, at, us, av, pos, sp, fin, bad)
        <5>1. SpentPushCase(B, m, pos, fin, bad, lk, at, us, av, sp, b)
          BY <3>1, <3>2, <3>4 DEF SpentPushCase
        <5>2. QED
          BY <5>1, SpentPush, Zenon
      <4>2. QED
        BY <1>14, <4>1, Zenon
    <3>7. AllTaken(B1, HeadsAhead, BtHas, BtPos, hashBufPos, hashNumAvail, Pos, streamPos, Fin, Bad)'
      <4>1. HeadsAhead' = m + 1 /\ BtHas' = lk /\ BtPos' = at /\ hashBufPos' = us
            /\ hashNumAvail' = av
            /\ Bad' = bad
        BY <1>4, <1>9, <1>11, <1>19, <2>1, <2>2
      <4>2. Pos' = pos /\ streamPos' = sp /\ Fin' = fin
        BY <1>13, <3>3, <3>4, <3>5
      <4>3. QED
        BY <3>6, <4>1, <4>2, Zenon
    <3>8. QED
      BY <2>4, <3>7 DEF TakeData
  <2>5. QED
    BY <2>3, <2>4
<1>21. ASSUME BtOn' PROVE TreeData(C, T, e)' /\ LzData(C, T, e)' /\ BtData(e, spent)'
  <2>1. BtOn
    BY <1>4, <1>21 DEF BtOn
  <2>2. filled'["bt"] = filled["bt"]
    BY <1>4 DEF Released, Control, ControlTypes, Sync
  <2>3. BlocksAhead' = BlocksAhead /\ Future' = Future
    BY <1>4, <2>2 DEF BlocksAhead, InUse, Count, Future, Producing
  <2>4. BlocksAhead \in Nat
    BY <2>1, BtOnPlaces
  <2>5. PICK q \in Nat, bad \in {0, 1} : q = BlocksAhead /\ bad = Bad
    BY <2>4, BadValue
  <2>6. TreeQueue(C, q, T, e, sp, fin, good, sz, bad)
    <3>1. TreeQueue(C, BlocksAhead, T, e, streamPos, Fin, Good, size, Bad)
      BY <1>1, <2>1 DEF TreeData
    <3>2. QED
      BY <1>11, <2>5, <3>1, Zenon
  <2>7. TreeQueue(C, q, T, e, sp1, fin1, good1, sz, bad)
    <3>1. TreeGrowCase(C, q, T, e, sp, fin, good, sz, bad, sp1, fin1, good1, bad)
      BY <1>16, <2>6 DEF TreeGrowCase
    <3>2. QED
      BY <3>1, TreeGrow, Zenon
  <2>8. TreeRingHolds(C)' /\ ReachesTo(C, BlocksAhead', T, e + Future')
    BY <1>1, <1>4, <2>1, <2>3 DEF TreeData, TreeRingHolds, lzVars
  <2>9. e + Future' <= streamPos'
    <3>0. d.avail \in Nat /\ hashNumAvail \in Nat
      BY <1>5, BlockFields DEF BtTypes
    <3>0a. Future \in Nat
      BY <3>0, Zenon DEF Future
    <3>1. e + Future <= sp /\ e + Future \in Int
      BY <1>1, <1>11, <2>1, <3>0a DEF TreeData
    <3>2. e + Future <= sp1
      BY <1>16, <3>1
    <3>3. QED
      BY <1>13, <2>3, <3>2
  <2>10. TreeData(C, T, e)'
    <3>1. Bad' = bad /\ size' = sz /\ BlocksAhead' = q
      BY <1>4, <1>11, <2>3, <2>5 DEF Bad
    <3>2. TreeQueue(C, BlocksAhead', T, e, streamPos', Fin', Good', size', Bad')
      BY <1>13, <2>7, <3>1, Zenon
    <3>3. QED
      BY <2>8, <2>9, <3>2, Zenon DEF TreeData
  <2>11. LzData(C, T, e)'
    BY <1>1, <1>4, <2>1, <2>3, FrameLz DEF lzVars
  <2>12. BtData(e, spent)'
    <3>1. CASE spent = 0
      BY <1>1, <1>4, <1>19, <2>1, <3>1 DEF BtData, Follows, Producing
    <3>2. CASE spent = 1
      <4>1. Fin = 1
        BY <1>1, <3>2 DEF TakeData, AllTaken
      <4>2. Fin' = Fin /\ streamPos' = streamPos
        BY <1>10, <4>1
      <4>3. QED
        BY <1>1, <1>4, <1>19, <2>1, <4>2, FrameBt
    <3>3. QED
      BY <3>1, <3>2
  <2>13. QED
    BY <2>10, <2>11, <2>12
<1>22. QED
  <2>1. AllData(B1, S1, C, T, e, spent)'
    BY <1>18, <1>20, <1>21, Zenon DEF AllData
  <2>2. QED
    BY <2>1, Zenon DEF SomeData

-----------------------------------------------------------------------------
(* BT asks for the next block of heads (BtGetMatches).                       *)

\* The ring from its next block on is the rest of the queue.
LEMMA HashRingPop ==
  ASSUME RingTypes, RingBlockTypes, NEW B \in [Nat -> BlockType], HashRingHolds(B),
         NEW m \in Nat,
         HeadsAhead = m + 1, HeadsAhead' = m, m < HashNumBlocks,
         hashBi' = Ring(hashBi + 1, HashNumBlocks),
         \A i \in 0 .. HashNumBlocks - 1 : i # hashBi => hashBuf'[i] = hashBuf[i]
  PROVE  HashRingHolds(Rest(B))'
<1> USE LzFindMtAssumption
<1>1. PICK i \in 0 .. HashNumBlocks - 1 : i = hashBi
  BY DEF RingTypes
<1>2. ASSUME NEW j \in 0 .. m - 1
      PROVE  Rest(B)[j] = hashBuf'[Ring(Ring(i + 1, HashNumBlocks) + j, HashNumBlocks)]
  <2>1. /\ Ring(Ring(i + 1, HashNumBlocks) + j, HashNumBlocks) = Ring(i + (j + 1), HashNumBlocks)
        /\ Ring(i + (j + 1), HashNumBlocks) # i
        /\ Ring(i + (j + 1), HashNumBlocks) \in 0 .. HashNumBlocks - 1
    BY <1>1 DEF Ring
  <2>2. j + 1 \in 0 .. HeadsAhead - 1 /\ j \in Nat
    OBVIOUS
  <2>3. B[j + 1] = hashBuf[Ring(i + (j + 1), HashNumBlocks)]
    BY <1>1, <2>2, Zenon DEF HashRingHolds
  <2>4. Rest(B)[j] = B[j + 1]
    BY <2>2 DEF Rest
  <2>5. hashBuf'[Ring(i + (j + 1), HashNumBlocks)] = hashBuf[Ring(i + (j + 1), HashNumBlocks)]
    BY <1>1, <2>1
  <2>6. QED
    BY <2>1, <2>3, <2>4, <2>5, Zenon
<1>3. hashBi' = Ring(i + 1, HashNumBlocks)
  BY <1>1
<1>4. \A j \in 0 .. m - 1 : Rest(B)[j] = hashBuf'[Ring(hashBi' + j, HashNumBlocks)]
  BY <1>2, <1>3, Zenon
<1>5. HeadsAhead' - 1 = m - 1
  OBVIOUS
<1>6. QED
  BY <1>4, <1>5, Zenon DEF HashRingHolds

\* The rest of a queue is one of the same kind.
LEMMA RestType ==
  /\ \A B \in [Nat -> BlockType] : Rest(B) \in [Nat -> BlockType]
  /\ \A S \in [Nat -> Nat] : Rest(S) \in [Nat -> Nat]
BY DEF Rest

\* BT has used up a block of heads, gives it back and asks for the next
\* (LzFindMt.c:122-147, 609-615).
LEMMA DataAskHash1 == ASSUME Control, DataInv, HashOn, AskHash PROVE SomeData'
<1>0. PICK B \in [Nat -> BlockType], S \in [Nat -> Nat], C \in [Nat -> BlockType], T \in [Nat -> Nat],
          e \in Nat, spent \in {0, 1} : AllData(B, S, C, T, e, spent)
  BY DEF DataInv, SomeData
<1>1. HashData(B, S) /\ TakeData(B, S, spent)
      /\ (BtOn => TreeData(C, T, e) /\ LzData(C, T, e) /\ BtData(e, spent))
  BY <1>0 DEF AllData
<1>2. Buffer /\ RingTypes /\ RingBlockTypes /\ BtTypes /\ HashRing
  BY DEF DataInv, DataTypes
<1>3. /\ btPc = "fill" /\ ~ failure_BT /\ HeadsLeft = 0 /\ btPc' = "wait" /\ hashBufPos' = 0
      /\ hashBi' = numProcessedBlocks["hash"] /\ hashBuf' = [hashBuf EXCEPT ![hashBi] = Erased]
      /\ UNCHANGED <<filled, btBuf, hashPc, mfVars, hashNumAvail, failure_BT, btBuffer, d, numProcessed, lzPc,
                     lzVars, size, needStart, stopWriting>>
  BY DEF AskHash, AskNext, NextIndex, HashOn, hashVars, btLocals, fileVars
<1>4. PICK m \in Nat : HeadsAhead = m + 1 /\ filled["hash"] = m /\ m < HashNumBlocks
  <2>1. /\ free["hash"] \in Nat /\ filled["hash"] \in Nat
           /\ free["hash"] + HeadsAhead = HashNumBlocks
        /\ HeadsAhead = filled["hash"] + 1
    BY <1>3, HashOnPlaces
  <2>2. filled["hash"] < HashNumBlocks
    BY <2>1, LzFindMtAssumption
  <2>3. QED
    BY <2>1, <2>2
<1>5. HeadsAhead' = m
  <2>1. ~ InUse("hash")' /\ filled'["hash"] = m
    BY <1>3, <1>4 DEF InUse
  <2>2. Count(InUse("hash"))' = 0
    BY <2>1, Zenon DEF Count
  <2>3. QED
    BY <2>1, <2>2 DEF HeadsAhead
<1>6. /\ Fin' = Fin /\ Good' = Good /\ Pos' = Pos /\ BtPos' = BtPos /\ streamPos' = streamPos
      /\ Bad' = Bad /\ BtHas' = 0 /\ BtHas = 1
  BY <1>3 DEF Fin, Good, Ended, Pos, BtPos, mfVars, Bad, BtHas, BtHasHeads, Count
<1>7. PICK pos \in Nat, sp \in Nat, sz \in Nat, fin \in {0, 1}, good \in {0, 1}, bad \in {0, 1}, at \in Int,
           us \in Nat, av \in Nat :
         /\ pos = Pos /\ sp = streamPos /\ sz = size /\ fin = Fin /\ good = Good /\ bad = Bad
         /\ at = BtPos /\ us = hashBufPos /\ av = hashNumAvail
  <2>1. Fin \in {0, 1} /\ Good \in {0, 1} /\ Bad \in {0, 1}
    BY FinValue, GoodValue, BadValue
  <2>2. Pos \in Nat /\ streamPos \in Nat /\ size \in Nat
    BY <1>2 DEF Buffer, Pos
  <2>3. BtPos \in Int /\ hashBufPos \in Nat /\ hashNumAvail \in Nat
    BY <1>2 DEF Buffer, BtPos, BtTypes
  <2>4. QED
    BY <2>1, <2>2, <2>3, Zenon
<1>8. HashQueue(B, m + 1, S, pos, sp, fin, good, sz)
  <2>1. HashQueue(B, HeadsAhead, S, Pos, streamPos, Fin, Good, size)
    BY <1>1 DEF HashData
  <2>2. QED
    BY <1>4, <1>7, <2>1, Zenon
<1>9. m + 1 \in Nat \ {0} /\ (m + 1) - 1 = m
  OBVIOUS
<1>10. HashQueue(Rest(B), m, Rest(S), pos, sp, fin, good, sz)
  <2>1. HashPopCase(B, m + 1, S, pos, sp, fin, good, sz)
    BY <1>8, <1>9 DEF HashPopCase
  <2>2. HashQueue(Rest(B), (m + 1) - 1, Rest(S), pos, sp, fin, good, sz)
    BY <2>1, HashPop, Zenon
  <2>3. QED
    BY <1>9, <2>2, Zenon
<1>11. B[0] = hashBuf[hashBi] /\ B[0] \in BlockType
  <2>1. 0 \in 0 .. HeadsAhead - 1 /\ hashBi \in 0 .. HashNumBlocks - 1
    BY <1>2, <1>4 DEF RingTypes
  <2>2. Ring(hashBi + 0, HashNumBlocks) = hashBi
    BY <2>1, LzFindMtAssumption DEF Ring
  <2>3. QED
    BY <1>1, <2>1, <2>2 DEF HashData, HashRingHolds
<1>12. HashRingHolds(Rest(B))'
  <2>1. \A i \in 0 .. HashNumBlocks - 1 : i # hashBi => hashBuf'[i] = hashBuf[i]
    BY <1>2, <1>3 DEF RingBlockTypes, RingTypes
  <2>2. hashBi' = Ring(hashBi + 1, HashNumBlocks)
    BY <1>2, <1>3 DEF HashRing
  <2>3. HashRingHolds(B)
    BY <1>1 DEF HashData
  <2>4. QED
    BY <1>2, <1>4, <1>5, <2>1, <2>2, <2>3, HashRingPop
<1>13. PICK B1 \in [Nat -> BlockType], S1 \in [Nat -> Nat] : B1 = Rest(B) /\ S1 = Rest(S)
  BY RestType
<1>14. HashData(B1, S1)'
  <2>1. HashQueue(B1, HeadsAhead', S1, Pos', streamPos', Fin', Good', size')
    BY <1>3, <1>5, <1>6, <1>7, <1>10, <1>13, Zenon
  <2>2. HashRingHolds(B1)'
    BY <1>12, <1>13
  <2>3. QED
    BY <2>1, <2>2, Zenon DEF HashData
<1>15. TakeData(B1, S1, spent)'
  <2>1. CASE spent = 0
    <3>1. TakesHeads(B, m + 1, S, 1, at, us, av, sp)
      <4>1. TakesHeads(B, HeadsAhead, S, BtHas, BtPos, hashBufPos, hashNumAvail, streamPos)
        BY <1>1, <2>1, Zenon DEF TakeData
      <4>2. QED
        BY <1>4, <1>6, <1>7, <4>1, Zenon
    <3>2. us = Len(B[0].pos)
      <4>1. PICK x \in Nat : x = Len(B[0].pos)
        BY <1>11, BlockFields
      <4>2. x - us = 0
        BY <1>3, <1>7, <1>11, <4>1 DEF HeadsLeft
      <4>3. QED
        BY <4>1, <4>2
    <3>3. FlowPopCase(B, m + 1, S, pos, sp, fin, good, sz, at, us, av)
      BY <1>8, <1>9, <3>1, <3>2 DEF FlowPopCase
    <3>4. TakesHeads(Rest(B), (m + 1) - 1, Rest(S), 0, at, 0, av, sp)
      BY <3>3, FlowPop, Zenon
    <3>5. TakesHeads(B1, HeadsAhead', S1, BtHas', BtPos', hashBufPos', hashNumAvail', streamPos')
      <4>1. hashBufPos' = 0 /\ hashNumAvail' = av
        BY <1>3, <1>7
      <4>2. QED
        BY <1>5, <1>6, <1>7, <1>9, <1>13, <3>4, <4>1, Zenon
    <3>6. btPc' # "end" /\ ~ failure_BT'
      BY <1>3
    <3>7. QED
      BY <2>1, <3>5, <3>6 DEF TakeData
  <2>2. CASE spent = 1
    <3>1. AllTaken(B, m + 1, 1, at, us, av, pos, sp, fin, bad)
      <4>1. AllTaken(B, HeadsAhead, BtHas, BtPos, hashBufPos, hashNumAvail, Pos, streamPos, Fin, Bad)
        BY <1>1, <2>2, Zenon DEF TakeData
      <4>2. QED
        BY <1>4, <1>6, <1>7, <4>1, Zenon
    <3>3. SpentPopCase(B, m + 1, pos, fin, bad, at, us, av, sp)
      BY <1>9, <3>1 DEF SpentPopCase
    <3>4. AllTaken(Rest(B), (m + 1) - 1, 0, at, 0, av, pos, sp, fin, bad)
      BY <3>3, SpentPop, Zenon
    <3>5. AllTaken(B1, HeadsAhead', BtHas', BtPos', hashBufPos', hashNumAvail', Pos', streamPos', Fin', Bad')
      <4>1. hashBufPos' = 0 /\ hashNumAvail' = av
        BY <1>3, <1>7
      <4>2. QED
        BY <1>5, <1>6, <1>7, <1>9, <1>13, <3>4, <4>1, Zenon
    <3>6. QED
      BY <2>2, <3>5 DEF TakeData
  <2>3. QED
    BY <2>1, <2>2
<1>16. ASSUME BtOn' PROVE TreeData(C, T, e)' /\ LzData(C, T, e)' /\ BtData(e, spent)'
  <2>1. BtOn
    BY <1>3, <1>16 DEF BtOn
  <2>2. BlocksAhead' = BlocksAhead /\ Future' = Future
    BY <1>3 DEF BlocksAhead, InUse, Count, Future, Producing
  <2>3. TreeData(C, T, e)'
    BY <1>1, <1>3, <1>6, <2>1, <2>2, FrameTree DEF lzVars
  <2>4. LzData(C, T, e)'
    BY <1>1, <1>3, <2>1, <2>2, FrameLz DEF lzVars
  <2>5. BtData(e, spent)'
    BY <1>1, <1>3, <1>6, <2>1 DEF BtData, Follows, Producing
  <2>6. QED
    BY <2>3, <2>4, <2>5
<1>17. AllData(B1, S1, C, T, e, spent)'
  BY <1>14, <1>15, <1>16, Zenon DEF AllData
<1>18. QED
  BY <1>17, Zenon DEF SomeData

\* BT asks for its first heads, which starts the hash thread (LzFindMt.c:124-136).
LEMMA DataAskHash2 == ASSUME Control, DataInv, needStart["hash"], AskHash PROVE SomeData'
<1> USE LzFindMtAssumption
<1>1. PICK B \in [Nat -> BlockType], S \in [Nat -> Nat] : S = [j \in Nat |-> 0]
           /\ B = [j \in Nat |-> Erased]
  <2>1. [j \in Nat |-> 0] \in [Nat -> Nat]
    OBVIOUS
  <2>2. Erased \in BlockType
    BY ErasedType
  <2>3. [j \in Nat |-> Erased] \in [Nat -> BlockType]
    BY <2>2
  <2>4. QED
    BY <2>1, <2>3
<1>2. btPc = "fill" /\ LzNeedsBlocks
  BY DEF AskHash, Control, BtHandshake, LzNeedsBlocks
<1>3. Fresh /\ filled["hash"] = 0 /\ Buffer
  BY <1>2 DEF DataInv, Control, Rings
<1>4. /\ btPc' = "wait" /\ hashBufPos' = 0 /\ hashNumAvail' = 0 /\ ~ failure_BT'
         /\ failure_BT' = failure_BT
      /\ BtPos' = 0 /\ Pos' = 0 /\ streamPos' = 0 /\ filled' = filled /\ size' = size
      /\ d.pos = <<>> /\ d.avail = 0 /\ numProcessed = 0
      /\ UNCHANGED <<d, numProcessed, lzPc, lzVars, btBuf>>
  BY <1>2, <1>3 DEF AskHash, Fresh, BtPos, Pos, mfVars, Producing, btLocals, fileVars
<1>5. HeadsAhead' = 0
  <2>1. ~ InUse("hash")' /\ filled'["hash"] = 0
    BY <1>3, <1>4 DEF InUse
  <2>2. Count(InUse("hash"))' = 0
    BY <2>1, Zenon DEF Count
  <2>3. QED
    BY <2>1, <2>2 DEF HeadsAhead
<1>6. BtHas' = 0
  BY <1>4 DEF BtHas, BtHasHeads, Count
<1>7. HashData(B, S)'
  <2>1. HashRingHolds(B)'
    BY <1>5 DEF HashRingHolds
  <2>2. HashQueue(B, 0, S, 0, 0, Fin', Good', size')
    BY <1>1 DEF HashQueue
  <2>3. HashQueue(B, HeadsAhead', S, Pos', streamPos', Fin', Good', size')
    BY <1>4, <1>5, <2>2, Zenon
  <2>4. QED
    BY <2>1, <2>3, Zenon DEF HashData
<1>8. TakeData(B, S, 0)'
  <2>1. TakesHeads(B, 0, S, 0, 0, 0, 0, 0)
    BY <1>1 DEF TakesHeads
  <2>2. TakesHeads(B, HeadsAhead', S, BtHas', BtPos', hashBufPos', hashNumAvail', streamPos')
    BY <1>4, <1>5, <1>6, <2>1, Zenon
  <2>3. btPc' # "end" /\ ~ failure_BT'
    BY <1>4
  <2>4. QED
    BY <2>2, <2>3 DEF TakeData
<1>9. ASSUME BtOn' PROVE TreeData(B, S, 0)' /\ LzData(B, S, 0)' /\ BtData(0, 0)'
  <2>1. BtOn
    BY <1>9 DEF BtOn, AskHash, AskNext, Control, ControlTypes, Sync
  <2>2. FreshBt
    BY <2>1 DEF DataInv
  <2>3. BlocksAhead' = 0
    <3>1. ~ InUse("bt")' /\ filled'["bt"] = 0
      BY <1>4, <2>2 DEF InUse, FreshBt
    <3>2. Count(InUse("bt"))' = 0
      BY <3>1, Zenon DEF Count
    <3>3. QED
      BY <3>1, <3>2 DEF BlocksAhead
  <2>4. Future' = 0
    BY <1>4 DEF Future, Producing
  <2>5. TreeData(B, S, 0)'
    <3>1. TreeRingHolds(B)'
      BY <2>3 DEF TreeRingHolds
    <3>2. TreeQueue(B, 0, S, 0, 0, Fin', Good', size', Bad') /\ ReachesTo(B, 0, S, 0)
      BY <1>1 DEF TreeQueue, ReachesTo
    <3>3. 0 + Future' = 0
      BY <2>4
    <3>4. TreeQueue(B, BlocksAhead', S, 0, streamPos', Fin', Good', size', Bad')
          /\ ReachesTo(B, BlocksAhead', S, 0 + Future')
      BY <1>4, <2>3, <3>2, <3>3, Zenon
    <3>5. 0 + Future' <= streamPos'
      BY <1>4, <3>3
    <3>6. QED
      BY <3>1, <3>4, <3>5, Zenon DEF TreeData
  <2>6. LzData(B, S, 0)'
    <3>1. lzPc' = "wait" /\ btBufPos' = 0 /\ btNumAvailBytes' = 0 /\ lzPos' = 1
      BY <1>4, <2>2 DEF FreshBt, lzVars
    <3>2. At' = 0 /\ S[0] = 0
      BY <1>1, <3>1 DEF At
    <3>3. QED
      BY <2>3, <2>4, <3>1, <3>2 DEF LzData
  <2>7. BtData(0, 0)'
    <3>1. Follows(0)'
      BY <1>4 DEF Follows
    <3>2. QED
      BY <1>4, <3>1 DEF BtData
  <2>8. QED
    BY <2>5, <2>6, <2>7
<1>10. AllData(B, S, B, S, 0, 0)'
  BY <1>7, <1>8, <1>9, Zenon DEF AllData
<1>11. 0 \in Nat /\ 0 \in {0, 1}
  OBVIOUS
<1>12. QED
  BY <1>10, <1>11, Zenon DEF SomeData

-----------------------------------------------------------------------------
(* BT gets the block of heads (BtGetMatches).                                *)

\* The first block of the queue.
LEMMA FirstHeads ==
  ASSUME NEW B, NEW n, NEW S, NEW pos, NEW sp, NEW fin, NEW good, NEW sz,
         B \in [Nat -> BlockType], n \in Nat \ {0}, S \in [Nat -> Nat], sp \in Nat,
         HashQueue(B, n, S, pos, sp, fin, good, sz)
  PROVE  /\ S[0] + B[0].avail <= sp
         /\ HeadsFor(B[0], S[0], S[1], good, sz) \/ NoHeadsFor(B[0], S[0], S[1], fin, sp)
<1>1. 0 \in 0 .. n - 1 /\ 0 + 1 = 1
  OBVIOUS
<1>2. QED
  BY <1>1 DEF HashQueue

\* s is p, of length len, followed by the x elements of w.
Joined(s, p, w, len, x) ==
  /\ s \in Seq(Int) /\ Len(s) = len + x
  /\ \A k \in 1 .. len : s[k] = p[k]
  /\ \A k \in len + 1 .. len + x : k - len \in 1 .. x /\ s[k] = w[k - len]

\* What makes it that.
JoinCase(s, p, w, len, x) ==
  /\ p \in Seq(Int) /\ w \in Seq(Int) /\ len \in Nat /\ x \in Nat /\ len = Len(p) /\ x = Len(w)
  /\ s = p \o w

\* The elements of a concatenation.
LEMMA Join ==
  ASSUME NEW s, NEW p, NEW w, NEW len, NEW x, JoinCase(s, p, w, len, x)
  PROVE  Joined(s, p, w, len, x)
BY DEF JoinCase, Joined

\* BT locks the next heads: it adds what they know of to what it tells LZ of, and with
\* too few bytes for a head it puts the last positions into its block
\* (LzFindMt.c:614-651).
LEMMA DataLockHash == ASSUME Control, DataInv, HashOn, LockHash PROVE SomeData'
<1>0. PICK B \in [Nat -> BlockType], S \in [Nat -> Nat], C \in [Nat -> BlockType], T \in [Nat -> Nat],
          e \in Nat, spent \in {0, 1} : AllData(B, S, C, T, e, spent)
  BY DEF DataInv, SomeData
<1>1. HashData(B, S) /\ TakeData(B, S, spent)
      /\ (BtOn => TreeData(C, T, e) /\ LzData(C, T, e) /\ BtData(e, spent))
  BY <1>0 DEF AllData
<1>2. Buffer /\ RingTypes /\ RingBlockTypes /\ BtTypes
  BY DEF DataInv, DataTypes
<1>3. PICK m \in Nat : HeadsAhead = m /\ m # 0
  <2>1. btPc = "lock"
    BY DEF LockHash
  <2>2. filled["hash"] \in Nat /\ HeadsAhead = filled["hash"] + 1
    BY <2>1, HashOnPlaces
  <2>3. HeadsAhead \in Nat /\ HeadsAhead # 0
    BY <2>2
  <2>4. QED
    BY <2>3
<1>4. B[0] = hashBuf[hashBi] /\ B[0] \in BlockType
  <2>1. 0 \in 0 .. HeadsAhead - 1 /\ hashBi \in 0 .. HashNumBlocks - 1
    BY <1>2, <1>3 DEF RingTypes
  <2>2. Ring(hashBi + 0, HashNumBlocks) = hashBi
    BY <2>1, LzFindMtAssumption DEF Ring
  <2>3. QED
    BY <1>1, <2>1, <2>2 DEF HashData, HashRingHolds
<1>5. PICK x \in Nat, s0 \in Nat : x = B[0].avail /\ s0 = S[0]
  BY <1>4, BlockFields
<1>6. /\ btPc = "lock" /\ hashNumAvail' = (IF AtEnd(x) THEN 0 ELSE x)
      /\ d' = Block(IF AtEnd(x) THEN d.pos \o [i \in 1 .. x |-> NoPos] ELSE d.pos, AvailSum(x))
      /\ btPc' = (IF AtEnd(x) THEN "end" ELSE "fill")
      /\ UNCHANGED <<filled, btBuf, hashBuf, hashBi, hashBufPos, hashPc, mfVars, failure_BT, btBuffer,
                     numProcessed, lzPc, lzVars, size, needStart, stopWriting>>
  BY <1>4, <1>5 DEF LockHash, hashVars, fileVars
<1>7. /\ Fin' = Fin /\ Good' = Good /\ Pos' = Pos /\ BtPos' = BtPos /\ streamPos' = streamPos
      /\ Bad' = Bad
  BY <1>6 DEF Fin, Good, Ended, Pos, BtPos, mfVars, Bad
<1>7a. BtHas' = 1 /\ BtHas = 0 /\ HeadsAhead' = HeadsAhead
  BY <1>6 DEF BtHas, BtHasHeads, Count, HeadsAhead, InUse
<1>8. HashData(B, S)'
  BY <1>1, <1>6, <1>7, <1>7a, FrameHash
<1>9. PICK pos \in Nat, sp \in Nat, sz \in Nat, fin \in {0, 1}, good \in {0, 1}, at \in Int,
           us \in Nat, av \in Nat, np \in Nat, da \in Nat :
         /\ pos = Pos /\ sp = streamPos /\ sz = size /\ fin = Fin /\ good = Good
         /\ at = BtPos /\ us = hashBufPos /\ av = hashNumAvail /\ np = numProcessed /\ da = d.avail
  <2>1. Fin \in {0, 1} /\ Good \in {0, 1}
    BY FinValue, GoodValue
  <2>2. Pos \in Nat /\ streamPos \in Nat /\ size \in Nat
    BY <1>2 DEF Buffer, Pos
  <2>3. BtPos \in Int /\ hashBufPos \in Nat /\ hashNumAvail \in Nat /\ numProcessed \in Nat
    BY <1>2 DEF Buffer, BtPos, BtTypes
  <2>4. d.avail \in Nat
    BY <1>2, BlockFields DEF BtTypes
  <2>5. QED
    BY <2>1, <2>2, <2>3, <2>4, Zenon
<1>9a. pos <= sp /\ d.pos \in Seq(Int) /\ Len(d.pos) \in Nat
  BY <1>2, <1>9, BlockFields DEF Buffer, BtTypes
<1>9b. d'.avail = np + x
  BY <1>6, <1>9 DEF Block, AvailSum
<1>10. HashQueue(B, m, S, pos, sp, fin, good, sz)
  <2>1. HashQueue(B, HeadsAhead, S, Pos, streamPos, Fin, Good, size)
    BY <1>1 DEF HashData
  <2>2. QED
    BY <1>3, <1>9, <2>1, Zenon
<1>11. /\ S[0] + B[0].avail <= sp
       /\ HeadsFor(B[0], S[0], S[1], good, sz) \/ NoHeadsFor(B[0], S[0], S[1], fin, sp)
  BY <1>3, <1>10, FirstHeads
<1>11a. s0 + x <= sp
  BY <1>5, <1>11
<1>12. BtOn => BlocksAhead' = BlocksAhead /\ Future' = np + x /\ Future = da
  BY <1>6, <1>9, <1>9b DEF BlocksAhead, InUse, Count, Future, Producing
<1>13. BtOn' => BtOn
  BY <1>6 DEF BtOn
\* what BT adds to the block goes as far as the new heads
<1>14. ASSUME BtOn, e + da <= e + (np + x), e + (np + x) <= sp
    PROVE TreeData(C, T, e)' /\ LzData(C, T, e)'
  <2>1. TreeData(C, T, e) /\ LzData(C, T, e) /\ BlocksAhead \in Nat
    BY <1>1, <1>14, BtOnPlaces
  <2>2. PICK q \in Nat : q = BlocksAhead /\ BlocksAhead' = q
    BY <1>12, <1>14, <2>1
  <2>3. TreeQueue(C, BlocksAhead', T, e, streamPos', Fin', Good', size', Bad')
    <3>1. TreeQueue(C, BlocksAhead, T, e, streamPos, Fin, Good, size, Bad) /\ size' = size
      BY <1>6, <2>1 DEF TreeData
    <3>2. QED
      BY <1>7, <2>2, <3>1, Zenon
  <2>4. TreeRingHolds(C)'
    BY <1>6, <1>12, <1>14, <2>1 DEF TreeData, TreeRingHolds, lzVars
  <2>5. Future' = np + x /\ Future = da
    BY <1>12, <1>14
  <2>6. ReachesTo(C, q, T, e + (np + x))
    <3>1. ReachesTo(C, q, T, e + da)
      BY <2>1, <2>2, <2>5 DEF TreeData
    <3>2. ASSUME NEW j \in 0 .. q - 1 PROVE T[j] + C[j].avail <= e + (np + x)
      <4>1. j \in Nat
        OBVIOUS
      <4>2. T[j] \in Nat /\ C[j] \in BlockType
        BY <4>1
      <4>3. PICK u \in Nat, v \in Nat : u = T[j] /\ v = C[j].avail
        BY <4>2, BlockFields
      <4>4. u + v <= e + da
        BY <3>1, <4>3 DEF ReachesTo
      <4>5. u + v <= e + (np + x)
        BY <1>14, <4>4
      <4>6. QED
        BY <4>3, <4>5
    <3>3. QED
      BY <3>2 DEF ReachesTo
  <2>7. ReachesTo(C, BlocksAhead', T, e + Future')
    BY <2>2, <2>5, <2>6, Zenon
  <2>8. e + Future' <= streamPos'
    BY <1>7, <1>9, <1>14, <2>5
  <2>9. TreeData(C, T, e)'
    BY <2>3, <2>4, <2>7, <2>8, Zenon DEF TreeData
  <2>10. LzData(C, T, e)'
    <3>1. UNCHANGED <<lzPc, btBufPos, btNumAvailBytes, failure_LZ_BT>> /\ At' = At /\ At \in Int
          /\ btNumAvailBytes \in Nat
      BY <1>6 DEF lzVars, At, DataInv, DataTypes, LzTypes
    <3>2. lzPc \in {"wait", "lock"} => At + btNumAvailBytes <= e + da
      BY <2>1, <2>5 DEF LzData
    <3>3. PICK y \in Int : y = At + btNumAvailBytes
      BY <3>1
    <3>4. lzPc \in {"wait", "lock"} => y <= e + (np + x)
      BY <1>14, <3>2, <3>3
    <3>5. At' + btNumAvailBytes' = y /\ e + Future' = e + (np + x)
      BY <2>5, <3>1, <3>3
    <3>6. lzPc' \in {"wait", "lock"} => At' + btNumAvailBytes' <= e + Future'
      BY <3>1, <3>4, <3>5
    <3>7. QED
      BY <2>1, <2>2, <3>1, <3>6 DEF LzData
  <2>11. QED
    BY <2>9, <2>10
<1>15. CASE ~ AtEnd(x)
  <2>1. x >= NumHashBytes
    BY <1>15, LzFindMtAssumption DEF AtEnd
  <2>2. spent = 0
    <3>1. CASE spent = 1
      <4>1. AllTaken(B, HeadsAhead, BtHas, BtPos, hashBufPos, hashNumAvail, Pos, streamPos, Fin, Bad)
        BY <1>1, <3>1 DEF TakeData
      <4>2. 0 \in 0 .. HeadsAhead - 1 /\ BtHas # 1
        BY <1>3, <1>7a
      <4>3. B[0].avail = 0
        BY <4>1, <4>2 DEF AllTaken
      <4>4. QED
        BY <1>5, <2>1, <4>3, LzFindMtAssumption
    <3>2. QED
      BY <3>1
  <2>3. /\ us = 0 /\ at = s0
        /\ at + av <= s0 + x
    <3>1. TakesHeads(B, HeadsAhead, S, BtHas, BtPos, hashBufPos, hashNumAvail, streamPos)
      BY <1>1, <2>2 DEF TakeData
    <3>2. TakesHeads(B, m, S, 0, at, us, av, sp)
      BY <1>3, <1>7a, <1>9, <3>1, Zenon
    <3>3. 0 \in 0 .. m - 1
      BY <1>3
    <3>4. QED
      BY <1>5, <3>2, <3>3 DEF TakesHeads
  <2>4. hashNumAvail' = x /\ btPc' = "fill" /\ d'.pos = d.pos
    BY <1>6, <1>15 DEF Block
  <2>5. TakeData(B, S, spent)'
    <3>1. TakesHeads(B, m, S, 1, at, us, x, sp)
      <4>1. us <= Len(B[0].pos) /\ at = s0 + us /\ x = x - us
        BY <1>4, <2>3, BlockFields
      <4>2. /\ B[0].avail >= NumHashBytes /\ at = S[0] + us
            /\ us <= Len(B[0].pos) /\ x = B[0].avail - us
        BY <1>5, <2>1, <4>1
      <4>3. QED
        BY <4>2 DEF TakesHeads
    <3>2. TakesHeads(B, HeadsAhead', S, BtHas', BtPos', hashBufPos', hashNumAvail', streamPos')
      <4>1. HeadsAhead' = m /\ BtHas' = 1 /\ BtPos' = at /\ hashBufPos' = us /\ hashNumAvail' = x
            /\ streamPos' = sp
        BY <1>3, <1>6, <1>7, <1>7a, <1>9, <2>4
      <4>2. QED
        BY <3>1, <4>1, Zenon
    <3>3. btPc' # "end" /\ ~ failure_BT'
      BY <1>2, <1>6, <2>4 DEF BtTypes
    <3>4. QED
      BY <2>2, <3>2, <3>3 DEF TakeData
  <2>6. ASSUME BtOn' PROVE TreeData(C, T, e)' /\ LzData(C, T, e)' /\ BtData(e, spent)'
    <3>1. BtOn /\ Follows(e)
      BY <1>1, <1>6, <1>13, <2>2, <2>6 DEF BtData, Producing
    <3>2. e = at - np /\ Len(d.pos) = np /\ e + da = at + av
      BY <1>9, <3>1 DEF Follows
    <3>3. e + da <= e + (np + x) /\ e + (np + x) <= sp
      BY <1>11a, <2>3, <3>2
    <3>4. Follows(e)'
      <4>1. BtPos' = at /\ numProcessed' = np /\ hashNumAvail' = x
        BY <1>6, <1>7, <1>9, <2>4
      <4>2. e + (np + x) = at + x
        BY <3>2
      <4>3. e = BtPos' - numProcessed' /\ Len(d'.pos) = numProcessed'
            /\ e + d'.avail = BtPos' + hashNumAvail'
        BY <1>9b, <2>4, <3>2, <4>1, <4>2
      <4>4. \A k \in 1 .. Len(d'.pos) : d'.pos[k] = e + k - 1
        BY <2>4, <3>1 DEF Follows
      <4>5. QED
        BY <4>3, <4>4, Zenon DEF Follows
    <3>5. BtData(e, spent)'
      BY <2>2, <2>4, <3>4 DEF BtData
    <3>6. QED
      BY <1>14, <3>1, <3>3, <3>5
  <2>7. AllData(B, S, C, T, e, spent)'
    BY <1>8, <2>5, <2>6, Zenon DEF AllData
  <2>8. QED
    BY <2>7, Zenon DEF SomeData
<1>16. CASE AtEnd(x)
  <2>1. x < NumHashBytes /\ B[0].avail < NumHashBytes
    BY <1>5, <1>16 DEF AtEnd
  <2>1a. ~ HeadsFor(B[0], S[0], S[1], good, sz)
    <3>1. ~ (x >= NumHashBytes)
      BY <2>1, LzFindMtAssumption
    <3>2. QED
      BY <1>5, <3>1, Zenon DEF HeadsFor
  <2>1b. S[1] = s0 + x /\ S[1] = sp
    BY <1>5, <1>11, <2>1a DEF NoHeadsFor
  <2>2. at <= s0 /\ (spent = 0 => at = s0 /\ us = 0) /\ (spent = 1 => x = 0 /\ us = 0)
    <3>1. CASE spent = 1
      <4>1. AllTaken(B, HeadsAhead, BtHas, BtPos, hashBufPos, hashNumAvail, Pos, streamPos, Fin, Bad)
        BY <1>1, <3>1 DEF TakeData
      <4>2. 0 \in 0 .. HeadsAhead - 1 /\ BtHas # 1
        BY <1>3, <1>7a
      <4>3. B[0].avail = 0
        BY <4>1, <4>2 DEF AllTaken
      <4>4. at <= sp /\ us = 0
        BY <1>9, <4>1 DEF AllTaken
      <4>5. s0 = sp /\ x = 0
        BY <1>5, <2>1b, <4>3
      <4>6. QED
        BY <3>1, <4>4, <4>5
    <3>2. CASE spent = 0
      <4>1. TakesHeads(B, HeadsAhead, S, BtHas, BtPos, hashBufPos, hashNumAvail, streamPos)
        BY <1>1, <3>2 DEF TakeData
      <4>2. at = s0 /\ us = 0
        BY <1>5, <1>7a, <1>9, <4>1 DEF TakesHeads
      <4>3. QED
        BY <3>2, <4>2
    <3>3. QED
      BY <3>1, <3>2
  <2>3. AllTaken(B, m, 1, at, 0, 0, pos, sp, fin, 0) /\ S[0] + B[0].avail = sp /\ fin = 1
    <3>1. m \in Nat \ {0} /\ at <= S[0]
      BY <1>3, <1>5, <2>2
    <3>2. SpentBeginCase(B, m, S, pos, sp, fin, good, sz, at)
      BY <1>9a, <1>10, <2>1, <3>1 DEF SpentBeginCase
    <3>3. QED
      BY <3>2, SpentBegin, Zenon
  <2>4. hashNumAvail' = 0 /\ btPc' = "end" /\ d'.pos = d.pos \o [i \in 1 .. x |-> NoPos]
    BY <1>6, <1>16 DEF Block
  <2>5. TakeData(B, S, 1)'
    <3>1. ~ failure_BT /\ Bad' = 0
      BY <1>2, <1>6 DEF BtTypes, Bad, Count
    <3>2. HeadsAhead' = m /\ BtHas' = 1 /\ BtPos' = at /\ hashBufPos' = 0 /\ hashNumAvail' = 0
          /\ streamPos' = sp
          /\ Pos' = pos /\ Fin' = fin
      BY <1>3, <1>6, <1>7, <1>7a, <1>9, <2>2, <2>4
    <3>3. AllTaken(B, HeadsAhead', BtHas', BtPos', hashBufPos', hashNumAvail', Pos', streamPos', Fin', Bad')
      BY <2>3, <3>1, <3>2, Zenon
    <3>4. QED
      BY <3>3 DEF TakeData
  <2>6. ASSUME BtOn' PROVE TreeData(C, T, e)' /\ LzData(C, T, e)' /\ BtData(e, 1)'
    <3>1. BtOn /\ BtData(e, spent)
      BY <1>1, <1>13, <2>6
    <3>2. s0 + x = sp
      BY <1>5, <2>3
    <3>3. PICK len \in Nat : len = Len(d.pos)
      BY <1>9a
    <3>4. len = np /\ e + np = s0 /\ e + da <= e + (np + x)
      <4>1. CASE spent = 0
        <5>1. Follows(e)
          BY <1>6, <3>1, <4>1 DEF BtData, Producing
        <5>2. e = at - np /\ len = np /\ e + da = at + av
          BY <1>9, <3>3, <5>1 DEF Follows
        <5>3. at + av <= s0 + x
          <6>1. TakesHeads(B, HeadsAhead, S, BtHas, BtPos, hashBufPos, hashNumAvail, streamPos)
            BY <1>1, <4>1 DEF TakeData
          <6>2. TakesHeads(B, m, S, 0, at, us, av, sp)
            BY <1>3, <1>7a, <1>9, <6>1, Zenon
          <6>3. 0 \in 0 .. m - 1
            BY <1>3
          <6>4. QED
            BY <1>5, <6>2, <6>3 DEF TakesHeads
        <5>4. QED
          BY <2>2, <4>1, <5>2, <5>3
      <4>2. CASE spent = 1
        <5>1. e = sp /\ d.pos = <<>> /\ np = 0 /\ da = 0
          BY <1>6, <1>9, <3>1, <4>2 DEF BtData
        <5>2. len = 0 /\ x = 0
          BY <2>2, <3>3, <4>2, <5>1
        <5>3. QED
          BY <3>2, <5>1, <5>2
      <4>3. QED
        BY <4>1, <4>2
    <3>5. e + (np + x) = sp
      BY <3>2, <3>4
    <3>6. d'.pos \in Seq(Int) /\ Len(d'.pos) = len + x
          /\ (\A k \in 1 .. len : d'.pos[k] = d.pos[k])
             /\ (\A k \in len + 1 .. len + x : d'.pos[k] = NoPos)
      <4>1. PICK w \in Seq(Int) : w = [i \in 1 .. x |-> NoPos]
        <5>1. [i \in 1 .. x |-> NoPos] \in Seq(Int)
          BY DEF NoPos
        <5>2. QED
          BY <5>1
      <4>2. Len(w) = x /\ \A k \in 1 .. x : w[k] = NoPos
        BY <4>1
      <4>3. PICK p \in Seq(Int) : p = d.pos
        BY <1>9a
      <4>4. d'.pos = p \o w /\ Len(p) = len
        BY <2>4, <3>3, <4>1, <4>3
      <4>5. PICK s : s = d'.pos
        OBVIOUS
      <4>6. Joined(s, p, w, len, x)
        <5>1. JoinCase(s, p, w, len, x)
          BY <4>2, <4>4, <4>5 DEF JoinCase
        <5>2. QED
          BY <5>1, Join, Zenon
      <4>7. ASSUME NEW k \in len + 1 .. len + x PROVE s[k] = NoPos
        BY <4>2, <4>6 DEF Joined
      <4>8. QED
        BY <4>3, <4>5, <4>6, <4>7 DEF Joined
    <3>7. ASSUME NEW k \in 1 .. Len(d'.pos)
          PROVE  d'.pos[k] = e + k - 1 \/ (d'.pos[k] = NoPos /\ e + k - 1 + NumHashBytes > sp)
      <4>1. CASE k <= len
        <5>1. spent = 0
          <6>1. CASE spent = 1
            <7>1. d.pos = <<>>
              BY <1>6, <3>1, <6>1 DEF BtData
            <7>2. len = 0
              BY <3>3, <7>1
            <7>3. QED
              BY <4>1, <7>2
          <6>2. QED
            BY <6>1
        <5>2. Follows(e)
          BY <1>6, <3>1, <5>1 DEF BtData, Producing
        <5>3. k \in 1 .. len /\ k \in 1 .. Len(d.pos)
          BY <3>3, <4>1
        <5>4. d.pos[k] = e + k - 1
          BY <5>2, <5>3 DEF Follows
        <5>5. QED
          BY <3>6, <5>3, <5>4
      <4>2. CASE ~ (k <= len)
        <5>1. k \in len + 1 .. len + x
          BY <3>6, <4>2
        <5>2. e + k - 1 + NumHashBytes > sp
          BY <2>1, <3>4, <3>5, <5>1, LzFindMtAssumption
        <5>3. QED
          BY <3>6, <5>1, <5>2
      <4>3. QED
        BY <4>1, <4>2
    <3>8. EntriesFrom(d', e, Fin', streamPos')
      BY <1>7, <1>9, <2>3, <3>7 DEF EntriesFrom
    <3>9. e + Len(d'.pos) = streamPos' /\ e + d'.avail = streamPos'
      BY <1>7, <1>9, <1>9b, <3>4, <3>5, <3>6
    <3>10. BtData(e, 1)'
      BY <2>4, <3>8, <3>9 DEF BtData
    <3>11. e + (np + x) <= sp
      BY <3>5
    <3>12. QED
      BY <1>14, <3>1, <3>4, <3>10, <3>11
  <2>7. AllData(B, S, C, T, e, 1)'
    BY <1>8, <2>5, <2>6, Zenon DEF AllData
  <2>8. 1 \in {0, 1}
    OBVIOUS
  <2>9. QED
    BY <2>7, <2>8, Zenon DEF SomeData
<1>17. QED
  BY <1>15, <1>16

-----------------------------------------------------------------------------
(* BT searches (BtGetMatches).                                               *)

\* What BT has of its block of heads, when not all is taken: the heads are those of its
\* positions, and there are as many bytes as heads.
LEMMA WorksOnHeads ==
  ASSUME Control, DataInv, HashOn, BtHasHeads, NEW B \in [Nat -> BlockType],
         NEW S \in [Nat -> Nat],
         HashData(B, S), TakeData(B, S, 0)
  PROVE  \E len \in Nat, x \in Nat, s0 \in Nat :
           /\ B[0] = hashBuf[hashBi] /\ B[0] \in BlockType
           /\ s0 = S[0] /\ x = B[0].avail /\ len = Len(B[0].pos)
           /\ BtPos = s0 + hashBufPos /\ hashBufPos <= len /\ hashNumAvail = x - hashBufPos
           /\ len <= x /\ s0 + x <= streamPos /\ x >= NumHashBytes
           /\ \A k \in 1 .. len : B[0].pos[k] = s0 + k - 1
           /\ readResult = "ok" => s0 + x >= Min2(s0 + len + Lookahead, size)
           /\ HeadsLeft = len - hashBufPos
<1> USE LzFindMtAssumption
<1>2. Buffer /\ RingTypes /\ RingBlockTypes /\ BtTypes
  BY DEF DataInv, DataTypes
<1>3. PICK m \in Nat : HeadsAhead = m /\ m # 0
  <2>1. btPc # "wait"
    BY DEF BtHasHeads
  <2>2. filled["hash"] \in Nat /\ HeadsAhead = filled["hash"] + 1
    BY <2>1, HashOnPlaces
  <2>3. HeadsAhead \in Nat /\ HeadsAhead # 0
    BY <2>2
  <2>4. QED
    BY <2>3
<1>4. B[0] = hashBuf[hashBi] /\ B[0] \in BlockType
  <2>1. 0 \in 0 .. HeadsAhead - 1 /\ hashBi \in 0 .. HashNumBlocks - 1
    BY <1>2, <1>3 DEF RingTypes
  <2>2. Ring(hashBi + 0, HashNumBlocks) = hashBi
    BY <2>1 DEF Ring
  <2>3. QED
    BY <2>1, <2>2 DEF HashData, HashRingHolds
<1>5. PICK x \in Nat, s0 \in Nat, len \in Nat : x = B[0].avail /\ s0 = S[0] /\ len = Len(B[0].pos)
  BY <1>4, BlockFields
<1>6. PICK sp \in Nat, sz \in Nat, good \in {0, 1}, fin \in {0, 1} :
        sp = streamPos /\ sz = size /\ good = Good /\ fin = Fin
  BY <1>2, GoodValue, FinValue DEF Buffer
<1>7. HashQueue(B, m, S, Pos, sp, fin, good, sz)
  BY <1>3, <1>6, Zenon DEF HashData
<1>8. /\ S[0] + B[0].avail <= sp
      /\ HeadsFor(B[0], S[0], S[1], good, sz) \/ NoHeadsFor(B[0], S[0], S[1], fin, sp)
  BY <1>3, <1>7, FirstHeads
<1>9. /\ B[0].avail >= NumHashBytes /\ BtPos = S[0] + hashBufPos
      /\ hashBufPos <= Len(B[0].pos) /\ hashNumAvail = B[0].avail - hashBufPos
  BY BtHasValue DEF TakeData, TakesHeads
<1>10. HeadsFor(B[0], S[0], S[1], good, sz)
  <2>1. x >= NumHashBytes
    BY <1>5, <1>9
  <2>2. ~ (x < NumHashBytes)
    BY <2>1
  <2>3. QED
    BY <1>5, <1>8, <2>2, Zenon DEF NoHeadsFor
<1>11. PICK s1 \in Nat : s1 = S[1]
  OBVIOUS
<1>12. len = s1 - s0 /\ s1 - s0 <= x
  BY <1>5, <1>10, <1>11 DEF HeadsFor
<1>13. s1 = s0 + len /\ len <= x
  BY <1>12
<1>14. \A k \in 1 .. len : B[0].pos[k] = s0 + k - 1
  BY <1>5, <1>10 DEF HeadsFor
<1>15. good = 1 => s0 + x >= Min2(s0 + len + Lookahead, sz)
  BY <1>5, <1>10, <1>11, <1>13 DEF HeadsFor
<1>16. HeadsLeft = len - hashBufPos
  BY <1>4, <1>5 DEF HeadsLeft
<1>17. s0 + x <= streamPos
  BY <1>5, <1>6, <1>8
<1>18. QED
  BY <1>4, <1>5, <1>6, <1>9, <1>13, <1>14, <1>15, <1>16, <1>17, GoodValue

\* With heads left not all is taken.
LEMMA NotSpent ==
  ASSUME Control, DataInv, HashOn, BtHasHeads, HeadsLeft > 0, NEW B \in [Nat -> BlockType],
         NEW S \in [Nat -> Nat],
         NEW spent \in {0, 1}, HashData(B, S), TakeData(B, S, spent)
  PROVE  spent = 0
<1>1. SUFFICES ASSUME spent = 1 PROVE FALSE
  OBVIOUS
<1>2. B[0].pos = <<>> /\ hashBufPos = 0
  BY <1>1, BtHasValue DEF TakeData, AllTaken
<1>3. B[0] = hashBuf[hashBi]
  <2>0. btPc # "wait"
    BY DEF BtHasHeads
  <2>0a. filled["hash"] \in Nat /\ HeadsAhead = filled["hash"] + 1
    BY <2>0, HashOnPlaces
  <2>1. 0 \in 0 .. HeadsAhead - 1 /\ hashBi \in 0 .. HashNumBlocks - 1
    BY <2>0a DEF RingTypes, DataInv, DataTypes
  <2>2. Ring(hashBi + 0, HashNumBlocks) = hashBi
    BY <2>1, LzFindMtAssumption DEF Ring
  <2>3. QED
    BY <2>1, <2>2 DEF HashData, HashRingHolds
<1>4. HeadsLeft = 0
  BY <1>2, <1>3 DEF HeadsLeft
<1>5. QED
  BY <1>4

\* BT searches only where it has bytes: hashNumAvail does not go below zero
\* (LzFindMt.c:652-734).
LEMMA ProcessAvail == ASSUME Control, DataInv, Process PROVE HashOn /\ hashNumAvail >= HeadsLeft
<1>1. btPc = "fill" /\ HeadsLeft > 0 /\ BtHasHeads
  BY DEF Process, BtHasHeads
<1>2. HashOn
  <2>1. ~ needStart["bt"] /\ (needStart["hash"] => LzNeedsBlocks)
    BY <1>1 DEF Control, BtHandshake, LzNeedsBlocks
  <2>2. ~ needStart["hash"]
    <3>1. SUFFICES ASSUME needStart["hash"] PROVE FALSE
      OBVIOUS
    <3>2. Fresh
      BY <2>1, <3>1 DEF DataInv
    <3>3. HeadsLeft = 0
      BY <3>2 DEF Fresh, HeadsLeft
    <3>4. QED
      BY <1>1, <3>3
  <2>3. QED
    BY <1>1, <2>2 DEF Control, ControlTypes, HashHandshake, HashOn, Sync
<1>3. PICK B \in [Nat -> BlockType], S \in [Nat -> Nat], C \in [Nat -> BlockType], T \in [Nat -> Nat],
          e \in Nat, spent \in {0, 1} : AllData(B, S, C, T, e, spent)
  BY <1>2 DEF DataInv, SomeData
<1>4. HashData(B, S) /\ TakeData(B, S, spent)
  BY <1>3 DEF AllData
<1>5. spent = 0
  BY <1>1, <1>2, <1>4, NotSpent
<1>6. PICK len \in Nat, x \in Nat, s0 \in Nat :
           hashNumAvail = x - hashBufPos /\ len <= x /\ HeadsLeft = len - hashBufPos
  BY <1>1, <1>2, <1>4, <1>5, WorksOnHeads
<1>7. hashBufPos \in Nat
  BY DEF DataInv, DataTypes, BtTypes
<1>8. QED
  BY <1>2, <1>6, <1>7

\* Processing, with the number of heads left as a value.
LEMMA ProcessingOf == ASSUME Process, btPc' = btPc, NEW h \in Nat, h = HeadsLeft
       PROVE \E n \in 1 .. h : Processes(n)
BY Processing, Zenon

\* The elements of a part of the heads.
LEMMA Part ==
  ASSUME NEW h \in Seq(Int), NEW used \in Nat, NEW n \in Nat \ {0}, used + n <= Len(h)
  PROVE  /\ SubSeq(h, used + 1, used + n) \in Seq(Int) /\ Len(SubSeq(h, used + 1, used + n)) = n
         /\ \A k \in 1 .. n : SubSeq(h, used + 1, used + n)[k] = h[used + k]
<1>1. Len(h) \in Nat /\ used + 1 \in 1 .. Len(h) /\ used + n \in 1 .. Len(h)
      /\ (used + n) - (used + 1) + 1 = n
  OBVIOUS
<1>2. SubSeq(h, used + 1, used + n) \in Seq(Int) /\ Len(SubSeq(h, used + 1, used + n)) = n
  BY <1>1
<1>3. ASSUME NEW k \in 1 .. n PROVE SubSeq(h, used + 1, used + n)[k] = h[used + k]
  <2>1. SubSeq(h, used + 1, used + n)[k] = h[(used + 1) + k - 1]
    BY <1>1
  <2>2. (used + 1) + k - 1 = used + k
    OBVIOUS
  <2>3. QED
    BY <2>1, <2>2
<1>4. QED
  BY <1>2, <1>3

\* s is p, of length len, followed by n heads of h from number "used" on.
Grown(s, p, h, len, used, n) ==
  /\ Len(s) = len + n
  /\ \A k \in 1 .. len : s[k] = p[k]
  /\ \A k \in len + 1 .. len + n : k - len + used \in 1 .. Len(h) /\ s[k] = h[k - len + used]

\* What makes it that.
GrowCase(s, p, h, len, used, n) ==
  /\ p \in Seq(Int) /\ h \in Seq(Int) /\ len \in Nat /\ used \in Nat /\ n \in Nat \ {0}
  /\ len = Len(p) /\ used + n <= Len(h)
  /\ s = p \o SubSeq(h, used + 1, used + n)

\* The elements that GetMatches adds.
LEMMA Grow ==
  ASSUME NEW s, NEW p, NEW h, NEW len, NEW used, NEW n, GrowCase(s, p, h, len, used, n)
  PROVE  Grown(s, p, h, len, used, n)
<1>c. /\ p \in Seq(Int) /\ h \in Seq(Int) /\ len \in Nat /\ used \in Nat /\ n \in Nat \ {0}
      /\ len = Len(p) /\ used + n <= Len(h)
      /\ s = p \o SubSeq(h, used + 1, used + n)
  BY DEF GrowCase
<1>1. /\ SubSeq(h, used + 1, used + n) \in Seq(Int) /\ Len(SubSeq(h, used + 1, used + n)) = n
      /\ \A k \in 1 .. n : SubSeq(h, used + 1, used + n)[k] = h[used + k]
  BY <1>c, Part
<1>1a. PICK w \in Seq(Int) : w = SubSeq(h, used + 1, used + n)
  BY <1>1
<1>2. Len(w) = n /\ \A k \in 1 .. n : w[k] = h[used + k]
  BY <1>1, <1>1a, Zenon
<1>2a. PICK lh \in Nat : lh = Len(h)
  BY <1>c
<1>3. JoinCase(s, p, w, len, n)
  BY <1>c, <1>1a, <1>2 DEF JoinCase
<1>4. Joined(s, p, w, len, n)
  BY <1>3, Join, Zenon
<1>5. ASSUME NEW k \in len + 1 .. len + n
    PROVE k - len + used \in 1 .. Len(h) /\ s[k] = h[k - len + used]
  <2>1. k - len \in 1 .. n /\ s[k] = w[k - len]
    BY <1>4 DEF Joined
  <2>2. used + (k - len) = k - len + used
    BY <1>c
  <2>3. w[k - len] = h[k - len + used]
    BY <1>2, <2>1, <2>2
  <2>4. used + n <= lh /\ len \in Nat /\ used \in Nat /\ n \in Nat
    BY <1>c, <1>2a
  <2>5. k - len + used \in 1 .. lh
    BY <2>1, <2>4
  <2>6. QED
    BY <1>2a, <2>1, <2>3, <2>5, Zenon
<1>6. QED
  BY <1>4, <1>5 DEF Joined, Grown

\* GetMatches adds to BT's block, or fails (LzFindMt.c:652-734).
LEMMA DataProcess == ASSUME Control, DataInv, HashOn, Process PROVE SomeData'
<1> USE DEF hashVars, mfVars, lzVars, fileVars, syncVars
<1>0. PICK B \in [Nat -> BlockType], S \in [Nat -> Nat], C \in [Nat -> BlockType], T \in [Nat -> Nat],
          e \in Nat, spent \in {0, 1} : AllData(B, S, C, T, e, spent)
  BY DEF DataInv, SomeData
<1>1. HashData(B, S) /\ TakeData(B, S, spent)
      /\ (BtOn => TreeData(C, T, e) /\ LzData(C, T, e) /\ BtData(e, spent))
  BY <1>0 DEF AllData
<1>2. Buffer /\ RingTypes /\ RingBlockTypes /\ BtTypes
  BY DEF DataInv, DataTypes
<1>3. /\ btPc = "fill" /\ HeadsLeft > 0 /\ BtHasHeads /\ ~ failure_BT
      /\ UNCHANGED <<syncVars, hashBuf, btBuf, hashVars, mfVars, hashBi, lzPc, lzVars, fileVars>>
      /\ btPc' \in {"fill", "end"}
  BY DEF Process, BtHasHeads
<1>4. spent = 0
  BY <1>1, <1>3, NotSpent
<1>5. PICK len \in Nat, x \in Nat, s0 \in Nat :
           /\ B[0] = hashBuf[hashBi] /\ B[0] \in BlockType
           /\ s0 = S[0] /\ x = B[0].avail /\ len = Len(B[0].pos)
           /\ BtPos = s0 + hashBufPos /\ hashBufPos <= len /\ hashNumAvail = x - hashBufPos
           /\ len <= x /\ s0 + x <= streamPos /\ x >= NumHashBytes
           /\ \A k \in 1 .. len : B[0].pos[k] = s0 + k - 1
           /\ readResult = "ok" => s0 + x >= Min2(s0 + len + Lookahead, size)
           /\ HeadsLeft = len - hashBufPos
  BY <1>1, <1>3, <1>4, WorksOnHeads
<1>5a. PICK used \in Nat, av \in Nat, np \in Nat, da \in Nat, at \in Int, sp \in Nat, sz \in Nat :
         /\ used = hashBufPos /\ av = hashNumAvail /\ np = numProcessed /\ da = d.avail
            /\ at = BtPos
         /\ sp = streamPos /\ sz = size
  <2>1. hashBufPos \in Nat /\ hashNumAvail \in Nat /\ numProcessed \in Nat /\ BtPos \in Int
    BY <1>2 DEF BtTypes, Buffer, BtPos
  <2>2. d.avail \in Nat
    BY <1>2, BlockFields DEF BtTypes
  <2>3. streamPos \in Nat /\ size \in Nat
    BY <1>2 DEF Buffer
  <2>4. QED
    BY <2>1, <2>2, <2>3, Zenon
<1>5b. PICK hl \in Nat : hl = HeadsLeft /\ hl = len - used /\ hl > 0
  <2>1. HeadsLeft = len - used /\ used <= len
    BY <1>5, <1>5a
  <2>2. QED
    BY <1>3, <2>1
<1>5c. at = s0 + used /\ av = x - used /\ s0 + x <= sp /\ sp <= sz /\ used < len /\ len <= x
  <2>1. at = s0 + used /\ av = x - used
    BY <1>5, <1>5a, Zenon
  <2>2. s0 + x <= sp /\ len <= x
    BY <1>5, <1>5a, Zenon
  <2>3. sp <= sz
    BY <1>2, <1>5a, Zenon DEF Buffer
  <2>4. used < len
    BY <1>5b
  <2>5. QED
    BY <2>1, <2>2, <2>3, <2>4, Zenon
<1>6. /\ Fin' = Fin /\ Good' = Good /\ Pos' = Pos /\ streamPos' = streamPos /\ size' = size
      /\ HeadsAhead' = HeadsAhead /\ BtHas' = BtHas /\ BtHas = 1
  BY <1>3 DEF Fin, Good, Ended, Pos, HeadsAhead, BtHas, BtHasHeads, Count, InUse
<1>7. HashData(B, S)'
  BY <1>1, <1>3, <1>6, FrameHash
<1>8. BtOn' => BtOn
  BY <1>3 DEF BtOn
<1>9. BlocksAhead' = BlocksAhead
  BY <1>3 DEF BlocksAhead, InUse
<1>10. CASE failure_BT'
  <2>1. /\ UNCHANGED <<d, hashBufPos, hashNumAvail, numProcessed, btBuffer>> /\ btPc' = "end"
    BY <1>3, <1>10 DEF Process
  <2>2. BtPos' = BtPos /\ Future' = Future
    BY <1>3, <2>1 DEF BtPos, Future, Producing
  <2>3. BtPos < size
    <3>1. at < sz
      BY <1>5c
    <3>2. QED
      BY <1>5a, <3>1
  <2>4. TakeData(B, S, spent)'
    <3>1. TakesHeads(B, HeadsAhead, S, BtHas, BtPos, hashBufPos, hashNumAvail, streamPos)
      BY <1>1, <1>4 DEF TakeData
    <3>2. TakesHeads(B, HeadsAhead', S, BtHas', BtPos', hashBufPos', hashNumAvail', streamPos')
      BY <1>6, <2>1, <2>2, <3>1, Zenon
    <3>3. failure_BT' /\ BtPos' < size'
      BY <1>6, <1>10, <2>2, <2>3
    <3>4. QED
      BY <1>4, <3>2, <3>3 DEF TakeData
  <2>5. ASSUME BtOn' PROVE TreeData(C, T, e)' /\ LzData(C, T, e)' /\ BtData(e, spent)'
    <3>1. BtOn
      BY <1>8, <2>5
    <3>2. PICK q \in Nat, fin \in {0, 1}, good \in {0, 1}, bad \in {0, 1} :
            q = BlocksAhead /\ fin = Fin /\ good = Good /\ bad = Bad
      <4>1. BlocksAhead \in Nat
        BY <3>1, BtOnPlaces
      <4>3. QED
        BY <4>1, FinValue, GoodValue, BadValue, Zenon
    <3>3. TreeQueue(C, q, T, e, sp, fin, good, sz, bad)
      <4>1. TreeQueue(C, BlocksAhead, T, e, streamPos, Fin, Good, size, Bad)
        BY <1>1, <3>1 DEF TreeData
      <4>2. QED
        BY <1>5a, <3>2, <4>1, Zenon
    <3>4. TreeQueue(C, q, T, e, sp, fin, good, sz, 1)
      <4>1. TreeGrowCase(C, q, T, e, sp, fin, good, sz, bad, sp, fin, good, 1)
        BY <3>3 DEF TreeGrowCase
      <4>2. QED
        BY <4>1, TreeGrow, Zenon
    <3>5. Bad' = 1
      BY <1>10 DEF Bad, Count
    <3>6. TreeData(C, T, e)'
      <4>1. TreeQueue(C, BlocksAhead', T, e, streamPos', Fin', Good', size', Bad')
        BY <1>5a, <1>6, <1>9, <3>2, <3>4, <3>5, Zenon
      <4>2. QED
        BY <1>1, <1>3, <1>6, <1>9, <2>2, <3>1, <4>1 DEF TreeData, TreeRingHolds
    <3>7. LzData(C, T, e)'
      BY <1>1, <1>3, <1>9, <2>2, <3>1, FrameLz
    <3>8. BtData(e, spent)'
      BY <1>1, <1>3, <1>4, <2>1, <2>2, <3>1 DEF BtData, Follows, Producing
    <3>9. QED
      BY <3>6, <3>7, <3>8
  <2>6. AllData(B, S, C, T, e, spent)'
    BY <1>7, <2>4, <2>5, Zenon DEF AllData
  <2>7. QED
    BY <2>6, Zenon DEF SomeData
<1>11. CASE ~ failure_BT'
  <2>1. btPc' = "fill" /\ btPc' = btPc /\ failure_BT' = failure_BT
    BY <1>3, <1>11 DEF Process
  <2>2. PICK n \in 1 .. hl : Processes(n)
    BY <1>5b, <2>1, ProcessingOf
  <2>4. n \in Nat /\ n # 0 /\ used + n <= len /\ at = s0 + used /\ av = x - used
    BY <1>5b, <1>5c
  <2>5. /\ hashBufPos' = used + n /\ hashNumAvail' = av - n /\ numProcessed' = np + n
        /\ d'.pos = d.pos \o SubSeq(hashBuf[hashBi].pos, used + 1, used + n) /\ d'.avail = da
    <3>1. d' = [d EXCEPT !.pos = @ \o SubSeq(hashBuf[hashBi].pos, hashBufPos + 1, hashBufPos + n)]
          /\ hashBufPos' = hashBufPos + n /\ hashNumAvail' = hashNumAvail - n
          /\ numProcessed' = numProcessed + n
      BY <2>2 DEF Processes
    <3>2. d \in [pos : Seq(Int), avail : Nat, ok : BOOLEAN]
      BY <1>2 DEF BtTypes, BlockType
    <3>3. QED
      BY <1>5a, <3>1, <3>2
  <2>6. BtPos' = at + n
    <3>1. btBuffer' = btBuffer + n /\ base' = base
      BY <1>3, <2>2 DEF Processes
    <3>2. btBuffer \in Int /\ base \in Nat /\ at = base + btBuffer
      BY <1>2, <1>5a DEF BtTypes, Buffer, BtPos
    <3>3. QED
      BY <2>4, <3>1, <3>2 DEF BtPos
  <2>7. Future' = Future
    BY <1>5a, <2>1, <2>5 DEF Future, Producing
  <2>8. TakeData(B, S, spent)'
    <3>1. TakesHeads(B, HeadsAhead', S, 1, at + n, used + n, av - n, streamPos')
      <4>1. B[0].avail >= NumHashBytes /\ at + n = S[0] + (used + n) /\ used + n <= Len(B[0].pos)
            /\ av - n = B[0].avail - (used + n)
        <5>1. x >= NumHashBytes /\ at + n = s0 + (used + n) /\ used + n <= len
              /\ av - n = x - (used + n)
          <6>1. at + n = s0 + (used + n) /\ used + n <= len /\ av - n = x - (used + n)
            BY <2>4
          <6>2. QED
            BY <1>5, <6>1, Zenon
        <5>2. QED
          BY <1>5, <5>1, Zenon
      <4>2. QED
        BY <4>1 DEF TakesHeads
    <3>2. TakesHeads(B, HeadsAhead', S, BtHas', BtPos', hashBufPos', hashNumAvail', streamPos')
      BY <1>6, <2>5, <2>6, <3>1, Zenon
    <3>3. btPc' # "end" /\ ~ failure_BT'
      BY <1>11, <2>1
    <3>4. QED
      BY <1>4, <3>2, <3>3 DEF TakeData
  <2>9. ASSUME BtOn' PROVE TreeData(C, T, e)' /\ LzData(C, T, e)' /\ BtData(e, spent)'
    <3>1. BtOn
      BY <1>8, <2>9
    <3>2. TreeData(C, T, e)'
      BY <1>1, <1>3, <1>6, <1>9, <2>1, <2>7, <3>1, FrameTree
    <3>3. LzData(C, T, e)'
      BY <1>1, <1>3, <1>9, <2>7, <3>1, FrameLz
    <3>4. Follows(e)
      BY <1>1, <1>3, <1>4, <3>1 DEF BtData, Producing
    <3>5. e = at - np /\ Len(d.pos) = np /\ e + da = at + av
          /\ \A k \in 1 .. np : d.pos[k] = e + k - 1
      BY <1>5a, <3>4 DEF Follows
    <3>6. PICK s, p, h : s = d'.pos /\ p = d.pos /\ h = hashBuf[hashBi].pos
      OBVIOUS
    <3>7. Grown(s, p, h, np, used, n)
      <4>1. p \in Seq(Int) /\ h \in Seq(Int) /\ Len(h) = len
        BY <1>2, <1>5, <3>6, BlockFields DEF BtTypes
      <4>2. GrowCase(s, p, h, np, used, n)
        BY <2>4, <2>5, <3>5, <3>6, <4>1 DEF GrowCase
      <4>3. QED
        BY <4>2, Grow, Zenon
    <3>8. ASSUME NEW k \in 1 .. np + n PROVE s[k] = e + k - 1
      <4>1. CASE k <= np
        <5>1. k \in 1 .. np
          BY <4>1
        <5>2. QED
          BY <3>5, <3>6, <3>7, <5>1 DEF Grown
      <4>2. CASE ~ (k <= np)
        <5>1. k \in np + 1 .. np + n
          BY <4>2
        <5>2. k - np + used \in 1 .. len /\ s[k] = h[k - np + used]
          BY <1>5, <3>6, <3>7, <5>1 DEF Grown
        <5>3. h[k - np + used] = s0 + (k - np + used) - 1
          BY <1>5, <3>6, <5>2
        <5>4. s0 + (k - np + used) - 1 = e + k - 1
          <6>1. e = at - np /\ at = s0 + used /\ k \in Int
            BY <2>4, <3>5, <5>1
          <6>2. QED
            BY <6>1
        <5>5. QED
          BY <5>2, <5>3, <5>4
      <4>3. QED
        BY <4>1, <4>2
    <3>9. Len(d'.pos) = np + n
      BY <3>6, <3>7 DEF Grown
    <3>10. Follows(e)'
      <4>1. e = (at + n) - (np + n) /\ e + da = (at + n) + (av - n)
        BY <2>4, <3>5
      <4>2. e = BtPos' - numProcessed' /\ Len(d'.pos) = numProcessed'
            /\ e + d'.avail = BtPos' + hashNumAvail'
        BY <2>5, <2>6, <3>9, <4>1, Zenon
      <4>3. \A k \in 1 .. Len(d'.pos) : d'.pos[k] = e + k - 1
        BY <3>6, <3>8, <3>9
      <4>4. QED
        BY <4>2, <4>3, Zenon DEF Follows
    <3>11. BtData(e, spent)'
      BY <1>4, <2>1, <3>10 DEF BtData, Producing
    <3>12. QED
      BY <3>2, <3>3, <3>11
  <2>10. AllData(B, S, C, T, e, spent)'
    BY <1>7, <2>8, <2>9, Zenon DEF AllData
  <2>11. QED
    BY <2>10, Zenon DEF SomeData
<1>12. QED
  BY <1>10, <1>11

-----------------------------------------------------------------------------
(* LZ asks for the next block of matches, BT completes one.                  *)

\* The block after those ahead is the new end of the queue in the ring.
LEMMA TreeRingPush ==
  ASSUME RingTypes, RingBlockTypes, NEW C \in [Nat -> BlockType], TreeRingHolds(C),
         NEW c \in BlockType,
         NEW m \in Nat, m = BlocksAhead, m < BtNumBlocks,
         btBlock = Ring(btBi + m, BtNumBlocks),
         btBuf' = [btBuf EXCEPT ![btBlock] = c], btBi' = btBi, BlocksAhead' = m + 1,
         NEW C1, C1 = [C EXCEPT ![m] = c]
  PROVE  TreeRingHolds(C1)'
<1> USE LzFindMtAssumption
<1>1. PICK i \in 0 .. BtNumBlocks - 1 : i = btBi
  BY DEF RingTypes
<1>2. C1[m] = c /\ \A j \in 0 .. m - 1 : C1[j] = C[j]
  OBVIOUS
<1>3. ASSUME NEW j \in 0 .. m PROVE C1[j] = btBuf'[Ring(i + j, BtNumBlocks)]
  <2>1. Ring(i + j, BtNumBlocks) \in 0 .. BtNumBlocks - 1
        /\ Ring(i + m, BtNumBlocks) \in 0 .. BtNumBlocks - 1
    BY <1>1 DEF Ring
  <2>2. j # m => Ring(i + j, BtNumBlocks) # Ring(i + m, BtNumBlocks)
    BY <1>1 DEF Ring
  <2>3. CASE j = m
    BY <1>1, <1>2, <2>1, <2>3 DEF RingBlockTypes
  <2>4. CASE j # m
    <3>1. btBuf'[Ring(i + j, BtNumBlocks)] = btBuf[Ring(i + j, BtNumBlocks)]
      BY <1>1, <2>1, <2>2, <2>4 DEF RingBlockTypes
    <3>2. j \in 0 .. m - 1 /\ j \in 0 .. BlocksAhead - 1
      BY <2>4
    <3>3. C[j] = btBuf[Ring(i + j, BtNumBlocks)]
      BY <1>1, <3>2, Zenon DEF TreeRingHolds
    <3>4. QED
      BY <1>2, <3>1, <3>2, <3>3
  <2>5. QED
    BY <2>3, <2>4
<1>4. BlocksAhead' - 1 = m /\ btBi' = i
  BY <1>1
<1>5. \A j \in 0 .. m : C1[j] = btBuf'[Ring(btBi' + j, BtNumBlocks)]
  BY <1>3, <1>4, Zenon
<1>6. QED
  BY <1>4, <1>5, Zenon DEF TreeRingHolds

\* The ring from its next block on is the rest of the queue.
LEMMA TreeRingPop ==
  ASSUME RingTypes, RingBlockTypes, NEW C \in [Nat -> BlockType], TreeRingHolds(C),
         NEW m \in Nat,
         BlocksAhead = m + 1, BlocksAhead' = m, m < BtNumBlocks,
         btBi' = Ring(btBi + 1, BtNumBlocks),
         \A i \in 0 .. BtNumBlocks - 1 : i # btBi => btBuf'[i] = btBuf[i]
  PROVE  TreeRingHolds(Rest(C))'
<1> USE LzFindMtAssumption
<1>1. PICK i \in 0 .. BtNumBlocks - 1 : i = btBi
  BY DEF RingTypes
<1>2. ASSUME NEW j \in 0 .. m - 1
      PROVE  Rest(C)[j] = btBuf'[Ring(Ring(i + 1, BtNumBlocks) + j, BtNumBlocks)]
  <2>1. /\ Ring(Ring(i + 1, BtNumBlocks) + j, BtNumBlocks) = Ring(i + (j + 1), BtNumBlocks)
        /\ Ring(i + (j + 1), BtNumBlocks) # i
        /\ Ring(i + (j + 1), BtNumBlocks) \in 0 .. BtNumBlocks - 1
    BY <1>1 DEF Ring
  <2>2. j + 1 \in 0 .. BlocksAhead - 1 /\ j \in Nat
    OBVIOUS
  <2>3. C[j + 1] = btBuf[Ring(i + (j + 1), BtNumBlocks)]
    BY <1>1, <2>2, Zenon DEF TreeRingHolds
  <2>4. Rest(C)[j] = C[j + 1]
    BY <2>2 DEF Rest
  <2>5. btBuf'[Ring(i + (j + 1), BtNumBlocks)] = btBuf[Ring(i + (j + 1), BtNumBlocks)]
    BY <1>1, <2>1
  <2>6. QED
    BY <2>1, <2>3, <2>4, <2>5, Zenon
<1>3. btBi' = Ring(i + 1, BtNumBlocks)
  BY <1>1
<1>4. \A j \in 0 .. m - 1 : Rest(C)[j] = btBuf'[Ring(btBi' + j, BtNumBlocks)]
  BY <1>2, <1>3, Zenon
<1>5. BlocksAhead' - 1 = m - 1
  OBVIOUS
<1>6. QED
  BY <1>4, <1>5, Zenon DEF TreeRingHolds

\* LZ has used up a block, gives it back and asks for the next; the first time it
\* starts the tree thread (LzFindMt.c:954-970).
LEMMA DataAskBlock == ASSUME Control, DataInv, HashOn, AskBlock PROVE SomeData'
<1> USE DEF hashVars, mfVars, takeVars, btLocals, fileVars
<1>0. PICK B \in [Nat -> BlockType], S \in [Nat -> Nat], C \in [Nat -> BlockType], T \in [Nat -> Nat],
          e \in Nat, spent \in {0, 1} : AllData(B, S, C, T, e, spent)
  BY DEF DataInv, SomeData
<1>1. HashData(B, S) /\ TakeData(B, S, spent)
      /\ (BtOn => TreeData(C, T, e) /\ LzData(C, T, e) /\ BtData(e, spent))
  BY <1>0 DEF AllData
<1>2. Buffer /\ RingTypes /\ RingBlockTypes /\ BtTypes /\ LzTypes
  BY DEF DataInv, DataTypes
<1>3. lzPc = "run" /\ BtOn /\ ~ needStart["bt"] /\ TreeRing
  BY HashOnPlaces DEF AskBlock, DataInv
<1>4. /\ lzPc' = "wait" /\ btBufPos' = 0 /\ btBi' = numProcessedBlocks["bt"]
      /\ btBuf' = [btBuf EXCEPT ![btBi] = Erased] /\ ~ BlockLeft
      /\ UNCHANGED <<filled, hashBuf, hashVars, mfVars, btPc, takeVars, failure_BT, btBuffer,
                     btLocals, btNumAvailBytes, failure_LZ_BT, lzPos, lzPointer, fileVars, needStart, stopWriting>>
  BY <1>3 DEF AskBlock, AskNext, NextIndex
<1>5. PICK m \in Nat : BlocksAhead = m + 1 /\ filled["bt"] = m /\ m < BtNumBlocks
  <2>1. /\ free["bt"] \in Nat /\ filled["bt"] \in Nat
        /\ free["bt"] + BlocksAhead + Count(Producing("bt")) = BtNumBlocks
        /\ BlocksAhead = filled["bt"] + 1
    BY <1>3, BtOnPlaces
  <2>2. PICK k \in {0, 1} : k = Count(Producing("bt"))
    BY CountValue
  <2>3. filled["bt"] < BtNumBlocks
    BY <2>1, <2>2, LzFindMtAssumption
  <2>4. QED
    BY <2>1, <2>3
<1>6. BlocksAhead' = m
  <2>1. ~ InUse("bt")' /\ filled'["bt"] = m
    BY <1>4, <1>5 DEF InUse
  <2>2. Count(InUse("bt"))' = 0
    BY <2>1, Zenon DEF Count
  <2>3. QED
    BY <2>1, <2>2 DEF BlocksAhead
<1>7. /\ Fin' = Fin /\ Good' = Good /\ Pos' = Pos /\ BtPos' = BtPos /\ streamPos' = streamPos
      /\ Bad' = Bad /\ BtHas' = BtHas /\ HeadsAhead' = HeadsAhead /\ Future' = Future /\ BtOn'
         /\ At' = At
  <2>1. Fin' = Fin /\ Good' = Good /\ Pos' = Pos /\ BtPos' = BtPos /\ streamPos' = streamPos
        /\ Bad' = Bad
    BY <1>4 DEF Fin, Good, Ended, Pos, BtPos, Bad
  <2>2. BtHas' = BtHas /\ HeadsAhead' = HeadsAhead
    BY <1>4 DEF BtHas, BtHasHeads, HeadsAhead, InUse
  <2>3. Future' = Future
    BY <1>4 DEF Future, Producing
  <2>4. BtOn' /\ At' = At
    BY <1>3, <1>4 DEF BtOn, At
  <2>5. QED
    BY <2>1, <2>2, <2>3, <2>4
<1>8. HashData(B, S)'
  BY <1>1, <1>4, <1>7, FrameHash
<1>9. TakeData(B, S, spent)'
  BY <1>1, <1>4, <1>7, FrameTake
<1>10. BtData(e, spent)'
  BY <1>1, <1>3, <1>4, <1>7, FrameBt
<1>11. TreeData(C, T, e) /\ LzData(C, T, e)
  BY <1>1, <1>3
<1>12. PICK sp \in Nat, sz \in Nat, fin \in {0, 1}, good \in {0, 1}, bad \in {0, 1}, fu \in Nat, reach \in Nat :
         /\ sp = streamPos /\ sz = size /\ fin = Fin /\ good = Good /\ bad = Bad /\ fu = Future
         /\ reach = e + fu
  <2>1. streamPos \in Nat /\ size \in Nat /\ hashNumAvail \in Nat
    BY <1>2 DEF Buffer, BtTypes
  <2>2. d.avail \in Nat
    BY <1>2, BlockFields DEF BtTypes
  <2>3. Future \in Nat
    BY <2>1, <2>2, Zenon DEF Future
  <2>4. PICK fu \in Nat : fu = Future
    BY <2>3
  <2>5. e + fu \in Nat
    OBVIOUS
  <2>6. QED
    BY <2>1, <2>4, <2>5, FinValue, GoodValue, BadValue, Zenon
<1>13. TreeQueue(C, m + 1, T, e, sp, fin, good, sz, bad) /\ ReachesTo(C, m + 1, T, reach)
  <2>1. TreeQueue(C, BlocksAhead, T, e, streamPos, Fin, Good, size, Bad)
        /\ ReachesTo(C, BlocksAhead, T, e + Future)
    BY <1>11 DEF TreeData
  <2>2. QED
    BY <1>5, <1>12, <2>1, Zenon
<1>14. m + 1 \in Nat \ {0} /\ (m + 1) - 1 = m
  OBVIOUS
<1>15. TreeQueue(Rest(C), m, Rest(T), e, sp, fin, good, sz, bad)
       /\ ReachesTo(Rest(C), m, Rest(T), reach)
  <2>1. TreePopCase(C, m + 1, T, e, sp, fin, good, sz, bad, reach)
    BY <1>13, <1>14 DEF TreePopCase
  <2>2. TreeQueue(Rest(C), (m + 1) - 1, Rest(T), e, sp, fin, good, sz, bad)
        /\ ReachesTo(Rest(C), (m + 1) - 1, Rest(T), reach)
    BY <2>1, TreePop, Zenon
  <2>3. QED
    BY <1>14, <2>2, Zenon
<1>16. C[0] = btBuf[btBi] /\ C[0] \in BlockType
  <2>1. 0 \in 0 .. BlocksAhead - 1 /\ btBi \in 0 .. BtNumBlocks - 1
    BY <1>2, <1>5 DEF RingTypes
  <2>2. Ring(btBi + 0, BtNumBlocks) = btBi
    BY <2>1, LzFindMtAssumption DEF Ring
  <2>3. QED
    BY <1>11, <2>1, <2>2 DEF TreeData, TreeRingHolds
<1>17. TreeRingHolds(Rest(C))'
  <2>1. \A i \in 0 .. BtNumBlocks - 1 : i # btBi => btBuf'[i] = btBuf[i]
    BY <1>2, <1>4 DEF RingBlockTypes, RingTypes
  <2>2. btBi' = Ring(btBi + 1, BtNumBlocks)
    BY <1>3, <1>4 DEF TreeRing
  <2>3. TreeRingHolds(C)
    BY <1>11 DEF TreeData
  <2>4. QED
    BY <1>2, <1>5, <1>6, <2>1, <2>2, <2>3, TreeRingPop
<1>18. PICK C1 \in [Nat -> BlockType], T1 \in [Nat -> Nat] : C1 = Rest(C) /\ T1 = Rest(T)
  BY RestType
<1>19. e + Future' = reach /\ reach <= sp
  BY <1>7, <1>11, <1>12 DEF TreeData
<1>20. TreeData(C1, T1, e)'
  <2>1. size' = sz
    BY <1>4, <1>12
  <2>2. TreeQueue(C1, BlocksAhead', T1, e, streamPos', Fin', Good', size', Bad')
        /\ ReachesTo(C1, BlocksAhead', T1, e + Future')
    BY <1>6, <1>7, <1>12, <1>15, <1>18, <1>19, <2>1, Zenon
  <2>3. e + Future' <= streamPos'
    BY <1>7, <1>12, <1>19
  <2>4. TreeRingHolds(C1)'
    BY <1>17, <1>18
  <2>5. QED
    BY <2>2, <2>3, <2>4, Zenon DEF TreeData
<1>21. LzData(C1, T1, e)'
  <2>1. PICK at \in Int, na \in Nat, bp \in Nat, len \in Nat, t0 \in Nat, t1 \in Nat, a0 \in Nat :
          /\ at = At /\ na = btNumAvailBytes /\ bp = btBufPos /\ len = Len(C[0].pos)
          /\ t0 = T[0] /\ t1 = T[1] /\ a0 = C[0].avail
    <3>1. At \in Int /\ btNumAvailBytes \in Nat /\ btBufPos \in Nat
      BY <1>2 DEF LzTypes, At
    <3>2. Len(C[0].pos) \in Nat /\ C[0].avail \in Nat
      BY <1>16, BlockFields
    <3>3. T[0] \in Nat /\ T[1] \in Nat
      OBVIOUS
    <3>4. QED
      BY <3>1, <3>2, <3>3, Zenon
  <2>2. at + na = t0 + a0 /\ at = t0 + bp /\ bp <= len
    BY <1>3, <1>11, <2>1 DEF LzData
  <2>3. ~ (bp < len)
    BY <1>4, <1>16, <2>1 DEF BlockLeft
  <2>4. 0 \in 0 .. (m + 1) - 1 /\ 0 + 1 = 1
    OBVIOUS
  <2>5. len = t1 - t0
    BY <1>13, <2>1, <2>4 DEF TreeQueue, MatchesFor
  <2>6. at = t1
    BY <2>2, <2>3, <2>5
  <2>7. ASSUME NEW j \in 0 .. m PROVE t0 + a0 <= T[j] + C[j].avail
    <3>1. j \in 0 .. (m + 1) - 1 /\ 0 <= j
      OBVIOUS
    <3>2. T[0] + C[0].avail <= T[j] + C[j].avail
      BY <1>13, <2>4, <3>1 DEF TreeQueue
    <3>3. QED
      BY <2>1, <3>2, Zenon
  <2>8. ASSUME NEW j \in 0 .. m - 1 PROVE at + na <= T1[j] + C1[j].avail
    <3>1. j + 1 \in 0 .. m /\ T1[j] = T[j + 1] /\ C1[j] = C[j + 1]
      BY <1>18 DEF Rest
    <3>2. QED
      BY <2>2, <2>7, <3>1
  <2>9. at + na <= reach
    BY <1>13, <2>1, <2>2, <2>4 DEF ReachesTo
  <2>10. T1[0] = t1
    BY <1>18, <2>1 DEF Rest
  <2>11. At' = at /\ btNumAvailBytes' = na
    BY <1>4, <1>7, <2>1
  <2>12. At' = T1[0] /\ btBufPos' = 0
    BY <1>4, <2>6, <2>10, <2>11
  <2>13. \A j \in 0 .. BlocksAhead' - 1 : At' + btNumAvailBytes' <= T1[j] + C1[j].avail
    BY <1>6, <2>8, <2>11, Zenon
  <2>14. At' + btNumAvailBytes' <= e + Future'
    BY <1>19, <2>9, <2>11, Zenon
  <2>15. QED
    BY <1>4, <2>12, <2>13, <2>14 DEF LzData
<1>22. AllData(B, S, C1, T1, e, spent)'
  BY <1>8, <1>9, <1>10, <1>20, <1>21, Zenon DEF AllData
<1>23. QED
  BY <1>22, Zenon DEF SomeData

\* BT completes its block: it continues the queue of matches (LzFindMt.c:736-757).
LEMMA DataEndBlock == ASSUME Control, DataInv, HashOn, EndBlock PROVE SomeData'
<1> USE DEF hashVars, mfVars, takeVars, lzVars, fileVars
<1>0. PICK B \in [Nat -> BlockType], S \in [Nat -> Nat], C \in [Nat -> BlockType], T \in [Nat -> Nat],
          e \in Nat, spent \in {0, 1} : AllData(B, S, C, T, e, spent)
  BY DEF DataInv, SomeData
<1>1. HashData(B, S) /\ TakeData(B, S, spent)
      /\ (BtOn => TreeData(C, T, e) /\ LzData(C, T, e) /\ BtData(e, spent))
  BY <1>0 DEF AllData
<1>2. Buffer /\ RingTypes /\ RingBlockTypes /\ BtTypes /\ LzTypes
  BY DEF DataInv, DataTypes
<1>3. /\ btPc \in {"fill", "end"} /\ BtHasHeads /\ Producing("bt")
      /\ btPc' = "top" /\ ~ Producing("bt")'
      /\ btBuf' = [btBuf EXCEPT ![btBlock] = [d EXCEPT !.ok = ~ failure_BT]]
      /\ filled' = Released(filled, "bt")
      /\ UNCHANGED <<hashBuf, hashVars, mfVars, takeVars, failure_BT, btBuffer, lzPc, lzVars, fileVars, needStart,
                     stopWriting>>
  BY DEF EndBlock, BtHasHeads, Producing
<1>4. /\ Fin' = Fin /\ Good' = Good /\ Pos' = Pos /\ BtPos' = BtPos /\ streamPos' = streamPos
         /\ size' = size
      /\ Bad' = Bad /\ BtHas' = BtHas /\ HeadsAhead' = HeadsAhead /\ BtOn' = BtOn /\ At' = At
  <2>1. Fin' = Fin /\ Good' = Good /\ Pos' = Pos /\ BtPos' = BtPos /\ streamPos' = streamPos
        /\ Bad' = Bad /\ size' = size
    BY <1>3 DEF Fin, Good, Ended, Pos, BtPos, Bad
  <2>2. BtHas' = BtHas
    BY <1>3 DEF BtHas, BtHasHeads, Count
  <2>3. filled'["hash"] = filled["hash"]
    BY <1>3 DEF Released, Control, ControlTypes, Sync
  <2>3a. HeadsAhead' = HeadsAhead
    BY <1>3, <2>3 DEF HeadsAhead, InUse, Count
  <2>4. BtOn' = BtOn /\ At' = At
    BY <1>3 DEF BtOn, At
  <2>5. QED
    BY <2>1, <2>2, <2>3a, <2>4
<1>5. HashData(B, S)'
  BY <1>1, <1>3, <1>4, FrameHash
<1>6. TakeData(B, S, spent)'
  BY <1>1, <1>3, <1>4, FrameTake
<1>7. CASE ~ BtOn
  <2>1. AllData(B, S, C, T, e, spent)'
    BY <1>4, <1>5, <1>6, <1>7, Zenon DEF AllData
  <2>2. QED
    BY <2>1, Zenon DEF SomeData
<1>8. CASE BtOn
  <2>0. TreeData(C, T, e) /\ LzData(C, T, e) /\ BtData(e, spent) /\ TreeRing
    BY <1>1, <1>8 DEF DataInv
  <2>1. PICK m \in Nat : BlocksAhead = m /\ filled["bt"] \in Nat /\ m < BtNumBlocks
             /\ filled["bt"] <= m
    <3>1. /\ free["bt"] \in Nat /\ filled["bt"] \in Nat /\ BlocksAhead \in Nat
          /\ free["bt"] + BlocksAhead + Count(Producing("bt")) = BtNumBlocks
          /\ lzPc # "wait" => BlocksAhead = filled["bt"] + 1
          /\ lzPc = "wait" => BlocksAhead = filled["bt"]
      BY <1>8, BtOnPlaces
    <3>2. Count(Producing("bt")) = 1
      BY <1>3 DEF Count
    <3>3. free["bt"] + BlocksAhead + 1 = BtNumBlocks
      BY <3>1, <3>2
    <3>4. BlocksAhead < BtNumBlocks /\ filled["bt"] <= BlocksAhead
      BY <3>1, <3>3
    <3>5. QED
      BY <3>1, <3>4
  <2>2. BlocksAhead' = m + 1
    <3>1. filled'["bt"] = filled["bt"] + 1
      BY <1>3, <2>1, LzFindMtAssumption DEF Released, Min2, NumBlocks, Control, ControlTypes,
         Sync
    <3>2. Count(InUse("bt")) \in {0, 1}
      BY CountValue
    <3>3. Count(InUse("bt"))' = Count(InUse("bt"))
      BY <1>3 DEF Count, InUse
    <3>4. BlocksAhead = filled["bt"] + Count(InUse("bt"))
          /\ BlocksAhead' = filled'["bt"] + Count(InUse("bt"))'
      BY DEF BlocksAhead
    <3>5. PICK f \in Nat, k \in {0, 1} : f = filled["bt"] /\ k = Count(InUse("bt"))
      BY <2>1, <3>2
    <3>6. m = f + k /\ BlocksAhead' = (f + 1) + k
      BY <2>1, <3>1, <3>3, <3>4, <3>5
    <3>7. QED
      BY <3>6
  <2>3. PICK sp \in Nat, sz \in Nat, fin \in {0, 1}, good \in {0, 1}, bad \in {0, 1}, av \in Nat, da \in Nat,
             np \in Nat, at \in Int, len \in Nat, us \in Nat :
          /\ sp = streamPos /\ sz = size /\ fin = Fin /\ good = Good /\ bad = Bad
             /\ av = hashNumAvail
          /\ da = d.avail /\ np = numProcessed /\ at = BtPos /\ len = Len(d.pos) /\ us = hashBufPos
    <3>1. streamPos \in Nat /\ size \in Nat /\ hashNumAvail \in Nat /\ numProcessed \in Nat
          /\ hashBufPos \in Nat
      BY <1>2 DEF Buffer, BtTypes
    <3>2. d.avail \in Nat /\ Len(d.pos) \in Nat
      BY <1>2, BlockFields DEF BtTypes
    <3>3. BtPos \in Int
      BY <1>2 DEF BtPos, Buffer, BtTypes
    <3>4. QED
      BY <3>1, <3>2, <3>3, FinValue, GoodValue, BadValue, Zenon
  <2>4. Future = da /\ Future' = av
    BY <1>3, <2>3 DEF Future
  <2>5. PICK c \in BlockType :
          c = [d EXCEPT !.ok = ~ failure_BT] /\ c.pos = d.pos /\ c.avail = da
          /\ (c.ok <=> ~ failure_BT)
    <3>1. d \in [pos : Seq(Int), avail : Nat, ok : BOOLEAN] /\ failure_BT \in BOOLEAN
      BY <1>2 DEF BtTypes, BlockType
    <3>2. PICK o \in BOOLEAN : o = ~ failure_BT
      BY <3>1
    <3>3. PICK x \in [pos : Seq(Int), avail : Nat, ok : BOOLEAN] : x = d
      BY <3>1
    <3>4. PICK c \in [pos : Seq(Int), avail : Nat, ok : BOOLEAN] : c = [x EXCEPT !.ok = o]
      OBVIOUS
    <3>5. c.pos = x.pos /\ c.avail = x.avail /\ c.ok = o
      BY <3>4
    <3>6. c = [d EXCEPT !.ok = ~ failure_BT]
      BY <3>2, <3>3, <3>4, Zenon
    <3>7. c.pos = d.pos /\ c.avail = da
      BY <2>3, <3>3, <3>5, Zenon
    <3>8. c.ok <=> ~ failure_BT
      BY <3>2, <3>5, Zenon
    <3>9. c \in BlockType
      BY DEF BlockType
    <3>10. QED
      BY <3>6, <3>7, <3>8, <3>9
  <2>6. PICK e1 \in Nat, reach \in Nat, reach1 \in Nat : e1 = e + len /\ reach = e + da
             /\ reach1 = e1 + av
    OBVIOUS
  <2>7. reach <= sp
    <3>1. e + Future <= streamPos
      BY <2>0 DEF TreeData
    <3>2. QED
      BY <2>3, <2>4, <2>6, <3>1, Zenon
  <2>8. len <= BtBlockSize
    <3>0. BtBlockSize \in Nat
      BY LzFindMtAssumption
    <3>1. 2 + Len(d.pos) <= curPos /\ curPos \in 2 .. BtBlockSize
      BY <1>2, <1>3 DEF BtTypes
    <3>2. PICK x \in 2 .. BtBlockSize : x = curPos
      BY <3>1
    <3>3. 2 + len <= x
      BY <2>3, <3>1, <3>2, Zenon
    <3>4. QED
      BY <3>0, <3>3
  \* the two cases: BT works on heads, or it is at the end of the stream
  <2>9. /\ e1 + av = e + da
        /\ EntriesFrom(c, e, fin, sp)
        /\ c.ok /\ good = 1 => e + da >= Min2(e1 + Lookahead, sz)
        /\ spent = 0 => e1 = at
        /\ spent = 1 => e1 = sp
    <3>1. CASE spent = 0
      <4>1. Follows(e)
        BY <1>3, <2>0, <3>1 DEF BtData
      <4>2. e = at - np /\ len = np /\ e + da = at + av
        BY <2>3, <4>1 DEF Follows
      <4>3. EntriesFrom(c, e, fin, sp)
        BY <2>5, <4>1 DEF Follows, EntriesFrom
      <4>4. PICK hl \in Nat, x \in Nat, s0 \in Nat :
              /\ at = s0 + us /\ us <= hl /\ av = x - us
              /\ good = 1 => s0 + x >= Min2(s0 + hl + Lookahead, sz)
        <5>1. PICK hl \in Nat, x \in Nat, s0 \in Nat :
           /\ B[0] = hashBuf[hashBi] /\ B[0] \in BlockType
           /\ s0 = S[0] /\ x = B[0].avail /\ hl = Len(B[0].pos)
           /\ BtPos = s0 + hashBufPos /\ hashBufPos <= hl /\ hashNumAvail = x - hashBufPos
           /\ hl <= x /\ s0 + x <= streamPos /\ x >= NumHashBytes
           /\ \A k \in 1 .. hl : B[0].pos[k] = s0 + k - 1
           /\ readResult = "ok" => s0 + x >= Min2(s0 + hl + Lookahead, size)
           /\ HeadsLeft = hl - hashBufPos
          BY <1>1, <1>3, <3>1, WorksOnHeads, ZenonT(40)
        <5>2. at = s0 + us /\ us <= hl /\ av = x - us
          BY <2>3, <5>1, Zenon
        <5>3. good = 1 => s0 + x >= Min2(s0 + hl + Lookahead, sz)
          BY <2>3, <5>1, GoodValue, Zenon
        <5>4. QED
          BY <5>2, <5>3
      <4>5. Lookahead \in Nat
        BY LzFindMtAssumption DEF Lookahead
      <4>6. good = 1 => e + da >= Min2(e1 + Lookahead, sz)
        <5>1. e1 = at /\ e + da = s0 + x
          BY <2>6, <4>2, <4>4
        <5>2. SUFFICES ASSUME good = 1 PROVE s0 + x >= Min2(at + Lookahead, sz)
          BY <5>1
        <5>3. s0 + x >= Min2(s0 + hl + Lookahead, sz) /\ at <= s0 + hl
          BY <4>4, <5>2
        <5>4. QED
          BY <4>4, <4>5, <5>3 DEF Min2
      <4>7. e1 = at /\ e1 + av = e + da
        BY <2>6, <4>2
      <4>8. QED
        BY <3>1, <4>3, <4>6, <4>7
    <3>2. CASE spent = 1
      <4>1. AllTaken(B, HeadsAhead, BtHas, BtPos, hashBufPos, hashNumAvail, Pos, streamPos, Fin, Bad)
        BY <1>1, <3>2 DEF TakeData
      <4>2. av = 0 /\ fin = 1
        BY <2>3, <4>1 DEF AllTaken
      <4>3. e + len = sp /\ e + da = sp /\ EntriesFrom(c, e, fin, sp)
        <5>1. CASE btPc = "fill"
          <6>1. e = sp /\ d.pos = <<>> /\ da = 0
            BY <2>0, <2>3, <3>2, <5>1 DEF BtData
          <6>2. len = 0
            BY <2>3, <6>1
          <6>2a. Len(c.pos) = 0
            BY <2>3, <2>5, <6>2, Zenon
          <6>3. EntriesFrom(c, e, fin, sp)
            BY <6>2a DEF EntriesFrom
          <6>4. QED
            BY <6>1, <6>2, <6>3
        <5>2. CASE btPc = "end"
          <6>1. e + len = sp /\ e + da = sp /\ EntriesFrom(d, e, fin, sp)
            BY <2>0, <2>3, <3>2, <5>2 DEF BtData
          <6>2. QED
            BY <2>5, <6>1 DEF EntriesFrom
        <5>3. QED
          BY <1>3, <5>1, <5>2
      <4>4. good = 1 => sp >= sz
        <5>1. Ended /\ (good = 1 => readResult = "ok")
          BY <2>3, <4>2, FinValue, GoodValue
        <5>2. good = 1 => streamPos = size
          BY <1>2, <5>1 DEF Ended, Buffer
        <5>3. QED
          BY <2>3, <5>2
      <4>5. e1 = sp
        BY <2>6, <4>3
      <4>6. good = 1 => e + da >= Min2(e1 + Lookahead, sz)
        <5>1. Lookahead \in Nat
          BY LzFindMtAssumption DEF Lookahead
        <5>2. good = 1 => sp >= Min2(sp + Lookahead, sz)
          BY <4>4, <5>1 DEF Min2
        <5>3. QED
          BY <4>3, <4>5, <5>2
      <4>7. e1 + av = e + da
        BY <4>2, <4>3, <4>5
      <4>8. QED
        BY <3>2, <4>3, <4>5, <4>6, <4>7
    <3>3. QED
      BY <3>1, <3>2
  <2>10. MatchesFor(c, e, e1, sp, fin, good, sz, bad)
    <3>1. Len(c.pos) = e1 - e
      <4>1. len = e1 - e
        BY <2>6
      <4>2. QED
        BY <2>3, <2>5, <4>1, Zenon
    <3>2. c.ok /\ good = 1 => e + c.avail >= Min2(e1 + Lookahead, sz)
      BY <2>5, <2>9, Zenon
    <3>3. ~ c.ok => bad = 1
      BY <2>3, <2>5, BadValue
    <3>4. QED
      BY <2>9, <3>1, <3>2, <3>3, Zenon DEF MatchesFor
  <2>11. TreeQueue(C, m, T, e, sp, fin, good, sz, bad) /\ ReachesTo(C, m, T, reach)
    <3>1. TreeQueue(C, BlocksAhead, T, e, streamPos, Fin, Good, size, Bad)
          /\ ReachesTo(C, BlocksAhead, T, e + Future)
      BY <2>0 DEF TreeData
    <3>2. QED
      BY <2>1, <2>3, <2>4, <2>6, <3>1, Zenon
  <2>12. PICK C1 \in [Nat -> BlockType], T1 \in [Nat -> Nat] :
           C1 = [C EXCEPT ![m] = c] /\ T1 = [T EXCEPT ![m + 1] = e1]
    OBVIOUS
  <2>13. TreeQueue(C1, m + 1, T1, e1, sp, fin, good, sz, bad) /\ ReachesTo(C1, m + 1, T1, reach1)
    <3>1. reach <= e + c.avail /\ e + c.avail <= reach1 /\ e <= e1 /\ e1 - e <= BtBlockSize
      <4>1. reach <= e + da /\ e + da <= reach1 /\ e <= e1 /\ e1 - e <= BtBlockSize
        BY <2>6, <2>8, <2>9
      <4>2. QED
        BY <2>5, <4>1, Zenon
    <3>2. TreePushCase(C, m, T, e, sp, fin, good, sz, bad, reach, c, e1, reach1)
      BY <2>10, <2>11, <3>1 DEF TreePushCase
    <3>3. /\ TreeQueue([C EXCEPT ![m] = c], m + 1, [T EXCEPT ![m + 1] = e1], e1, sp, fin, good, sz, bad)
          /\ ReachesTo([C EXCEPT ![m] = c], m + 1, [T EXCEPT ![m + 1] = e1], reach1)
      BY <3>2, TreePush, Zenon
    <3>4. QED
      BY <2>12, <3>3, Zenon
  <2>14. TreeRingHolds(C1)'
    <3>1. btBlock = Ring(btBi + m, BtNumBlocks)
      BY <2>0, <2>1 DEF TreeRing
    <3>2. TreeRingHolds(C) /\ btBuf' = [btBuf EXCEPT ![btBlock] = c] /\ btBi' = btBi
      BY <1>3, <2>0, <2>5 DEF TreeData
    <3>3. QED
      BY <1>2, <2>1, <2>2, <2>12, <3>1, <3>2, TreeRingPush
  <2>15. TreeData(C1, T1, e1)'
    <3>1. e1 + Future' = reach1 /\ reach1 <= sp
      <4>1. reach1 <= sp
        BY <2>6, <2>7, <2>9
      <4>2. QED
        BY <2>4, <2>6, <4>1
    <3>2. TreeQueue(C1, BlocksAhead', T1, e1, streamPos', Fin', Good', size', Bad')
          /\ ReachesTo(C1, BlocksAhead', T1, e1 + Future')
      BY <1>4, <2>2, <2>3, <2>13, <3>1, Zenon
    <3>3. e1 + Future' <= streamPos'
      BY <1>4, <2>3, <3>1
    <3>4. QED
      BY <2>14, <3>2, <3>3, Zenon DEF TreeData
  <2>16. BtData(e1, spent)'
    BY <1>3, <1>4, <2>3, <2>9 DEF BtData
  <2>17. T1[0] = T[0] /\ (m # 0 => C1[0] = C[0])
    BY <2>12
  <2>18. LzData(C1, T1, e1)'
    <3>1. lzPc' = lzPc /\ UNCHANGED <<btNumAvailBytes, failure_LZ_BT, btBufPos>> /\ At' = At
      BY <1>3, <1>4
    <3>2. CASE lzPc \in {"run", "got", "finish"}
      <4>1. m # 0
        <5>1. BlocksAhead = filled["bt"] + 1 /\ filled["bt"] \in Nat
          BY <1>8, <3>2, BtOnPlaces
        <5>2. QED
          BY <2>1, <5>1
      <4>2. C1[0] = C[0] /\ T1[0] = T[0]
        BY <2>17, <4>1
      <4>3. lzPc \notin {"wait", "lock"}
        BY <3>2
      <4>4. QED
        BY <2>0, <3>1, <4>2, <4>3 DEF LzData
    <3>3. CASE lzPc \in {"wait", "lock"}
      <4>1. PICK y \in Int : y = At + btNumAvailBytes
        BY <1>2 DEF LzTypes, At
      <4>2. /\ At = T[0] /\ btBufPos = 0
            /\ \A j \in 0 .. m - 1 : y <= T[j] + C[j].avail
            /\ y <= e + da
        BY <2>0, <2>1, <2>4, <3>3, <4>1 DEF LzData
      <4>3. ASSUME NEW j \in 0 .. m PROVE y <= T1[j] + C1[j].avail
        <5>1. CASE j = m
          <6>1. T1[m] = T[m] /\ C1[m] = c /\ T[m] = e
            BY <2>11, <2>12 DEF TreeQueue
          <6>2. QED
            BY <2>5, <4>2, <5>1, <6>1
        <5>2. CASE j # m
          <6>1. j \in 0 .. m - 1 /\ T1[j] = T[j] /\ C1[j] = C[j]
            BY <2>12, <5>2
          <6>2. QED
            BY <4>2, <6>1
        <5>3. QED
          BY <5>1, <5>2
      <4>4. y <= e1 + av
        BY <2>6, <2>9, <4>2
      <4>5. At' + btNumAvailBytes' = y /\ e1 + Future' = e1 + av /\ BlocksAhead' - 1 = m
        BY <2>2, <2>4, <3>1, <4>1
      <4>6. \A j \in 0 .. BlocksAhead' - 1 : At' + btNumAvailBytes' <= T1[j] + C1[j].avail
        BY <4>3, <4>5, Zenon
      <4>7. At' + btNumAvailBytes' <= e1 + Future'
        BY <4>4, <4>5, Zenon
      <4>8. At' = T1[0] /\ btBufPos' = 0
        BY <2>17, <3>1, <4>2
      <4>9. lzPc' \notin {"run", "got", "finish"}
        BY <3>1, <3>3
      <4>10. QED
        BY <4>6, <4>7, <4>8, <4>9 DEF LzData
    <3>4. lzPc \in {"run", "wait", "lock", "got", "finish"}
      BY <1>8, BtOnPlaces
    <3>5. QED
      BY <3>2, <3>3, <3>4
  <2>19. AllData(B, S, C1, T1, e1, spent)'
    BY <1>5, <1>6, <2>15, <2>16, <2>18, Zenon DEF AllData
  <2>20. QED
    BY <2>19, Zenon DEF SomeData
<1>9. QED
  BY <1>7, <1>8

-----------------------------------------------------------------------------
(* What the blocks hold is kept by every step; the numbers of both rings.    *)

\* The ring of heads comes into use only when BT asks for its first heads.
LEMMA HashTurnsOn == ASSUME Control, Next, ~ HashOn, HashOn' PROVE needStart["hash"] /\ AskHash
<1> USE DEF Control, ControlTypes, HashHandshake, HashOn, Sync
<1>1. CASE HashStep
  BY <1>1 DEF HashStep, HashStart, EnterBt, Move, FillHash
<1>2. CASE AskHash
  <2>1. CASE needStart["hash"]
    BY <1>2, <2>1
  <2>2. CASE ~ needStart["hash"]
    BY <1>2, <2>2 DEF AskHash
  <2>3. QED
    BY <2>1, <2>2
<1>3. CASE BtStep /\ ~ AskHash
  <2>1. CASE BtStart \/ BeginBlock \/ LockBlock \/ TakeHash
    BY <2>1 DEF BtStart, BeginBlock, LockBlock, TakeHash
  <2>2. CASE BtStop
    BY <2>2, Zenon DEF BtStop, HashIdle
  <2>3. CASE HashStopped
    BY <2>3 DEF HashStopped
  <2>4. CASE LockHash \/ Process \/ EndBlock
    BY <2>4 DEF LockHash, Process, EndBlock, syncVars
  <2>5. QED
    BY <1>3, <2>1, <2>2, <2>3, <2>4 DEF BtStep
<1>4. CASE LzCall
  <2>1. CASE AskBlock
    BY <2>1 DEF AskBlock, AskNext
  <2>2. CASE ReleaseStream
    BY <2>2 DEF ReleaseStream, AskStop
  <2>3. CASE Create \/ InitFile \/ Advance \/ EndOfStream \/ Destruct
    BY <2>3 DEF Create, InitFile, Advance, EndOfStream, Destruct, syncVars
  <2>4. QED
    BY <1>4, <2>1, <2>2, <2>3 DEF LzCall
<1>5. CASE LzReturn
  BY <1>5 DEF LzReturn, TakeBlock, LockBt, Stopped, JoinBt, JoinHash, SeeStopped
<1>6. CASE Terminating
  BY <1>6 DEF Terminating, vars, syncVars
<1>7. QED
  BY <1>1, <1>2, <1>3, <1>4, <1>5, <1>6 DEF Next

\* Every step keeps the queues in the rings.
LEMMA SomeDataKept == ASSUME Control, DataInv, Next, HashOn' PROVE SomeData'
<1>1. CASE ~ HashOn
  BY <1>1, HashTurnsOn, DataAskHash2
<1>2. CASE HashOn
  <2>0. /\ btPc \in {"wait", "lock", "fill", "end", "top", "lockBlock"}
        /\ lzPc \in {"run", "wait", "lock", "got", "finish", "stop"}
    BY <1>2, HashOnPlaces
  <2>1. CASE HashStep
    BY <1>2, <2>1, DataHashStart, DataEnterBt, DataMove, DataFillHash DEF HashStep
  <2>2. CASE BtStep
    <3>1. ~ BtStart
      BY <2>0 DEF BtStart
    <3>2. ~ BtStop
      <4>1. SUFFICES ASSUME BtStop PROVE FALSE
        OBVIOUS
      <4>2. stopWriting' = [stopWriting EXCEPT !["hash"] = TRUE]
        BY <1>2, <4>1 DEF BtStop, HashIdle, HashOn
      <4>3. stopWriting'["hash"]
        BY <4>2 DEF Control, ControlTypes, Sync
      <4>4. QED
        BY <4>3 DEF HashOn
    <3>3. ~ HashStopped
      BY <2>0 DEF HashStopped
    <3>4. QED
      BY <1>2, <2>2, <3>1, <3>2, <3>3, DataBeginBlock, DataLockBlock, DataAskHash1,
         DataTakeHash,
         DataLockHash, DataProcess, DataEndBlock DEF BtStep
  <2>3. CASE LzCall
    <3>1. ~ Create /\ ~ InitFile /\ ~ Destruct
      BY <2>0 DEF Create, InitFile, Destruct
    <3>2. QED
      BY <1>2, <2>3, <3>1, DataAskBlock, DataAdvance, DataEndOfStream, DataReleaseStream
         DEF LzCall
  <2>4. CASE LzReturn
    <3>1. ~ JoinBt /\ ~ JoinHash
      BY <2>0 DEF JoinBt, JoinHash
    <3>2. ~ Stopped
      <4>1. SUFFICES ASSUME Stopped PROVE FALSE
        OBVIOUS
      <4>2. wasStopped["bt"] /\ ~ needStart["bt"]
        BY <1>2, <4>1, HashOnPlaces DEF Stopped, SeeStopped
      <4>3. btPc = "start"
        BY <4>2 DEF Control, BtHandshake
      <4>4. QED
        BY <2>0, <4>3
    <3>3. QED
      BY <1>2, <2>4, <3>1, <3>2, DataTakeBlock, DataLockBt DEF LzReturn
  <2>5. CASE Terminating
    BY <2>0, <2>5 DEF Terminating
  <2>6. QED
    BY <2>1, <2>2, <2>3, <2>4, <2>5 DEF Next
<1>3. QED
  BY <1>1, <1>2

\* The numbers of the ring of heads are kept by what does not touch them.
LEMMA HashRingFrame ==
  ASSUME HashRing, UNCHANGED <<hashBlock, hashBi>>,
         numProcessedBlocks'["hash"] = numProcessedBlocks["hash"],
         filled'["hash"] = filled["hash"], hashPc' = "start" <=> hashPc = "start",
         btPc' = "wait" <=> btPc = "wait", btPc' # "stopHash", btPc # "stopHash"
  PROVE  HashRing'
<1>1. InUse("hash")' = InUse("hash")
  BY DEF InUse
<1>2. Count(InUse("hash"))' = Count(InUse("hash"))
  BY <1>1, Zenon DEF Count
<1>3. HeadsAhead' = HeadsAhead
  BY <1>2 DEF HeadsAhead
<1>4. QED
  BY <1>3 DEF HashRing

\* Every step keeps them: the hash thread puts a block after the others and BT takes
\* the first (LzFindMt.c:122-147, 501).
LEMMA HashRingKept == ASSUME Control, DataInv, Next, HashOn' PROVE HashRing'
<1> USE DEF hashVars, mfVars, takeVars, btLocals, lzVars, fileVars, syncVars
<1>0. ControlTypes /\ RingTypes
  BY DEF Control, DataInv, DataTypes
<1>1. CASE ~ HashOn
  <2>1. needStart["hash"] /\ AskHash
    BY <1>1, HashTurnsOn
  <2>2. ~ needStart["bt"] /\ LzNeedsBlocks /\ lzPc \notin {"new", "joinBt", "joinHash", "done"}
    <3>1. btPc = "fill"
      BY <2>1 DEF AskHash
    <3>2. QED
      BY <3>1 DEF Control, BtHandshake, LzNeedsBlocks
  <2>3. hashPc = "start" /\ filled["hash"] = 0
    BY <2>1, <2>2 DEF Control, HashHandshake, Existence, Rings
  <2>4. /\ hashPc' = "start" /\ filled' = filled /\ btPc' = "wait" /\ hashBi' = 0
        /\ numProcessedBlocks' = [numProcessedBlocks EXCEPT !["hash"] = 1 % HashNumBlocks]
    BY <2>1, <2>3 DEF AskHash, AskNext, NextIndex, NumBlocks
  <2>5. numProcessedBlocks'["hash"] = Ring(1, HashNumBlocks)
    <3>1. numProcessedBlocks'["hash"] = 1 % HashNumBlocks
      BY <1>0, <2>4 DEF RingTypes, Sync
    <3>2. 1 % HashNumBlocks = Ring(1, HashNumBlocks)
      BY OneMod, LzFindMtAssumption
    <3>3. QED
      BY <3>1, <3>2
  <2>6. QED
    BY <2>3, <2>4, <2>5 DEF HashRing
<1>2. CASE HashOn
  <2>0. /\ btPc \in {"wait", "lock", "fill", "end", "top", "lockBlock"}
        /\ lzPc \in {"run", "wait", "lock", "got", "finish", "stop"}
        /\ HashRing /\ ~ needStart["hash"] /\ ~ stopWriting["hash"] /\ ~ exit["hash"]
    BY <1>2, HashOnPlaces DEF DataInv, HashOn
  <2>f. ASSUME UNCHANGED <<hashBlock, hashBi>>, numProcessedBlocks'["hash"] = numProcessedBlocks["hash"],
               filled'["hash"] = filled["hash"], hashPc' = "start" <=> hashPc = "start",
               btPc' = "wait" <=> btPc = "wait", btPc' # "stopHash"
        PROVE  HashRing'
    BY <2>0, <2>f, HashRingFrame
  <2>1. CASE HashStart
    <3>1. /\ hashPc = "start" /\ hashBlock' = 0 /\ hashPc' = "top"
          /\ UNCHANGED <<filled, btPc, hashBi, numProcessedBlocks>>
      BY <2>0, <2>1 DEF HashStart
    <3>2. filled["hash"] = 0 /\ btPc = "wait" /\ hashBi = 0
      BY <2>0, <3>1 DEF HashRing
    <3>3. HeadsAhead' = 0
      BY <3>1, <3>2 DEF HeadsAhead, InUse, Count
    <3>4. Ring(hashBi' + HeadsAhead', HashNumBlocks) = 0
      BY <3>1, <3>2, <3>3, LzFindMtAssumption DEF Ring
    <3>5. numProcessedBlocks'["hash"] = Ring(hashBi' + 1, HashNumBlocks)
      BY <2>0, <3>1 DEF HashRing
    <3>6. QED
      BY <3>1, <3>4, <3>5 DEF HashRing
  <2>2. CASE EnterBt
    BY <2>0, <2>2, <2>f DEF EnterBt
  <2>3. CASE Move
    BY <2>0, <2>3, <2>f DEF Move
  <2>4. CASE FillHash
    <3>1. /\ hashPc = "top" /\ hashPc' = "top" /\ hashBlock' = (hashBlock + 1) % HashNumBlocks
          /\ filled' = Released(filled, "hash") /\ free["hash"] > 0
          /\ UNCHANGED <<btPc, hashBi, numProcessedBlocks>>
      BY <2>0, <2>4 DEF FillHash
    <3>2. PICK m \in Nat, i \in 0 .. HashNumBlocks - 1, f \in Nat :
            m = HeadsAhead /\ i = hashBi /\ m < HashNumBlocks /\ f = filled["hash"] /\ f <= m
      <4>1. /\ HeadsAhead \in Nat /\ free["hash"] + HeadsAhead = HashNumBlocks
               /\ free["hash"] \in Nat
            /\ filled["hash"] \in Nat
            /\ btPc # "wait" => HeadsAhead = filled["hash"] + 1
            /\ btPc = "wait" => HeadsAhead = filled["hash"]
        BY <1>2, HashOnPlaces
      <4>2. HeadsAhead < HashNumBlocks /\ filled["hash"] <= HeadsAhead
        BY <3>1, <4>1
      <4>3. QED
        BY <1>0, <4>1, <4>2 DEF RingTypes
    <3>3. HeadsAhead' = m + 1
      <4>1. filled'["hash"] = f + 1
        BY <1>0, <3>1, <3>2, LzFindMtAssumption DEF Released, Min2, NumBlocks, ControlTypes,
           Sync
      <4>2. Count(InUse("hash")) \in {0, 1}
        BY CountValue
      <4>3. Count(InUse("hash"))' = Count(InUse("hash"))
        BY <3>1 DEF Count, InUse
      <4>4. QED
        BY <3>2, <4>1, <4>2, <4>3 DEF HeadsAhead
    <3>4. hashBlock = Ring(i + m, HashNumBlocks)
      BY <2>0, <3>1, <3>2 DEF HashRing
    <3>5. hashBlock' = Ring(i + (m + 1), HashNumBlocks)
      <4>1. PICK h \in 0 .. HashNumBlocks - 1 : h = hashBlock
        BY <1>0 DEF RingTypes
      <4>2. (h + 1) % HashNumBlocks = Ring(h + 1, HashNumBlocks)
        BY NextMod, LzFindMtAssumption
      <4>3. h = Ring(i + m, HashNumBlocks)
        BY <3>4, <4>1
      <4>4. Ring(h + 1, HashNumBlocks) = Ring(i + (m + 1), HashNumBlocks)
        BY <3>2, <4>3, LzFindMtAssumption DEF Ring
      <4>5. QED
        BY <3>1, <4>1, <4>2, <4>4
    <3>6. numProcessedBlocks'["hash"] = Ring(hashBi' + 1, HashNumBlocks)
      BY <2>0, <3>1 DEF HashRing
    <3>7. QED
      BY <3>1, <3>2, <3>3, <3>5, <3>6 DEF HashRing
  <2>5. CASE AskHash
    <3>1. /\ btPc = "fill" /\ btPc' = "wait" /\ hashBi' = numProcessedBlocks["hash"]
             /\ hashPc' = hashPc
          /\ numProcessedBlocks' =
               [numProcessedBlocks EXCEPT !["hash"] = (numProcessedBlocks["hash"] + 1) % HashNumBlocks]
          /\ UNCHANGED <<filled, hashBlock>>
      BY <2>0, <2>5 DEF AskHash, AskNext, NextIndex, NumBlocks
    <3>2. PICK m \in Nat, i \in 0 .. HashNumBlocks - 1 :
            HeadsAhead = m + 1 /\ filled["hash"] = m /\ m < HashNumBlocks /\ i = hashBi
      <4>1. /\ free["hash"] \in Nat /\ filled["hash"] \in Nat
               /\ free["hash"] + HeadsAhead = HashNumBlocks
            /\ HeadsAhead = filled["hash"] + 1
        BY <1>2, <3>1, HashOnPlaces
      <4>2. filled["hash"] < HashNumBlocks
        BY <4>1, LzFindMtAssumption
      <4>3. QED
        BY <1>0, <4>1, <4>2 DEF RingTypes
    <3>3. HeadsAhead' = m
      BY <3>1, <3>2 DEF HeadsAhead, InUse, Count
    <3>4. hashPc # "start"
      BY <2>0, <3>1 DEF HashRing
    <3>5. hashBlock = Ring(i + (m + 1), HashNumBlocks)
          /\ numProcessedBlocks["hash"] = Ring(i + 1, HashNumBlocks)
      BY <2>0, <3>2, <3>4 DEF HashRing
    <3>6. hashBlock' = Ring(hashBi' + HeadsAhead', HashNumBlocks)
      <4>1. Ring(i + (m + 1), HashNumBlocks) = Ring(Ring(i + 1, HashNumBlocks) + m, HashNumBlocks)
        BY <3>2, LzFindMtAssumption DEF Ring
      <4>2. QED
        BY <3>1, <3>3, <3>5, <4>1
    <3>7. numProcessedBlocks'["hash"] = Ring(hashBi' + 1, HashNumBlocks)
      <4>0. numProcessedBlocks["hash"] \in 0 .. HashNumBlocks - 1
        BY <1>0, LzFindMtAssumption DEF RingTypes, Sync
      <4>1. PICK p \in 0 .. HashNumBlocks - 1 : p = numProcessedBlocks["hash"]
        BY <4>0
      <4>2. (p + 1) % HashNumBlocks = Ring(p + 1, HashNumBlocks)
        BY NextMod, LzFindMtAssumption
      <4>3. numProcessedBlocks'["hash"] = (p + 1) % HashNumBlocks
        BY <1>0, <3>1, <4>1 DEF RingTypes, Sync
      <4>4. QED
        BY <3>1, <4>1, <4>2, <4>3
    <3>8. QED
      BY <3>1, <3>4, <3>6, <3>7 DEF HashRing
  <2>6. CASE TakeHash
    <3>1. /\ btPc = "wait" /\ filled["hash"] > 0 /\ filled' = [filled EXCEPT !["hash"] = @ - 1]
             /\ btPc' = "lock"
          /\ UNCHANGED <<hashPc, hashBlock, hashBi, numProcessedBlocks>>
      BY <2>6 DEF TakeHash
    <3>2. filled["hash"] \in Nat /\ filled'["hash"] = filled["hash"] - 1
      BY <1>0, <3>1 DEF ControlTypes, Sync
    <3>3. HeadsAhead' = HeadsAhead
      <4>1. HeadsAhead = filled["hash"] + 0 /\ HeadsAhead' = filled'["hash"] + 1
        BY <3>1 DEF HeadsAhead, InUse, Count
      <4>2. PICK f \in Nat : f = filled["hash"]
        BY <3>2
      <4>3. HeadsAhead = f + 0 /\ HeadsAhead' = (f - 1) + 1
        BY <3>2, <4>1, <4>2
      <4>4. QED
        BY <4>3
    <3>4. hashPc # "start"
      BY <2>0, <3>1, <3>2 DEF HashRing
    <3>5. QED
      BY <2>0, <3>1, <3>3, <3>4 DEF HashRing
  <2>7. CASE BeginBlock \/ LockBlock \/ LockHash
    BY <2>0, <2>7, <2>f DEF BeginBlock, LockBlock, LockHash
  <2>8. CASE Process
    BY <2>0, <2>8, <2>f DEF Process
  <2>9. CASE EndBlock
    <3>1. filled'["hash"] = filled["hash"]
      BY <1>0, <2>9 DEF EndBlock, Released, ControlTypes, Sync
    <3>2. QED
      BY <2>0, <2>9, <2>f, <3>1 DEF EndBlock
  <2>10. ~ BtStart /\ ~ HashStopped /\ ~ BtStop
    <3>1. ~ BtStart /\ ~ HashStopped
      BY <2>0 DEF BtStart, HashStopped
    <3>2. ASSUME BtStop PROVE FALSE
      <4>2. stopWriting' = [stopWriting EXCEPT !["hash"] = TRUE]
        BY <2>0, <3>2 DEF BtStop, HashIdle
      <4>3. stopWriting'["hash"]
        BY <1>0, <4>2 DEF ControlTypes, Sync
      <4>4. QED
        BY <4>3 DEF HashOn
    <3>3. QED
      BY <3>1, <3>2
  <2>11. CASE AskBlock
    <3>1. numProcessedBlocks'["hash"] = numProcessedBlocks["hash"]
      BY <1>0, <2>11 DEF AskBlock, AskNext, RingTypes, Sync
    <3>2. QED
      BY <2>0, <2>11, <2>f, <3>1 DEF AskBlock
  <2>12. CASE TakeBlock
    <3>1. filled'["hash"] = filled["hash"]
      BY <1>0, <2>12 DEF TakeBlock, ControlTypes, Sync
    <3>2. QED
      BY <2>0, <2>12, <2>f, <3>1 DEF TakeBlock
  <2>13. CASE LockBt \/ Advance \/ EndOfStream \/ ReleaseStream \/ Stopped
    BY <2>0, <2>13, <2>f DEF LockBt, Advance, EndOfStream, ReleaseStream, Stopped
  <2>14. ~ Create /\ ~ InitFile /\ ~ Destruct /\ ~ JoinBt /\ ~ JoinHash /\ ~ Terminating
    BY <2>0 DEF Create, InitFile, Destruct, JoinBt, JoinHash, Terminating
  <2>15. QED
    BY <2>1, <2>2, <2>3, <2>4, <2>5, <2>6, <2>7, <2>8, <2>9, <2>10, <2>11, <2>12, <2>13, <2>14
       DEF Next, HashStep, BtStep, LzCall, LzReturn
<1>3. QED
  BY <1>1, <1>2

\* The numbers of the ring of matches are kept by what does not touch them.
LEMMA TreeRingFrame ==
  ASSUME TreeRing, UNCHANGED <<btBlock, btBi>>,
         numProcessedBlocks'["bt"] = numProcessedBlocks["bt"],
         filled'["bt"] = filled["bt"],
         lzPc \in {"run", "wait", "lock", "got", "finish"}, lzPc' \in {"run", "wait", "lock", "got", "finish"},
         lzPc' = "wait" <=> lzPc = "wait"
  PROVE  TreeRing'
<1>1. InUse("bt")' = InUse("bt")
  BY DEF InUse
<1>2. Count(InUse("bt"))' = Count(InUse("bt"))
  BY <1>1, Zenon DEF Count
<1>3. BlocksAhead' = BlocksAhead
  BY <1>2 DEF BlocksAhead
<1>4. QED
  BY <1>3 DEF TreeRing

\* The ring of matches comes into use only when LZ asks for its first block.
LEMMA BtTurnsOn == ASSUME Control, Next, ~ BtOn, BtOn' PROVE needStart["bt"] /\ AskBlock
<1> USE DEF Control, ControlTypes, BtHandshake, BtOn, Sync
<1>1. CASE HashStep
  BY <1>1 DEF HashStep, HashStart, EnterBt, Move, FillHash
<1>2. CASE BtStep
  <2>1. CASE AskHash
    <3>1. needStart'["bt"] = needStart["bt"] /\ stopWriting'["bt"] = stopWriting["bt"]
      BY <2>1 DEF AskHash, AskNext
    <3>2. QED
      BY <3>1
  <2>2. CASE BtStart \/ BeginBlock \/ LockBlock \/ TakeHash \/ LockHash \/ Process \/ EndBlock
    BY <2>2 DEF BtStart, BeginBlock, LockBlock, TakeHash, LockHash, Process, EndBlock, syncVars
  <2>3. CASE BtStop
    BY <2>3 DEF BtStop, HashIdle
  <2>4. CASE HashStopped
    BY <2>4 DEF HashStopped
  <2>5. QED
    BY <1>2, <2>1, <2>2, <2>3, <2>4 DEF BtStep
<1>3. CASE AskBlock
  <2>1. CASE needStart["bt"]
    BY <1>3, <2>1
  <2>2. CASE ~ needStart["bt"]
    BY <1>3, <2>2 DEF AskBlock, AskNext
  <2>3. QED
    BY <2>1, <2>2
<1>4. CASE LzCall /\ ~ AskBlock
  <2>2. CASE ReleaseStream
    BY <2>2 DEF ReleaseStream, AskStop
  <2>3. CASE Create \/ InitFile \/ Advance \/ EndOfStream \/ Destruct
    BY <2>3 DEF Create, InitFile, Advance, EndOfStream, Destruct, syncVars
  <2>4. QED
    BY <1>4, <2>2, <2>3 DEF LzCall
<1>5. CASE LzReturn
  BY <1>5 DEF LzReturn, TakeBlock, LockBt, Stopped, JoinBt, JoinHash, SeeStopped
<1>6. CASE Terminating
  BY <1>6 DEF Terminating, vars, syncVars
<1>7. QED
  BY <1>1, <1>2, <1>3, <1>4, <1>5, <1>6 DEF Next

\* Every step keeps them: BT puts a block after the others and LZ takes the first
\* (LzFindMt.c:122-147, 783).
LEMMA TreeRingKept == ASSUME Control, DataInv, Next, HashOn', BtOn' PROVE TreeRing'
<1> USE DEF hashVars, mfVars, takeVars, btLocals, lzVars, fileVars, syncVars
<1>0. ControlTypes /\ RingTypes
  BY DEF Control, DataInv, DataTypes
<1>1. CASE ~ HashOn
  <2>1. needStart["hash"] /\ AskHash
    BY <1>1, HashTurnsOn
  <2>2. BtOn
    <3>1. ~ AskBlock
      BY <2>1 DEF AskHash, AskBlock
    <3>2. QED
      BY <3>1, BtTurnsOn
  <2>3. FreshBt /\ btPc = "fill"
    BY <2>1, <2>2 DEF DataInv, AskHash
  <2>4. /\ UNCHANGED <<lzPc, filled, btBlock, btBi>>
        /\ numProcessedBlocks' = [numProcessedBlocks EXCEPT !["hash"] = 1 % HashNumBlocks]
    BY <2>1 DEF AskHash, AskNext, NumBlocks
  <2>5. numProcessedBlocks'["bt"] = numProcessedBlocks["bt"]
    BY <1>0, <2>4 DEF RingTypes, Sync
  <2>6. BlocksAhead' = 0
    BY <2>3, <2>4 DEF FreshBt, BlocksAhead, InUse, Count
  <2>7. btBi' = 0 /\ btBlock' = 0 /\ numProcessedBlocks'["bt"] = Ring(1, BtNumBlocks)
    BY <2>3, <2>4, <2>5 DEF FreshBt
  <2>8. Ring(0 + 0, BtNumBlocks) = 0
    BY LzFindMtAssumption DEF Ring
  <2>9. QED
    BY <2>6, <2>7, <2>8 DEF TreeRing
<1>2. CASE HashOn
  <2>0. /\ btPc \in {"wait", "lock", "fill", "end", "top", "lockBlock"}
        /\ lzPc \in {"run", "wait", "lock", "got", "finish", "stop"}
        /\ ~ needStart["hash"] /\ ~ stopWriting["hash"] /\ ~ exit["hash"] /\ ~ needStart["bt"]
    BY <1>2, HashOnPlaces DEF HashOn
  <2>1. BtOn /\ lzPc \in {"run", "wait", "lock", "got", "finish"} /\ TreeRing
    <3>1. BtOn
      BY <2>0, BtTurnsOn
    <3>2. QED
      BY <1>2, <3>1, BtOnPlaces DEF DataInv
  <2>f. ASSUME UNCHANGED <<btBlock, btBi>>, numProcessedBlocks'["bt"] = numProcessedBlocks["bt"],
               filled'["bt"] = filled["bt"], lzPc' \in {"run", "wait", "lock", "got", "finish"},
               lzPc' = "wait" <=> lzPc = "wait"
        PROVE  TreeRing'
    BY <2>1, <2>f, TreeRingFrame
  <2>2. CASE HashStart \/ EnterBt \/ Move
    BY <2>1, <2>2, <2>f DEF HashStart, EnterBt, Move
  <2>3. CASE FillHash
    <3>1. filled'["bt"] = filled["bt"]
      BY <1>0, <2>0, <2>3 DEF FillHash, Released, ControlTypes, Sync
    <3>2. QED
      BY <2>1, <2>3, <2>f, <3>1 DEF FillHash
  <2>4. CASE BeginBlock \/ LockBlock \/ LockHash
    BY <2>1, <2>4, <2>f DEF BeginBlock, LockBlock, LockHash
  <2>5. CASE Process
    BY <2>1, <2>5, <2>f DEF Process
  <2>6. CASE AskHash
    <3>1. numProcessedBlocks'["bt"] = numProcessedBlocks["bt"]
      BY <1>0, <2>6 DEF AskHash, AskNext, RingTypes, Sync
    <3>2. QED
      BY <2>1, <2>6, <2>f, <3>1 DEF AskHash
  <2>7. CASE TakeHash
    <3>1. filled'["bt"] = filled["bt"]
      BY <1>0, <2>7 DEF TakeHash, ControlTypes, Sync
    <3>2. QED
      BY <2>1, <2>7, <2>f, <3>1 DEF TakeHash
  <2>8. CASE EndBlock
    <3>1. /\ btPc \in {"fill", "end"} /\ btBlock' = (btBlock + 1) % BtNumBlocks
          /\ filled' = Released(filled, "bt")
          /\ UNCHANGED <<lzPc, btBi, numProcessedBlocks>>
      BY <2>8 DEF EndBlock
    <3>2. PICK m \in Nat, i \in 0 .. BtNumBlocks - 1, f \in Nat :
            m = BlocksAhead /\ i = btBi /\ m < BtNumBlocks /\ f = filled["bt"] /\ f <= m
      <4>1. /\ free["bt"] \in Nat /\ filled["bt"] \in Nat /\ BlocksAhead \in Nat
            /\ free["bt"] + BlocksAhead + Count(Producing("bt")) = BtNumBlocks
            /\ lzPc # "wait" => BlocksAhead = filled["bt"] + 1
            /\ lzPc = "wait" => BlocksAhead = filled["bt"]
        BY <2>1, BtOnPlaces
      <4>2. Count(Producing("bt")) = 1
        BY <3>1 DEF Count, Producing
      <4>3. free["bt"] + BlocksAhead + 1 = BtNumBlocks
        BY <4>1, <4>2
      <4>4. BlocksAhead < BtNumBlocks /\ filled["bt"] <= BlocksAhead
        BY <4>1, <4>3
      <4>5. QED
        BY <1>0, <4>1, <4>4 DEF RingTypes
    <3>3. BlocksAhead' = m + 1
      <4>1. filled'["bt"] = f + 1
        BY <1>0, <3>1, <3>2, LzFindMtAssumption DEF Released, Min2, NumBlocks, ControlTypes,
           Sync
      <4>2. Count(InUse("bt")) \in {0, 1}
        BY CountValue
      <4>3. Count(InUse("bt"))' = Count(InUse("bt"))
        BY <3>1 DEF Count, InUse
      <4>4. PICK k \in {0, 1} : k = Count(InUse("bt"))
        BY <4>2
      <4>5. m = f + k /\ BlocksAhead' = (f + 1) + k
        BY <3>2, <4>1, <4>3, <4>4 DEF BlocksAhead
      <4>6. QED
        BY <4>5
    <3>5. btBlock' = Ring(i + (m + 1), BtNumBlocks)
      <4>1. PICK h \in 0 .. BtNumBlocks - 1 : h = btBlock
        BY <1>0 DEF RingTypes
      <4>2. (h + 1) % BtNumBlocks = Ring(h + 1, BtNumBlocks)
        BY NextMod, LzFindMtAssumption
      <4>3. h = Ring(i + m, BtNumBlocks)
        BY <2>1, <3>2, <4>1 DEF TreeRing
      <4>4. Ring(h + 1, BtNumBlocks) = Ring(i + (m + 1), BtNumBlocks)
        BY <3>2, <4>3, LzFindMtAssumption DEF Ring
      <4>5. QED
        BY <3>1, <4>1, <4>2, <4>4
    <3>6. numProcessedBlocks'["bt"] = Ring(btBi' + 1, BtNumBlocks)
      BY <2>1, <3>1 DEF TreeRing
    <3>7. QED
      BY <3>1, <3>2, <3>3, <3>5, <3>6 DEF TreeRing
  <2>9. ~ BtStart /\ ~ HashStopped /\ ~ BtStop
    <3>1. ~ BtStart /\ ~ HashStopped
      BY <2>0 DEF BtStart, HashStopped
    <3>2. ASSUME BtStop PROVE FALSE
      BY <2>1, <3>2 DEF BtStop, BtOn
    <3>3. QED
      BY <3>1, <3>2
  <2>10. CASE AskBlock
    <3>1. /\ lzPc = "run" /\ lzPc' = "wait" /\ btBi' = numProcessedBlocks["bt"]
          /\ numProcessedBlocks' =
               [numProcessedBlocks EXCEPT !["bt"] = (numProcessedBlocks["bt"] + 1) % BtNumBlocks]
          /\ UNCHANGED <<filled, btBlock>>
      BY <2>0, <2>10 DEF AskBlock, AskNext, NextIndex, NumBlocks
    <3>2. PICK m \in Nat, i \in 0 .. BtNumBlocks - 1 :
            BlocksAhead = m + 1 /\ filled["bt"] = m /\ m < BtNumBlocks /\ i = btBi
      <4>1. /\ free["bt"] \in Nat /\ filled["bt"] \in Nat
            /\ free["bt"] + BlocksAhead + Count(Producing("bt")) = BtNumBlocks
            /\ BlocksAhead = filled["bt"] + 1
        BY <2>1, <3>1, BtOnPlaces
      <4>2. PICK k \in {0, 1} : k = Count(Producing("bt"))
        BY CountValue
      <4>3. filled["bt"] < BtNumBlocks
        BY <4>1, <4>2, LzFindMtAssumption
      <4>4. QED
        BY <1>0, <4>1, <4>3 DEF RingTypes
    <3>3. BlocksAhead' = m
      BY <3>1, <3>2 DEF BlocksAhead, InUse, Count
    <3>5. btBlock = Ring(i + (m + 1), BtNumBlocks)
          /\ numProcessedBlocks["bt"] = Ring(i + 1, BtNumBlocks)
      BY <2>1, <3>2 DEF TreeRing
    <3>6. btBlock' = Ring(btBi' + BlocksAhead', BtNumBlocks)
      <4>1. Ring(i + (m + 1), BtNumBlocks) = Ring(Ring(i + 1, BtNumBlocks) + m, BtNumBlocks)
        BY <3>2, LzFindMtAssumption DEF Ring
      <4>2. QED
        BY <3>1, <3>3, <3>5, <4>1
    <3>7. numProcessedBlocks'["bt"] = Ring(btBi' + 1, BtNumBlocks)
      <4>0. numProcessedBlocks["bt"] \in 0 .. BtNumBlocks - 1
        BY <1>0, LzFindMtAssumption DEF RingTypes, Sync
      <4>1. PICK p \in 0 .. BtNumBlocks - 1 : p = numProcessedBlocks["bt"]
        BY <4>0
      <4>2. (p + 1) % BtNumBlocks = Ring(p + 1, BtNumBlocks)
        BY NextMod, LzFindMtAssumption
      <4>3. numProcessedBlocks'["bt"] = (p + 1) % BtNumBlocks
        BY <1>0, <3>1, <4>1 DEF RingTypes, Sync
      <4>4. QED
        BY <3>1, <4>1, <4>2, <4>3
    <3>8. QED
      BY <3>1, <3>6, <3>7 DEF TreeRing
  <2>11. CASE TakeBlock
    <3>1. /\ lzPc = "wait" /\ filled["bt"] > 0 /\ filled' = [filled EXCEPT !["bt"] = @ - 1]
             /\ lzPc' = "lock"
          /\ UNCHANGED <<btBlock, btBi, numProcessedBlocks>>
      BY <2>11 DEF TakeBlock
    <3>2. filled["bt"] \in Nat /\ filled'["bt"] = filled["bt"] - 1
      BY <1>0, <3>1 DEF ControlTypes, Sync
    <3>3. BlocksAhead' = BlocksAhead
      <4>1. BlocksAhead = filled["bt"] + 0 /\ BlocksAhead' = filled'["bt"] + 1
        BY <3>1 DEF BlocksAhead, InUse, Count
      <4>2. PICK f \in Nat : f = filled["bt"]
        BY <3>2
      <4>3. BlocksAhead = f + 0 /\ BlocksAhead' = (f - 1) + 1
        BY <3>2, <4>1, <4>2
      <4>4. QED
        BY <4>3
    <3>5. QED
      BY <2>1, <3>1, <3>3 DEF TreeRing
  <2>12. CASE LockBt \/ Advance \/ EndOfStream
    BY <2>1, <2>12, <2>f DEF LockBt, Advance, EndOfStream
  <2>13. ~ ReleaseStream /\ ~ Stopped
    <3>1. ~ Stopped
      BY <2>1 DEF Stopped
    <3>2. ASSUME ReleaseStream PROVE FALSE
      <4>1. stopWriting' = [stopWriting EXCEPT !["bt"] = TRUE]
        BY <2>0, <3>2 DEF ReleaseStream, AskStop
      <4>2. stopWriting'["bt"]
        BY <1>0, <4>1 DEF ControlTypes, Sync
      <4>3. QED
        BY <4>2 DEF BtOn
    <3>3. QED
      BY <3>1, <3>2
  <2>14. ~ Create /\ ~ InitFile /\ ~ Destruct /\ ~ JoinBt /\ ~ JoinHash /\ ~ Terminating
    BY <2>0 DEF Create, InitFile, Destruct, JoinBt, JoinHash, Terminating
  <2>15. QED
    BY <2>2, <2>3, <2>4, <2>5, <2>6, <2>7, <2>8, <2>9, <2>10, <2>11, <2>12, <2>13, <2>14
       DEF Next, HashStep, BtStep, LzCall, LzReturn
<1>3. QED
  BY <1>1, <1>2

-----------------------------------------------------------------------------
(* No move of the buffer takes away what BT and LZ still need.               *)

\* Before the stream ends not all of it is taken.
LEMMA NotSpentBeforeEnd ==
  ASSUME ~ Ended, NEW B, NEW S, NEW spent \in {0, 1}, TakeData(B, S, spent)
       PROVE spent = 0 /\ Fin = 0
<1>1. Fin = 0
  BY FinValue
<1>2. spent # 1
  <2>1. SUFFICES ASSUME spent = 1 PROVE FALSE
    OBVIOUS
  <2>2. Fin = 1
    BY <2>1 DEF TakeData, AllTaken
  <2>3. QED
    BY <1>1, <2>2
<1>3. QED
  BY <1>1, <1>2

\* The tree thread is not further behind the hash thread than all the heads there is
\* room for.
LEMMA BtNearPos ==
  ASSUME Control, DataInv, HashOn, ~ Ended PROVE Pos - BtPos <= HashNumBlocks * HashBlockSize
<1>0. PICK B \in [Nat -> BlockType], S \in [Nat -> Nat], C \in [Nat -> BlockType], T \in [Nat -> Nat],
          e \in Nat, spent \in {0, 1} : AllData(B, S, C, T, e, spent)
  BY DEF DataInv, SomeData
<1>1. HashData(B, S) /\ TakeData(B, S, spent)
  BY <1>0 DEF AllData
<1>2. spent = 0 /\ Fin = 0
  BY <1>1, NotSpentBeforeEnd
<1>3. PICK n \in Nat : n = HeadsAhead /\ n <= HashNumBlocks
  <2>1. HeadsAhead \in Nat /\ free["hash"] \in Nat /\ free["hash"] + HeadsAhead = HashNumBlocks
    BY HashOnPlaces
  <2>2. QED
    BY <2>1
<1>4. PICK pos \in Nat, at \in Int, us \in Nat, s0 \in Nat :
        pos = Pos /\ at = BtPos /\ us = hashBufPos /\ s0 = S[0]
  <2>1. Pos \in Nat /\ BtPos \in Int /\ hashBufPos \in Nat
    BY DEF DataInv, DataTypes, Buffer, BtTypes, Pos, BtPos
  <2>2. QED
    BY <2>1
<1>5. pos - s0 <= (n - 0) * HashBlockSize
  <2>1. HashQueue(B, n, S, Pos, streamPos, 0, Good, size)
    BY <1>1, <1>2, <1>3 DEF HashData
  <2>2. \A j \in 0 .. n : Pos - S[j] <= (n - j) * HashBlockSize
    BY <2>1 DEF HashQueue
  <2>3. 0 \in 0 .. n
    OBVIOUS
  <2>4. Pos - S[0] <= (n - 0) * HashBlockSize
    BY <2>2, <2>3
  <2>5. QED
    BY <1>4, <2>4, Zenon
<1>6. at >= s0
  <2>1. TakesHeads(B, HeadsAhead, S, BtHas, BtPos, hashBufPos, hashNumAvail, streamPos)
    BY <1>1, <1>2 DEF TakeData
  <2>2. at = s0 + us \/ at = s0
    BY <1>4, <2>1, BtHasValue DEF TakesHeads
  <2>3. QED
    BY <2>2
<1>7. n * HashBlockSize <= HashNumBlocks * HashBlockSize
  BY <1>3, Times, LzFindMtAssumption
<1>8. pos - at <= HashNumBlocks * HashBlockSize
  <2>1. n - 0 = n
    OBVIOUS
  <2>2. pos - s0 <= n * HashBlockSize
    BY <1>5, <2>1
  <2>3. PICK x \in Int, y \in Int : x = n * HashBlockSize /\ y = HashNumBlocks * HashBlockSize
    BY LzFindMtAssumption
  <2>4. pos - s0 <= x /\ x <= y
    BY <1>7, <2>2, <2>3
  <2>5. pos - at <= y
    BY <1>6, <2>4
  <2>6. QED
    BY <2>3, <2>5
<1>9. QED
  BY <1>4, <1>8

\* The encoder is not further behind the tree thread than all the matches there is
\* room for.
LEMMA LzNearBt ==
  ASSUME Control, DataInv, HashOn, ~ Ended, LzOn PROVE BtPos - At <= BtNumBlocks * BtBlockSize
<1>0. PICK B \in [Nat -> BlockType], S \in [Nat -> Nat], C \in [Nat -> BlockType], T \in [Nat -> Nat],
          e \in Nat, spent \in {0, 1} : AllData(B, S, C, T, e, spent)
  BY DEF DataInv, SomeData
<1>p. BtOn /\ btPc \in {"wait", "lock", "fill", "end", "top", "lockBlock"}
  BY HashOnPlaces DEF LzOn
<1>1. TakeData(B, S, spent) /\ TreeData(C, T, e) /\ LzData(C, T, e) /\ BtData(e, spent)
  BY <1>0, <1>p DEF AllData
<1>2. spent = 0
  BY <1>1, NotSpentBeforeEnd
<1>3. PICK n \in Nat, k \in {0, 1} :
        n = BlocksAhead /\ n + k <= BtNumBlocks /\ (k = 1 <=> Producing("bt"))
        /\ (k = 0 <=> ~ Producing("bt"))
  <2>1. BlocksAhead \in Nat /\ free["bt"] \in Nat
        /\ free["bt"] + BlocksAhead + Count(Producing("bt")) = BtNumBlocks
    BY <1>p, BtOnPlaces
  <2>2. PICK k \in {0, 1} : k = Count(Producing("bt")) /\ (k = 1 <=> Producing("bt"))
             /\ (k = 0 <=> ~ Producing("bt"))
    BY CountValue
  <2>3. BlocksAhead + k <= BtNumBlocks
    BY <2>1, <2>2
  <2>4. QED
    BY <2>1, <2>2, <2>3
<1>4. PICK at \in Int, np \in Nat, lz \in Int, t0 \in Nat :
        at = BtPos /\ np = numProcessed /\ lz = At /\ t0 = T[0]
  <2>1. BtPos \in Int /\ numProcessed \in Nat /\ At \in Int
    BY DEF DataInv, DataTypes, Buffer, BtTypes, LzTypes, BtPos, At
  <2>2. QED
    BY <2>1
<1>5. lz >= t0
  <2>1. At >= T[0]
    <3>1. T[0] \in Nat
      OBVIOUS
    <3>2. CASE lzPc \in {"run", "got", "finish"}
      BY <1>1, <3>2 DEF LzData
    <3>3. CASE lzPc \in {"wait", "lock"}
      BY <1>1, <3>1, <3>3 DEF LzData
    <3>4. QED
      BY <3>2, <3>3 DEF LzOn
  <2>2. QED
    BY <1>4, <2>1
<1>6. e - t0 <= n * BtBlockSize
  <2>1. TreeQueue(C, n, T, e, streamPos, Fin, Good, size, Bad)
    BY <1>1, <1>3 DEF TreeData
  <2>2. \A j \in 0 .. n : e - T[j] <= (n - j) * BtBlockSize
    BY <2>1 DEF TreeQueue
  <2>3. 0 \in 0 .. n /\ n - 0 = n
    OBVIOUS
  <2>4. e - T[0] <= n * BtBlockSize
    BY <2>2, <2>3
  <2>5. QED
    BY <1>4, <2>4, Zenon
<1>7. at - e <= k * BtBlockSize
  <2>0. BtBlockSize \in Nat
    BY LzFindMtAssumption
  <2>1. CASE k = 1
    <3>1. Producing("bt") /\ Follows(e)
      BY <1>1, <1>2, <1>3, <2>1 DEF BtData
    <3>2. e = at - np /\ Len(d.pos) = np
      BY <1>4, <3>1 DEF Follows
    <3>3. 2 + Len(d.pos) <= curPos /\ curPos \in 2 .. BtBlockSize
      BY <3>1 DEF DataInv, DataTypes, BtTypes
    <3>4. PICK c \in 2 .. BtBlockSize : c = curPos
      BY <3>3
    <3>5. 2 + np <= c
      BY <3>2, <3>3, <3>4
    <3>6. at - e <= BtBlockSize
      BY <2>0, <3>2, <3>5
    <3>7. 1 * BtBlockSize = BtBlockSize
      BY <2>0
    <3>8. QED
      BY <2>1, <3>6, <3>7
  <2>2. CASE k = 0
    <3>1. btPc = "top"
      BY <1>p, <1>3, <2>2 DEF Producing
    <3>2. e = at
      BY <1>1, <1>2, <1>4, <3>1 DEF BtData
    <3>3. 0 * BtBlockSize = 0
      BY <2>0
    <3>4. QED
      BY <2>2, <3>2, <3>3
  <2>3. QED
    BY <2>1, <2>2
<1>8. at - lz <= BtNumBlocks * BtBlockSize
  <2>0. BtBlockSize \in Nat /\ BtNumBlocks \in Nat
    BY LzFindMtAssumption
  <2>1. n * BtBlockSize + k * BtBlockSize <= BtNumBlocks * BtBlockSize
    <3>1. n * BtBlockSize + k * BtBlockSize = (n + k) * BtBlockSize
      BY <2>0
    <3>2. (n + k) * BtBlockSize <= BtNumBlocks * BtBlockSize
      BY <1>3, <2>0, Times
    <3>3. QED
      BY <3>1, <3>2
  <2>2. PICK x \in Int, y \in Int, z \in Int :
          x = n * BtBlockSize /\ y = k * BtBlockSize /\ z = BtNumBlocks * BtBlockSize
    BY <2>0
  <2>3. x + y <= z /\ e - t0 <= x /\ at - e <= y
    BY <1>6, <1>7, <2>1, <2>2
  <2>4. at - lz <= z
    BY <1>5, <2>3
  <2>5. QED
    BY <2>2, <2>4
<1>9. QED
  BY <1>4, <1>8

\* A move leaves, before the position of the hash thread, the history and the room for
\* all heads and all matches (LzFindMt.c:870, LzFind.c:189-198).
LEMMA MovedLittle ==
  ASSUME Buffer, hashPc = "enter"
  PROVE  /\ MoveOffset \in Nat /\ ~ Ended
         /\ mfBuffer - MoveOffset >= HistorySize + HashBlockSize * HashNumBlocks + BtBlockSize * BtNumBlocks + 1
<1>0. KeepBefore \in Nat /\ KeepAfter \in Nat /\ BlockSize = KeepBefore + KeepAfter + Reserve
      /\ Reserve \in Nat /\ MoveAlign \in Nat \ {0} /\ Reserve >= MoveAlign
  BY LzFindMtAssumption DEF KeepBefore, KeepAfter, BlockSize
<1>1. mfBuffer >= KeepBefore + Reserve /\ mfBuffer \in Nat /\ ~ Ended
  BY <1>0 DEF Buffer, NeedMove, Ended
<1>2. (mfBuffer - KeepBefore) \in Nat /\ mfBuffer - KeepBefore >= MoveAlign
  BY <1>0, <1>1
<1>3. (mfBuffer - KeepBefore) % MoveAlign \in 0 .. MoveAlign - 1
  BY <1>0, <1>2, ModRange
<1>4. MoveOffset \in Nat /\ MoveOffset <= mfBuffer - KeepBefore
  BY <1>0, <1>1, <1>2, <1>3 DEF MoveOffset
<1>5. mfBuffer - MoveOffset >= KeepBefore
  BY <1>0, <1>1, <1>4
<1>6. QED
  BY <1>1, <1>4, <1>5 DEF KeepBefore

\* No step, and in particular no move, takes the history of the position of BT away.
LEMMA HistoryStaysKept == ASSUME Control, DataInv, Next, HashOn' PROVE HistoryKept'
<1> USE DEF hashVars, mfVars, takeVars, btLocals, lzVars, fileVars, syncVars
<1>t. Buffer /\ RingTypes /\ BtTypes
  BY DEF DataInv, DataTypes
<1>1. CASE ~ HashOn
  <2>1. needStart["hash"] /\ AskHash
    BY <1>1, HashTurnsOn
  <2>2. LzNeedsBlocks
    <3>1. btPc = "fill"
      BY <2>1 DEF AskHash
    <3>2. QED
      BY <3>1 DEF Control, BtHandshake, LzNeedsBlocks
  <2>3. base' = 0
    BY <2>1, <2>2 DEF DataInv, Fresh, AskHash
  <2>4. QED
    BY <2>3 DEF HistoryKept
<1>2. CASE HashOn
  <2>0. /\ btPc \in {"wait", "lock", "fill", "end", "top", "lockBlock"}
        /\ lzPc \in {"run", "wait", "lock", "got", "finish", "stop"} /\ HistoryKept
    BY <1>2, HashOnPlaces DEF DataInv
  <2>f. ASSUME UNCHANGED <<base, btBuffer>> PROVE HistoryKept'
    BY <2>0, <2>f DEF HistoryKept
  <2>1. CASE Move
    <3>1. hashPc = "enter" /\ mfBuffer \in Nat /\ btBuffer \in Int /\ base \in Nat
      BY <1>t, <2>1 DEF Move, Buffer, BtTypes
    <3>2. /\ MoveOffset \in Nat /\ ~ Ended
          /\ mfBuffer - MoveOffset >= HistorySize + HashBlockSize * HashNumBlocks + BtBlockSize * BtNumBlocks + 1
      BY <1>t, <3>1, MovedLittle
    <3>3. Pos - BtPos <= HashNumBlocks * HashBlockSize
      BY <1>2, <3>2, BtNearPos
    <3>4. PICK x \in Nat, y \in Nat :
            x = HashNumBlocks * HashBlockSize /\ x = HashBlockSize * HashNumBlocks
            /\ y = BtBlockSize * BtNumBlocks
      BY LzFindMtAssumption
    <3>5. PICK o \in Nat, mb \in Nat, bb \in Int, b \in Nat :
            o = MoveOffset /\ mb = mfBuffer /\ bb = btBuffer /\ b = base
      BY <3>1, <3>2
    <3>6. mb - o >= HistorySize + x + y + 1
      BY <3>2, <3>4, <3>5, Zenon
    <3>7. (b + mb) - (b + bb) <= x
      BY <3>3, <3>4, <3>5, Zenon DEF Pos, BtPos
    <3>8. bb - o >= HistorySize
      BY <3>6, <3>7, LzFindMtAssumption
    <3>9. btBuffer' = bb - o
      BY <2>1, <3>5 DEF Move, Moved
    <3>10. QED
      BY <3>8, <3>9 DEF HistoryKept
  <2>2. CASE Process
    <3>1. CASE btPc' # btPc
      BY <2>2, <2>f, <3>1 DEF Process
    <3>2. CASE btPc' = btPc
      <4>1. PICK n \in 1 .. HeadsLeft : Processes(n)
        BY <2>2, <3>2, Processing
      <4>2. btBuffer' = btBuffer + n /\ base' = base
        BY <2>2, <4>1 DEF Processes, Process
      <4>3. n \in Nat /\ btBuffer \in Int
        BY <1>t, <4>1 DEF BtTypes
      <4>4. QED
        BY <2>0, <4>2, <4>3, LzFindMtAssumption DEF HistoryKept
    <3>3. QED
      BY <3>1, <3>2
  <2>3. CASE HashStart \/ EnterBt
    BY <2>3, <2>f DEF HashStart, EnterBt
  <2>4. CASE FillHash
    <3>1. base' = base /\ btBuffer' = btBuffer
      BY <2>4 DEF FillHash
    <3>2. QED
      BY <2>f, <3>1
  <2>5. CASE BtStart \/ BeginBlock \/ LockBlock \/ BtStop \/ HashStopped \/ AskHash \/ TakeHash \/ LockHash \/ EndBlock
    BY <2>5, <2>f DEF BtStart, BeginBlock, LockBlock, BtStop, HashStopped, AskHash, TakeHash,
       LockHash, EndBlock
  <2>6. CASE AskBlock \/ Advance \/ EndOfStream \/ ReleaseStream \/ TakeBlock \/ LockBt \/ Stopped
    BY <2>6, <2>f DEF AskBlock, Advance, EndOfStream, ReleaseStream, TakeBlock, LockBt, Stopped
  <2>14. ~ Create /\ ~ InitFile /\ ~ Destruct /\ ~ JoinBt /\ ~ JoinHash /\ ~ Terminating
    BY <2>0 DEF Create, InitFile, Destruct, JoinBt, JoinHash, Terminating
  <2>15. QED
    BY <2>1, <2>2, <2>3, <2>4, <2>5, <2>6, <2>14 DEF Next, HashStep, BtStep, LzCall, LzReturn
<1>3. QED
  BY <1>1, <1>2

\* Every step keeps the pointer of LZ at its position and the encoder's history in the
\* buffer: the move is made while LZ is locked out (LzFindMt.c:471-488).
LEMMA LzPlaceKept == ASSUME Control, DataInv, Next PROVE LzPlace'
<1> USE DEF hashVars, mfVars, takeVars, btLocals, lzVars, fileVars, syncVars
<1>t. Buffer /\ BtTypes /\ LzTypes /\ LzPlace
  BY DEF DataInv, DataTypes
<1>f. ASSUME UNCHANGED <<base, lzPointer, lzPos>>, LzOn' => LzOn PROVE LzPlace'
  BY <1>t, <1>f DEF LzPlace, At
<1>1. CASE Move
  <2>0. lzPc' = lzPc /\ lzPos' = lzPos
    BY <1>1 DEF Move
  <2>1. SUFFICES ASSUME LzOn PROVE base' + lzPointer' = At'
        /\ (base' = 0 \/ base' + HistorySize <= At')
    BY <2>0 DEF LzPlace, LzOn
  <2>2. HashOn /\ hashPc = "enter"
    <3>1. hashPc = "enter"
      BY <1>1 DEF Move
    <3>2. ~ needStart["hash"]
      BY <3>1 DEF Control, HashHandshake
    <3>3. ~ stopWriting["hash"]
      <4>1. SUFFICES ASSUME stopWriting["hash"] PROVE FALSE
        OBVIOUS
      <4>2. btPc = "stopHash" /\ stopWriting["bt"]
        BY <3>2, <4>1 DEF Control, HashHandshake, BtHandshake
      <4>3. ~ needStart["bt"]
        BY <4>2 DEF Control, BtHandshake
      <4>4. QED
        BY <2>1, <4>2, <4>3 DEF Control, BtHandshake, LzOn
    <3>4. QED
      BY <3>1, <3>2, <3>3 DEF HashOn
  <2>3. /\ MoveOffset \in Nat /\ ~ Ended
        /\ mfBuffer - MoveOffset >= HistorySize + HashBlockSize * HashNumBlocks + BtBlockSize * BtNumBlocks + 1
    BY <1>t, <2>2, MovedLittle
  <2>4. Pos - BtPos <= HashNumBlocks * HashBlockSize
    BY <2>2, <2>3, BtNearPos
  <2>5. BtPos - At <= BtNumBlocks * BtBlockSize
    BY <2>1, <2>2, <2>3, LzNearBt
  <2>6. PICK x \in Nat, y \in Nat :
          /\ x = HashNumBlocks * HashBlockSize /\ x = HashBlockSize * HashNumBlocks
          /\ y = BtBlockSize * BtNumBlocks /\ y = BtNumBlocks * BtBlockSize
    BY LzFindMtAssumption
  <2>7. PICK o \in Nat, mb \in Nat, bt \in Int, b \in Nat, lp \in Int, lz \in Int :
          o = MoveOffset /\ mb = mfBuffer /\ bt = BtPos /\ b = base /\ lp = lzPointer /\ lz = At
    <3>1. mfBuffer \in Nat /\ base \in Nat /\ lzPointer \in Int /\ At \in Int /\ BtPos \in Int
      BY <1>t DEF Buffer, LzTypes, BtTypes, At, BtPos
    <3>2. QED
      BY <2>3, <3>1
  <2>8. mb - o >= HistorySize + x + y + 1
    BY <2>3, <2>6, <2>7, Zenon
  <2>9. (b + mb) - bt <= x /\ bt - lz <= y
    BY <2>4, <2>5, <2>6, <2>7, Zenon DEF Pos
  <2>10. b + lp = lz
    BY <1>t, <2>1, <2>7 DEF LzPlace
  <2>11. b + o + HistorySize <= lz /\ (b + o) + (lp - o) = lz
    BY <2>8, <2>9, <2>10, LzFindMtAssumption
  <2>12. base' = b + o /\ lzPointer' = lp - o /\ At' = lz
    BY <1>1, <2>0, <2>7 DEF Move, Moved, At
  <2>13. QED
    BY <2>11, <2>12
<1>2. CASE InitFile
  <2>1. CASE lzPc' = "run"
    <3>1. base' = 0 /\ lzPos' = 1 /\ lzPointer' = 0
      BY <1>2, <2>1 DEF InitFile
    <3>2. QED
      BY <3>1 DEF LzPlace, At
  <2>2. CASE lzPc' # "run"
    <3>1. ~ LzOn'
      BY <1>2, <2>2 DEF InitFile, LzOn
    <3>2. QED
      BY <3>1 DEF LzPlace
  <2>3. QED
    BY <2>1, <2>2
<1>3. CASE Advance
  <2>1. LzOn /\ base' = base /\ lzPointer' = lzPointer + 1 /\ lzPos' = lzPos + 1
    BY <1>3 DEF Advance, LzOn
  <2>2. base \in Nat /\ lzPointer \in Int /\ lzPos \in Nat
    BY <1>t DEF Buffer, LzTypes
  <2>3. base + lzPointer = At /\ (base = 0 \/ base + HistorySize <= At)
    BY <1>t, <2>1 DEF LzPlace
  <2>4. QED
    BY <2>1, <2>2, <2>3, LzFindMtAssumption DEF LzPlace, At
<1>4. CASE HashStart \/ EnterBt
  BY <1>4, <1>f DEF HashStart, EnterBt, LzOn
<1>5. CASE FillHash
  <2>1. UNCHANGED <<base, lzPointer, lzPos, lzPc>>
    BY <1>5 DEF FillHash
  <2>2. QED
    BY <1>f, <2>1 DEF LzOn
<1>6. CASE BtStart \/ BeginBlock \/ LockBlock \/ BtStop \/ HashStopped \/ AskHash \/ TakeHash \/ LockHash \/ EndBlock
           \/ Process
  <2>1. UNCHANGED <<base, lzPointer, lzPos, lzPc>>
    BY <1>6 DEF BtStart, BeginBlock, LockBlock, BtStop, HashStopped, AskHash, TakeHash,
       LockHash, EndBlock, Process
  <2>2. QED
    BY <1>f, <2>1 DEF LzOn
<1>7. CASE AskBlock \/ EndOfStream \/ ReleaseStream \/ TakeBlock \/ LockBt
  <2>1. UNCHANGED <<base, lzPointer, lzPos>> /\ LzOn
    BY <1>7 DEF AskBlock, EndOfStream, ReleaseStream, TakeBlock, LockBt, LzOn
  <2>2. QED
    BY <1>f, <2>1
<1>8. CASE Stopped \/ Create \/ Destruct \/ JoinBt \/ JoinHash
  <2>1. UNCHANGED <<base, lzPointer, lzPos>> /\ ~ LzOn'
    BY <1>8 DEF Stopped, Create, Destruct, JoinBt, JoinHash, LzOn
  <2>2. QED
    BY <1>f, <2>1
<1>9. CASE Terminating
  BY <1>9, <1>f DEF Terminating, vars, LzOn
<1>10. QED
  BY <1>1, <1>2, <1>3, <1>4, <1>5, <1>6, <1>7, <1>8, <1>9 DEF Next, HashStep, BtStep, LzCall,
     LzReturn

-----------------------------------------------------------------------------
(* A file starts from what MatchFinderMt_Init left.                          *)

\* Until BT asks for the first heads, the file is as MatchFinder_Init left it
\* (LzFindMt.c:881-940).
LEMMA FreshKept == ASSUME Control, DataInv, Next, needStart'["hash"], LzNeedsBlocks'
       PROVE Fresh'
<1> USE DEF hashVars, mfVars, takeVars, btLocals, lzVars, fileVars, syncVars
<1>0. ControlTypes /\ RingTypes /\ RingBlockTypes
  BY DEF Control, DataInv, DataTypes
<1>1. CASE InitFile
  <2>1. lzPc = "idle" /\ lzPc' = "run"
    BY <1>1 DEF InitFile, LzNeedsBlocks
  <2>2. ~ Producing("bt")'
    <3>1. btPc' = btPc /\ needStart["bt"]
      BY <1>1, <2>1 DEF InitFile, Control, BtHandshake
    <3>2. QED
      BY <3>1 DEF Control, BtHandshake, Producing
  <2>3. /\ base' = 0 /\ mfBuffer' = 0 /\ streamPos' = 0 /\ ~ streamEndWasReached'
           /\ readResult' = "ok"
        /\ hashBi' = 0 /\ hashBufPos' = 0 /\ hashNumAvail' = 0 /\ ~ failure_BT' /\ btBuffer' = 0
        /\ hashBuf' = [i \in DOMAIN hashBuf |-> Erased]
    BY <1>1, <2>1 DEF InitFile
  <2>4. hashBuf'[0].pos = <<>>
    BY <1>0, <2>3, LzFindMtAssumption DEF RingBlockTypes, Erased
  <2>5. QED
    BY <2>2, <2>3, <2>4 DEF Fresh
<1>2. CASE ~ InitFile
  <2>1. needStart["hash"]
    <3>1. SUFFICES ASSUME ~ needStart["hash"] PROVE FALSE
      OBVIOUS
    <3>2. HashStopped
      <4>1. CASE AskHash
        BY <1>0, <3>1, <4>1 DEF AskHash, AskNext
      <4>2. CASE AskBlock
        BY <1>0, <3>1, <4>2 DEF AskBlock, AskNext, ControlTypes, Sync
      <4>3. CASE Stopped
        BY <1>0, <3>1, <4>3 DEF Stopped, SeeStopped, ControlTypes, Sync
      <4>4. CASE HashStep
        BY <3>1, <4>4 DEF HashStep, HashStart, EnterBt, Move, FillHash
      <4>5. CASE BtStart \/ BeginBlock \/ LockBlock \/ BtStop \/ TakeHash \/ LockHash \/ Process \/ EndBlock
        BY <3>1, <4>5 DEF BtStart, BeginBlock, LockBlock, BtStop, TakeHash, LockHash, Process,
           EndBlock
      <4>6. CASE Create \/ InitFile \/ Advance \/ EndOfStream \/ ReleaseStream \/ Destruct
        BY <3>1, <4>6 DEF Create, InitFile, Advance, EndOfStream, ReleaseStream, Destruct
      <4>7. CASE TakeBlock \/ LockBt \/ JoinBt \/ JoinHash \/ Terminating
        BY <3>1, <4>7 DEF TakeBlock, LockBt, JoinBt, JoinHash, Terminating, vars
      <4>8. QED
        BY <4>1, <4>2, <4>3, <4>4, <4>5, <4>6, <4>7 DEF Next, HashStep, BtStep, LzCall, LzReturn
    <3>3. btPc = "stopHash" /\ wasStopped' = [wasStopped EXCEPT !["hash"] = FALSE, !["bt"] = TRUE]
          /\ lzPc' = lzPc
      BY <3>2 DEF HashStopped
    <3>4. stopWriting["bt"] /\ ~ needStart["bt"]
      BY <3>3 DEF Control, BtHandshake
    <3>5. lzPc = "stop"
      BY <3>4 DEF Control, BtHandshake
    <3>6. wasStopped'["bt"]
      BY <1>0, <3>3 DEF ControlTypes, Sync
    <3>7. QED
      BY <3>3, <3>5, <3>6 DEF LzNeedsBlocks
  <2>2. hashPc \in {"none", "start", "ended"}
        /\ btPc \notin {"wait", "lock", "lockBlock", "stopHash"}
    BY <2>1 DEF Control, HashHandshake
  <2>3. LzNeedsBlocks
    <3>1. SUFFICES ASSUME ~ LzNeedsBlocks PROVE FALSE
      OBVIOUS
    <3>2. CASE HashStep
      BY <2>2, <3>1, <3>2 DEF HashStep, HashStart, EnterBt, Move, FillHash, LzNeedsBlocks
    <3>3. CASE BtStart \/ BeginBlock \/ LockBlock \/ TakeHash \/ LockHash \/ Process \/ EndBlock
      BY <3>1, <3>3 DEF BtStart, BeginBlock, LockBlock, TakeHash, LockHash, Process, EndBlock,
         LzNeedsBlocks
    <3>4. CASE BtStop \/ HashStopped
      BY <1>0, <3>1, <3>4 DEF BtStop, HashStopped, HashIdle, LzNeedsBlocks, ControlTypes, Sync
    <3>5. CASE AskHash
      <4>1. wasStopped'["bt"] = wasStopped["bt"] /\ lzPc' = lzPc
        BY <1>0, <3>5 DEF AskHash, AskNext, ControlTypes, Sync
      <4>2. QED
        BY <3>1, <4>1 DEF LzNeedsBlocks
    <3>6. CASE Create \/ Advance \/ EndOfStream \/ Destruct \/ AskBlock
      BY <3>1, <3>6 DEF Create, Advance, EndOfStream, Destruct, AskBlock, LzNeedsBlocks
    <3>7. CASE ReleaseStream
      BY <3>1, <3>7 DEF ReleaseStream, LzNeedsBlocks
    <3>8. CASE TakeBlock \/ LockBt \/ JoinBt \/ JoinHash \/ Terminating \/ Stopped
      BY <3>1, <3>8 DEF TakeBlock, LockBt, JoinBt, JoinHash, Terminating, Stopped, vars,
         LzNeedsBlocks
    <3>9. QED
      BY <1>2, <3>2, <3>3, <3>4, <3>5, <3>6, <3>7, <3>8 DEF Next, BtStep, LzCall, LzReturn
  <2>4. Fresh
    BY <2>1, <2>3 DEF DataInv
  <2>f. ASSUME UNCHANGED <<base, mfBuffer, streamPos, streamEndWasReached, readResult, hashBi, hashBufPos,
                           hashNumAvail, failure_BT, btBuffer, hashBuf>>,
               Producing("bt")' => d'.pos = <<>> /\ d'.avail = 0 /\ numProcessed' = 0
               /\ curPos' = 2 /\ btPc' # "end"
        PROVE  Fresh'
    BY <2>4, <2>f DEF Fresh
  <2>5. CASE HashStep
    <3>1. HashStart
      BY <2>2, <2>5 DEF HashStep, EnterBt, Move, FillHash
    <3>2. QED
      BY <2>4, <3>1 DEF HashStart, Fresh, Producing
  <2>6. CASE BtStep
    <3>1. ~ LockBlock /\ ~ TakeHash /\ ~ LockHash /\ ~ HashStopped
      BY <2>2 DEF LockBlock, TakeHash, LockHash, HashStopped
    <3>2. ~ AskHash
      <4>1. SUFFICES ASSUME AskHash PROVE FALSE
        OBVIOUS
      <4>2. needStart' = [needStart EXCEPT !["hash"] = FALSE]
        BY <2>1, <4>1 DEF AskHash, AskNext
      <4>3. ~ needStart'["hash"]
        BY <1>0, <4>2 DEF ControlTypes, Sync
      <4>4. QED
        BY <4>3
    <3>3. ~ Process
      BY <2>1, ProcessAvail DEF HashOn
    <3>4. ~ EndBlock
      <4>1. SUFFICES ASSUME EndBlock PROVE FALSE
        OBVIOUS
      <4>2. Producing("bt")
        BY <4>1 DEF EndBlock, Producing
      <4>3. ~ failure_BT /\ curPos = 2 /\ btPc # "end"
        BY <2>4, <4>2 DEF Fresh
      <4>4. curPos >= Limit
        BY <4>1, <4>3 DEF EndBlock
      <4>5. Limit > 2
        BY LzFindMtAssumption DEF Limit
      <4>6. Limit \in Int
        BY LzFindMtAssumption DEF Limit
      <4>7. QED
        BY <4>3, <4>4, <4>5, <4>6
    <3>5. CASE BtStart \/ BtStop
      BY <2>4, <2>1, <3>5 DEF BtStart, BtStop, HashIdle, Fresh, Producing
    <3>6. CASE BeginBlock
      <4>1. d' = Block(<<>>, hashNumAvail) /\ curPos' = 2 /\ numProcessed' = 0 /\ btPc' = "fill"
        BY <2>1, <3>6 DEF BeginBlock
      <4>2. hashNumAvail = 0
        BY <2>4 DEF Fresh
      <4>3. d'.pos = <<>> /\ d'.avail = 0
        BY <4>1, <4>2 DEF Block
      <4>4. UNCHANGED <<base, mfBuffer, streamPos, streamEndWasReached, readResult, hashBi, hashBufPos,
                        hashNumAvail, failure_BT, btBuffer, hashBuf>>
        BY <3>6 DEF BeginBlock
      <4>5. QED
        BY <2>f, <4>1, <4>3, <4>4
    <3>7. QED
      BY <2>6, <3>1, <3>2, <3>3, <3>4, <3>5, <3>6 DEF BtStep
  <2>7. CASE Advance \/ EndOfStream \/ ReleaseStream \/ AskBlock \/ TakeBlock \/ LockBt
    BY <2>4, <2>7 DEF Advance, EndOfStream, ReleaseStream, AskBlock, TakeBlock, LockBt, Fresh,
       Producing
  <2>8. CASE Create
    BY <2>3, <2>8 DEF Create, LzNeedsBlocks
  <2>9. CASE Stopped \/ Destruct \/ JoinBt \/ JoinHash
    BY <2>9 DEF Stopped, Destruct, JoinBt, JoinHash, LzNeedsBlocks
  <2>10. CASE Terminating
    BY <2>3, <2>10 DEF Terminating, LzNeedsBlocks
  <2>11. QED
    BY <1>2, <2>5, <2>6, <2>7, <2>8, <2>9, <2>10 DEF Next, LzCall, LzReturn
<1>3. QED
  BY <1>1, <1>2

\* So is what BT and LZ have,
LEMMA FreshBtKept == ASSUME Control, DataInv, Next, needStart'["hash"], BtOn' PROVE FreshBt'
<1> USE DEF hashVars, mfVars, takeVars, btLocals, lzVars, fileVars, syncVars
<1>0. ControlTypes /\ RingTypes
  BY DEF Control, DataInv, DataTypes
<1>1. CASE ~ BtOn
  <2>1. needStart["bt"] /\ AskBlock
    BY <1>1, BtTurnsOn
  <2>2. /\ lzPc = "run" /\ lzPc' = "wait" /\ btBi' = 0 /\ btBufPos' = 0
        /\ numProcessedBlocks' = [numProcessedBlocks EXCEPT !["bt"] = 1 % BtNumBlocks]
        /\ UNCHANGED <<filled, lzPos, lzPointer, btNumAvailBytes, btPc>>
    BY <2>1 DEF AskBlock, AskNext, NextIndex, NumBlocks
  <2>3. FreshLz /\ filled["bt"] = 0
    BY <2>1, <2>2 DEF DataInv, Control, Rings
  <2>4. numProcessedBlocks'["bt"] = Ring(1, BtNumBlocks)
    <3>1. numProcessedBlocks'["bt"] = 1 % BtNumBlocks
      BY <1>0, <2>2 DEF RingTypes, Sync
    <3>2. 1 % BtNumBlocks = Ring(1, BtNumBlocks)
      BY OneMod, LzFindMtAssumption
    <3>3. QED
      BY <3>1, <3>2
  <2>5. btPc' = "start"
    BY <2>1, <2>2 DEF Control, BtHandshake, Existence
  <2>6. QED
    BY <2>2, <2>3, <2>4, <2>5 DEF FreshLz, FreshBt
<1>2. CASE BtOn
  <2>0. /\ lzPc \in {"run", "wait", "lock", "got", "finish"} /\ ~ needStart["bt"]
           /\ ~ stopWriting["bt"]
        /\ btPc # "stopHash"
    BY <1>2, BtOnPlaces DEF BtOn
  <2>1. needStart["hash"]
    <3>1. SUFFICES ASSUME ~ needStart["hash"] PROVE FALSE
      OBVIOUS
    <3>2. HashStopped
      <4>1. CASE AskHash
        BY <1>0, <3>1, <4>1 DEF AskHash, AskNext
      <4>2. CASE AskBlock
        BY <1>0, <3>1, <4>2 DEF AskBlock, AskNext, ControlTypes, Sync
      <4>3. CASE Stopped
        BY <1>0, <3>1, <4>3 DEF Stopped, SeeStopped, ControlTypes, Sync
      <4>4. CASE HashStep
        BY <3>1, <4>4 DEF HashStep, HashStart, EnterBt, Move, FillHash
      <4>5. CASE BtStart \/ BeginBlock \/ LockBlock \/ BtStop \/ TakeHash \/ LockHash \/ Process \/ EndBlock
        BY <3>1, <4>5 DEF BtStart, BeginBlock, LockBlock, BtStop, TakeHash, LockHash, Process,
           EndBlock
      <4>6. CASE Create \/ InitFile \/ Advance \/ EndOfStream \/ ReleaseStream \/ Destruct
        BY <3>1, <4>6 DEF Create, InitFile, Advance, EndOfStream, ReleaseStream, Destruct
      <4>7. CASE TakeBlock \/ LockBt \/ JoinBt \/ JoinHash \/ Terminating
        BY <3>1, <4>7 DEF TakeBlock, LockBt, JoinBt, JoinHash, Terminating, vars
      <4>8. QED
        BY <4>1, <4>2, <4>3, <4>4, <4>5, <4>6, <4>7 DEF Next, HashStep, BtStep, LzCall, LzReturn
    <3>3. QED
      BY <2>0, <3>2 DEF HashStopped
  <2>2. FreshBt /\ Fresh
    BY <1>2, <2>0, <2>1 DEF DataInv, LzNeedsBlocks
  <2>3. lzPc = "wait" /\ filled["bt"] = 0
    BY <2>2 DEF FreshBt
  <2>4. hashPc \in {"none", "start", "ended"}
        /\ btPc \notin {"wait", "lock", "lockBlock", "stopHash"}
    BY <2>1 DEF Control, HashHandshake
  <2>5. CASE HashStep
    <3>1. HashStart
      BY <2>4, <2>5 DEF HashStep, EnterBt, Move, FillHash
    <3>2. QED
      BY <2>2, <3>1 DEF HashStart, FreshBt
  <2>6. CASE BtStep
    <3>1. ~ LockBlock /\ ~ TakeHash /\ ~ LockHash /\ ~ HashStopped
      BY <2>4 DEF LockBlock, TakeHash, LockHash, HashStopped
    <3>2. ~ AskHash
      <4>1. SUFFICES ASSUME AskHash PROVE FALSE
        OBVIOUS
      <4>2. needStart' = [needStart EXCEPT !["hash"] = FALSE]
        BY <2>1, <4>1 DEF AskHash, AskNext
      <4>3. ~ needStart'["hash"]
        BY <1>0, <4>2 DEF ControlTypes, Sync
      <4>4. QED
        BY <4>3
    <3>3. ~ Process
      BY <2>1, ProcessAvail DEF HashOn
    <3>4. ~ EndBlock
      <4>1. SUFFICES ASSUME EndBlock PROVE FALSE
        OBVIOUS
      <4>2. Producing("bt")
        BY <4>1 DEF EndBlock, Producing
      <4>3. ~ failure_BT /\ curPos = 2 /\ btPc # "end"
        BY <2>2, <4>2 DEF Fresh
      <4>4. curPos >= Limit
        BY <4>1, <4>3 DEF EndBlock
      <4>5. Limit > 2
        BY LzFindMtAssumption DEF Limit
      <4>6. Limit \in Int
        BY LzFindMtAssumption DEF Limit
      <4>7. QED
        BY <4>3, <4>4, <4>5, <4>6
    <3>5. CASE BtStart
      BY <2>2, <3>5 DEF BtStart, FreshBt
    <3>6. CASE BeginBlock
      BY <2>2, <3>6 DEF BeginBlock, FreshBt
    <3>7. ~ BtStop
      BY <2>0 DEF BtStop
    <3>8. QED
      BY <2>6, <3>1, <3>2, <3>3, <3>4, <3>5, <3>6, <3>7 DEF BtStep
  <2>7. ~ LzCall /\ ~ LzReturn /\ ~ Terminating
    <3>1. ~ TakeBlock
      BY <2>3 DEF TakeBlock
    <3>2. QED
      BY <2>3, <3>1 DEF LzCall, LzReturn, Create, InitFile, AskBlock, Advance, EndOfStream,
         ReleaseStream, Destruct,
                        LockBt, Stopped, JoinBt, JoinHash, Terminating
  <2>8. QED
    BY <2>5, <2>6, <2>7 DEF Next
<1>3. QED
  BY <1>1, <1>2

\* and the encoder at its first position until it asks for its first block.
LEMMA FreshLzKept == ASSUME Control, DataInv, Next, needStart'["bt"], lzPc' = "run"
       PROVE FreshLz'
<1> USE DEF hashVars, mfVars, takeVars, btLocals, lzVars, fileVars, syncVars
<1>0. ControlTypes /\ RingTypes
  BY DEF Control, DataInv, DataTypes
<1>1. CASE lzPc # "run"
  <2>1. CASE InitFile
    BY <1>1, <2>1 DEF InitFile, FreshLz
  <2>2. CASE Advance
    <3>1. needStart["bt"] /\ lzPc = "got"
      BY <1>1, <2>2 DEF Advance
    <3>2. QED
      BY <3>1 DEF Control, BtHandshake
  <2>3. CASE HashStep \/ BtStep
    BY <1>1, <2>3 DEF HashStep, BtStep, HashStart, EnterBt, Move, FillHash, BtStart, BeginBlock,
       LockBlock, BtStop,
                      HashStopped, AskHash, TakeHash, LockHash, Process, EndBlock
  <2>4. CASE Create \/ AskBlock \/ EndOfStream \/ ReleaseStream \/ Destruct \/ LzReturn \/ Terminating
    BY <1>1, <2>4 DEF Create, AskBlock, EndOfStream, ReleaseStream, Destruct, LzReturn,
       TakeBlock, LockBt, Stopped,
                      JoinBt, JoinHash, Terminating, vars
  <2>5. QED
    BY <2>1, <2>2, <2>3, <2>4 DEF Next, LzCall
<1>2. CASE lzPc = "run"
  <2>1. needStart["bt"]
    <3>1. CASE HashStep
      BY <3>1 DEF HashStep, HashStart, EnterBt, Move, FillHash
    <3>2. CASE AskHash
      BY <1>0, <3>2 DEF AskHash, AskNext, ControlTypes, Sync
    <3>3. CASE HashStopped
      BY <1>0, <3>3 DEF HashStopped, ControlTypes, Sync
    <3>4. CASE BtStart \/ BeginBlock \/ LockBlock \/ BtStop \/ TakeHash \/ LockHash \/ Process \/ EndBlock
      BY <3>4 DEF BtStart, BeginBlock, LockBlock, BtStop, TakeHash, LockHash, Process, EndBlock
    <3>5. CASE LzCall
      BY <1>2, <3>5 DEF LzCall, Create, InitFile, AskBlock, Advance, EndOfStream, ReleaseStream,
         Destruct
    <3>6. CASE LzReturn \/ Terminating
      BY <1>2, <3>6 DEF LzReturn, TakeBlock, LockBt, Stopped, JoinBt, JoinHash, Terminating
    <3>7. QED
      BY <3>1, <3>2, <3>3, <3>4, <3>5, <3>6 DEF Next, BtStep
  <2>2. FreshLz
    BY <1>2, <2>1 DEF DataInv
  <2>3. LzPlace /\ LzOn /\ Buffer
    BY <1>2 DEF DataInv, LzOn
  <2>4. CASE Move
    <3>1. hashPc = "enter"
      BY <2>4 DEF Move
    <3>2. ~ needStart["hash"]
      BY <3>1 DEF Control, HashHandshake
    <3>3. QED
      BY <2>1, <3>2 DEF Control, HashHandshake, BtHandshake
  <2>5. CASE HashStart \/ EnterBt \/ FillHash
    BY <2>2, <2>5 DEF HashStart, EnterBt, FillHash, FreshLz
  <2>6. CASE BtStep
    BY <2>2, <2>6 DEF BtStep, BtStart, BeginBlock, LockBlock, BtStop,
                      HashStopped, AskHash, TakeHash, LockHash, Process, EndBlock, FreshLz
  <2>7. ~ Advance
    BY <2>2 DEF Advance, FreshLz
  <2>8. ~ AskBlock /\ ~ ReleaseStream
    BY <2>1 DEF AskBlock, ReleaseStream
  <2>9. ~ Create /\ ~ InitFile /\ ~ EndOfStream /\ ~ Destruct /\ ~ LzReturn /\ ~ Terminating
    BY <1>2 DEF Create, InitFile, EndOfStream, Destruct, LzReturn, TakeBlock, LockBt, Stopped,
       JoinBt, JoinHash,
                Terminating
  <2>10. QED
    BY <2>4, <2>5, <2>6, <2>7, <2>8, <2>9 DEF Next, HashStep, LzCall
<1>3. QED
  BY <1>1, <1>2

-----------------------------------------------------------------------------
(* What the invariant says of the data that BT and LZ work on.               *)

\* What LZ has of its block of matches: its entries are of its positions, and a failed
\* block comes from a failed BT, before the stream's end.
LEMMA LzBlock ==
  ASSUME Control, DataInv, LzWorks
  PROVE  \E c \in BlockType, t0 \in Nat, t1 \in Nat :
           /\ c = btBuf[btBi] /\ t1 = t0 + Len(c.pos)
           /\ EntriesFrom(c, t0, Fin, streamPos)
           /\ At >= t0 /\ At + btNumAvailBytes = t0 + c.avail /\ (failure_LZ_BT <=> ~ c.ok)
           /\ ~ failure_LZ_BT => At = t0 + btBufPos /\ btBufPos <= Len(c.pos)
           /\ c.ok /\ readResult = "ok" => t0 + c.avail >= Min2(t1 + Lookahead, size)
           /\ t0 + c.avail <= streamPos
           /\ ~ c.ok => failure_BT
           /\ failure_BT => t1 <= BtPos /\ BtPos < size
<1>1. BtOn /\ HashOn /\ lzPc \in {"run", "got", "finish"}
  <2>1. BtOn /\ lzPc \in {"run", "got", "finish"}
    BY DEF LzWorks, Control, BtHandshake, BtOn
  <2>2. needStart["hash"] => FALSE
    BY <2>1 DEF DataInv, FreshBt
  <2>3. QED
    BY <2>1, <2>2, BtOnPlaces
<1>2. PICK B \in [Nat -> BlockType], S \in [Nat -> Nat], C \in [Nat -> BlockType], T \in [Nat -> Nat],
          e \in Nat, spent \in {0, 1} : AllData(B, S, C, T, e, spent)
  BY <1>1 DEF DataInv, SomeData
<1>3. TakeData(B, S, spent) /\ TreeData(C, T, e) /\ LzData(C, T, e) /\ BtData(e, spent)
  BY <1>1, <1>2 DEF AllData
<1>4. PICK n \in Nat \ {0} : n = BlocksAhead
  <2>1. filled["bt"] \in Nat /\ BlocksAhead = filled["bt"] + 1
    BY <1>1, BtOnPlaces
  <2>2. QED
    BY <2>1
<1>5. C[0] = btBuf[btBi] /\ C[0] \in BlockType
  <2>1. 0 \in 0 .. BlocksAhead - 1 /\ btBi \in 0 .. BtNumBlocks - 1
    BY <1>4 DEF DataInv, DataTypes, RingTypes
  <2>2. Ring(btBi + 0, BtNumBlocks) = btBi
    BY <2>1, LzFindMtAssumption DEF Ring
  <2>3. QED
    BY <1>3, <2>1, <2>2 DEF TreeData, TreeRingHolds
<1>6. PICK c \in BlockType, t0 \in Nat, t1 \in Nat : c = C[0] /\ t0 = T[0] /\ t1 = T[1]
  BY <1>5
<1>7. TreeQueue(C, n, T, e, streamPos, Fin, Good, size, Bad) /\ ReachesTo(C, n, T, e + Future)
      /\ e + Future <= streamPos
  BY <1>3, <1>4 DEF TreeData
<1>8. MatchesFor(c, t0, t1, streamPos, Fin, Good, size, Bad)
  <2>1. 0 \in 0 .. n - 1 /\ 0 + 1 = 1
    OBVIOUS
  <2>2. MatchesFor(C[0], T[0], T[0 + 1], streamPos, Fin, Good, size, Bad)
    BY <1>7, <2>1 DEF TreeQueue
  <2>3. QED
    BY <1>6, <2>1, <2>2, Zenon
<1>9. PICK len \in Nat, x \in Nat : len = Len(c.pos) /\ x = c.avail
  BY BlockFields
<1>10. t1 = t0 + len
  BY <1>8, <1>9 DEF MatchesFor
<1>11. /\ At >= t0 /\ At + btNumAvailBytes = t0 + c.avail /\ (failure_LZ_BT <=> ~ c.ok)
       /\ ~ failure_LZ_BT => At = t0 + btBufPos /\ btBufPos <= Len(c.pos)
  BY <1>1, <1>3, <1>6 DEF LzData
<1>12. c.ok /\ readResult = "ok" => t0 + c.avail >= Min2(t1 + Lookahead, size)
  BY <1>8, GoodValue DEF MatchesFor
<1>13. t0 + c.avail <= streamPos
  <2>1. 0 \in 0 .. n - 1
    OBVIOUS
  <2>2. T[0] + C[0].avail <= e + Future
    BY <1>7, <2>1 DEF ReachesTo
  <2>3. t0 + x <= e + Future
    BY <1>6, <1>9, <2>2, Zenon
  <2>4. streamPos \in Nat /\ Future \in Int
    <3>1. hashNumAvail \in Nat /\ d.avail \in Nat /\ streamPos \in Nat
      BY BlockFields DEF DataInv, DataTypes, BtTypes, Buffer
    <3>2. QED
      BY <3>1 DEF Future
  <2>5. t0 + x <= streamPos
    BY <1>7, <2>3, <2>4
  <2>6. QED
    BY <1>9, <2>5, Zenon
<1>14. ~ c.ok => failure_BT
  BY <1>8, BadValue DEF MatchesFor
<1>15. ASSUME failure_BT PROVE t1 <= BtPos /\ BtPos < size
  <2>1. spent = 0
    <3>1. SUFFICES ASSUME spent = 1 PROVE FALSE
      OBVIOUS
    <3>2. Bad = 0
      BY <1>3, <3>1 DEF TakeData, AllTaken
    <3>3. QED
      BY <1>15, <3>2, BadValue
  <2>2. BtPos < size
    BY <1>3, <1>15, <2>1 DEF TakeData
  <2>3. PICK at \in Int, np \in Nat : at = BtPos /\ np = numProcessed
    <3>1. BtPos \in Int /\ numProcessed \in Nat
      BY DEF DataInv, DataTypes, Buffer, BtTypes, BtPos
    <3>2. QED
      BY <3>1
  <2>4. e <= at
    <3>1. CASE Producing("bt")
      <4>1. e = at - np
        BY <1>3, <2>1, <2>3, <3>1 DEF BtData, Follows
      <4>2. QED
        BY <4>1
    <3>2. CASE ~ Producing("bt")
      <4>1. btPc = "top"
        BY <1>1, <3>2, HashOnPlaces DEF Producing
      <4>2. e = at
        BY <1>3, <2>1, <2>3, <4>1 DEF BtData
      <4>3. QED
        BY <4>2
    <3>3. QED
      BY <3>1, <3>2
  <2>5. t1 <= e
    <3>1. 1 \in 0 .. n /\ n \in 0 .. n /\ 1 <= n
      OBVIOUS
    <3>2. T[1] <= T[n] /\ T[n] = e
      BY <1>7, <3>1 DEF TreeQueue
    <3>3. QED
      BY <1>6, <3>2
  <2>6. t1 <= at
    BY <2>4, <2>5
  <2>7. QED
    BY <2>2, <2>3, <2>6
<1>16. t1 = t0 + Len(c.pos) /\ c = btBuf[btBi] /\ EntriesFrom(c, t0, Fin, streamPos)
  BY <1>5, <1>6, <1>8, <1>9, <1>10 DEF MatchesFor
<1>17. QED
  BY <1>11, <1>12, <1>13, <1>14, <1>15, <1>16

\* LZ and what it gets are in step (LzFindMt.c:467-482, 1282).
LEMMA LzInStep ==
  ASSUME Control, DataInv, LzWorks
  PROVE  /\ base + lzPointer = At
         /\ ~ failure_LZ_BT =>
              \A j \in btBufPos + 1 .. Len(btBuf[btBi].pos) :
                LET here == At + j - btBufPos - 1
                IN \/ btBuf[btBi].pos[j] = here
                   \/ btBuf[btBi].pos[j] = NoPos /\ here + NumHashBytes > streamPos
<1>1. base + lzPointer = At
  BY DEF DataInv, LzPlace, LzOn, LzWorks
<1>2. PICK c \in BlockType, t0 \in Nat, t1 \in Nat :
           /\ c = btBuf[btBi] /\ EntriesFrom(c, t0, Fin, streamPos)
           /\ ~ failure_LZ_BT => At = t0 + btBufPos /\ btBufPos <= Len(c.pos)
  BY LzBlock
<1>3. ASSUME ~ failure_LZ_BT, NEW j \in btBufPos + 1 .. Len(btBuf[btBi].pos)
      PROVE  \/ btBuf[btBi].pos[j] = At + j - btBufPos - 1
             \/ btBuf[btBi].pos[j] = NoPos /\ (At + j - btBufPos - 1) + NumHashBytes > streamPos
  <2>1. PICK u \in Nat, len \in Nat : u = btBufPos /\ len = Len(c.pos)
    BY BlockFields DEF DataInv, DataTypes, LzTypes
  <2>2. j \in u + 1 .. len
    BY <1>2, <1>3, <2>1
  <2>3. j \in 1 .. len /\ j \in Int
    BY <2>2
  <2>4. c.pos[j] = t0 + j - 1 \/ (c.pos[j] = NoPos /\ t0 + j - 1 + NumHashBytes > streamPos)
    BY <1>2, <2>1, <2>3 DEF EntriesFrom
  <2>5. At + j - btBufPos - 1 = t0 + j - 1
    <3>1. At = t0 + u
      BY <1>2, <1>3, <2>1
    <3>2. (t0 + u) + j - u - 1 = t0 + j - 1
      BY <2>3
    <3>3. QED
      BY <2>1, <3>1, <3>2
  <2>6. QED
    BY <1>2, <2>4, <2>5, Zenon
<1>4. QED
  BY <1>1, <1>3

\* The buffer has what LZ may look at (LzFindMt.c:870).
LEMMA LzDataKept ==
  ASSUME Control, DataInv, LzWorks
  PROVE  /\ base = 0 \/ base <= At - HistorySize
         /\ At + btNumAvailBytes <= streamPos
         /\ ~ failure_LZ_BT /\ readResult = "ok" =>
              btNumAvailBytes >= Min2(KeepAddAfter + MatchMaxLen, size - At)
<1>1. base = 0 \/ base + HistorySize <= At
  BY DEF DataInv, LzPlace, LzOn, LzWorks
<1>2. PICK at \in Int, b \in Nat, nb \in Nat, sz \in Nat, us \in Nat :
        at = At /\ b = base /\ nb = btNumAvailBytes /\ sz = size /\ us = btBufPos
  <2>1. At \in Int /\ base \in Nat /\ btNumAvailBytes \in Nat /\ size \in Nat /\ btBufPos \in Nat
    BY DEF DataInv, DataTypes, LzTypes, Buffer, At
  <2>2. QED
    BY <2>1
<1>3. b = 0 \/ b <= at - HistorySize
  BY <1>1, <1>2, LzFindMtAssumption
<1>4. PICK c \in BlockType, t0 \in Nat, t1 \in Nat :
           /\ c = btBuf[btBi] /\ t1 = t0 + Len(c.pos)
           /\ At + btNumAvailBytes = t0 + c.avail /\ (failure_LZ_BT <=> ~ c.ok)
           /\ ~ failure_LZ_BT => At = t0 + btBufPos /\ btBufPos <= Len(c.pos)
           /\ c.ok /\ readResult = "ok" => t0 + c.avail >= Min2(t1 + Lookahead, size)
           /\ t0 + c.avail <= streamPos
  BY LzBlock
<1>5. PICK len \in Nat, x \in Nat : len = Len(c.pos) /\ x = c.avail
  BY BlockFields
<1>6. At + btNumAvailBytes <= streamPos
  BY <1>4
<1>7. ASSUME ~ failure_LZ_BT, readResult = "ok"
      PROVE  btNumAvailBytes >= Min2(KeepAddAfter + MatchMaxLen, size - At)
  <2>1. at + nb = t0 + x /\ at = t0 + us /\ us <= len /\ t1 = t0 + len
    BY <1>2, <1>4, <1>5, <1>7
  <2>2. t0 + x >= Min2(t1 + Lookahead, sz)
    BY <1>2, <1>4, <1>5, <1>7, Zenon
  <2>3. KeepAddAfter + MatchMaxLen \in Nat /\ Lookahead = KeepAddAfter + MatchMaxLen
    BY LzFindMtAssumption DEF Lookahead
  <2>4. PICK w \in Nat : w = KeepAddAfter + MatchMaxLen
    BY <2>3
  <2>5. at + nb >= Min2((t0 + len) + w, sz)
    BY <2>1, <2>2, <2>3, <2>4
  <2>6. nb >= Min2(w, sz - at)
    BY <2>1, <2>5 DEF Min2
  <2>7. QED
    BY <1>2, <2>4, <2>6
<1>8. QED
  BY <1>2, <1>3, <1>6, <1>7

\* BT is in step with its heads, and the buffer has what it may look at.
LEMMA BtDataKept ==
  ASSUME Control, DataInv, BtWorks
  PROVE  /\ HeadsLeft > 0 => base + btBuffer = hashBuf[hashBi].pos[hashBufPos + 1]
         /\ base = 0 \/ HistorySize <= btBuffer
         /\ base + btBuffer + hashNumAvail <= streamPos
<1>1. HashOn /\ BtHasHeads /\ btPc \in {"fill", "end"}
  BY DEF BtWorks, HashOn, BtHasHeads, Control, ControlTypes, HashHandshake, Sync
<1>2. HistoryKept
  BY <1>1 DEF DataInv
<1>3. PICK B \in [Nat -> BlockType], S \in [Nat -> Nat], C \in [Nat -> BlockType], T \in [Nat -> Nat],
          e \in Nat, spent \in {0, 1} : AllData(B, S, C, T, e, spent)
  BY <1>1 DEF DataInv, SomeData
<1>4. HashData(B, S) /\ TakeData(B, S, spent)
  BY <1>3 DEF AllData
<1>5. PICK at \in Int, us \in Nat, av \in Nat, sp \in Nat :
        at = BtPos /\ us = hashBufPos /\ av = hashNumAvail /\ sp = streamPos
  <2>1. BtPos \in Int /\ hashBufPos \in Nat /\ hashNumAvail \in Nat /\ streamPos \in Nat
    BY DEF DataInv, DataTypes, Buffer, BtTypes, BtPos
  <2>2. QED
    BY <2>1
<1>6. at + av <= sp
  <2>1. CASE spent = 0
    <3>1. PICK len \in Nat, x \in Nat, s0 \in Nat :
            BtPos = s0 + hashBufPos /\ hashNumAvail = x - hashBufPos /\ s0 + x <= streamPos
      BY <1>1, <1>4, <2>1, WorksOnHeads
    <3>2. at = s0 + us /\ av = x - us /\ s0 + x <= sp
      BY <1>5, <3>1, Zenon
    <3>3. QED
      BY <3>2
  <2>2. CASE spent = 1
    <3>1. at <= sp /\ av = 0
      BY <1>4, <1>5, <2>2 DEF TakeData, AllTaken
    <3>2. QED
      BY <3>1
  <2>3. QED
    BY <2>1, <2>2
<1>7. ASSUME HeadsLeft > 0 PROVE BtPos = hashBuf[hashBi].pos[hashBufPos + 1]
  <2>1. spent = 0
    BY <1>1, <1>4, <1>7, NotSpent
  <2>1a. TakeData(B, S, 0)
    BY <1>4, <2>1
  <2>2. PICK len \in Nat, x \in Nat, s0 \in Nat :
           /\ B[0] = hashBuf[hashBi] /\ B[0] \in BlockType
           /\ s0 = S[0] /\ x = B[0].avail /\ len = Len(B[0].pos)
           /\ BtPos = s0 + hashBufPos /\ hashBufPos <= len /\ hashNumAvail = x - hashBufPos
           /\ len <= x /\ s0 + x <= streamPos /\ x >= NumHashBytes
           /\ \A k \in 1 .. len : B[0].pos[k] = s0 + k - 1
           /\ readResult = "ok" => s0 + x >= Min2(s0 + len + Lookahead, size)
           /\ HeadsLeft = len - hashBufPos
    BY <1>1, <1>4, <2>1a, WorksOnHeads, ZenonT(40)
  <2>3. us + 1 \in 1 .. len
    <3>1. len - us > 0
      BY <1>5, <1>7, <2>2
    <3>2. QED
      BY <3>1
  <2>4. B[0].pos[us + 1] = s0 + (us + 1) - 1
    BY <2>2, <2>3
  <2>5. s0 + (us + 1) - 1 = s0 + us
    OBVIOUS
  <2>6. QED
    BY <1>5, <2>2, <2>4, <2>5
<1>8. QED
  BY <1>2, <1>5, <1>6, <1>7 DEF HistoryKept, BtPos

\* The invariant of the data implies that positions are sound.
LEMMA DataInvSound == ASSUME Control, DataInv PROVE PositionsSound
<1>1. InStep
  BY LzInStep, BtDataKept DEF InStep
<1>2. streamPos <= Room
  BY DEF DataInv, Buffer
<1>3. DataKept
  BY <1>2, LzDataKept, BtDataKept DEF DataKept
<1>4. QED
  BY <1>1, <1>3 DEF PositionsSound

-----------------------------------------------------------------------------
(* The theorems about the data.                                              *)

\* The invariant of the data implies the type invariant.
LEMMA DataInvTypes == ASSUME Control, DataInv PROVE TypeOK
<1>1. ControlTypes /\ Sections /\ Buffer /\ RingTypes /\ RingBlockTypes /\ BtTypes /\ LzTypes
  BY DEF Control, DataInv, DataTypes
<1>2. \A f \in {needStart, csWasEntered, exit, stopWriting, canStart, wasStopped, created} :
       f \in [Sync -> BOOLEAN]
  BY <1>1 DEF ControlTypes
<1>3. ASSUME NEW s \in Sync
      PROVE  /\ free[s] \in 0 .. NumBlocks(s) /\ filled[s] \in 0 .. NumBlocks(s)
             /\ numProcessedBlocks[s] \in 0 .. NumBlocks(s) - 1
             /\ cs[s] \in {"none", "hash", User(s)}
  <2>1. CASE s = "hash"
    BY <1>1, <2>1, LzFindMtAssumption DEF ControlTypes, Sections, RingTypes, NumBlocks, User,
       Sync
  <2>2. CASE s = "bt"
    BY <1>1, <2>2, LzFindMtAssumption DEF ControlTypes, Sections, RingTypes, NumBlocks, User,
       Sync
  <2>3. QED
    BY <2>1, <2>2 DEF Sync
<1>4. mfBuffer \in 0 .. BlockSize /\ streamPos \in 0 .. size
  <2>1. BlockSize \in Nat
    BY LzFindMtAssumption DEF BlockSize, KeepBefore, KeepAfter
  <2>2. /\ base \in Nat /\ mfBuffer \in Nat /\ streamPos \in Nat /\ size \in Nat
        /\ base + mfBuffer <= streamPos /\ streamPos <= size /\ streamPos <= base + BlockSize
    BY <1>1 DEF Buffer, Pos, Room
  <2>3. QED
    BY <2>1, <2>2
<1>5. \A i \in DOMAIN hashBuf : Len(hashBuf[i].pos) <= HashBlockSize - 2
  BY <1>1 DEF RingBlockTypes
<1>6. /\ hashPc \in HashPc /\ btPc \in BtPc /\ lzPc \in LzPc
      /\ hashBlock \in 0 .. HashNumBlocks - 1 /\ hashBi \in 0 .. HashNumBlocks - 1
      /\ btBlock \in 0 .. BtNumBlocks - 1 /\ btBi \in 0 .. BtNumBlocks - 1
      /\ curPos \in 2 .. BtBlockSize
      /\ hashBufPos \in 0 .. HashBlockSize - 2 /\ hashNumAvail \in Nat /\ numProcessed \in Nat
      /\ base \in Nat
      /\ btBuffer \in Int /\ lzPointer \in Int
      /\ readResult \in {"ok", "read"} /\ failure_BT \in BOOLEAN /\ failure_LZ_BT \in BOOLEAN
      /\ status \in {"idle", "run", "ok", "error"}
  BY <1>1 DEF ControlTypes, RingTypes, BtTypes, LzTypes, Buffer
<1>7. QED
  BY <1>2, <1>3, <1>4, <1>5, <1>6 DEF TypeOK

\* It holds before the match finder is created (LzFindMt.c:797-802).
LEMMA DataInvInit == Init => DataInv
<1> SUFFICES ASSUME Init PROVE DataInv
  OBVIOUS
<1> USE LzFindMtAssumption
<1>1. Erased \in BlockType /\ Len(Erased.pos) = 0
  BY ErasedType
<1>2. Buffer
  <2>1. BlockSize \in Nat
    BY DEF BlockSize, KeepBefore, KeepAfter
  <2>2. /\ base = 0 /\ mfBuffer = 0 /\ streamPos = 0 /\ size = 0 /\ ~ streamEndWasReached
           /\ streamEndWasReached \in BOOLEAN
        /\ readResult = "ok" /\ hashPc # "enter"
    BY DEF Init
  <2>3. Pos = 0 /\ Room = BlockSize
    BY <2>1, <2>2 DEF Pos, Room
  <2>4. QED
    BY <2>1, <2>2, <2>3 DEF Buffer
<1>3. RingTypes
  BY DEF Init, RingTypes, Sync
<1>4. RingBlockTypes
  <2>1. \A i \in 0 .. HashNumBlocks - 1 : hashBuf[i] = Erased
    BY DEF Init
  <2>2. hashBuf \in [0 .. HashNumBlocks - 1 -> BlockType]
        /\ btBuf \in [0 .. BtNumBlocks - 1 -> BlockType]
    BY <1>1 DEF Init
  <2>3. HashBlockSize - 2 \in Nat
    OBVIOUS
  <2>4. \A i \in 0 .. HashNumBlocks - 1 : Len(hashBuf[i].pos) <= HashBlockSize - 2
    BY <1>1, <2>1, <2>3
  <2>5. QED
    BY <2>2, <2>4 DEF RingBlockTypes
<1>5. BtTypes
  <2>1. ~ Producing("bt") /\ btPc \notin {"wait", "lock"}
    BY DEF Init, Producing
  <2>2. d \in BlockType
    BY <1>1 DEF Init
  <2>3. /\ hashBufPos = 0 /\ hashNumAvail = 0 /\ numProcessed = 0 /\ curPos = 2 /\ btBuffer = 0
        /\ ~ failure_BT /\ failure_BT \in BOOLEAN
    BY DEF Init
  <2>4. BtBlockSize \in Nat /\ 2 <= BtBlockSize /\ HashBlockSize - 2 \in Nat
    OBVIOUS
  <2>5. QED
    BY <2>1, <2>2, <2>3, <2>4 DEF BtTypes
<1>6. LzTypes
  <2>1. /\ btBufPos = 0 /\ btNumAvailBytes = 0 /\ lzPos = 1 /\ lzPointer = 0
        /\ ~ failure_LZ_BT /\ failure_LZ_BT \in BOOLEAN /\ status = "idle" /\ lzPc = "new"
    BY DEF Init
  <2>2. QED
    BY <2>1 DEF LzTypes
<1>7. needStart["hash"] /\ needStart["bt"] /\ ~ LzNeedsBlocks /\ lzPc = "new"
  BY DEF Init, LzNeedsBlocks, Sync
<1>8. QED
  BY <1>2, <1>3, <1>4, <1>5, <1>6, <1>7 DEF DataInv, DataTypes, HashOn, BtOn, LzPlace, LzOn

\* It holds when nothing changes.
LEMMA DataInvStutter == ASSUME Control, DataInv, UNCHANGED vars PROVE DataInv'
<1> USE DEF vars, syncVars, hashVars, mfVars, takeVars, btLocals, lzVars, fileVars
<1>1. HashOn' = HashOn /\ BtOn' = BtOn /\ LzNeedsBlocks' = LzNeedsBlocks
  BY DEF HashOn, BtOn, LzNeedsBlocks
<1>2. Buffer'
  BY DEF DataInv, Buffer, Pos, Room, NeedMove
<1>3. RingTypes' /\ RingBlockTypes'
  BY DEF DataInv, DataTypes, RingTypes, RingBlockTypes
<1>4. BtTypes' /\ LzTypes'
  BY DEF DataInv, DataTypes, BtTypes, LzTypes, Producing
<1>5. HeadsAhead' = HeadsAhead /\ BlocksAhead' = BlocksAhead
  BY DEF HeadsAhead, BlocksAhead, InUse
<1>6. HashOn' => HashRing' /\ HistoryKept'
  BY <1>1, <1>5 DEF DataInv, HashRing, HistoryKept
<1>7. HashOn' /\ BtOn' => TreeRing'
  BY <1>1, <1>5 DEF DataInv, TreeRing
<1>8. needStart'["hash"] /\ LzNeedsBlocks' => Fresh'
  BY <1>1 DEF DataInv, Fresh, Producing
<1>9. needStart'["hash"] /\ BtOn' => FreshBt'
  BY <1>1 DEF DataInv, FreshBt
<1>10. needStart'["bt"] /\ lzPc' = "run" => FreshLz'
  BY DEF DataInv, FreshLz
<1>11. LzPlace'
  BY DEF DataInv, LzPlace, LzOn, At
<1>12. ASSUME HashOn' PROVE SomeData'
  <2>1. PICK B \in [Nat -> BlockType], S \in [Nat -> Nat], C \in [Nat -> BlockType], T \in [Nat -> Nat],
          e \in Nat, spent \in {0, 1} : AllData(B, S, C, T, e, spent)
    BY <1>1, <1>12 DEF DataInv, SomeData
  <2>2. HashData(B, S) /\ TakeData(B, S, spent)
        /\ (BtOn => TreeData(C, T, e) /\ LzData(C, T, e) /\ BtData(e, spent))
    BY <2>1 DEF AllData
  <2>3. /\ Fin' = Fin /\ Good' = Good /\ Pos' = Pos /\ BtPos' = BtPos /\ BtHas' = BtHas
           /\ Future' = Future
    BY DEF Fin, Good, Ended, Pos, BtPos, BtHas, BtHasHeads, Future, Producing
  <2>4. HashData(B, S)'
    BY <1>5, <2>2, <2>3, FrameHash
  <2>5. TakeData(B, S, spent)'
    BY <1>5, <2>2, <2>3, FrameTake
  <2>6. BtOn' => TreeData(C, T, e)' /\ LzData(C, T, e)' /\ BtData(e, spent)'
    BY <1>1, <1>5, <2>2, <2>3, FrameTree, FrameLz, FrameBt
  <2>7. QED
    BY <2>4, <2>5, <2>6, Collect
<1>13. QED
  BY <1>2, <1>3, <1>4, <1>6, <1>7, <1>8, <1>9, <1>10, <1>11, <1>12 DEF DataInv, DataTypes

\* Every step keeps it.
LEMMA DataInvKept == ASSUME Control, DataInv, Next PROVE DataInv'
<1>1. ControlTypes /\ Buffer /\ RingTypes /\ RingBlockTypes /\ BtTypes /\ LzTypes
  BY DEF Control, DataInv, DataTypes
<1>2. Buffer'
  BY <1>1, BufferKept
<1>3. RingTypes'
  BY <1>1, RingTypesKept
<1>4. RingBlockTypes'
  BY <1>1, RingBlockTypesKept
<1>5. LzTypes'
  BY <1>1, LzTypesKept
<1>6. BtTypes'
  BY <1>1, BtTypesKept, ProcessAvail
<1>7. HashOn' => HashRing' /\ HistoryKept' /\ SomeData'
  BY HashRingKept, HistoryStaysKept, SomeDataKept
<1>8. HashOn' /\ BtOn' => TreeRing'
  BY TreeRingKept
<1>9. needStart'["hash"] /\ LzNeedsBlocks' => Fresh'
  BY FreshKept
<1>10. needStart'["hash"] /\ BtOn' => FreshBt'
  BY FreshBtKept
<1>11. needStart'["bt"] /\ lzPc' = "run" => FreshLz'
  BY FreshLzKept
<1>12. LzPlace'
  BY LzPlaceKept
<1>13. QED
  BY <1>2, <1>3, <1>4, <1>5, <1>6, <1>7, <1>8, <1>9, <1>10, <1>11, <1>12 DEF DataInv, DataTypes

\* Control and DataInv hold in every reachable state: the control alone is inductive
\* (ControlInvariant), the data are inductive beside it.
THEOREM DataInvariant == Spec => [](Control /\ DataInv)
<1>1. Init => Control /\ DataInv
  BY InitControl, DataInvInit
<1>2. Control /\ DataInv /\ [Next]_vars => (Control /\ DataInv)'
  <2>1. Control /\ DataInv /\ Next => (Control /\ DataInv)'
    <3>1. Control /\ (HashStep \/ BtStep \/ LzCall \/ LzReturn) => Control'
      BY HashControl, BtControl, LzControl
    <3>2. Control /\ Terminating => Control'
      BY DEF Terminating, Control, ControlTypes, Sections, Existence, HashHandshake,
         BtHandshake, Rings,
         LzNeedsBlocks, BufferLocked, BlocksAccounted, BtWorks, LzWorks, Producing, InUse, vars,
         syncVars, hashVars, lzVars
    <3>3. Control /\ Next => Control'
      BY <3>1, <3>2 DEF Next
    <3>4. QED
      BY <3>3, DataInvKept
  <2>2. Control /\ DataInv /\ UNCHANGED vars => (Control /\ DataInv)'
    <3>1. Control /\ UNCHANGED vars => Control'
      BY DEF Control, ControlTypes, Sections, Existence, HashHandshake, BtHandshake, Rings,
         LzNeedsBlocks, BufferLocked, BlocksAccounted, BtWorks, LzWorks, Producing, InUse, vars,
         syncVars, hashVars, lzVars
    <3>2. QED
      BY <3>1, DataInvStutter
  <2>3. QED
    BY <2>1, <2>2
<1>3. QED
  BY <1>1, <1>2, PTL DEF Spec

\* The type invariant: indexes stay in their rings, semaphores in their counts, blocks in
\* their size, and no counter of bytes goes below zero (LzFindMt.c:122-181, 490-757).
THEOREM TypesAreKept == Spec => []TypeOK
<1>1. Control /\ DataInv => TypeOK
  BY DataInvTypes
<1>2. QED
  BY <1>1, DataInvariant, PTL

\* Positions, pointers and the buffer agree over its moves: LZ gets the entries of its
\* position, only the last positions of a stream go without a search, and the buffer
\* has the history and the bytes that BT and LZ may look at (LzFindMt.c:467-488,
\* 640-651, 870, 1282).
THEOREM PositionsAreSound == Spec => []PositionsSound
<1>1. Control /\ DataInv => PositionsSound
  BY DataInvSound
<1>2. QED
  BY <1>1, DataInvariant, PTL

-----------------------------------------------------------------------------
(* The multi-thread match finder is a match finder.                          *)

\* The steps that the encoder does not see.
LEMMA FeedStutter ==
  ASSUME UNCHANGED <<size, status, lzPos, btNumAvailBytes, readResult, failure_BT>>
  PROVE  UNCHANGED Feed!fvars
BY DEF Feed!fvars, At

\* A new file is opened (LzFindMt.c:881-940).
LEMMA FeedOpen == ASSUME Control, DataInv, InitFile PROVE Feed!Open
<1>0. ControlTypes /\ LzTypes
  BY DEF Control, DataInv, DataTypes
<1>1. lzPc = "idle" /\ status # "run"
  BY <1>0 DEF InitFile, LzTypes
<1>2. \A s \in Sync : needStart[s] /\ ~ csWasEntered[s]
  <2>1. needStart["bt"] /\ needStart["hash"]
    BY <1>1 DEF Control, HashHandshake, BtHandshake
  <2>2. ~ BtWorks /\ ~ LzWorks
    BY <1>1, <2>1 DEF BtWorks, LzWorks
  <2>3. ~ csWasEntered["bt"] /\ ~ csWasEntered["hash"]
    BY <1>0, <2>2 DEF Control, Sections, BufferLocked, Sync, User, ControlTypes
  <2>4. QED
    BY <2>1, <2>3 DEF Sync
<1>3. /\ readResult' = "ok" /\ ~ failure_BT' /\ btNumAvailBytes' = 0 /\ lzPos' = 1
      /\ size' \in Sizes /\ status' = "run"
  BY <1>2 DEF InitFile
<1>4. At' = 0 /\ At' + btNumAvailBytes' = 0 /\ size' \in Nat
  BY <1>3, LzFindMtAssumption DEF At
<1>5. (readResult' # "ok" \/ failure_BT') = FALSE
  BY <1>3
<1>6. QED
  BY <1>1, <1>3, <1>4, <1>5 DEF Feed!Open

\* A new block tells the encoder of no fewer bytes, and of none beyond the stream
\* (LzFindMt.c:960-977).
LEMMA FeedLearn == ASSUME Control, DataInv, LockBt PROVE Feed!Learn
<1>0. LzTypes /\ Buffer
  BY DEF DataInv, DataTypes
<1>1. lzPc = "lock" /\ lzPc' = "got" /\ status = "run"
  BY <1>0 DEF LockBt, LzTypes
<1>2. UNCHANGED <<size, lzPos, readResult, failure_BT, status>>
  BY DEF LockBt, fileVars, mfVars
<1>3. BtOn /\ HashOn
  <2>1. BtOn
    BY <1>1 DEF Control, BtHandshake, BtOn
  <2>2. needStart["hash"] => FALSE
    BY <1>1, <2>1 DEF DataInv, FreshBt
  <2>3. QED
    BY <2>1, <2>2, BtOnPlaces
<1>4. PICK B \in [Nat -> BlockType], S \in [Nat -> Nat], C \in [Nat -> BlockType], T \in [Nat -> Nat],
          e \in Nat, spent \in {0, 1} : AllData(B, S, C, T, e, spent)
  BY <1>3 DEF DataInv, SomeData
<1>5. TreeData(C, T, e) /\ LzData(C, T, e)
  BY <1>3, <1>4 DEF AllData
<1>6. BlocksAhead \in Nat /\ BlocksAhead >= 1
  BY <1>1, <1>3, BtOnPlaces
<1>7. C[0] = btBuf[btBi] /\ C[0] \in BlockType
  <2>1. 0 \in 0 .. BlocksAhead - 1 /\ btBi \in 0 .. BtNumBlocks - 1
    BY <1>6 DEF DataInv, DataTypes, RingTypes
  <2>2. Ring(btBi + 0, BtNumBlocks) = btBi
    BY <2>1, LzFindMtAssumption DEF Ring
  <2>3. QED
    BY <1>5, <2>1, <2>2 DEF TreeData, TreeRingHolds
<1>8. At = T[0] /\ At + btNumAvailBytes <= T[0] + C[0].avail
  <2>1. 0 \in 0 .. BlocksAhead - 1
    BY <1>6
  <2>2. QED
    BY <1>1, <1>5, <2>1 DEF LzData
<1>9. btNumAvailBytes' = C[0].avail
  BY <1>7 DEF LockBt
<1>10. T[0] + C[0].avail <= e + Future /\ e + Future <= streamPos
  <2>1. 0 \in 0 .. BlocksAhead - 1
    BY <1>6
  <2>2. QED
    BY <1>5, <2>1 DEF TreeData, ReachesTo
<1>11. PICK a \in Int, o \in Nat, n \in Nat, sz \in Nat, sp \in Nat, fu \in Int :
         a = At /\ o = btNumAvailBytes /\ n = C[0].avail /\ sz = size /\ sp = streamPos
         /\ fu = Future
  <2>1. At \in Int /\ btNumAvailBytes \in Nat /\ size \in Nat /\ streamPos \in Nat
    BY <1>0 DEF LzTypes, At, Buffer
  <2>2. C[0].avail \in Nat
    BY <1>7, BlockFields
  <2>3. Future \in Int
    <3>1. hashNumAvail \in Nat /\ d.avail \in Nat
      BY BlockFields DEF DataInv, DataTypes, BtTypes
    <3>2. QED
      BY <3>1 DEF Future
  <2>4. QED
    BY <2>1, <2>2, <2>3
<1>12. a + n \in (a + o) .. sz
  <2>1. a + o <= a + n
    BY <1>8, <1>11
  <2>2. a + n <= e + fu /\ e + fu <= sp
    BY <1>8, <1>10, <1>11, Zenon
  <2>3. sp <= sz
    BY <1>0, <1>11 DEF Buffer
  <2>4. QED
    BY <2>1, <2>2, <2>3
<1>13. (At + btNumAvailBytes)' = a + n /\ At' = At
  BY <1>2, <1>9, <1>11 DEF At
<1>14. (At + btNumAvailBytes)' \in (At + btNumAvailBytes) .. size
  BY <1>11, <1>12, <1>13, Zenon
<1>15. QED
  BY <1>1, <1>2, <1>13, <1>14 DEF Feed!Learn

\* The encoder advances only through bytes it was told of (LzFindMt.c:1282-1346).
LEMMA FeedAdvance == ASSUME Control, DataInv, Advance PROVE Feed!Advance
<1>0. LzTypes
  BY DEF DataInv, DataTypes
<1>1. lzPc \in {"run", "got"} /\ status = "run" /\ btNumAvailBytes > 0
  BY <1>0 DEF Advance, LzTypes
<1>2. /\ UNCHANGED <<size, readResult, failure_BT, status>>
      /\ lzPos' = lzPos + 1 /\ btNumAvailBytes' = btNumAvailBytes - 1
  BY DEF Advance, fileVars, mfVars
<1>3. lzPos \in Nat /\ btNumAvailBytes \in Nat
  BY <1>0 DEF LzTypes
<1>4. At' = At + 1 /\ At' + btNumAvailBytes' = At + btNumAvailBytes /\ At < At + btNumAvailBytes
  BY <1>1, <1>2, <1>3 DEF At
<1>5. QED
  BY <1>1, <1>2, <1>4 DEF Feed!Advance

\* The encoder finishes with success only at the end of the stream
\* (LzmaEnc.c:2172-2198).
LEMMA FeedFinish == ASSUME Control, DataInv, EndOfStream PROVE Feed!Finish
<1>0. LzTypes /\ Buffer
  BY DEF DataInv, DataTypes
<1>1. lzPc = "got" /\ status = "run" /\ btNumAvailBytes = 0
  BY <1>0 DEF EndOfStream, LzTypes
<1>2. /\ UNCHANGED <<size, readResult, failure_BT, lzPos, btNumAvailBytes>>
      /\ status' = IF failure_LZ_BT \/ readResult # "ok" THEN "error" ELSE "ok"
  BY DEF EndOfStream, lzVars, mfVars
<1>3. LzWorks
  BY <1>1 DEF LzWorks, Control, BtHandshake
<1>4. PICK c \in BlockType, t0 \in Nat, t1 \in Nat :
           /\ c = btBuf[btBi] /\ t1 = t0 + Len(c.pos)
           /\ At >= t0 /\ At + btNumAvailBytes = t0 + c.avail /\ (failure_LZ_BT <=> ~ c.ok)
           /\ ~ failure_LZ_BT => At = t0 + btBufPos /\ btBufPos <= Len(c.pos)
           /\ c.ok /\ readResult = "ok" => t0 + c.avail >= Min2(t1 + Lookahead, size)
           /\ t0 + c.avail <= streamPos
           /\ ~ c.ok => failure_BT
           /\ failure_BT => t1 <= BtPos /\ BtPos < size
  BY <1>3, LzBlock
<1>5. PICK a \in Int, x \in Nat, len \in Nat, us \in Nat, sz \in Nat, sp \in Nat, bt \in Int :
        /\ a = At /\ x = c.avail /\ len = Len(c.pos) /\ us = btBufPos /\ sz = size /\ sp = streamPos
        /\ bt = BtPos
  <2>1. At \in Int /\ c.avail \in Nat /\ Len(c.pos) \in Nat /\ btBufPos \in Nat /\ size \in Nat
        /\ streamPos \in Nat
    BY <1>0, BlockFields DEF LzTypes, Buffer, At
  <2>2. BtPos \in Int
    BY DEF DataInv, DataTypes, Buffer, BtTypes, BtPos
  <2>3. QED
    BY <2>1, <2>2
<1>6. a = t0 + x
  BY <1>1, <1>4, <1>5
<1>7. ASSUME ~ failure_LZ_BT, readResult = "ok" PROVE a = sz /\ ~ failure_BT
  <2>1. a = t0 + us /\ us <= len /\ t1 = t0 + len
    BY <1>4, <1>5, <1>7
  <2>2. t0 + x >= Min2(t1 + Lookahead, sz)
    BY <1>4, <1>5, <1>7, Zenon
  <2>3. PICK w \in Nat : w = Lookahead /\ w > 0
    BY LzFindMtAssumption DEF Lookahead
  <2>4. a >= Min2(t1 + w, sz) /\ t1 >= a
    BY <1>6, <2>1, <2>2, <2>3
  <2>5. a >= sz
    BY <2>3, <2>4 DEF Min2
  <2>6. t0 + x <= sp /\ sp <= sz
    <3>1. t0 + x <= sp
      BY <1>4, <1>5, Zenon
    <3>2. sp <= sz
      BY <1>0, <1>5 DEF Buffer
    <3>3. QED
      BY <3>1, <3>2
  <2>7. a = sz
    BY <1>6, <2>5, <2>6
  <2>8. ASSUME failure_BT PROVE FALSE
    <3>1. t1 <= bt /\ bt < sz
      BY <1>4, <1>5, <2>8, Zenon
    <3>2. QED
      BY <2>4, <2>7, <3>1
  <2>9. QED
    BY <2>7, <2>8
<1>8. failure_LZ_BT => failure_BT
  BY <1>4
<1>9. status' = IF readResult # "ok" \/ failure_BT THEN "error" ELSE "ok"
  BY <1>2, <1>7, <1>8
<1>10. ~ (readResult # "ok" \/ failure_BT) => At = size
  BY <1>5, <1>7, <1>8
<1>11. At = At + btNumAvailBytes
  BY <1>1, <1>5
<1>12. At' = At /\ (At + btNumAvailBytes)' = At + btNumAvailBytes
  BY <1>2 DEF At
<1>13. QED
  BY <1>1, <1>2, <1>9, <1>10, <1>11, <1>12 DEF Feed!Finish

\* The encoder may stop in the middle (LzFindMt.c:944-950).
LEMMA FeedCancel == ASSUME ReleaseStream PROVE Feed!Cancel \/ UNCHANGED Feed!fvars
<1>1. /\ UNCHANGED <<size, readResult, failure_BT, lzPos, btNumAvailBytes>>
      /\ status' = IF status = "run" THEN "idle" ELSE status
  BY DEF ReleaseStream, lzVars, mfVars
<1>2. CASE status = "run"
  BY <1>1, <1>2 DEF Feed!Cancel, At
<1>3. CASE status # "run"
  BY <1>1, <1>3, FeedStutter
<1>4. QED
  BY <1>2, <1>3

\* A read that fails is a failure that the encoder will see (LzFindMt.c:490-547).
LEMMA FeedFill == ASSUME Control, DataInv, FillHash PROVE Feed!Fail \/ UNCHANGED Feed!fvars
<1>1. UNCHANGED <<size, status, failure_BT, lzPos, btNumAvailBytes>>
  BY DEF FillHash, lzVars, fileVars
<1>2. CASE readResult' = readResult
  BY <1>1, <1>2, FeedStutter
<1>3. CASE readResult' # readResult
  <2>1. readResult' # "ok"
    <3>1. ~ exit["hash"] /\ ~ stopWriting["hash"]
      BY <1>3 DEF FillHash, mfVars
    <3>2. PICK a \in Nat, n \in Nat : FillsHash(a, n)
      BY <3>1, Filling DEF DataInv
    <3>3. readResult \in {"ok", "read"} /\ readResult' \in {"ok", "read"}
      BY <3>2 DEF FillsHash, DataInv, Buffer
    <3>4. readResult # "ok" => readResult' = readResult
      BY <3>2 DEF FillsHash, Ended
    <3>5. QED
      BY <1>3, <3>3, <3>4
  <2>2. (readResult' # "ok" \/ failure_BT') = TRUE
    BY <2>1
  <2>3. QED
    BY <1>1, <2>2 DEF Feed!Fail, At
<1>4. QED
  BY <1>2, <1>3

\* So is one of BT (LzFindMt.c:652-734).
LEMMA FeedProcess == ASSUME Process PROVE Feed!Fail \/ UNCHANGED Feed!fvars
<1>1. UNCHANGED <<size, status, readResult, lzPos, btNumAvailBytes>>
  BY DEF Process, lzVars, fileVars, mfVars
<1>2. CASE failure_BT' = failure_BT
  BY <1>1, <1>2, FeedStutter
<1>3. CASE failure_BT' # failure_BT
  <2>1. failure_BT'
    BY <1>3 DEF Process
  <2>2. (readResult' # "ok" \/ failure_BT') = TRUE
    BY <2>1
  <2>3. QED
    BY <1>1, <2>2 DEF Feed!Fail, At
<1>4. QED
  BY <1>2, <1>3

\* Every step is one of a match finder, or one that the encoder does not see.
LEMMA FeedStep ==
  ASSUME Control, DataInv, [Next]_vars PROVE [Feed!FNext]_Feed!fvars
<1> USE DEF hashVars, mfVars, takeVars, btLocals, lzVars, fileVars, syncVars
<1>1. CASE UNCHANGED vars
  BY <1>1, FeedStutter DEF vars
<1>2. CASE HashStart \/ EnterBt \/ Move
  BY <1>2, FeedStutter DEF HashStart, EnterBt, Move
<1>3. CASE FillHash
  BY <1>3, FeedFill DEF Feed!FNext
<1>4. CASE Process
  BY <1>4, FeedProcess DEF Feed!FNext
<1>5. CASE BtStart \/ BeginBlock \/ LockBlock \/ BtStop \/ HashStopped \/ AskHash \/ TakeHash \/ LockHash \/ EndBlock
  BY <1>5, FeedStutter DEF BtStart, BeginBlock, LockBlock, BtStop, HashStopped, AskHash,
     TakeHash, LockHash, EndBlock
<1>6. CASE InitFile
  BY <1>6, FeedOpen DEF Feed!FNext
<1>7. CASE LockBt
  BY <1>7, FeedLearn DEF Feed!FNext
<1>8. CASE Advance
  BY <1>8, FeedAdvance DEF Feed!FNext
<1>9. CASE EndOfStream
  BY <1>9, FeedFinish DEF Feed!FNext
<1>10. CASE ReleaseStream
  BY <1>10, FeedCancel DEF Feed!FNext
<1>11. CASE Create \/ AskBlock \/ Destruct \/ TakeBlock \/ Stopped \/ JoinBt \/ JoinHash
  BY <1>11, FeedStutter DEF Create, AskBlock, Destruct, TakeBlock, Stopped, JoinBt, JoinHash
<1>12. CASE Terminating
  BY <1>12, FeedStutter DEF Terminating, vars
<1>13. QED
  BY <1>1, <1>2, <1>3, <1>4, <1>5, <1>6, <1>7, <1>8, <1>9, <1>10, <1>11, <1>12
     DEF Next, HashStep, BtStep, LzCall, LzReturn

\* A match finder before its first file.
LEMMA FeedInit == ASSUME Init PROVE Feed!FInit
<1>1. lzPos = 1 /\ btNumAvailBytes = 0 /\ readResult = "ok" /\ ~ failure_BT /\ status = "idle"
  BY DEF Init
<1>2. (readResult # "ok" \/ failure_BT) = FALSE
  BY <1>1
<1>3. QED
  BY <1>1, <1>2 DEF Feed!FInit, At

\* The multi-thread match finder is a match finder: it goes through all of the stream,
\* says how far it reaches, and ends only at its end or with an error that the encoder
\* sees (LzFind.h, IMatchFinder2).
THEOREM ImplementsAMatchFinder == Spec => ImplementsFeed
<1>1. Init => Feed!FInit
  BY FeedInit
<1>2. Control /\ DataInv /\ [Next]_vars => [Feed!FNext]_Feed!fvars
  BY FeedStep
<1>3. QED
  BY <1>1, <1>2, DataInvariant, PTL DEF Spec, ImplementsFeed, Feed!FSpec
=============================================================================
