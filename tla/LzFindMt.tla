------------------------------ MODULE LzFindMt ------------------------------
(***************************************************************************)
(* C/LzFindMt.c, the multi-thread match finder, with the buffer of         *)
(* C/LzFind.c under it and the calls of C/LzmaEnc.c on it.                 *)
(*                                                                         *)
(* The hash thread reads the stream and fills blocks of hash heads; the    *)
(* tree thread (BT) makes blocks of matches of them; the encoder (LZ)      *)
(* takes those.  Two CMtSync hand the blocks on: "hash" from the hash      *)
(* thread to BT, "bt" from BT to LZ.  Each has a ring of blocks counted by *)
(* two semaphores, a critical section that its user holds while it looks   *)
(* at the data, and flags and events to start and to stop the producer.    *)
(* The hash thread moves the data in the buffer, and with them the         *)
(* pointers of BT and LZ, when it gets near the end of the buffer.         *)
(*                                                                         *)
(* Heads and matches are left out: a block holds the positions they are    *)
(* for.  What was in a block that was given back is erased.                *)
(***************************************************************************)
EXTENDS Integers, Sequences, FiniteSets

CONSTANTS
  HashBlockSize, HashNumBlocks, BtBlockSize, BtNumBlocks,  \* kMt...
  NumHashBytes, MatchMaxLen,
  HistorySize,     \* historySize and keepAddBufferBefore of the encoder
  KeepAddAfter,    \* keepAddBufferAfter of the encoder
  Reserve,         \* by which the buffer is larger than what it must keep
  MoveAlign,       \* kBlockMoveAlign
  Sizes,           \* lengths of streams
  Faults           \* what can fail: a subset of FaultKinds

FaultKinds == {"read", "tree", "thread"}

ASSUME LzFindMtAssumption ==
  /\ HashBlockSize \in Nat /\ HashBlockSize > 2
  /\ HashNumBlocks \in Nat \ {0} /\ BtNumBlocks \in Nat \ {0}
  /\ MatchMaxLen \in Nat /\ MatchMaxLen >= NumHashBytes /\ NumHashBytes \in 2 .. 5
  /\ BtBlockSize \in Nat /\ BtBlockSize > 4 * MatchMaxLen
  /\ HistorySize \in Nat /\ KeepAddAfter \in Nat
  /\ MoveAlign \in Nat \ {0} /\ Reserve \in Nat /\ Reserve >= MoveAlign
  /\ Sizes \subseteq Nat /\ Faults \subseteq FaultKinds

Sync == {"hash", "bt"}
User(s) == IF s = "bt" THEN "lz" ELSE "bt"
NumBlocks(s) == IF s = "bt" THEN BtNumBlocks ELSE HashNumBlocks

VARIABLES
  \* CMtSync
  needStart, csWasEntered, exit, stopWriting, canStart, wasStopped,
  free, filled,        \* the semaphores
  numProcessedBlocks,  \* modulo the number of blocks
  created,             \* Thread_WasCreated
  cs,                  \* who holds the critical section
  \* the blocks
  hashBuf, btBuf,
  \* the hash thread, with CMatchFinder
  hashPc, hashBlock,
  base,                \* the position in the stream that bufBase holds
  mfBuffer,            \* buffer - bufBase
  streamPos, streamEndWasReached, readResult,
  \* BT
  btPc, btBlock,
  hashBi, hashBufPos,  \* the block of heads, how many of them are done
  hashNumAvail, failure_BT,
  btBuffer,            \* its buffer - bufBase
  d, curPos, numProcessed,  \* the block it fills, locals of BtGetMatches
  \* LZ
  lzPc, btBi, btBufPos, btNumAvailBytes, failure_LZ_BT, lzPos,
  lzPointer,           \* pointerToCurPos - bufBase
  size, status

syncVars == <<needStart, csWasEntered, exit, stopWriting, canStart, wasStopped, free, filled,
              numProcessedBlocks, created, cs>>
hashVars == <<hashPc, hashBlock>>
mfVars   == <<base, mfBuffer, streamPos, streamEndWasReached, readResult>>
takeVars == <<hashBi, hashBufPos, hashNumAvail>>
btLocals == <<btBlock, d, curPos, numProcessed>>
lzVars   == <<btBi, btBufPos, btNumAvailBytes, failure_LZ_BT, lzPos>>
fileVars == <<size, status>>
vars == <<syncVars, hashBuf, btBuf, hashVars, mfVars, btPc, takeVars, failure_BT, btBuffer,
          btLocals, lzPc, lzVars, lzPointer, fileVars>>

\* ok: the header does not say that the block is bad.
Erased == [pos |-> <<>>, avail |-> 0, ok |-> TRUE]
Block(pos, avail) == [pos |-> pos, avail |-> avail, ok |-> TRUE]

\* An item that is not about a position: no matches.
NoPos == -1

HashPc == {"none", "start", "top", "enter", "ended"}
BtPc   == {"none", "start", "top", "lockBlock", "fill", "wait", "lock", "end",
           "stopHash", "ended"}
LzPc   == {"new", "idle", "run", "wait", "lock", "got", "finish", "stop", "joinBt",
           "joinHash", "done"}

\* MatchFinder_Create, called with what MatchFinderMt_Create adds.
KeepBeforeLz == HistorySize + 1                                \* mutant
KeepBefore ==
  HistorySize + HashBlockSize * HashNumBlocks + BtBlockSize * BtNumBlocks + 1
KeepAfter == KeepAddAfter + HashBlockSize + MatchMaxLen
BlockSize == KeepBefore + KeepAfter + Reserve

Init ==
  /\ needStart = [s \in Sync |-> TRUE] /\ csWasEntered = [s \in Sync |-> FALSE]
  /\ exit = [s \in Sync |-> TRUE] /\ stopWriting = [s \in Sync |-> FALSE]
  /\ canStart = [s \in Sync |-> FALSE] /\ wasStopped = [s \in Sync |-> FALSE]
  /\ free = [s \in Sync |-> 0] /\ filled = [s \in Sync |-> 0]
  /\ numProcessedBlocks = [s \in Sync |-> 0] /\ created = [s \in Sync |-> FALSE]
  /\ cs = [s \in Sync |-> "none"]
  /\ hashBuf = [i \in 0 .. HashNumBlocks - 1 |-> Erased]
  /\ btBuf = [i \in 0 .. BtNumBlocks - 1 |-> Erased]
  /\ hashPc = "none" /\ hashBlock = 0
  /\ base = 0 /\ mfBuffer = 0 /\ streamPos = 0 /\ streamEndWasReached = FALSE
  /\ readResult = "ok"
  /\ btPc = "none" /\ btBlock = 0 /\ hashBi = 0 /\ hashBufPos = 0 /\ hashNumAvail = 0
  /\ failure_BT = FALSE /\ btBuffer = 0 /\ d = Erased /\ curPos = 2 /\ numProcessed = 0
  /\ lzPc = "new" /\ btBi = 0 /\ btBufPos = 0 /\ btNumAvailBytes = 0
  /\ failure_LZ_BT = FALSE /\ lzPos = 1 /\ lzPointer = 0
  /\ size = 0 /\ status = "idle"

Min2(a, b) == IF a <= b THEN a ELSE b

-----------------------------------------------------------------------------
(* CMtSync: what its user does. *)

ReleasedTwice(sem, s) == [sem EXCEPT ![s] = Min2(@ + 2, NumBlocks(s))]   \* mutant

\* A semaphore is not released over its maximum.
Released(sem, s) == [sem EXCEPT ![s] = Min2(@ + 1, NumBlocks(s))]

NotUnlocked(s) == cs                                           \* mutant
Unlocked(s) == [cs EXCEPT ![s] = "none"]

\* The first half of MtSync_GetNextBlock: the producer is started, or the
\* block in use is given back.  The index of the next block is what
\* numProcessedBlocks was.
AskNext(s) ==
  IF needStart[s]
    THEN /\ numProcessedBlocks' = [numProcessedBlocks EXCEPT ![s] = 1 % NumBlocks(s)]
         /\ needStart' = [needStart EXCEPT ![s] = FALSE]
         /\ stopWriting' = [stopWriting EXCEPT ![s] = FALSE]
         /\ exit' = [exit EXCEPT ![s] = FALSE]
         /\ wasStopped' = [wasStopped EXCEPT ![s] = FALSE]
         /\ canStart' = [canStart EXCEPT ![s] = TRUE]
         /\ UNCHANGED <<csWasEntered, cs, free>>
    ELSE /\ cs' = Unlocked(s) /\ csWasEntered' = [csWasEntered EXCEPT ![s] = FALSE]
         /\ numProcessedBlocks' = [numProcessedBlocks EXCEPT ![s] = (@ + 1) % NumBlocks(s)]
         /\ free' = Released(free, s)
         /\ UNCHANGED <<needStart, stopWriting, exit, wasStopped, canStart>>

NextIndex(s) == IF needStart[s] THEN 0 ELSE numProcessedBlocks[s]

Lock(s) ==
  /\ cs[s] = "none"
  /\ cs' = [cs EXCEPT ![s] = User(s)] /\ csWasEntered' = [csWasEntered EXCEPT ![s] = TRUE]

\* MtSync_StopWriting up to its wait, for a producer that was started.
AskStop(s) ==
  /\ cs' = IF csWasEntered[s] THEN Unlocked(s) ELSE cs
  /\ csWasEntered' = [csWasEntered EXCEPT ![s] = FALSE]
  /\ stopWriting' = [stopWriting EXCEPT ![s] = TRUE]
  /\ free' = Released(free, s)

\* ... and after it.
SeeStopped(s) ==
  /\ wasStopped[s] /\ wasStopped' = [wasStopped EXCEPT ![s] = FALSE]
  /\ needStart' = [needStart EXCEPT ![s] = TRUE]

-----------------------------------------------------------------------------
(* The hash thread. *)

MayFail(k) == IF k \in Faults THEN {FALSE, TRUE} ELSE {FALSE}

HashStart ==
  /\ hashPc = "start" /\ canStart["hash"]
  /\ canStart' = [canStart EXCEPT !["hash"] = FALSE]
  /\ hashPc' = IF exit["hash"] THEN "ended" ELSE "top"
  /\ hashBlock' = 0
  /\ UNCHANGED <<needStart, csWasEntered, exit, stopWriting, wasStopped, free, filled,
                 numProcessedBlocks, created, cs, hashBuf, btBuf, mfVars, btPc, takeVars,
                 failure_BT, btBuffer, btLocals, lzPc, lzVars, lzPointer, fileVars>>

\* MatchFinder_NeedMove
NeedMove ==
  /\ ~ streamEndWasReached /\ readResult = "ok"
  /\ BlockSize - mfBuffer <= KeepAfter

\* Both critical sections are entered, that of "bt" first ...
EnterBt ==
  /\ hashPc = "top" /\ NeedMove
  /\ cs["bt"] = "none" /\ cs' = [cs EXCEPT !["bt"] = "hash"]
  /\ hashPc' = "enter"
  /\ UNCHANGED <<needStart, csWasEntered, exit, stopWriting, canStart, wasStopped, free, filled,
                 numProcessedBlocks, created, hashBuf, btBuf, hashBlock, mfVars, btPc, takeVars,
                 failure_BT, btBuffer, btLocals, lzPc, lzVars, lzPointer, fileVars>>

\* MatchFinder_MoveBlock keeps the alignment.
MoveOffset ==
  LET offset == mfBuffer - KeepBefore IN offset - (offset % MoveAlign)

MovedNot(pointer) == pointer                                   \* mutant
Moved(pointer) == pointer - MoveOffset

\* ... and left when the data and all pointers into them are moved.
Move ==
  /\ hashPc = "enter" /\ cs["hash"] = "none"
  /\ base' = base + MoveOffset /\ mfBuffer' = mfBuffer - MoveOffset
  /\ lzPointer' = Moved(lzPointer) /\ btBuffer' = Moved(btBuffer)
  /\ cs' = [cs EXCEPT !["bt"] = "none"]
  /\ hashPc' = "top"
  /\ UNCHANGED <<needStart, csWasEntered, exit, stopWriting, canStart, wasStopped, free, filled,
                 numProcessedBlocks, created, hashBuf, btBuf, hashBlock, streamPos,
                 streamEndWasReached, readResult, btPc, takeVars, failure_BT, btLocals, lzPc,
                 lzVars, fileVars>>

Pos == base + mfBuffer
Room == base + BlockSize

\* What MatchFinder_ReadIfRequired leaves: <<streamPos, streamEndWasReached,
\* result>>.  The stream gives as much as there is room for, or as little as
\* ends the loop; an error comes anywhere in between.
Reads ==
  IF KeepAfter < streamPos - Pos \/ streamEndWasReached \/ readResult # "ok"
    THEN {<<streamPos, streamEndWasReached, readResult>>}
    ELSE (IF size > Pos + KeepAfter
            THEN {<<n, FALSE, "ok">> : n \in {Pos + KeepAfter + 1, Min2(Room, size)}}
            ELSE {<<size, TRUE, "ok">>})
         \cup {<<n, FALSE, "read">> :
                n \in IF "read" \in Faults THEN {streamPos, Min2(Pos + KeepAfter, size)} ELSE {}}

\* The heads of a block: a head for every position that has NumHashBytes
\* bytes, as far as there is room.  At the end of the stream the header alone.
Positions(from, n) == [i \in 1 .. n |-> from + i - 1]
NumHeads(avail) == Min2(avail - NumHashBytes + 1, HashBlockSize - 2)

\* A block is free: it is filled, unless BT wants the thread to stop.
FillHash ==
  /\ hashPc = "top" /\ ~ NeedMove
  /\ free["hash"] > 0
  /\ free' = [free EXCEPT !["hash"] = @ - 1]
  /\ IF exit["hash"] \/ stopWriting["hash"]
       THEN /\ hashPc' = IF exit["hash"] THEN "ended" ELSE "start"
            /\ wasStopped' = [wasStopped EXCEPT !["hash"] = @ \/ ~ exit["hash"]]
            /\ UNCHANGED <<filled, hashBuf, hashBlock, mfVars>>
       ELSE /\ \E r \in Reads :
                 LET avail == r[1] - Pos
                     n     == IF avail >= NumHashBytes THEN NumHeads(avail) ELSE 0
                 IN /\ streamPos' = r[1] /\ streamEndWasReached' = r[2] /\ readResult' = r[3]
                    /\ hashBuf' = [hashBuf EXCEPT ![hashBlock] = Block(Positions(Pos, n), avail)]
                    /\ mfBuffer' = mfBuffer + (IF avail >= NumHashBytes THEN n ELSE avail)
            /\ hashBlock' = (hashBlock + 1) % HashNumBlocks
            /\ filled' = Released(filled, "hash")
            /\ UNCHANGED <<wasStopped, hashPc, base>>
  /\ UNCHANGED <<needStart, csWasEntered, exit, stopWriting, canStart, numProcessedBlocks, created,
                 cs, btBuf, btPc, takeVars, failure_BT, btBuffer, btLocals, lzPc, lzVars,
                 lzPointer, fileVars>>

HashStep == HashStart \/ EnterBt \/ Move \/ FillHash

-----------------------------------------------------------------------------
(* The tree thread. *)

BtStart ==
  /\ btPc = "start" /\ canStart["bt"]
  /\ canStart' = [canStart EXCEPT !["bt"] = FALSE]
  /\ btPc' = IF exit["bt"] THEN "ended" ELSE "top"
  /\ btBlock' = 0
  /\ UNCHANGED <<needStart, csWasEntered, exit, stopWriting, wasStopped, free, filled,
                 numProcessedBlocks, created, cs, hashBuf, btBuf, hashVars, mfVars, takeVars,
                 failure_BT, btBuffer, d, curPos, numProcessed, lzPc, lzVars, lzPointer, fileVars>>

\* A block is free: BtFillBlock begins to fill it.
BeginBlock ==
  /\ btPc = "top" /\ free["bt"] > 0 /\ ~ stopWriting["bt"]
  /\ free' = [free EXCEPT !["bt"] = @ - 1]
  /\ btPc' = IF needStart["hash"] THEN "fill" ELSE "lockBlock"
  /\ d' = Block(<<>>, hashNumAvail) /\ curPos' = 2 /\ numProcessed' = 0
  /\ UNCHANGED <<needStart, csWasEntered, exit, stopWriting, canStart, wasStopped, filled,
                 numProcessedBlocks, created, cs, hashBuf, btBuf, hashVars, mfVars, takeVars,
                 failure_BT, btBuffer, btBlock, lzPc, lzVars, lzPointer, fileVars>>

LockBlock ==
  /\ btPc = "lockBlock" /\ Lock("hash") /\ btPc' = "fill"
  /\ UNCHANGED <<needStart, exit, stopWriting, canStart, wasStopped, free, filled,
                 numProcessedBlocks, created, hashBuf, btBuf, hashVars, mfVars, takeVars,
                 failure_BT, btBuffer, btLocals, lzPc, lzVars, lzPointer, fileVars>>

HashIdleAlways == TRUE                                         \* mutant
HashIdle == needStart["hash"]

\* LZ wants the thread to stop: it stops the hash thread first.
BtStop ==
  /\ btPc = "top" /\ free["bt"] > 0 /\ stopWriting["bt"]
  /\ IF HashIdle
       THEN /\ free' = [free EXCEPT !["bt"] = @ - 1]
            /\ btPc' = "start" /\ wasStopped' = [wasStopped EXCEPT !["bt"] = TRUE]
            /\ UNCHANGED <<stopWriting, csWasEntered, cs>>
       ELSE /\ cs' = IF csWasEntered["hash"] THEN Unlocked("hash") ELSE cs
            /\ csWasEntered' = [csWasEntered EXCEPT !["hash"] = FALSE]
            /\ stopWriting' = [stopWriting EXCEPT !["hash"] = TRUE]
            /\ free' = [Released(free, "hash") EXCEPT !["bt"] = @ - 1]
            /\ btPc' = "stopHash" /\ UNCHANGED wasStopped
  /\ UNCHANGED <<needStart, exit, canStart, filled, numProcessedBlocks, created, hashBuf, btBuf,
                 hashVars, mfVars, takeVars, failure_BT, btBuffer, btLocals, lzPc, lzVars,
                 lzPointer, fileVars>>

HashStopped ==
  /\ btPc = "stopHash" /\ wasStopped["hash"]
  /\ needStart' = [needStart EXCEPT !["hash"] = TRUE]
  /\ wasStopped' = [wasStopped EXCEPT !["hash"] = FALSE, !["bt"] = TRUE]
  /\ btPc' = "start"
  /\ UNCHANGED <<csWasEntered, exit, stopWriting, canStart, free, filled, numProcessedBlocks,
                 created, cs, hashBuf, btBuf, hashVars, mfVars, takeVars, failure_BT, btBuffer,
                 btLocals, lzPc, lzVars, lzPointer, fileVars>>

LimitOfBlock == BtBlockSize                                    \* mutant
Limit == BtBlockSize - 2 * MatchMaxLen
HeadsLeft == Len(hashBuf[hashBi].pos) - hashBufPos

\* BtGetMatches needs the next block of heads.
AskHash ==
  /\ btPc = "fill" /\ ~ failure_BT /\ curPos < Limit /\ HeadsLeft = 0
  /\ AskNext("hash") /\ btPc' = "wait"
  /\ hashBi' = NextIndex("hash") /\ hashBufPos' = 0
  /\ hashBuf' = [hashBuf EXCEPT ![hashBi] = IF needStart["hash"] THEN @ ELSE Erased]
  /\ UNCHANGED <<filled, created, btBuf, hashVars, mfVars, hashNumAvail, failure_BT, btBuffer,
                 btLocals, lzPc, lzVars, lzPointer, fileVars>>

TakeHash ==
  /\ btPc = "wait" /\ filled["hash"] > 0
  /\ filled' = [filled EXCEPT !["hash"] = @ - 1] /\ btPc' = "lock"
  /\ UNCHANGED <<needStart, csWasEntered, exit, stopWriting, canStart, wasStopped, free,
                 numProcessedBlocks, created, cs, hashBuf, btBuf, hashVars, mfVars, takeVars,
                 failure_BT, btBuffer, btLocals, lzPc, lzVars, lzPointer, fileVars>>

SumOfNew(avail) == avail                                       \* mutant
AvailSum(avail) == numProcessed + avail

AtEndUnsigned(avail) == avail < 0                              \* mutant
AtEnd(avail) == avail < NumHashBytes

\* With less than NumHashBytes bytes the stream is at its end: there is
\* nothing to find for them.
LockHash ==
  /\ btPc = "lock" /\ Lock("hash")
  /\ LET avail == hashBuf[hashBi].avail
         ends  == AtEnd(avail)
     IN /\ hashNumAvail' = IF ends THEN 0 ELSE avail
        /\ d' = Block(IF ends THEN d.pos \o [i \in 1 .. avail |-> NoPos] ELSE d.pos,
                      AvailSum(avail))
        /\ curPos' = IF ends THEN curPos + avail ELSE curPos
        /\ btPc' = IF ends THEN "end" ELSE "fill"
  /\ UNCHANGED <<needStart, exit, stopWriting, canStart, wasStopped, free, filled,
                 numProcessedBlocks, created, hashBuf, btBuf, hashVars, mfVars, hashBi, hashBufPos,
                 failure_BT, btBuffer, btBlock, numProcessed, lzPc, lzVars, lzPointer, fileVars>>

\* An item is the number of matches and two numbers for each; each match is
\* longer than the one before.
MaxItem == 1 + 2 * (MatchMaxLen - NumHashBytes + 1)

\* GetMatchesSpecN_2: n positions, as long as there is room in the block.
Process ==
  /\ btPc = "fill" /\ ~ failure_BT /\ curPos < Limit /\ HeadsLeft > 0
  /\ \/ \E n \in 1 .. HeadsLeft : \E before \in n - 1 .. (n - 1) * MaxItem, last \in {1, MaxItem} :
          /\ curPos + before < Limit
          /\ curPos' = curPos + before + last
          /\ n = HeadsLeft \/ curPos' >= Limit
          /\ d' = [d EXCEPT !.pos = @ \o SubSeq(hashBuf[hashBi].pos, hashBufPos + 1, hashBufPos + n)]
          /\ hashBufPos' = hashBufPos + n /\ hashNumAvail' = hashNumAvail - n
          /\ numProcessed' = numProcessed + n /\ btBuffer' = btBuffer + n
          /\ UNCHANGED <<failure_BT, btPc>>
     \/ /\ "tree" \in Faults
        /\ failure_BT' = TRUE /\ btPc' = "end"
        /\ UNCHANGED <<curPos, d, hashBufPos, hashNumAvail, numProcessed, btBuffer>>
  /\ UNCHANGED <<syncVars, hashBuf, btBuf, hashVars, mfVars, hashBi, btBlock, lzPc, lzVars,
                 lzPointer, fileVars>>

\* The block is complete.
EndBlock ==
  /\ btPc = "end" \/ (btPc = "fill" /\ (failure_BT \/ curPos >= Limit))
  /\ btBuf' = [btBuf EXCEPT ![btBlock] = [d EXCEPT !.ok = ~ failure_BT]]
  /\ cs' = Unlocked("hash") /\ csWasEntered' = [csWasEntered EXCEPT !["hash"] = FALSE]
  /\ filled' = Released(filled, "bt")
  /\ btPc' = "top" /\ btBlock' = (btBlock + 1) % BtNumBlocks
  /\ d' = Erased /\ curPos' = 2 /\ numProcessed' = 0
  /\ UNCHANGED <<needStart, exit, stopWriting, canStart, wasStopped, free, numProcessedBlocks,
                 created, hashBuf, hashVars, mfVars, takeVars, failure_BT, btBuffer, lzPc, lzVars,
                 lzPointer, fileVars>>

BtStep ==
  \/ BtStart \/ BeginBlock \/ LockBlock \/ BtStop \/ HashStopped
  \/ AskHash \/ TakeHash \/ LockHash \/ Process \/ EndBlock

-----------------------------------------------------------------------------
(* The encoder's thread. *)

\* MatchFinderMt_Create; what was created in an earlier call is kept.
Create ==
  /\ lzPc = "new"
  /\ \E made \in IF "thread" \in Faults THEN {{}, {"hash"}, Sync} ELSE {Sync} :
       /\ \A s \in Sync : created[s] => s \in made
       /\ created' = [s \in Sync |-> s \in made]
       /\ hashPc' = IF "hash" \in made THEN "start" ELSE "none"
       /\ btPc' = IF "bt" \in made THEN "start" ELSE "none"
       /\ lzPc' = IF made = Sync THEN "idle" ELSE "new"
  /\ UNCHANGED <<needStart, csWasEntered, exit, stopWriting, canStart, wasStopped, free, filled,
                 numProcessedBlocks, cs, hashBuf, btBuf, hashBlock, mfVars, takeVars, failure_BT,
                 btBuffer, btLocals, lzVars, lzPointer, fileVars>>

\* MatchFinderMt_InitMt and MatchFinderMt_Init.
InitFile ==
  /\ lzPc = "idle"
  /\ IF \E s \in Sync : ~ needStart[s] \/ csWasEntered[s]
       THEN /\ status' = "error"
            /\ UNCHANGED <<free, filled, hashBuf, btBuf, mfVars, takeVars, failure_BT, btBuffer,
                           lzPc, lzVars, lzPointer, size>>
       ELSE /\ free' = [s \in Sync |-> NumBlocks(s)] /\ filled' = [s \in Sync |-> 0]
            /\ hashBuf' = [i \in DOMAIN hashBuf |-> Erased]
            /\ btBuf' = [i \in DOMAIN btBuf |-> Erased]
            /\ base' = 0 /\ mfBuffer' = 0 /\ streamPos' = 0 /\ streamEndWasReached' = FALSE
            /\ readResult' = "ok"
            /\ hashBi' = 0 /\ hashBufPos' = 0 /\ hashNumAvail' = 0 /\ failure_BT' = FALSE
            /\ btBuffer' = 0
            /\ btBi' = 0 /\ btBufPos' = 0 /\ btNumAvailBytes' = 0 /\ failure_LZ_BT' = FALSE
            /\ lzPos' = 1 /\ lzPointer' = 0
            /\ size' \in Sizes /\ status' = "run" /\ lzPc' = "run"
  /\ UNCHANGED <<needStart, csWasEntered, exit, stopWriting, canStart, wasStopped,
                 numProcessedBlocks, created, cs, hashVars, btPc, btLocals>>

BlockLeft == btBufPos < Len(btBuf[btBi].pos)

\* MatchFinderMt_GetNextBlock_Bt, when the block is used up.
AskBlock ==
  /\ lzPc = "run" /\ ~ BlockLeft
  /\ AskNext("bt") /\ lzPc' = "wait"
  /\ btBi' = NextIndex("bt") /\ btBufPos' = 0
  /\ btBuf' = [btBuf EXCEPT ![btBi] = IF needStart["bt"] THEN @ ELSE Erased]
  /\ UNCHANGED <<filled, created, hashBuf, hashVars, mfVars, btPc, takeVars, failure_BT, btBuffer,
                 btLocals, btNumAvailBytes, failure_LZ_BT, lzPos, lzPointer, fileVars>>

TakeBlock ==
  /\ lzPc = "wait" /\ filled["bt"] > 0
  /\ filled' = [filled EXCEPT !["bt"] = @ - 1] /\ lzPc' = "lock"
  /\ UNCHANGED <<needStart, csWasEntered, exit, stopWriting, canStart, wasStopped, free,
                 numProcessedBlocks, created, cs, hashBuf, btBuf, hashVars, mfVars, btPc, takeVars,
                 failure_BT, btBuffer, btLocals, lzVars, lzPointer, fileVars>>

LockBt ==
  /\ lzPc = "lock" /\ Lock("bt") /\ lzPc' = "got"
  /\ btNumAvailBytes' = btBuf[btBi].avail /\ failure_LZ_BT' = ~ btBuf[btBi].ok
  /\ UNCHANGED <<needStart, exit, stopWriting, canStart, wasStopped, free, filled,
                 numProcessedBlocks, created, hashBuf, btBuf, hashVars, mfVars, btPc, takeVars,
                 failure_BT, btBuffer, btLocals, btBi, btBufPos, lzPos, lzPointer, fileVars>>

\* A step of GetMatches or Skip over one position.  After a failure failureBuf
\* gives an item without matches, again and again.
Advance ==
  /\ lzPc \in {"run", "got"} /\ btNumAvailBytes > 0
  /\ failure_LZ_BT \/ BlockLeft
  /\ btBufPos' = IF failure_LZ_BT THEN btBufPos ELSE btBufPos + 1
  /\ btNumAvailBytes' = btNumAvailBytes - 1
  /\ lzPos' = lzPos + 1 /\ lzPointer' = lzPointer + 1
  /\ lzPc' = IF failure_LZ_BT THEN "got" ELSE "run"
  /\ UNCHANGED <<syncVars, hashBuf, btBuf, hashVars, mfVars, btPc, takeVars, failure_BT, btBuffer,
                 btLocals, btBi, failure_LZ_BT, fileVars>>

\* GetNumAvailableBytes gave 0: the encoder finishes and checks for errors.
EndOfStream ==
  /\ lzPc = "got" /\ btNumAvailBytes = 0
  /\ status' = IF failure_LZ_BT \/ readResult # "ok" THEN "error" ELSE "ok"
  /\ lzPc' = "finish"
  /\ UNCHANGED <<syncVars, hashBuf, btBuf, hashVars, mfVars, btPc, takeVars, failure_BT, btBuffer,
                 btLocals, lzVars, lzPointer, size>>

\* MatchFinderMt_ReleaseStream, at the end or when the encoder gives up.
ReleaseStream ==
  /\ lzPc \in {"run", "got", "finish"}
  /\ status' = IF status = "run" THEN "idle" ELSE status
  /\ IF needStart["bt"]
       THEN lzPc' = "idle" /\ UNCHANGED <<cs, csWasEntered, stopWriting, free>>
       ELSE lzPc' = "stop" /\ AskStop("bt")
  /\ UNCHANGED <<needStart, exit, canStart, wasStopped, filled, numProcessedBlocks, created,
                 hashBuf, btBuf, hashVars, mfVars, btPc, takeVars, failure_BT, btBuffer, btLocals,
                 lzVars, lzPointer, size>>

Stopped ==
  /\ lzPc = "stop" /\ SeeStopped("bt") /\ lzPc' = "idle"
  /\ UNCHANGED <<csWasEntered, exit, stopWriting, canStart, free, filled, numProcessedBlocks,
                 created, cs, hashBuf, btBuf, hashVars, mfVars, btPc, takeVars, failure_BT,
                 btBuffer, btLocals, lzVars, lzPointer, fileVars>>

\* MtSync_Destruct, of btSync and then of hashSync, with the threads stopped.
SendExit(s) ==
  /\ exit' = [exit EXCEPT ![s] = @ \/ created[s]]
  /\ canStart' = [canStart EXCEPT ![s] = created[s]]

Destruct ==
  /\ lzPc \in {"new", "idle"} /\ lzPc' = "joinBt" /\ SendExit("bt")
  /\ UNCHANGED <<needStart, csWasEntered, stopWriting, wasStopped, free, filled,
                 numProcessedBlocks, created, cs, hashBuf, btBuf, hashVars, mfVars, btPc, takeVars,
                 failure_BT, btBuffer, btLocals, lzVars, lzPointer, fileVars>>

JoinBt ==
  /\ lzPc = "joinBt" /\ btPc \in {"none", "ended"}
  /\ lzPc' = "joinHash" /\ SendExit("hash")
  /\ created' = [created EXCEPT !["bt"] = FALSE]
  /\ UNCHANGED <<needStart, csWasEntered, stopWriting, wasStopped, free, filled,
                 numProcessedBlocks, cs, hashBuf, btBuf, hashVars, mfVars, btPc, takeVars,
                 failure_BT, btBuffer, btLocals, lzVars, lzPointer, fileVars>>

JoinHash ==
  /\ lzPc = "joinHash" /\ hashPc \in {"none", "ended"}
  /\ lzPc' = "done"
  /\ created' = [created EXCEPT !["hash"] = FALSE]
  /\ UNCHANGED <<needStart, csWasEntered, exit, stopWriting, canStart, wasStopped, free, filled,
                 numProcessedBlocks, cs, hashBuf, btBuf, hashVars, mfVars, btPc, takeVars,
                 failure_BT, btBuffer, btLocals, lzVars, lzPointer, fileVars>>

LzCall == Create \/ InitFile \/ AskBlock \/ Advance \/ EndOfStream \/ ReleaseStream
          \/ Destruct
LzReturn == TakeBlock \/ LockBt \/ Stopped \/ JoinBt \/ JoinHash

Terminating == lzPc = "done" /\ UNCHANGED vars

Next == HashStep \/ BtStep \/ LzCall \/ LzReturn \/ Terminating

Spec == Init /\ [][Next]_vars

\* The system runs all threads; the encoder may make its next call or not.
Fairness == WF_vars(HashStep) /\ WF_vars(BtStep) /\ WF_vars(LzReturn)

FairSpec == Spec /\ Fairness

-----------------------------------------------------------------------------
(* Properties. *)

\* Every variable keeps its type; blocks fit into their rings and a tree
\* block is never written beyond its end (LzFindMt.h:18, LzFindMt.c:643).
TypeOK ==
  /\ \A f \in {needStart, csWasEntered, exit, stopWriting, canStart, wasStopped, created} :
       f \in [Sync -> BOOLEAN]
  /\ \A s \in Sync :
       /\ free[s] \in 0 .. NumBlocks(s) /\ filled[s] \in 0 .. NumBlocks(s)
       /\ numProcessedBlocks[s] \in 0 .. NumBlocks(s) - 1
       /\ cs[s] \in {"none", "hash", User(s)}
  /\ hashPc \in HashPc /\ btPc \in BtPc /\ lzPc \in LzPc
  /\ hashBlock \in 0 .. HashNumBlocks - 1 /\ hashBi \in 0 .. HashNumBlocks - 1
  /\ btBlock \in 0 .. BtNumBlocks - 1 /\ btBi \in 0 .. BtNumBlocks - 1
  /\ curPos \in 2 .. BtBlockSize
  /\ \A i \in DOMAIN hashBuf : Len(hashBuf[i].pos) <= HashBlockSize - 2
  /\ hashBufPos \in 0 .. HashBlockSize - 2 /\ hashNumAvail \in Nat /\ numProcessed \in Nat
  /\ base \in Nat /\ mfBuffer \in 0 .. BlockSize /\ streamPos \in 0 .. size
  /\ btBuffer \in Int /\ lzPointer \in Int
  /\ readResult \in {"ok", "read"} /\ failure_BT \in BOOLEAN /\ failure_LZ_BT \in BOOLEAN
  /\ status \in {"idle", "run", "ok", "error"}

\* Who works on the data.
BtWorks == btPc \in {"fill", "end"} /\ ~ needStart["hash"]
LzWorks == lzPc \in {"run", "got", "finish"} /\ ~ needStart["bt"]

\* The comment at LzFindMt.c:102 and BUFFER_MUST_BE_LOCKED: whoever works on
\* the data of the buffer holds the critical section of its CMtSync, and
\* csWasEntered says so, on every path of start, block and stop.
BufferLocked ==
  /\ cs["hash"] = "bt" <=> BtWorks
  /\ cs["bt"] = "lz" <=> LzWorks
  /\ \A s \in Sync : csWasEntered[s] <=> cs[s] = User(s)

\* LzFindMt.c:755 and the comments at :208 and :813: when LZ's stop has come
\* back both threads wait for their next start, no signal, lock or flag is
\* left over, and the next file can begin.
StopIsClean ==
  lzPc = "idle" =>
    /\ hashPc = "start" /\ btPc = "start"
    /\ \A s \in Sync : /\ needStart[s] /\ ~ csWasEntered[s] /\ cs[s] = "none"
                       /\ ~ canStart[s] /\ ~ wasStopped[s]

\* A producer fills a block, or its user has one.
Producing(s) == s = "bt" /\ btPc \in {"lockBlock", "fill", "wait", "lock", "end"}
InUse(s) ==
  IF s = "bt" THEN lzPc \in {"lock", "run", "got", "finish"}
  ELSE btPc \notin {"wait", "stopHash"}
Count(b) == IF b THEN 1 ELSE 0

\* "check semaphore count !!!" (LzFindMt.c:177): from start to stop every block
\* of a ring is free, filled, or in the hands of exactly one thread, so that no
\* release finds its semaphore at the maximum and is lost.
BlocksAccounted ==
  \A s \in Sync : ~ needStart[s] /\ ~ stopWriting[s] =>
    free[s] + filled[s] + Count(Producing(s)) + Count(InUse(s)) = NumBlocks(s)

\* The handshakes of start and stop and the semaphores of the rings leave nothing
\* behind and lose nothing, wherever a stop meets the threads.
HandshakesSound == StopIsClean /\ BlocksAccounted

At == lzPos - 1

\* Entries, counters and pointers of all threads speak of the same bytes: the
\* entries that LZ gets are those of its position and the ones after it, only
\* the last positions of a stream go without a search, and the pointers of LZ
\* and BT, which the hash thread moves, point to what their owner works on
\* (LzFindMt.c:467-482, 640-651, 1282).
InStep ==
  /\ LzWorks => base + lzPointer = At
  /\ LzWorks /\ ~ failure_LZ_BT =>
       \A j \in btBufPos + 1 .. Len(btBuf[btBi].pos) :
         LET here == At + j - btBufPos - 1
         IN \/ btBuf[btBi].pos[j] = here
            \/ btBuf[btBi].pos[j] = NoPos /\ here + NumHashBytes > streamPos
  /\ BtWorks /\ HeadsLeft > 0 => base + btBuffer = hashBuf[hashBi].pos[hashBufPos + 1]

\* While BT and LZ work, the buffer has the bytes they may look at: their
\* history before them and the bytes they were told of after them; and LZ knows
\* of as many as the encoder asked for, unless the stream ends before
\* (LzFindMt.c:870, LzFind.c:383-390).
DataKept ==
  /\ streamPos <= Room
  /\ LzWorks => /\ base = 0 \/ base <= At - HistorySize
                /\ At + btNumAvailBytes <= streamPos
  /\ BtWorks => /\ base = 0 \/ HistorySize <= btBuffer
                /\ base + btBuffer + hashNumAvail <= streamPos
  /\ LzWorks /\ ~ failure_LZ_BT /\ readResult = "ok" =>
       btNumAvailBytes >= Min2(KeepAddAfter + MatchMaxLen, size - At)

\* Positions, pointers and the buffer agree over its moves.
PositionsSound == InStep /\ DataKept

\* The multi-thread match finder is a match finder (C/LzFind.h, IMatchFinder2):
\* it goes through all of the stream, says how far it reaches, and ends only at
\* its end or with an error that the encoder sees.
Feed ==
  INSTANCE MatchFeed WITH
    at     <- At,
    told   <- At + btNumAvailBytes,
    failed <- readResult # "ok" \/ failure_BT
ImplementsFeed == Feed!FSpec

\* Every call returns: the next block, the stop of both threads, their exit.
CallsReturn ==
  (lzPc \in {"wait", "lock", "stop", "joinBt", "joinHash"}) ~>
    (lzPc \in {"got", "idle", "done"})
=============================================================================
