--------------------------- MODULE MtCoder_proof ---------------------------
(* Proofs about MtCoder, for every number of threads, blocks and faults. *)
EXTENDS MtCoder, FiniteSets, FiniteSetTheorems, TLAPS

-----------------------------------------------------------------------------
(* Facts about the constants. *)

\* The ring and the set of buffers are not empty and the first thread exists.
LEMMA ConstantFacts ==
  /\ NumThreads \in Nat \ {0} /\ NumBlocksMax \in Nat \ {0} /\ BlocksMax \in Nat \ {0}
  /\ 0 \in Thread /\ 0 \in Slot /\ None \notin Slot
<1>1. NumThreads \in Nat \ {0}
  BY MtCoderAssumption DEF NumThreads
<1>2. \A n \in Nat : GetNumBlocks(n) \in Nat \ {0}
  BY DEF GetNumBlocks
<1>3. QED
  BY <1>1, <1>2, MtCoderAssumption DEF NumBlocksMax, BlocksMax, Thread, Slot, None

\* The slot after a slot is a slot (MtCoder.c:187, 286).
LEMMA NextInRing == ASSUME NEW i \in Slot PROVE Next(i) \in Slot
  BY ConstantFacts DEF Next, Slot

\* What the operations on the free list return (MtCoder.c:229, 295).
LEMMA GiveBackType ==
  ASSUME NEW s \in Seq(Buf), NEW b \in Buf PROVE GiveBack(b, s) \in Seq(Buf)
  BY DEF GiveBack

\* What is left after a buffer was taken.
LEMMA TakeFirstType ==
  ASSUME NEW s \in Seq(Buf)
  PROVE  FirstFree(s) \in Buf \cup {None} /\ WithoutFirst(s) \in Seq(Buf)
<1>1. CASE s = <<>>
  BY <1>1 DEF FirstFree, WithoutFirst
<1>2. CASE s # <<>>
  BY <1>2 DEF FirstFree, WithoutFirst
<1>3. QED
  BY <1>1, <1>2

-----------------------------------------------------------------------------
(* Type correctness. *)

\* The initial state has the right types (MtCoder.c:362-406).
LEMMA InitTypeOK == Init => TypeOK
<1> SUFFICES ASSUME Init PROVE TypeOK
  OBVIOUS
<1> USE ConstantFacts, MtCoderAssumption DEF Init, Res, FaultKinds
<1>1. CallerTypes
  BY DEF CallerTypes, Hints, MainPc
<1>2. ReaderTypes
  BY DEF ReaderTypes
<1>3. RingTypes
  BY DEF RingTypes
<1>4. DataTypes
  BY DEF DataTypes, BlockRecord, NoBlock
<1>5. EndTypes
  BY DEF EndTypes
<1>6. ThreadTypes
  BY DEF ThreadTypes, ThreadPc
<1>7. QED
  BY <1>1, <1>2, <1>3, <1>4, <1>5, <1>6 DEF TypeOK

\* Creating a thread leaves every pc in its set (MtCoder.c:49-63).
LEMMA CreatedType ==
  ASSUME pc \in [Thread -> ThreadPc], NEW n
  PROVE  Created(n) \in [Thread -> ThreadPc]
<1>1. \A u \in Thread : Created(n)[u] \in {pc[u], "idle"}
  BY DEF Created
<1>2. QED
  BY <1>1 DEF Created, ThreadPc

\* The expected size a caller announces is not beyond the bound.
LEMMA HintsInRange == \A n \in 1..MaxInput : \A h \in Hints(n) : h \in 0..MaxInput
  BY MtCoderAssumption DEF Hints

\* The caller comes back with another input.
LEMMA NewInputTypeOK == ASSUME TypeOK, NewInput PROVE TypeOK'
<1> USE DEF TypeOK, NewInput
<1>1. /\ main' \in MainPc /\ result' \in Res \cup {"none"} /\ out' \in Seq(Nat)
      /\ total' \in 1..MaxInput
  <2>1. total \in Nat /\ MaxInput \in Nat /\ total' \in 1 .. MaxInput - total
    BY MtCoderAssumption DEF CallerTypes
  <2>2. total' \in 1..MaxInput
    BY <2>1
  <2>3. QED
    BY <2>2 DEF CallerTypes
<1>2. calls' \in 1..MaxCalls
  BY MtCoderAssumption DEF CallerTypes
<1>3. expected' \in 0..MaxInput
  BY <1>1, HintsInRange
<1>4. CallerTypes' /\ DataTypes'
  BY <1>1, <1>2, <1>3 DEF CallerTypes, DataTypes
<1>5. ReaderTypes' /\ RingTypes' /\ EndTypes' /\ ThreadTypes'
  BY DEF ReaderTypes, RingTypes, EndTypes, ThreadTypes, readerVars, ringVars, endVars,
         localVars
<1>6. QED
  BY <1>4, <1>5

\* Every step of the caller keeps the types.
LEMMA MainTypeOK == TypeOK /\ (MainStep \/ NewInput) => TypeOK'
<1> SUFFICES ASSUME TypeOK, MainStep \/ NewInput PROVE TypeOK'
  OBVIOUS
<1>1. CASE NewInput
  BY <1>1, NewInputTypeOK
<1> USE ConstantFacts, MtCoderAssumption
    DEF TypeOK, CallerTypes, ReaderTypes, RingTypes, DataTypes, EndTypes, ThreadTypes,
        BlockRecord, callerVars, readerVars, ringVars, dataVars, endVars, localVars
<1>2. CASE Prologue
  <2>1. [i \in 1..BlocksMax |-> i - 1] \in Seq(Buf)
    BY DEF Buf
  <2>2. QED
    BY <1>2, <2>1 DEF Prologue, MainPc, Res, ResAtStart
<1>3. CASE StartFirst
  <2>0. ASSUME main' = "open" PROVE pc' \in [Thread -> ThreadPc]
    <3>1. pc' = Created(0)
      BY <1>3, <2>0 DEF StartFirst
    <3>2. QED
      BY <3>1, CreatedType
  <2> USE DEF StartFirst, StartThread, MainPc, Res, FaultKinds
  <2>1. CASE main' = "open"
    <3>1. pc' \in [Thread -> ThreadPc]
      BY <2>0, <2>1
    <3>2. startEvent' \in [Thread -> BOOLEAN]
      BY <1>3, <2>1
    <3>3. CallerTypes' /\ ReaderTypes' /\ EndTypes'
      BY <1>3, <2>1
    <3>4. RingTypes' /\ DataTypes'
      BY <1>3, <2>1
    <3>5. ThreadTypes'
      BY <1>3, <2>1, <3>1, <3>2
    <3>6. QED
      BY <3>3, <3>4, <3>5
  <2>2. CASE main' = "noThread"
    BY <1>3, <2>2
  <2>3. QED
    BY <1>3, <2>1, <2>2
<1>4. CASE OpenReading
  BY <1>4 DEF OpenReading, MainPc
<1>9. CASE ReturnNoThread
  BY <1>9 DEF ReturnNoThread, MainPc, Res, FaultKinds
<1>5. CASE WaitFinished
  BY <1>5 DEF WaitFinished, MainPc
<1>6. CASE Collect
  BY <1>6 DEF Collect, MainPc, Res
<1>7. CASE Free
  BY <1>7 DEF Free, MainPc, ThreadPc, Res, CallResult
<1>8. QED
  BY <1>1, <1>2, <1>3, <1>4, <1>5, <1>6, <1>7, <1>9 DEF MainStep

\* The steps of a thread with several outcomes, apart: reading a block, ...
LEMMA ReadTypeOK == ASSUME NEW t \in Thread, TypeOK, Read(t) PROVE TypeOK'
<1> USE DEF TypeOK, callerVars, readerVars, ringVars, dataVars, endVars, localVars
<1>1. CallerTypes' /\ RingTypes' /\ DataTypes'
  BY DEF CallerTypes, RingTypes, DataTypes, Read
<1>2. ReaderTypes'
  BY DEF ReaderTypes, Read, Res, FaultKinds
<1>3. EndTypes'
  BY DEF EndTypes, Read, SetError, Res, FaultKinds
<1>4. inBuf' = inBuf \/ inBuf' = [inBuf EXCEPT ![t] = readProcessed + 1]
  BY DEF Read
<1>5. inBuf' \in [Thread -> Nat]
  BY <1>4 DEF ReaderTypes, ThreadTypes
<1>6. finished' = finished \/ finished' = [finished EXCEPT ![t] = readProcessed + 1 = total]
  BY DEF Read
<1>7. finished' \in [Thread -> BOOLEAN]
  BY <1>6 DEF ThreadTypes
<1>8. res' = res \/ res' = [res EXCEPT ![t] = "read"]
  BY DEF Read
<1>9. res' \in [Thread -> Res]
  BY <1>8 DEF ThreadTypes, Res, FaultKinds
<1>10. pc' \in [Thread -> ThreadPc]
  BY DEF ThreadTypes, Read, Goto, ThreadPc
<1>11. UNCHANGED <<startEvent, bi, bufIndex, wi, numFin>>
  BY DEF Read
<1>12. ThreadTypes'
  BY <1>5, <1>7, <1>9, <1>10, <1>11 DEF ThreadTypes
<1>13. QED
  BY <1>1, <1>2, <1>3, <1>12

\* ... looking at the error of another thread, ...
LEMMA CheckTypeOK == ASSUME NEW t \in Thread, TypeOK, Check(t) PROVE TypeOK'
<1> USE DEF TypeOK
<1> DEFINE r == IF res[t] = "ok" THEN progressRes ELSE res[t]
<1>1. CallerTypes' /\ ReaderTypes' /\ RingTypes' /\ DataTypes' /\ EndTypes'
  BY DEF Check, CallerTypes, ReaderTypes, RingTypes, DataTypes, EndTypes,
         callerVars, readerVars, ringVars, dataVars, endVars
<1>2. res' = [res EXCEPT ![t] = r] /\ r \in Res
  BY DEF Check, ThreadTypes, EndTypes
<1>3. finished' = [finished EXCEPT ![t] = finished[t] \/ r # "ok"]
  BY DEF Check
<1>4. finished' \in [Thread -> BOOLEAN]
  BY <1>3 DEF ThreadTypes
<1>5. pc' = [pc EXCEPT ![t] = "start"] \/ pc' = [pc EXCEPT ![t] = "setRead"]
  BY DEF Check, Goto
<1>6. pc' \in [Thread -> ThreadPc]
  BY <1>5 DEF ThreadTypes, ThreadPc
<1>7. UNCHANGED <<startEvent, inBuf, bi, bufIndex, wi, numFin>>
  BY DEF Check
<1>8. ThreadTypes'
  BY <1>2, <1>4, <1>6, <1>7 DEF ThreadTypes
<1>9. QED
  BY <1>1, <1>8

\* ... starting the next thread, ...
LEMMA StartNextTypeOK == ASSUME NEW t \in Thread, TypeOK, StartNext(t) PROVE TypeOK'
<1> USE DEF TypeOK, callerVars, readerVars, ringVars, dataVars, endVars, localVars
<1>1. CallerTypes' /\ RingTypes' /\ DataTypes'
  BY DEF CallerTypes, RingTypes, DataTypes, StartNext
<1>2. ReaderTypes'
  BY DEF ReaderTypes, StartNext, StartThread
<1>3. EndTypes'
  BY DEF EndTypes, StartNext, SetError, Res, FaultKinds
<1>4. pc' = [pc EXCEPT ![t] = "setRead"] \/ pc' = [Created(numStarted) EXCEPT ![t] = "setRead"]
  BY DEF StartNext, Goto
<1>5. pc' \in [Thread -> ThreadPc]
  BY <1>4, CreatedType DEF ThreadTypes, ThreadPc
<1>6. startEvent' = startEvent \/ startEvent' = [startEvent EXCEPT ![numStarted] = TRUE]
  BY DEF StartNext, StartThread
<1>7. startEvent' \in [Thread -> BOOLEAN]
  BY <1>6 DEF ThreadTypes
<1>8. /\ res' = res \/ res' = [res EXCEPT ![t] = "thread"]
      /\ finished' = finished \/ finished' = [finished EXCEPT ![t] = TRUE]
  BY DEF StartNext
<1>9. res' \in [Thread -> Res] /\ finished' \in [Thread -> BOOLEAN]
  BY <1>8 DEF ThreadTypes, Res, FaultKinds
<1>10. UNCHANGED <<inBuf, bi, bufIndex, wi, numFin>>
  BY DEF StartNext
<1>11. ThreadTypes'
  BY <1>5, <1>7, <1>9, <1>10 DEF ThreadTypes
<1>12. QED
  BY <1>1, <1>2, <1>3, <1>11

\* ... publishing a block ...
LEMMA PublishTypeOK == ASSUME NEW t \in Thread, TypeOK, Publish(t) PROVE TypeOK'
<1> USE DEF TypeOK
<1>1. CallerTypes' /\ ReaderTypes' /\ DataTypes' /\ EndTypes'
  BY DEF Publish, CallerTypes, ReaderTypes, DataTypes, EndTypes,
         callerVars, readerVars, dataVars, endVars
<1>2. bi[t] \in Slot
  BY DEF ThreadTypes
<1>3. writeIndex' \in Slot \cup {None}
  BY <1>2 DEF Publish, TakenFrom, RingTypes
<1>4. readyBlocks' \in [Slot -> BOOLEAN]
  BY <1>2 DEF Publish, RingTypes
<1>5. RingTypes'
  BY <1>3, <1>4 DEF Publish, RingTypes
<1>6. \/ res' = [res EXCEPT ![t] = IF writeRes # "ok" THEN writeRes ELSE @]
      \/ res' = [res EXCEPT ![t] = "ok"]
  BY DEF Publish, Leave
<1>7. res' \in [Thread -> Res]
  BY <1>6 DEF ThreadTypes, RingTypes, Res
<1>8. finished' = finished \/ finished' = [finished EXCEPT ![t] = FALSE]
  BY DEF Publish, Leave
<1>9. finished' \in [Thread -> BOOLEAN]
  BY <1>8 DEF ThreadTypes
<1>10. bufIndex' = bufIndex \/ bufIndex' = [bufIndex EXCEPT ![t] = None]
  BY DEF Publish, Leave
<1>11. bufIndex' \in [Thread -> Buf \cup {None}]
  BY <1>10 DEF ThreadTypes
<1>12. wi' = wi \/ wi' = [wi EXCEPT ![t] = bi[t]]
  BY DEF Publish
<1>13. wi' \in [Thread -> Slot]
  BY <1>2, <1>12 DEF ThreadTypes
<1>14. bi' \in [Thread -> Slot]
  BY ConstantFacts DEF Publish, ThreadTypes
<1>15. \E l \in ThreadPc : pc' = [pc EXCEPT ![t] = l]
  BY DEF Publish, Goto, ThreadPc
<1>16. pc' \in [Thread -> ThreadPc]
  BY <1>15 DEF ThreadTypes
<1>17. UNCHANGED <<startEvent, inBuf, numFin>>
  BY DEF Publish
<1>18. ThreadTypes'
  BY <1>7, <1>9, <1>11, <1>13, <1>14, <1>16, <1>17 DEF ThreadTypes
<1>19. QED
  BY <1>1, <1>5, <1>18

\* ... giving a slot back ...
LEMMA PostTypeOK == ASSUME NEW t \in Thread, TypeOK, Post(t) PROVE TypeOK'
<1> USE DEF TypeOK
<1>1. CallerTypes' /\ ReaderTypes' /\ DataTypes' /\ EndTypes'
  BY DEF Post, CallerTypes, ReaderTypes, DataTypes, EndTypes,
         callerVars, readerVars, dataVars, endVars
<1>2. RingTypes'
  BY DEF Post, RingTypes
<1>3. blocks[wi[t]] \in BlockRecord
  BY DEF ThreadTypes, DataTypes
<1>4. /\ \/ res' = [res EXCEPT ![t] = "ok"]
         \/ res' = [res EXCEPT ![t] = Sticky(@, blocks[wi[t]].res)]
      /\ \/ finished' = [finished EXCEPT ![t] = FALSE]
         \/ finished' = [finished EXCEPT ![t] = blocks[wi[t]].finished]
      /\ \/ bufIndex' = [bufIndex EXCEPT ![t] = None]
         \/ bufIndex' = [bufIndex EXCEPT ![t] = blocks[wi[t]].bufIndex]
      /\ wi' = wi \/ wi' = [wi EXCEPT ![t] = 0]
  BY DEF Post, Leave
<1>5. res' \in [Thread -> Res]
  BY <1>3, <1>4 DEF ThreadTypes, BlockRecord, Sticky, Res
<1>6. finished' \in [Thread -> BOOLEAN]
  BY <1>3, <1>4 DEF ThreadTypes, BlockRecord
<1>7. bufIndex' \in [Thread -> Buf \cup {None}]
  BY <1>3, <1>4 DEF ThreadTypes, BlockRecord
<1>8. wi' \in [Thread -> Slot]
  BY <1>4, ConstantFacts DEF ThreadTypes
<1>9. \E l \in ThreadPc : pc' = [pc EXCEPT ![t] = l]
  BY DEF Post, Goto, ThreadPc
<1>10. pc' \in [Thread -> ThreadPc]
  BY <1>9 DEF ThreadTypes
<1>11. UNCHANGED <<startEvent, inBuf, bi, numFin>>
  BY DEF Post
<1>12. ThreadTypes'
  BY <1>5, <1>6, <1>7, <1>8, <1>10, <1>11 DEF ThreadTypes
<1>13. QED
  BY <1>1, <1>2, <1>3, <1>12

\* ... and writing a block.
LEMMA WriteTypeOK == ASSUME NEW t \in Thread, TypeOK, Write(t) PROVE TypeOK'
<1> USE DEF TypeOK, callerVars, readerVars, ringVars, dataVars, endVars, localVars
<1>1. CallerTypes' /\ ReaderTypes'
  BY DEF CallerTypes, ReaderTypes, Write
<1>2. RingTypes'
  BY DEF RingTypes, Write, Res, FaultKinds
<1>3. out' = out \/ (out' = Append(out, bufData[bufIndex[t]]) /\ bufIndex[t] # None)
  BY DEF Write
<1>4. bufIndex[t] # None => bufData[bufIndex[t]] \in Nat
  BY DEF ThreadTypes, DataTypes
<1>5. out' \in Seq(Nat)
  <2>1. out \in Seq(Nat)
    BY DEF DataTypes
  <2>2. CASE out' = Append(out, bufData[bufIndex[t]]) /\ bufIndex[t] # None
    <3>1. \A x \in Nat : Append(out, x) \in Seq(Nat)
      BY <2>1
    <3>2. QED
      BY <1>4, <2>2, <3>1
  <2>3. QED
    BY <1>3, <2>1, <2>2
<1>6. DataTypes'
  BY <1>5 DEF DataTypes, Write
<1>7. EndTypes'
  BY DEF EndTypes, Write, SetError, Res, FaultKinds
<1>8. res' = res \/ res' = [res EXCEPT ![t] = "write"]
  BY DEF Write
<1>9. res' \in [Thread -> Res] /\ pc' \in [Thread -> ThreadPc]
  BY <1>8 DEF ThreadTypes, Write, Goto, ThreadPc, Res, FaultKinds
<1>10. UNCHANGED <<startEvent, finished, inBuf, bi, bufIndex, wi, numFin>>
  BY DEF Write
<1>11. ThreadTypes'
  BY <1>9, <1>10 DEF ThreadTypes
<1>12. QED
  BY <1>1, <1>2, <1>6, <1>7, <1>11

\* Every step of a thread keeps the types.
LEMMA ThreadTypeOK == ASSUME NEW t \in Thread PROVE TypeOK /\ ThreadStep(t) => TypeOK'
<1> SUFFICES ASSUME TypeOK, ThreadStep(t) PROVE TypeOK'
  OBVIOUS
<1>3. CASE Read(t)
  BY <1>3, ReadTypeOK
<1>5. CASE Check(t)
  BY <1>5, CheckTypeOK
<1>6. CASE StartNext(t)
  BY <1>6, StartNextTypeOK
<1>12. CASE Write(t)
  BY <1>12, WriteTypeOK
<1>11. CASE Publish(t)
  BY <1>11, PublishTypeOK
<1>14. CASE Post(t)
  BY <1>14, PostTypeOK
<1> USE DEF TypeOK, CallerTypes, ReaderTypes, RingTypes, DataTypes, EndTypes, ThreadTypes,
            BlockRecord, callerVars, readerVars, ringVars, dataVars, endVars, localVars,
            Goto, ThreadPc, Res, FaultKinds
<1>1. CASE WaitStart(t)
  BY <1>1 DEF WaitStart
<1>2. CASE TakeRead(t)
  <2> USE <1>2 DEF TakeRead, AfterWait
  <2>1. CallerTypes' /\ RingTypes' /\ DataTypes' /\ EndTypes'
    OBVIOUS
  <2>2. ReaderTypes'
    OBVIOUS
  <2>3. ThreadTypes'
    BY ZenonT(40)
  <2>4. QED
    BY <2>1, <2>2, <2>3
<1>4. CASE TakeSlot(t)
  BY <1>4, NextInRing DEF TakeSlot, SlotFree
<1>7. CASE HandRead(t)
  BY <1>7 DEF HandRead, ReadEventAfter
<1>8. CASE TakeBuf(t)
  <2> USE <1>8, TakeFirstType DEF TakeBuf
  <2>1. CallerTypes' /\ ReaderTypes' /\ DataTypes' /\ EndTypes'
    OBVIOUS
  <2>2. RingTypes'
    OBVIOUS
  <2>3. ThreadTypes'
    <3>1. bufIndex' \in [Thread -> Buf \cup {None}]
      OBVIOUS
    <3>2. QED
      BY <3>1
  <2>4. QED
    BY <2>1, <2>2, <2>3
<1>9. CASE Code(t)
  <2> USE <1>9 DEF Code, SetError
  <2>1. CallerTypes' /\ ReaderTypes' /\ RingTypes'
    OBVIOUS
  <2>2. DataTypes'
    OBVIOUS
  <2>3. EndTypes'
    OBVIOUS
  <2>4. ThreadTypes'
    OBVIOUS
  <2>5. QED
    BY <2>1, <2>2, <2>3, <2>4
<1>10. CASE Store(t)
  BY <1>10 DEF Store
<1>13. CASE Release(t)
  <2> USE <1>13, NextInRing, GiveBackType DEF Release
  <2>1. CallerTypes' /\ ReaderTypes' /\ DataTypes' /\ EndTypes'
    OBVIOUS
  <2>2. RingTypes'
    <3>1. freeBlocks' \in Seq(Buf)
      OBVIOUS
    <3>2. Next(wi[t]) \in Slot
      OBVIOUS
    <3>3. readyBlocks' \in [Slot -> BOOLEAN] /\ writeIndex' \in Slot \cup {None}
      BY <3>2
    <3>4. QED
      BY <3>1, <3>3
  <2>3. ThreadTypes'
    OBVIOUS
  <2>4. QED
    BY <2>1, <2>2, <2>3
<1>15. CASE CountFinished(t)
  BY <1>15 DEF CountFinished
<1>16. CASE SignalFinished(t)
  BY <1>16 DEF SignalFinished
<1>17. QED
  BY <1>1, <1>2, <1>3, <1>4, <1>5, <1>6, <1>7, <1>8, <1>9, <1>10, <1>11, <1>12,
     <1>13, <1>14, <1>15, <1>16 DEF ThreadStep

\* In every behaviour of the coder, whatever fails and however often the
\* caller comes back, every variable keeps its type: the ring indexes stay in
\* the ring, the buffers in use in their range, the semaphore nonnegative.
THEOREM TypeCorrect == Spec => []TypeOK
<1>1. TypeOK /\ UNCHANGED vars => TypeOK'
  BY DEF TypeOK, CallerTypes, ReaderTypes, RingTypes, DataTypes, EndTypes, ThreadTypes,
         vars, callerVars, readerVars, ringVars, dataVars, endVars, localVars
<1>2. TypeOK /\ [NextStep]_vars => TypeOK'
  BY <1>1, MainTypeOK, ThreadTypeOK DEF NextStep, Terminating
<1>3. QED
  BY InitTypeOK, <1>2, PTL DEF Spec

-----------------------------------------------------------------------------
(* The rights to read and to write. *)

\* What the caller may rely on before it opens reading: no thread of this
\* object is at work.
Quiet ==
  /\ (main = "idle" /\ result = "none") \/ main = "first" => AtRest
  /\ main = "open" => \A t \in Thread : pc[t] \in {"none", "idle", "waitRead"}
  /\ main \in {"first", "open"} => ~ readEvent

\* The inductive invariant.
Tokens == TypeOK /\ Quiet /\ ReaderExclusive /\ WriterExclusive

\* At first no thread exists and no right is taken.
LEMMA InitTokens == Init => Tokens
  BY InitTypeOK DEF Init, Tokens, Quiet, AtRest, ReaderExclusive, WriterExclusive, Reading, Writing

\* A step of the caller; it starts a call only once.
LEMMA MainTokens == (MaxCalls = 1 \/ ~ EarlyReuse) /\ Tokens /\ (MainStep \/ NewInput) => Tokens'
<1> SUFFICES ASSUME MaxCalls = 1 \/ ~ EarlyReuse, Tokens, MainStep \/ NewInput PROVE Tokens'
  OBVIOUS
<1>1. TypeOK'
  BY MainTypeOK DEF Tokens
<1> USE DEF Tokens, Quiet, AtRest, ReaderExclusive, WriterExclusive, Reading, Writing,
            readerVars, ringVars, callerVars
<1>2. CASE NewInput
  <2>1. AtRest
    BY <1>2, MtCoderAssumption DEF NewInput, TypeOK, CallerTypes
  <2>2. main = "idle" /\ main' = main
    BY <1>2 DEF NewInput
  <2>3. UNCHANGED <<pc, startEvent, readEvent, writeIndex>>
    BY <1>2 DEF NewInput
  <2>4. QED
    BY <1>1, <2>1, <2>2, <2>3
<1>3. CASE Prologue
  <2>1. AtRest /\ main' = "first" /\ ~ readEvent'
    BY <1>3 DEF Prologue
  <2>2. UNCHANGED <<pc, startEvent>>
    BY <1>3 DEF Prologue
  <2>3. QED
    BY <1>1, <2>1, <2>2
<1>4. CASE StartFirst
  <2>1. \A t \in Thread : pc[t] \in {"none", "idle"}
    BY <1>4 DEF StartFirst, AtRest
  <2>2. \A t \in Thread : pc'[t] \in {"none", "idle"}
    BY <1>4, <2>1 DEF StartFirst, Created, TypeOK, ThreadTypes
  <2>3. UNCHANGED <<readEvent, writeIndex>>
    BY <1>4 DEF StartFirst
  <2>4. main' = "open" => ~ readEvent'
    BY <1>4, <2>3 DEF StartFirst
  <2>5. QED
    BY <1>1, <1>4, <2>2, <2>3, <2>4 DEF StartFirst
<1>5. CASE OpenReading
  BY <1>1, <1>5 DEF OpenReading
<1>6. CASE ReturnNoThread \/ WaitFinished \/ Collect
  BY <1>1, <1>6 DEF ReturnNoThread, WaitFinished, Collect
<1>7. CASE Free
  <2>1. \A t \in Thread : pc'[t] = "none"
    BY <1>7 DEF Free
  <2>2. Quiet'
    <3>1. \A t \in Thread : ~ startEvent'[t]
      BY <1>7 DEF Free
    <3>2. main' = "idle"
      BY <1>7 DEF Free
    <3>3. QED
      BY <2>1, <3>1, <3>2
  <2>3. QED
    BY <1>1, <1>7, <2>1, <2>2 DEF Free
<1>8. QED
  BY <1>2, <1>3, <1>4, <1>5, <1>6, <1>7 DEF MainStep

\* What a step of t does to the pc of the threads.
LEMMA ThreadPcChange ==
  ASSUME TypeOK, NEW t \in Thread, ThreadStep(t)
  PROVE  /\ pc[t] # "none" /\ pc'[t] # "none"
         /\ \A u \in Thread \ {t} :
              pc'[u] = pc[u] \/ (pc[u] = "none" /\ pc'[u] = "idle" /\ pc[t] = "start")
<1> USE DEF TypeOK, ThreadTypes, Goto
<1>1. CASE StartNext(t)
  <2>1. \A u \in Thread : Created(numStarted)[u] \in {pc[u], "idle"}
                          /\ (pc[u] # "none" => Created(numStarted)[u] = pc[u])
    BY DEF Created
  <2>2. pc' = [pc EXCEPT ![t] = "setRead"] \/ pc' = [Created(numStarted) EXCEPT ![t] = "setRead"]
    BY <1>1 DEF StartNext
  <2>3. pc[t] = "start" /\ pc'[t] = "setRead"
    BY <1>1, <2>2 DEF StartNext, Created
  <2>4. QED
    BY <2>1, <2>2, <2>3 DEF Created
<1>2. CASE WaitStart(t) \/ TakeRead(t) \/ Read(t) \/ TakeSlot(t) \/ Check(t)
  BY <1>2 DEF WaitStart, TakeRead, Read, TakeSlot, Check
<1>3. CASE HandRead(t) \/ TakeBuf(t) \/ Code(t) \/ Store(t) \/ Publish(t)
  BY <1>3 DEF HandRead, TakeBuf, Code, Store, Publish
<1>4. CASE Write(t) \/ Release(t) \/ Post(t) \/ CountFinished(t) \/ SignalFinished(t)
  BY <1>4 DEF Write, Release, Post, CountFinished, SignalFinished
<1>5. QED
  BY <1>1, <1>2, <1>3, <1>4 DEF ThreadStep

\* A thread starts reading only by taking readEvent and stops by setting it.
LEMMA ReadTokenMoves ==
  ASSUME TypeOK, NEW t \in Thread, ThreadStep(t)
  PROVE  \/ readEvent /\ ~ readEvent' /\ ~ Reading(t)
         \/ Reading(t) /\ ~ Reading(t)' /\ readEvent'
         \/ readEvent' = readEvent /\ Reading(t)' = Reading(t)
<1> USE DEF TypeOK, ThreadTypes, ReaderTypes, Goto, Reading, readerVars
<1>1. CASE TakeRead(t)
  <2>1. CASE stopReading
    BY <1>1, <2>1 DEF TakeRead
  <2>2. CASE ~ stopReading
    <3>1. readEvent /\ ~ readEvent' /\ pc[t] = "waitRead"
      BY <1>1, <2>2 DEF TakeRead, AfterWait
    <3>2. QED
      BY <3>1
  <2>3. QED
    BY <2>1, <2>2
<1>2. CASE HandRead(t)
  BY <1>2 DEF HandRead, ReadEventAfter
<1>3. CASE StartNext(t)
  <2>1. pc' = [pc EXCEPT ![t] = "setRead"] \/ pc' = [Created(numStarted) EXCEPT ![t] = "setRead"]
    BY <1>3 DEF StartNext
  <2>2. pc'[t] = "setRead"
    BY <2>1 DEF Created
  <2>3. QED
    BY <1>3, <2>2 DEF StartNext
<1>4. CASE WaitStart(t) \/ Read(t) \/ TakeSlot(t) \/ Check(t)
  BY <1>4 DEF WaitStart, Read, TakeSlot, Check
<1>5. CASE TakeBuf(t) \/ Code(t) \/ Store(t) \/ Publish(t)
  BY <1>5 DEF TakeBuf, Code, Store, Publish
<1>6. CASE Write(t) \/ Release(t) \/ Post(t) \/ CountFinished(t) \/ SignalFinished(t)
  BY <1>6 DEF Write, Release, Post, CountFinished, SignalFinished
<1>7. QED
  BY <1>1, <1>2, <1>3, <1>4, <1>5, <1>6 DEF ThreadStep

\* A thread starts writing only by taking writeIndex and stops by setting it.
LEMMA WriteTokenMoves ==
  ASSUME TypeOK, NEW t \in Thread, ThreadStep(t)
  PROVE  \/ writeIndex # None /\ writeIndex' = None /\ ~ Writing(t)
         \/ Writing(t) /\ ~ Writing(t)' /\ writeIndex' # None
         \/ writeIndex' = writeIndex /\ Writing(t)' = Writing(t)
<1> USE DEF TypeOK, ThreadTypes, RingTypes, Goto, Writing, ringVars
<1>1. CASE Publish(t)
  BY <1>1, ConstantFacts DEF Publish, TakenFrom
<1>2. CASE Release(t)
  BY <1>2, ConstantFacts, NextInRing DEF Release
<1>3. CASE StartNext(t)
  <2>1. pc' = [pc EXCEPT ![t] = "setRead"] \/ pc' = [Created(numStarted) EXCEPT ![t] = "setRead"]
    BY <1>3 DEF StartNext
  <2>2. pc'[t] = "setRead"
    BY <2>1 DEF Created
  <2>3. QED
    BY <1>3, <2>2 DEF StartNext
<1>4. CASE WaitStart(t) \/ TakeRead(t) \/ Read(t) \/ TakeSlot(t) \/ Check(t)
  BY <1>4 DEF WaitStart, TakeRead, Read, TakeSlot, Check
<1>5. CASE HandRead(t) \/ TakeBuf(t) \/ Code(t) \/ Store(t)
  BY <1>5 DEF HandRead, TakeBuf, Code, Store
<1>6. CASE Write(t) \/ Post(t) \/ CountFinished(t) \/ SignalFinished(t)
  BY <1>6 DEF Write, Post, CountFinished, SignalFinished
<1>7. QED
  BY <1>1, <1>2, <1>3, <1>4, <1>5, <1>6 DEF ThreadStep

\* A step of a thread moves the rights and never makes a second one.
LEMMA ThreadTokens == ASSUME NEW t \in Thread PROVE Tokens /\ ThreadStep(t) => Tokens'
<1> SUFFICES ASSUME Tokens, ThreadStep(t) PROVE Tokens'
  OBVIOUS
<1>0. TypeOK
  BY DEF Tokens
<1>1. TypeOK'
  BY <1>0, ThreadTypeOK
<1>2. UNCHANGED <<main, result>>
  BY DEF ThreadStep, callerVars, WaitStart, TakeRead, Read, TakeSlot, Check, StartNext,
         HandRead, TakeBuf, Code, Store, Publish, Write, Release, Post, CountFinished,
         SignalFinished
<1>3. /\ pc[t] # "none"
      /\ \A u \in Thread \ {t} :
           pc'[u] = pc[u] \/ (pc[u] = "none" /\ pc'[u] = "idle" /\ pc[t] = "start")
  BY <1>0, ThreadPcChange
<1>4. \A u \in Thread \ {t} : Reading(u)' = Reading(u) /\ Writing(u)' = Writing(u)
  BY <1>3 DEF Reading, Writing
<1>5. ReaderExclusive'
  BY <1>0, <1>4, ReadTokenMoves DEF Tokens, ReaderExclusive
<1>6. WriterExclusive'
  BY <1>0, <1>4, WriteTokenMoves DEF Tokens, WriterExclusive
<1>7. Quiet'
  <2>0. pc[t] = "idle" => startEvent[t]
    BY <1>0, <1>3 DEF ThreadStep, WaitStart, TakeRead, Read, TakeSlot, Check, StartNext,
         HandRead, TakeBuf, Code, Store, Publish, Write, Release, Post, CountFinished,
         SignalFinished
  <2>1. main \notin {"first"} /\ ~ (main = "idle" /\ result = "none")
    BY <1>3, <2>0 DEF Tokens, Quiet, AtRest
  <2>2. CASE main = "open"
    <3>1. pc[t] \in {"idle", "waitRead"} /\ ~ readEvent
      BY <1>3, <2>2 DEF Tokens, Quiet
    <3>2. WaitStart(t)
      BY <3>1 DEF ThreadStep, WaitStart, TakeRead, Read, TakeSlot, Check, StartNext,
         HandRead, TakeBuf, Code, Store, Publish, Write, Release, Post, CountFinished,
         SignalFinished
    <3>3. pc'[t] = "waitRead" /\ readEvent' = readEvent
      BY <1>0, <3>2 DEF WaitStart, Goto, readerVars, TypeOK, ThreadTypes
    <3>4. QED
      BY <1>2, <1>3, <2>2, <3>1, <3>3 DEF Tokens, Quiet
  <2>3. CASE main # "open"
    BY <1>2, <2>1, <2>3 DEF Quiet
  <2>4. QED
    BY <2>2, <2>3
<1>8. QED
  BY <1>1, <1>5, <1>6, <1>7 DEF Tokens

\* The invariant holds when an object is used once, or only when it rests.
THEOREM TokensInvariant == ASSUME MaxCalls = 1 \/ ~ EarlyReuse PROVE Spec => []Tokens
<1>1. Tokens /\ UNCHANGED vars => Tokens'
  BY DEF Tokens, Quiet, AtRest, ReaderExclusive, WriterExclusive, Reading, Writing, TypeOK,
         CallerTypes, ReaderTypes, RingTypes, DataTypes, EndTypes, ThreadTypes,
         vars, callerVars, readerVars, ringVars, dataVars, endVars, localVars
<1>2. Tokens /\ [NextStep]_vars => Tokens'
  BY <1>1, MainTokens, ThreadTokens DEF NextStep, Terminating
<1>3. QED
  BY InitTokens, <1>2, PTL DEF Spec

\* When an object is used once, or again only at rest, the right to read is at one
\* place, whatever fails: no two threads read the input, advance blockIndex or
\* start threads at the same time (MtCoder.c:116-221).
THEOREM OneReader == ASSUME MaxCalls = 1 \/ ~ EarlyReuse PROVE Spec => []ReaderExclusive
<1>1. Tokens => ReaderExclusive
  BY DEF Tokens
<1>2. QED
  BY <1>1, TokensInvariant, PTL

\* Under the same assumption the right to write is at one place: no two threads write to
\* the output at the same time (MtCoder.c:252-312).
THEOREM OneWriter == ASSUME MaxCalls = 1 \/ ~ EarlyReuse PROVE Spec => []WriterExclusive
<1>1. Tokens => WriterExclusive
  BY DEF Tokens
<1>2. QED
  BY <1>1, TokensInvariant, PTL

\* Under the same assumption both rights have one owner, whatever the number of threads
\* and whatever fails (MtCoder.c:116-312).
THEOREM RightsAreExclusive == ASSUME MaxCalls = 1 \/ ~ EarlyReuse PROVE Spec => []RightsExclusive
<1>1. Tokens => RightsExclusive
  BY DEF Tokens, RightsExclusive
<1>2. QED
  BY <1>1, TokensInvariant, PTL

-----------------------------------------------------------------------------
(* The end of a call. *)

\* A thread works for the call from its startEvent to its count in numFinished.
Active(t) == startEvent[t] \/ pc[t] \notin {"none", "idle", "finish"}

Act == {t \in Thread : Active(t)}

InCall == main \in {"first", "open", "wait"}

\* The threads not yet started, and the one about to start another.
Unstarted ==
  /\ \A t \in Thread : startEvent[t] => pc[t] = "idle"
  /\ InCall => \A t \in Thread : t >= numStarted => pc[t] \in {"none", "idle"} /\ ~ startEvent[t]
  /\ \A t \in Thread : pc[t] = "start" => numStarted < NumThreads

\* The threads started and not counted as finished are those at work.
Counted ==
  /\ InCall => numStarted = numFinished + Cardinality(Act)
  /\ InCall => \A t \in Thread : pc[t] = "finish" => numFin[t] <= numFinished

\* Nobody works outside a call or when the caller is woken.
Over ==
  /\ main \notin {"open", "wait"} => Act = {}
  /\ finishedEvent => Act = {}
  /\ main = "first" => ~ finishedEvent

Ending == Tokens /\ Unstarted /\ Counted /\ Over

\* There are finitely many threads, so those at work can be counted.
LEMMA ThreadsFinite ==
  ASSUME NEW S \in SUBSET Thread
  PROVE  IsFiniteSet(S) /\ Cardinality(S) \in Nat
<1>1. IsFiniteSet(Thread)
  BY ConstantFacts, FS_Interval DEF Thread
<1>2. IsFiniteSet(S)
  BY <1>1, FS_Subset
<1>3. QED
  BY <1>2, FS_CardinalityType

\* At first nobody works.
LEMMA InitEnding == Init => Ending
<1> SUFFICES ASSUME Init PROVE Ending
  OBVIOUS
<1>1. Tokens
  BY InitTokens
<1>2. Act = {}
  BY DEF Init, Act, Active
<1>3. QED
  BY <1>1, <1>2 DEF Init, Ending, Unstarted, Counted, Over, InCall

\* The steps of a thread between its start and its end.
Working(t) ==
  \/ TakeRead(t) \/ Read(t) \/ TakeSlot(t) \/ Check(t) \/ HandRead(t) \/ TakeBuf(t)
  \/ Code(t) \/ Store(t) \/ Publish(t) \/ Write(t) \/ Release(t) \/ Post(t)

\* What they leave alone.
LEMMA WorkKeeps ==
  ASSUME TypeOK, NEW t \in Thread, Working(t)
  PROVE  /\ UNCHANGED <<main, numStarted, numFinished, finishedEvent, startEvent, numFin>>
         /\ pc[t] \notin {"none", "idle", "finish"} /\ pc'[t] \notin {"none", "idle", "finish"}
         /\ pc'[t] = "start" => numStarted < NumThreads
         /\ \A u \in Thread \ {t} : pc'[u] = pc[u]
<1> USE DEF TypeOK, ThreadTypes, Goto, callerVars, readerVars, endVars, localVars
<1>1. CASE TakeRead(t) \/ Read(t) \/ TakeSlot(t) \/ HandRead(t)
  BY <1>1 DEF TakeRead, Read, TakeSlot, HandRead
<1>2. CASE Check(t)
  BY <1>2 DEF Check
<1>3. CASE TakeBuf(t) \/ Code(t) \/ Store(t) \/ Publish(t)
  BY <1>3 DEF TakeBuf, Code, Store, Publish
<1>4. CASE Write(t) \/ Release(t) \/ Post(t)
  BY <1>4 DEF Write, Release, Post
<1>5. QED
  BY <1>1, <1>2, <1>3, <1>4 DEF Working

\* So they end nothing.
LEMMA WorkEnding ==
  ASSUME Ending, NEW t \in Thread, Working(t)
  PROVE  Unstarted' /\ Counted' /\ Over'
<1>1. TypeOK
  BY DEF Ending, Tokens
<1>2. /\ UNCHANGED <<main, numStarted, numFinished, finishedEvent, startEvent, numFin>>
      /\ pc[t] \notin {"none", "idle", "finish"} /\ pc'[t] \notin {"none", "idle", "finish"}
      /\ pc'[t] = "start" => numStarted < NumThreads
      /\ \A u \in Thread \ {t} : pc'[u] = pc[u]
  BY <1>1, WorkKeeps
<1>3. Act' = Act
  BY <1>2 DEF Act, Active
<1>4. Unstarted'
  BY <1>2 DEF Ending, Unstarted, InCall
<1>5. Counted' /\ Over'
  BY <1>2, <1>3 DEF Ending, Counted, Over, InCall
<1>6. QED
  BY <1>4, <1>5

\* A started thread begins (MtCoder.c:325-333).
LEMMA WaitStartEnding ==
  ASSUME Ending, NEW t \in Thread, WaitStart(t)
  PROVE  Unstarted' /\ Counted' /\ Over'
<1>1. /\ UNCHANGED <<main, numStarted, numFinished, finishedEvent, numFin>>
      /\ pc[t] = "idle" /\ startEvent[t] /\ pc'[t] = "waitRead" /\ ~ startEvent'[t]
      /\ \A u \in Thread \ {t} : pc'[u] = pc[u] /\ startEvent'[u] = startEvent[u]
  BY DEF WaitStart, Goto, Ending, Tokens, TypeOK, ThreadTypes, callerVars, readerVars, endVars, localVars
<1>2. Act' = Act
  BY <1>1 DEF Act, Active
<1>3. Unstarted'
  BY <1>1 DEF Ending, Unstarted, InCall
<1>4. Counted' /\ Over'
  BY <1>1, <1>2 DEF Ending, Counted, Over, InCall
<1>5. QED
  BY <1>3, <1>4

\* Starting a thread that does not work yet (MtCoder.c:196-221).
LEMMA StartNextEnding ==
  ASSUME Ending, NEW t \in Thread, StartNext(t)
  PROVE  Unstarted' /\ Counted' /\ Over'
<1>1. TypeOK /\ ReaderExclusive
  BY DEF Ending, Tokens
<1>2. /\ pc[t] = "start" /\ t \in Act /\ numStarted < NumThreads /\ numStarted \in Thread
      /\ numStarted \in Nat /\ numFinished \in Nat
  BY <1>1, ConstantFacts DEF StartNext, Ending, Unstarted, Act, Active, Thread, TypeOK, ReaderTypes, EndTypes
<1>3. InCall /\ ~ finishedEvent
  BY <1>2 DEF Ending, Over, InCall
<1>4. UNCHANGED <<main, numFinished, finishedEvent, numFin>>
  BY DEF StartNext, callerVars, endVars, localVars
<1>5. \A u \in Thread \ {t} : pc[u] # "start"
  BY <1>1, <1>2 DEF ReaderExclusive, Reading
<1>6. t # numStarted /\ pc[numStarted] \in {"none", "idle"} /\ ~ startEvent[numStarted]
  BY <1>2, <1>3 DEF Ending, Unstarted
<1>7. CASE numStarted' = numStarted
  <2>1. /\ UNCHANGED startEvent /\ pc'[t] = "setRead"
        /\ \A u \in Thread \ {t} : pc'[u] = pc[u]
    BY <1>1, <1>2, <1>7 DEF StartNext, StartThread, Goto, TypeOK, ThreadTypes
  <2>2. Act' = Act
    BY <1>2, <2>1 DEF Act, Active
  <2>3. QED
    BY <1>2, <1>4, <1>5, <1>7, <2>1, <2>2 DEF Ending, Unstarted, Counted, Over, InCall
<1>8. CASE numStarted' # numStarted
  <2>0. PICK n \in Thread : n = numStarted
    BY <1>2
  <2>1. /\ numStarted' = n + 1
        /\ startEvent' = [startEvent EXCEPT ![n] = TRUE]
        /\ pc' = [Created(n) EXCEPT ![t] = "setRead"]
    BY <1>8, <2>0 DEF StartNext, StartThread
  <2>2. /\ pc'[t] = "setRead" /\ pc'[n] = "idle" /\ startEvent'[n]
        /\ \A u \in Thread \ {t, n} : pc'[u] = pc[u] /\ startEvent'[u] = startEvent[u]
        /\ startEvent'[t] = startEvent[t]
    BY <1>1, <1>6, <2>0, <2>1 DEF Created, TypeOK, ThreadTypes
  <2>3. Act' = Act \cup {n} /\ n \notin Act
    BY <1>2, <1>6, <2>0, <2>2 DEF Act, Active
  <2>4. Cardinality(Act') = Cardinality(Act) + 1 /\ Cardinality(Act) \in Nat
    BY <2>3, ThreadsFinite, FS_AddElement DEF Act
  <2>5. Unstarted'
    <3>1. \A u \in Thread : startEvent'[u] => pc'[u] = "idle"
      BY <1>2, <2>2 DEF Ending, Unstarted
    <3>2. \A u \in Thread : u >= n + 1 => pc'[u] \in {"none", "idle"} /\ ~ startEvent'[u]
      <4> SUFFICES ASSUME NEW u \in Thread, u >= n + 1
                   PROVE  pc'[u] \in {"none", "idle"} /\ ~ startEvent'[u]
        OBVIOUS
      <4>1. u >= n /\ u # n
        BY <1>2, <2>0, ConstantFacts DEF Thread
      <4>2. pc[u] \in {"none", "idle"} /\ ~ startEvent[u]
        BY <1>3, <2>0, <4>1 DEF Ending, Unstarted
      <4>3. QED
        BY <1>2, <2>2, <4>1, <4>2
    <3>3. \A u \in Thread : pc'[u] # "start"
      BY <1>5, <2>2
    <3>4. QED
      BY <2>1, <3>1, <3>2, <3>3 DEF Unstarted
  <2>6. Counted'
    <3>1. numStarted = numFinished + Cardinality(Act)
      BY <1>3 DEF Ending, Counted
    <3>2. n + 1 = numFinished + Cardinality(Act')
      BY <1>2, <2>0, <2>4, <3>1
    <3>3. \A u \in Thread : pc'[u] = "finish" => numFin[u] <= numFinished
      BY <1>3, <2>2 DEF Ending, Counted
    <3>4. QED
      BY <1>4, <2>1, <3>2, <3>3 DEF Counted
  <2>7. Over'
    BY <1>2, <1>3, <1>4 DEF Ending, Over, InCall
  <2>8. QED
    BY <2>5, <2>6, <2>7
<1>9. QED
  BY <1>7, <1>8

\* A thread is counted when it ends (MtCoder.c:346-350).
LEMMA CountEnding ==
  ASSUME Ending, NEW t \in Thread, CountFinished(t)
  PROVE  Unstarted' /\ Counted' /\ Over'
<1>1. /\ UNCHANGED <<main, numStarted, finishedEvent, startEvent>>
      /\ numFinished' = numFinished + 1 /\ numFin'[t] = numFinished + 1
      /\ pc[t] = "incr" /\ pc'[t] = "finish" /\ ~ startEvent[t]
      /\ \A u \in Thread \ {t} : pc'[u] = pc[u] /\ numFin'[u] = numFin[u]
  BY DEF CountFinished, Goto, Ending, Unstarted, Tokens, TypeOK, ThreadTypes, callerVars, readerVars
<1>2. numFinished \in Nat /\ numStarted \in Nat /\ \A u \in Thread : numFin[u] \in Nat
  BY DEF Ending, Tokens, TypeOK, EndTypes, ReaderTypes, ThreadTypes
<1>3. Act' = Act \ {t} /\ t \in Act
  BY <1>1 DEF Act, Active
<1>4. Cardinality(Act') = Cardinality(Act) - 1 /\ Cardinality(Act) \in Nat
  BY <1>3, ThreadsFinite, FS_RemoveElement DEF Act
<1>5. Unstarted'
  BY <1>1 DEF Ending, Unstarted, InCall
<1>6. Counted'
  <2>1. InCall => numStarted = (numFinished + 1) + Cardinality(Act')
    BY <1>2, <1>4 DEF Ending, Counted
  <2>2. InCall => \A u \in Thread : pc'[u] = "finish" => numFin'[u] <= numFinished + 1
    BY <1>1, <1>2 DEF Ending, Counted
  <2>3. QED
    BY <1>1, <2>1, <2>2 DEF Counted, InCall
<1>7. Over'
  BY <1>1, <1>3 DEF Ending, Over
<1>8. QED
  BY <1>5, <1>6, <1>7

\* The last one counted wakes the caller (MtCoder.c:350-352).
LEMMA SignalEnding ==
  ASSUME Ending, NEW t \in Thread, SignalFinished(t)
  PROVE  Unstarted' /\ Counted' /\ Over'
<1>1. /\ UNCHANGED <<main, numStarted, numFinished, startEvent>>
      /\ pc[t] = "finish" /\ pc'[t] = "idle" /\ ~ startEvent[t]
      /\ finishedEvent' = (finishedEvent \/ numFin[t] = numStarted)
      /\ \A u \in Thread \ {t} : pc'[u] = pc[u] /\ numFin'[u] = numFin[u]
  BY DEF SignalFinished, LastOne, Goto, Ending, Unstarted, Tokens, TypeOK, ThreadTypes, callerVars, readerVars
<1>2. Act' = Act
  BY <1>1 DEF Act, Active
<1>3. Unstarted'
  BY <1>1 DEF Ending, Unstarted, InCall
<1>4. Counted'
  BY <1>1, <1>2 DEF Ending, Counted, InCall
<1>5. main # "first"
  BY <1>1 DEF Ending, Tokens, Quiet, AtRest
<1>6. InCall /\ numFin[t] = numStarted => Act = {}
  <2> SUFFICES ASSUME InCall, numFin[t] = numStarted PROVE Act = {}
    OBVIOUS
  <2>1. /\ numStarted \in Nat /\ numFinished \in Nat
        /\ numStarted <= numFinished /\ numStarted = numFinished + Cardinality(Act)
    BY <1>1 DEF Ending, Counted, Tokens, TypeOK, EndTypes, ReaderTypes
  <2>2. Cardinality(Act) = 0
    BY <2>1, ThreadsFinite DEF Act
  <2>3. QED
    BY <2>2, ThreadsFinite, FS_EmptySet DEF Act
<1>7. Over'
  BY <1>1, <1>2, <1>5, <1>6 DEF Ending, Over, InCall
<1>8. QED
  BY <1>3, <1>4, <1>7

\* A step of the caller.
LEMMA MainEnding ==
  ASSUME MaxCalls = 1 \/ ~ EarlyReuse, Ending, MainStep \/ NewInput
  PROVE  Unstarted' /\ Counted' /\ Over'
<1>0. TypeOK /\ Quiet /\ numStarted \in Nat /\ numFinished \in Nat
  BY DEF Ending, Tokens, TypeOK, EndTypes, ReaderTypes
<1>1. CASE Prologue
  <2>1. /\ AtRest /\ main' = "first" /\ numStarted' = 0 /\ numFinished' = 0 /\ ~ finishedEvent'
        /\ UNCHANGED <<pc, startEvent, numFin>>
    BY <1>0, <1>1 DEF Prologue, Quiet, localVars
  <2>2. Act' = {}
    BY <2>1 DEF Act, Active, AtRest
  <2>3. Cardinality(Act') = 0
    BY <2>2, FS_EmptySet
  <2>4. QED
    BY <2>1, <2>2, <2>3 DEF Unstarted, Counted, Over, InCall, AtRest
<1>2. CASE StartFirst /\ main' = "open"
  <2>1. /\ AtRest /\ ~ finishedEvent /\ Act = {} /\ main = "first"
        /\ numStarted' = numStarted + 1 /\ startEvent' = [startEvent EXCEPT ![0] = TRUE]
        /\ pc' = Created(0) /\ UNCHANGED <<numFinished, finishedEvent, numFin>>
    BY <1>0, <1>2 DEF StartFirst, StartThread, Quiet, Ending, Over, endVars, localVars
  <2>2. /\ pc'[0] = "idle" /\ startEvent'[0]
        /\ \A u \in Thread : pc'[u] \in {"none", "idle"}
        /\ \A u \in Thread \ {0} : ~ startEvent'[u]
    BY <1>0, <2>1, ConstantFacts DEF Created, AtRest, TypeOK, ThreadTypes
  <2>3. Act' = {0}
    BY <2>2, ConstantFacts DEF Act, Active
  <2>4. Cardinality(Act') = 1 /\ Cardinality(Act) = 0
    BY <2>1, <2>3, FS_Singleton, FS_EmptySet
  <2>5. numStarted = numFinished + 0
    BY <2>1, <2>4 DEF Ending, Counted, InCall
  <2>6. \A u \in Thread : u >= numStarted + 1 => u # 0
    BY <1>0 DEF Thread
  <2>7. QED
    BY <1>0, <1>2, <2>1, <2>2, <2>4, <2>5, <2>6 DEF Unstarted, Counted, Over, InCall
<1>3. CASE StartFirst /\ main' # "open"
  <2>1. main = "first" /\ main' = "noThread" /\ UNCHANGED <<pc, startEvent, finishedEvent>>
    BY <1>3 DEF StartFirst, endVars
  <2>2. Act' = Act /\ Act = {} /\ AtRest
    BY <1>0, <2>1 DEF Act, Active, Ending, Over, Quiet
  <2>3. QED
    BY <2>1, <2>2 DEF Unstarted, Counted, Over, InCall, AtRest
<1>4. CASE OpenReading
  <2>1. /\ main = "open" /\ main' = "wait"
        /\ UNCHANGED <<pc, startEvent, finishedEvent, numStarted, numFinished, numFin>>
    BY <1>4 DEF OpenReading, endVars, localVars
  <2>2. Act' = Act
    BY <2>1 DEF Act, Active
  <2>3. QED
    BY <2>1, <2>2 DEF Ending, Unstarted, Counted, Over, InCall
<1>5. CASE WaitFinished
  <2>1. /\ Act = {} /\ main' = "collect" /\ ~ finishedEvent'
        /\ UNCHANGED <<pc, startEvent, numStarted>>
    BY <1>5 DEF WaitFinished, Ending, Over, readerVars
  <2>2. Act' = {}
    BY <2>1 DEF Act, Active
  <2>3. QED
    BY <2>1, <2>2 DEF Ending, Unstarted, Counted, Over, InCall
<1>6. CASE ReturnNoThread \/ Collect \/ NewInput
  <2>1. /\ main \notin {"open", "wait"} /\ main' \notin {"first", "open", "wait"}
        /\ UNCHANGED <<pc, startEvent, numStarted>>
    BY <1>6 DEF ReturnNoThread, Collect, NewInput, readerVars
  <2>2. Act' = Act /\ Act = {}
    BY <2>1 DEF Act, Active, Ending, Over
  <2>3. QED
    BY <2>1, <2>2 DEF Ending, Unstarted, Counted, Over, InCall
<1>7. CASE Free
  <2>1. main' = "idle" /\ \A u \in Thread : pc'[u] = "none" /\ ~ startEvent'[u]
    BY <1>7 DEF Free
  <2>2. Act' = {}
    BY <2>1 DEF Act, Active
  <2>3. QED
    BY <2>1, <2>2 DEF Unstarted, Counted, Over, InCall
<1>8. QED
  BY <1>1, <1>2, <1>3, <1>4, <1>5, <1>6, <1>7 DEF MainStep

\* The invariant holds in every state.
THEOREM EndingInvariant == ASSUME MaxCalls = 1 \/ ~ EarlyReuse PROVE Spec => []Ending
<1>1. Ending /\ UNCHANGED vars => Ending'
  <2> SUFFICES ASSUME Ending, UNCHANGED vars PROVE Ending'
    OBVIOUS
  <2>1. Tokens'
    BY DEF Ending, Tokens, Quiet, AtRest, ReaderExclusive, WriterExclusive, Reading, Writing,
           TypeOK, CallerTypes, ReaderTypes, RingTypes, DataTypes, EndTypes, ThreadTypes,
           vars, callerVars, readerVars, ringVars, dataVars, endVars, localVars
  <2>2. UNCHANGED <<main, numStarted, numFinished, finishedEvent, startEvent, pc, numFin>>
    BY DEF vars, callerVars, readerVars, endVars, localVars
  <2>3. Act' = Act
    BY <2>2 DEF Act, Active
  <2>4. QED
    BY <2>1, <2>2, <2>3 DEF Ending, Unstarted, Counted, Over, InCall
<1>2. Ending /\ (MainStep \/ NewInput) => Ending'
  BY MainTokens, MainEnding DEF Ending
<1>3. ASSUME NEW t \in Thread PROVE Ending /\ ThreadStep(t) => Ending'
  <2>1. Ending /\ ThreadStep(t) => Tokens'
    BY ThreadTokens DEF Ending
  <2>2. QED
    BY <2>1, WorkEnding, WaitStartEnding, StartNextEnding, CountEnding, SignalEnding
       DEF Ending, ThreadStep, Working
<1>4. Ending /\ [NextStep]_vars => Ending'
  BY <1>1, <1>2, <1>3 DEF NextStep, Terminating
<1>5. QED
  BY InitEnding, <1>4, PTL DEF Spec

\* When an object is used once, or again only at rest, no thread started for the call still
\* works when the caller is woken, whatever failed and however many were started
\* (MtCoder.c:350-352).
THEOREM NoThreadIsLeft == ASSUME MaxCalls = 1 \/ ~ EarlyReuse PROVE Spec => []NoStragglers
<1>1. Ending => NoStragglers
  BY DEF Ending, Over, NoStragglers, Act, Active
<1>2. QED
  BY <1>1, EndingInvariant, PTL

-----------------------------------------------------------------------------
(* The ring: the slots, the semaphore, the output buffers and the free list are in step. *)

N == NumBlocksMax

\* How many slots after w the slot i is, and the slot that is l slots after w.
Rank(w, i) == IF i >= w THEN i - w ELSE i - w + N
End(w, l)  == IF w + l >= N THEN w + l - N ELSE w + l

\* Before the first call the ring is not set up.
Fresh ==
  /\ main = "idle" /\ result = "none"
  /\ blocksSemaphore = 0 /\ freeBlocks = <<>>
  /\ readyBlocks = [i \in Slot |-> FALSE]
  /\ pc = [t \in Thread |-> "none"]

\* Threads that are about to give back a slot of the ring.
Posting == {t \in Thread : pc[t] \in {"postMore", "postLast"}}

\* The slots in use are the l slots from w, where the next block is written, to
\* blockIndex, where the next block goes.
Span(w, l) ==
  /\ w \in Slot /\ l \in 0..N
  /\ blockIndex = End(w, l)
  /\ blocksSemaphore + Cardinality(Posting) + l = N
  /\ writeIndex # None => writeIndex = w
  /\ \A i \in Slot : readyBlocks[i] => Rank(w, i) < l

\* A thread that fills a slot has it for itself.
Owners(w, l) ==
  \A t \in Thread : OwnsSlot(t) =>
    /\ Rank(w, bi[t]) < l
    /\ ~ readyBlocks[bi[t]]
    /\ \A u \in Thread \ {t} : OwnsSlot(u) => bi[u] # bi[t]

\* So has the thread that writes the block of the first slot.
Writers(w, l) ==
  \A t \in Thread : Writing(t) =>
    /\ wi[t] = w /\ l > 0
    /\ ~ readyBlocks[w]
    /\ \A u \in Thread : OwnsSlot(u) => bi[u] # w

Ring(w, l) == Span(w, l) /\ Owners(w, l) /\ Writers(w, l)

RingInv == \E w, l : Ring(w, l)

Low == 0 .. N - 1

\* A thread that has no buffer yet names none, and a record is the thread's.
NamedBy(t) ==
  /\ pc[t] \in {"check", "start", "setRead", "takeBuf"} => bufIndex[t] = None
  /\ pc[t] = "publish" => blocks[bi[t]].bufIndex = bufIndex[t]

Named == \A t \in Thread : NamedBy(t)

\* The free list: no buffer twice, those up to the number of slots first.
FreeList ==
  /\ \A j, k \in DOMAIN freeBlocks : j # k => freeBlocks[j] # freeBlocks[k]
  /\ \A j, k \in DOMAIN freeBlocks : j < k /\ freeBlocks[k] < N => freeBlocks[j] < N

\* Only those are in use.
UsedLow ==
  /\ \A t \in Thread : ThreadBuf(t) \in Low \cup {None}
  /\ \A i \in Slot : SlotBuf(i) \in Low \cup {None}

\* None of them is lost.
NoneLost ==
  \A b \in Low : \/ \E k \in DOMAIN freeBlocks : freeBlocks[k] = b
                 \/ \E t \in Thread : ThreadBuf(t) = b
                 \/ \E i \in Slot : SlotBuf(i) = b

BufInv == Named /\ FreeList /\ UsedLow /\ NoneLost /\ BufferExclusive

InStep == Tokens /\ (Fresh \/ (RingInv /\ BufInv))

-----------------------------------------------------------------------------
(* Positions in the ring. *)

\* Ranks tell the slots apart, and they go down by one when the start moves on.
LEMMA RankFacts ==
  ASSUME NEW w \in Slot, NEW i \in Slot
  PROVE  /\ Rank(w, i) \in 0 .. N - 1
         /\ Rank(w, i) = 0 <=> i = w
         /\ \A j \in Slot : Rank(w, i) = Rank(w, j) => i = j
         /\ Rank(Next(w), i) = IF i = w THEN N - 1 ELSE Rank(w, i) - 1
  BY ConstantFacts DEF Rank, Next, Slot, N

\* The end of l slots: its rank is l, and how it moves with either end.
LEMMA EndFacts ==
  ASSUME NEW w \in Slot, NEW l \in 0..N
  PROVE  /\ l < N => End(w, l) \in Slot /\ Rank(w, End(w, l)) = l
                     /\ Next(End(w, l)) = End(w, l + 1)
         /\ l > 0 => End(Next(w), l - 1) = End(w, l)
  BY ConstantFacts DEF Rank, End, Next, Slot, N

-----------------------------------------------------------------------------
(* The slots. *)

\* A step of t changes no other thread's place in the ring.
LEMMA OthersStay ==
  ASSUME TypeOK, NEW t \in Thread, ThreadStep(t), NEW u \in Thread \ {t}
  PROVE  /\ OwnsSlot(u)' <=> OwnsSlot(u)
         /\ Writing(u)' <=> Writing(u)
         /\ (u \in Posting)' <=> u \in Posting
<1>1. pc'[u] = pc[u] \/ (pc[u] = "none" /\ pc'[u] = "idle")
  BY ThreadPcChange
<1>2. QED
  BY <1>1 DEF OwnsSlot, Writing, Posting

\* The steps that leave the ring as it is.
RingAside(t) ==
  \/ WaitStart(t) \/ TakeRead(t) \/ Read(t) \/ Check(t) \/ StartNext(t) \/ HandRead(t)
  \/ TakeBuf(t) \/ Code(t) \/ Store(t) \/ Write(t) \/ CountFinished(t) \/ SignalFinished(t)

\* What t does in them.
LEMMA AsideKeeps ==
  ASSUME TypeOK, NEW t \in Thread, RingAside(t)
  PROVE  /\ UNCHANGED <<blocksSemaphore, blockIndex, writeIndex, readyBlocks, bi, wi>>
         /\ OwnsSlot(t)' <=> OwnsSlot(t)
         /\ Writing(t)' <=> Writing(t)
         /\ pc[t] \notin {"postMore", "postLast"} /\ pc'[t] \notin {"postMore", "postLast"}
<1> USE DEF TypeOK, ThreadTypes, Goto, OwnsSlot, Writing, readerVars, ringVars, localVars
<1>1. CASE WaitStart(t) \/ TakeRead(t) \/ Read(t) \/ Check(t)
  BY <1>1 DEF WaitStart, TakeRead, Read, Check
<1>2. CASE StartNext(t)
  <2>1. pc' = [pc EXCEPT ![t] = "setRead"] \/ pc' = [Created(numStarted) EXCEPT ![t] = "setRead"]
    BY <1>2 DEF StartNext
  <2>2. pc'[t] = "setRead"
    BY <2>1 DEF Created
  <2>3. QED
    BY <1>2, <2>2 DEF StartNext
<1>3. CASE HandRead(t) \/ TakeBuf(t) \/ Code(t) \/ Store(t)
  BY <1>3 DEF HandRead, TakeBuf, Code, Store
<1>4. CASE Write(t) \/ CountFinished(t) \/ SignalFinished(t)
  BY <1>4 DEF Write, CountFinished, SignalFinished
<1>5. QED
  BY <1>1, <1>2, <1>3, <1>4 DEF RingAside

\* So they keep the ring.
LEMMA AsideRing ==
  ASSUME TypeOK, NEW t \in Thread, RingAside(t), NEW w, NEW l, Ring(w, l)
  PROVE  Ring(w, l)'
<1>0. ThreadStep(t)
  BY DEF RingAside, ThreadStep
<1>1. w \in Slot /\ l \in 0..N
  BY DEF Ring, Span
<1>2. \A u \in Thread : /\ OwnsSlot(u)' <=> OwnsSlot(u)
                        /\ Writing(u)' <=> Writing(u)
                        /\ (u \in Posting)' <=> u \in Posting
  BY <1>0, OthersStay, AsideKeeps DEF Posting
<1>3. Posting' = Posting
  BY <1>2 DEF Posting
<1>4. UNCHANGED <<blocksSemaphore, blockIndex, writeIndex, readyBlocks, bi, wi>>
  BY AsideKeeps
<1>5. Span(w, l)'
  BY <1>1, <1>3, <1>4 DEF Ring, Span
<1>6. Owners(w, l)'
  BY <1>1, <1>2, <1>4 DEF Ring, Owners
<1>7. Writers(w, l)'
  BY <1>1, <1>2, <1>4 DEF Ring, Writers
<1>8. QED
  BY <1>5, <1>6, <1>7 DEF Ring

\* A slot is taken only where the ring has room (MtCoder.c:175-188).
LEMMA TakeSlotRing ==
  ASSUME TypeOK, NEW t \in Thread, TakeSlot(t), NEW w, NEW l, Ring(w, l)
  PROVE  Ring(w, l + 1)' /\ l < N
<1>0. ThreadStep(t)
  BY DEF ThreadStep
<1>1. w \in Slot /\ l \in 0..N
  BY DEF Ring, Span
<1>2. w \in Slot /\ l \in 0..N /\ l < N
  BY <1>1, ThreadsFinite, ConstantFacts DEF Ring, Span, TakeSlot, SlotFree, Posting, TypeOK, RingTypes, N
<1>3. /\ bi' = [bi EXCEPT ![t] = blockIndex] /\ blockIndex' = Next(blockIndex)
      /\ blocksSemaphore' = blocksSemaphore - 1
      /\ UNCHANGED <<writeIndex, readyBlocks, wi>>
      /\ pc[t] = "waitBlock" /\ pc'[t] = "check"
  BY DEF TakeSlot, Goto, TypeOK, ThreadTypes
<1>4. blockIndex \in Slot /\ Rank(w, blockIndex) = l /\ blockIndex' = End(w, l + 1)
  BY <1>1, <1>2, <1>3, EndFacts DEF Ring, Span
<1>5. /\ bi'[t] = blockIndex /\ OwnsSlot(t)' /\ ~ OwnsSlot(t) /\ ~ Writing(t) /\ ~ Writing(t)'
      /\ \A u \in Thread \ {t} : bi'[u] = bi[u]
  BY <1>3 DEF OwnsSlot, Writing, TypeOK, ThreadTypes
<1>6. Posting' = Posting
  BY <1>0, <1>3, OthersStay DEF Posting
<1>7. ~ readyBlocks[blockIndex] /\ \A u \in Thread : OwnsSlot(u) => bi[u] # blockIndex
  BY <1>1, <1>2, <1>4 DEF Ring, Span, Owners
<1>8. Span(w, l + 1)'
  <2>1. l + 1 \in 0..N /\ blocksSemaphore' + Cardinality(Posting') + (l + 1) = N
    <3>1. blocksSemaphore + Cardinality(Posting) + l = N /\ blocksSemaphore \in Nat /\ N \in Nat
      BY <1>1, ConstantFacts DEF Ring, Span, N, TypeOK, RingTypes
    <3>2. Cardinality(Posting) \in Nat
      BY ThreadsFinite DEF Posting
    <3>3. QED
      BY <1>2, <1>3, <1>6, <3>1, <3>2
  <2>2. \A i \in Slot : readyBlocks[i] => Rank(w, i) < l + 1
    BY <1>1, <1>2, RankFacts, ConstantFacts DEF Ring, Span, N
  <2>3. QED
    BY <1>1, <1>2, <1>3, <1>4, <2>1, <2>2 DEF Ring, Span
<1>9. Owners(w, l + 1)'
  <2> SUFFICES ASSUME NEW u \in Thread, OwnsSlot(u)'
               PROVE  /\ Rank(w, bi'[u]) < l + 1
                      /\ ~ readyBlocks'[bi'[u]]
                      /\ \A v \in Thread \ {u} : OwnsSlot(v)' => bi'[v] # bi'[u]
    BY DEF Owners
  <2>1. CASE u = t
    BY <2>1, <1>0, <1>2, <1>3, <1>4, <1>5, <1>7, OthersStay
  <2>2. CASE u # t
    <3>1. OwnsSlot(u) /\ bi'[u] = bi[u] /\ bi[u] \in Slot
      BY <2>2, <1>0, <1>5, OthersStay DEF TypeOK, ThreadTypes
    <3>2. Rank(w, bi[u]) < l + 1
      BY <1>1, <1>2, <3>1, RankFacts, ConstantFacts DEF Ring, Owners, N
    <3>3. \A v \in Thread \ {u} : OwnsSlot(v)' => bi'[v] # bi'[u]
      BY <1>0, <1>1, <1>5, <1>7, <3>1, OthersStay DEF Ring, Owners
    <3>4. QED
      BY <1>1, <1>3, <3>1, <3>2, <3>3 DEF Ring, Owners
  <2>3. QED
    BY <2>1, <2>2
<1>10. Writers(w, l + 1)'
  <2> SUFFICES ASSUME NEW u \in Thread, Writing(u)'
               PROVE  /\ wi'[u] = w /\ l + 1 > 0
                      /\ ~ readyBlocks'[w]
                      /\ \A v \in Thread : OwnsSlot(v)' => bi'[v] # w
    BY DEF Writers
  <2>1. Writing(u) /\ u # t
    BY <1>0, <1>5, OthersStay
  <2>2. wi[u] = w /\ l > 0 /\ ~ readyBlocks[w] /\ \A v \in Thread : OwnsSlot(v) => bi[v] # w
    BY <1>1, <2>1 DEF Ring, Writers
  <2>3. blockIndex # w
    BY <1>2, <1>4, <2>2, RankFacts
  <2>4. QED
    BY <1>0, <1>2, <1>3, <1>5, <2>2, <2>3, OthersStay
<1>11. QED
  BY <1>2, <1>8, <1>9, <1>10 DEF Ring

\* The block of the first slot goes to its writer, any other one waits
\* (MtCoder.c:252-265).
LEMMA PublishRing ==
  ASSUME TypeOK, NEW t \in Thread, Publish(t), NEW w, NEW l, Ring(w, l)
  PROVE  Ring(w, l)'
<1>0. ThreadStep(t)
  BY DEF ThreadStep
<1>1. w \in Slot /\ l \in 0..N
  BY DEF Ring, Span
<1>2. w \in Slot /\ l \in 0..N /\ bi[t] \in Slot /\ OwnsSlot(t) /\ ~ Writing(t)
  BY <1>1 DEF Ring, Span, TypeOK, ThreadTypes, Publish, OwnsSlot, Writing
<1>3. /\ UNCHANGED <<blocksSemaphore, blockIndex>>
      /\ \A u \in Thread \ {t} : bi'[u] = bi[u] /\ wi'[u] = wi[u]
      /\ ~ OwnsSlot(t)' /\ pc[t] = "publish" /\ pc'[t] \in {"write", "incr", "waitRead"}
  BY DEF Publish, Goto, OwnsSlot, readerVars, ringVars, TypeOK, ThreadTypes
<1>4. Posting' = Posting
  BY <1>0, <1>3, OthersStay DEF Posting
<1>5. \A u \in Thread : OwnsSlot(u)' =>
        /\ u # t /\ OwnsSlot(u) /\ bi'[u] = bi[u]
        /\ Rank(w, bi[u]) < l /\ ~ readyBlocks[bi[u]] /\ bi[u] # bi[t]
        /\ \A v \in Thread \ {u} : OwnsSlot(v)' => bi'[v] # bi'[u]
  BY <1>0, <1>1, <1>2, <1>3, OthersStay DEF Ring, Owners
<1>6. Rank(w, bi[t]) < l /\ ~ readyBlocks[bi[t]]
  BY <1>1, <1>2 DEF Ring, Owners
<1>7. CASE writeIndex = bi[t]
  <2>1. /\ w = bi[t] /\ wi'[t] = w /\ Writing(t)' /\ writeIndex' = None
        /\ UNCHANGED readyBlocks
    BY <1>1, <1>2, <1>7, ConstantFacts DEF Publish, Goto, TakenFrom, Writing, Ring, Span, TypeOK, ThreadTypes
  <2>2. l > 0
    BY <1>2, <1>6, <2>1, RankFacts
  <2>3. Span(w, l)'
    BY <1>1, <1>3, <1>4, <2>1 DEF Ring, Span
  <2>4. Owners(w, l)'
    BY <1>5, <2>1 DEF Owners
  <2>5. \A u \in Thread : Writing(u)' => wi'[u] = w
    BY <1>0, <1>1, <1>3, <2>1, OthersStay DEF Ring, Writers
  <2>6. Writers(w, l)'
    BY <1>5, <1>6, <2>1, <2>2, <2>5 DEF Writers
  <2>7. QED
    BY <2>3, <2>4, <2>6 DEF Ring
<1>8. CASE writeIndex # bi[t]
  <2>1. /\ readyBlocks' = [readyBlocks EXCEPT ![bi[t]] = TRUE]
        /\ UNCHANGED <<writeIndex, wi>> /\ ~ Writing(t)'
    BY <1>8 DEF Publish, Goto, Writing, TypeOK, ThreadTypes
  <2>2. \A i \in Slot : readyBlocks'[i] = (i = bi[t] \/ readyBlocks[i])
    BY <2>1 DEF TypeOK, RingTypes
  <2>3. Span(w, l)'
    BY <1>1, <1>3, <1>4, <1>6, <2>1, <2>2 DEF Ring, Span
  <2>4. Owners(w, l)'
    <3>1. \A u \in Thread : OwnsSlot(u)' => ~ readyBlocks'[bi'[u]]
      BY <1>5, <2>2 DEF TypeOK, ThreadTypes
    <3>2. QED
      BY <1>5, <3>1 DEF Owners
  <2>5. Writers(w, l)'
    <3> SUFFICES ASSUME NEW u \in Thread, Writing(u)'
                 PROVE  /\ wi'[u] = w /\ l > 0
                        /\ ~ readyBlocks'[w]
                        /\ \A v \in Thread : OwnsSlot(v)' => bi'[v] # w
      BY DEF Writers
    <3>1. Writing(u)
      BY <1>0, <2>1, OthersStay
    <3>2. wi[u] = w /\ l > 0 /\ ~ readyBlocks[w] /\ \A v \in Thread : OwnsSlot(v) => bi[v] # w
      BY <1>1, <3>1 DEF Ring, Writers
    <3>3. QED
      BY <1>2, <1>5, <2>1, <2>2, <3>2
  <2>6. QED
    BY <2>3, <2>4, <2>5 DEF Ring
<1>9. QED
  BY <1>7, <1>8

\* Releasing the first slot moves the start of the slots in use; the next block
\* goes to the same thread or waits for its writer (MtCoder.c:284-312).
LEMMA ReleaseRing ==
  ASSUME TypeOK, WriterExclusive, NEW t \in Thread, Release(t), NEW w, NEW l, Ring(w, l)
  PROVE  Ring(Next(w), l - 1)'
<1>0. ThreadStep(t)
  BY DEF ThreadStep
<1>1. w \in Slot /\ l \in 0..N
  BY DEF Ring, Span
<1> DEFINE x == Next(w)
<1>2. /\ w \in Slot /\ l \in 0..N /\ l > 0 /\ wi[t] = w /\ ~ readyBlocks[w]
      /\ Writing(t) /\ ~ OwnsSlot(t) /\ x \in Slot
      /\ \A u \in Thread : OwnsSlot(u) => bi[u] # w
  BY <1>1, NextInRing DEF Ring, Span, Writers, Release, Writing, OwnsSlot
<1>3. /\ wi' = [wi EXCEPT ![t] = x] /\ UNCHANGED <<blocksSemaphore, blockIndex, bi>>
      /\ pc[t] = "release" /\ pc'[t] \in {"postMore", "postLast"}
      /\ ~ OwnsSlot(t)'
  BY <1>2 DEF Release, Goto, OwnsSlot, readerVars, TypeOK, ThreadTypes
<1>4. /\ wi'[t] = x /\ \A u \in Thread \ {t} : ~ Writing(u) /\ ~ Writing(u)'
  BY <1>0, <1>2, <1>3, OthersStay DEF WriterExclusive, TypeOK, ThreadTypes
<1>5. Posting' = Posting \cup {t} /\ t \notin Posting
  BY <1>0, <1>3, OthersStay DEF Posting
<1>6. Cardinality(Posting') = Cardinality(Posting) + 1 /\ Cardinality(Posting) \in Nat
  BY <1>5, ThreadsFinite, FS_AddElement DEF Posting
<1>7. blockIndex' = End(x, l - 1)
  BY <1>1, <1>2, <1>3, EndFacts DEF Ring, Span
<1>8. l - 1 \in 0..N /\ blocksSemaphore' + Cardinality(Posting') + (l - 1) = N
  <2>1. blocksSemaphore + Cardinality(Posting) + l = N /\ blocksSemaphore \in Nat /\ N \in Nat
    BY <1>1, ConstantFacts DEF Ring, Span, N, TypeOK, RingTypes
  <2>2. QED
    BY <1>2, <1>3, <1>6, <2>1
<1>9. \A i \in Slot : i # w => Rank(x, i) = Rank(w, i) - 1
  BY <1>2, RankFacts
<1>10. \A i \in Slot : readyBlocks[i] => Rank(x, i) < l - 1
  BY <1>1, <1>2, <1>9, RankFacts, ConstantFacts DEF Ring, Span, N
<1>11. \A i \in Slot : readyBlocks'[i] => readyBlocks[i]
  BY <1>2 DEF Release, TypeOK, RingTypes
<1>12. Span(x, l - 1)'
  <2>1. writeIndex' # None => writeIndex' = x
    <3>1. writeIndex = None
      BY <1>2 DEF WriterExclusive
    <3>2. QED
      BY <1>2, <3>1 DEF Release
  <2>2. QED
    BY <1>2, <1>7, <1>8, <1>10, <1>11, <2>1 DEF Span
<1>13. Owners(x, l - 1)'
  <2> SUFFICES ASSUME NEW u \in Thread, OwnsSlot(u)'
               PROVE  /\ Rank(x, bi'[u]) < l - 1
                      /\ ~ readyBlocks'[bi'[u]]
                      /\ \A v \in Thread \ {u} : OwnsSlot(v)' => bi'[v] # bi'[u]
    BY DEF Owners
  <2>1. u # t /\ OwnsSlot(u) /\ bi'[u] = bi[u] /\ bi[u] \in Slot
    BY <1>0, <1>3, OthersStay DEF TypeOK, ThreadTypes
  <2>2. Rank(w, bi[u]) < l /\ ~ readyBlocks[bi[u]]
    BY <1>1, <2>1 DEF Ring, Owners
  <2>3. Rank(x, bi[u]) < l - 1
    BY <1>2, <1>9, <2>1, <2>2, RankFacts, ConstantFacts DEF N
  <2>4. \A v \in Thread \ {u} : OwnsSlot(v)' => bi'[v] # bi'[u]
    BY <1>0, <1>1, <1>3, <2>1, OthersStay DEF Ring, Owners
  <2>5. QED
    BY <1>11, <2>1, <2>2, <2>3, <2>4
<1>14. Writers(x, l - 1)'
  <2> SUFFICES ASSUME NEW u \in Thread, Writing(u)'
               PROVE  /\ wi'[u] = x /\ l - 1 > 0
                      /\ ~ readyBlocks'[x]
                      /\ \A v \in Thread : OwnsSlot(v)' => bi'[v] # x
    BY DEF Writers
  <2>1. u = t /\ pc'[t] = "postMore"
    BY <1>3, <1>4 DEF Writing
  <2>2. readyBlocks[x] /\ readyBlocks' = [readyBlocks EXCEPT ![x] = FALSE]
    BY <1>2, <2>1 DEF Release, Goto, TypeOK, ThreadTypes
  <2>3. l - 1 > 0
    <3>1. Rank(x, x) < l - 1 /\ Rank(x, x) = 0
      BY <1>2, <1>10, <2>2, RankFacts
    <3>2. QED
      BY <3>1
  <2>4. \A v \in Thread : OwnsSlot(v)' => bi'[v] # x
    BY <1>0, <1>1, <1>3, <2>2, OthersStay DEF Ring, Owners
  <2>5. QED
    BY <1>2, <1>4, <2>1, <2>2, <2>3, <2>4 DEF TypeOK, RingTypes
<1>15. QED
  BY <1>12, <1>13, <1>14 DEF Ring

\* Giving the slot's unit of the semaphore back (MtCoder.c:308).
LEMMA PostRing ==
  ASSUME TypeOK, NEW t \in Thread, Post(t), NEW w, NEW l, Ring(w, l)
  PROVE  Ring(w, l)'
<1>0. ThreadStep(t)
  BY DEF ThreadStep
<1>1. w \in Slot /\ l \in 0..N
  BY DEF Ring, Span
<1>2. /\ UNCHANGED <<blockIndex, writeIndex, readyBlocks, bi>>
      /\ blocksSemaphore' = blocksSemaphore + 1
      /\ \A u \in Thread \ {t} : wi'[u] = wi[u]
      /\ Writing(t)' => Writing(t) /\ wi'[t] = wi[t]
      /\ ~ OwnsSlot(t)' /\ t \in Posting /\ pc'[t] \in {"write", "incr", "waitRead"}
  BY DEF Post, Goto, OwnsSlot, Writing, Posting, readerVars, TypeOK, ThreadTypes
<1>3. Posting' = Posting \ {t}
  BY <1>0, <1>2, OthersStay DEF Posting
<1>4. Cardinality(Posting') = Cardinality(Posting) - 1 /\ Cardinality(Posting) \in Nat
  BY <1>2, <1>3, ThreadsFinite, FS_RemoveElement DEF Posting
<1>5. blocksSemaphore' + Cardinality(Posting') + l = N
  <2>1. blocksSemaphore + Cardinality(Posting) + l = N /\ blocksSemaphore \in Nat /\ l \in Nat
    BY <1>1, ConstantFacts DEF Ring, Span, N, TypeOK, RingTypes
  <2>2. QED
    BY <1>2, <1>4, <2>1
<1>6. Span(w, l)'
  BY <1>1, <1>2, <1>5 DEF Ring, Span
<1>7. \A u \in Thread : (OwnsSlot(u)' => OwnsSlot(u)) /\ (Writing(u)' => Writing(u) /\ wi'[u] = wi[u])
  BY <1>0, <1>2, OthersStay
<1>8. Owners(w, l)'
  BY <1>1, <1>2, <1>7 DEF Ring, Owners
<1>9. Writers(w, l)'
  BY <1>1, <1>2, <1>7 DEF Ring, Writers
<1>10. QED
  BY <1>6, <1>8, <1>9 DEF Ring

\* No step of a thread breaks the ring.
LEMMA ThreadRing ==
  ASSUME Tokens, NEW t \in Thread, ThreadStep(t), RingInv
  PROVE  RingInv'
<1>1. TypeOK /\ WriterExclusive
  BY DEF Tokens
<1>2. PICK w, l : Ring(w, l)
  BY DEF RingInv
<1>3. Ring(w, l)' \/ Ring(w, l + 1)' \/ Ring(Next(w), l - 1)'
  BY <1>1, <1>2, AsideRing, TakeSlotRing, PublishRing, ReleaseRing, PostRing
     DEF ThreadStep, RingAside
<1>4. QED
  BY <1>3 DEF RingInv

-----------------------------------------------------------------------------
(* The steps of the caller. *)

\* A new call sets the ring up.
LEMMA PrologueRing ==
  ASSUME Tokens, Prologue
  PROVE  Ring(0, 0)'
<1>1. \A t \in Thread : pc'[t] \in {"none", "idle"}
  BY DEF Prologue, Tokens, Quiet, AtRest
<1>2. Posting' = {} /\ \A t \in Thread : ~ OwnsSlot(t)' /\ ~ Writing(t)'
  BY <1>1 DEF Posting, OwnsSlot, Writing
<1>3. Cardinality(Posting') = 0
  BY <1>2, FS_EmptySet
<1>4. /\ blockIndex' = 0 /\ blocksSemaphore' = N /\ writeIndex' = 0
      /\ readyBlocks' = [i \in Slot |-> FALSE]
  BY DEF Prologue, N
<1>5. 0 \in Slot /\ N \in Nat \ {0}
  BY ConstantFacts DEF N
<1>6. blockIndex' = End(0, 0) /\ N + 0 + 0 = N /\ 0 \in 0..N
  BY <1>4, <1>5 DEF End
<1>7. Ring(0, 0)'
  BY <1>2, <1>3, <1>4, <1>5, <1>6 DEF Ring, Span, Owners, Writers
<1>8. QED
  BY <1>7 DEF RingInv

\* Its other steps leave the ring alone; those that create or end threads
\* meet none that holds a slot.
LEMMA MainRing ==
  ASSUME TypeOK, NewInput \/ StartFirst \/ ReturnNoThread \/ OpenReading \/ WaitFinished
                 \/ Collect \/ Free,
         NEW w, NEW l, Ring(w, l)
  PROVE  Ring(w, l)'
<1>2. UNCHANGED <<blocksSemaphore, blockIndex, writeIndex, readyBlocks, bi, wi>>
  BY DEF NewInput, StartFirst, ReturnNoThread, OpenReading, WaitFinished, Collect, Free,
         readerVars, ringVars, localVars
<1>3. \A t \in Thread : pc'[t] = pc[t] \/ (pc[t] \in {"none", "idle"} /\ pc'[t] \in {"none", "idle"})
  BY DEF NewInput, StartFirst, ReturnNoThread, OpenReading, WaitFinished, Collect, Free,
         Created, TypeOK, ThreadTypes
<1>4. /\ Posting' = Posting
      /\ \A t \in Thread : (OwnsSlot(t)' <=> OwnsSlot(t)) /\ (Writing(t)' <=> Writing(t))
  BY <1>3 DEF Posting, OwnsSlot, Writing
<1>5. Span(w, l)' /\ Owners(w, l)' /\ Writers(w, l)'
  BY <1>2, <1>4 DEF Ring, Span, Owners, Writers
<1>6. QED
  BY <1>5 DEF Ring

-----------------------------------------------------------------------------
(* The buffers. *)

\* A step of t leaves the locals of the others, and only Store writes a record.
LEMMA LocalsStay ==
  ASSUME TypeOK, NEW t \in Thread, ThreadStep(t)
  PROVE  /\ \A u \in Thread \ {t} :
              bi'[u] = bi[u] /\ wi'[u] = wi[u] /\ bufIndex'[u] = bufIndex[u]
         /\ blocks' = blocks \/ (pc[t] = "store" /\ \A i \in Slot \ {bi[t]} : blocks'[i] = blocks[i])
<1> USE DEF TypeOK, ThreadTypes, DataTypes, dataVars, localVars
<1>1. CASE WaitStart(t) \/ TakeRead(t) \/ Read(t) \/ Check(t) \/ StartNext(t)
  BY <1>1 DEF WaitStart, TakeRead, Read, Check, StartNext
<1>2. CASE TakeSlot(t) \/ HandRead(t) \/ TakeBuf(t) \/ Code(t)
  BY <1>2 DEF TakeSlot, HandRead, TakeBuf, Code
<1>3. CASE Store(t)
  BY <1>3 DEF Store
<1>4. CASE Write(t) \/ Release(t) \/ CountFinished(t) \/ SignalFinished(t)
  BY <1>4 DEF Write, Release, CountFinished, SignalFinished
<1>5. CASE Publish(t)
  BY <1>5 DEF Publish, Leave
<1>6. CASE Post(t)
  BY <1>6 DEF Post, Leave
<1>7. QED
  BY <1>1, <1>2, <1>3, <1>4, <1>5, <1>6 DEF ThreadStep

\* So the others keep their buffers.
LEMMA OthersKeep ==
  ASSUME TypeOK, NEW t \in Thread, ThreadStep(t), RingInv, NEW u \in Thread \ {t}
  PROVE  /\ ThreadBuf(u)' = ThreadBuf(u)
         /\ NamedBy(u) => NamedBy(u)'
<1>1. pc'[u] = pc[u] \/ (pc[u] = "none" /\ pc'[u] = "idle")
  BY ThreadPcChange
<1>2. bi'[u] = bi[u] /\ wi'[u] = wi[u] /\ bufIndex'[u] = bufIndex[u]
  BY LocalsStay
<1>3. bi[u] \in Slot /\ wi[u] \in Slot
  BY DEF TypeOK, ThreadTypes
<1>4. pc[u] = "postMore" => blocks'[wi[u]] = blocks[wi[u]]
  <2>1. CASE pc[t] = "store" /\ pc[u] = "postMore"
    <3>1. OwnsSlot(t) /\ Writing(u)
      BY <2>1 DEF OwnsSlot, Writing
    <3>2. wi[u] # bi[t]
      BY <3>1 DEF RingInv, Ring, Writers
    <3>3. QED
      BY <1>3, <3>2, LocalsStay
  <2>2. QED
    BY <2>1, LocalsStay
<1>5. pc[u] = "publish" => blocks'[bi[u]] = blocks[bi[u]]
  <2>1. CASE pc[t] = "store" /\ pc[u] = "publish"
    <3>1. OwnsSlot(t) /\ OwnsSlot(u)
      BY <2>1 DEF OwnsSlot
    <3>2. bi[u] # bi[t]
      BY <3>1 DEF RingInv, Ring, Owners
    <3>3. QED
      BY <1>3, <3>2, LocalsStay
  <2>2. QED
    BY <2>1, LocalsStay
<1>6. ThreadBuf(u)' = ThreadBuf(u)
  BY <1>1, <1>2, <1>4 DEF ThreadBuf
<1>7. NamedBy(u) => NamedBy(u)'
  BY <1>1, <1>2, <1>5 DEF NamedBy
<1>8. QED
  BY <1>6, <1>7

\* The record of a ready slot is not written.
LEMMA RecordStays ==
  ASSUME TypeOK, NEW t \in Thread, ThreadStep(t), RingInv, NEW i \in Slot, readyBlocks[i]
  PROVE  blocks'[i] = blocks[i]
<1>1. CASE pc[t] = "store"
  <2>1. OwnsSlot(t)
    BY <1>1 DEF OwnsSlot
  <2>2. bi[t] # i
    BY <2>1 DEF RingInv, Ring, Owners
  <2>3. QED
    BY <2>2, LocalsStay
<1>2. QED
  BY <1>1, LocalsStay

\* The steps that move no buffer.
BufAside(t) ==
  \/ WaitStart(t) \/ TakeRead(t) \/ Read(t) \/ TakeSlot(t) \/ Check(t) \/ StartNext(t)
  \/ HandRead(t) \/ Code(t) \/ Store(t) \/ Write(t) \/ Post(t) \/ CountFinished(t)
  \/ SignalFinished(t) \/ (Publish(t) /\ writeIndex = bi[t])

\* What t does in them.
LEMMA AsideKeepsBuf ==
  ASSUME TypeOK, NEW t \in Thread, BufAside(t), NamedBy(t)
  PROVE  /\ UNCHANGED <<freeBlocks, readyBlocks>>
         /\ ThreadBuf(t)' = ThreadBuf(t)
         /\ NamedBy(t)'
<1> USE DEF TypeOK, ThreadTypes, DataTypes, Goto, NamedBy, ThreadBuf, ringVars, dataVars, localVars
<1>1. CASE WaitStart(t) \/ TakeRead(t) \/ Read(t) \/ CountFinished(t) \/ SignalFinished(t)
  BY <1>1 DEF WaitStart, TakeRead, Read, CountFinished, SignalFinished
<1>2. CASE Check(t)
  BY <1>2 DEF Check
<1>3. CASE StartNext(t)
  <2>1. pc' = [pc EXCEPT ![t] = "setRead"] \/ pc' = [Created(numStarted) EXCEPT ![t] = "setRead"]
    BY <1>3 DEF StartNext
  <2>2. pc'[t] = "setRead"
    BY <2>1 DEF Created
  <2>3. QED
    BY <1>3, <2>2 DEF StartNext
<1>4. CASE HandRead(t)
  BY <1>4 DEF HandRead
<1>5. CASE TakeSlot(t) \/ Code(t)
  BY <1>5 DEF TakeSlot, Code
<1>6. CASE Store(t)
  BY <1>6 DEF Store
<1>7. CASE Write(t)
  BY <1>7 DEF Write
<1>8. CASE Post(t)
  <2>1. CASE pc[t] = "postMore"
    BY <1>8, <2>1 DEF Post
  <2>2. CASE pc[t] = "postLast"
    BY <1>8, <2>2 DEF Post
  <2>3. QED
    BY <1>8, <2>1, <2>2 DEF Post
<1>9. CASE Publish(t) /\ writeIndex = bi[t]
  BY <1>9 DEF Publish
<1>10. QED
  BY <1>1, <1>2, <1>3, <1>4, <1>5, <1>6, <1>7, <1>8, <1>9 DEF BufAside

\* So they keep the buffers in step.
LEMMA AsideBuf ==
  ASSUME TypeOK, NEW t \in Thread, BufAside(t), RingInv, BufInv
  PROVE  BufInv'
<1>0. ThreadStep(t)
  BY DEF BufAside, ThreadStep
<1>1. \A u \in Thread : NamedBy(u)' /\ ThreadBuf(u)' = ThreadBuf(u)
  BY <1>0, OthersKeep, AsideKeepsBuf DEF BufInv, Named
<1>2. UNCHANGED <<freeBlocks, readyBlocks>>
  BY AsideKeepsBuf DEF BufInv, Named
<1>3. \A i \in Slot : SlotBuf(i)' = SlotBuf(i)
  BY <1>0, <1>2, RecordStays DEF SlotBuf
<1>4. Named' /\ FreeList'
  BY <1>1, <1>2 DEF BufInv, Named, FreeList
<1>5. UsedLow' /\ NoneLost'
  BY <1>1, <1>2, <1>3 DEF BufInv, UsedLow, NoneLost
<1>6. BufferExclusive'
  BY <1>1, <1>2, <1>3 DEF BufInv, BufferExclusive
<1>7. QED
  BY <1>4, <1>5, <1>6 DEF BufInv

\* The block of slot i is in buffer b.
SlotOf(t) == IF Writing(t) THEN wi[t] ELSE bi[t]

HoldsAt(i, b) ==
  \/ SlotBuf(i) = b
  \/ \E t \in Thread : ThreadBuf(t) = b /\ SlotOf(t) = i

\* A thread that has a buffer fills a slot or writes the first one.
LEMMA BufferHasSlot ==
  ASSUME TypeOK, NEW w, NEW l, Ring(w, l), NEW u \in Thread, ThreadBuf(u) # None
  PROVE  /\ SlotOf(u) \in Slot /\ ~ readyBlocks[SlotOf(u)]
         /\ \/ OwnsSlot(u) /\ SlotOf(u) = bi[u]
            \/ Writing(u) /\ SlotOf(u) = w
<1>1. (OwnsSlot(u) /\ ~ Writing(u)) \/ Writing(u)
  BY DEF ThreadBuf, OwnsSlot, Writing
<1>2. QED
  BY <1>1 DEF SlotOf, Ring, Owners, Writers, TypeOK, ThreadTypes

\* The block of a slot is in one buffer at most.
LEMMA OneBufferPerSlot ==
  ASSUME TypeOK, WriterExclusive, RingInv,
         NEW i \in Slot, NEW b \in Low, NEW c \in Low, HoldsAt(i, b), HoldsAt(i, c)
  PROVE  b = c
<1>1. PICK w, l : Ring(w, l)
  BY DEF RingInv
<1>2. b # None /\ c # None
  BY ConstantFacts DEF Low, None, N
<1>3. \A u, v \in Thread : ThreadBuf(u) = b /\ SlotOf(u) = i /\ ThreadBuf(v) = c /\ SlotOf(v) = i
                            => u = v
  <2> SUFFICES ASSUME NEW u \in Thread, NEW v \in Thread,
                      ThreadBuf(u) = b, SlotOf(u) = i, ThreadBuf(v) = c, SlotOf(v) = i, u # v
               PROVE  FALSE
    OBVIOUS
  <2>1. /\ (OwnsSlot(u) /\ bi[u] = i) \/ (Writing(u) /\ i = w)
        /\ (OwnsSlot(v) /\ bi[v] = i) \/ (Writing(v) /\ i = w)
    BY <1>1, <1>2, BufferHasSlot
  <2>2. QED
    BY <1>1, <2>1 DEF Ring, Owners, Writers, WriterExclusive
<1>4. \A u \in Thread : (ThreadBuf(u) = b \/ ThreadBuf(u) = c) /\ SlotOf(u) = i => ~ readyBlocks[i]
  BY <1>1, <1>2, BufferHasSlot
<1>5. SlotBuf(i) = b \/ SlotBuf(i) = c => readyBlocks[i]
  BY <1>2 DEF SlotBuf
<1>6. QED
  BY <1>3, <1>4, <1>5 DEF HoldsAt

\* A thread that has taken a slot finds a buffer: those in use are in the other
\* slots, one in each (MtCoder.c:228-231).
LEMMA BufferThere ==
  ASSUME TypeOK, WriterExclusive, RingInv, BufInv, NEW t \in Thread, pc[t] = "takeBuf"
  PROVE  freeBlocks # <<>> /\ Head(freeBlocks) \in Low
<1> DEFINE Rest == Slot \ {bi[t]}
<1>1. PICK w, l : Ring(w, l)
  BY DEF RingInv
<1>2. N \in Nat \ {0} /\ bi[t] \in Slot /\ OwnsSlot(t) /\ ThreadBuf(t) = None
  BY ConstantFacts DEF N, OwnsSlot, ThreadBuf, TypeOK, ThreadTypes
<1>3. \E k \in DOMAIN freeBlocks : freeBlocks[k] \in Low
  <2> SUFFICES ASSUME \A k \in DOMAIN freeBlocks : freeBlocks[k] \notin Low PROVE FALSE
    OBVIOUS
  <2>1. \A b \in Low : \E i \in Rest : HoldsAt(i, b)
    <3> SUFFICES ASSUME NEW b \in Low PROVE \E i \in Rest : HoldsAt(i, b)
      OBVIOUS
    <3>0. b # None
      BY <1>2 DEF Low, None
    <3>1. (\E u \in Thread : ThreadBuf(u) = b) \/ (\E i \in Slot : SlotBuf(i) = b)
      BY DEF BufInv, NoneLost
    <3>2. CASE \E u \in Thread : ThreadBuf(u) = b
      <4>1. PICK u \in Thread : ThreadBuf(u) = b
        BY <3>2
      <4>2. u # t /\ SlotOf(u) \in Slot
        BY <1>1, <1>2, <3>0, <4>1, BufferHasSlot
      <4>3. SlotOf(u) # bi[t]
        BY <1>1, <1>2, <3>0, <4>1, <4>2, BufferHasSlot DEF Ring, Owners, Writers
      <4>4. QED
        BY <4>1, <4>2, <4>3 DEF HoldsAt
    <3>3. CASE \E i \in Slot : SlotBuf(i) = b
      <4>1. PICK i \in Slot : SlotBuf(i) = b
        BY <3>3
      <4>2. readyBlocks[i]
        BY <3>0, <4>1 DEF SlotBuf
      <4>3. i # bi[t]
        BY <1>1, <1>2, <4>2 DEF Ring, Owners
      <4>4. QED
        BY <4>1, <4>3 DEF HoldsAt
    <3>4. QED
      BY <3>1, <3>2, <3>3
  <2> DEFINE f == [b \in Low |-> CHOOSE i \in Rest : HoldsAt(i, b)]
  <2>2. f \in [Low -> Rest] /\ \A b \in Low : HoldsAt(f[b], b)
    BY <2>1
  <2>3. IsFiniteSet(Low) /\ Cardinality(Low) = N
    BY <1>2, FS_Interval DEF Low
  <2>4. IsFiniteSet(Slot) /\ Cardinality(Slot) = N
    BY <1>2, FS_Interval DEF Slot, N
  <2>5. IsFiniteSet(Rest) /\ Cardinality(Rest) = N - 1
    BY <1>2, <2>4, FS_RemoveElement
  <2> HIDE DEF f
  <2>6. \E b, c \in Low : b # c /\ f[b] = f[c]
    <3>1. Cardinality(Rest) < Cardinality(Low)
      BY <1>2, <2>3, <2>5
    <3>2. QED
      BY <2>2, <2>3, <2>5, <3>1, FS_PigeonHole
  <2>7. QED
    BY <2>2, <2>6, OneBufferPerSlot
<1>4. PICK k \in DOMAIN freeBlocks : freeBlocks[k] \in Low
  BY <1>3
<1>5. freeBlocks \in Seq(Buf) /\ freeBlocks # <<>> /\ 1 \in DOMAIN freeBlocks
      /\ k \in Nat /\ k >= 1
  BY <1>4 DEF TypeOK, RingTypes
<1>6. freeBlocks[1] < N
  BY <1>2, <1>4, <1>5 DEF BufInv, FreeList, Low
<1>7. Head(freeBlocks) = freeBlocks[1] /\ freeBlocks[1] \in Buf
  BY <1>5
<1>8. QED
  BY <1>2, <1>5, <1>6, <1>7, ConstantFacts DEF Low, Buf

\* The free list is a stack.
LEMMA Pop ==
  ASSUME NEW s \in Seq(Buf), s # <<>>
  PROVE  /\ FirstFree(s) = s[1] /\ 1 \in DOMAIN s
         /\ \A k \in DOMAIN WithoutFirst(s) :
              k \in Nat \ {0} /\ k + 1 \in DOMAIN s /\ WithoutFirst(s)[k] = s[k + 1]
         /\ \A k \in DOMAIN s : k # 1 => k - 1 \in DOMAIN WithoutFirst(s) /\ k > 1
  BY DEF FirstFree, WithoutFirst

\* A buffer given back is on top of it.
LEMMA Push ==
  ASSUME NEW s \in Seq(Buf), NEW b \in Buf
  PROVE  /\ 1 \in DOMAIN GiveBack(b, s) /\ GiveBack(b, s)[1] = b
         /\ \A k \in DOMAIN GiveBack(b, s) :
              k = 1 \/ (k > 1 /\ k - 1 \in DOMAIN s /\ GiveBack(b, s)[k] = s[k - 1])
         /\ \A k \in DOMAIN s : k \in Nat /\ k + 1 \in DOMAIN GiveBack(b, s)
                                /\ GiveBack(b, s)[k + 1] = s[k]
<1>1. /\ GiveBack(b, s) = <<b>> \o s /\ Len(<<b>>) = 1 /\ Len(s) \in Nat
      /\ DOMAIN (<<b>> \o s) = 1 .. 1 + Len(s) /\ DOMAIN s = 1 .. Len(s)
      /\ \A k \in 1 .. 1 + Len(s) : (<<b>> \o s)[k] = IF k <= 1 THEN <<b>>[k] ELSE s[k - 1]
  BY DEF GiveBack
<1>2. <<b>>[1] = b
  OBVIOUS
<1>3. QED
  BY <1>1, <1>2

\* A thread takes a buffer nobody uses.
LEMMA TakeBufBuf ==
  ASSUME TypeOK, WriterExclusive, NEW t \in Thread, TakeBuf(t), RingInv, BufInv
  PROVE  BufInv'
<1>0. ThreadStep(t)
  BY DEF ThreadStep
<1> DEFINE b == FirstFree(freeBlocks)
<1>1. /\ freeBlocks # <<>> /\ freeBlocks \in Seq(Buf) /\ b \in Low
      /\ b # None
  BY BufferThere, ConstantFacts DEF TakeBuf, FirstFree, Low, None, N, TypeOK, RingTypes
<1>2. /\ ThreadBuf(t) = None /\ ThreadBuf(t)' = b /\ NamedBy(t)'
      /\ freeBlocks' = WithoutFirst(freeBlocks)
      /\ UNCHANGED <<readyBlocks, blocks>>
  BY DEF TakeBuf, Goto, ThreadBuf, NamedBy, dataVars, TypeOK, ThreadTypes
<1> HIDE DEF b
<1>3. \A u \in Thread \ {t} : NamedBy(u)' /\ ThreadBuf(u)' = ThreadBuf(u)
  BY <1>0, OthersKeep DEF BufInv, Named
<1>4. \A i \in Slot : SlotBuf(i)' = SlotBuf(i)
  BY <1>2 DEF SlotBuf
<1>5. /\ b = freeBlocks[1] /\ 1 \in DOMAIN freeBlocks
      /\ \A k \in DOMAIN freeBlocks' : k \in Nat \ {0} /\ k + 1 \in DOMAIN freeBlocks
                                       /\ freeBlocks'[k] = freeBlocks[k + 1]
      /\ \A k \in DOMAIN freeBlocks : k # 1 => k - 1 \in DOMAIN freeBlocks' /\ k > 1
  BY <1>1, <1>2, Pop DEF b
<1>6. Named'
  BY <1>2, <1>3 DEF Named
<1>7. FreeList'
  BY <1>5 DEF BufInv, FreeList
<1>8. UsedLow'
  BY <1>1, <1>2, <1>3, <1>4 DEF BufInv, UsedLow
<1>9. NoneLost'
  <2> SUFFICES ASSUME NEW c \in Low
               PROVE  \/ \E k \in DOMAIN freeBlocks' : freeBlocks'[k] = c
                      \/ \E u \in Thread : ThreadBuf(u)' = c
                      \/ \E i \in Slot : SlotBuf(i)' = c
    BY DEF NoneLost
  <2>1. CASE c = b
    BY <1>2, <2>1
  <2>2. CASE \E k \in DOMAIN freeBlocks : freeBlocks[k] = c /\ c # b
    <3>1. PICK k \in DOMAIN freeBlocks : freeBlocks[k] = c /\ c # b
      BY <2>2
    <3>2. k - 1 \in DOMAIN freeBlocks' /\ k \in Nat
      BY <1>1, <1>5, <3>1
    <3>3. freeBlocks'[k - 1] = freeBlocks[(k - 1) + 1]
      BY <1>5, <3>2
    <3>4. QED
      BY <3>1, <3>2, <3>3
  <2>3. CASE \E u \in Thread : ThreadBuf(u) = c
    <3>1. c # None
      BY ConstantFacts DEF Low, None, N
    <3>2. QED
      BY <1>2, <1>3, <2>3, <3>1
  <2>4. CASE \E i \in Slot : SlotBuf(i) = c
    BY <1>4, <2>4
  <2>5. QED
    BY <2>1, <2>2, <2>3, <2>4 DEF BufInv, NoneLost
<1>10. BufferExclusive'
  <2>1. /\ \A u \in Thread : ThreadBuf(u) # b
        /\ \A i \in Slot : SlotBuf(i) # b
        /\ \A k \in DOMAIN freeBlocks' : freeBlocks'[k] # b
    <3>1. \A u \in Thread : ThreadBuf(u) # b
      BY <1>5 DEF BufInv, BufferExclusive
    <3>2. \A i \in Slot : SlotBuf(i) # b
      BY <1>5 DEF BufInv, BufferExclusive
    <3>3. \A k \in DOMAIN freeBlocks' : k + 1 # 1
      BY <1>5
    <3>4. \A k \in DOMAIN freeBlocks' : freeBlocks'[k] # b
      BY <1>5, <3>3 DEF BufInv, FreeList
    <3>5. QED
      BY <3>1, <3>2, <3>4
  <2>2. \A u, v \in Thread : u # v /\ ThreadBuf(u)' # None => ThreadBuf(u)' # ThreadBuf(v)'
    BY <1>2, <1>3, <2>1 DEF BufInv, BufferExclusive
  <2>3. \A i, j \in Slot : i # j /\ SlotBuf(i)' # None => SlotBuf(i)' # SlotBuf(j)'
    BY <1>4 DEF BufInv, BufferExclusive
  <2>4. \A u \in Thread, i \in Slot : SlotBuf(i)' # None => SlotBuf(i)' # ThreadBuf(u)'
    BY <1>2, <1>3, <1>4, <2>1 DEF BufInv, BufferExclusive
  <2>5. \A k \in DOMAIN freeBlocks' :
           /\ \A u \in Thread : freeBlocks'[k] # ThreadBuf(u)'
           /\ \A i \in Slot : freeBlocks'[k] # SlotBuf(i)'
    BY <1>2, <1>3, <1>4, <1>5, <2>1 DEF BufInv, BufferExclusive
  <2>6. QED
    BY <2>2, <2>3, <2>4, <2>5 DEF BufferExclusive
<1>11. QED
  BY <1>6, <1>7, <1>8, <1>9, <1>10 DEF BufInv

\* A block that waits takes its buffer along (MtCoder.c:244-247, 262).
LEMMA PublishBuf ==
  ASSUME TypeOK, NEW t \in Thread, Publish(t), RingInv, BufInv
  PROVE  BufInv'
<1>1. CASE writeIndex = bi[t]
  BY <1>1, AsideBuf DEF BufAside
<1>2. CASE writeIndex # bi[t]
  <2>0. ThreadStep(t)
    BY DEF ThreadStep
  <2>a. PICK s \in Slot : s = bi[t]
    BY DEF TypeOK, ThreadTypes
  <2>b. PICK b : b = bufIndex[t]
    OBVIOUS
  <2>1. /\ pc[t] = "publish" /\ pc'[t] \in {"incr", "waitRead"}
        /\ readyBlocks' = [readyBlocks EXCEPT ![s] = TRUE]
        /\ UNCHANGED <<blocks, freeBlocks>>
    BY <1>2, <2>a DEF Publish, Goto, dataVars, TypeOK, ThreadTypes
  <2>2. ~ readyBlocks[s] /\ blocks[s].bufIndex = b
    <3>1. OwnsSlot(t)
      BY <2>1 DEF OwnsSlot
    <3>2. QED
      BY <2>1, <2>a, <2>b, <3>1 DEF RingInv, Ring, Owners, BufInv, Named, NamedBy
  <2>3. /\ ThreadBuf(t) = b /\ ThreadBuf(t)' = None /\ NamedBy(t)'
        /\ SlotBuf(s) = None /\ SlotBuf(s)' = b
        /\ \A i \in Slot \ {s} : SlotBuf(i)' = SlotBuf(i)
    BY <2>1, <2>2, <2>b DEF ThreadBuf, SlotBuf, NamedBy, TypeOK, RingTypes
  <2>4. \A u \in Thread \ {t} : NamedBy(u)' /\ ThreadBuf(u)' = ThreadBuf(u)
    BY <2>0, OthersKeep DEF BufInv, Named
  <2>5. Named' /\ FreeList'
    BY <2>1, <2>3, <2>4 DEF BufInv, Named, FreeList
  <2>6. UsedLow'
    BY <2>1, <2>3, <2>4 DEF BufInv, UsedLow
  <2>7. NoneLost'
    <3> SUFFICES ASSUME NEW c \in Low
                 PROVE  \/ \E k \in DOMAIN freeBlocks' : freeBlocks'[k] = c
                        \/ \E u \in Thread : ThreadBuf(u)' = c
                        \/ \E i \in Slot : SlotBuf(i)' = c
      BY DEF NoneLost
    <3>1. c # None
      BY ConstantFacts DEF Low, None, N
    <3>2. CASE c = b
      BY <2>1, <2>3, <3>2
    <3>3. CASE c # b
      BY <2>1, <2>3, <2>4, <3>1, <3>3 DEF BufInv, NoneLost
    <3>4. QED
      BY <3>2, <3>3
  <2>8. BufferExclusive'
    <3>1. \A u, v \in Thread : u # v /\ ThreadBuf(u)' # None => ThreadBuf(u)' # ThreadBuf(v)'
      BY <2>3, <2>4 DEF BufInv, BufferExclusive
    <3>2. \A i, j \in Slot : i # j /\ SlotBuf(i)' # None => SlotBuf(i)' # SlotBuf(j)'
      BY <2>3 DEF BufInv, BufferExclusive
    <3>3. \A u \in Thread, i \in Slot : SlotBuf(i)' # None => SlotBuf(i)' # ThreadBuf(u)'
      BY <2>3, <2>4 DEF BufInv, BufferExclusive
    <3>4. \A k \in DOMAIN freeBlocks' :
             /\ \A u \in Thread : freeBlocks'[k] # ThreadBuf(u)'
             /\ \A i \in Slot : freeBlocks'[k] # SlotBuf(i)'
      <4>1. \A k \in DOMAIN freeBlocks : freeBlocks[k] # None
        BY ConstantFacts DEF TypeOK, RingTypes, Buf, None
      <4>2. QED
        BY <2>1, <2>3, <2>4, <4>1 DEF BufInv, BufferExclusive
    <3>5. QED
      BY <3>1, <3>2, <3>3, <3>4 DEF BufferExclusive
  <2>9. QED
    BY <2>5, <2>6, <2>7, <2>8 DEF BufInv
<1>3. QED
  BY <1>1, <1>2

\* Releasing a slot frees the buffer of its block and takes over that of the next
\* block when it is ready (MtCoder.c:290-301).
LEMMA ReleaseBuf ==
  ASSUME TypeOK, NEW t \in Thread, Release(t), RingInv, BufInv
  PROVE  BufInv'
<1>0. ThreadStep(t)
  BY DEF ThreadStep
<1>a. PICK b \in Buf \cup {None} : b = bufIndex[t]
  BY DEF TypeOK, ThreadTypes
<1>b. PICK x \in Slot : x = Next(wi[t])
  BY NextInRing DEF TypeOK, ThreadTypes
<1>1. /\ pc[t] = "release"
      /\ ThreadBuf(t) = b /\ wi'[t] = x /\ UNCHANGED blocks
      /\ freeBlocks' = IF b = None THEN freeBlocks ELSE GiveBack(b, freeBlocks)
  BY <1>a, <1>b DEF Release, ThreadBuf, dataVars, TypeOK, ThreadTypes
<1>2. /\ \A i \in Slot \ {x} : SlotBuf(i)' = SlotBuf(i)
      /\ SlotBuf(x)' = None \/ SlotBuf(x)' = SlotBuf(x)
      /\ \/ ThreadBuf(t)' = None /\ SlotBuf(x)' = SlotBuf(x)
         \/ ThreadBuf(t)' = SlotBuf(x) /\ SlotBuf(x)' = None
  <2>1. CASE readyBlocks[x]
    <3>1. readyBlocks' = [readyBlocks EXCEPT ![x] = FALSE] /\ pc'[t] = "postMore"
      BY <1>b, <2>1 DEF Release, Goto, TypeOK, ThreadTypes
    <3>2. QED
      BY <1>1, <2>1, <3>1 DEF ThreadBuf, SlotBuf, TypeOK, RingTypes
  <2>2. CASE ~ readyBlocks[x]
    <3>1. UNCHANGED readyBlocks /\ pc'[t] = "postLast"
      BY <1>b, <2>2 DEF Release, Goto, TypeOK, ThreadTypes
    <3>2. QED
      BY <1>1, <2>2, <3>1 DEF ThreadBuf, SlotBuf
  <2>3. QED
    BY <2>1, <2>2
<1>3. NamedBy(t)'
  BY DEF Release, Goto, NamedBy, TypeOK, ThreadTypes
<1>4. \A u \in Thread \ {t} : NamedBy(u)' /\ ThreadBuf(u)' = ThreadBuf(u)
  BY <1>0, OthersKeep DEF BufInv, Named
<1>5. Named'
  BY <1>3, <1>4 DEF Named
<1>6. UsedLow'
  BY <1>1, <1>2, <1>4 DEF BufInv, UsedLow
<1>7. /\ b # None => b < N
      /\ freeBlocks \in Seq(Buf)
      /\ \A k \in DOMAIN freeBlocks : freeBlocks[k] \in Buf /\ freeBlocks[k] # None
      /\ \A k \in DOMAIN freeBlocks : freeBlocks[k] # b
  BY <1>1, ConstantFacts DEF BufInv, UsedLow, BufferExclusive, TypeOK, RingTypes, Buf, None, Low, N
<1>8. \A c : (\E k \in DOMAIN freeBlocks' : freeBlocks'[k] = c)
             <=> ((\E k \in DOMAIN freeBlocks : freeBlocks[k] = c) \/ (c = b /\ b # None))
  <2>1. CASE b = None
    BY <1>1, <2>1
  <2>2. CASE b # None
    <3>1. b \in Buf /\ freeBlocks' = GiveBack(b, freeBlocks)
      BY <1>1, <2>2
    <3>2. QED
      BY <1>7, <2>2, <3>1, Push
  <2>3. QED
    BY <2>1, <2>2
<1>9. FreeList'
  <2>1. CASE b = None
    BY <1>1, <2>1 DEF BufInv, FreeList
  <2>2. CASE b # None
    <3>1. /\ b \in Buf /\ freeBlocks' = GiveBack(b, freeBlocks)
          /\ b < N
      BY <1>1, <1>7, <2>2
    <3>2. \A k \in DOMAIN freeBlocks' :
             \/ k = 1 /\ freeBlocks'[k] = b
             \/ k > 1 /\ k - 1 \in DOMAIN freeBlocks /\ freeBlocks'[k] = freeBlocks[k - 1]
      BY <1>7, <3>1, Push
    <3>3. DOMAIN freeBlocks' \subseteq Int
      <4>1. GiveBack(b, freeBlocks) \in Seq(Buf)
        BY <1>7, <3>1, GiveBackType
      <4>2. QED
        BY <3>1, <4>1
    <3>4. \A j, k \in DOMAIN freeBlocks' : j # k => freeBlocks'[j] # freeBlocks'[k]
      <4> SUFFICES ASSUME NEW j \in DOMAIN freeBlocks', NEW k \in DOMAIN freeBlocks', j # k
                   PROVE  freeBlocks'[j] # freeBlocks'[k]
        OBVIOUS
      <4>1. j - 1 # k - 1
        BY <3>3
      <4>2. QED
        BY <1>7, <3>2, <4>1 DEF BufInv, FreeList
    <3>5. \A j, k \in DOMAIN freeBlocks' : j < k /\ freeBlocks'[k] < N => freeBlocks'[j] < N
      <4> SUFFICES ASSUME NEW j \in DOMAIN freeBlocks', NEW k \in DOMAIN freeBlocks',
                          j < k, freeBlocks'[k] < N
                   PROVE  freeBlocks'[j] < N
        OBVIOUS
      <4>1. j - 1 < k - 1 /\ (j > 1 => k # 1)
        BY <3>3
      <4>2. CASE j = 1
        BY <3>1, <3>2, <4>2
      <4>3. CASE j > 1
        <5>1. k > 1
          BY <3>2, <4>1, <4>3
        <5>2. /\ k - 1 \in DOMAIN freeBlocks /\ freeBlocks'[k] = freeBlocks[k - 1]
              /\ j - 1 \in DOMAIN freeBlocks /\ freeBlocks'[j] = freeBlocks[j - 1]
          BY <3>2, <4>3, <5>1
        <5>3. QED
          BY <4>1, <5>2 DEF BufInv, FreeList
      <4>4. QED
        BY <3>2, <4>2, <4>3
    <3>6. QED
      BY <3>4, <3>5 DEF FreeList
  <2>3. QED
    BY <2>1, <2>2
<1>10. NoneLost'
  <2> SUFFICES ASSUME NEW c \in Low
               PROVE  \/ \E k \in DOMAIN freeBlocks' : freeBlocks'[k] = c
                      \/ \E u \in Thread : ThreadBuf(u)' = c
                      \/ \E i \in Slot : SlotBuf(i)' = c
    BY DEF NoneLost
  <2>1. c # None
    BY ConstantFacts DEF Low, None, N
  <2>2. CASE \E k \in DOMAIN freeBlocks : freeBlocks[k] = c
    BY <1>8, <2>2
  <2>3. CASE \E u \in Thread : ThreadBuf(u) = c
    <3>1. PICK u \in Thread : ThreadBuf(u) = c
      BY <2>3
    <3>2. CASE u = t
      BY <1>1, <1>8, <2>1, <3>1, <3>2
    <3>3. CASE u # t
      BY <1>4, <3>1, <3>3
    <3>4. QED
      BY <3>2, <3>3
  <2>4. CASE \E i \in Slot : SlotBuf(i) = c
    BY <1>1, <1>2, <2>4
  <2>5. QED
    BY <2>2, <2>3, <2>4 DEF BufInv, NoneLost
<1>11. BufferExclusive'
  <2>1. \A u, v \in Thread : u # v /\ ThreadBuf(u)' # None => ThreadBuf(u)' # ThreadBuf(v)'
    BY <1>1, <1>2, <1>4 DEF BufInv, BufferExclusive
  <2>2. \A i, j \in Slot : i # j /\ SlotBuf(i)' # None => SlotBuf(i)' # SlotBuf(j)'
    BY <1>1, <1>2 DEF BufInv, BufferExclusive
  <2>3. \A u \in Thread, i \in Slot : SlotBuf(i)' # None => SlotBuf(i)' # ThreadBuf(u)'
    BY <1>1, <1>2, <1>4 DEF BufInv, BufferExclusive
  <2>4. \A c : (c = b /\ b # None) \/ (\E k \in DOMAIN freeBlocks : freeBlocks[k] = c) =>
           /\ \A u \in Thread : c # ThreadBuf(u)'
           /\ \A i \in Slot : c # SlotBuf(i)'
    <3>1. /\ \A u \in Thread \ {t} : b # None => b # ThreadBuf(u)'
          /\ \A i \in Slot : b # None => b # SlotBuf(i)
      BY <1>1, <1>4 DEF BufInv, BufferExclusive
    <3>2. \A k \in DOMAIN freeBlocks :
             /\ freeBlocks[k] # None
             /\ \A u \in Thread : freeBlocks[k] # ThreadBuf(u)
             /\ \A i \in Slot : freeBlocks[k] # SlotBuf(i)
      BY <1>7 DEF BufInv, BufferExclusive
    <3>3. QED
      BY <1>1, <1>2, <1>4, <3>1, <3>2
  <2>5. \A k \in DOMAIN freeBlocks' :
           /\ \A u \in Thread : freeBlocks'[k] # ThreadBuf(u)'
           /\ \A i \in Slot : freeBlocks'[k] # SlotBuf(i)'
    BY <1>8, <2>4
  <2>6. QED
    BY <2>1, <2>2, <2>3, <2>5 DEF BufferExclusive
<1>12. QED
  BY <1>5, <1>6, <1>9, <1>10, <1>11 DEF BufInv

\* No step of a thread loses a buffer or hands it out twice.
LEMMA ThreadBufInv ==
  ASSUME Tokens, NEW t \in Thread, ThreadStep(t), RingInv, BufInv
  PROVE  BufInv'
<1>1. TypeOK /\ WriterExclusive
  BY DEF Tokens
<1>2. QED
  BY <1>1, AsideBuf, TakeBufBuf, PublishBuf, ReleaseBuf DEF ThreadStep, BufAside

-----------------------------------------------------------------------------
(* The caller and the buffers. *)

\* Every slot has a buffer: the ring is not longer than the list of buffers.
LEMMA RingFits == N <= BlocksMax
<1>1. NumThreads \in Nat /\ NumThreads <= ThreadsMax /\ ThreadsMax \in Nat /\ ExtraBlocks <= 3
  BY MtCoderAssumption DEF NumThreads
<1>2. \A m, n \in Nat : m <= n => m + m \div 8 + 1 <= n + n \div 8 + 1
  OBVIOUS
<1>3. /\ NumThreads + NumThreads \div 8 + 1 \in Int
      /\ ThreadsMax + ThreadsMax \div 8 + 1 \in Int
      /\ ExtraBlocks \in Int
  BY <1>1, MtCoderAssumption
<1>4. QED
  BY <1>1, <1>2, <1>3 DEF N, NumBlocksMax, BlocksMax, GetNumBlocks

\* A new call fills the free list.
LEMMA PrologueBuf ==
  ASSUME Tokens, Prologue
  PROVE  BufInv'
<1>1. \A t \in Thread : pc'[t] \in {"none", "idle"}
  BY DEF Prologue, Tokens, Quiet, AtRest
<1>2. \A t \in Thread : ThreadBuf(t)' = None
  BY <1>1 DEF ThreadBuf
<1>3. \A i \in Slot : SlotBuf(i)' = None
  BY DEF Prologue, SlotBuf
<1>4. freeBlocks' = [i \in 1..BlocksMax |-> i - 1] /\ BlocksMax \in Nat /\ N \in Nat
  BY ConstantFacts DEF Prologue, N
<1>5. Named'
  BY <1>1 DEF Named, NamedBy
<1>6. FreeList'
  BY <1>4 DEF FreeList
<1>7. UsedLow'
  BY <1>2, <1>3 DEF UsedLow
<1>8. NoneLost'
  <2> SUFFICES ASSUME NEW c \in Low PROVE \E k \in DOMAIN freeBlocks' : freeBlocks'[k] = c
    BY DEF NoneLost
  <2>1. c + 1 \in 1..BlocksMax
    BY <1>4, RingFits DEF Low
  <2>2. freeBlocks'[c + 1] = (c + 1) - 1
    BY <1>4, <2>1
  <2>3. QED
    BY <1>4, <2>1, <2>2 DEF Low
<1>9. BufferExclusive'
  <2>1. \A k \in DOMAIN freeBlocks' : freeBlocks'[k] # None
    BY <1>4 DEF None
  <2>2. QED
    BY <1>2, <1>3, <2>1 DEF BufferExclusive
<1>10. QED
  BY <1>5, <1>6, <1>7, <1>8, <1>9 DEF BufInv

\* Its other steps meet no thread that uses one.
LEMMA MainBuf ==
  ASSUME TypeOK, NewInput \/ StartFirst \/ ReturnNoThread \/ OpenReading \/ WaitFinished
                 \/ Collect \/ Free,
         BufInv
  PROVE  BufInv'
<1>1. UNCHANGED <<freeBlocks, readyBlocks, blocks, bi, wi, bufIndex>>
  BY DEF NewInput, StartFirst, ReturnNoThread, OpenReading, WaitFinished, Collect, Free,
         ringVars, dataVars, localVars
<1>2. \A t \in Thread : pc'[t] = pc[t] \/ (pc[t] \in {"none", "idle"} /\ pc'[t] \in {"none", "idle"})
  BY DEF NewInput, StartFirst, ReturnNoThread, OpenReading, WaitFinished, Collect, Free,
         Created, TypeOK, ThreadTypes
<1>3. \A t \in Thread : ThreadBuf(t)' = ThreadBuf(t) /\ (NamedBy(t) => NamedBy(t)')
  BY <1>1, <1>2 DEF ThreadBuf, NamedBy
<1>4. \A i \in Slot : SlotBuf(i)' = SlotBuf(i)
  BY <1>1 DEF SlotBuf
<1>5. Named' /\ FreeList' /\ UsedLow' /\ NoneLost'
  BY <1>1, <1>3, <1>4 DEF BufInv, Named, FreeList, UsedLow, NoneLost
<1>6. BufferExclusive'
  BY <1>1, <1>3, <1>4 DEF BufInv, BufferExclusive
<1>7. QED
  BY <1>5, <1>6 DEF BufInv

-----------------------------------------------------------------------------
(* The ring is safe. *)

\* The ring and the buffers are in step in every state.
THEOREM InStepInvariant == ASSUME MaxCalls = 1 \/ ~ EarlyReuse PROVE Spec => []InStep
<1>1. Init => InStep
  BY InitTokens DEF Init, InStep, Fresh
<1>2. InStep /\ UNCHANGED vars => InStep'
  <2> SUFFICES ASSUME InStep, UNCHANGED vars PROVE InStep'
    OBVIOUS
  <2>1. Tokens'
    BY DEF InStep, Tokens, Quiet, AtRest, ReaderExclusive, WriterExclusive, Reading, Writing,
           TypeOK, CallerTypes, ReaderTypes, RingTypes, DataTypes, EndTypes, ThreadTypes,
           vars, callerVars, readerVars, ringVars, dataVars, endVars, localVars
  <2>2. /\ UNCHANGED <<main, result, blocksSemaphore, blockIndex, writeIndex, readyBlocks, freeBlocks>>
        /\ UNCHANGED <<blocks, pc, bi, wi, bufIndex>>
    BY DEF vars, callerVars, readerVars, ringVars, dataVars, endVars, localVars
  <2>3. Fresh => Fresh'
    BY <2>2 DEF Fresh
  <2>4. RingInv => RingInv'
    BY <2>2 DEF RingInv, Ring, Span, Posting, Owners, Writers, OwnsSlot, Writing
  <2>5. /\ \A t \in Thread : ThreadBuf(t)' = ThreadBuf(t) /\ (NamedBy(t) => NamedBy(t)')
        /\ \A i \in Slot : SlotBuf(i)' = SlotBuf(i)
    BY <2>2 DEF ThreadBuf, SlotBuf, NamedBy
  <2>6. BufInv => BufInv'
    BY <2>2, <2>5 DEF BufInv, Named, FreeList, UsedLow, NoneLost, BufferExclusive
  <2>7. QED
    BY <2>1, <2>3, <2>4, <2>6 DEF InStep
<1>3. InStep /\ (MainStep \/ NewInput) => InStep'
  <2> SUFFICES ASSUME InStep, MainStep \/ NewInput PROVE InStep'
    OBVIOUS
  <2>1. Tokens /\ Tokens'
    BY MainTokens DEF InStep
  <2>2. CASE Prologue
    BY <2>1, <2>2, PrologueRing, PrologueBuf DEF InStep, RingInv
  <2>3. CASE ~ Prologue
    <3>1. ~ Fresh
      BY <2>3 DEF MainStep, NewInput, Fresh, StartFirst, ReturnNoThread, OpenReading,
                  WaitFinished, Collect, Free
    <3>2. QED
      BY <2>1, <2>3, <3>1, MainRing, MainBuf DEF InStep, RingInv, MainStep, Tokens
  <2>4. QED
    BY <2>2, <2>3
<1>4. ASSUME NEW t \in Thread PROVE InStep /\ ThreadStep(t) => InStep'
  <2> SUFFICES ASSUME InStep, ThreadStep(t) PROVE InStep'
    OBVIOUS
  <2>1. Tokens /\ Tokens'
    BY ThreadTokens DEF InStep
  <2>2. ~ Fresh
    <3>1. pc[t] # "none"
      BY <2>1, ThreadPcChange DEF Tokens
    <3>2. QED
      BY <3>1 DEF Fresh
  <2>3. QED
    BY <2>1, <2>2, ThreadRing, ThreadBufInv DEF InStep
<1>5. InStep /\ [NextStep]_vars => InStep'
  BY <1>2, <1>3, <1>4 DEF NextStep, Terminating
<1>6. QED
  BY <1>1, <1>5, PTL DEF Spec

\* The invariant gives what the runs check.
LEMMA InStepIsSafe == InStep => RingSafe
<1> SUFFICES ASSUME InStep PROVE RingSafe
  OBVIOUS
<1>0. TypeOK /\ WriterExclusive /\ N \in Nat
  BY ConstantFacts DEF InStep, Tokens, N
<1>1. CASE Fresh
  <2>1. \A t \in Thread : pc[t] = "none"
    BY <1>1 DEF Fresh
  <2>2. SlotExclusive
    BY <1>0, <1>1, <2>1 DEF SlotExclusive, OwnsSlot, Fresh, N
  <2>3. BufferAvailable
    BY <2>1 DEF BufferAvailable
  <2>4. BufferExclusive
    BY <1>1, <2>1 DEF BufferExclusive, ThreadBuf, SlotBuf, Fresh
  <2>5. QED
    BY <2>2, <2>3, <2>4 DEF RingSafe
<1>2. CASE RingInv /\ BufInv
  <2>1. PICK w, l : Ring(w, l)
    BY <1>2 DEF RingInv
  <2>2. blocksSemaphore <= NumBlocksMax
    <3>1. Cardinality(Posting) \in Nat
      BY ThreadsFinite DEF Posting
    <3>2. blocksSemaphore \in Nat /\ l \in Nat /\ blocksSemaphore + Cardinality(Posting) + l = N
      BY <1>0, <2>1 DEF Ring, Span, TypeOK, RingTypes
    <3>3. QED
      BY <1>0, <3>1, <3>2 DEF N
  <2>3. SlotExclusive
    BY <2>1, <2>2 DEF SlotExclusive, Ring, Owners, Writers, Writing
  <2>4. BufferAvailable
    BY <1>0, <1>2, BufferThere DEF BufferAvailable, FirstFree, Low, N
  <2>5. QED
    BY <1>2, <2>3, <2>4 DEF RingSafe, BufInv
<1>3. QED
  BY <1>1, <1>2 DEF InStep

\* When an object is used once, or again only at rest, the ring is safe whatever fails and
\* whatever the number of threads and blocks: a slot is filled by one thread and not before
\* its last block was written, no buffer is in two places or handed out twice, and a thread
\* that takes a buffer always finds one (MtCoder.c:175-188, 228-231, 242-319).
THEOREM RingIsSafe == ASSUME MaxCalls = 1 \/ ~ EarlyReuse PROVE Spec => []RingSafe
<1>1. QED
  BY InStepInvariant, InStepIsSafe, PTL

-----------------------------------------------------------------------------
(***************************************************************************)
(* MtCoder implements BlockPipeline: the output is the input in order and  *)
(* without a gap, and SZ_OK means that it is complete, for every number of *)
(* threads and blocks and whatever fails.                                  *)
(***************************************************************************)

-----------------------------------------------------------------------------
(* The inductive invariant. *)

\* In this call k slots were taken so far and the l slots from w are in use, so
\* slot i has this number among those taken: the number of its block in the input.
Number(w, l, k, i) == k - l + 1 + Rank(w, i)

\* The block a thread that fills a slot works on is in its input, then in a buffer.
Input(t) == pc[t] \in {"check", "start", "setRead", "takeBuf", "code"}

OwnedBy(t, w, l, k) ==
  /\ OwnsSlot(t) /\ res[t] = "ok" =>
       /\ Input(t) => inBuf[t] = Number(w, l, k, bi[t])
       /\ ~ Input(t) => bufIndex[t] # None /\ bufData[bufIndex[t]] = Number(w, l, k, bi[t])
  /\ pc[t] = "code" => bufIndex[t] # None

\* The record of a block that waits, and that of one about to be published.
RecordAt(i, w, l, k) ==
  readyBlocks[i] /\ blocks[i].res = "ok" =>
    blocks[i].bufIndex # None /\ bufData[blocks[i].bufIndex] = Number(w, l, k, i)

RecordBy(t) ==
  pc[t] = "publish" =>
    blocks[bi[t]] = [res |-> res[t], bufIndex |-> bufIndex[t], finished |-> finished[t]]

\* The block that is written next.
WrittenBy(t, l, k) ==
  /\ pc[t] = "write" /\ res[t] = "ok" =>
       bufIndex[t] # None /\ bufData[bufIndex[t]] = k - l + 1
  /\ pc[t] = "postMore" /\ blocks[wi[t]].res = "ok" =>
       blocks[wi[t]].bufIndex # None /\ bufData[blocks[wi[t]].bufIndex] = k - l + 1

\* Where each block of the input is.
Items(w, l, k) ==
  /\ \A t \in Thread : OwnedBy(t, w, l, k) /\ RecordBy(t) /\ WrittenBy(t, l, k)
  /\ \A i \in Slot : RecordAt(i, w, l, k)

Releasing == \E t \in Thread : pc[t] = "release"

\* How many blocks have had their turn to be written.
Turn(l, k) == IF Releasing THEN k - l + 1 ELSE k - l

\* What was written: all of them while nothing failed.
Output(l, k) ==
  /\ l <= k
  /\ Pipeline!LastOf(out) <= Turn(l, k)
  /\ progressRes = "ok" => out = [i \in 1..Turn(l, k) |-> i]

\* What was read: one block for each slot taken, until reading stops.
ReaderBy(t, k) ==
  /\ pc[t] = "read" => k = readProcessed /\ k < total
  /\ pc[t] = "waitBlock" =>
       /\ k < total
       /\ res[t] = "ok" => /\ readProcessed = k + 1 /\ inBuf[t] = k + 1
                           /\ finished[t] <=> k + 1 = total
  /\ pc[t] \in {"check", "start", "setRead"} /\ res[t] = "ok" =>
       k = readProcessed /\ (finished[t] <=> k = total)
  /\ pc[t] \in {"start", "setRead"} /\ res[t] # "ok" => finished[t]

Reader(k) ==
  /\ k \in 0..total
  /\ ~ stopReading /\ (\A t \in Thread : ~ Reading(t)) => k = readProcessed /\ k < total
  /\ stopReading /\ progressRes = "ok" => k = total
  /\ \A t \in Thread : ReaderBy(t, k)

\* Whatever fails is made known in progressRes.
NotedBy(t) ==
  /\ pc[t] \notin {"none", "idle", "waitRead", "incr", "finish"} /\ res[t] # "ok"
       => progressRes # "ok"
  /\ pc[t] = "postMore" /\ blocks[wi[t]].res # "ok" => progressRes # "ok"

Noted ==
  /\ readRes # "ok" \/ writeRes # "ok" => progressRes # "ok"
  /\ \A t \in Thread : NotedBy(t)
  /\ \A i \in Slot : readyBlocks[i] /\ blocks[i].res # "ok" => progressRes # "ok"

\* Threads end, and the caller is woken, only when reading has stopped.
Stopped == stopReading \/ progressRes # "ok"

StopsBy(t) ==
  /\ pc[t] \in {"incr", "finish"} => Stopped
  /\ finished[t] /\ pc[t] \in {"takeBuf", "code", "store", "publish", "write", "release",
                               "postMore", "postLast"} => Stopped
  /\ pc[t] = "postMore" /\ blocks[wi[t]].finished => Stopped

Stops ==
  /\ finishedEvent \/ main = "collect" => Stopped
  /\ \A t \in Thread : StopsBy(t)
  /\ \A i \in Slot : readyBlocks[i] /\ blocks[i].finished => Stopped

\* Every slot in use is being filled, waits or is being written, and the right
\* to write is not left at a slot that waits.
Covered(w, l) ==
  /\ \A i \in Slot : Rank(w, i) < l =>
       \/ readyBlocks[i]
       \/ \E t \in Thread : OwnsSlot(t) /\ bi[t] = i
       \/ i = w /\ \E t \in Thread : Writing(t)
  /\ writeIndex # None => ~ readyBlocks[writeIndex]
  /\ writeIndex = None => \E t \in Thread : Writing(t)

Blocks(w, l, k) ==
  Ring(w, l) /\ Items(w, l, k) /\ Output(l, k) /\ Reader(k) /\ Noted /\ Stops /\ Covered(w, l)

\* Between two calls the output is that of the last one.
Results ==
  /\ main # "idle" => result = "none"
  /\ main = "idle" /\ result = "none" => out = <<>>
  /\ main = "idle" /\ result = "ok" => out = [i \in 1..total |-> i]
  /\ main = "free" => progressRes # "ok" /\ CallResult # "ok"

Pipe ==
  /\ Results
  /\ main \in {"first", "open", "wait", "collect"} => \E w, l, k : Blocks(w, l, k)

-----------------------------------------------------------------------------
(* What a step leaves alone. *)

\* A step of t leaves the locals of the others.
LEMMA OthersLocals ==
  ASSUME TypeOK, NEW t \in Thread, ThreadStep(t), NEW u \in Thread \ {t}
  PROVE  /\ pc'[u] = pc[u] \/ (pc[u] = "none" /\ pc'[u] = "idle")
         /\ res'[u] = res[u] /\ finished'[u] = finished[u] /\ inBuf'[u] = inBuf[u]
         /\ bi'[u] = bi[u] /\ wi'[u] = wi[u] /\ bufIndex'[u] = bufIndex[u]
<1>1. pc'[u] = pc[u] \/ (pc[u] = "none" /\ pc'[u] = "idle")
  BY ThreadPcChange
<1>2. bi'[u] = bi[u] /\ wi'[u] = wi[u] /\ bufIndex'[u] = bufIndex[u]
  BY LocalsStay
<1>3. res'[u] = res[u] /\ finished'[u] = finished[u] /\ inBuf'[u] = inBuf[u]
  <2> USE DEF TypeOK, ThreadTypes, localVars
  <2>1. CASE WaitStart(t) \/ TakeRead(t) \/ Read(t) \/ TakeSlot(t) \/ StartNext(t)
    BY <2>1 DEF WaitStart, TakeRead, Read, TakeSlot, StartNext
  <2>2. CASE Check(t)
    BY <2>2 DEF Check
  <2>3. CASE HandRead(t) \/ TakeBuf(t) \/ Code(t) \/ Store(t)
    BY <2>3 DEF HandRead, TakeBuf, Code, Store
  <2>4. CASE Publish(t) \/ Post(t)
    BY <2>4 DEF Publish, Post, Leave
  <2>5. CASE Write(t) \/ Release(t) \/ CountFinished(t) \/ SignalFinished(t)
    BY <2>5 DEF Write, Release, CountFinished, SignalFinished
  <2>6. QED
    BY <2>1, <2>2, <2>3, <2>4, <2>5 DEF ThreadStep
<1>4. QED
  BY <1>1, <1>2, <1>3

\* An error once made known stays known, and reading does not start again.
LEMMA ErrorsStay ==
  ASSUME TypeOK, NEW t \in Thread, ThreadStep(t)
  PROVE  /\ progressRes # "ok" => progressRes' # "ok"
         /\ stopReading => stopReading'
         /\ UNCHANGED <<main, result, total>>
<1> USE DEF SetError, callerVars, readerVars
<1>0. CASE HandRead(t)
  BY <1>0 DEF HandRead, TypeOK, ReaderTypes, ThreadTypes
<1>1. CASE WaitStart(t) \/ TakeRead(t) \/ Read(t) \/ TakeSlot(t) \/ StartNext(t)
  BY <1>1 DEF WaitStart, TakeRead, Read, TakeSlot, StartNext, StartThread
<1>2. CASE Check(t)
  BY <1>2 DEF Check
<1>3. CASE TakeBuf(t) \/ Code(t) \/ Store(t)
  BY <1>3 DEF TakeBuf, Code, Store
<1>4. CASE Publish(t) \/ Post(t)
  BY <1>4 DEF Publish, Post
<1>5. CASE Write(t) \/ Release(t) \/ CountFinished(t) \/ SignalFinished(t)
  BY <1>5 DEF Write, Release, CountFinished, SignalFinished
<1>6. QED
  BY <1>0, <1>1, <1>2, <1>3, <1>4, <1>5 DEF ThreadStep

\* Only the buffer a thread codes into changes.
LEMMA DataStays ==
  ASSUME TypeOK, NEW t \in Thread, ThreadStep(t), BufferExclusive
  PROVE  /\ \A u \in Thread \ {t} :
              ThreadBuf(u) # None => bufData'[ThreadBuf(u)] = bufData[ThreadBuf(u)]
         /\ \A i \in Slot : SlotBuf(i) # None => bufData'[SlotBuf(i)] = bufData[SlotBuf(i)]
         /\ pc[t] # "code" => bufData' = bufData
<1>1. CASE Code(t)
  <2>1. /\ \A b \in Buf : b # bufIndex[t] => bufData'[b] = bufData[b]
        /\ ThreadBuf(t) = bufIndex[t]
        /\ pc[t] = "code"
    BY <1>1 DEF Code, ThreadBuf, TypeOK, DataTypes
  <2>2. \A u \in Thread : ThreadBuf(u) \in Buf \cup {None}
    BY DEF ThreadBuf, TypeOK, ThreadTypes, DataTypes, BlockRecord
  <2>3. \A i \in Slot : SlotBuf(i) \in Buf \cup {None}
    BY DEF SlotBuf, TypeOK, DataTypes, BlockRecord
  <2>4. QED
    BY <2>1, <2>2, <2>3 DEF BufferExclusive
<1>2. CASE ~ Code(t)
  <2>1. bufData' = bufData
    BY <1>2 DEF ThreadStep, dataVars, WaitStart, TakeRead, Read, TakeSlot, Check, StartNext,
         HandRead, TakeBuf, Store, Publish, Write, Release, Post, CountFinished, SignalFinished
  <2>2. QED
    BY <2>1
<1>3. QED
  BY <1>1, <1>2

-----------------------------------------------------------------------------
(* Where the blocks are. *)

\* A step of t leaves the blocks of the others where they are, as long as their slots
\* keep their numbers.
LEMMA OthersItems ==
  ASSUME TypeOK, BufferExclusive, NEW t \in Thread, ThreadStep(t),
         NEW w, NEW l, NEW k, NEW x, NEW m, NEW j, Ring(w, l), NEW u \in Thread \ {t},
         OwnsSlot(u) => Number(x, m, j, bi[u]) = Number(w, l, k, bi[u]),
         Writing(u) => j - m + 1 = k - l + 1,
         OwnedBy(u, w, l, k), RecordBy(u), WrittenBy(u, l, k)
  PROVE  OwnedBy(u, x, m, j)' /\ RecordBy(u)' /\ WrittenBy(u, m, j)'
<1>1. /\ pc'[u] = pc[u] \/ (pc[u] = "none" /\ pc'[u] = "idle")
      /\ res'[u] = res[u] /\ finished'[u] = finished[u] /\ inBuf'[u] = inBuf[u]
      /\ bi'[u] = bi[u] /\ wi'[u] = wi[u] /\ bufIndex'[u] = bufIndex[u]
  BY OthersLocals
<1>2. ThreadBuf(u) # None => bufData'[ThreadBuf(u)] = bufData[ThreadBuf(u)]
  BY DataStays
<1>3. bi[u] \in Slot /\ wi[u] \in Slot
  BY DEF TypeOK, ThreadTypes
<1>4. pc[u] = "postMore" => blocks'[wi[u]] = blocks[wi[u]]
  <2>1. CASE pc[t] = "store" /\ pc[u] = "postMore"
    <3>1. OwnsSlot(t) /\ Writing(u)
      BY <2>1 DEF OwnsSlot, Writing
    <3>2. wi[u] # bi[t]
      BY <3>1 DEF Ring, Writers
    <3>3. QED
      BY <1>3, <3>2, LocalsStay
  <2>2. QED
    BY <2>1, LocalsStay
<1>5. pc[u] = "publish" => blocks'[bi[u]] = blocks[bi[u]]
  <2>1. CASE pc[t] = "store" /\ pc[u] = "publish"
    <3>1. OwnsSlot(t) /\ OwnsSlot(u)
      BY <2>1 DEF OwnsSlot
    <3>2. bi[u] # bi[t]
      BY <3>1 DEF Ring, Owners
    <3>3. QED
      BY <1>3, <3>2, LocalsStay
  <2>2. QED
    BY <2>1, LocalsStay
<1>6. OwnedBy(u, x, m, j)'
  <2>1. OwnsSlot(u) /\ ~ Input(u) => ThreadBuf(u) = bufIndex[u]
    BY DEF OwnsSlot, Input, ThreadBuf
  <2>2. QED
    BY <1>1, <1>2, <2>1 DEF OwnedBy, OwnsSlot, Input
<1>7. RecordBy(u)'
  BY <1>1, <1>5 DEF RecordBy
<1>8. WrittenBy(u, m, j)'
  <2>1. /\ pc[u] = "write" => ThreadBuf(u) = bufIndex[u] /\ Writing(u)
        /\ pc[u] = "postMore" => ThreadBuf(u) = blocks[wi[u]].bufIndex /\ Writing(u)
    BY DEF ThreadBuf, Writing
  <2>2. QED
    BY <1>1, <1>2, <1>4, <2>1 DEF WrittenBy
<1>9. QED
  BY <1>6, <1>7, <1>8

\* The same for a slot that waits.
LEMMA SlotsItems ==
  ASSUME TypeOK, BufferExclusive, NEW t \in Thread, ThreadStep(t),
         NEW w, NEW l, NEW k, NEW x, NEW m, NEW j, Ring(w, l), NEW i \in Slot,
         readyBlocks[i], Number(x, m, j, i) = Number(w, l, k, i), RecordAt(i, w, l, k)
  PROVE  RecordAt(i, x, m, j)'
<1>1. blocks'[i] = blocks[i]
  BY RecordStays DEF RingInv
<1>2. SlotBuf(i) = blocks[i].bufIndex
  BY DEF SlotBuf
<1>3. QED
  BY <1>1, <1>2, DataStays DEF RecordAt

\* The steps that move neither end of the slots in use.
EndsAside(t) ==
  \/ RingAside(t) \/ Publish(t) \/ Post(t)

\* In them t passes its block on from place to place.
LEMMA OwnItems ==
  ASSUME TypeOK, WriterExclusive, RingInv, BufInv, NEW t \in Thread, EndsAside(t),
         NEW w, NEW l, NEW k \in Nat, Ring(w, l), OwnedBy(t, w, l, k), RecordBy(t), WrittenBy(t, l, k)
  PROVE  OwnedBy(t, w, l, k)' /\ RecordBy(t)' /\ WrittenBy(t, l, k)'
<1> USE DEF TypeOK, ThreadTypes, DataTypes, Goto, OwnsSlot, Input, dataVars, localVars
<1> USE DEF OwnedBy, RecordBy, WrittenBy
<1>1. CASE WaitStart(t) \/ TakeRead(t) \/ Read(t) \/ CountFinished(t) \/ SignalFinished(t)
  <2>1. pc'[t] \in {"waitRead", "incr", "read", "waitBlock", "finish", "idle"}
    BY <1>1 DEF WaitStart, TakeRead, Read, CountFinished, SignalFinished
  <2>2. QED
    BY <2>1
<1>2. CASE Check(t)
  <2>1. /\ pc[t] = "check" /\ pc'[t] \in {"start", "setRead"} /\ UNCHANGED <<inBuf, bi>>
        /\ res'[t] = "ok" => res[t] = "ok"
    BY <1>2 DEF Check
  <2>2. QED
    BY <2>1
<1>3. CASE StartNext(t)
  <2>1. pc' = [pc EXCEPT ![t] = "setRead"] \/ pc' = [Created(numStarted) EXCEPT ![t] = "setRead"]
    BY <1>3 DEF StartNext
  <2>2. /\ pc[t] = "start" /\ pc'[t] = "setRead" /\ UNCHANGED <<inBuf, bi>>
        /\ res'[t] = "ok" => res[t] = "ok"
    BY <1>3, <2>1 DEF StartNext, Created
  <2>3. QED
    BY <2>2
<1>4. CASE HandRead(t)
  <2>1. /\ pc[t] = "setRead" /\ UNCHANGED <<inBuf, bi, res>>
        /\ pc'[t] = "takeBuf" \/ (pc'[t] = "store" /\ res[t] # "ok")
    BY <1>4 DEF HandRead
  <2>2. QED
    BY <2>1
<1>5. CASE TakeBuf(t)
  <2>1. /\ pc[t] = "takeBuf" /\ pc'[t] = "code" /\ UNCHANGED <<inBuf, bi, res>>
        /\ bufIndex'[t] = Head(freeBlocks) /\ freeBlocks # <<>>
    BY <1>5, BufferThere DEF TakeBuf, FirstFree
  <2>2. bufIndex'[t] # None
    BY <2>1, BufferThere, ConstantFacts DEF Low, None, N
  <2>3. QED
    BY <2>1, <2>2
<1>6. CASE Code(t)
  <2>1. /\ pc[t] = "code" /\ pc'[t] = "store" /\ UNCHANGED <<bufIndex, bi>>
        /\ \/ res' = res /\ bufData' = [bufData EXCEPT ![bufIndex[t]] = inBuf[t]]
           \/ res'[t] # "ok"
        /\ bufIndex[t] \in Buf
    BY <1>6 DEF Code
  <2>2. QED
    BY <2>1
<1>7. CASE Store(t)
  <2>1. /\ pc[t] = "store" /\ pc'[t] = "publish" /\ UNCHANGED <<bufIndex, bi, res, finished, bufData>>
        /\ blocks'[bi[t]] = [res |-> res[t], bufIndex |-> bufIndex[t], finished |-> finished[t]]
    BY <1>7 DEF Store
  <2>2. QED
    BY <2>1
<1>8. CASE Publish(t)
  <2>1. /\ pc[t] = "publish" /\ UNCHANGED bufData
        /\ \/ pc'[t] \in {"incr", "waitRead"}
           \/ /\ pc'[t] = "write" /\ writeIndex = bi[t] /\ UNCHANGED bufIndex
              /\ res'[t] = "ok" => res[t] = "ok"
    BY <1>8 DEF Publish
  <2>2. CASE pc'[t] \in {"incr", "waitRead"}
    BY <2>2
  <2>3. CASE pc'[t] = "write"
    <3>1. bi[t] = w /\ w \in Slot
      BY <2>1, <2>3, ConstantFacts DEF Ring, Span
    <3>2. Rank(w, w) = 0 /\ l \in Int
      BY <3>1, RankFacts, ConstantFacts DEF Ring, Span, N
    <3>3. Number(w, l, k, bi[t]) = k - l + 1
      <4>1. Number(w, l, k, w) = k - l + 1 + 0
        BY <3>2 DEF Number
      <4>2. QED
        BY <3>1, <3>2, <4>1
    <3>4. QED
      BY <2>1, <2>3, <3>3
  <2>4. QED
    BY <2>1, <2>2, <2>3
<1>9. CASE Write(t)
  <2>1. pc'[t] = "release"
    BY <1>9 DEF Write
  <2>2. QED
    BY <2>1
<1>10. CASE Post(t)
  <2>1. /\ UNCHANGED bufData
        /\ \/ pc'[t] \in {"incr", "waitRead"}
           \/ /\ pc[t] = "postMore" /\ pc'[t] = "write"
              /\ bufIndex'[t] = blocks[wi[t]].bufIndex
              /\ res'[t] = "ok" => blocks[wi[t]].res = "ok"
    BY <1>10 DEF Post, Sticky
  <2>2. QED
    BY <2>1
<1>11. QED
  BY <1>1, <1>2, <1>3, <1>4, <1>5, <1>6, <1>7, <1>8, <1>9, <1>10 DEF EndsAside, RingAside

\* So every block is where it was or one place further.
LEMMA ItemsStay ==
  ASSUME TypeOK, WriterExclusive, RingInv, BufInv, NEW t \in Thread, EndsAside(t),
         NEW w, NEW l, NEW k \in Nat, Ring(w, l), Items(w, l, k)
  PROVE  Items(w, l, k)'
<1>0. ThreadStep(t) /\ BufferExclusive
  BY DEF EndsAside, RingAside, ThreadStep, BufInv
<1>1. \A u \in Thread : OwnedBy(u, w, l, k) /\ RecordBy(u) /\ WrittenBy(u, l, k)
  BY DEF Items
<1>2. OwnedBy(t, w, l, k)' /\ RecordBy(t)' /\ WrittenBy(t, l, k)'
  BY <1>1, OwnItems
<1>3. ASSUME NEW u \in Thread \ {t}
      PROVE  OwnedBy(u, w, l, k)' /\ RecordBy(u)' /\ WrittenBy(u, l, k)'
  BY <1>0, <1>1, OthersItems
<1>4. ASSUME NEW i \in Slot PROVE RecordAt(i, w, l, k)'
  <2>1. RecordAt(i, w, l, k)
    BY DEF Items
  <2>2. CASE readyBlocks[i]
    BY <1>0, <2>1, <2>2, SlotsItems
  <2>3. CASE ~ readyBlocks[i] /\ readyBlocks'[i]
    <3>1. pc[t] = "publish" /\ bi[t] = i /\ UNCHANGED <<blocks, bufData>>
      <4>1. ~ RingAside(t) /\ ~ Post(t)
        BY <2>3, AsideKeeps DEF Post
      <4>2. Publish(t)
        BY <4>1 DEF EndsAside
      <4>3. QED
        BY <2>3, <4>2 DEF Publish, dataVars, TypeOK, RingTypes
    <3>2. OwnedBy(t, w, l, k) /\ RecordBy(t)
      BY <1>1
    <3>3. QED
      BY <3>1, <3>2 DEF OwnedBy, RecordBy, RecordAt, OwnsSlot, Input
  <2>4. QED
    BY <2>2, <2>3 DEF RecordAt
<1>5. QED
  BY <1>2, <1>3, <1>4 DEF Items

\* The slot that is taken gets the number of the block that was read.
LEMMA TakeSlotItems ==
  ASSUME TypeOK, BufferExclusive, NEW t \in Thread, TakeSlot(t),
         NEW w, NEW l, NEW k \in Nat, Ring(w, l), Items(w, l, k), ReaderBy(t, k)
  PROVE  Items(w, l + 1, k + 1)'
<1>0. ThreadStep(t)
  BY DEF ThreadStep
<1>1. w \in Slot /\ l \in 0..N /\ l < N
  BY TakeSlotRing DEF Ring, Span
<1>2. l \in Nat /\ \A i : Number(w, l + 1, k + 1, i) = Number(w, l, k, i)
  <2>1. l \in Nat /\ (k + 1) - (l + 1) + 1 = k - l + 1
    BY <1>1, ConstantFacts DEF N
  <2>2. QED
    BY <2>1 DEF Number
<1>3. (k + 1) - (l + 1) + 1 = k - l + 1
  BY <1>2
<1>4. /\ pc[t] = "waitBlock" /\ pc'[t] = "check" /\ bi'[t] = blockIndex
      /\ UNCHANGED <<res, inBuf, readyBlocks>>
  BY DEF TakeSlot, Goto, TypeOK, ThreadTypes
<1>5. OwnedBy(t, w, l + 1, k + 1)' /\ RecordBy(t)' /\ WrittenBy(t, l + 1, k + 1)'
  <2>1. blockIndex \in Slot /\ Rank(w, blockIndex) = l
    BY <1>1, EndFacts DEF Ring, Span
  <2>2. Number(w, l + 1, k + 1, blockIndex) = k + 1
    <3>1. (k + 1) - (l + 1) + 1 + l = k + 1
      BY <1>2
    <3>2. QED
      BY <2>1, <3>1 DEF Number
  <2>3. res[t] = "ok" => inBuf[t] = k + 1
    BY <1>4 DEF ReaderBy
  <2>4. QED
    BY <1>4, <2>2, <2>3 DEF OwnedBy, RecordBy, WrittenBy, Input
<1>6. ASSUME NEW u \in Thread \ {t}
      PROVE  OwnedBy(u, w, l + 1, k + 1)' /\ RecordBy(u)' /\ WrittenBy(u, l + 1, k + 1)'
  <2>1. OwnedBy(u, w, l, k) /\ RecordBy(u) /\ WrittenBy(u, l, k)
    BY DEF Items
  <2>2. Number(w, l + 1, k + 1, bi[u]) = Number(w, l, k, bi[u])
    BY <1>2
  <2>3. QED
    BY <1>0, <1>3, <2>1, <2>2, OthersItems
<1>7. ASSUME NEW i \in Slot PROVE RecordAt(i, w, l + 1, k + 1)'
  <2>1. RecordAt(i, w, l, k) /\ Number(w, l + 1, k + 1, i) = Number(w, l, k, i)
    BY <1>2 DEF Items
  <2>2. readyBlocks[i] => RecordAt(i, w, l + 1, k + 1)'
    BY <1>0, <2>1, SlotsItems
  <2>3. QED
    BY <1>4, <2>2 DEF RecordAt
<1>8. QED
  BY <1>5, <1>6, <1>7 DEF Items

\* When the first slot is released the numbers of the others stay.
LEMMA ReleaseItems ==
  ASSUME TypeOK, WriterExclusive, BufferExclusive, NEW t \in Thread, Release(t),
         NEW w, NEW l, NEW k \in Nat, Ring(w, l), Items(w, l, k)
  PROVE  Items(Next(w), l - 1, k)'
<1>0. ThreadStep(t)
  BY DEF ThreadStep
<1>a. PICK x : x = Next(w)
  OBVIOUS
<1>1. /\ w \in Slot /\ l \in 0..N /\ l > 0 /\ wi[t] = w /\ ~ readyBlocks[w]
      /\ Writing(t) /\ x \in Slot
      /\ \A u \in Thread : OwnsSlot(u) => bi[u] # w
  BY <1>a, NextInRing DEF Ring, Span, Writers, Release, Writing
<1>2. l \in Nat /\ N \in Nat
  BY <1>1, ConstantFacts DEF N
<1>3. \A i \in Slot \ {w} : Number(x, l - 1, k, i) = Number(w, l, k, i)
  <2> SUFFICES ASSUME NEW i \in Slot \ {w}
               PROVE  Number(x, l - 1, k, i) = Number(w, l, k, i)
    OBVIOUS
  <2>1. Rank(x, i) = Rank(w, i) - 1 /\ Rank(w, i) \in Int
    BY <1>1, <1>a, RankFacts
  <2>2. QED
    BY <1>2, <2>1 DEF Number
<1>4. /\ pc[t] = "release" /\ pc'[t] \in {"postMore", "postLast"} /\ wi'[t] = x
      /\ UNCHANGED <<blocks, bufData>>
      /\ \A i \in Slot : readyBlocks'[i] => readyBlocks[i]
      /\ pc'[t] = "postMore" => readyBlocks[x]
  BY <1>1, <1>a DEF Release, Goto, dataVars, TypeOK, ThreadTypes, RingTypes
<1>5. OwnedBy(t, x, l - 1, k)' /\ RecordBy(t)' /\ WrittenBy(t, l - 1, k)'
  <2>1. CASE pc'[t] = "postMore"
    <3>1. readyBlocks[x] /\ x # w /\ RecordAt(x, w, l, k)
      BY <1>1, <1>4, <2>1 DEF Items
    <3>2. Number(w, l, k, x) = k - (l - 1) + 1
      <4>1. Rank(x, x) = 0
        BY <1>1, RankFacts
      <4>2. Number(x, l - 1, k, x) = k - (l - 1) + 1 + 0
        BY <4>1 DEF Number
      <4>3. QED
        BY <1>1, <1>2, <1>3, <3>1, <4>2
    <3>3. QED
      BY <1>4, <2>1, <3>1, <3>2 DEF OwnedBy, OwnsSlot, RecordBy, WrittenBy, RecordAt
  <2>2. CASE pc'[t] = "postLast"
    BY <2>2 DEF OwnedBy, OwnsSlot, RecordBy, WrittenBy
  <2>3. QED
    BY <1>4, <2>1, <2>2
<1>6. ASSUME NEW u \in Thread \ {t}
      PROVE  OwnedBy(u, x, l - 1, k)' /\ RecordBy(u)' /\ WrittenBy(u, l - 1, k)'
  <2>1. OwnedBy(u, w, l, k) /\ RecordBy(u) /\ WrittenBy(u, l, k)
    BY DEF Items
  <2>2. OwnsSlot(u) => Number(x, l - 1, k, bi[u]) = Number(w, l, k, bi[u])
    BY <1>1, <1>3 DEF TypeOK, ThreadTypes
  <2>3. ~ Writing(u)
    BY <1>1 DEF WriterExclusive
  <2>4. QED
    BY <1>0, <2>1, <2>2, <2>3, OthersItems, ZenonT(40)
<1>7. ASSUME NEW i \in Slot PROVE RecordAt(i, x, l - 1, k)'
  <2>1. CASE readyBlocks[i]
    <3>1. RecordAt(i, w, l, k) /\ Number(x, l - 1, k, i) = Number(w, l, k, i)
      BY <1>1, <1>3, <2>1 DEF Items
    <3>2. QED
      BY <1>0, <2>1, <3>1, SlotsItems
  <2>2. CASE ~ readyBlocks[i]
    BY <1>4, <2>2 DEF RecordAt
  <2>3. QED
    BY <2>1, <2>2
<1>8. Items(x, l - 1, k)'
  BY <1>5, <1>6, <1>7 DEF Items
<1>9. QED
  BY <1>8, <1>a

-----------------------------------------------------------------------------
(* What is read. *)

\* The reader takes the next block of the input, or notes that reading stops.
LEMMA ReaderStays ==
  ASSUME Tokens, NEW t \in Thread, ThreadStep(t), ~ TakeSlot(t), NEW k, Reader(k), Noted
  PROVE  Reader(k)'
<1>0. TypeOK /\ ReaderExclusive /\ UNCHANGED total
  BY ErrorsStay DEF Tokens
<1>1. k \in 0..total /\ total \in Nat /\ ReaderBy(t, k) /\ readProcessed \in Nat
  BY <1>0 DEF Reader, TypeOK, CallerTypes, ReaderTypes
<1>2. \A u \in Thread \ {t} : pc'[u] = pc[u] \/ (pc[u] = "none" /\ pc'[u] = "idle")
  BY <1>0, OthersLocals
<1>3. CASE Reading(t)
  <2>1. \A u \in Thread \ {t} : ~ Reading(u) /\ ~ Reading(u)'
    BY <1>0, <1>2, <1>3 DEF ReaderExclusive, Reading
  <2>2. \A u \in Thread \ {t} : ReaderBy(u, k)'
    BY <2>1 DEF ReaderBy, Reading
  <2>3. CASE Read(t)
    <3>1. /\ pc[t] = "read" /\ pc'[t] = "waitBlock" /\ UNCHANGED stopReading
          /\ \/ /\ readProcessed' = readProcessed + 1 /\ inBuf'[t] = readProcessed + 1
                /\ finished'[t] = (readProcessed + 1 = total) /\ UNCHANGED progressRes
             \/ res'[t] # "ok"
      BY <1>0, <2>3 DEF Read, Goto, TypeOK, ThreadTypes
    <3>2. ReaderBy(t, k)'
      BY <1>0, <1>1, <3>1 DEF ReaderBy
    <3>3. Reading(t)'
      BY <3>1 DEF Reading
    <3>4. progressRes' = "ok" => progressRes = "ok"
      BY <1>0, ErrorsStay
    <3>5. QED
      BY <1>0, <2>2, <3>1, <3>2, <3>3, <3>4 DEF Reader
  <2>4. CASE Check(t)
    <3>1. /\ pc[t] = "check" /\ pc'[t] \in {"start", "setRead"} /\ UNCHANGED <<stopReading, readProcessed, progressRes>>
          /\ res'[t] = "ok" => res[t] = "ok" /\ (finished'[t] <=> finished[t])
          /\ res'[t] # "ok" => finished'[t]
      BY <1>0, <2>4 DEF Check, Goto, readerVars, TypeOK, ThreadTypes
    <3>2. ReaderBy(t, k)'
      BY <1>0, <1>1, <3>1 DEF ReaderBy
    <3>3. Reading(t)'
      BY <3>1 DEF Reading
    <3>4. QED
      BY <1>0, <2>2, <3>1, <3>2, <3>3 DEF Reader
  <2>5. CASE StartNext(t)
    <3>1. pc' = [pc EXCEPT ![t] = "setRead"] \/ pc' = [Created(numStarted) EXCEPT ![t] = "setRead"]
      BY <2>5 DEF StartNext, Goto
    <3>2. /\ pc[t] = "start" /\ pc'[t] = "setRead" /\ UNCHANGED <<stopReading, readProcessed>>
          /\ \/ UNCHANGED <<res, finished>>
             \/ res'[t] # "ok" /\ finished'[t]
      BY <1>0, <2>5, <3>1 DEF StartNext, Created, TypeOK, ThreadTypes
    <3>3. ReaderBy(t, k)'
      BY <1>0, <1>1, <3>2 DEF ReaderBy
    <3>4. Reading(t)'
      BY <3>2 DEF Reading
    <3>5. progressRes' = "ok" => progressRes = "ok"
      BY <1>0, ErrorsStay
    <3>6. QED
      BY <1>0, <2>2, <3>2, <3>3, <3>4, <3>5 DEF Reader
  <2>6. CASE HandRead(t)
    <3>1. /\ pc[t] = "setRead" /\ pc'[t] \in {"takeBuf", "store"}
          /\ stopReading' = (stopReading \/ finished[t])
          /\ UNCHANGED <<readProcessed, progressRes>>
      BY <1>0, <2>6 DEF HandRead, Goto, TypeOK, ThreadTypes
    <3>2. res[t] # "ok" => progressRes # "ok" /\ finished[t]
      BY <1>1, <3>1 DEF Noted, NotedBy, ReaderBy
    <3>3. res[t] = "ok" => k = readProcessed /\ (finished[t] <=> k = total)
      BY <1>1, <3>1 DEF ReaderBy
    <3>4. ReaderBy(t, k)'
      BY <3>1 DEF ReaderBy
    <3>5. ~ stopReading' => k = readProcessed /\ k < total
      <4>1. ~ stopReading' => ~ finished[t]
        BY <3>1
      <4>2. ~ stopReading' => res[t] = "ok"
        BY <3>2, <4>1
      <4>3. QED
        BY <1>1, <3>3, <4>1, <4>2
    <3>6. stopReading' /\ progressRes = "ok" => k = total
      BY <3>1, <3>2, <3>3 DEF Reader
    <3>7. QED
      BY <1>0, <1>1, <2>2, <3>1, <3>4, <3>5, <3>6 DEF Reader
  <2>7. QED
    <3>1. pc[t] \in {"read", "check", "start", "setRead"}
      BY <1>3 DEF Reading, ThreadStep, TakeSlot, WaitStart, TakeRead, Read, Check, StartNext,
         HandRead, TakeBuf, Code, Store, Publish, Write, Release, Post, CountFinished,
         SignalFinished
    <3>2. Read(t) \/ Check(t) \/ StartNext(t) \/ HandRead(t)
      BY <3>1 DEF ThreadStep, TakeSlot, WaitStart, TakeRead,
         TakeBuf, Code, Store, Publish, Write, Release, Post, CountFinished, SignalFinished
    <3>3. QED
      BY <2>3, <2>4, <2>5, <2>6, <3>2
<1>4. CASE ~ Reading(t)
  <2>1. CASE TakeRead(t) /\ ~ stopReading
    <3>1. /\ readEvent /\ UNCHANGED <<stopReading, readProcessed, progressRes>>
          /\ \/ pc'[t] = "read"
             \/ pc'[t] = "waitBlock" /\ res'[t] # "ok"
      BY <1>0, <2>1 DEF TakeRead, Goto, TypeOK, ThreadTypes
    <3>2. \A u \in Thread : ~ Reading(u)
      BY <3>1, <1>0 DEF ReaderExclusive
    <3>3. k = readProcessed /\ k < total
      BY <2>1, <3>2 DEF Reader
    <3>4. ReaderBy(t, k)'
      BY <1>0, <3>1, <3>3 DEF ReaderBy
    <3>5. \A u \in Thread \ {t} : ReaderBy(u, k)'
      BY <1>2, <3>2 DEF ReaderBy, Reading
    <3>6. Reading(t)'
      BY <3>1 DEF Reading
    <3>7. QED
      BY <1>0, <1>1, <2>1, <3>1, <3>4, <3>5, <3>6 DEF Reader
  <2>2. CASE ~ (TakeRead(t) /\ ~ stopReading)
    <3>1. UNCHANGED <<stopReading, readProcessed>> /\ ~ Reading(t)'
      <4> USE DEF Reading, Goto, readerVars
      <4>1. CASE TakeRead(t) /\ stopReading
        BY <1>0, <4>1 DEF TakeRead, TypeOK, ThreadTypes
      <4>2. CASE WaitStart(t) \/ TakeBuf(t) \/ Code(t) \/ Store(t) \/ Publish(t)
        BY <1>0, <4>2 DEF WaitStart, TakeBuf, Code, Store, Publish, TypeOK, ThreadTypes
      <4>3. CASE Write(t) \/ Release(t) \/ Post(t) \/ CountFinished(t) \/ SignalFinished(t)
        BY <1>0, <4>3 DEF Write, Release, Post, CountFinished, SignalFinished, TypeOK, ThreadTypes
      <4>4. CASE Read(t) \/ Check(t) \/ StartNext(t) \/ HandRead(t)
        BY <1>4, <4>4 DEF Read, Check, StartNext, HandRead
      <4>5. QED
        BY <2>2, <4>1, <4>2, <4>3, <4>4 DEF ThreadStep
    <3>2. progressRes' = "ok" => progressRes = "ok"
      BY <1>0, ErrorsStay
    <3>3. ReaderBy(t, k)'
      BY <3>1 DEF ReaderBy, Reading
    <3>4. \A u \in Thread \ {t} : ReaderBy(u, k)' /\ (Reading(u)' <=> Reading(u))
      <4> SUFFICES ASSUME NEW u \in Thread \ {t}
                   PROVE  ReaderBy(u, k)' /\ (Reading(u)' <=> Reading(u))
        OBVIOUS
      <4>1. ReaderBy(u, k)
        BY DEF Reader
      <4>2. QED
        BY <1>0, <1>2, <3>1, <4>1, OthersLocals DEF ReaderBy, Reading
    <3>5. QED
      BY <1>0, <1>4, <3>1, <3>2, <3>3, <3>4 DEF Reader
  <2>3. QED
    BY <2>1, <2>2
<1>5. QED
  BY <1>3, <1>4

\* A slot is taken for the block that was read.
LEMMA TakeSlotReader ==
  ASSUME Tokens, NEW t \in Thread, TakeSlot(t), NEW k, Reader(k), Noted
  PROVE  Reader(k + 1)'
<1>0. TypeOK /\ ReaderExclusive /\ ThreadStep(t)
  BY DEF Tokens, ThreadStep
<1>1. /\ pc[t] = "waitBlock" /\ pc'[t] = "check"
      /\ UNCHANGED <<total, stopReading, readProcessed, progressRes, res, finished>>
  BY <1>0 DEF TakeSlot, Goto, callerVars, TypeOK, ThreadTypes
<1>2. k \in 0..total /\ total \in Nat /\ ReaderBy(t, k)
  BY <1>0 DEF Reader, TypeOK, CallerTypes
<1>3. /\ k < total
      /\ res[t] = "ok" => readProcessed = k + 1 /\ (finished[t] <=> k + 1 = total)
  BY <1>1, <1>2 DEF ReaderBy
<1>4. ReaderBy(t, k + 1)' /\ k + 1 \in 0..total
  BY <1>1, <1>2, <1>3 DEF ReaderBy
<1>5. \A u \in Thread \ {t} : ReaderBy(u, k + 1)'
  <2>1. \A u \in Thread \ {t} : ~ Reading(u) /\ ~ Reading(u)'
    BY <1>0, <1>1, OthersLocals DEF ReaderExclusive, Reading
  <2>2. QED
    BY <2>1 DEF ReaderBy, Reading
<1>6. Reading(t)'
  BY <1>1 DEF Reading
<1>7. ~ (stopReading /\ progressRes = "ok")
  BY <1>3 DEF Reader
<1>8. QED
  BY <1>1, <1>4, <1>5, <1>6, <1>7 DEF Reader

-----------------------------------------------------------------------------
(* What failed, and when reading stopped. *)

\* The records that others look at are not changed by a step of t.
LEMMA RecordsStay ==
  ASSUME TypeOK, NEW t \in Thread, ThreadStep(t), NEW w, NEW l, Ring(w, l)
  PROVE  /\ \A i \in Slot : readyBlocks[i] => blocks'[i] = blocks[i]
         /\ \A u \in Thread \ {t} : pc[u] = "postMore" => blocks'[wi[u]] = blocks[wi[u]]
<1>1. \A i \in Slot : readyBlocks[i] => blocks'[i] = blocks[i]
  BY RecordStays DEF RingInv
<1>2. ASSUME NEW u \in Thread \ {t}, pc[u] = "postMore" PROVE blocks'[wi[u]] = blocks[wi[u]]
  <2>1. CASE pc[t] = "store"
    <3>1. OwnsSlot(t) /\ Writing(u) /\ wi[u] \in Slot
      BY <1>2, <2>1 DEF OwnsSlot, Writing, TypeOK, ThreadTypes
    <3>2. wi[u] # bi[t]
      BY <3>1 DEF Ring, Writers
    <3>3. QED
      BY <3>1, <3>2, LocalsStay
  <2>2. QED
    BY <2>1, LocalsStay
<1>3. QED
  BY <1>1, <1>2

\* A slot becomes ready only with the record of the thread that filled it.
LEMMA NewReady ==
  ASSUME TypeOK, NEW t \in Thread, ThreadStep(t), RecordBy(t), NEW i \in Slot,
         ~ readyBlocks[i], readyBlocks'[i]
  PROVE  /\ pc[t] = "publish" /\ i = bi[t]
         /\ blocks'[i].res = res[t] /\ blocks'[i].finished = finished[t]
<1>1. Publish(t)
  <2>1. ~ RingAside(t)
    BY AsideKeeps
  <2>2. ~ TakeSlot(t) /\ ~ Post(t)
    BY DEF TakeSlot, Post
  <2>3. ~ Release(t)
    BY NextInRing DEF Release, TypeOK, RingTypes, ThreadTypes
  <2>4. QED
    BY <2>1, <2>2, <2>3 DEF ThreadStep, RingAside
<1>2. pc[t] = "publish" /\ i = bi[t] /\ UNCHANGED blocks
  BY <1>1 DEF Publish, dataVars, TypeOK, RingTypes
<1>3. QED
  BY <1>2 DEF RecordBy

\* An error is made known with the step that meets it.
LEMMA OwnNoted ==
  ASSUME TypeOK, NEW t \in Thread, ThreadStep(t), NEW w, NEW l, Ring(w, l), Noted
  PROVE  /\ NotedBy(t)'
         /\ readRes' # "ok" \/ writeRes' # "ok" => progressRes' # "ok"
<1>1. NotedBy(t) /\ (readRes # "ok" \/ writeRes # "ok" => progressRes # "ok")
  BY DEF Noted
<1> USE DEF TypeOK, ThreadTypes, Goto, NotedBy, SetError, readerVars, ringVars, localVars, callerVars
<1>2. CASE WaitStart(t) \/ CountFinished(t) \/ SignalFinished(t)
  BY <1>1, <1>2 DEF WaitStart, CountFinished, SignalFinished
<1>3. CASE TakeRead(t)
  BY <1>1, <1>3 DEF TakeRead
<1>4. CASE Read(t)
  BY <1>1, <1>4 DEF Read
<1>5. CASE TakeSlot(t)
  BY <1>1, <1>5 DEF TakeSlot
<1>6. CASE Check(t)
  BY <1>1, <1>6 DEF Check
<1>7. CASE StartNext(t)
  <2>1. pc' = [pc EXCEPT ![t] = "setRead"] \/ pc' = [Created(numStarted) EXCEPT ![t] = "setRead"]
    BY <1>7 DEF StartNext
  <2>2. pc'[t] = "setRead" /\ pc[t] = "start" /\ UNCHANGED <<readRes, writeRes>>
    BY <1>7, <2>1 DEF Created, StartNext
  <2>3. \/ UNCHANGED <<res, progressRes>>
        \/ progressRes' # "ok"
    BY <1>7 DEF StartNext
  <2>4. QED
    BY <1>1, <2>2, <2>3
<1>8. CASE HandRead(t) \/ TakeBuf(t) \/ Store(t)
  BY <1>1, <1>8 DEF HandRead, TakeBuf, Store
<1>9. CASE Code(t)
  BY <1>1, <1>9 DEF Code
<1>10. CASE Publish(t)
  BY <1>1, <1>10 DEF Publish, Leave
<1>11. CASE Write(t)
  BY <1>1, <1>11 DEF Write
<1>12. CASE Release(t)
  <2>a. PICK x \in Slot : x = Next(wi[t])
    BY NextInRing
  <2>1. /\ pc[t] = "release" /\ pc'[t] \in {"postMore", "postLast"} /\ wi'[t] = x
        /\ UNCHANGED <<blocks, res, progressRes, readRes, writeRes>>
        /\ pc'[t] = "postMore" => readyBlocks[x]
    BY <1>12, <2>a DEF Release, dataVars
  <2>2. QED
    BY <1>1, <2>1 DEF Noted
<1>13. CASE Post(t)
  <2>1. CASE pc[t] = "postMore"
    BY <1>1, <1>13, <2>1 DEF Post, Sticky
  <2>2. CASE pc[t] = "postLast"
    BY <1>1, <1>13, <2>2 DEF Post, Leave
  <2>3. QED
    BY <1>13, <2>1, <2>2 DEF Post
<1>14. QED
  BY <1>2, <1>3, <1>4, <1>5, <1>6, <1>7, <1>8, <1>9, <1>10, <1>11, <1>12, <1>13 DEF ThreadStep

\* So every error is known.
LEMMA NotedStays ==
  ASSUME TypeOK, NEW t \in Thread, ThreadStep(t), NEW w, NEW l, Ring(w, l), RecordBy(t), Noted
  PROVE  Noted'
<1>1. NotedBy(t)' /\ (readRes' # "ok" \/ writeRes' # "ok" => progressRes' # "ok")
  BY OwnNoted
<1>2. progressRes # "ok" => progressRes' # "ok"
  BY ErrorsStay
<1>3. ASSUME NEW u \in Thread \ {t} PROVE NotedBy(u)'
  <2>1. NotedBy(u)
    BY DEF Noted
  <2>2. QED
    BY <1>2, <2>1, OthersLocals, RecordsStay DEF NotedBy
<1>4. ASSUME NEW i \in Slot, readyBlocks'[i], blocks'[i].res # "ok" PROVE progressRes' # "ok"
  <2>1. CASE readyBlocks[i]
    BY <1>2, <1>4, <2>1, RecordsStay DEF Noted
  <2>2. CASE ~ readyBlocks[i]
    BY <1>2, <1>4, <2>2, NewReady DEF Noted, NotedBy
  <2>3. QED
    BY <2>1, <2>2
<1>5. QED
  BY <1>1, <1>3, <1>4 DEF Noted

\* A thread ends when it has seen that reading stops or that something failed.
LEMMA OwnStops ==
  ASSUME TypeOK, NEW t \in Thread, ThreadStep(t), NEW w, NEW l, Ring(w, l), Noted, Stops
  PROVE  /\ StopsBy(t)'
         /\ finishedEvent' => Stopped'
<1>1. /\ StopsBy(t) /\ (finishedEvent => Stopped) /\ (Stopped => Stopped')
      /\ pc[t] \notin {"none", "idle", "waitRead", "incr", "finish"} /\ res[t] # "ok" => Stopped
  BY ErrorsStay DEF Stops, Noted, NotedBy, Stopped
<1> USE DEF TypeOK, ThreadTypes, Goto, StopsBy, endVars, localVars
<1>2. CASE WaitStart(t) \/ CountFinished(t) \/ SignalFinished(t)
  BY <1>1, <1>2 DEF WaitStart, CountFinished, SignalFinished
<1>3. CASE TakeRead(t)
  <2>1. /\ pc'[t] \in {"incr", "read", "waitBlock"} /\ UNCHANGED finishedEvent
        /\ pc'[t] = "incr" => Stopped
    BY <1>3 DEF TakeRead, Stopped
  <2>2. QED
    BY <1>1, <2>1
<1>4. CASE Read(t) \/ TakeSlot(t) \/ Check(t)
  <2>1. /\ pc'[t] \in {"waitBlock", "check", "start", "setRead"} /\ UNCHANGED finishedEvent
    BY <1>4 DEF Read, TakeSlot, Check
  <2>2. QED
    BY <1>1, <2>1
<1>5. CASE StartNext(t)
  <2>1. pc' = [pc EXCEPT ![t] = "setRead"] \/ pc' = [Created(numStarted) EXCEPT ![t] = "setRead"]
    BY <1>5 DEF StartNext
  <2>2. pc'[t] = "setRead" /\ UNCHANGED finishedEvent
    BY <1>5, <2>1 DEF Created, StartNext
  <2>3. QED
    BY <1>1, <2>2
<1>6. CASE HandRead(t)
  <2>1. /\ pc'[t] \in {"takeBuf", "store"} /\ UNCHANGED <<finishedEvent, finished>>
        /\ finished[t] => stopReading'
    BY <1>6 DEF HandRead
  <2>2. QED
    BY <1>1, <2>1 DEF Stopped
<1>7. CASE TakeBuf(t) \/ Code(t) \/ Store(t)
  BY <1>1, <1>7 DEF TakeBuf, Code, Store
<1>8. CASE Publish(t)
  <2>1. /\ pc[t] = "publish" /\ UNCHANGED finishedEvent
        /\ \/ pc'[t] = "write" /\ UNCHANGED finished
           \/ pc'[t] = "incr" /\ (res[t] # "ok" \/ finished[t])
           \/ pc'[t] = "waitRead"
    BY <1>8 DEF Publish
  <2>2. QED
    BY <1>1, <2>1
<1>9. CASE Write(t)
  BY <1>1, <1>9 DEF Write
<1>10. CASE Release(t)
  <2>a. PICK x \in Slot : x = Next(wi[t])
    BY NextInRing
  <2>1. /\ pc[t] = "release" /\ pc'[t] \in {"postMore", "postLast"} /\ wi'[t] = x
        /\ UNCHANGED <<blocks, finished, finishedEvent>>
        /\ pc'[t] = "postMore" => readyBlocks[x]
    BY <1>10, <2>a DEF Release, dataVars
  <2>2. QED
    BY <1>1, <2>1 DEF Stops
<1>11. CASE Post(t)
  <2>1. CASE pc[t] = "postMore"
    BY <1>1, <1>11, <2>1 DEF Post
  <2>2. CASE pc[t] = "postLast"
    BY <1>1, <1>11, <2>2 DEF Post
  <2>3. QED
    BY <1>11, <2>1, <2>2 DEF Post
<1>12. QED
  BY <1>2, <1>3, <1>4, <1>5, <1>6, <1>7, <1>8, <1>9, <1>10, <1>11 DEF ThreadStep

\* So the last thread ends after reading has stopped.
LEMMA StopsStays ==
  ASSUME TypeOK, NEW t \in Thread, ThreadStep(t), NEW w, NEW l, Ring(w, l), RecordBy(t),
         Noted, Stops
  PROVE  Stops'
<1>1. StopsBy(t)' /\ (finishedEvent' => Stopped')
  BY OwnStops
<1>2. (Stopped => Stopped') /\ UNCHANGED main
  BY ErrorsStay DEF Stopped
<1>3. ASSUME NEW u \in Thread \ {t} PROVE StopsBy(u)'
  <2>1. StopsBy(u)
    BY DEF Stops
  <2>2. QED
    BY <1>2, <2>1, OthersLocals, RecordsStay DEF StopsBy
<1>4. ASSUME NEW i \in Slot, readyBlocks'[i], blocks'[i].finished PROVE Stopped'
  <2>1. CASE readyBlocks[i]
    BY <1>2, <1>4, <2>1, RecordsStay DEF Stops
  <2>2. CASE ~ readyBlocks[i]
    BY <1>2, <1>4, <2>2, NewReady DEF Stops, StopsBy
  <2>3. QED
    BY <2>1, <2>2
<1>5. QED
  BY <1>1, <1>2, <1>3, <1>4 DEF Stops

-----------------------------------------------------------------------------
(* What was written. *)

\* The sequence that is written, one element longer.
LEMMA AppendNext ==
  ASSUME NEW n \in Nat
  PROVE  Append([i \in 1..n |-> i], n + 1) = [i \in 1..n + 1 |-> i]
<1> DEFINE s == [i \in 1..n |-> i]
<1>1. s \in Seq(Nat) /\ Len(s) = n
  OBVIOUS
<1>2. Append(s, n + 1) = [i \in 1..n + 1 |-> IF i = n + 1 THEN n + 1 ELSE s[i]]
  BY <1>1
<1>3. \A i \in 1..n + 1 : i # n + 1 => i \in 1..n /\ s[i] = i
  OBVIOUS
<1>4. QED
  BY <1>2, <1>3

\* The last element of a longer sequence.
LEMMA LastAppended ==
  ASSUME NEW s \in Seq(Nat), NEW b \in Nat
  PROVE  Pipeline!LastOf(Append(s, b)) = b
  BY DEF Pipeline!LastOf

\* Only Write and Release begin and end a turn.
LEMMA TurnStays ==
  ASSUME TypeOK, NEW t \in Thread, ThreadStep(t), ~ Write(t), ~ Release(t)
  PROVE  (Releasing' <=> Releasing) /\ out' = out
<1>1. out' = out
  BY DEF ThreadStep, dataVars, WaitStart, TakeRead, Read, TakeSlot, Check, StartNext,
     HandRead, TakeBuf, Code, Store, Publish, Post, CountFinished, SignalFinished
<1>2. pc[t] # "release" /\ pc'[t] # "release"
  <2> USE DEF Goto, TypeOK, ThreadTypes
  <2>1. CASE WaitStart(t) \/ TakeRead(t) \/ Read(t) \/ TakeSlot(t) \/ Check(t)
    BY <2>1 DEF WaitStart, TakeRead, Read, TakeSlot, Check
  <2>2. CASE StartNext(t)
    <3>1. pc' = [pc EXCEPT ![t] = "setRead"] \/ pc' = [Created(numStarted) EXCEPT ![t] = "setRead"]
      BY <2>2 DEF StartNext
    <3>2. pc[t] = "start" /\ pc'[t] = "setRead"
      BY <2>2, <3>1 DEF StartNext, Created
    <3>3. QED
      BY <3>2
  <2>3. CASE HandRead(t) \/ TakeBuf(t) \/ Code(t) \/ Store(t) \/ Publish(t) \/ Post(t)
    BY <2>3 DEF HandRead, TakeBuf, Code, Store, Publish, Post
  <2>4. CASE CountFinished(t) \/ SignalFinished(t)
    BY <2>4 DEF CountFinished, SignalFinished
  <2>5. QED
    BY <2>1, <2>2, <2>3, <2>4 DEF ThreadStep
<1>3. \A u \in Thread \ {t} : pc'[u] = "release" <=> pc[u] = "release"
  BY OthersLocals
<1>4. QED
  BY <1>1, <1>2, <1>3 DEF Releasing

\* The block whose turn it is gets written, unless something failed.
LEMMA WriteOutput ==
  ASSUME TypeOK, WriterExclusive, NEW t \in Thread, Write(t), NEW l \in Nat, NEW k \in Nat,
         WrittenBy(t, l, k), NotedBy(t), Output(l, k)
  PROVE  /\ Output(l, k)'
         /\ out' = out \/ (/\ Pipeline!LastOf(out) <= k - l
                           /\ out' = Append(out, k - l + 1)
                           /\ progressRes = "ok" => out = [i \in 1..k - l |-> i])
         /\ UNCHANGED progressRes \/ UNCHANGED out
<1>0. ThreadStep(t)
  BY DEF ThreadStep
<1>1. pc[t] = "write" /\ pc'[t] = "release"
  BY DEF Write, Goto, TypeOK, ThreadTypes
<1>2. Releasing' /\ ~ Releasing
  BY <1>1 DEF Releasing, WriterExclusive, Writing
<1>3. Turn(l, k) = k - l /\ Turn(l, k)' = k - l + 1 /\ k - l \in Nat
  BY <1>2 DEF Turn, Output
<1>4. CASE res[t] = "ok" /\ bufIndex[t] # None /\ out' = Append(out, bufData[bufIndex[t]])
           /\ UNCHANGED progressRes
  <2>1. out' = Append(out, k - l + 1)
    BY <1>1, <1>4 DEF WrittenBy
  <2>2. out \in Seq(Nat) /\ k - l + 1 \in Nat
    BY <1>3 DEF TypeOK, DataTypes
  <2>3. Pipeline!LastOf(out') = k - l + 1
    BY <2>1, <2>2, LastAppended
  <2>4. progressRes = "ok" => out = [i \in 1..k - l |-> i]
    BY <1>3 DEF Output
  <2>5. progressRes = "ok" => out' = [i \in 1..k - l + 1 |-> i]
    BY <1>3, <2>1, <2>4, AppendNext
  <2>6. Pipeline!LastOf(out)' <= Turn(l, k)'
    BY <1>3, <2>3 DEF Pipeline!LastOf
  <2>7. QED
    BY <1>3, <1>4, <2>1, <2>4, <2>5, <2>6 DEF Output
<1>5. CASE out' = out /\ progressRes' # "ok"
  <2>1. Pipeline!LastOf(out) \in Int
    <3>1. out \in Seq(Nat)
      BY DEF TypeOK, DataTypes
    <3>2. QED
      BY <3>1 DEF Pipeline!LastOf
  <2>2. Pipeline!LastOf(out)' = Pipeline!LastOf(out)
    BY <1>5 DEF Pipeline!LastOf
  <2>3. Pipeline!LastOf(out)' <= Turn(l, k)'
    BY <1>3, <2>1, <2>2 DEF Output
  <2>4. QED
    BY <1>5, <2>3 DEF Output
<1>6. \/ res[t] = "ok" /\ bufIndex[t] # None /\ out' = Append(out, bufData[bufIndex[t]])
         /\ UNCHANGED progressRes
      \/ out' = out /\ progressRes' # "ok"
  <2>1. res[t] # "ok" => progressRes # "ok"
    BY <1>1 DEF NotedBy
  <2>2. res[t] = "ok" => bufIndex[t] # None
    BY <1>1 DEF WrittenBy
  <2>3. QED
    BY <2>1, <2>2 DEF Write, SetError
<1>7. QED
  BY <1>4, <1>5, <1>6

\* No other step disturbs the output; a slot that is released takes its turn with it.
LEMMA OutputStays ==
  ASSUME TypeOK, WriterExclusive, NEW t \in Thread, ThreadStep(t), ~ Write(t),
         NEW l \in Nat, NEW k \in Nat, Output(l, k)
  PROVE  IF Release(t) THEN l > 0 => Output(l - 1, k)'
         ELSE Output(l, k)' /\ Output(l + 1, k + 1)'
<1>0. progressRes' = "ok" => progressRes = "ok"
  BY ErrorsStay
<1>1. CASE Release(t)
  <2>1. pc[t] = "release" /\ pc'[t] \in {"postMore", "postLast"} /\ UNCHANGED <<out, progressRes>>
    BY <1>1 DEF Release, Goto, dataVars, TypeOK, ThreadTypes
  <2>2. \A u \in Thread \ {t} : pc[u] # "release"
    BY <2>1 DEF WriterExclusive, Writing
  <2>3. Releasing /\ ~ Releasing'
    BY <2>1, <2>2, OthersLocals DEF Releasing
  <2>4. Turn(l - 1, k)' = Turn(l, k)
    <3>1. k - (l - 1) = k - l + 1
      OBVIOUS
    <3>2. QED
      BY <2>3, <3>1 DEF Turn
  <2>5. l - 1 <= k
    BY DEF Output
  <2>6. QED
    BY <1>1, <2>1, <2>4, <2>5 DEF Output, Pipeline!LastOf
<1>2. CASE ~ Release(t)
  <2>1. (Releasing' <=> Releasing) /\ out' = out
    BY <1>2, TurnStays
  <2>2. (k + 1) - (l + 1) = k - l /\ (l <= k <=> l + 1 <= k + 1)
    OBVIOUS
  <2>3. Turn(l, k)' = Turn(l, k) /\ Turn(l + 1, k + 1)' = Turn(l, k)
    BY <2>1, <2>2 DEF Turn
  <2>4. Output(l, k)'
    BY <1>0, <2>1, <2>3 DEF Output, Pipeline!LastOf
  <2>5. Output(l + 1, k + 1)'
    BY <1>0, <2>1, <2>2, <2>3 DEF Output, Pipeline!LastOf
  <2>6. QED
    BY <1>2, <2>4, <2>5
<1>3. QED
  BY <1>1, <1>2

-----------------------------------------------------------------------------
(* No slot is forgotten. *)

\* The steps that move neither end of the slots in use, Publish apart.
LEMMA AsideCovered ==
  ASSUME TypeOK, NEW t \in Thread, RingAside(t) \/ Post(t), NEW w, NEW l, Covered(w, l)
  PROVE  Covered(w, l)'
<1>0. ThreadStep(t)
  BY DEF ThreadStep, RingAside
<1>1. UNCHANGED <<readyBlocks, writeIndex, bi>> /\ (OwnsSlot(t)' <=> OwnsSlot(t))
  <2>1. CASE RingAside(t)
    BY <2>1, AsideKeeps
  <2>2. CASE Post(t)
    BY <2>2 DEF Post, Goto, OwnsSlot, TypeOK, ThreadTypes
  <2>3. QED
    BY <2>1, <2>2
<1>2. Writing(t)' <=> Writing(t)
  <2>1. CASE RingAside(t)
    BY <2>1, AsideKeeps
  <2>2. CASE Post(t)
    BY <2>2 DEF Post, Goto, Writing, TypeOK, ThreadTypes
  <2>3. QED
    BY <2>1, <2>2
<1>3. \A u \in Thread : (OwnsSlot(u)' <=> OwnsSlot(u)) /\ (Writing(u)' <=> Writing(u))
  BY <1>0, <1>1, <1>2, OthersStay
<1>4. QED
  BY <1>1, <1>3 DEF Covered

\* The slot that is taken is its thread's.
LEMMA TakeSlotCovered ==
  ASSUME TypeOK, NEW t \in Thread, TakeSlot(t), NEW w, NEW l, Ring(w, l), Covered(w, l)
  PROVE  Covered(w, l + 1)'
<1>0. ThreadStep(t)
  BY DEF ThreadStep
<1>1. w \in Slot /\ l \in 0..N /\ l < N /\ N \in Nat
  BY TakeSlotRing, ConstantFacts DEF Ring, Span, N
<1>2. blockIndex \in Slot /\ Rank(w, blockIndex) = l
  BY <1>1, EndFacts DEF Ring, Span
<1>3. /\ bi'[t] = blockIndex /\ UNCHANGED <<readyBlocks, writeIndex>>
      /\ OwnsSlot(t)' /\ ~ OwnsSlot(t) /\ ~ Writing(t)
  BY DEF TakeSlot, Goto, OwnsSlot, Writing, TypeOK, ThreadTypes
<1>4. \A u \in Thread : OwnsSlot(u) => OwnsSlot(u)' /\ bi'[u] = bi[u]
  BY <1>0, <1>3, OthersStay, OthersLocals
<1>5. \A u \in Thread : Writing(u) => Writing(u)'
  BY <1>0, <1>3, OthersStay
<1>6. ASSUME NEW i \in Slot, Rank(w, i) < l + 1
      PROVE  \/ readyBlocks'[i]
             \/ \E u \in Thread : OwnsSlot(u)' /\ bi'[u] = i
             \/ i = w /\ \E u \in Thread : Writing(u)'
  <2>1. CASE Rank(w, i) < l
    BY <2>1, <1>3, <1>4, <1>5 DEF Covered
  <2>2. CASE ~ (Rank(w, i) < l)
    <3>1. Rank(w, i) = l
      BY <1>1, <1>6, <2>2, RankFacts
    <3>2. i = blockIndex
      BY <1>1, <1>2, <3>1, RankFacts
    <3>3. QED
      BY <1>3, <3>2
  <2>3. QED
    BY <2>1, <2>2
<1>7. QED
  BY <1>3, <1>5, <1>6 DEF Covered

\* The block of a slot goes on to the writer or waits.
LEMMA PublishCovered ==
  ASSUME TypeOK, NEW t \in Thread, Publish(t), NEW w, NEW l, Ring(w, l), Covered(w, l)
  PROVE  Covered(w, l)'
<1>0. ThreadStep(t)
  BY DEF ThreadStep
<1>1. /\ pc[t] = "publish" /\ ~ Writing(t) /\ bi[t] \in Slot
      /\ \A u \in Thread \ {t} : OwnsSlot(u) => OwnsSlot(u)' /\ bi'[u] = bi[u]
      /\ \A u \in Thread : Writing(u) => Writing(u)'
  BY <1>0, OthersStay, OthersLocals DEF Publish, Writing, TypeOK, ThreadTypes
<1>2. CASE writeIndex = bi[t]
  <2>1. writeIndex' = None /\ UNCHANGED readyBlocks /\ Writing(t)'
    BY <1>2 DEF Publish, Goto, TakenFrom, Writing, TypeOK, ThreadTypes
  <2>2. bi[t] = w
    BY <1>1, <1>2, ConstantFacts DEF Ring, Span
  <2>3. QED
    BY <1>1, <2>1, <2>2 DEF Covered
<1>3. CASE writeIndex # bi[t]
  <2>1. /\ readyBlocks' = [readyBlocks EXCEPT ![bi[t]] = TRUE] /\ UNCHANGED writeIndex
    BY <1>3 DEF Publish
  <2>2. \A i \in Slot : readyBlocks'[i] = (i = bi[t] \/ readyBlocks[i])
    BY <2>1 DEF TypeOK, RingTypes
  <2>3. writeIndex # None => ~ readyBlocks'[writeIndex]
    BY <1>3, <2>2 DEF Covered, TypeOK, RingTypes
  <2>4. QED
    BY <1>1, <2>1, <2>2, <2>3 DEF Covered
<1>4. QED
  BY <1>2, <1>3

\* The slot after the one that is released is not passed over.
LEMMA ReleaseCovered ==
  ASSUME TypeOK, WriterExclusive, NEW t \in Thread, Release(t), NEW w, NEW l,
         Ring(w, l), Covered(w, l)
  PROVE  Covered(Next(w), l - 1)'
<1>0. ThreadStep(t)
  BY DEF ThreadStep
<1>a. PICK x \in Slot : x = Next(w)
  BY NextInRing DEF Ring, Span
<1>1. w \in Slot /\ l \in 0..N /\ N \in Nat /\ wi[t] = w /\ Writing(t) /\ pc[t] = "release"
  BY ConstantFacts DEF Ring, Span, Writers, Release, Writing, N
<1>2. writeIndex = None
  BY <1>1 DEF WriterExclusive
<1>3. /\ readyBlocks[x] => /\ readyBlocks' = [readyBlocks EXCEPT ![x] = FALSE]
                           /\ Writing(t)' /\ writeIndex' = None
      /\ ~ readyBlocks[x] => readyBlocks' = readyBlocks /\ writeIndex' = x
      /\ bi' = bi
  BY <1>1, <1>2, <1>a DEF Release, Goto, Writing, TypeOK, ThreadTypes
<1>4. \A u \in Thread : OwnsSlot(u) => OwnsSlot(u)' /\ bi'[u] = bi[u]
  BY <1>0, <1>1, <1>3, OthersStay DEF OwnsSlot
<1>5. ASSUME NEW i \in Slot, Rank(x, i) < l - 1
      PROVE  \/ readyBlocks'[i]
             \/ \E u \in Thread : OwnsSlot(u)' /\ bi'[u] = i
             \/ i = x /\ \E u \in Thread : Writing(u)'
  <2>1. Rank(x, i) = (IF i = w THEN N - 1 ELSE Rank(w, i) - 1) /\ Rank(w, i) \in Int
    BY <1>1, <1>a, RankFacts
  <2>2. i # w /\ Rank(w, i) < l
    BY <1>1, <1>5, <2>1
  <2>3. readyBlocks[i] \/ \E u \in Thread : OwnsSlot(u) /\ bi[u] = i
    BY <2>2 DEF Covered
  <2>4. QED
    BY <1>3, <1>4, <2>3 DEF TypeOK, RingTypes
<1>6. writeIndex' # None => ~ readyBlocks'[writeIndex']
  BY <1>3
<1>7. writeIndex' = None => \E u \in Thread : Writing(u)'
  BY <1>3, ConstantFacts
<1>8. Covered(x, l - 1)'
  BY <1>5, <1>6, <1>7 DEF Covered
<1>9. QED
  BY <1>8, <1>a

-----------------------------------------------------------------------------
(* The steps of a call. *)

\* What an invariant of the call says of its parts.
LEMMA Parts ==
  ASSUME TypeOK, NEW w, NEW l, NEW k, Blocks(w, l, k)
  PROVE  /\ Ring(w, l) /\ Items(w, l, k) /\ Output(l, k) /\ Reader(k) /\ Noted /\ Stops
         /\ Covered(w, l)
         /\ w \in Slot /\ l \in Nat /\ k \in Nat /\ k <= total /\ total \in Nat
         /\ \A t \in Thread : RecordBy(t) /\ WrittenBy(t, l, k) /\ ReaderBy(t, k) /\ NotedBy(t)
<1>1. w \in Slot /\ l \in 0..N /\ N \in Nat /\ k \in 0..total /\ total \in Nat
  BY ConstantFacts DEF Blocks, Ring, Span, Reader, N, TypeOK, CallerTypes
<1>2. QED
  BY <1>1 DEF Blocks, Items, Reader, Noted

\* No step of a thread loses a block.
LEMMA BlocksStay ==
  ASSUME Tokens, BufInv, NEW t \in Thread, ThreadStep(t), NEW w, NEW l, NEW k, Blocks(w, l, k)
  PROVE  \E x, m, j : Blocks(x, m, j)'
<1>1. TypeOK /\ WriterExclusive /\ BufferExclusive
  BY DEF Tokens, BufInv
<1>2. /\ Ring(w, l) /\ Items(w, l, k) /\ Output(l, k) /\ Reader(k) /\ Noted /\ Stops /\ Covered(w, l)
      /\ w \in Slot /\ l \in Nat /\ k \in Nat
      /\ RecordBy(t) /\ WrittenBy(t, l, k) /\ ReaderBy(t, k) /\ NotedBy(t)
  BY <1>1, Parts
<1>3. Noted' /\ Stops'
  BY <1>1, <1>2, NotedStays, StopsStays
<1>4. CASE TakeSlot(t)
  <2>1. ~ Write(t) /\ ~ Release(t)
    BY <1>4 DEF TakeSlot, Write, Release
  <2>2. Output(l + 1, k + 1)'
    BY <1>1, <1>2, <2>1, OutputStays
  <2>3. Ring(w, l + 1)' /\ Items(w, l + 1, k + 1)' /\ Reader(k + 1)' /\ Covered(w, l + 1)'
    BY <1>1, <1>2, <1>4, TakeSlotRing, TakeSlotItems, TakeSlotReader, TakeSlotCovered
  <2>4. Blocks(w, l + 1, k + 1)'
    BY <1>3, <2>2, <2>3 DEF Blocks
  <2>5. QED
    BY <2>4
<1>5. CASE Release(t)
  <2>1. ~ Write(t) /\ ~ TakeSlot(t) /\ l > 0
    BY <1>2, <1>5 DEF TakeSlot, Write, Release, Ring, Writers, Writing
  <2>2. Output(l - 1, k)' /\ Reader(k)'
    BY <1>1, <1>2, <1>5, <2>1, OutputStays, ReaderStays
  <2>3. Ring(Next(w), l - 1)' /\ Items(Next(w), l - 1, k)' /\ Covered(Next(w), l - 1)'
    BY <1>1, <1>2, <1>5, ReleaseRing, ReleaseItems, ReleaseCovered
  <2>4. Blocks(Next(w), l - 1, k)'
    BY <1>3, <2>2, <2>3 DEF Blocks, Next
  <2>5. QED
    BY <2>4
<1>6. CASE ~ TakeSlot(t) /\ ~ Release(t)
  <2>1. EndsAside(t) /\ RingInv
    BY <1>2, <1>6 DEF EndsAside, RingAside, ThreadStep, RingInv
  <2>2. Output(l, k)'
    BY <1>1, <1>2, <1>6, OutputStays, WriteOutput
  <2>3. Items(w, l, k)' /\ Reader(k)'
    BY <1>1, <1>2, <1>6, <2>1, ItemsStay, ReaderStays
  <2>4. Ring(w, l)' /\ Covered(w, l)'
    BY <1>1, <1>2, <2>1, AsideRing, PublishRing, PostRing, AsideCovered, PublishCovered
       DEF EndsAside
  <2>5. Blocks(w, l, k)'
    BY <1>3, <2>2, <2>3, <2>4 DEF Blocks
  <2>6. QED
    BY <2>5
<1>7. QED
  BY <1>4, <1>5, <1>6

\* A call begins with nothing read and nothing written.
LEMMA PrologueBlocks ==
  ASSUME Tokens, Prologue, Results
  PROVE  Blocks(0, 0, 0)'
<1>1. \A t \in Thread : pc'[t] \in {"none", "idle"}
  BY DEF Prologue, Tokens, Quiet, AtRest
<1>2. /\ \A t \in Thread : ~ OwnsSlot(t)' /\ ~ Writing(t)' /\ ~ Reading(t)'
      /\ ~ Releasing'
  BY <1>1 DEF OwnsSlot, Writing, Reading, Releasing
<1>3. /\ out' = <<>> /\ readyBlocks' = [i \in Slot |-> FALSE] /\ progressRes' = "ok"
      /\ readRes' = "ok" /\ writeRes' = "ok" /\ ~ stopReading' /\ readProcessed' = 0
      /\ ~ finishedEvent' /\ main' = "first" /\ writeIndex' = 0 /\ total' = total
      /\ total \in Nat /\ 0 < total
  BY DEF Prologue, Results, ResAtStart, dataVars, Tokens, TypeOK, CallerTypes
<1>4. Ring(0, 0)'
  BY PrologueRing
<1>5. Items(0, 0, 0)'
  BY <1>1, <1>2, <1>3 DEF Items, OwnedBy, RecordBy, WrittenBy, RecordAt
<1>6. Output(0, 0)'
  <2>1. Turn(0, 0)' = 0
    BY <1>2 DEF Turn
  <2>2. <<>> = [i \in 1..0 |-> i]
    OBVIOUS
  <2>3. QED
    BY <1>3, <2>1, <2>2 DEF Output, Pipeline!LastOf
<1>7. Reader(0)'
  BY <1>1, <1>3 DEF Reader, ReaderBy
<1>8. Noted' /\ Stops'
  BY <1>1, <1>3 DEF Noted, NotedBy, Stops, StopsBy
<1>9. Covered(0, 0)'
  <2>1. 0 \in Slot /\ N \in Nat
    BY ConstantFacts DEF N
  <2>2. \A i \in Slot : ~ (Rank(0, i) < 0)
    BY <2>1, RankFacts
  <2>3. writeIndex' # None /\ ~ readyBlocks'[writeIndex']
    BY <1>3, <2>1, ConstantFacts
  <2>4. QED
    BY <2>2, <2>3 DEF Covered
<1>10. QED
  BY <1>4, <1>5, <1>6, <1>7, <1>8, <1>9 DEF Blocks

\* The caller's other steps in a call leave the blocks to the threads.
LEMMA CallerBlocks ==
  ASSUME TypeOK, StartFirst \/ OpenReading \/ WaitFinished, NEW w, NEW l, NEW k, Blocks(w, l, k)
  PROVE  Blocks(w, l, k)'
<1>1. /\ UNCHANGED <<res, finished, inBuf, bi, wi, bufIndex, blocks, bufData, out, total>>
      /\ UNCHANGED <<readyBlocks, writeIndex, readRes, writeRes, progressRes, stopReading>>
      /\ readProcessed' = readProcessed
      /\ finishedEvent' \/ main' = "collect" => finishedEvent
  <2>1. main # "collect"
    BY DEF StartFirst, OpenReading, WaitFinished
  <2>2. QED
    BY <2>1 DEF StartFirst, OpenReading, WaitFinished, readerVars, ringVars, dataVars, endVars, localVars
<1>2. \A t \in Thread : pc'[t] = pc[t] \/ (pc[t] \in {"none", "idle"} /\ pc'[t] \in {"none", "idle"})
  BY DEF StartFirst, OpenReading, WaitFinished, Created, TypeOK, ThreadTypes
<1>3. /\ \A t \in Thread : /\ OwnsSlot(t)' <=> OwnsSlot(t)
                           /\ Writing(t)' <=> Writing(t)
                           /\ Reading(t)' <=> Reading(t)
      /\ Releasing' <=> Releasing
  BY <1>2 DEF OwnsSlot, Writing, Reading, Releasing
<1>4. Ring(w, l)'
  BY MainRing DEF Blocks
<1>5. Items(w, l, k)'
  BY <1>1, <1>2 DEF Blocks, Items, OwnedBy, RecordBy, WrittenBy, RecordAt, OwnsSlot, Input, Number
<1>6. Output(l, k)'
  BY <1>1, <1>3 DEF Blocks, Output, Turn, Pipeline!LastOf
<1>7. Reader(k)'
  BY <1>1, <1>2, <1>3 DEF Blocks, Reader, ReaderBy
<1>8. Noted' /\ Stops'
  BY <1>1, <1>2 DEF Blocks, Noted, NotedBy, Stops, StopsBy, Stopped
<1>9. Covered(w, l)'
  BY <1>1, <1>3 DEF Blocks, Covered
<1>10. QED
  BY <1>4, <1>5, <1>6, <1>7, <1>8, <1>9 DEF Blocks

\* When the caller is woken and finds no error, every block was written.
LEMMA CompleteAtCollect ==
  ASSUME TypeOK, Over, main = "collect", NEW w, NEW l, NEW k, Blocks(w, l, k)
  PROVE  IF CallResult = "ok" THEN progressRes = "ok" /\ out = [i \in 1..total |-> i]
         ELSE progressRes # "ok"
<1>1. /\ Ring(w, l) /\ Output(l, k) /\ Reader(k) /\ Noted /\ Stops /\ Covered(w, l)
      /\ w \in Slot /\ l \in Nat /\ k \in Nat /\ total \in Nat
  BY Parts
<1>2. CASE CallResult # "ok"
  <2>1. readRes # "ok" \/ progressRes # "ok" \/ writeRes # "ok"
    BY <1>2 DEF CallResult
  <2>2. QED
    BY <1>1, <1>2, <2>1 DEF Noted
<1>3. CASE CallResult = "ok"
  <2>1. progressRes = "ok"
    BY <1>3 DEF CallResult
  <2>2. k = total
    BY <1>1, <2>1 DEF Stops, Stopped, Reader
  <2>3. \A t \in Thread : pc[t] \in {"none", "idle", "finish"}
    BY DEF Over, Act, Active
  <2>4. /\ \A t \in Thread : ~ OwnsSlot(t) /\ ~ Writing(t)
        /\ ~ Releasing
    BY <2>3 DEF OwnsSlot, Writing, Releasing
  <2>5. writeIndex = w /\ ~ readyBlocks[w]
    BY <1>1, <2>4 DEF Covered, Ring, Span
  <2>6. l = 0
    <3>1. Rank(w, w) = 0
      BY <1>1, RankFacts
    <3>2. ~ (0 < l)
      BY <1>1, <2>4, <2>5, <3>1 DEF Covered
    <3>3. QED
      BY <1>1, <3>2
  <2>7. Turn(l, k) = total
    BY <1>1, <2>2, <2>4, <2>6 DEF Turn
  <2>8. QED
    BY <1>1, <1>3, <2>1, <2>7 DEF Output
<1>4. QED
  BY <1>2, <1>3

\* Outside a call a thread only ends.
LEMMA OnlyEnds ==
  ASSUME TypeOK, Over, main \notin {"open", "wait"}, NEW t \in Thread, ThreadStep(t)
  PROVE  UNCHANGED <<main, result, total, out, progressRes, readRes, writeRes>>
<1>1. pc[t] \in {"none", "idle", "finish"} /\ ~ startEvent[t]
  BY DEF Over, Act, Active
<1>2. SignalFinished(t)
  BY <1>1 DEF ThreadStep, WaitStart, TakeRead, Read, TakeSlot, Check, StartNext,
     HandRead, TakeBuf, Code, Store, Publish, Write, Release, Post, CountFinished
<1>3. QED
  BY <1>2 DEF SignalFinished, callerVars, readerVars, ringVars, dataVars

\* The invariant holds in every state.
THEOREM PipeInvariant == ASSUME MaxCalls = 1 \/ ~ EarlyReuse PROVE Spec => []Pipe
<1>1. Init => Pipe
  BY DEF Init, Pipe, Results
<1>2. ASSUME Pipe, UNCHANGED vars PROVE Pipe'
  <2>1. /\ UNCHANGED <<main, result, total, out, progressRes, readRes, writeRes, pc>>
        /\ UNCHANGED <<res, finished, inBuf, bi, wi, bufIndex, blocks, bufData, blockIndex>>
        /\ UNCHANGED <<readyBlocks, writeIndex, stopReading, readProcessed, finishedEvent>>
        /\ UNCHANGED blocksSemaphore
    BY <1>2 DEF vars, callerVars, readerVars, ringVars, dataVars, endVars, localVars
  <2>2. Results'
    BY <1>2, <2>1 DEF Pipe, Results, CallResult
  <2>3. ASSUME NEW w, NEW l, NEW k, Blocks(w, l, k) PROVE Blocks(w, l, k)'
    <3>1. Ring(w, l)'
      BY <2>1, <2>3 DEF Blocks, Ring, Span, Posting, Owners, Writers, OwnsSlot, Writing
    <3>2. Items(w, l, k)' /\ Output(l, k)'
      BY <2>1, <2>3 DEF Blocks, Items, OwnedBy, RecordBy, WrittenBy, RecordAt, OwnsSlot, Input,
         Number, Output, Turn, Releasing, Pipeline!LastOf
    <3>3. Reader(k)' /\ Noted' /\ Stops'
      BY <2>1, <2>3 DEF Blocks, Reader, ReaderBy, Reading, Noted, NotedBy, Stops, StopsBy, Stopped
    <3>4. Covered(w, l)'
      BY <2>1, <2>3 DEF Blocks, Covered, OwnsSlot, Writing
    <3>5. QED
      BY <3>1, <3>2, <3>3, <3>4 DEF Blocks
  <2>4. QED
    BY <1>2, <2>1, <2>2, <2>3 DEF Pipe
<1>3. ASSUME Pipe, Ending, InStep, MainStep \/ NewInput PROVE Pipe'
  <2>0. Tokens /\ TypeOK /\ Over /\ Results
    BY <1>3 DEF Ending, Tokens, Pipe
  <2>1. CASE Prologue
    <3>1. Blocks(0, 0, 0)'
      BY <2>0, <2>1, PrologueBlocks
    <3>2. Results'
      BY <2>1 DEF Prologue, Results
    <3>3. QED
      BY <3>1, <3>2 DEF Pipe
  <2>2. CASE StartFirst \/ OpenReading \/ WaitFinished
    <3>1. /\ main \in {"first", "open", "wait"} /\ main' \in {"noThread", "open", "wait", "collect"}
          /\ result' = result
      BY <2>2 DEF StartFirst, OpenReading, WaitFinished
    <3>2. PICK w, l, k : Blocks(w, l, k)
      BY <1>3, <3>1 DEF Pipe
    <3>3. Blocks(w, l, k)'
      BY <2>0, <2>2, <3>2, CallerBlocks
    <3>4. Results'
      BY <2>0, <3>1 DEF Results
    <3>5. QED
      BY <3>3, <3>4 DEF Pipe
  <2>3. CASE Collect
    <3>1. main = "collect" /\ UNCHANGED <<out, total, progressRes, readRes, writeRes>>
      BY <2>3 DEF Collect, readerVars, ringVars, dataVars
    <3>2. PICK w, l, k : Blocks(w, l, k)
      BY <1>3, <3>1 DEF Pipe
    <3>3. IF CallResult = "ok" THEN progressRes = "ok" /\ out = [i \in 1..total |-> i]
          ELSE progressRes # "ok"
      BY <2>0, <3>1, <3>2, CompleteAtCollect
    <3>4. CallResult' = CallResult
      BY <3>1 DEF CallResult
    <3>5. QED
      BY <2>0, <2>3, <3>1, <3>3, <3>4 DEF Pipe, Results, Collect
  <2>4. CASE Free
    <3>1. CallResult \in Res /\ "none" \notin Res
      BY <2>0 DEF CallResult, TypeOK, ReaderTypes, RingTypes, EndTypes, Res, FaultKinds
    <3>2. QED
      BY <2>0, <2>4, <3>1 DEF Free, Pipe, Results
  <2>5. CASE ReturnNoThread \/ NewInput
    BY <2>5 DEF ReturnNoThread, NewInput, Pipe, Results
  <2>6. QED
    BY <1>3, <2>1, <2>2, <2>3, <2>4, <2>5 DEF MainStep
<1>4. ASSUME Pipe, Ending, InStep, NEW t \in Thread, ThreadStep(t) PROVE Pipe'
  <2>0. Tokens /\ TypeOK /\ Over /\ Results
    BY <1>4 DEF Ending, Tokens, Pipe
  <2>1. UNCHANGED <<main, result, total>>
    BY <1>4, <2>0, ErrorsStay
  <2>2. Results'
    <3>1. CASE main \in {"open", "wait"}
      BY <2>0, <2>1, <3>1 DEF Results
    <3>2. CASE main \notin {"open", "wait"}
      <4>1. UNCHANGED <<main, result, total, out, progressRes, readRes, writeRes>>
        BY <1>4, <2>0, <3>2, OnlyEnds
      <4>2. CallResult' = CallResult
        BY <4>1 DEF CallResult
      <4>3. QED
        BY <2>0, <4>1, <4>2 DEF Results
    <3>3. QED
      BY <3>1, <3>2
  <2>3. ASSUME main \in {"first", "open", "wait", "collect"} PROVE \E x, m, j : Blocks(x, m, j)'
    <3>1. BufInv
      BY <1>4, <2>3 DEF InStep, Fresh
    <3>2. PICK w, l, k : Blocks(w, l, k)
      BY <1>4, <2>3 DEF Pipe
    <3>3. QED
      BY <1>4, <2>0, <3>1, <3>2, BlocksStay
  <2>4. QED
    BY <2>1, <2>2, <2>3 DEF Pipe
<1>5. Pipe /\ Ending /\ InStep /\ [NextStep]_vars => Pipe'
  BY <1>2, <1>3, <1>4 DEF NextStep, Terminating
<1>6. QED
  BY <1>1, <1>5, EndingInvariant, InStepInvariant, PTL DEF Spec

\* When an object is used once, or again only at rest, SZ_OK is returned only for a complete
\* output in the order of the input, whatever failed and whatever the number of threads and
\* blocks (Lzma2Enc.h:31, MtCoder.c:445-600).
THEOREM OkIsComplete == ASSUME MaxCalls = 1 \/ ~ EarlyReuse PROVE Spec => []ResultSound
<1>1. Pipe => ResultSound
  BY DEF Pipe, Results, ResultSound
<1>2. QED
  BY <1>1, PipeInvariant, PTL

-----------------------------------------------------------------------------
(* Every step is a step of the pipeline. *)

\* What the pipeline sees of an error.
Failed ==
  \/ main # "idle" /\ progressRes # "ok"
  \/ main = "noThread"
  \/ result \notin {"none", "ok"}

\* A step that moves nothing the caller sees.
LEMMA Stutters ==
  ASSUME UNCHANGED <<total, out, result>>, Failed' <=> Failed
  PROVE  UNCHANGED Pipeline!pvars
  BY DEF Failed, Pipeline!pvars, Status

\* A step that meets an error.
LEMMA Fails ==
  ASSUME UNCHANGED <<total, out, result>>, result = "none", Failed'
  PROVE  Pipeline!PNext
  BY DEF Failed, Pipeline!PNext, Pipeline!Fail, Status

\* A step of a thread writes the next block, meets an error or moves nothing.
LEMMA ThreadPipeline ==
  ASSUME Pipe, Ending, InStep, NEW t \in Thread, ThreadStep(t)
  PROVE  Pipeline!PNext \/ UNCHANGED Pipeline!pvars
<1>0. Tokens /\ TypeOK /\ WriterExclusive /\ Over /\ Results
  BY DEF Ending, Tokens, Pipe
<1>1. UNCHANGED <<main, result, total>> /\ (progressRes # "ok" => progressRes' # "ok")
  BY <1>0, ErrorsStay
<1>2. CASE main \notin {"open", "wait"}
  <2>1. UNCHANGED <<main, result, total, out, progressRes>>
    BY <1>0, <1>2, OnlyEnds
  <2>2. QED
    BY <2>1, Stutters DEF Failed
<1>3. CASE main \in {"open", "wait"}
  <2>1. PICK w, l, k : Blocks(w, l, k)
    BY <1>3 DEF Pipe
  <2>2. /\ Ring(w, l) /\ Output(l, k) /\ WrittenBy(t, l, k) /\ NotedBy(t)
        /\ l \in Nat /\ k \in Nat /\ total \in Nat /\ k <= total
    BY <1>0, <2>1, Parts
  <2>3. result = "none" /\ main # "noThread" /\ main # "idle"
    BY <1>0, <1>3 DEF Results
  <2>4. (Failed <=> progressRes # "ok") /\ (Failed' <=> progressRes' # "ok")
    BY <1>1, <2>3 DEF Failed
  <2>5. CASE out' = out
    <3>1. CASE progressRes = "ok" /\ progressRes' # "ok"
      BY <1>1, <2>3, <2>4, <2>5, <3>1, Fails
    <3>2. CASE ~ (progressRes = "ok" /\ progressRes' # "ok")
      BY <1>1, <2>4, <2>5, <3>2, Stutters
    <3>3. QED
      BY <3>1, <3>2
  <2>6. CASE out' # out
    <3>1. Write(t)
      <4>1. ~ Release(t)
        BY <2>6 DEF Release, dataVars
      <4>2. QED
        BY <1>0, <2>6, <4>1, TurnStays
    <3>2. /\ Pipeline!LastOf(out) <= k - l
          /\ out' = Append(out, k - l + 1)
          /\ progressRes = "ok" => out = [i \in 1..k - l |-> i]
          /\ UNCHANGED progressRes
      BY <1>0, <2>2, <2>6, <3>1, WriteOutput
    <3>3. l > 0 /\ k - l \in Nat /\ k - l < total
      BY <2>2, <3>1 DEF Ring, Writers, Write, Writing, Output
    <3>4. Status = "run" /\ Status' = "run"
      BY <1>1, <2>3 DEF Status
    <3>5. CASE progressRes = "ok"
      <4>1. Len(out) = k - l
        BY <3>2, <3>3, <3>5
      <4>2. Pipeline!Emit
        BY <1>1, <2>4, <3>2, <3>3, <3>4, <3>5, <4>1 DEF Pipeline!Emit, Failed
      <4>3. QED
        BY <4>2 DEF Pipeline!PNext
    <3>6. CASE progressRes # "ok"
      <4>1. Pipeline!LastOf(out) \in Int
        <5>1. out \in Seq(Nat)
          BY <1>0 DEF TypeOK, DataTypes
        <5>2. QED
          BY <5>1 DEF Pipeline!LastOf
      <4>2. k - l + 1 \in Pipeline!LastOf(out) + 1 .. total
        BY <2>2, <3>2, <3>3, <4>1
      <4>3. Pipeline!EmitLate
        BY <1>1, <2>4, <3>2, <3>4, <3>6, <4>2 DEF Pipeline!EmitLate, Failed
      <4>4. QED
        BY <4>3 DEF Pipeline!PNext
    <3>7. QED
      BY <3>5, <3>6
  <2>7. QED
    BY <2>5, <2>6
<1>4. QED
  BY <1>2, <1>3

\* A step of the caller begins or ends a run of the pipeline.
LEMMA CallerPipeline ==
  ASSUME Pipe, Ending, InStep, MainStep \/ NewInput
  PROVE  Pipeline!PNext \/ UNCHANGED Pipeline!pvars
<1>0. TypeOK /\ Over /\ Results
  BY DEF Ending, Tokens, Pipe
<1>1. CASE Prologue
  <2>1. UNCHANGED <<total, out, result>> /\ ~ Failed /\ ~ Failed'
    BY <1>1 DEF Prologue, dataVars, Failed
  <2>2. QED
    BY <2>1, Stutters
<1>2. CASE OpenReading \/ WaitFinished \/ (StartFirst /\ main' = "open")
  <2>1. UNCHANGED <<total, out, result, progressRes>> /\ main \in {"first", "open", "wait"}
        /\ main' \in {"open", "wait", "collect"}
    BY <1>2 DEF OpenReading, WaitFinished, StartFirst, dataVars
  <2>2. QED
    BY <2>1, Stutters DEF Failed
<1>3. CASE StartFirst /\ main' # "open"
  <2>1. UNCHANGED <<total, out, result>> /\ main = "first" /\ main' = "noThread"
    BY <1>3 DEF StartFirst, dataVars
  <2>2. QED
    BY <1>0, <2>1, Fails DEF Failed, Results
<1>4. CASE ReturnNoThread
  <2>1. /\ UNCHANGED <<total, out>> /\ main = "noThread" /\ main' = "idle"
        /\ result = "none" /\ result' = "thread"
    BY <1>0, <1>4 DEF ReturnNoThread, dataVars, Results
  <2>2. Pipeline!GiveUp
    BY <2>1 DEF Pipeline!GiveUp, Status
  <2>3. QED
    BY <2>2 DEF Pipeline!PNext
<1>5. CASE Collect
  <2>1. main = "collect" /\ result = "none" /\ UNCHANGED <<out, total, progressRes>>
    BY <1>0, <1>5 DEF Collect, dataVars, Results
  <2>2. PICK w, l, k : Blocks(w, l, k)
    BY <2>1 DEF Pipe
  <2>3. IF CallResult = "ok" THEN progressRes = "ok" /\ out = [i \in 1..total |-> i]
        ELSE progressRes # "ok"
    BY <1>0, <2>1, <2>2, CompleteAtCollect
  <2>4. CASE CallResult = "ok"
    <3>1. main' = "idle" /\ result' = "ok" /\ total \in Nat
      BY <1>0, <1>5, <2>4 DEF Collect, TypeOK, CallerTypes
    <3>2. Len(out) = total
      BY <2>3, <2>4, <3>1
    <3>3. Pipeline!Succeed
      BY <2>1, <2>3, <2>4, <3>1, <3>2 DEF Pipeline!Succeed, Status
    <3>4. QED
      BY <3>3 DEF Pipeline!PNext
  <2>5. CASE CallResult # "ok"
    <3>1. main' = "free" /\ UNCHANGED result
      BY <1>5, <2>5 DEF Collect
    <3>2. QED
      BY <2>1, <3>1, Stutters DEF Failed
  <2>6. QED
    BY <2>4, <2>5
<1>6. CASE Free
  <2>1. /\ UNCHANGED <<total, out>> /\ main = "free" /\ main' = "idle"
        /\ result = "none" /\ result' = CallResult /\ progressRes # "ok" /\ CallResult # "ok"
    BY <1>0, <1>6 DEF Free, dataVars, Results
  <2>2. CallResult # "none"
    BY <1>0 DEF CallResult, TypeOK, ReaderTypes, RingTypes, EndTypes, Res, FaultKinds
  <2>3. Pipeline!GiveUp
    BY <2>1, <2>2 DEF Pipeline!GiveUp, Status
  <2>4. QED
    BY <2>3 DEF Pipeline!PNext
<1>7. CASE NewInput
  <2>1. /\ main = "idle" /\ main' = "idle" /\ result # "none" /\ result' = "none"
        /\ out' = <<>> /\ total' \in 1..MaxInput - total
    BY <1>7 DEF NewInput
  <2>2. total' \in Nat \ {0}
    BY <1>0, <2>1, MtCoderAssumption DEF TypeOK, CallerTypes
  <2>3. Pipeline!Again
    BY <2>1, <2>2 DEF Pipeline!Again, Status
  <2>4. QED
    BY <2>3 DEF Pipeline!PNext
<1>8. QED
  BY <1>1, <1>2, <1>3, <1>4, <1>5, <1>6, <1>7 DEF MainStep

\* When an object is used once, or again only at rest, the coder implements the block
\* pipeline: while nothing failed the output is the input in order and without a gap, after
\* a failure it only goes forward, and the result tells the two apart, whatever the number
\* of threads and blocks (MtCoder.c:445-600).
THEOREM Refinement == ASSUME MaxCalls = 1 \/ ~ EarlyReuse PROVE Spec => ImplementsPipeline
<1>1. Init => Pipeline!PInit
  <2> SUFFICES ASSUME Init PROVE Pipeline!PInit
    OBVIOUS
  <2>1. total \in Nat \ {0} /\ out = <<>> /\ main = "idle" /\ result = "none"
    BY DEF Init
  <2>2. QED
    BY <2>1 DEF Pipeline!PInit, Status
<1>2. Pipe /\ Ending /\ InStep /\ [NextStep]_vars => [Pipeline!PNext]_Pipeline!pvars
  <2> SUFFICES ASSUME Pipe, Ending, InStep, [NextStep]_vars
               PROVE  Pipeline!PNext \/ UNCHANGED Pipeline!pvars
    OBVIOUS
  <2>1. CASE UNCHANGED vars
    <3>1. UNCHANGED <<total, out, result, main, progressRes>>
      BY <2>1 DEF vars, callerVars, dataVars
    <3>2. QED
      BY <3>1, Stutters DEF Failed
  <2>2. QED
    BY <2>1, ThreadPipeline, CallerPipeline DEF NextStep, Terminating
<1>3. QED
  BY <1>1, <1>2, PipeInvariant, EndingInvariant, InStepInvariant, PTL
     DEF Spec, ImplementsPipeline, Pipeline!PSpec

=============================================================================
