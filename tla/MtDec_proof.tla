---------------------------- MODULE MtDec_proof ----------------------------
(* Proofs about MtDec, for every number of threads, every stream and every   *)
(* failure: the rights to read and to write go round the ring one at a time  *)
(* (Rights), and what is read, held and decoded fits in what there is        *)
(* (Sizes).  MtDecContent_proof goes on from here.                           *)
EXTENDS MtDec, TLAPS, FiniteSetTheorems, SequenceTheorems, WellFoundedInduction

-----------------------------------------------------------------------------
(* The inductive invariant. *)

\* The ring is at work (between MtDec_Code and the end of thread 0).
Runs == main = "mt" /\ pc[0] # "ended"

\* The fields of a record of locals; nothing is said about what most hold.
LocFields ==
  {"block", "links", "got", "size", "first", "crossed", "finish", "needCode", "needWrite",
   "alloc", "over", "thread", "stop", "code", "next", "write"}

RingTypes ==
  /\ main \in MainPc /\ blockIndex \in Nat \ {0}
  /\ numStarted \in 0 .. ThreadsMax /\ startedLimit \in 0 .. ThreadsMax
  /\ readWasFinished \in BOOLEAN /\ exitThread \in BOOLEAN
  /\ pc \in [Thread -> ThreadPc]
  /\ canRead \in [Thread -> BOOLEAN] /\ canWrite \in [Thread -> BOOLEAN]
  /\ DOMAIN loc = Thread
  /\ \A t \in Thread :
       /\ DOMAIN loc[t] = LocFields
       /\ loc[t].block \in Nat /\ loc[t].finish \in BOOLEAN
       /\ loc[t].next \in Thread \cup {None}

Work(t) == pc[t] \in {"code", "waitWrite", "write"}

\* t is busy and has not passed the right to read on.
HasRead(t) == pc[t] \in {"read", "parse", "hand"} \/ (loc[t].finish /\ Work(t))

\* Only threads that were started take part.
OnlyStarted ==
  /\ main = "mt" => numStarted > 0
  /\ \A t \in Thread : t >= numStarted => ~ Busy(t) /\ ~ canRead[t] /\ ~ canWrite[t]

\* Threads work on different blocks, and the one that reads has the newest.
Blocks ==
  /\ \A t \in Thread : Busy(t) => loc[t].block \in 1 .. blockIndex - 1
  /\ \A t, u \in Thread : Busy(t) /\ Busy(u) /\ loc[t].block = loc[u].block => t = u
  /\ \A t \in Thread : HasRead(t) => loc[t].block = blockIndex - 1

OneReads ==
  /\ Runs => \E t \in Thread : Reading(t)
  /\ \A t, u \in Thread : Reading(t) /\ Reading(u) => t = u
  /\ \A t \in Thread : canRead[t] => ~ HasRead(t)

\* The writer has the oldest block, or nobody has one.
OneWrites ==
  /\ \A t, u \in Thread : Writing(t) /\ Writing(u) => t = u
  /\ \A t, u \in Thread : Writing(t) /\ Busy(t) /\ Busy(u) => loc[t].block <= loc[u].block
  /\ \A t \in Thread : Writing(t) /\ ~ Busy(t) => canRead[t] /\ \A u \in Thread : ~ Busy(u)
  /\ \A t \in Thread : pc[t] = "write" => ~ canWrite[t]

\* The thread to which a thread will pass the right to write has the next
\* block, or is the one that will read it.
Chain ==
  \A t \in Thread : Work(t) /\ ~ loc[t].finish =>
    LET u == loc[t].next
    IN /\ u \in Thread
       /\ \/ canRead[u] /\ blockIndex = loc[t].block + 1
          \/ Busy(u) /\ loc[u].block = loc[t].block + 1

\* While the threads are told to exit nothing is left to do; only thread 0 is
\* still in the ring.
Exits ==
  main = "mt" /\ exitThread =>
    \A t \in Thread : ~ Busy(t) /\ ~ canWrite[t] /\ (canRead[t] => t = 0)

\* Outside of MtDec_Code nobody is in the ring.
Clear == ~ Runs => \A t \in Thread : ~ Busy(t) /\ ~ canRead[t] /\ ~ canWrite[t]

Rights ==
  RingTypes /\ OnlyStarted /\ Blocks /\ OneReads /\ OneWrites /\ Chain /\ Exits /\ Clear

-----------------------------------------------------------------------------
(* Steps that leave the rights where they are. *)

\* A record of locals in which some fields are replaced.
IsLoc(l) ==
  /\ DOMAIN l = LocFields
  /\ l.block \in Nat /\ l.finish \in BOOLEAN /\ l.next \in Thread \cup {None}

\* Only the thread t and its locals change.
OnlyThread(t) ==
  /\ pc' \in [Thread -> ThreadPc] /\ DOMAIN loc' = Thread /\ IsLoc(loc'[t])
  /\ \A u \in Thread \ {t} : pc'[u] = pc[u] /\ loc'[u] = loc[u]

ringRest == <<main, blockIndex, numStarted, exitThread>>

\* A busy thread keeps the types.
LEMMA OnlyThreadTypes ==
  ASSUME RingTypes, NEW t \in Thread, OnlyThread(t), main' = main, exitThread' \in BOOLEAN,
         blockIndex' \in Nat \ {0}, numStarted' \in 0 .. ThreadsMax,
         startedLimit' \in 0 .. ThreadsMax, readWasFinished' \in BOOLEAN,
         canRead' \in [Thread -> BOOLEAN], canWrite' \in [Thread -> BOOLEAN]
  PROVE  RingTypes'
  BY DEF RingTypes, OnlyThread, IsLoc

\* The caller works while the ring is at rest (MtDec.c:882-943).
LEMMA OutsideRights ==
  ASSUME Rights, main # "mt", main' \in MainPc \ {"mt"}, readWasFinished' \in BOOLEAN,
         UNCHANGED <<blockIndex, numStarted, startedLimit, exitThread, pc, canRead, canWrite, loc>>
  PROVE  Rights'
<1>1. RingTypes'
  BY DEF Rights, RingTypes
<1>2. ~ Runs /\ ~ Runs'
  BY DEF Runs
<1>3. OnlyStarted' /\ Blocks' /\ Chain'
  BY DEF Rights, OnlyStarted, Blocks, Chain, Busy, HasRead, Work
<1>4. OneReads' /\ OneWrites' /\ Exits' /\ Clear'
  BY <1>2 DEF Rights, OneReads, OneWrites, Exits, Clear, Reading, Writing, HasRead, Work, Busy
<1>5. QED
  BY <1>1, <1>3, <1>4 DEF Rights

\* A thread that reads goes on reading (MtDec.c:285-560).
LEMMA ReadsOnRights ==
  ASSUME Rights, NEW t \in Thread, OnlyThread(t),
         pc[t] \in {"read", "parse", "hand"}, pc'[t] \in {"read", "parse", "hand"},
         loc'[t].block = loc[t].block, startedLimit' = startedLimit,
         UNCHANGED ringRest, UNCHANGED <<canRead, canWrite>>, readWasFinished' \in BOOLEAN
  PROVE  Rights'
<1> USE DEF Rights, Busy, Work, HasRead, Reading, Writing, ringRest, Runs
<1>1. RingTypes'
  BY OnlyThreadTypes DEF RingTypes
<1>2. \A u \in Thread :
        /\ Busy(u)' = Busy(u) /\ HasRead(u)' = HasRead(u) /\ Reading(u)' = Reading(u)
        /\ Writing(u)' = Writing(u) /\ loc'[u].block = loc[u].block
        /\ Work(u)' = Work(u) /\ (Work(u) => loc'[u] = loc[u])
  BY DEF OnlyThread
<1>3. pc'[0] = "ended" <=> pc[0] = "ended"
  BY MtDecAssumption DEF OnlyThread, Thread
<1> HIDE DEF Busy, Work, HasRead, Reading, Writing
<1>4. OnlyStarted' /\ Exits' /\ Clear'
  BY <1>2, <1>3 DEF OnlyStarted, Exits, Clear
<1>5. Blocks' /\ Chain'
  BY <1>2 DEF Blocks, Chain
<1>6. OneReads'
  BY <1>2, <1>3 DEF OneReads
<1>7. OneWrites'
  <2>1. \A u \in Thread : pc'[u] = "write" <=> pc[u] = "write"
    BY DEF OnlyThread
  <2>2. QED
    BY <1>2, <2>1 DEF OneWrites
<1>8. QED
  BY <1>1, <1>4, <1>5, <1>6, <1>7

\* A link cannot be allocated (MtDec.c:306-318).
LEMMA NoLinkEffect ==
  ASSUME RingTypes, NEW t \in Thread, NoLink(t)
  PROVE  /\ OnlyThread(t) /\ loc'[t].block = loc[t].block
         /\ pc[t] \in {"read", "parse"} /\ pc'[t] \in {"read", "parse", "hand"}
         /\ startedLimit' = startedLimit /\ UNCHANGED ringRest
         /\ UNCHANGED <<canRead, canWrite>> /\ readWasFinished' \in BOOLEAN
<1>1. IsLoc(loc'[t])
  BY DEF RingTypes, NoLink, MayFail, IsLoc, LocFields
<1>2. DOMAIN loc' = Thread /\ loc'[t].block = loc[t].block
  BY DEF RingTypes, NoLink, LocFields
<1>3. \A u \in Thread \ {t} : loc'[u] = loc[u]
  BY DEF RingTypes, NoLink
<1>4. pc' \in [Thread -> ThreadPc]
  BY DEF RingTypes, NoLink, Goto, ThreadPc
<1>5. pc'[t] \in {"read", "parse", "hand"}
  BY DEF RingTypes, NoLink, Goto
<1>6. \A u \in Thread \ {t} : pc'[u] = pc[u]
  BY DEF RingTypes, NoLink, Goto
<1>7. readWasFinished' \in BOOLEAN
  BY DEF RingTypes, NoLink, readerVars
<1>8. /\ pc[t] \in {"read", "parse"} /\ startedLimit' = startedLimit
      /\ UNCHANGED ringRest /\ UNCHANGED <<canRead, canWrite>>
  BY DEF NoLink, ringRest, callerVars, readerVars, writerVars
<1>9. QED
  BY <1>1, <1>2, <1>3, <1>4, <1>5, <1>6, <1>7, <1>8 DEF OnlyThread

\* A link takes the cross block (MtDec.c:333-350).
LEMMA TakeCrossEffect ==
  ASSUME RingTypes, NEW t \in Thread, TakeCross(t)
  PROVE  /\ OnlyThread(t) /\ loc'[t].block = loc[t].block
         /\ pc[t] \in {"read", "parse"} /\ pc'[t] \in {"read", "parse", "hand"}
         /\ startedLimit' = startedLimit /\ UNCHANGED ringRest
         /\ UNCHANGED <<canRead, canWrite>> /\ readWasFinished' \in BOOLEAN
<1>1. IsLoc(loc'[t])
  BY DEF RingTypes, TakeCross, MayFail, IsLoc, LocFields
<1>2. DOMAIN loc' = Thread /\ loc'[t].block = loc[t].block
  BY DEF RingTypes, TakeCross, LocFields
<1>3. \A u \in Thread \ {t} : loc'[u] = loc[u]
  BY DEF RingTypes, TakeCross
<1>4. pc' \in [Thread -> ThreadPc]
  BY DEF RingTypes, TakeCross, Goto, ThreadPc
<1>5. pc'[t] \in {"read", "parse", "hand"}
  BY DEF RingTypes, TakeCross, Goto
<1>6. \A u \in Thread \ {t} : pc'[u] = pc[u]
  BY DEF RingTypes, TakeCross, Goto
<1>7. readWasFinished' \in BOOLEAN
  BY DEF RingTypes, TakeCross, readerVars
<1>8. /\ pc[t] \in {"read", "parse"} /\ startedLimit' = startedLimit
      /\ UNCHANGED ringRest /\ UNCHANGED <<canRead, canWrite>>
  BY DEF TakeCross, ringRest, callerVars, readerVars, writerVars
<1>9. QED
  BY <1>1, <1>2, <1>3, <1>4, <1>5, <1>6, <1>7, <1>8 DEF OnlyThread

\* A link is read (MtDec.c:352-395).
LEMMA ReadStreamEffect ==
  ASSUME RingTypes, NEW t \in Thread, ReadStream(t)
  PROVE  /\ OnlyThread(t) /\ loc'[t].block = loc[t].block
         /\ pc[t] \in {"read", "parse"} /\ pc'[t] \in {"read", "parse", "hand"}
         /\ startedLimit' = startedLimit /\ UNCHANGED ringRest
         /\ UNCHANGED <<canRead, canWrite>> /\ readWasFinished' \in BOOLEAN
<1>1. IsLoc(loc'[t])
  BY DEF RingTypes, ReadStream, MayFail, IsLoc, LocFields
<1>2. DOMAIN loc' = Thread /\ loc'[t].block = loc[t].block
  BY DEF RingTypes, ReadStream, LocFields
<1>3. \A u \in Thread \ {t} : loc'[u] = loc[u]
  BY DEF RingTypes, ReadStream
<1>4. pc' \in [Thread -> ThreadPc]
  BY DEF RingTypes, ReadStream, Goto, ThreadPc
<1>5. pc'[t] \in {"read", "parse", "hand"}
  BY DEF RingTypes, ReadStream, Goto
<1>6. \A u \in Thread \ {t} : pc'[u] = pc[u]
  BY DEF RingTypes, ReadStream, Goto
<1>7. readWasFinished' \in BOOLEAN
  BY DEF RingTypes, ReadStream
<1>8. /\ pc[t] \in {"read", "parse"} /\ startedLimit' = startedLimit
      /\ UNCHANGED ringRest /\ UNCHANGED <<canRead, canWrite>>
  BY DEF ReadStream, ringRest, callerVars, readerVars, writerVars
<1>9. QED
  BY <1>1, <1>2, <1>3, <1>4, <1>5, <1>6, <1>7, <1>8 DEF OnlyThread

\* A link is parsed (MtDec.c:397-520).
LEMMA ParseLinkEffect ==
  ASSUME RingTypes, NEW t \in Thread, ParseLink(t)
  PROVE  /\ OnlyThread(t) /\ loc'[t].block = loc[t].block
         /\ pc[t] \in {"read", "parse"} /\ pc'[t] \in {"read", "parse", "hand"}
         /\ startedLimit' = startedLimit /\ UNCHANGED ringRest
         /\ UNCHANGED <<canRead, canWrite>> /\ readWasFinished' \in BOOLEAN
<1>1. IsLoc(loc'[t])
  BY DEF RingTypes, ParseLink, MayFail, IsLoc, LocFields
<1>2. DOMAIN loc' = Thread /\ loc'[t].block = loc[t].block
  BY DEF RingTypes, ParseLink, LocFields
<1>3. \A u \in Thread \ {t} : loc'[u] = loc[u]
  BY DEF RingTypes, ParseLink
<1>4. pc' \in [Thread -> ThreadPc]
  BY DEF RingTypes, ParseLink, Goto, ThreadPc
<1>5. pc'[t] \in {"read", "parse", "hand"}
  BY DEF RingTypes, ParseLink, Goto
<1>6. \A u \in Thread \ {t} : pc'[u] = pc[u]
  BY DEF RingTypes, ParseLink, Goto
<1>7. readWasFinished' \in BOOLEAN
  BY DEF RingTypes, ParseLink
<1>8. /\ pc[t] \in {"read", "parse"} /\ startedLimit' = startedLimit
      /\ UNCHANGED ringRest /\ UNCHANGED <<canRead, canWrite>>
  BY DEF ParseLink, ringRest, callerVars, readerVars, writerVars
<1>9. QED
  BY <1>1, <1>2, <1>3, <1>4, <1>5, <1>6, <1>7, <1>8 DEF OnlyThread

\* The steps of the thread that reads.
LEMMA ReadingRights ==
  ASSUME Rights, NEW t \in Thread, NoLink(t) \/ TakeCross(t) \/ ReadStream(t) \/ ParseLink(t)
  PROVE  Rights'
<1>1. RingTypes
  BY DEF Rights
<1>2. QED
  BY <1>1, NoLinkEffect, TakeCrossEffect, ReadStreamEffect, ParseLinkEffect, ReadsOnRights

-----------------------------------------------------------------------------
(* Taking the right to read and passing it on. *)

\* A thread takes the right to read for a new block (MtDec.c:262-281).
LEMMA TakeReadEffect ==
  ASSUME RingTypes, NEW t \in Thread, TakeRead(t), ~ exitThread
  PROVE  /\ OnlyThread(t) /\ RingTypes' /\ loc'[t].block = blockIndex
         /\ pc[t] = "waitRead" /\ canRead[t] /\ canRead' = [canRead EXCEPT ![t] = FALSE]
         /\ pc'[t] = "read" \/ (pc'[t] = "waitWrite" /\ loc'[t].finish)
         /\ blockIndex' = blockIndex + 1
         /\ UNCHANGED <<main, numStarted, exitThread, canWrite>>
<1>0. PICK stop \in BOOLEAN :
        /\ loc' = [loc EXCEPT ![t] = [NoLoc EXCEPT !.block = blockIndex, !.stop = stop,
                                       !.finish = IF stop THEN TRUE ELSE readWasFinished]]
        /\ pc' = [pc EXCEPT ![t] = IF stop THEN "waitWrite" ELSE "read"]
  <2>1. \E f \in MayFail("progress") :
          LET stop == progressRes' # "ok" \/ (interrupt # None /\ blockIndex > interrupt)
          IN /\ loc' = [loc EXCEPT ![t] = [NoLoc EXCEPT !.block = blockIndex, !.stop = stop,
                                         !.finish = IF stop THEN TRUE ELSE readWasFinished]]
             /\ pc' = [pc EXCEPT ![t] = IF stop THEN "waitWrite" ELSE "read"]
    BY DEF TakeRead, Goto
  <2>2. QED
    BY <2>1
<1>1. IsLoc(loc'[t]) /\ loc'[t].block = blockIndex
  <2>1. loc'[t] = [NoLoc EXCEPT !.block = blockIndex, !.stop = stop,
                                !.finish = IF stop THEN TRUE ELSE readWasFinished]
    BY <1>0 DEF RingTypes
  <2>2. QED
    BY <2>1 DEF RingTypes, NoLoc, IsLoc, LocFields
<1>2. DOMAIN loc' = Thread /\ \A u \in Thread \ {t} : loc'[u] = loc[u]
  BY DEF RingTypes, TakeRead
<1>3. pc' \in [Thread -> ThreadPc] /\ \A u \in Thread \ {t} : pc'[u] = pc[u]
  BY DEF RingTypes, TakeRead, Goto, ThreadPc
<1>4. pc'[t] = "read" \/ (pc'[t] = "waitWrite" /\ loc'[t].finish)
  <2>1. CASE stop
    BY <1>0, <2>1 DEF RingTypes, NoLoc
  <2>2. CASE ~ stop
    BY <1>0, <2>2 DEF RingTypes
  <2>3. QED
    BY <2>1, <2>2
<1>5. /\ pc[t] = "waitRead" /\ canRead[t] /\ canRead' = [canRead EXCEPT ![t] = FALSE]
      /\ blockIndex' = blockIndex + 1
      /\ UNCHANGED <<main, numStarted, startedLimit, exitThread, canWrite, readWasFinished>>
  BY DEF TakeRead, callerVars, writerVars
<1>6. OnlyThread(t)
  BY <1>1, <1>2, <1>3 DEF OnlyThread
<1>7. RingTypes'
  BY <1>5, <1>6, OnlyThreadTypes DEF RingTypes
<1>8. QED
  BY <1>1, <1>4, <1>5, <1>6, <1>7

\* Taking the right to read, or leaving the ring for good (MtDec.c:253-281).
LEMMA TakeReadRights ==
  ASSUME Rights, NEW t \in Thread, TakeRead(t)
  PROVE  Rights'
<1>1. RingTypes
  BY DEF Rights
<1>2. CASE exitThread
  <2>1. /\ canRead[t] /\ pc[t] = "waitRead" /\ pc' = [pc EXCEPT ![t] = "ended"]
        /\ canRead' = [canRead EXCEPT ![t] = FALSE]
        /\ UNCHANGED <<main, blockIndex, loc, readWasFinished, numStarted, startedLimit,
                       exitThread, canWrite>>
    BY <1>2 DEF TakeRead, Goto, callerVars, writerVars
  <2>2. Runs
    BY <1>1, <2>1 DEF Rights, Clear, RingTypes
  <2>3. t = 0 /\ \A u \in Thread : ~ Busy(u) /\ ~ canWrite[u] /\ (canRead[u] => u = 0)
    BY <1>2, <2>1, <2>2 DEF Rights, Exits, Runs
  <2>4. RingTypes' /\ ~ Runs'
    BY <1>1, <2>1, <2>3 DEF RingTypes, ThreadPc, Runs
  <2>5. \A u \in Thread : ~ Busy(u)' /\ ~ canRead'[u] /\ ~ canWrite'[u]
    BY <1>1, <2>1, <2>3 DEF Busy, RingTypes
  <2>6. numStarted > 0
    BY <2>2 DEF Rights, OnlyStarted, Runs
  <2>7. \A u \in Thread : ~ HasRead(u)' /\ ~ Work(u)' /\ pc'[u] # "write"
    BY <2>5 DEF HasRead, Work, Busy
  <2>8. QED
    BY <2>1, <2>4, <2>5, <2>6, <2>7
    DEF Rights, OnlyStarted, Blocks, OneReads, OneWrites, Chain, Exits, Clear, Reading, Writing,
        HasRead, Work
<1>3. CASE ~ exitThread
  <2>1. /\ OnlyThread(t) /\ RingTypes' /\ loc'[t].block = blockIndex
        /\ pc[t] = "waitRead" /\ canRead[t] /\ canRead' = [canRead EXCEPT ![t] = FALSE]
        /\ pc'[t] = "read" \/ (pc'[t] = "waitWrite" /\ loc'[t].finish)
        /\ blockIndex' = blockIndex + 1
        /\ UNCHANGED <<main, numStarted, exitThread, canWrite>>
    BY <1>1, <1>3, TakeReadEffect
  <2>2. \A u \in Thread \ {t} :
          /\ Busy(u)' = Busy(u) /\ HasRead(u)' = HasRead(u) /\ Work(u)' = Work(u)
          /\ loc'[u] = loc[u] /\ canRead'[u] = canRead[u] /\ pc'[u] = pc[u]
    BY <1>1, <2>1 DEF OnlyThread, Busy, HasRead, Work, RingTypes
  <2>3. /\ ~ Busy(t) /\ Busy(t)' /\ HasRead(t)' /\ ~ canRead'[t]
        /\ (Work(t)' => loc'[t].finish) /\ pc'[t] # "write"
    BY <1>1, <2>1 DEF Busy, HasRead, Work, RingTypes
  <2>4. \A u \in Thread \ {t} : ~ canRead[u] /\ ~ HasRead(u)
    BY <2>1 DEF Rights, OneReads, Reading, HasRead, Work
  <2>5. Runs /\ Runs'
    BY <1>1, <2>1, MtDecAssumption DEF Rights, Clear, Runs, RingTypes, OnlyThread, Thread
  <2> USE <1>1, <2>1, <2>2, <2>3, <2>4, <2>5 DEF Rights, RingTypes
  <2>6. OnlyStarted' /\ Exits' /\ Clear'
    BY <1>3 DEF OnlyStarted, Exits, Clear
  <2>7. Blocks'
    BY DEF Blocks
  <2>8. OneReads'
    <3>1. \A u \in Thread : Reading(u)' <=> canRead'[u] \/ HasRead(u)'
      BY DEF Reading, HasRead, Work
    <3>2. QED
      BY <3>1 DEF OneReads
  <2>9. OneWrites'
    <3>1. \A u \in Thread : Writing(u)' = Writing(u)
      BY DEF Writing
    <3>2. \A u \in Thread : Writing(u) /\ Busy(u) => loc[u].block < blockIndex
      BY DEF Blocks
    <3>3. QED
      BY <3>1, <3>2 DEF OneWrites
  <2>10. Chain'
    BY DEF Chain
  <2>11. QED
    BY <2>6, <2>7, <2>8, <2>9, <2>10
<1>4. QED
  BY <1>2, <1>3

\* The right to read is passed on or kept to the end (MtDec.c:528-615).
LEMMA HandReadEffect ==
  ASSUME RingTypes, NEW t \in Thread, HandRead(t), numStarted > t
  PROVE  \E n \in 1 .. ThreadsMax, ends \in BOOLEAN :
           /\ n \in {numStarted, numStarted + 1} /\ numStarted' = n
           /\ loc'[t].finish = ends
           /\ canRead' = IF ends THEN canRead ELSE [canRead EXCEPT ![NextThread(t, n)] = TRUE]
           /\ ends \/ loc'[t].next = NextThread(t, n)
           /\ pc' \in [Thread -> ThreadPc] /\ pc'[t] \in {"code", "waitWrite"}
           /\ \A u \in Thread \ {t} : pc'[u] = IF u = numStarted /\ n > u THEN "waitRead" ELSE pc[u]
           /\ DOMAIN loc' = Thread /\ IsLoc(loc'[t]) /\ loc'[t].block = loc[t].block
           /\ \A u \in Thread \ {t} : loc'[u] = loc[u]
           /\ startedLimit' \in 0 .. ThreadsMax /\ pc[t] = "hand"
           /\ UNCHANGED <<main, blockIndex, exitThread, canWrite, readWasFinished>>
<1>1. PICK c, noThread : PassRead(t, c, noThread)
  BY DEF HandRead
<1> DEFINE finish == loc[t].finish \/ Stops(t) \/ c # "ok"
           more   == ~ finish /\ MayStart(numStarted)
           alone  == noThread /\ numStarted = 1
           ends   == finish \/ alone
           n      == IF more /\ ~ noThread THEN numStarted + 1 ELSE numStarted
           code   == loc[t].needCode /\ ~ Stops(t) /\ c = "ok" /\ ~ alone
<1>2. /\ n \in 1 .. ThreadsMax /\ n \in {numStarted, numStarted + 1} /\ ends \in BOOLEAN
      /\ t < n
  BY MtDecAssumption DEF RingTypes, MayStart, Thread
<1>3. NextThread(t, n) \in Thread
  BY <1>2, MtDecAssumption DEF NextThread, Thread
<1>4. /\ numStarted' = n
      /\ canRead' = IF ends THEN canRead ELSE [canRead EXCEPT ![NextThread(t, n)] = TRUE]
      /\ startedLimit' = IF noThread /\ ~ alone THEN numStarted ELSE startedLimit
  BY <1>1 DEF PassRead, HandOn
<1>5. pc' = [pc EXCEPT ![n - 1] = IF n > numStarted THEN "waitRead" ELSE @,
                       ![t] = IF code THEN "code" ELSE "waitWrite"]
  BY <1>1 DEF PassRead
<1>6. loc' = [loc EXCEPT ![t] =
                [loc[t] EXCEPT !.stop = Stops(t), !.code = c, !.thread = alone, !.finish = ends,
                          !.needCode = @ /\ c = "ok" /\ ~ alone,
                          !.next = IF ends THEN None ELSE NextThread(t, n)]]
  BY <1>1 DEF PassRead
<1>7. /\ pc[t] = "hand"
      /\ UNCHANGED <<main, blockIndex, exitThread, canWrite, readWasFinished>>
  BY DEF HandRead, callerVars, writerVars
<1> HIDE DEF code, ends, n
<1>8. /\ DOMAIN loc' = Thread /\ IsLoc(loc'[t]) /\ loc'[t].block = loc[t].block
      /\ loc'[t].finish = ends /\ (ends \/ loc'[t].next = NextThread(t, n))
      /\ \A u \in Thread \ {t} : loc'[u] = loc[u]
  BY <1>2, <1>3, <1>6 DEF RingTypes, IsLoc, LocFields, None
<1>9. /\ pc' \in [Thread -> ThreadPc] /\ pc'[t] \in {"code", "waitWrite"}
      /\ \A u \in Thread \ {t} : pc'[u] = IF u = numStarted /\ n > u THEN "waitRead" ELSE pc[u]
  <2>1. n - 1 \in Thread /\ (n > numStarted => n - 1 = numStarted /\ n - 1 # t)
    BY <1>2, MtDecAssumption DEF RingTypes, Thread
  <2>2. CASE n > numStarted
    BY <1>2, <1>5, <2>1, <2>2 DEF RingTypes, ThreadPc, Thread
  <2>3. CASE ~ n > numStarted
    <3>1. \A u \in Thread : ~ (u = numStarted /\ n > u)
      BY <2>3
    <3>2. QED
      BY <1>5, <2>1, <2>3, <3>1 DEF RingTypes, ThreadPc
  <2>4. QED
    BY <2>2, <2>3
<1>10. startedLimit' \in 0 .. ThreadsMax
  BY <1>4 DEF RingTypes
<1>11. QED
  BY <1>2, <1>4, <1>7, <1>8, <1>9, <1>10

\* Passing the right to read on, to a thread started for it or not.
LEMMA HandReadRights ==
  ASSUME Rights, NEW t \in Thread, HandRead(t)
  PROVE  Rights'
<1>1. RingTypes /\ pc[t] = "hand" /\ Busy(t) /\ HasRead(t)
  BY DEF Rights, HandRead, Busy, HasRead
<1>2. t < numStarted /\ numStarted > t
  BY <1>1 DEF Rights, OnlyStarted, RingTypes, Thread
<1>3. PICK n \in 1 .. ThreadsMax, ends \in BOOLEAN :
        /\ n \in {numStarted, numStarted + 1} /\ numStarted' = n
        /\ loc'[t].finish = ends
        /\ canRead' = IF ends THEN canRead ELSE [canRead EXCEPT ![NextThread(t, n)] = TRUE]
        /\ ends \/ loc'[t].next = NextThread(t, n)
        /\ pc' \in [Thread -> ThreadPc] /\ pc'[t] \in {"code", "waitWrite"}
        /\ \A u \in Thread \ {t} : pc'[u] = IF u = numStarted /\ n > u THEN "waitRead" ELSE pc[u]
        /\ DOMAIN loc' = Thread /\ IsLoc(loc'[t]) /\ loc'[t].block = loc[t].block
        /\ \A u \in Thread \ {t} : loc'[u] = loc[u]
        /\ startedLimit' \in 0 .. ThreadsMax /\ pc[t] = "hand"
        /\ UNCHANGED <<main, blockIndex, exitThread, canWrite, readWasFinished>>
  BY <1>1, <1>2, HandReadEffect
<1> DEFINE v == NextThread(t, n)
<1>4. v \in Thread /\ v < n
  BY <1>2, <1>3, MtDecAssumption DEF NextThread, Thread, RingTypes
<1> HIDE DEF v
<1>5. RingTypes'
  BY <1>1, <1>3, <1>4 DEF RingTypes, IsLoc, v
<1>6. \A u \in Thread : ~ canRead[u] /\ (u # t => ~ HasRead(u))
  BY <1>1 DEF Rights, OneReads, Reading, HasRead, Work
<1>7. \A u \in Thread : u >= numStarted => ~ Busy(u) /\ ~ canRead[u] /\ ~ canWrite[u]
  BY DEF Rights, OnlyStarted
<1>8. \A u \in Thread \ {t} :
        /\ Busy(u)' = Busy(u) /\ HasRead(u)' = HasRead(u) /\ Work(u)' = Work(u)
        /\ loc'[u] = loc[u] /\ (pc'[u] = "write" <=> pc[u] = "write")
  BY <1>1, <1>3, <1>7 DEF Busy, HasRead, Work, RingTypes, Thread
<1>9. /\ Busy(t)' /\ Work(t)' /\ (HasRead(t)' <=> ends) /\ pc[t] # "write" /\ pc'[t] # "write"
      /\ loc'[t].block = loc[t].block
  BY <1>1, <1>3 DEF Busy, Work, HasRead, RingTypes
<1>10. \A u \in Thread : canRead'[u] <=> ~ ends /\ u = v
  BY <1>1, <1>3, <1>4, <1>6 DEF RingTypes, v
<1>11. Runs /\ Runs'
  <2>1. Runs
    BY <1>1 DEF Rights, Clear
  <2>2. pc'[0] # "ended"
    BY <1>1, <1>3, <2>1, MtDecAssumption DEF Runs, Thread, RingTypes
  <2>3. QED
    BY <1>3, <2>1, <2>2 DEF Runs
<1>12. OnlyStarted'
  BY <1>2, <1>3, <1>4, <1>7, <1>8, <1>10, <1>1 DEF OnlyStarted, RingTypes, Thread
<1>13. Blocks'
  BY <1>1, <1>3, <1>8, <1>9 DEF Rights, Blocks
<1>14. OneReads'
  <2>1. \A u \in Thread : Reading(u)' <=> canRead'[u] \/ HasRead(u)'
    BY DEF Reading, HasRead, Work
  <2>2. QED
    BY <1>4, <1>6, <1>8, <1>9, <1>10, <2>1 DEF OneReads
<1>15. OneWrites'
  <2>1. \A u \in Thread : Writing(u)' = Writing(u) /\ Busy(u)' = Busy(u)
    BY <1>1, <1>3, <1>8, <1>9 DEF Writing, Busy, RingTypes
  <2>2. QED
    BY <1>1, <1>3, <1>8, <1>9, <2>1 DEF Rights, OneWrites
<1>16. Chain'
  <2>1. ends \/ (canRead'[v] /\ loc'[t].next = v /\ blockIndex' = loc'[t].block + 1)
    BY <1>1, <1>3, <1>4, <1>9, <1>10 DEF Rights, Blocks, v, RingTypes
  <2>2. \A u \in Thread : Busy(u)' = Busy(u) /\ loc'[u].block = loc[u].block
    BY <1>1, <1>8, <1>9 DEF Busy
  <2>3. QED
    BY <1>3, <1>4, <1>6, <1>8, <1>9, <2>1, <2>2 DEF Rights, Chain
<1>17. Exits' /\ Clear'
  BY <1>1, <1>3, <1>11 DEF Rights, Exits, Clear, Runs
<1>18. QED
  BY <1>5, <1>12, <1>13, <1>14, <1>15, <1>16, <1>17 DEF Rights

-----------------------------------------------------------------------------
(* Decoding and writing. *)

\* A thread goes from one piece of its work to the next and gives up no right
\* but the one to wait for canWrite (MtDec.c:620-727).
LEMMA WorksOnRights ==
  ASSUME Rights, NEW t \in Thread, OnlyThread(t), Work(t), pc'[t] \in {"waitWrite", "write"},
         pc[t] # "write",
         loc'[t].block = loc[t].block, loc'[t].finish = loc[t].finish,
         loc'[t].next = loc[t].next,
         \/ pc'[t] = "waitWrite" /\ canWrite' = canWrite
         \/ pc'[t] = "write" /\ canWrite[t] /\ canWrite' = [canWrite EXCEPT ![t] = FALSE],
         startedLimit' = startedLimit, readWasFinished' = readWasFinished,
         UNCHANGED ringRest, canRead' = canRead
  PROVE  Rights'
<1>0. RingTypes
  BY DEF Rights
<1>1. RingTypes'
  BY <1>0, OnlyThreadTypes DEF RingTypes, ringRest
<1>2. \A u \in Thread :
        /\ Busy(u)' = Busy(u) /\ HasRead(u)' = HasRead(u) /\ Reading(u)' = Reading(u)
        /\ Work(u)' = Work(u) /\ loc'[u].block = loc[u].block
        /\ loc'[u].finish = loc[u].finish /\ loc'[u].next = loc[u].next
  BY <1>0 DEF OnlyThread, Busy, HasRead, Reading, Work
<1>3. \A u \in Thread : /\ Writing(u)' = Writing(u) /\ (canWrite'[u] => canWrite[u])
                        /\ (pc'[u] = "write" /\ canWrite'[u] => u # t /\ pc[u] = "write")
  BY <1>0 DEF OnlyThread, Writing, RingTypes
<1>4. pc'[0] = "ended" <=> pc[0] = "ended"
  BY <1>0, MtDecAssumption DEF OnlyThread, Thread, Work
<1>5. OnlyStarted' /\ Exits' /\ Clear'
  BY <1>2, <1>3, <1>4 DEF Rights, OnlyStarted, Exits, Clear, Runs, ringRest
<1>6. Blocks' /\ Chain'
  BY <1>2 DEF Rights, Blocks, Chain, ringRest
<1>7. OneReads'
  BY <1>2, <1>4 DEF Rights, OneReads, Runs, ringRest
<1>8. OneWrites'
  BY <1>2, <1>3 DEF Rights, OneWrites
<1>9. QED
  BY <1>1, <1>5, <1>6, <1>7, <1>8 DEF Rights

\* Decoding (MtDec.c:620-660) keeps the thread's rights.
LEMMA CodeRights ==
  ASSUME Rights, NEW t \in Thread, Code(t)
  PROVE  Rights'
<1>0. RingTypes
  BY DEF Rights
<1>1. /\ IsLoc(loc'[t]) /\ loc'[t].block = loc[t].block /\ loc'[t].finish = loc[t].finish
      /\ loc'[t].next = loc[t].next /\ DOMAIN loc' = Thread
  <2>1. \/ loc' = [loc EXCEPT ![t].code = "data"]
        \/ loc' = loc
        \/ loc' = [loc EXCEPT ![t].stop = Interrupted(t)]
    BY DEF Code
  <2>2. QED
    BY <1>0, <2>1 DEF RingTypes, IsLoc, LocFields
<1>2. \A u \in Thread \ {t} : loc'[u] = loc[u]
  BY <1>0 DEF Code, RingTypes
<1>3. pc[t] = "code" /\ pc' = [pc EXCEPT ![t] = "waitWrite"]
  BY DEF Code, Goto
<1>4. /\ canWrite' = canWrite /\ startedLimit' = startedLimit
      /\ readWasFinished' = readWasFinished /\ UNCHANGED ringRest /\ canRead' = canRead
  BY DEF Code, ringRest, callerVars, readerVars, writerVars
<1>5. OnlyThread(t) /\ pc'[t] = "waitWrite"
  BY <1>0, <1>1, <1>2, <1>3 DEF OnlyThread, RingTypes, ThreadPc
<1>6. QED
  BY <1>1, <1>3, <1>4, <1>5, WorksOnRights DEF Work

\* Taking the right to write (MtDec.c:664-727).
LEMMA TakeWriteRights ==
  ASSUME Rights, NEW t \in Thread, TakeWrite(t)
  PROVE  Rights'
<1>0. RingTypes
  BY DEF Rights
<1>1. /\ IsLoc(loc'[t]) /\ loc'[t].block = loc[t].block /\ loc'[t].finish = loc[t].finish
      /\ loc'[t].next = loc[t].next /\ DOMAIN loc' = Thread
  BY <1>0 DEF TakeWrite, RingTypes, IsLoc, LocFields
<1>2. \A u \in Thread \ {t} : loc'[u] = loc[u]
  BY <1>0 DEF TakeWrite, RingTypes
<1>3. pc[t] = "waitWrite" /\ pc' = [pc EXCEPT ![t] = "write"]
  BY DEF TakeWrite, Goto
<1>4. /\ canWrite[t] /\ canWrite' = [canWrite EXCEPT ![t] = FALSE]
      /\ startedLimit' = startedLimit
      /\ readWasFinished' = readWasFinished /\ UNCHANGED ringRest /\ canRead' = canRead
  BY DEF TakeWrite, ringRest, callerVars, readerVars
<1>5. OnlyThread(t) /\ pc'[t] = "write"
  BY <1>0, <1>1, <1>2, <1>3 DEF OnlyThread, RingTypes, ThreadPc
<1>6. QED
  BY <1>1, <1>3, <1>4, <1>5, WorksOnRights DEF Work

\* What the end of an iteration does to the rights (MtDec.c:735-800).
LEMMA WriteEffect ==
  ASSUME RingTypes, NEW t \in Thread, Write(t)
  PROVE  \E goesOn \in BOOLEAN :
           /\ pc[t] = "write" /\ OnlyThread(t) /\ PassOn(t, goesOn)
           /\ startedLimit' = startedLimit /\ readWasFinished' = readWasFinished
           /\ UNCHANGED <<main, blockIndex, numStarted>>
<1>1. IsLoc(NoLoc)
  BY DEF IsLoc, NoLoc, LocFields
<1>2. loc' = [loc EXCEPT ![t] = NoLoc] /\ pc[t] = "write"
  BY DEF Write
<1>3. /\ startedLimit' = startedLimit /\ readWasFinished' = readWasFinished
      /\ UNCHANGED <<main, blockIndex, numStarted>>
  BY DEF Write, callerVars, readerVars
<1>4. PICK fails : PassOn(t, Continues(t, fails))
  BY DEF Write
<1>5. Continues(t, fails) \in BOOLEAN
  BY DEF Continues, RingTypes
<1>6. OnlyThread(t)
  BY <1>1, <1>2, <1>4 DEF OnlyThread, PassOn, Goto, RingTypes, ThreadPc
<1>7. QED
  BY <1>2, <1>3, <1>4, <1>5, <1>6

\* The writer passes the right on, starts the ring again or ends it.
LEMMA WriteRights ==
  ASSUME Rights, NEW t \in Thread, Write(t)
  PROVE  Rights'
<1>0. RingTypes
  BY DEF Rights
<1>1. PICK goesOn \in BOOLEAN :
           /\ pc[t] = "write" /\ OnlyThread(t) /\ PassOn(t, goesOn)
           /\ startedLimit' = startedLimit /\ readWasFinished' = readWasFinished
           /\ UNCHANGED <<main, blockIndex, numStarted>>
  BY <1>0, WriteEffect
<1>2. /\ Busy(t) /\ Work(t) /\ Writing(t) /\ 0 \in Thread
  BY <1>1, MtDecAssumption DEF Busy, Work, Writing, Thread
<1>3. /\ \A u \in Thread : ~ canWrite[u] /\ (u # t => pc[u] # "write")
      /\ \A u \in Thread : Busy(u) => loc[t].block <= loc[u].block
  BY <1>1, <1>2 DEF Rights, OneWrites, Writing
<1>4. Runs /\ ~ exitThread /\ numStarted > 0 /\ t < numStarted
  BY <1>0, <1>2 DEF Rights, Clear, Exits, OnlyStarted, Runs, RingTypes, Thread
<1>5. \A u \in Thread \ {t} :
        /\ Busy(u)' = Busy(u) /\ HasRead(u)' = HasRead(u) /\ Work(u)' = Work(u)
        /\ loc'[u] = loc[u] /\ pc'[u] = pc[u]
  BY <1>1 DEF OnlyThread, Busy, HasRead, Work
<1>6. pc'[t] \in {"waitRead", "ended"} /\ ~ Busy(t)' /\ ~ HasRead(t)' /\ ~ Work(t)'
  BY <1>0, <1>1 DEF PassOn, Goto, Busy, HasRead, Work, RingTypes
<1>7. \A u \in Thread : /\ Reading(u) <=> canRead[u] \/ HasRead(u)
                        /\ Reading(u)' <=> canRead'[u] \/ HasRead(u)'
                        /\ Writing(u) <=> canWrite[u] \/ pc[u] = "write"
                        /\ Writing(u)' <=> canWrite'[u] \/ pc'[u] = "write"
  BY DEF Reading, HasRead, Work, Writing
<1>8. \A u \in Thread : Busy(u) => loc[u].block \in 1 .. blockIndex - 1
  BY DEF Rights, Blocks
<1>9. \A u \in Thread \ {t} : Busy(u) => loc[t].block < loc[u].block
  BY <1>0, <1>2, <1>3, <1>8 DEF Rights, Blocks, RingTypes
<1>10. Blocks'
  BY <1>1, <1>5, <1>6 DEF Rights, Blocks
<1>11. CASE ~ loc[t].finish
  <2>1. PICK v \in Thread :
        /\ v = loc[t].next /\ canRead' = canRead /\ exitThread' = exitThread
        /\ canWrite' = [canWrite EXCEPT ![v] = TRUE] /\ pc'[t] = "waitRead"
    BY <1>0, <1>1, <1>2, <1>11 DEF PassOn, Goto, Rights, Chain, RingTypes
  <2>2. \/ canRead[v] /\ blockIndex = loc[t].block + 1
        \/ Busy(v) /\ loc[v].block = loc[t].block + 1
    BY <1>2, <1>11, <2>1 DEF Rights, Chain
  <2>3. \A u \in Thread : canWrite'[u] <=> u = v
    BY <1>0, <1>3, <2>1 DEF RingTypes
  <2>4. RingTypes'
    BY <1>0, <1>1, <2>1, OnlyThreadTypes DEF RingTypes
  <2>5. Runs'
    BY <1>1, <1>2, <1>4, <1>5, <2>1 DEF Runs
  <2>6. ~ HasRead(t)
    BY <1>1, <1>11 DEF HasRead
  <2>7. OnlyStarted'
    BY <1>0, <1>1, <1>5, <1>6, <2>1, <2>2, <2>3, <1>4 DEF Rights, OnlyStarted, RingTypes, Thread
  <2>8. OneReads'
    <3>1. \A u \in Thread : HasRead(u)' <=> HasRead(u)
      BY <1>5, <1>6, <2>6
    <3>2. \A u \in Thread : Reading(u)' <=> Reading(u)
      BY <1>7, <2>1, <3>1
    <3>3. QED
      BY <1>4, <2>1, <3>1, <3>2 DEF Rights, OneReads
  <2>9. OneWrites'
    <3>1. \A u \in Thread : Writing(u)' <=> u = v
      BY <1>3, <1>5, <1>6, <1>7, <2>3
    <3>2. \A u \in Thread : pc'[u] # "write"
      BY <1>3, <1>5, <1>6
    <3>3. CASE canRead[v] /\ blockIndex = loc[t].block + 1
      <4>1. \A u \in Thread : ~ Busy(u)'
        BY <1>0, <1>2, <1>5, <1>6, <1>8, <1>9, <3>3 DEF RingTypes
      <4>2. QED
        BY <2>1, <3>1, <3>2, <3>3, <4>1 DEF OneWrites
    <3>4. CASE Busy(v) /\ loc[v].block = loc[t].block + 1
      <4>1. v # t
        BY <1>0, <3>4 DEF RingTypes
      <4>2. Busy(v)' /\ loc'[v].block = loc[t].block + 1
        BY <1>5, <2>1, <3>4, <4>1
      <4>3. \A u \in Thread : Busy(u)' => loc[t].block + 1 <= loc'[u].block
        BY <1>0, <1>5, <1>6, <1>9 DEF RingTypes
      <4>4. QED
        BY <3>1, <3>2, <4>2, <4>3 DEF OneWrites
    <3>5. QED
      BY <2>2, <3>3, <3>4
  <2>10. Chain'
    <3>1. \A u \in Thread \ {t} : Work(u) => Busy(u)
      BY DEF Work, Busy
    <3>2. \A u \in Thread \ {t} : Work(u) => loc[u].block + 1 # loc[t].block
      BY <1>0, <1>9, <3>1 DEF RingTypes
    <3>3. QED
      BY <1>1, <1>5, <1>6, <2>1, <3>2 DEF Rights, Chain
  <2>11. Exits' /\ Clear'
    BY <1>4, <2>1, <2>5 DEF Exits, Clear
  <2>12. QED
    BY <1>10, <2>4, <2>7, <2>8, <2>9, <2>10, <2>11 DEF Rights
<1>12. CASE loc[t].finish
  <2>1. loc[t].block = blockIndex - 1 /\ HasRead(t)
    BY <1>1, <1>2, <1>12 DEF Rights, Blocks, HasRead
  <2>2. \A u \in Thread : ~ canRead[u]
    BY <1>7, <2>1 DEF Rights, OneReads
  <2>3. \A u \in Thread : ~ Busy(u)'
    BY <1>0, <1>5, <1>6, <1>8, <1>9, <2>1 DEF RingTypes
  <2>4. \A u \in Thread : ~ HasRead(u)' /\ ~ Work(u)' /\ pc'[u] # "write"
    BY <2>3 DEF HasRead, Work, Busy
  <2>5. Chain'
    BY <2>4 DEF Chain
  <2>6. CASE goesOn
    <3>1. /\ canWrite' = [canWrite EXCEPT ![0] = TRUE] /\ exitThread' = exitThread
          /\ canRead' = [canRead EXCEPT ![0] = TRUE] /\ pc'[t] = "waitRead"
      BY <1>0, <1>1, <1>12, <2>6 DEF PassOn, Goto, RingTypes
    <3>2. \A u \in Thread : (canWrite'[u] <=> u = 0) /\ (canRead'[u] <=> u = 0)
      BY <1>0, <1>3, <2>2, <3>1 DEF RingTypes
    <3>3. RingTypes'
      BY <1>0, <1>1, <3>1, OnlyThreadTypes DEF RingTypes
    <3>4. Runs'
      BY <1>1, <1>2, <1>4, <1>5, <3>1 DEF Runs
    <3>5. QED
      BY <1>0, <1>1, <1>2, <1>4, <1>7, <1>10, <2>3, <2>4, <2>5, <3>1, <3>2, <3>3, <3>4
      DEF Rights, OnlyStarted, OneReads, OneWrites, Exits, Clear, RingTypes
  <2>7. CASE ~ goesOn /\ t = 0
    <3>1. UNCHANGED <<canWrite, canRead, exitThread>> /\ pc'[t] = "ended"
      BY <1>0, <1>1, <1>12, <2>7 DEF PassOn, Goto, RingTypes
    <3>2. RingTypes'
      BY <1>0, <1>1, <3>1, OnlyThreadTypes DEF RingTypes
    <3>3. ~ Runs'
      BY <2>7, <3>1 DEF Runs
    <3>4. QED
      BY <1>1, <1>3, <1>4, <1>7, <1>10, <2>2, <2>3, <2>4, <2>5, <3>1, <3>2, <3>3
      DEF Rights, OnlyStarted, OneReads, OneWrites, Exits, Clear
  <2>8. CASE ~ goesOn /\ t # 0
    <3>1. /\ canWrite' = canWrite /\ exitThread' = TRUE
          /\ canRead' = [canRead EXCEPT ![0] = TRUE] /\ pc'[t] = "waitRead"
      BY <1>0, <1>1, <1>12, <2>8 DEF PassOn, Goto, RingTypes
    <3>2. \A u \in Thread : ~ canWrite'[u] /\ (canRead'[u] <=> u = 0)
      BY <1>0, <1>3, <2>2, <3>1 DEF RingTypes
    <3>3. RingTypes'
      BY <1>0, <1>1, <3>1, OnlyThreadTypes DEF RingTypes
    <3>4. Runs'
      BY <1>1, <1>2, <1>4, <1>5, <2>8 DEF Runs
    <3>5. QED
      BY <1>0, <1>1, <1>2, <1>4, <1>7, <1>10, <2>3, <2>4, <2>5, <3>1, <3>2, <3>3, <3>4
      DEF Rights, OnlyStarted, OneReads, OneWrites, Exits, Clear, RingTypes
  <2>9. QED
    BY <2>6, <2>7, <2>8
<1>13. QED
  BY <1>0, <1>11, <1>12 DEF RingTypes


-----------------------------------------------------------------------------
(* The caller, and the theorem. *)

\* MtDec_Code gives thread 0 both rights (MtDec.c:1017-1084).
LEMMA StartRights ==
  ASSUME Rights, Start
  PROVE  Rights'
<1>0. RingTypes /\ 0 \in Thread /\ main = "start"
  BY MtDecAssumption DEF Rights, Start, Thread
<1>1. CASE ~ tryMt
  BY <1>0, <1>1, OutsideRights DEF Start, MainPc
<1>2. CASE tryMt
  <2>1. /\ main' = "mt" /\ blockIndex' = 1 /\ numStarted' = 1 /\ startedLimit' = ThreadsMax
        /\ readWasFinished' = FALSE /\ exitThread' = FALSE /\ loc' = loc
        /\ canRead' = [canRead EXCEPT ![0] = TRUE] /\ canWrite' = [canWrite EXCEPT ![0] = TRUE]
        /\ pc' = [pc EXCEPT ![0] = "waitRead"]
    BY <1>2 DEF Start
  <2>2. \A u \in Thread : ~ Busy(u) /\ ~ canRead[u] /\ ~ canWrite[u]
    BY <1>0 DEF Rights, Clear, Runs
  <2>3. \A u \in Thread : /\ ~ Busy(u)' /\ (canRead'[u] <=> u = 0) /\ (canWrite'[u] <=> u = 0)
    BY <1>0, <2>1, <2>2 DEF RingTypes, Busy
  <2>4. \A u \in Thread : ~ HasRead(u)' /\ ~ Work(u)' /\ pc'[u] # "write"
    BY <2>3 DEF HasRead, Work, Busy
  <2>5. RingTypes'
    <3>1. /\ canRead' \in [Thread -> BOOLEAN] /\ canWrite' \in [Thread -> BOOLEAN]
          /\ pc' \in [Thread -> ThreadPc]
      BY <1>0, <2>1 DEF RingTypes, ThreadPc
    <3>2. /\ main' \in MainPc /\ blockIndex' \in Nat \ {0} /\ numStarted' \in 0 .. ThreadsMax
          /\ startedLimit' \in 0 .. ThreadsMax
      BY <2>1, MtDecAssumption DEF MainPc
    <3>3. QED
      BY <1>0, <2>1, <3>1, <3>2 DEF RingTypes
  <2>6. \A u \in Thread : (Reading(u)' <=> u = 0) /\ (Writing(u)' <=> u = 0)
    BY <2>3, <2>4 DEF Reading, Writing, HasRead, Work
  <2>7. Runs'
    BY <1>0, <2>1 DEF Runs, RingTypes
  <2>8. OnlyStarted'
    BY <2>1, <2>3 DEF OnlyStarted, Thread
  <2>9. Blocks' /\ Chain' /\ Exits' /\ Clear'
    BY <2>1, <2>3, <2>4, <2>7 DEF Blocks, Chain, Exits, Clear
  <2>10. OneReads' /\ OneWrites'
    BY <1>0, <2>3, <2>4, <2>6 DEF OneReads, OneWrites
  <2>11. QED
    BY <2>5, <2>8, <2>9, <2>10 DEF Rights
<1>3. QED
  BY <1>1, <1>2

\* The ring has ended when MtDec_Code returns (Lzma2DecMt.c:902-950).
LEMMA ReturnRights ==
  ASSUME Rights, Return
  PROVE  Rights'
<1>0. RingTypes /\ 0 \in Thread
  BY MtDecAssumption DEF Rights, Thread
<1>1. /\ main = "mt" /\ pc[0] = "ended" /\ pc' = [pc EXCEPT ![0] = "none"]
      /\ UNCHANGED <<blockIndex, numStarted, startedLimit, exitThread, canRead, canWrite, loc,
                     readWasFinished>>
  BY DEF Return, Goto, writerVars
<1>2. main' \in {"result", "st"}
  BY DEF Return
<1>3. ~ Runs /\ ~ Runs'
  BY <1>1, <1>2 DEF Runs
<1>4. \A u \in Thread : ~ Busy(u)' /\ ~ canRead'[u] /\ ~ canWrite'[u]
  BY <1>0, <1>1, <1>3 DEF Rights, Clear, RingTypes, Busy
<1>5. \A u \in Thread : ~ HasRead(u)' /\ ~ Work(u)' /\ pc'[u] # "write"
  BY <1>4 DEF HasRead, Work, Busy
<1>6. \A u \in Thread : ~ Reading(u)' /\ ~ Writing(u)'
  BY <1>4, <1>5 DEF Reading, Writing, HasRead, Work
<1>7. RingTypes'
  BY <1>0, <1>1, <1>2 DEF RingTypes, MainPc, ThreadPc
<1>8. QED
  BY <1>2, <1>3, <1>4, <1>5, <1>6, <1>7
  DEF Rights, OnlyStarted, Blocks, OneReads, OneWrites, Chain, Exits, Clear

\* The single-thread decoder, the result and the next call leave the ring at
\* rest (Lzma2DecMt.c:637-797).
LEMMA CallerRights ==
  ASSUME Rights, ReadFilled \/ ReadCross \/ ReadNext \/ Finish \/ NextCall
  PROVE  Rights'
<1>0. RingTypes
  BY DEF Rights
<1>1. CASE ReadFilled
  BY <1>0, <1>1, OutsideRights DEF ReadFilled, DecodePiece, callerRest, MainPc, RingTypes
<1>2. CASE ReadCross
  BY <1>0, <1>2, OutsideRights DEF ReadCross, DecodePiece, callerRest, MainPc, RingTypes
<1>3. CASE ReadNext
  <2>1. readWasFinished' \in BOOLEAN
    BY <1>0, <1>3 DEF ReadNext, MayFail, RingTypes
  <2>2. main = "st" /\ main' \in {"st", "result"}
    BY <1>3, ZenonT(40) DEF ReadNext, DecodePiece
  <2>3. QED
    BY <1>3, <2>1, <2>2, OutsideRights DEF ReadNext, callerRest, MainPc
<1>4. CASE Finish
  BY <1>0, <1>4, OutsideRights DEF Finish, readerVars, writerVars, MainPc, RingTypes
<1>5. CASE NextCall
  BY <1>0, <1>5, OutsideRights DEF NextCall, readerVars, writerVars, MainPc, RingTypes
<1>6. QED
  BY <1>1, <1>2, <1>3, <1>4, <1>5

\* Nothing of it changes in a step that changes nothing.
LEMMA StutterRights ==
  ASSUME Rights, UNCHANGED vars
  PROVE  Rights'
  BY DEF Rights, RingTypes, OnlyStarted, Blocks, OneReads, OneWrites, Chain, Exits, Clear, Runs,
         Reading, Writing, Busy, HasRead, Work, vars, callerVars, readerVars, writerVars

\* Rights is an inductive invariant of the decoder (MtDec.c:250-796).
THEOREM RightsInvariant == Spec => []Rights
<1>1. Init => Rights
  <2> SUFFICES ASSUME Init PROVE Rights
    OBVIOUS
  <2>1. RingTypes
    <3>1. /\ DOMAIN NoLoc = LocFields /\ NoLoc.block = 0 /\ NoLoc.finish \in BOOLEAN
          /\ NoLoc.next = None
      BY DEF NoLoc, LocFields
    <3>2. DOMAIN loc = Thread /\ \A t \in Thread : loc[t] = NoLoc
      BY DEF Init
    <3>3. /\ main \in MainPc /\ blockIndex \in Nat \ {0} /\ numStarted \in 0 .. ThreadsMax
          /\ startedLimit \in 0 .. ThreadsMax /\ readWasFinished \in BOOLEAN
          /\ exitThread \in BOOLEAN
      <4>1. main = "start" /\ blockIndex = 1 /\ numStarted = 0 /\ startedLimit = ThreadsMax
        BY DEF Init
      <4>2. readWasFinished \in BOOLEAN /\ exitThread \in BOOLEAN
        BY DEF Init
      <4>3. ThreadsMax \in Nat \ {0}
        BY MtDecAssumption
      <4>4. 0 \in 0 .. ThreadsMax /\ ThreadsMax \in 0 .. ThreadsMax
        BY <4>3
      <4>5. main \in MainPc
        BY <4>1 DEF MainPc
      <4>6. QED
        BY <4>1, <4>2, <4>4, <4>5
    <3>4. /\ pc \in [Thread -> ThreadPc] /\ canRead \in [Thread -> BOOLEAN]
          /\ canWrite \in [Thread -> BOOLEAN]
      BY DEF Init, ThreadPc
    <3>5. \A t \in Thread :
            /\ DOMAIN loc[t] = LocFields
            /\ loc[t].block \in Nat /\ loc[t].finish \in BOOLEAN
            /\ loc[t].next \in Thread \cup {None}
      BY <3>1, <3>2
    <3>6. QED
      BY <3>2, <3>3, <3>4, <3>5 DEF RingTypes
  <2>2. \A u \in Thread : ~ Busy(u) /\ ~ canRead[u] /\ ~ canWrite[u] /\ pc[u] = "none"
    BY DEF Init, Busy
  <2>3. \A u \in Thread : ~ HasRead(u) /\ ~ Work(u) /\ ~ Reading(u) /\ ~ Writing(u)
    BY <2>2 DEF HasRead, Work, Reading, Writing
  <2>4. main = "start" /\ ~ Runs
    BY DEF Init, Runs
  <2>5. QED
    BY <2>1, <2>2, <2>3, <2>4
    DEF Rights, OnlyStarted, Blocks, OneReads, OneWrites, Chain, Exits, Clear
<1>2. Rights /\ [Next]_vars => Rights'
  <2> SUFFICES ASSUME Rights, [Next]_vars PROVE Rights'
    OBVIOUS
  <2>1. CASE MainStep
    BY <2>1, StartRights, ReturnRights, CallerRights DEF MainStep
  <2>2. CASE NextCall
    BY <2>2, CallerRights
  <2>3. ASSUME NEW t \in Thread, ThreadStep(t) PROVE Rights'
    BY <2>3, TakeReadRights, ReadingRights, HandReadRights, CodeRights, TakeWriteRights,
       WriteRights DEF ThreadStep
  <2>4. CASE UNCHANGED vars
    BY <2>4, StutterRights
  <2>5. QED
    BY <2>1, <2>2, <2>3, <2>4 DEF Next, Terminating
<1>3. QED
  BY <1>1, <1>2, PTL DEF Spec

\* Exactly one thread of the ring has the right to read and at most one the
\* right to write, the writer has the oldest block, and nobody is left in the
\* ring when MtDec_Code returns (MtDec.c:273, 581, 664, 777-793), for every
\* number of threads, stream and sequence of failures.
THEOREM RightsAreExclusive == Spec => []RightsExclusive
<1>1. Rights => RightsExclusive
  <2> SUFFICES ASSUME Rights PROVE RightsExclusive
    OBVIOUS
  <2>1. Runs => \E t \in Thread : \A u \in Thread : Reading(u) <=> u = t
    BY DEF Rights, OneReads
  <2>2. /\ \A t, u \in Thread : Writing(t) /\ Writing(u) => t = u
        /\ \A t, u \in Thread : Writing(t) /\ Busy(t) /\ Busy(u) => loc[t].block <= loc[u].block
    BY DEF Rights, OneWrites
  <2>3. ~ Runs => \A t \in Thread : ~ Busy(t) /\ ~ canRead[t] /\ ~ canWrite[t]
    BY DEF Rights, Clear
  <2>4. QED
    BY <2>1, <2>2, <2>3 DEF RightsExclusive, Runs
<1>2. QED
  BY <1>1, RightsInvariant, PTL

-----------------------------------------------------------------------------
(* What is read, held and decoded fits in what there is. *)

\* The caller's variables.
CallerTypes ==
  /\ input \in Inputs /\ calls \in 1 .. MaxCalls /\ result \in {"none", "ok", "error"}
  /\ tryMt \in BOOLEAN /\ tMode \in BOOLEAN /\ fresh \in BOOLEAN
  /\ failures \in 0 .. MaxFaults /\ failed \subseteq FaultKinds

\* What the reader of the ring keeps; no more is read than the stream has.
ReaderTypes ==
  /\ pos \in Nat /\ (main # "start" => pos <= Len(input.kind))
  /\ readRes \in {"ok", "read"} /\ cross \in Seq(Nat) /\ crossBlock \in BOOLEAN
  /\ startedLimit \in 1 .. ThreadsMax /\ outParsed \in Nat
  /\ progressRes \in {"ok", "progress"} /\ interrupt \in {None} \cup 1 .. blockIndex

\* What the writer of the ring keeps; no more is decoded than was read.
WriterTypes ==
  /\ wasInterrupted \in BOOLEAN /\ isAllocError \in BOOLEAN /\ overflow \in BOOLEAN
  /\ threadingError \in BOOLEAN
  /\ inProcessed \in Nat /\ inProcessed <= pos
  /\ filledStart \in Thread /\ numFilled \in Nat
  /\ filledSize \in [Thread -> Nat] /\ filledFirst \in [Thread -> Nat]
  /\ \A t \in Thread : filledFirst[t] <= filledSize[t]

\* The types of a thread's locals and of its coder.
IsLocal(l) ==
  /\ l.links \in Nat /\ l.got \in Seq(Nat) /\ l.size \in Nat /\ l.first \in Nat
  /\ l.first <= l.size
  /\ l.crossed \in BOOLEAN /\ l.needCode \in BOOLEAN /\ l.needWrite \in BOOLEAN
  /\ l.alloc \in BOOLEAN /\ l.over \in BOOLEAN /\ l.thread \in BOOLEAN /\ l.stop \in BOOLEAN
  /\ l.write \in BOOLEAN /\ l.code \in {"ok", "data", "memory"}

CoderFields == {"status", "inPre", "outPre", "data", "used"}
IsCoder(c) == DOMAIN c = CoderFields /\ c.inPre \in Nat /\ c.outPre \in Nat /\ c.used \in Nat

ThreadTypes ==
  /\ DOMAIN coder = Thread
  /\ \A t \in Thread : IsLocal(loc[t]) /\ IsCoder(coder[t])

\* A thread has a block; its work on it has begun.
IsBusy(at) == at \notin {"none", "waitRead", "ended"}
IsWork(at) == at \in {"code", "waitWrite", "write"}

\* What a thread at a place knows of its block; told when the ring knows of
\* an error.
LocalAt(at, l, c, told) ==
  /\ ~ IsBusy(at) => l = NoLoc
  /\ c.used <= l.size
  /\ at = "parse" => /\ Len(l.got) <= l.size
                     /\ IF l.links = 0 THEN l.size = Len(l.got) ELSE l.first <= l.size - Len(l.got)
  /\ at = "read" /\ l.links = 0 => l.size = 0
  /\ at \in {"read", "parse"} => ~ l.alloc /\ ~ l.over /\ ~ l.stop
  /\ at \in {"read", "parse", "hand", "code"} => l.code = "ok"
  /\ at \in {"read", "parse", "hand"} => ~ l.thread
  /\ at = "hand" \/ IsWork(at) => l.needWrite \/ l.alloc \/ l.stop
  /\ IsWork(at) => l.needWrite \/ l.finish
  /\ at = "hand" /\ (l.alloc \/ l.over) => l.finish
  /\ IsWork(at) /\ (l.alloc \/ l.over \/ l.thread \/ l.code = "memory") => l.finish
  /\ at = "hand" /\ ~ l.stop /\ ~ l.finish => c.status = "new"
  /\ IsWork(at) /\ ~ l.finish => c.status = "new"
  /\ at = "code" => ~ l.stop
  /\ at = "write" /\ ~ l.write => told

\* An error is known to the ring (MtDec.c:174-201).
Told == wasInterrupted \/ progressRes # "ok"
Locals == \A t \in Thread : LocalAt(pc[t], loc[t], coder[t], Told)

\* A thread that stops does so for a reason.
StopsFor(at, l, mark, res) == l.stop /\ IsBusy(at) => res # "ok" \/ (mark # None /\ mark < l.block)

\* What makes CDecoder::Code go on with one thread (Lzma2DecMt.c:918-950).
Flags == isAllocError \/ overflow \/ threadingError

\* An interruption is known to the ring, or the thread that will make it known
\* has the block and waits for the right to write.
Marks ==
  /\ \A t \in Thread : StopsFor(pc[t], loc[t], interrupt, progressRes)
  /\ main = "mt" /\ interrupt # None =>
       Told \/ \E u \in Thread : pc[u] = "waitWrite" /\ loc[u].code = "data" /\ loc[u].block <= interrupt
  /\ main = "mt" /\ Flags => wasInterrupted
  /\ main = "mt" /\ ~ Told => numFilled = 0

\* The blocks lie one after the other: block b begins at Q[b] or before.
FitAt(Q, at, l, reads, writes, b, ip, n, ps) ==
  LET p == Q[l.block]
  IN /\ writes \/ at = "write" => ip <= IF IsBusy(at) THEN p ELSE Q[b]
     /\ reads => Q[b] + n <= ps
     /\ at = "parse" => p + l.size <= ps
     /\ at \in {"read", "hand"} \/ (IsWork(at) /\ l.finish) => p + l.size + n <= ps
     /\ IsWork(at) /\ ~ l.finish => p + l.size <= Q[l.block + 1] /\ p + l.size <= ps

Fit(Q) ==
  \A t \in Thread :
    FitAt(Q, pc[t], loc[t], canRead[t], canWrite[t], blockIndex, inProcessed, Len(cross), pos)

Fits == \E Q \in [Nat -> Nat] : Fit(Q)

\* No thread reads any more.
Over == exitThread \/ pc[0] = "ended"
\* What is kept for the single thread.
KeptFits ==
  /\ numFilled \in {0, 1}
  /\ inProcessed + (IF numFilled = 1 THEN filledSize[filledStart] ELSE 0) + Len(cross) <= pos

\* One thread will go on.
Handover ==
  main = "mt" /\ Flags /\ progressRes = "ok" =>
    /\ \A t \in Thread : IsBusy(pc[t]) => pc[t] = "write" /\ ~ loc[t].write /\ loc[t].finish /\ numFilled = 0
    /\ (\A t \in Thread : ~ IsBusy(pc[t])) => Over /\ KeptFits

\* The single thread begins with what the ring kept.
Alone == main = "st" /\ tMode => KeptFits

\* A thread that may yet keep its block.
MayKeep(at, l) == at \in {"read", "parse", "hand"} \/ (IsWork(at) /\ (l.size # 0 \/ ~ l.finish))
Keepers == {t \in Thread : MayKeep(pc[t], loc[t])}
\* No more blocks are kept than threads were started.
FilledFit ==
  /\ main = "mt" /\ numFilled # 0 =>
       /\ Cardinality(Keepers) + numFilled <= numStarted
       /\ Over \/ (interrupt # None /\ interrupt < blockIndex)
  /\ numFilled <= ThreadsMax

Sizes ==
  /\ CallerTypes /\ ReaderTypes /\ WriterTypes /\ ThreadTypes
  /\ Locals /\ Marks /\ Fits /\ Handover /\ Alone /\ FilledFit

-----------------------------------------------------------------------------
(* What the operators of the model return. *)

\* A set of numbers that has a member has a least one.
LEMMA Least ==
  ASSUME NEW S, S \subseteq Nat, S # {}
  PROVE  \E m \in S : \A n \in S : m <= n
<1>1. PICK R : IsWellFoundedOn(R, Nat) /\ \A x, y \in Nat : <<x, y>> \in R <=> x < y
  <2>1. \A x, y \in Nat : <<x, y>> \in OpToRel(<, Nat) <=> x < y
    BY Zenon DEF OpToRel
  <2>2. QED
    BY <2>1, NatLessThanWellFounded, Zenon
<1>2. IsWellFoundedOn(R, Nat)
  BY <1>1
<1>3. \E m \in S : \A n \in S : ~ (<<n, m>> \in R)
  BY <1>2, WFMin, Zenon
<1>4. PICK m \in S : \A n \in S : ~ (<<n, m>> \in R)
  BY <1>3
<1>5. \A n \in S : ~ (n < m) /\ n \in Nat /\ m \in Nat
  BY <1>1, <1>4
<1> QED
  BY <1>5

\* Min is a member of the set and no more than any other (the cuts at a link's
\* size, MtDec.c:345-384).
LEMMA MinIsLeast ==
  ASSUME NEW S, S \subseteq Nat, S # {}
  PROVE  Min(S) \in S /\ \A n \in S : Min(S) <= n
<1>1. \E m \in S : \A n \in S : m <= n
  BY Least
<1> QED
  BY <1>1 DEF Min

\* Min of two numbers is the smaller one.
LEMMA MinOfTwo ==
  ASSUME NEW a \in Int, NEW b \in Int
  PROVE  Min({a, b}) = IF a <= b THEN a ELSE b
<1>1. \E x \in {a, b} : \A y \in {a, b} : x <= y
  OBVIOUS
<1>2. Min({a, b}) \in {a, b} /\ \A y \in {a, b} : Min({a, b}) <= y
  BY <1>1 DEF Min
<1> QED
  BY <1>2

\* Lzma2Dec_DecodeToDic uses and writes no more than it is given
\* (Lzma2Dec.c:178-303).
LEMMA DecodeFits ==
  ASSUME NEW kind, NEW w, NEW n \in Nat, Len(w) = n, NEW first, NEW room, NEW mark
  PROVE  Decode(kind, w, first, room, mark).used \in 0 .. n
<1> DEFINE S == {Len(w) + 1}
                  \cup {i \in 1 .. Len(w) : kind[w[i]] \in {"end", "alien", "bad"}}
                  \cup {i \in 1 .. Len(w) : i > room}
                  \cup {i \in 1 .. Len(w) : i = 1 /\ first /\ kind[w[i]] # "head"}
<1>1. S \subseteq 1 .. n + 1 /\ n + 1 \in S
  OBVIOUS
<1>2. Min(S) \in S
  <2>1. S \subseteq Nat /\ S # {}
    BY <1>1
  <2> QED
    BY <2>1, MinIsLeast, Zenon
<1>3. PICK stop \in 1 .. n + 1 : stop = Min(S)
  BY <1>1, <1>2
<1> HIDE DEF S
<1> DEFINE status == IF stop > room /\ ~ mark       THEN "full"
                     ELSE IF stop > Len(w)         THEN "more"
                     ELSE IF kind[w[stop]] = "end" THEN "mark"
                     ELSE "error"
<1>4. Decode(kind, w, first, room, mark).used = IF status = "mark" THEN stop ELSE stop - 1
  BY <1>3 DEF Decode, S
<1>5. status = "mark" => stop <= n
  OBVIOUS
<1> QED
  BY <1>4, <1>5

\* The parse callback takes no more than the link it is given
\* (Lzma2DecMt.c:237-412).
LEMMA ParseFits ==
  ASSUME NEW kind, NEW w, NEW n \in Nat, Len(w) = n, NEW from \in Nat, NEW limit, NEW partial,
         NEW r \in Parse(kind, w, from, limit, partial)
  PROVE  /\ r.size \in 0 .. n /\ r.out \in Nat
         /\ r.status \in {"more", "new", "mark", "notSpecified", "notFinished", "overflow"}
<1> DEFINE S == {Len(w) + 1} \cup {i \in 1 .. Len(w) : kind[w[i]] \in {"end", "alien"}}
                  \cup {i \in 1 .. Len(w) : from + i > limit}
<1>1. S \subseteq 1 .. n + 1 /\ n + 1 \in S
  OBVIOUS
<1>2. Min(S) \in S
  <2>1. S \subseteq Nat /\ S # {}
    BY <1>1
  <2> QED
    BY <2>1, MinIsLeast, Zenon
<1>3. PICK stop \in 1 .. n + 1 : stop = StopAt(kind, w, from, limit)
  BY <1>1, <1>2 DEF StopAt
<1> HIDE DEF S
<1>4. PICK status : status = StopStatus(kind, w, from, limit, partial)
  OBVIOUS
<1>5. /\ status \in {"more", "mark", "notSpecified", "notFinished", "overflow"}
      /\ status \in {"mark", "notSpecified", "overflow"} => stop <= n
  BY <1>3, <1>4 DEF StopStatus
<1> DEFINE last == IF status = "overflow" THEN stop ELSE stop - 1
           heads == {i \in 1 .. last : kind[w[i]] = "head" /\ from + i > 1}
           used == IF status \in {"mark", "notSpecified"} THEN stop ELSE stop - 1
           X == {[status |-> "new", size |-> i - 1, out |-> from + i - 1] : i \in heads}
           Y == [status |-> status, size |-> used, out |-> from + stop - 1]
<1>6. r \in X \cup (IF heads = {} \/ status \in {"mark", "notSpecified"} THEN {Y} ELSE {})
  BY <1>3, <1>4 DEF Parse
<1>7. last \in 0 .. n /\ used \in 0 .. n
  BY <1>5
<1>8. CASE r \in X
  <2>1. PICK i \in heads : r = [status |-> "new", size |-> i - 1, out |-> from + i - 1]
    BY <1>8
  <2>2. i \in 1 .. n
    BY <1>7, <2>1
  <2> QED
    BY <2>1, <2>2
<1>9. CASE r = Y
  BY <1>5, <1>7, <1>9
<1> QED
  BY <1>6, <1>8, <1>9

\* What is decoded of a block is in the block (MtDec.c:613-655).
LEMMA DataFits ==
  ASSUME NEW links, NEW first, NEW size \in Nat
  PROVE  Len(Data(links, first, size)) = size
<1>1. CASE size = 0
  BY <1>1 DEF Data
<1>2. CASE size # 0
  <2>1. PICK x : Data(links, first, size) = SubSeq(x, 1, size)
    BY <1>2 DEF Data
  <2> QED
    BY <2>1
<1> QED
  BY <1>1, <1>2

-----------------------------------------------------------------------------
(* A thread goes on with its block. *)

\* What the step of a thread that goes on with its block leaves and does.
QuietStep(t) ==
  /\ OnlyThread(t) /\ IsLocal(loc'[t]) /\ DOMAIN coder' = Thread /\ IsCoder(coder'[t])
  /\ \A u \in Thread \ {t} : coder'[u] = coder[u]
  /\ pc[t] \in {"read", "parse", "code"} /\ pc'[t] \in {"read", "parse", "hand", "waitWrite"}
  /\ pc'[t] = "waitWrite" => MayKeep(pc'[t], loc'[t]) = MayKeep(pc[t], loc[t])
  /\ pc[t] # "code" <=> pc'[t] # "waitWrite"
  /\ loc'[t].block = loc[t].block
  /\ \A told \in BOOLEAN : LocalAt(pc'[t], loc'[t], coder'[t], told)
  /\ StopsFor(pc'[t], loc'[t], interrupt, progressRes')
  /\ CallerTypes' /\ pos' \in Nat /\ pos <= pos' /\ pos' <= Len(input.kind)
  /\ readRes' \in {"ok", "read"} /\ cross' \in Seq(Nat) /\ crossBlock' \in BOOLEAN
  /\ outParsed' \in Nat /\ progressRes' \in {"ok", "progress"}
  /\ \A Q \in [Nat -> Nat] :
       FitAt(Q, pc[t], loc[t], canRead[t], canWrite[t], blockIndex, inProcessed, Len(cross), pos)
       => FitAt(Q, pc'[t], loc'[t], canRead[t], canWrite[t], blockIndex, inProcessed, Len(cross'), pos')
  /\ progressRes # "ok" => progressRes' # "ok"
  /\ \/ interrupt' = interrupt
     \/ /\ pc'[t] = "waitWrite" /\ loc'[t].code = "data" /\ interrupt' = loc[t].block
        /\ interrupt = None \/ loc[t].block < interrupt
  /\ pc[t] = "code" => cross' = cross /\ pos' = pos
  /\ UNCHANGED <<main, input, blockIndex, numStarted, startedLimit, writerVars, canRead, canWrite,
                 filledVars>>

\* Reading more does not concern a thread that does not read (MtDec.c:345-384).
LEMMA FitLater ==
  ASSUME NEW Q \in [Nat -> Nat], NEW at, NEW l, l.block \in Nat, l.size \in Nat, NEW writes, NEW b, NEW ip \in Nat,
         NEW n, NEW m, NEW ps \in Nat, NEW qs \in Nat, ps <= qs,
         at \notin {"read", "parse", "hand"}, ~ (l.finish /\ IsWork(at)),
         FitAt(Q, at, l, FALSE, writes, b, ip, n, ps)
  PROVE  FitAt(Q, at, l, FALSE, writes, b, ip, m, qs)
<1>1. Q[l.block] \in Nat
  OBVIOUS
<1> QED
  BY <1>1 DEF FitAt

\* Sizes is kept by a step of a thread that goes on with its block: reading,
\* parsing and decoding (MtDec.c:307-524, 594-659).
LEMMA QuietSizes ==
  ASSUME Rights, Sizes, NEW t \in Thread, QuietStep(t)
  PROVE  Sizes'
<1>0. /\ RingTypes /\ CallerTypes /\ ReaderTypes /\ WriterTypes /\ ThreadTypes
      /\ Locals /\ Marks /\ Fits /\ Handover /\ Alone /\ FilledFit
  BY DEF Rights, Sizes
<1>1. Busy(t) /\ IsBusy(pc[t]) /\ IsBusy(pc'[t]) /\ pc[t] # "write" /\ pc'[t] # "write" /\ main = "mt" /\ Runs /\ main' = "mt"
  <2>1. Busy(t) /\ IsBusy(pc[t]) /\ IsBusy(pc'[t]) /\ pc[t] # "write" /\ pc'[t] # "write"
    BY DEF QuietStep, Busy, IsBusy
  <2>2. Runs
    BY <2>1 DEF Rights, Clear
  <2> QED
    BY <2>1, <2>2 DEF Runs, QuietStep
<1>2. \A u \in Thread \ {t} : pc'[u] = pc[u] /\ loc'[u] = loc[u] /\ coder'[u] = coder[u]
  BY DEF QuietStep, OnlyThread
<1>3. /\ wasInterrupted' = wasInterrupted /\ isAllocError' = isAllocError /\ overflow' = overflow
      /\ threadingError' = threadingError /\ exitThread' = exitThread /\ inProcessed' = inProcessed
      /\ filledStart' = filledStart /\ numFilled' = numFilled /\ filledSize' = filledSize
      /\ filledFirst' = filledFirst /\ blockIndex' = blockIndex /\ numStarted' = numStarted
      /\ startedLimit' = startedLimit /\ canRead' = canRead /\ canWrite' = canWrite
      /\ input' = input
  BY DEF QuietStep, writerVars, filledVars
<1>4. CallerTypes'
  BY DEF QuietStep
<1>5. loc[t].block \in 1 .. blockIndex - 1
  BY <1>1 DEF Rights, Blocks
<1>6. ReaderTypes'
  <2>1. interrupt' \in {None} \cup 1 .. blockIndex
    BY <1>0, <1>5 DEF QuietStep, ReaderTypes, RingTypes
  <2> QED
    BY <1>0, <1>1, <1>3, <2>1 DEF QuietStep, ReaderTypes
<1>7. WriterTypes'
  <2>1. inProcessed <= pos'
    BY <1>0 DEF QuietStep, WriterTypes, ReaderTypes
  <2> QED
    BY <1>0, <1>3, <2>1 DEF WriterTypes
<1>8. ThreadTypes'
  BY <1>0, <1>2 DEF ThreadTypes, QuietStep
<1>9. Told \in BOOLEAN /\ Told' \in BOOLEAN /\ (Told => Told')
  BY <1>3 DEF Told, QuietStep
<1>10. Locals'
  <2>1. LocalAt(pc'[t], loc'[t], coder'[t], Told')
    BY <1>9 DEF QuietStep
  <2>2. ASSUME NEW u \in Thread \ {t} PROVE LocalAt(pc'[u], loc'[u], coder'[u], Told')
    <3>1. LocalAt(pc[u], loc[u], coder[u], Told)
      BY <1>0 DEF Locals
    <3>2. LocalAt(pc[u], loc[u], coder[u], Told')
      BY <1>9, <3>1 DEF LocalAt
    <3> QED
      BY <1>2, <3>2
  <2> QED
    BY <2>1, <2>2 DEF Locals
<1>11. Marks'
  <2>1. /\ \A u \in Thread : StopsFor(pc[u], loc[u], interrupt, progressRes)
        /\ interrupt # None =>
             Told \/ \E u \in Thread : pc[u] = "waitWrite" /\ loc[u].code = "data" /\ loc[u].block <= interrupt
        /\ Flags => wasInterrupted
        /\ ~ Told => numFilled = 0
    BY <1>0, <1>1 DEF Marks
  <2>2. Flags' = Flags
    BY <1>3 DEF Flags
  <2>3. CASE interrupt' = interrupt
    <3>1. ASSUME NEW u \in Thread PROVE StopsFor(pc'[u], loc'[u], interrupt, progressRes')
      <4>1. CASE u = t
        BY <4>1 DEF QuietStep
      <4>2. CASE u # t
        BY <1>2, <2>1, <4>2 DEF QuietStep, StopsFor
      <4> QED
        BY <4>1, <4>2
    <3>2. ASSUME NEW u \in Thread, pc[u] = "waitWrite"
          PROVE  pc'[u] = "waitWrite" /\ loc'[u] = loc[u]
      BY <1>2, <3>2 DEF QuietStep
    <3> QED
      BY <1>3, <1>9, <2>1, <2>2, <2>3, <3>1, <3>2 DEF Marks
  <2>4. CASE interrupt' = loc[t].block /\ pc'[t] = "waitWrite" /\ loc'[t].code = "data"
             /\ (interrupt = None \/ loc[t].block < interrupt)
    <3> PICK m : m = loc[t].block
      OBVIOUS
    <3>0. m \in Nat /\ m # None /\ interrupt \in {None} \cup Nat
      BY <1>0, <1>5 DEF RingTypes, ReaderTypes, None
    <3>1. ASSUME NEW u \in Thread PROVE StopsFor(pc'[u], loc'[u], m, progressRes')
      <4>0. loc'[u].block \in Nat
        BY <1>0, <1>2 DEF RingTypes, QuietStep
      <4>1. CASE u = t
        BY <2>4, <4>1, <4>0, <3>0 DEF QuietStep, StopsFor
      <4>2. CASE u # t
        <5>1. StopsFor(pc'[u], loc'[u], interrupt, progressRes')
          BY <1>2, <2>1, <4>2 DEF QuietStep, StopsFor
        <5> QED
          BY <2>4, <5>1, <4>0, <3>0 DEF StopsFor
      <4> QED
        BY <4>1, <4>2
    <3>2. pc'[t] = "waitWrite" /\ loc'[t].code = "data" /\ loc'[t].block <= interrupt'
      BY <2>4, <3>0 DEF QuietStep
    <3>3. \A u \in Thread : StopsFor(pc'[u], loc'[u], interrupt', progressRes')
      BY <2>4, <3>1
    <3> QED
      BY <1>3, <1>9, <2>1, <2>2, <3>2, <3>3 DEF Marks
  <2> QED
    BY <2>3, <2>4 DEF QuietStep
<1>12. Fits'
  <2>1. PICK Q \in [Nat -> Nat] : Fit(Q)
    BY <1>0 DEF Fits
  <2>2. \A u \in Thread :
          FitAt(Q, pc[u], loc[u], canRead[u], canWrite[u], blockIndex, inProcessed, Len(cross), pos)
    BY <2>1 DEF Fit
  <2>3. FitAt(Q, pc'[t], loc'[t], canRead[t], canWrite[t], blockIndex, inProcessed, Len(cross'), pos')
    BY <2>1, <2>2 DEF QuietStep
  <2>4. ASSUME NEW u \in Thread \ {t}
        PROVE  FitAt(Q, pc[u], loc[u], canRead[u], canWrite[u], blockIndex, inProcessed, Len(cross'), pos')
    <3>1. CASE pc[t] = "code"
      BY <2>2, <3>1 DEF QuietStep
    <3>2. CASE pc[t] # "code"
      <4>1. Reading(t)
        BY <3>2 DEF QuietStep, Reading
      <4>2. ~ Reading(u)
        BY <4>1 DEF Rights, OneReads
      <4>3. ~ canRead[u] /\ pc[u] \notin {"read", "parse", "hand"} /\ ~ (loc[u].finish /\ IsWork(pc[u]))
        BY <4>2 DEF Reading, IsWork
      <4>4. canRead[u] = FALSE
        BY <1>0, <4>3 DEF RingTypes
      <4>5. FitAt(Q, pc[u], loc[u], FALSE, canWrite[u], blockIndex, inProcessed, Len(cross), pos)
        BY <2>2, <4>4
      <4>6. /\ loc[u].block \in Nat /\ loc[u].size \in Nat /\ inProcessed \in Nat /\ pos \in Nat
            /\ pos' \in Nat /\ pos <= pos'
        BY <1>0 DEF RingTypes, ThreadTypes, IsLocal, WriterTypes, ReaderTypes, QuietStep
      <4>7. FitAt(Q, pc[u], loc[u], FALSE, canWrite[u], blockIndex, inProcessed, Len(cross'), pos')
        BY <4>3, <4>5, <4>6, FitLater, Zenon
      <4> QED
        BY <4>4, <4>7
    <3> QED
      BY <3>1, <3>2
  <2>5. ASSUME NEW u \in Thread
        PROVE  FitAt(Q, pc'[u], loc'[u], canRead'[u], canWrite'[u], blockIndex', inProcessed', Len(cross'), pos')
    <3>1. CASE u = t
      BY <1>3, <2>3, <3>1
    <3>2. CASE u # t
      <4>1. u \in Thread \ {t}
        BY <3>2
      <4>2. FitAt(Q, pc[u], loc[u], canRead[u], canWrite[u], blockIndex, inProcessed, Len(cross'), pos')
        BY <2>4, <4>1, Zenon
      <4> QED
        BY <1>2, <1>3, <4>1, <4>2
    <3> QED
      BY <3>1, <3>2
  <2>6. Fit(Q)'
    BY <2>5 DEF Fit
  <2> QED
    BY <2>1, <2>6 DEF Fits
<1>13. Handover' /\ Alone'
  <2>1. ~ (Flags /\ progressRes = "ok")
    BY <1>0, <1>1 DEF Handover
  <2>2. ~ (Flags' /\ progressRes' = "ok")
    BY <1>3, <2>1 DEF Flags, QuietStep
  <2> QED
    BY <1>1, <2>2 DEF Handover, Alone
<1>14. FilledFit'
  <2>1. Keepers' = Keepers
    <3>1. MayKeep(pc'[t], loc'[t]) = MayKeep(pc[t], loc[t])
      BY DEF QuietStep, MayKeep
    <3>2. \A u \in Thread : MayKeep(pc'[u], loc'[u]) = MayKeep(pc[u], loc[u])
      BY <1>2, <3>1
    <3> QED
      BY <3>2 DEF Keepers
  <2>2. Over' = Over
    <3>1. 0 \in Thread
      BY MtDecAssumption DEF Thread
    <3>2. pc'[0] = "ended" <=> pc[0] = "ended"
      BY <1>1, <1>2, <3>1 DEF IsBusy
    <3> QED
      BY <1>3, <3>2 DEF Over
  <2>3. interrupt # None /\ interrupt < blockIndex => interrupt' # None /\ interrupt' < blockIndex
    <3>1. PICK m : m = loc[t].block
      OBVIOUS
    <3>2. m \in Nat /\ blockIndex \in Nat /\ m < blockIndex /\ m # None
      BY <1>0, <1>5, <3>1 DEF RingTypes, None
    <3>3. interrupt' = interrupt \/ interrupt' = m
      BY <3>1 DEF QuietStep
    <3> QED
      BY <3>2, <3>3
  <2> QED
    BY <1>0, <1>1, <1>3, <2>1, <2>2, <2>3 DEF FilledFit
<1> QED
  BY <1>4, <1>6, <1>7, <1>8, <1>10, <1>11, <1>12, <1>13, <1>14 DEF Sizes

\* The inputs of a call are streams of units (Lzma2Decoder.cpp:84-170).
LEMMA InputTypes ==
  ASSUME CallerTypes
  PROVE  input.kind \in Seq(Kinds) /\ input.outSize \in Nat /\ input.finish \in BOOLEAN /\ Len(input.kind) \in Nat
<1>1. input.kind \in Seq(Kinds) /\ input.outSize \in Nat /\ input.finish \in BOOLEAN
  BY MtDecAssumption DEF CallerTypes
<1> QED
  BY <1>1

\* What fails is counted (Failing, Fatal).
LEMMA FailingTypes ==
  ASSUME CallerTypes, NEW n \in Nat, Failing(n)
  PROVE  failures' \in 0 .. MaxFaults
  BY MtDecAssumption DEF CallerTypes, Failing

\* A link that cannot be allocated ends the reading of the block
\* (MtDec.c:307-318).
LEMMA NoLinkQuiet ==
  ASSUME Rights, Sizes, NEW t \in Thread, NoLink(t)
  PROVE  QuietStep(t)
<1>0. RingTypes /\ CallerTypes /\ ReaderTypes /\ WriterTypes /\ ThreadTypes /\ Locals /\ Marks
  BY DEF Rights, Sizes
<1>1. OnlyThread(t) /\ loc'[t].block = loc[t].block
  BY <1>0, NoLinkEffect
<1>2. PICK l, k : /\ l = loc[t] /\ k = loc'[t] /\ k.block = l.block /\ k.links = l.links
                  /\ k.got = l.got /\ k.size = l.size
                  /\ k.first = l.first /\ k.crossed = l.crossed /\ k.finish
                  /\ k.needCode = l.needCode
                  /\ k.needWrite = l.needWrite /\ k.alloc /\ k.finish \in BOOLEAN
                  /\ k.alloc \in BOOLEAN
                  /\ k.over = l.over /\ k.thread = l.thread
                  /\ k.stop = l.stop /\ k.code = l.code /\ k.write = l.write
  <2>1. PICK l, k : l = loc[t] /\ k = loc'[t]
    OBVIOUS
  <2>2. k = [l EXCEPT !.finish = TRUE, !.alloc = TRUE] /\ DOMAIN l = LocFields
    BY <1>0, <2>1 DEF NoLink, RingTypes
  <2>3. /\ l = loc[t] /\ k = loc'[t] /\ k.block = l.block /\ k.links = l.links /\ k.got = l.got
        /\ k.size = l.size
        /\ k.first = l.first /\ k.crossed = l.crossed /\ k.finish /\ k.needCode = l.needCode
        /\ k.needWrite = l.needWrite /\ k.alloc /\ k.finish \in BOOLEAN /\ k.alloc \in BOOLEAN
        /\ k.over = l.over /\ k.thread = l.thread
        /\ k.stop = l.stop /\ k.code = l.code /\ k.write = l.write
    BY <1>0, <2>1, <2>2 DEF LocFields
  <2> QED
    BY <2>3, Zenon
<1>3. IsLocal(l) /\ IsCoder(coder[t]) /\ LocalAt("read", l, coder[t], Told)
      /\ StopsFor("read", l, interrupt, progressRes)
  BY <1>0, <1>2 DEF ThreadTypes, Locals, Marks, NoLink
<1>4. pc[t] = "read" /\ pc'[t] = "hand" /\ coder' = coder
  BY <1>0 DEF NoLink, Goto, RingTypes
<1>5. IsLocal(k)
  BY <1>2, <1>3 DEF IsLocal
<1>6. \A told \in BOOLEAN : LocalAt("hand", k, coder[t], told)
  BY <1>2, <1>3 DEF LocalAt, IsBusy, IsWork
<1>7. StopsFor("hand", k, interrupt, progressRes)
  BY <1>2, <1>3 DEF StopsFor, IsBusy
<1>8. \A Q \in [Nat -> Nat] :
         FitAt(Q, "read", l, canRead[t], canWrite[t], blockIndex, inProcessed, Len(cross), pos)
         => FitAt(Q, "hand", k, canRead[t], canWrite[t], blockIndex, inProcessed, Len(cross), pos)
  BY <1>2 DEF FitAt, IsBusy, IsWork
<1>9. CallerTypes'
  <2>1. failures' \in 0 .. MaxFaults
    BY <1>0, FailingTypes DEF NoLink
  <2> QED
    BY <1>0, <2>1 DEF CallerTypes, NoLink, callerVars, stVars
<1>10. UNCHANGED <<readerVars, csVars, main, input, writerVars, canRead, canWrite, filledVars>>
  BY DEF NoLink, callerVars
<1>11. /\ pos' \in Nat /\ pos <= pos' /\ pos' <= Len(input.kind) /\ readRes' \in {"ok", "read"}
       /\ cross' \in Seq(Nat)
       /\ crossBlock' \in BOOLEAN /\ outParsed' \in Nat /\ progressRes' \in {"ok", "progress"}
       /\ cross' = cross /\ pos' = pos /\ blockIndex' = blockIndex /\ numStarted' = numStarted
       /\ startedLimit' = startedLimit /\ interrupt' = interrupt /\ progressRes' = progressRes
  <2>1. main # "start"
    BY <1>4 DEF Rights, Clear, Busy, Runs
  <2> QED
    BY <1>0, <1>10, <2>1 DEF ReaderTypes, readerVars, csVars
<1>12. DOMAIN coder' = Thread /\ IsCoder(coder'[t]) /\ \A u \in Thread \ {t} : coder'[u] = coder[u]
  BY <1>0, <1>3, <1>4 DEF ThreadTypes
<1> QED
  BY <1>1, <1>2, <1>4, <1>5, <1>6, <1>7, <1>8, <1>9, <1>10, <1>11, <1>12 DEF QuietStep

\* A link takes no more than the cross block holds (MtDec.c:335-344).
LEMMA TakeCrossQuiet ==
  ASSUME Rights, Sizes, NEW t \in Thread, TakeCross(t)
  PROVE  QuietStep(t)
<1>0. RingTypes /\ CallerTypes /\ ReaderTypes /\ WriterTypes /\ ThreadTypes /\ Locals /\ Marks
  BY DEF Rights, Sizes
<1>1. OnlyThread(t) /\ loc'[t].block = loc[t].block
  BY <1>0, TakeCrossEffect
<1>2. PICK l, k : /\ l = loc[t] /\ k = loc'[t] /\ k.block = l.block /\ k.links = l.links
                  /\ k.got = cross /\ k.size = Len(cross)
                  /\ k.first = Len(cross) /\ k.crossed /\ k.crossed \in BOOLEAN
                  /\ k.finish = l.finish /\ k.needCode = l.needCode
                  /\ k.needWrite = l.needWrite /\ k.alloc = l.alloc
                  /\ k.over = l.over /\ k.thread = l.thread
                  /\ k.stop = l.stop /\ k.code = l.code /\ k.write = l.write
  <2>1. PICK l, k : l = loc[t] /\ k = loc'[t]
    OBVIOUS
  <2>2. k = [l EXCEPT !.got = cross, !.crossed = TRUE, !.size = Len(cross), !.first = Len(cross)] /\ DOMAIN l = LocFields
    BY <1>0, <2>1 DEF TakeCross, RingTypes
  <2>3. /\ l = loc[t] /\ k = loc'[t] /\ k.block = l.block /\ k.links = l.links /\ k.got = cross
        /\ k.size = Len(cross)
        /\ k.first = Len(cross) /\ k.crossed /\ k.crossed \in BOOLEAN
        /\ k.finish = l.finish /\ k.needCode = l.needCode
        /\ k.needWrite = l.needWrite /\ k.alloc = l.alloc
        /\ k.over = l.over /\ k.thread = l.thread
        /\ k.stop = l.stop /\ k.code = l.code /\ k.write = l.write
    BY <1>0, <2>1, <2>2 DEF LocFields
  <2> QED
    BY <2>3, Zenon
<1>3. IsLocal(l) /\ IsCoder(coder[t]) /\ LocalAt("read", l, coder[t], Told)
      /\ StopsFor("read", l, interrupt, progressRes) /\ l.links = 0
  BY <1>0, <1>2 DEF ThreadTypes, Locals, Marks, TakeCross
<1>4. pc[t] = "read" /\ pc'[t] = "parse" /\ coder' = coder
  BY <1>0 DEF TakeCross, Goto, RingTypes
<1>a. PICK n \in Nat : n = Len(cross)
  BY <1>0 DEF ReaderTypes
<1>5. IsLocal(k)
  BY <1>0, <1>2, <1>3, <1>a DEF IsLocal, ReaderTypes
<1>6. \A told \in BOOLEAN : LocalAt("parse", k, coder[t], told)
  BY <1>2, <1>3, <1>a DEF LocalAt, IsBusy, IsWork, IsLocal, IsCoder
<1>7. StopsFor("parse", k, interrupt, progressRes)
  BY <1>2, <1>3 DEF StopsFor, IsBusy
<1>8. \A Q \in [Nat -> Nat] :
         FitAt(Q, "read", l, canRead[t], canWrite[t], blockIndex, inProcessed, Len(cross), pos)
         => FitAt(Q, "parse", k, canRead[t], canWrite[t], blockIndex, inProcessed, Len(cross), pos)
  <2> SUFFICES ASSUME NEW Q \in [Nat -> Nat],
                      FitAt(Q, "read", l, canRead[t], canWrite[t], blockIndex, inProcessed, n, pos)
               PROVE  FitAt(Q, "parse", k, canRead[t], canWrite[t], blockIndex, inProcessed, n, pos)
    BY <1>a
  <2>1. l.size = 0 /\ k.size = n /\ Q[l.block] \in Nat
    BY <1>0, <1>2, <1>3, <1>a DEF LocalAt, RingTypes
  <2> QED
    BY <1>2, <2>1 DEF FitAt, IsBusy, IsWork
<1>9. CallerTypes'
  BY <1>0 DEF CallerTypes, TakeCross, callerVars, stVars, faultVars
<1>10. UNCHANGED <<readerVars, csVars, main, input, writerVars, canRead, canWrite, filledVars>>
  BY DEF TakeCross, callerVars
<1>11. /\ pos' \in Nat /\ pos <= pos' /\ pos' <= Len(input.kind) /\ readRes' \in {"ok", "read"}
       /\ cross' \in Seq(Nat)
       /\ crossBlock' \in BOOLEAN /\ outParsed' \in Nat /\ progressRes' \in {"ok", "progress"}
       /\ cross' = cross /\ pos' = pos /\ blockIndex' = blockIndex /\ numStarted' = numStarted
       /\ startedLimit' = startedLimit /\ interrupt' = interrupt /\ progressRes' = progressRes
  <2>1. main # "start"
    BY <1>4 DEF Rights, Clear, Busy, Runs
  <2> QED
    BY <1>0, <1>10, <2>1 DEF ReaderTypes, readerVars, csVars
<1>12. DOMAIN coder' = Thread /\ IsCoder(coder'[t]) /\ \A u \in Thread \ {t} : coder'[u] = coder[u]
  BY <1>0, <1>3, <1>4 DEF ThreadTypes
<1> QED
  BY <1>1, <1>2, <1>4, <1>5, <1>6, <1>7, <1>8, <1>9, <1>10, <1>11, <1>12 DEF QuietStep

\* What may fail either fails or does not.
LEMMA MayFailIs ==
  ASSUME NEW k, NEW f \in MayFail(k)
  PROVE  f \in BOOLEAN /\ Count(f) \in Nat
  BY DEF MayFail, Count

\* A read returns as many units as it says.
LEMMA UnitsType ==
  ASSUME NEW a \in Nat, NEW n \in Nat
  PROVE  Units(a, n) \in Seq(Nat) /\ Len(Units(a, n)) = n
  BY DEF Units

\* A link is read from where the last one ended (MtDec.c:345-384).
LEMMA ReadStreamQuiet ==
  ASSUME Rights, Sizes, NEW t \in Thread, ReadStream(t)
  PROVE  QuietStep(t)
<1>0. RingTypes /\ CallerTypes /\ ReaderTypes /\ WriterTypes /\ ThreadTypes /\ Locals /\ Marks
  BY DEF Rights, Sizes
<1>1. OnlyThread(t) /\ loc'[t].block = loc[t].block
  BY <1>0, ReadStreamEffect
<1>a. main # "start" /\ pc[t] = "read" /\ pos \in Nat /\ Len(input.kind) \in Nat /\ pos <= Len(input.kind)
  <2>1. pc[t] = "read"
    BY DEF ReadStream
  <2>2. main # "start"
    BY <2>1 DEF Rights, Clear, Busy, Runs
  <2> QED
    BY <1>0, <2>1, <2>2, InputTypes DEF ReaderTypes
<1>b. PICK e \in BOOLEAN, f \in BOOLEAN, n \in Nat :
        /\ n <= Len(input.kind) - pos
        /\ Failing(Count(e /\ readRes = "ok") + Count(f))
        /\ Fatal(Kind(e, "read") \cup Kind(f, "progress"))
        /\ Progress(f)
        /\ pos' = pos + n
        /\ readRes' = IF e THEN "read" ELSE readRes
        /\ LET finish == e \/ n # InBufSize
               stop   == (n > 0 \/ loc[t].crossed) /\ (progressRes' # "ok" \/ Interrupted(t))
           IN /\ PutLink(t, Units(pos, n))
              /\ loc' = [loc EXCEPT ![t].got = Units(pos, n), ![t].crossed = FALSE,
                                    ![t].size = @ + n,
                                    ![t].first = IF loc[t].links = 0 THEN n ELSE @,
                                    ![t].finish = finish,
                                    ![t].stop = @ \/ stop]
              /\ Goto(t, IF stop THEN "hand" ELSE "parse")
  <2>1. PICK e \in (IF readRes = "read" THEN {TRUE} ELSE MayFail("read")), f \in MayFail("progress"),
        n \in 0 .. Min({InBufSize, Rest}) :
       /\ IF e THEN readRes = "read" => n = 0 ELSE n = Min({InBufSize, Rest})
       /\ f => n > 0 \/ loc[t].crossed
       /\ Failing(Count(e /\ readRes = "ok") + Count(f))
       /\ Fatal(Kind(e, "read") \cup Kind(f, "progress"))
       /\ Progress(f)
       /\ pos' = pos + n
       /\ readRes' = IF e THEN "read" ELSE readRes
       /\ LET finish == e \/ n # InBufSize
              stop   == (n > 0 \/ loc[t].crossed) /\ (progressRes' # "ok" \/ Interrupted(t))
          IN /\ readWasFinished' = (readWasFinished \/ finish)
             /\ PutLink(t, Units(pos, n))
             /\ loc' = [loc EXCEPT ![t].got = Units(pos, n), ![t].crossed = FALSE,
                                   ![t].size = @ + n,
                                   ![t].first = IF loc[t].links = 0 THEN n ELSE @,
                                   ![t].finish = finish,
                                   ![t].stop = @ \/ stop]
             /\ Goto(t, IF stop THEN "hand" ELSE "parse")
    BY DEF ReadStream
  <2>2. PICK m \in Int : m = Rest /\ m = Len(input.kind) - pos
    BY <1>a, SMTT(30) DEF Rest
  <2>3. Min({InBufSize, m}) \in Int /\ Min({InBufSize, m}) <= m
    <3>1. InBufSize \in Int
      BY MtDecAssumption
    <3>2. Min({InBufSize, m}) = IF InBufSize <= m THEN InBufSize ELSE m
      BY <3>1, MinOfTwo
    <3> QED
      BY <3>1, <3>2
  <2>4. n \in Nat /\ n <= Len(input.kind) - pos
    BY <2>2, <2>3
  <2>5. e \in BOOLEAN /\ f \in BOOLEAN
    BY DEF MayFail
  <2> QED
    BY <2>1, <2>4, <2>5
<1> DEFINE finish == e \/ n # InBufSize
           stop   == (n > 0 \/ loc[t].crossed) /\ (progressRes' # "ok" \/ Interrupted(t))
<1>c. PICK h, g, w : /\ h \in BOOLEAN /\ g \in BOOLEAN /\ h = stop /\ g = finish
                     /\ w = Units(pos, n) /\ w \in Seq(Nat) /\ Len(w) = n
  <2>1. Units(pos, n) \in Seq(Nat) /\ Len(Units(pos, n)) = n
    BY <1>a, UnitsType
  <2>2. stop \in BOOLEAN /\ finish \in BOOLEAN
    BY <1>0 DEF ThreadTypes, IsLocal
  <2> QED
    BY <2>1, <2>2
<1>2. PICK l, k : /\ l = loc[t] /\ k = loc'[t] /\ k.block = l.block /\ k.links = l.links
                  /\ k.got = w /\ k.size = l.size + n
                  /\ k.first = (IF l.links = 0 THEN n ELSE l.first) /\ k.crossed = FALSE
                  /\ k.finish = g /\ k.needCode = l.needCode
                  /\ k.needWrite = l.needWrite /\ k.alloc = l.alloc
                  /\ k.over = l.over /\ k.thread = l.thread
                  /\ k.stop = (l.stop \/ h) /\ k.code = l.code /\ k.write = l.write
  <2>1. PICK l, k : l = loc[t] /\ k = loc'[t]
    OBVIOUS
  <2>2. k = [l EXCEPT !.got = w, !.crossed = FALSE, !.size = l.size + n, !.first = IF l.links = 0 THEN n ELSE l.first,
                      !.finish = g, !.stop = l.stop \/ h] /\ DOMAIN l = LocFields
    BY <1>0, <1>b, <1>c, <2>1 DEF RingTypes
  <2>3. /\ l = loc[t] /\ k = loc'[t] /\ k.block = l.block /\ k.links = l.links /\ k.got = w
        /\ k.size = l.size + n
        /\ k.first = (IF l.links = 0 THEN n ELSE l.first) /\ k.crossed = FALSE
        /\ k.finish = g /\ k.needCode = l.needCode
        /\ k.needWrite = l.needWrite /\ k.alloc = l.alloc
        /\ k.over = l.over /\ k.thread = l.thread
        /\ k.stop = (l.stop \/ h) /\ k.code = l.code /\ k.write = l.write
    BY <1>0, <2>1, <2>2 DEF LocFields
  <2> QED
    BY <2>3, Zenon
<1> HIDE DEF finish, stop
<1>3. IsLocal(l) /\ IsCoder(coder[t]) /\ LocalAt("read", l, coder[t], Told)
      /\ StopsFor("read", l, interrupt, progressRes)
  BY <1>0, <1>2, <1>a DEF ThreadTypes, Locals, Marks
<1>4. PICK at \in {"hand", "parse"} : pc'[t] = at /\ (at = "hand" <=> h)
  BY <1>0, <1>b, <1>c DEF Goto, RingTypes, stop
<1>d. coder' = coder
  BY DEF ReadStream
<1>5. IsLocal(k)
  <2>1. l.links = 0 => l.size = 0
    BY <1>3 DEF LocalAt
  <2>2. l.size \in Nat /\ l.first \in Nat /\ l.first <= l.size
    BY <1>3 DEF IsLocal
  <2>3. k.size \in Nat /\ k.first \in Nat /\ k.first <= k.size
    BY <1>2, <2>1, <2>2
  <2> QED
    BY <1>2, <1>3, <1>c, <2>3 DEF IsLocal
<1>6. \A told \in BOOLEAN : LocalAt(at, k, coder[t], told)
  BY <1>2, <1>3, <1>4, <1>c DEF LocalAt, IsBusy, IsWork, IsLocal, IsCoder
<1>e. PICK b \in Nat : b = l.block
  BY <1>0, <1>2 DEF RingTypes
<1>7. StopsFor(at, k, interrupt, progressRes')
  <2>1. h => progressRes' # "ok" \/ (interrupt # None /\ interrupt < b)
    BY <1>0, <1>2, <1>c, <1>e DEF Interrupted, stop, ReaderTypes, RingTypes, None
  <2>2. progressRes # "ok" => progressRes' # "ok"
    BY <1>b DEF Progress
  <2>3. l.stop => progressRes # "ok" \/ (interrupt # None /\ interrupt < b)
    BY <1>3, <1>e DEF StopsFor, IsBusy
  <2>4. k.stop => progressRes' # "ok" \/ (interrupt # None /\ interrupt < b)
    BY <1>2, <2>1, <2>2, <2>3
  <2> QED
    BY <1>2, <1>e, <2>4 DEF StopsFor
<1>8. \A Q \in [Nat -> Nat] :
         FitAt(Q, "read", l, canRead[t], canWrite[t], blockIndex, inProcessed, Len(cross), pos)
         => FitAt(Q, at, k, canRead[t], canWrite[t], blockIndex, inProcessed, Len(cross), pos + n)
  <2>1. PICK c \in Nat : c = Len(cross)
    BY <1>0 DEF ReaderTypes
  <2> SUFFICES ASSUME NEW Q \in [Nat -> Nat],
                      FitAt(Q, "read", l, canRead[t], canWrite[t], blockIndex, inProcessed, c, pos)
               PROVE  FitAt(Q, at, k, canRead[t], canWrite[t], blockIndex, inProcessed, c, pos + n)
    BY <2>1
  <2>2. l.size \in Nat /\ Q[l.block] \in Nat /\ Q[blockIndex] \in Nat /\ pos \in Nat
    BY <1>0, <1>2, <1>3 DEF RingTypes, IsLocal, ReaderTypes
  <2> QED
    BY <1>2, <1>4, <2>2 DEF FitAt, IsBusy, IsWork
<1>9. CallerTypes'
  <2>1. failures' \in 0 .. MaxFaults
    <3>1. Count(e /\ readRes = "ok") + Count(f) \in Nat
      BY DEF Count
    <3> QED
      BY <1>0, <1>b, <3>1, FailingTypes
  <2>2. failed' \subseteq FaultKinds
    BY <1>0, <1>b DEF CallerTypes, Fatal, Kind, FaultKinds
  <2> QED
    BY <1>0, <2>1, <2>2 DEF CallerTypes, ReadStream, callerVars, stVars
<1>10. UNCHANGED <<blockIndex, numStarted, startedLimit, cross, crossBlock, outParsed, interrupt, main, input,
                   writerVars, canRead, canWrite, filledVars>>
  BY DEF ReadStream, callerVars
<1>11. /\ pos' \in Nat /\ pos <= pos' /\ pos' <= Len(input.kind) /\ readRes' \in {"ok", "read"}
       /\ cross' \in Seq(Nat)
       /\ crossBlock' \in BOOLEAN /\ outParsed' \in Nat /\ progressRes' \in {"ok", "progress"}
       /\ cross' = cross /\ (progressRes # "ok" => progressRes' # "ok")
  BY <1>0, <1>a, <1>b, <1>10 DEF ReaderTypes, Progress
<1>12. DOMAIN coder' = Thread /\ IsCoder(coder'[t]) /\ \A u \in Thread \ {t} : coder'[u] = coder[u]
  BY <1>0, <1>3, <1>d DEF ThreadTypes
<1>13. \A Q \in [Nat -> Nat] :
         FitAt(Q, pc[t], loc[t], canRead[t], canWrite[t], blockIndex, inProcessed, Len(cross), pos)
         => FitAt(Q, pc'[t], loc'[t], canRead[t], canWrite[t], blockIndex, inProcessed, Len(cross'), pos')
  BY <1>2, <1>4, <1>8, <1>11, <1>a, <1>b
<1> QED
  BY <1>1, <1>2, <1>4, <1>5, <1>6, <1>7, <1>9, <1>10, <1>11, <1>12, <1>13, <1>a, <1>d DEF QuietStep

\* A link with the locals l, of a block parsed so far to old, is parsed to r.
ParsedTo(t, l, old, r, noCross) ==
  LET part  == r.size < Len(l.got)
      ends  == r.status \in {"mark", "notSpecified", "notFinished"}
      stop  == r.status # "more" \/ l.finish
      after == SubSeq(l.got, r.size + 1, Len(l.got))
      toCross == r.status = "new" /\ part
  IN /\ noCross => toCross /\ ~ l.crossed /\ ~ crossBlock
     /\ Failing(Count(noCross))
     /\ coder' = [coder EXCEPT ![t] =
          [status |-> r.status, inPre |-> old.inPre + r.size,
           outPre |-> IF r.status = "overflow" THEN old.outPre ELSE r.out,
           data |-> <<>>, used |-> 0]]
     /\ outParsed' = IF r.status \in {"more", "overflow"} THEN outParsed
                     ELSE outParsed + r.out
     /\ cross' = IF \/ toCross /\ ~ noCross
                    \/ l.crossed /\ part /\ r.status # "overflow"
                   THEN after ELSE <<>>
     /\ crossBlock' = (crossBlock \/ (toCross /\ ~ l.crossed /\ ~ noCross))
     /\ loc' = [loc EXCEPT ![t] =
          [l EXCEPT !.needWrite = TRUE, !.got = <<>>,
                    !.links = @ + 1,
                    !.over = r.status = "overflow",
                    !.alloc = noCross,
                    !.needCode = r.status # "overflow" /\ stop,
                    !.finish = r.status = "overflow" \/ noCross \/ ends
                               \/ (@ /\ ~ toCross),
                    !.size = IF r.status = "overflow" \/ noCross THEN @
                             ELSE @ - Len(after),
                    !.first = IF l.links = 0 /\ r.status # "overflow" /\ ~ noCross
                                THEN r.size ELSE @]]
     /\ Goto(t, IF stop THEN "hand" ELSE "read")

\* Parsing a link keeps what is not the block's in the cross block
\* (MtDec.c:386-524).
LEMMA ParseLinkQuiet ==
  ASSUME Rights, Sizes, NEW t \in Thread, ParseLink(t)
  PROVE  QuietStep(t)
<1>0. RingTypes /\ CallerTypes /\ ReaderTypes /\ WriterTypes /\ ThreadTypes /\ Locals /\ Marks
  BY DEF Rights, Sizes
<1>1. OnlyThread(t) /\ loc'[t].block = loc[t].block
  BY <1>0, ParseLinkEffect
<1>a. pc[t] = "parse" /\ main # "start"
  <2>1. pc[t] = "parse"
    BY DEF ParseLink
  <2> QED
    BY <2>1 DEF Rights, Clear, Busy, Runs
<1>2. PICK l, d : l = loc[t] /\ d = coder[t]
  OBVIOUS
<1>3. /\ IsLocal(l) /\ IsCoder(d) /\ LocalAt("parse", l, d, Told) /\ DOMAIN l = LocFields
      /\ l.block \in Nat /\ StopsFor("parse", l, interrupt, progressRes)
  BY <1>0, <1>2, <1>a DEF ThreadTypes, Locals, Marks, RingTypes
<1>4. PICK old, r, noCross :
        /\ noCross \in BOOLEAN /\ old = IF l.links = 0 THEN NoCoder ELSE d
        /\ r \in Parse(input.kind, l.got, old.outPre, Limit, Partial)
        /\ ParsedTo(t, l, old, r, noCross)
  <2>1. PICK old : old = IF loc[t].links = 0 THEN NoCoder ELSE coder[t]
    OBVIOUS
  <2>5. \E r \in Parse(input.kind, loc[t].got, (IF loc[t].links = 0 THEN NoCoder ELSE coder[t]).outPre, Limit, Partial),
          noCross \in MayFail("memory") :
             ParsedTo(t, loc[t], IF loc[t].links = 0 THEN NoCoder ELSE coder[t], r, noCross)
    BY ZenonT(40) DEF ParseLink, ParsedTo
  <2>2. PICK r \in Parse(input.kind, loc[t].got, old.outPre, Limit, Partial) :
          \E noCross \in MayFail("memory") : ParsedTo(t, loc[t], old, r, noCross)
    BY <2>1, <2>5
  <2>3. PICK noCross \in MayFail("memory") : ParsedTo(t, loc[t], old, r, noCross)
    BY <2>2
  <2>4. noCross \in BOOLEAN
    BY MayFailIs
  <2> QED
    BY <1>2, <2>1, <2>2, <2>3, <2>4
<1>5. PICK g \in Nat : g = Len(l.got) /\ g <= l.size /\ (l.links = 0 => l.size = g) /\ (l.links # 0 => l.first <= l.size - g)
  BY <1>3 DEF IsLocal, LocalAt
<1>6. old.inPre \in Nat /\ old.outPre \in Nat
  <2>1. CASE l.links = 0
    BY <1>4, <2>1 DEF ParsedTo, NoCoder
  <2>2. CASE l.links # 0
    BY <1>3, <1>4, <2>2 DEF ParsedTo, IsCoder
  <2> QED
    BY <2>1, <2>2
<1>7. /\ r.size \in 0 .. g /\ r.out \in Nat
      /\ r.status \in {"more", "new", "mark", "notSpecified", "notFinished", "overflow"}
  <2>1. r \in Parse(input.kind, l.got, old.outPre, Limit, Partial)
    BY <1>4, <1>6 DEF ParsedTo
  <2>2. g \in Nat /\ Len(l.got) = g /\ old.outPre \in Nat
    BY <1>5, <1>6
  <2> QED
    BY <2>1, <2>2, ParseFits, Zenon
<1>8. PICK z, s, a : z = r.size /\ s = r.status /\ a = SubSeq(l.got, r.size + 1, Len(l.got))
  OBVIOUS
<1>9. a \in Seq(Nat) /\ Len(a) = g - z /\ z \in Nat /\ z <= g
      /\ s \in {"more", "new", "mark", "notSpecified", "notFinished", "overflow"}
  <2>1. PICK w \in Seq(Nat) : w = l.got /\ Len(w) = g
    BY <1>3, <1>5 DEF IsLocal
  <2>2. z \in 0 .. g
    BY <1>7, <1>8
  <2>3. SubSeq(w, z + 1, g) \in Seq(Nat) /\ Len(SubSeq(w, z + 1, g)) = g - z
    BY <2>1, <2>2
  <2>4. a = SubSeq(w, z + 1, g)
    BY <1>8, <2>1
  <2>5. a \in Seq(Nat) /\ Len(a) = g - z
    BY <2>3, <2>4
  <2>6. z \in Nat /\ z <= g
    BY <2>2
  <2>7. s \in {"more", "new", "mark", "notSpecified", "notFinished", "overflow"}
    BY <1>7, <1>8
  <2> QED
    BY <2>5, <2>6, <2>7
<1> DEFINE stop == s # "more" \/ l.finish
           ends == s \in {"mark", "notSpecified", "notFinished"}
           toCross == s = "new" /\ z < g
           size == IF s = "overflow" \/ noCross THEN l.size ELSE l.size - (g - z)
           first == IF l.links = 0 /\ s # "overflow" /\ ~ noCross THEN z ELSE l.first
           fin == s = "overflow" \/ noCross \/ ends \/ (l.finish /\ ~ toCross)
<1>10. PICK k : /\ k = loc'[t] /\ k.block = l.block /\ k.links = l.links + 1 /\ k.got = <<>>
                /\ k.size = size
                /\ k.first = first /\ k.crossed = l.crossed /\ k.finish = fin
                /\ k.needCode = (s # "overflow" /\ stop)
                /\ k.needWrite = TRUE /\ k.alloc = noCross /\ k.over = (s = "overflow")
                /\ k.thread = l.thread
                /\ k.stop = l.stop /\ k.code = l.code /\ k.write = l.write
  <2>1. PICK k : k = loc'[t]
    OBVIOUS
  <2>2. k = [l EXCEPT !.needWrite = TRUE, !.got = <<>>, !.links = l.links + 1, !.over = (s = "overflow"),
                      !.alloc = noCross, !.needCode = (s # "overflow" /\ stop), !.finish = fin, !.size = size,
                      !.first = first]
    BY <1>0, <1>2, <1>4, <1>5, <1>8, <1>9, <2>1 DEF ParsedTo, RingTypes
  <2>3. /\ k = loc'[t] /\ k.block = l.block /\ k.links = l.links + 1 /\ k.got = <<>>
        /\ k.size = size
        /\ k.first = first /\ k.crossed = l.crossed /\ k.finish = fin
        /\ k.needCode = (s # "overflow" /\ stop)
        /\ k.needWrite = TRUE /\ k.alloc = noCross /\ k.over = (s = "overflow")
        /\ k.thread = l.thread
        /\ k.stop = l.stop /\ k.code = l.code /\ k.write = l.write
    BY <1>3, <2>1, <2>2 DEF LocFields
  <2> QED
    BY <2>3, Zenon
<1>11. PICK at \in {"hand", "read"} : pc'[t] = at /\ (at = "hand" <=> stop)
  BY <1>0, <1>4, <1>8 DEF ParsedTo, Goto, RingTypes
<1>12. PICK c : /\ c = coder'[t] /\ DOMAIN c = CoderFields /\ c.status = s /\ c.inPre \in Nat
                /\ c.outPre \in Nat /\ c.used = 0
  <2>1. coder'[t] = [status |-> s, inPre |-> old.inPre + z,
                     outPre |-> IF s = "overflow" THEN old.outPre ELSE r.out, data |-> <<>>, used |-> 0]
    BY <1>0, <1>4, <1>6, <1>8 DEF ParsedTo, ThreadTypes
  <2> QED
    BY <1>6, <1>7, <1>9, <2>1, SMTT(30) DEF CoderFields
<1>13. PICK x : x = cross' /\ x \in Seq(Nat) /\ size + Len(x) <= l.size /\ (x = a \/ x = <<>>)
  <2>1. cross' = IF (toCross /\ ~ noCross) \/ (l.crossed /\ z < g /\ s # "overflow") THEN a ELSE <<>>
    BY <1>4, <1>5, <1>8 DEF ParsedTo
  <2>2. noCross => ~ l.crossed
    BY <1>4 DEF ParsedTo
  <2>3. l.size \in Nat
    BY <1>3 DEF IsLocal
  <2>4. CASE cross' = a /\ s # "overflow" /\ ~ noCross
    <3>1. size + Len(a) <= l.size
      BY <1>9, <1>5, <2>3, <2>4
    <3> QED
      BY <1>9, <2>4, <3>1
  <2>5. CASE cross' = <<>>
    <3>1. size <= l.size /\ size \in Int
      BY <1>5, <1>9, <2>3
    <3>2. size + 0 <= l.size /\ <<>> \in Seq(Nat) /\ Len(<<>>) = 0
      BY <3>1
    <3> HIDE DEF size
    <3> QED
      BY <2>5, <3>2
  <2> QED
    BY <2>1, <2>2, <2>4, <2>5
<1>14. size \in Nat /\ first \in Nat /\ first <= size
  <2>1. l.size \in Nat /\ l.first \in Nat /\ l.first <= l.size
    BY <1>3 DEF IsLocal
  <2>2. CASE s = "overflow" \/ noCross
    BY <2>1, <2>2
  <2>3. CASE ~ (s = "overflow" \/ noCross) /\ l.links = 0
    BY <1>5, <1>9, <2>1, <2>3
  <2>4. CASE ~ (s = "overflow" \/ noCross) /\ l.links # 0
    BY <1>5, <1>9, <2>1, <2>4, SMTT(30)
  <2> QED
    BY <2>2, <2>3, <2>4
<1>15. /\ fin \in BOOLEAN /\ stop \in BOOLEAN /\ (stop /\ ~ fin => s = "new") /\ (noCross => stop)
       /\ noCross \/ s = "overflow" => fin /\ stop
       /\ noCross \in BOOLEAN
  BY <1>1, <1>4, <1>8, <1>9, <1>0, <1>2 DEF ParsedTo, RingTypes
<1> HIDE DEF size, first, fin, stop, ends, toCross
<1>16. IsLocal(k)
  <2>1. /\ k.links \in Nat /\ k.got \in Seq(Nat) /\ k.size \in Nat /\ k.first \in Nat
        /\ k.first <= k.size
    BY <1>3, <1>10, <1>14 DEF IsLocal
  <2>2. /\ k.crossed \in BOOLEAN /\ k.needCode \in BOOLEAN /\ k.needWrite \in BOOLEAN
        /\ k.alloc \in BOOLEAN /\ k.over \in BOOLEAN /\ k.thread \in BOOLEAN /\ k.stop \in BOOLEAN
        /\ k.write \in BOOLEAN /\ k.code \in {"ok", "data", "memory"}
    BY <1>3, <1>10, <1>15 DEF IsLocal
  <2> QED
    BY <2>1, <2>2 DEF IsLocal
<1>17. \A told \in BOOLEAN : LocalAt(at, k, c, told)
  <2>1. k.links # 0
    BY <1>3, <1>10 DEF IsLocal
  <2> QED
    BY <1>3, <1>10, <1>11, <1>12, <1>14, <1>15, <2>1 DEF LocalAt, IsBusy, IsWork
<1>18. StopsFor(at, k, interrupt, progressRes)
  BY <1>3, <1>10 DEF StopsFor, IsBusy, LocalAt
<1>19. \A Q \in [Nat -> Nat] :
         FitAt(Q, "parse", l, canRead[t], canWrite[t], blockIndex, inProcessed, Len(cross), pos)
         => FitAt(Q, at, k, canRead[t], canWrite[t], blockIndex, inProcessed, Len(x), pos)
  <2>0. ~ canRead[t]
    BY <1>a DEF Rights, OneReads, HasRead
  <2>1. PICK n \in Nat : n = Len(x)
    BY <1>13
  <2> SUFFICES ASSUME NEW Q \in [Nat -> Nat],
                      FitAt(Q, "parse", l, canRead[t], canWrite[t], blockIndex, inProcessed, Len(cross), pos)
               PROVE  FitAt(Q, at, k, canRead[t], canWrite[t], blockIndex, inProcessed, n, pos)
    BY <2>1
  <2>2. PICK p \in Nat, m \in Nat, q \in Nat, z1 \in Nat :
          /\ p = Q[l.block] /\ m = l.size /\ q = pos /\ z1 = size /\ z1 + n <= m
    <3>1. l.size \in Nat /\ Q[l.block] \in Nat /\ pos \in Nat /\ size \in Nat /\ size + n <= l.size
      BY <1>0, <1>3, <1>13, <1>14, <2>1 DEF IsLocal, ReaderTypes
    <3> QED
      BY <3>1
  <2>3. p + m <= q
    BY <2>2 DEF FitAt
  <2>5. canWrite[t] => inProcessed <= p
    BY <2>2 DEF FitAt, IsBusy
  <2>4. p + z1 + n <= q
    <3>1. z1 + n <= m
      BY <2>2
    <3> HIDE <2>2
    <3> QED
      BY <2>3, <3>1
  <2> QED
    BY <1>10, <1>11, <2>0, <2>2, <2>3, <2>4, <2>5 DEF FitAt, IsBusy, IsWork
<1>20. CallerTypes'
  <2>1. failures' \in 0 .. MaxFaults
    BY <1>0, <1>4, FailingTypes DEF ParsedTo, Count
  <2> QED
    BY <1>0, <2>1 DEF CallerTypes, ParseLink, callerVars, stVars
<1>21. UNCHANGED <<pos, readRes, blockIndex, numStarted, startedLimit, interrupt, progressRes, main, input,
                   writerVars, canRead, canWrite, filledVars>>
  BY DEF ParseLink, callerVars, csVars
<1>22. /\ pos' \in Nat /\ pos <= pos' /\ pos' <= Len(input.kind) /\ readRes' \in {"ok", "read"}
       /\ cross' \in Seq(Nat)
       /\ crossBlock' \in BOOLEAN /\ outParsed' \in Nat /\ progressRes' \in {"ok", "progress"}
       /\ (progressRes # "ok" => progressRes' # "ok")
  BY <1>0, <1>4, <1>7, <1>13, <1>21, <1>a, SMTT(30) DEF ParsedTo, ReaderTypes
<1>23. DOMAIN coder' = Thread /\ IsCoder(coder'[t]) /\ \A u \in Thread \ {t} : coder'[u] = coder[u]
  <2>1. IsCoder(c)
    BY <1>12 DEF IsCoder
  <2> QED
    BY <1>0, <1>4, <1>12, <2>1 DEF ParsedTo, ThreadTypes
<1>24. \A Q \in [Nat -> Nat] :
         FitAt(Q, pc[t], loc[t], canRead[t], canWrite[t], blockIndex, inProcessed, Len(cross), pos)
         => FitAt(Q, pc'[t], loc'[t], canRead[t], canWrite[t], blockIndex, inProcessed, Len(cross'), pos')
  BY <1>2, <1>10, <1>11, <1>13, <1>19, <1>21, <1>a
<1>25. \A told \in BOOLEAN : LocalAt(pc'[t], loc'[t], coder'[t], told)
  BY <1>10, <1>11, <1>12, <1>17
<1>26. StopsFor(pc'[t], loc'[t], interrupt, progressRes')
  BY <1>10, <1>11, <1>18, <1>21
<1>27. IsLocal(loc'[t])
  BY <1>10, <1>16
<1> QED
  BY <1>1, <1>11, <1>20, <1>21, <1>22, <1>23, <1>24, <1>25, <1>26, <1>27, <1>a DEF QuietStep

\* Decoding uses no more than was parsed (MtDec.c:594-659).
LEMMA CodeQuiet ==
  ASSUME Rights, Sizes, NEW t \in Thread, Code(t)
  PROVE  QuietStep(t)
<1>0. RingTypes /\ CallerTypes /\ ReaderTypes /\ WriterTypes /\ ThreadTypes /\ Locals /\ Marks
  BY DEF Rights, Sizes
<1>a. pc[t] = "code" /\ main # "start" /\ pc'[t] = "waitWrite" /\ pc' = [pc EXCEPT ![t] = "waitWrite"]
  <2>1. pc[t] = "code" /\ pc'[t] = "waitWrite" /\ pc' = [pc EXCEPT ![t] = "waitWrite"]
    BY <1>0 DEF Code, Goto, RingTypes
  <2> QED
    BY <2>1 DEF Rights, Clear, Busy, Runs
<1>2. PICK l, d : l = loc[t] /\ d = coder[t]
  OBVIOUS
<1>3. /\ IsLocal(l) /\ IsCoder(d) /\ LocalAt("code", l, d, Told) /\ DOMAIN l = LocFields
      /\ l.block \in Nat
  BY <1>0, <1>2, <1>a DEF ThreadTypes, Locals, RingTypes
<1>4. PICK y : y = Decode(input.kind, Data(inBuf[t], l.first, l.size), TRUE, d.outPre, Whole(d))
  OBVIOUS
<1>5. y.used \in 0 .. l.size
  <2>1. l.size \in Nat
    BY <1>3 DEF IsLocal
  <2>2. Len(Data(inBuf[t], l.first, l.size)) = l.size
    BY <2>1, DataFits
  <2> QED
    BY <1>4, <2>1, <2>2, DecodeFits
<1>6. \/ /\ coder' = [coder EXCEPT ![t].data = y.out, ![t].used = y.used]
         /\ IF y.status = "error"
              THEN Interrupt(t) /\ loc' = [loc EXCEPT ![t].code = "data"]
              ELSE UNCHANGED <<interrupt, loc>>
         /\ UNCHANGED <<progressRes, faultVars>>
      \/ \E f \in BOOLEAN :
           /\ Progress(f) /\ Failing(Count(f)) /\ Fatal(Kind(f, "progress"))
           /\ progressRes' # "ok" \/ Interrupted(t)
           /\ loc' = [loc EXCEPT ![t].stop = Interrupted(t)]
           /\ UNCHANGED <<interrupt, coder>>
  <2>1. \A f \in MayFail("progress") : f \in BOOLEAN
    BY MayFailIs
  <2> QED
    BY <1>2, <1>4, <2>1 DEF Code
<1>7. /\ UNCHANGED <<main, input, calls, result, tryMt, tMode, fresh, pos, readRes, cross, crossBlock, outParsed,
                     blockIndex, numStarted, startedLimit, writerVars, canRead, canWrite,
                     filledVars>>
  BY DEF Code, callerVars, readerVars, stVars
<1>8. PICK k : k = loc'[t]
  OBVIOUS
<1>9. PICK b \in Nat, i \in {None} \cup Nat : b = l.block /\ i = interrupt /\ (Interrupted(t) <=> i # None /\ b > i)
  BY <1>0, <1>2, <1>3 DEF RingTypes, ReaderTypes, Interrupted
<1>10. /\ k.block = l.block /\ k.links = l.links /\ k.got = l.got /\ k.size = l.size
       /\ k.first = l.first
       /\ k.crossed = l.crossed /\ k.finish = l.finish /\ k.needCode = l.needCode
       /\ k.needWrite = l.needWrite
       /\ k.alloc = l.alloc /\ k.over = l.over /\ k.thread = l.thread /\ k.next = l.next
       /\ k.write = l.write
       /\ k.code \in {"ok", "data"} /\ k.stop \in BOOLEAN /\ (k.stop => i # None /\ b > i)
       /\ DOMAIN loc' = Thread /\ DOMAIN k = LocFields /\ \A u \in Thread \ {t} : loc'[u] = loc[u]
  <2>1. l.code = "ok" /\ ~ l.stop /\ l.stop \in BOOLEAN
    BY <1>3 DEF LocalAt, IsLocal
  <2>2. \/ loc' = [loc EXCEPT ![t].code = "data"]
        \/ loc' = loc
        \/ loc' = [loc EXCEPT ![t].stop = Interrupted(t)]
    BY <1>6
  <2>3. CASE loc' = [loc EXCEPT ![t].code = "data"]
    <3>1. k = [l EXCEPT !.code = "data"]
      BY <1>0, <1>2, <1>8, <2>3 DEF RingTypes
    <3> QED
      BY <1>0, <1>3, <2>1, <2>3, <3>1 DEF LocFields, RingTypes
  <2>4. CASE loc' = loc
    BY <1>0, <1>2, <1>3, <1>8, <2>1, <2>4 DEF RingTypes
  <2>5. CASE loc' = [loc EXCEPT ![t].stop = Interrupted(t)]
    <3>1. PICK h \in BOOLEAN : h = Interrupted(t) /\ (h => i # None /\ b > i)
      BY <1>9 DEF Interrupted
    <3>2. k = [l EXCEPT !.stop = h]
      BY <1>0, <1>2, <1>8, <2>5, <3>1 DEF RingTypes
    <3> QED
      BY <1>0, <1>3, <2>1, <2>5, <3>1, <3>2 DEF LocFields, RingTypes
  <2> QED
    BY <2>2, <2>3, <2>4, <2>5
<1>11. PICK c : /\ c = coder'[t] /\ DOMAIN c = CoderFields /\ c.status = d.status
                /\ c.inPre = d.inPre
                /\ c.outPre = d.outPre /\ c.used \in 0 .. l.size
                /\ DOMAIN coder' = Thread /\ \A u \in Thread \ {t} : coder'[u] = coder[u]
  <2>1. DOMAIN coder = Thread /\ DOMAIN d = CoderFields
    BY <1>0, <1>3 DEF ThreadTypes, IsCoder
  <2>2. d.used \in 0 .. l.size
    BY <1>3 DEF IsCoder, IsLocal, LocalAt
  <2>3. CASE coder' = [coder EXCEPT ![t].data = y.out, ![t].used = y.used]
    <3>1. coder'[t] = [d EXCEPT !.data = y.out, !.used = y.used]
      BY <1>2, <2>1, <2>3
    <3> QED
      BY <1>5, <2>1, <2>3, <3>1 DEF CoderFields
  <2>4. CASE coder' = coder
    BY <1>2, <2>1, <2>2, <2>4
  <2> QED
    BY <1>6, <2>3, <2>4
<1>12. IsLocal(k) /\ IsCoder(c)
  BY <1>3, <1>10, <1>11 DEF IsLocal, IsCoder
<1>13. \A told \in BOOLEAN : LocalAt("waitWrite", k, c, told)
  BY <1>3, <1>10, <1>11 DEF LocalAt, IsBusy, IsWork, IsLocal
<1>14. StopsFor("waitWrite", k, interrupt, progressRes')
  BY <1>9, <1>10 DEF StopsFor, IsBusy
<1>15. \A Q \in [Nat -> Nat] :
         FitAt(Q, "code", l, canRead[t], canWrite[t], blockIndex, inProcessed, Len(cross), pos)
         => FitAt(Q, "waitWrite", k, canRead[t], canWrite[t], blockIndex, inProcessed, Len(cross), pos)
  BY <1>10 DEF FitAt, IsBusy, IsWork
<1>16. OnlyThread(t)
  <2>1. IsLoc(k)
    BY <1>0, <1>2, <1>10 DEF IsLoc, RingTypes
  <2> QED
    BY <1>0, <1>8, <1>10, <1>a, <2>1 DEF OnlyThread, RingTypes, ThreadPc
<1>17. progressRes' \in {"ok", "progress"} /\ (progressRes # "ok" => progressRes' # "ok")
       /\ failures' \in 0 .. MaxFaults /\ failed' \subseteq FaultKinds
  <2>1. CASE UNCHANGED <<progressRes, faultVars>>
    BY <1>0, <2>1 DEF CallerTypes, ReaderTypes, faultVars
  <2>2. ASSUME NEW f \in BOOLEAN, Progress(f) /\ Failing(Count(f)) /\ Fatal(Kind(f, "progress"))
        PROVE  progressRes' \in {"ok", "progress"} /\ (progressRes # "ok" => progressRes' # "ok")
               /\ failures' \in 0 .. MaxFaults /\ failed' \subseteq FaultKinds
    <3>1. failures' \in 0 .. MaxFaults
      <4>1. Count(f) \in Nat
        BY DEF Count
      <4> QED
        BY <1>0, <2>2, <4>1, FailingTypes
    <3>2. failed' \subseteq FaultKinds
      BY <1>0, <2>2 DEF CallerTypes, Fatal, Kind, FaultKinds
    <3> QED
      BY <1>0, <2>2, <3>1, <3>2 DEF ReaderTypes, Progress
  <2> QED
    BY <1>6, <2>1, <2>2
<1>18. CallerTypes'
  BY <1>0, <1>7, <1>17 DEF CallerTypes
<1>19. \/ interrupt' = interrupt
       \/ /\ k.code = "data" /\ interrupt' = l.block
          /\ interrupt = None \/ l.block < interrupt
  <2>1. CASE Interrupt(t) /\ loc' = [loc EXCEPT ![t].code = "data"]
    <3>1. k.code = "data"
      BY <1>0, <1>2, <1>3, <1>8, <2>1 DEF RingTypes, LocFields
    <3> QED
      BY <1>2, <2>1, <3>1 DEF Interrupt
  <2> QED
    BY <1>6, <2>1
<1>20. /\ pos' \in Nat /\ pos <= pos' /\ pos' <= Len(input.kind) /\ readRes' \in {"ok", "read"}
       /\ cross' \in Seq(Nat)
       /\ crossBlock' \in BOOLEAN /\ outParsed' \in Nat /\ cross' = cross /\ pos' = pos
  BY <1>0, <1>7, <1>a DEF ReaderTypes
<1>21. MayKeep("waitWrite", k) = MayKeep("code", l)
  BY <1>10 DEF MayKeep, IsWork
<1>22. \A Q \in [Nat -> Nat] :
         FitAt(Q, pc[t], loc[t], canRead[t], canWrite[t], blockIndex, inProcessed, Len(cross), pos)
         => FitAt(Q, pc'[t], loc'[t], canRead[t], canWrite[t], blockIndex, inProcessed, Len(cross'), pos')
  BY <1>2, <1>8, <1>15, <1>20, <1>a
<1>23. \A told \in BOOLEAN : LocalAt(pc'[t], loc'[t], coder'[t], told)
  BY <1>8, <1>11, <1>13, <1>a
<1>24. StopsFor(pc'[t], loc'[t], interrupt, progressRes') /\ IsLocal(loc'[t]) /\ IsCoder(coder'[t])
  BY <1>8, <1>11, <1>12, <1>14, <1>a
<1>25. MayKeep(pc'[t], loc'[t]) = MayKeep(pc[t], loc[t]) /\ loc'[t].block = loc[t].block
       /\ (\/ interrupt' = interrupt
           \/ /\ loc'[t].code = "data" /\ interrupt' = loc[t].block
              /\ interrupt = None \/ loc[t].block < interrupt)
  BY <1>2, <1>8, <1>10, <1>19, <1>21, <1>a
<1> QED
  BY <1>7, <1>11, <1>16, <1>17, <1>18, <1>20, <1>22, <1>23, <1>24, <1>25, <1>a DEF QuietStep

\* The five steps of a thread that goes on with its block are quiet.
LEMMA QuietActions ==
  ASSUME Rights, Sizes, NEW t \in Thread, NoLink(t) \/ TakeCross(t) \/ ReadStream(t) \/ ParseLink(t) \/ Code(t)
  PROVE  Sizes'
<1>1. QuietStep(t)
  BY NoLinkQuiet, TakeCrossQuiet, ReadStreamQuiet, ParseLinkQuiet, CodeQuiet
<1> QED
  BY <1>1, QuietSizes

-----------------------------------------------------------------------------
(* Taking a right. *)

\* The progress callback was asked and may have failed (MtDec.c:184-201).
LEMMA ProgressTypes ==
  ASSUME CallerTypes, ReaderTypes, NEW f \in BOOLEAN,
         Progress(f), Failing(Count(f)), Fatal(Kind(f, "progress"))
  PROVE  /\ progressRes' \in {"ok", "progress"} /\ (progressRes # "ok" => progressRes' # "ok")
         /\ failures' \in 0 .. MaxFaults /\ failed' \subseteq FaultKinds
<1>1. failures' \in 0 .. MaxFaults
  <2>1. Count(f) \in Nat
    BY DEF Count
  <2> QED
    BY <2>1, FailingTypes
<1>2. failed' \subseteq FaultKinds
  BY DEF CallerTypes, Fatal, Kind, FaultKinds
<1> QED
  BY <1>1, <1>2 DEF ReaderTypes, Progress

\* What is known of an error stays known (MtDec.c:664-718).
LEMMA LocalLater ==
  ASSUME NEW at, NEW l, NEW c, NEW told \in BOOLEAN, NEW more \in BOOLEAN, told => more,
         LocalAt(at, l, c, told)
  PROVE  LocalAt(at, l, c, more)
  BY DEF LocalAt

\* A thread that finds exitThread leaves the ring (MtDec.c:273-283).
LEMMA TakeReadEnds ==
  ASSUME Rights, Sizes, NEW t \in Thread, TakeRead(t), exitThread
  PROVE  Sizes'
<1>0. /\ RingTypes /\ CallerTypes /\ ReaderTypes /\ WriterTypes /\ ThreadTypes
      /\ Locals /\ Marks /\ Fits /\ Handover /\ Alone /\ FilledFit
  BY DEF Rights, Sizes
<1>1. /\ canRead[t] /\ pc[t] = "waitRead" /\ pc' = [pc EXCEPT ![t] = "ended"]
      /\ canRead' = [canRead EXCEPT ![t] = FALSE]
      /\ UNCHANGED <<main, input, calls, result, tryMt, tMode, fresh, failures, failed, loc, coder,
                     pos, readRes, blockIndex, cross, crossBlock, numStarted, startedLimit,
                     outParsed,
                     interrupt, progressRes, wasInterrupted, isAllocError, overflow, threadingError,
                     exitThread, inProcessed, filledStart, numFilled, canWrite, filledSize,
                     filledFirst>>
  BY DEF TakeRead, Goto, callerVars, writerVars, csVars, faultVars, filledVars, stVars
<1>2. Runs
  BY <1>0, <1>1 DEF Rights, Clear
<1>3. \A u \in Thread : ~ IsBusy(pc[u]) /\ ~ canWrite[u] /\ (canRead[u] => u = t)
  BY <1>1, <1>2 DEF Rights, Exits, Runs, Busy, IsBusy
<1>4. \A u \in Thread : /\ ~ IsBusy(pc'[u]) /\ (u # t => pc'[u] = pc[u] /\ canRead'[u] = canRead[u])
  BY <1>0, <1>1, <1>3 DEF RingTypes, IsBusy
<1>5. pc'[t] = "ended" /\ canRead'[t] = FALSE
  BY <1>0, <1>1 DEF RingTypes
<1>6. CallerTypes' /\ ReaderTypes' /\ WriterTypes' /\ ThreadTypes' /\ Told' = Told /\ Flags' = Flags
  BY <1>0, <1>1 DEF CallerTypes, ReaderTypes, WriterTypes, ThreadTypes, Told, Flags
<1>7. Locals'
  <2>1. ASSUME NEW u \in Thread PROVE LocalAt(pc'[u], loc'[u], coder'[u], Told')
    <3>1. LocalAt(pc[u], loc[u], coder[u], Told)
      BY <1>0 DEF Locals
    <3>2. pc[u] \notin {"read", "parse", "hand", "code", "waitWrite", "write"}
          /\ pc'[u] \notin {"read", "parse", "hand", "code", "waitWrite", "write"}
      BY <1>3, <1>4 DEF IsBusy
    <3>3. loc[u] = NoLoc /\ coder[u].used <= loc[u].size
      BY <1>3, <3>1 DEF LocalAt
    <3> QED
      BY <1>1, <3>2, <3>3 DEF LocalAt, IsWork
  <2> QED
    BY <2>1 DEF Locals
<1>8. Marks'
  <2>1. \A u \in Thread : pc[u] # "waitWrite" /\ ~ IsBusy(pc'[u])
    BY <1>3, <1>4 DEF IsBusy
  <2> QED
    BY <1>0, <1>1, <1>6, <2>1 DEF Marks, StopsFor
<1>9. Fits'
  <2>1. PICK Q \in [Nat -> Nat] : Fit(Q)
    BY <1>0 DEF Fits
  <2>2. ASSUME NEW u \in Thread
        PROVE  FitAt(Q, pc'[u], loc'[u], canRead'[u], canWrite'[u], blockIndex', inProcessed', Len(cross'), pos')
    <3>1. pc[u] \notin {"read", "parse", "hand", "code", "waitWrite", "write"}
          /\ pc'[u] \notin {"read", "parse", "hand", "code", "waitWrite", "write"}
      BY <1>3, <1>4 DEF IsBusy
    <3>2. FitAt(Q, pc[u], loc[u], canRead[u], canWrite[u], blockIndex, inProcessed, Len(cross), pos)
      BY <2>1 DEF Fit
    <3>3. (canRead'[u] => canRead[u]) /\ ~ canWrite[u] /\ ~ canWrite'[u]
      BY <1>1, <1>3, <1>4, <1>5
    <3>4. canRead'[u] => Q[blockIndex] + Len(cross) <= pos
      BY <3>2, <3>3 DEF FitAt
    <3> QED
      BY <1>1, <3>1, <3>3, <3>4 DEF FitAt, IsWork
  <2>3. Fit(Q)'
    BY <2>2 DEF Fit
  <2> QED
    BY <2>3 DEF Fits
<1>10. Handover' /\ Alone'
  BY <1>0, <1>1, <1>2, <1>3, <1>4, <1>6 DEF Handover, Alone, Over, KeptFits, Runs
<1>11. FilledFit'
  <2>1. Keepers' = Keepers
    <3>1. \A u \in Thread : ~ MayKeep(pc'[u], loc'[u]) /\ ~ MayKeep(pc[u], loc[u])
      BY <1>3, <1>4 DEF MayKeep, IsWork, IsBusy
    <3> QED
      BY <3>1 DEF Keepers
  <2> QED
    BY <1>0, <1>1, <2>1 DEF FilledFit, Over
<1> QED
  BY <1>6, <1>7, <1>8, <1>9, <1>10, <1>11 DEF Sizes

\* Taking the right to read keeps Sizes: the block begins where the last ended
\* (MtDec.c:273-297).
LEMMA TakeReadSizes ==
  ASSUME Rights, Sizes, NEW t \in Thread, TakeRead(t), ~ exitThread
  PROVE  Sizes'
<1>0. /\ RingTypes /\ CallerTypes /\ ReaderTypes /\ WriterTypes /\ ThreadTypes
      /\ Locals /\ Marks /\ Fits /\ Handover /\ Alone /\ FilledFit
  BY DEF Rights, Sizes
<1>1. /\ pc[t] = "waitRead" /\ canRead[t] /\ canRead' = [canRead EXCEPT ![t] = FALSE]
      /\ blockIndex' = blockIndex + 1 /\ OnlyThread(t)
      /\ UNCHANGED <<main, input, calls, result, tryMt, tMode, fresh, coder,
                     pos, readRes, cross, crossBlock, numStarted, startedLimit, outParsed,
                     interrupt, wasInterrupted, isAllocError, overflow, threadingError,
                     exitThread, inProcessed, filledStart, numFilled, canWrite, filledSize,
                     filledFirst>>
  <2>1. OnlyThread(t) /\ blockIndex' = blockIndex + 1
    BY <1>0, TakeReadEffect
  <2> QED
    BY <2>1 DEF TakeRead, callerVars, writerVars, csVars, filledVars, stVars
<1>2. PICK s \in BOOLEAN, f \in BOOLEAN :
        /\ Progress(f) /\ Failing(Count(f)) /\ Fatal(Kind(f, "progress"))
        /\ s <=> (progressRes' # "ok" \/ (interrupt # None /\ blockIndex > interrupt))
        /\ loc' = [loc EXCEPT ![t] = [NoLoc EXCEPT !.block = blockIndex, !.stop = s,
                                       !.finish = IF s THEN TRUE ELSE readWasFinished]]
        /\ pc' = [pc EXCEPT ![t] = IF s THEN "waitWrite" ELSE "read"]
  <2>1. PICK f \in MayFail("progress") :
          /\ Progress(f) /\ Failing(Count(f)) /\ Fatal(Kind(f, "progress"))
          /\ LET stop == progressRes' # "ok" \/ (interrupt # None /\ blockIndex > interrupt)
             IN /\ loc' = [loc EXCEPT ![t] = [NoLoc EXCEPT !.block = blockIndex, !.stop = stop,
                                         !.finish = IF stop THEN TRUE ELSE readWasFinished]]
                /\ pc' = [pc EXCEPT ![t] = IF stop THEN "waitWrite" ELSE "read"]
    BY DEF TakeRead, Goto
  <2>2. f \in BOOLEAN
    BY <2>1, MayFailIs
  <2> QED
    BY <2>1, <2>2
<1>3. /\ progressRes' \in {"ok", "progress"} /\ (progressRes # "ok" => progressRes' # "ok")
      /\ failures' \in 0 .. MaxFaults /\ failed' \subseteq FaultKinds
  BY <1>0, <1>2, ProgressTypes
<1>4. PICK b, k : /\ b = blockIndex /\ k = loc'[t] /\ b \in Nat \ {0}
                  /\ k = [NoLoc EXCEPT !.block = b, !.stop = s,
                                       !.finish = IF s THEN TRUE ELSE readWasFinished]
  BY <1>0, <1>2 DEF RingTypes
<1>5. /\ k.block = b /\ k.links = 0 /\ k.got = <<>> /\ k.size = 0 /\ k.first = 0
      /\ k.crossed = FALSE
      /\ k.finish \in BOOLEAN /\ (s => k.finish) /\ k.needCode = FALSE /\ k.needWrite = FALSE
      /\ k.alloc = FALSE /\ k.over = FALSE /\ k.thread = FALSE /\ k.stop = s /\ k.code = "ok"
      /\ k.write = FALSE
  BY <1>0, <1>4, ZenonT(40) DEF NoLoc, RingTypes
<1>6. pc'[t] = IF s THEN "waitWrite" ELSE "read"
  BY <1>0, <1>2 DEF RingTypes
<1>7. \A u \in Thread \ {t} : pc'[u] = pc[u] /\ loc'[u] = loc[u] /\ canRead'[u] = canRead[u]
  BY <1>0, <1>1 DEF OnlyThread, RingTypes
<1>8. Runs /\ main = "mt"
  BY <1>1 DEF Rights, Clear, Runs
<1>9. /\ Reading(t) /\ \A u \in Thread \ {t} : ~ Reading(u)
      /\ ~ Over
  BY <1>1, <1>8 DEF Rights, OneReads, Reading, Over, Runs
<1>a. 0 \in Thread
  BY MtDecAssumption DEF Thread
<1>10. CallerTypes' /\ WriterTypes'
  BY <1>0, <1>1, <1>3 DEF CallerTypes, WriterTypes
<1>11. ReaderTypes'
  <2>1. interrupt' \in {None} \cup 1 .. blockIndex'
    BY <1>0, <1>1 DEF ReaderTypes, RingTypes
  <2> QED
    BY <1>0, <1>1, <1>3, <2>1 DEF ReaderTypes
<1>12. ThreadTypes'
  <2>1. IsLocal(k)
    <3>1. k.got \in Seq(Nat)
      BY <1>5
    <3>2. k.first <= k.size /\ k.links \in Nat /\ k.size \in Nat /\ k.first \in Nat
      BY <1>5
    <3> QED
      BY <1>5, <3>1, <3>2 DEF IsLocal
  <2> QED
    BY <1>0, <1>1, <1>4, <1>7, <2>1 DEF ThreadTypes, OnlyThread
<1>13. Told \in BOOLEAN /\ Told' \in BOOLEAN /\ (Told => Told')
  BY <1>1, <1>3 DEF Told
<1>14. Locals'
  <2>1. LocalAt(pc'[t], loc'[t], coder'[t], Told')
    <3>1. LocalAt("waitRead", loc[t], coder[t], Told)
      BY <1>0, <1>1 DEF Locals
    <3>2. coder[t].used <= 0
      BY <3>1 DEF LocalAt, IsBusy, NoLoc
    <3>3. LocalAt(pc'[t], k, coder[t], Told')
      <4>1. CASE s
        <5>1. pc'[t] = "waitWrite"
          BY <1>6, <4>1
        <5> QED
          BY <1>5, <3>2, <4>1, <5>1 DEF LocalAt, IsBusy, IsWork
      <4>2. CASE ~ s
        <5>1. pc'[t] = "read"
          BY <1>6, <4>2
        <5> QED
          BY <1>5, <3>2, <4>2, <5>1 DEF LocalAt, IsBusy, IsWork
      <4> QED
        BY <4>1, <4>2
    <3> QED
      BY <1>1, <1>4, <3>3
  <2>2. ASSUME NEW u \in Thread \ {t} PROVE LocalAt(pc'[u], loc'[u], coder'[u], Told')
    <3>1. LocalAt(pc[u], loc[u], coder[u], Told)
      BY <1>0 DEF Locals
    <3>2. LocalAt(pc[u], loc[u], coder[u], Told')
      BY <1>13, <3>1, LocalLater
    <3> QED
      BY <1>1, <1>7, <3>2
  <2> QED
    BY <2>1, <2>2 DEF Locals
<1>15. Marks'
  <2>1. /\ \A u \in Thread : StopsFor(pc[u], loc[u], interrupt, progressRes)
        /\ interrupt # None =>
             Told \/ \E u \in Thread : pc[u] = "waitWrite" /\ loc[u].code = "data" /\ loc[u].block <= interrupt
        /\ Flags => wasInterrupted
        /\ ~ Told => numFilled = 0
    BY <1>0, <1>8 DEF Marks
  <2>2. Flags' = Flags
    BY <1>1 DEF Flags
  <2>3. ASSUME NEW u \in Thread PROVE StopsFor(pc'[u], loc'[u], interrupt', progressRes')
    <3>1. CASE u = t
      <4>1. interrupt \in {None} \cup Nat
        BY <1>0 DEF ReaderTypes, RingTypes
      <4>2. s => progressRes' # "ok" \/ (interrupt # None /\ interrupt < b)
        BY <1>2, <1>4, <4>1
      <4> QED
        BY <1>1, <1>4, <1>5, <3>1, <4>2, ZenonT(40) DEF StopsFor
    <3>2. CASE u # t
      BY <1>1, <1>3, <1>7, <2>1, <3>2 DEF StopsFor
    <3> QED
      BY <3>1, <3>2
  <2>4. ASSUME NEW u \in Thread, pc[u] = "waitWrite"
        PROVE  pc'[u] = "waitWrite" /\ loc'[u] = loc[u]
    BY <1>1, <1>7, <2>4
  <2> QED
    BY <1>1, <1>13, <2>1, <2>2, <2>3, <2>4 DEF Marks
<1>16. Fits'
  <2>1. PICK Q \in [Nat -> Nat] : Fit(Q)
    BY <1>0 DEF Fits
  <2>2. \A u \in Thread :
          FitAt(Q, pc[u], loc[u], canRead[u], canWrite[u], blockIndex, inProcessed, Len(cross), pos)
    BY <2>1 DEF Fit
  <2>3. FitAt(Q, pc'[t], loc'[t], FALSE, canWrite[t], blockIndex', inProcessed, Len(cross), pos)
    <3>1. FitAt(Q, "waitRead", loc[t], TRUE, canWrite[t], b, inProcessed, Len(cross), pos)
      BY <1>0, <1>1, <1>4, <2>2 DEF RingTypes
    <3>2. (canWrite[t] => inProcessed <= Q[b]) /\ Q[b] + Len(cross) <= pos /\ Q[b] + 0 + Len(cross) = Q[b] + Len(cross)
      BY <1>0, <1>4, <3>1 DEF FitAt, IsBusy, ReaderTypes
    <3>3. FitAt(Q, pc'[t], k, FALSE, canWrite[t], blockIndex', inProcessed, Len(cross), pos)
      <4>1. CASE s
        <5>1. pc'[t] = "waitWrite"
          BY <1>6, <4>1
        <5> QED
          BY <1>5, <3>2, <4>1, <5>1 DEF FitAt, IsBusy, IsWork
      <4>2. CASE ~ s
        <5>1. pc'[t] = "read"
          BY <1>6, <4>2
        <5> QED
          BY <1>5, <3>2, <4>2, <5>1 DEF FitAt, IsBusy, IsWork
      <4> QED
        BY <4>1, <4>2
    <3> QED
      BY <1>4, <3>3
  <2>4. ASSUME NEW u \in Thread \ {t}
        PROVE  FitAt(Q, pc[u], loc[u], canRead[u], canWrite[u], blockIndex', inProcessed, Len(cross), pos)
    <3>1. FitAt(Q, pc[u], loc[u], canRead[u], canWrite[u], blockIndex, inProcessed, Len(cross), pos)
      BY <2>2
    <3>2. ~ canRead[u]
      BY <1>9 DEF Reading
    <3>3. canWrite[u] => IsBusy(pc[u])
      BY <3>2 DEF Rights, OneWrites, Writing, Busy, IsBusy
    <3>4. pc[u] = "write" => IsBusy(pc[u])
      BY DEF IsBusy
    <3> QED
      BY <3>1, <3>2, <3>3, <3>4 DEF FitAt
  <2>5. ASSUME NEW u \in Thread
        PROVE  FitAt(Q, pc'[u], loc'[u], canRead'[u], canWrite'[u], blockIndex', inProcessed', Len(cross'), pos')
    <3>1. CASE u = t
      <4>1. canRead'[t] = FALSE
        BY <1>0, <1>1 DEF RingTypes
      <4> QED
        BY <1>1, <2>3, <3>1, <4>1
    <3>2. CASE u # t
      <4>1. u \in Thread \ {t}
        BY <3>2
      <4>2. FitAt(Q, pc[u], loc[u], canRead[u], canWrite[u], blockIndex', inProcessed, Len(cross), pos)
        BY <2>4, <4>1, Zenon
      <4> QED
        BY <1>1, <1>7, <4>1, <4>2
    <3> QED
      BY <3>1, <3>2
  <2>6. Fit(Q)'
    BY <2>5 DEF Fit
  <2> QED
    BY <2>6 DEF Fits
<1>17. Handover' /\ Alone'
  <2>1. ~ (Flags /\ progressRes = "ok")
    <3>1. ASSUME Flags, progressRes = "ok" PROVE FALSE
      <4>1. \A u \in Thread : IsBusy(pc[u]) => pc[u] = "write" /\ loc[u].finish
        BY <1>0, <1>8, <3>1 DEF Handover
      <4>2. \A u \in Thread : IsBusy(pc[u]) => Reading(u) /\ u # t
        BY <1>1, <4>1 DEF Reading, IsBusy
      <4>3. \A u \in Thread : ~ IsBusy(pc[u])
        BY <1>9, <4>2
      <4> QED
        BY <1>0, <1>8, <1>9, <3>1, <4>3 DEF Handover
    <3> QED
      BY <3>1
  <2>2. ~ (Flags' /\ progressRes' = "ok")
    BY <1>1, <1>3, <2>1 DEF Flags
  <2> QED
    BY <1>1, <1>8, <2>2 DEF Handover, Alone
<1>18. FilledFit'
  <2>1. CASE numFilled = 0
    BY <1>0, <1>1, <2>1 DEF FilledFit
  <2>2. CASE numFilled # 0
    <3>1. interrupt # None /\ interrupt < blockIndex /\ interrupt \in Nat
      BY <1>0, <1>8, <1>9, <2>2 DEF FilledFit, ReaderTypes, RingTypes
    <3>2. s
      BY <1>2, <1>4, <3>1
    <3>3. Keepers' = Keepers
      <4>1. ~ MayKeep(pc[t], loc[t]) /\ ~ MayKeep("waitWrite", k)
        BY <1>1, <1>5, <3>2 DEF MayKeep, IsWork
      <4>2. ~ MayKeep(pc[t], loc[t]) /\ ~ MayKeep(pc'[t], loc'[t])
        BY <1>4, <1>6, <3>2, <4>1
      <4> QED
        BY <1>7, <4>2 DEF Keepers
    <3>4. interrupt' # None /\ interrupt' < blockIndex'
      BY <1>1, <1>4, <3>1
    <3> QED
      BY <1>0, <1>1, <1>8, <2>2, <3>3, <3>4 DEF FilledFit
  <2> QED
    BY <2>1, <2>2
<1> QED
  BY <1>10, <1>11, <1>12, <1>14, <1>15, <1>16, <1>17, <1>18 DEF Sizes

\* Taking the right to write keeps Sizes: an interruption before this block stops
\* it, and an error of this block is known to the ring (MtDec.c:664-718).
LEMMA TakeWriteSizes ==
  ASSUME Rights, Sizes, NEW t \in Thread, TakeWrite(t)
  PROVE  Sizes'
<1>0. /\ RingTypes /\ CallerTypes /\ ReaderTypes /\ WriterTypes /\ ThreadTypes
      /\ Locals /\ Marks /\ Fits /\ Handover /\ Alone /\ FilledFit
  BY DEF Rights, Sizes
<1>1. /\ pc[t] = "waitWrite" /\ canWrite[t] /\ canWrite' = [canWrite EXCEPT ![t] = FALSE]
      /\ pc' = [pc EXCEPT ![t] = "write"]
      /\ UNCHANGED <<main, input, calls, result, tryMt, tMode, fresh, coder, blockIndex,
                     pos, readRes, cross, crossBlock, numStarted, startedLimit, outParsed,
                     interrupt, exitThread, inProcessed, filledStart, numFilled, canRead,
                     filledSize, filledFirst>>
  BY DEF TakeWrite, Goto, callerVars, readerVars, filledVars, stVars
<1>2. PICK l, f, h, alloc, keep :
        /\ l = loc[t] /\ f \in BOOLEAN /\ h \in BOOLEAN /\ alloc \in BOOLEAN /\ keep \in BOOLEAN
        /\ alloc <=> (l.alloc \/ l.code = "memory")
        /\ keep <=> (l.thread \/ alloc \/ l.over)
        /\ Progress(f) /\ Failing(Count(f)) /\ Fatal(Kind(f, "progress"))
        /\ wasInterrupted' = (wasInterrupted \/ l.code # "ok" \/ keep)
        /\ isAllocError' = (isAllocError \/ (~ wasInterrupted /\ alloc))
        /\ overflow' = (overflow \/ (~ wasInterrupted /\ l.over))
        /\ threadingError' = (threadingError \/ (~ wasInterrupted /\ l.thread))
        /\ loc' = [loc EXCEPT ![t].write = h]
        /\ h <=> (l.needWrite /\ ~ wasInterrupted /\ ~ keep /\ ~ l.stop /\ (l.needCode => progressRes' = "ok"))
  <2>1. PICK l : l = loc[t]
    OBVIOUS
  <2>2. PICK alloc \in BOOLEAN : alloc = (l.alloc \/ l.code = "memory")
    OBVIOUS
  <2>3. PICK keep \in BOOLEAN : keep = (l.thread \/ alloc \/ l.over)
    OBVIOUS
  <2>4. PICK h \in BOOLEAN : h = (l.needWrite /\ ~ wasInterrupted /\ ~ keep /\ ~ l.stop /\ (l.needCode => progressRes' = "ok"))
    OBVIOUS
  <2>5. PICK f \in MayFail("progress") :
          /\ Progress(f) /\ Failing(Count(f)) /\ Fatal(Kind(f, "progress"))
          /\ wasInterrupted' = (wasInterrupted \/ l.code # "ok" \/ keep)
          /\ isAllocError' = (isAllocError \/ (~ wasInterrupted /\ alloc))
          /\ overflow' = (overflow \/ (~ wasInterrupted /\ l.over))
          /\ threadingError' = (threadingError \/ (~ wasInterrupted /\ l.thread))
          /\ loc' = [loc EXCEPT ![t].write = h]
    BY <2>1, <2>2, <2>3, <2>4 DEF TakeWrite
  <2>6. f \in BOOLEAN
    BY <2>5, MayFailIs
  <2> QED
    BY <2>1, <2>2, <2>3, <2>4, <2>5, <2>6
<1>3. /\ progressRes' \in {"ok", "progress"} /\ (progressRes # "ok" => progressRes' # "ok")
      /\ failures' \in 0 .. MaxFaults /\ failed' \subseteq FaultKinds
  BY <1>0, <1>2, ProgressTypes
<1>4. PICK k : /\ k = loc'[t] /\ k.block = l.block /\ k.links = l.links /\ k.got = l.got
               /\ k.size = l.size
               /\ k.first = l.first /\ k.crossed = l.crossed /\ k.finish = l.finish
               /\ k.needCode = l.needCode /\ k.needWrite = l.needWrite /\ k.alloc = l.alloc
               /\ k.over = l.over /\ k.thread = l.thread /\ k.stop = l.stop /\ k.code = l.code
               /\ k.next = l.next /\ k.write = h
  <2>1. loc'[t] = [l EXCEPT !.write = h] /\ DOMAIN l = LocFields
    BY <1>0, <1>2 DEF RingTypes
  <2> QED
    BY <1>0, <2>1 DEF LocFields
<1>5. /\ IsLocal(l) /\ IsCoder(coder[t]) /\ LocalAt("waitWrite", l, coder[t], Told)
      /\ StopsFor("waitWrite", l, interrupt, progressRes) /\ l.block \in Nat /\ l.finish \in BOOLEAN
  BY <1>0, <1>1, <1>2 DEF ThreadTypes, Locals, Marks, RingTypes
<1>6. pc'[t] = "write" /\ DOMAIN loc' = Thread
  BY <1>0, <1>1, <1>2 DEF RingTypes
<1>7. \A u \in Thread \ {t} : pc'[u] = pc[u] /\ loc'[u] = loc[u] /\ canWrite'[u] = canWrite[u]
  BY <1>0, <1>1, <1>2 DEF RingTypes
<1>8. Runs /\ main = "mt" /\ Busy(t) /\ Writing(t)
  BY <1>1 DEF Rights, Clear, Runs, Busy, Writing
<1>9. wasInterrupted \in BOOLEAN /\ isAllocError \in BOOLEAN /\ overflow \in BOOLEAN /\ threadingError \in BOOLEAN
  BY <1>0 DEF WriterTypes
<1>10. CallerTypes'
  BY <1>0, <1>1, <1>3 DEF CallerTypes
<1>11. ReaderTypes'
  BY <1>0, <1>1, <1>3 DEF ReaderTypes
<1>12. WriterTypes'
  BY <1>0, <1>1, <1>2, <1>9 DEF WriterTypes
<1>13. ThreadTypes'
  <2>1. IsLocal(k)
    BY <1>2, <1>4, <1>5 DEF IsLocal
  <2> QED
    BY <1>0, <1>1, <1>4, <1>6, <1>7, <2>1 DEF ThreadTypes
<1>14. /\ Told \in BOOLEAN /\ Told' \in BOOLEAN /\ (Told => Told')
       /\ (l.code # "ok" \/ keep => wasInterrupted')
  BY <1>2, <1>3 DEF Told
<1>15. \A u \in Thread : IsBusy(pc[u]) => l.block <= loc[u].block
  BY <1>2, <1>8 DEF Rights, OneWrites, Busy, IsBusy
<1>16. l.stop => Told
  <2>1. CASE progressRes # "ok"
    BY <2>1 DEF Told
  <2>2. ASSUME l.stop, progressRes = "ok" PROVE Told
    <3>1. interrupt # None /\ interrupt < l.block
      BY <1>5, <2>2 DEF StopsFor, IsBusy
    <3>2. ASSUME NEW u \in Thread, pc[u] = "waitWrite", loc[u].block <= interrupt PROVE FALSE
      <4>1. l.block <= loc[u].block /\ loc[u].block \in Nat
        BY <1>0, <1>15, <3>2 DEF IsBusy, RingTypes
      <4>2. interrupt \in {None} \cup Nat
        BY <1>0 DEF ReaderTypes, RingTypes
      <4> QED
        BY <1>5, <3>1, <3>2, <4>1, <4>2
    <3> QED
      BY <1>0, <1>8, <3>1, <3>2 DEF Marks
  <2> QED
    BY <2>1, <2>2
<1>17. Locals'
  <2>1. LocalAt(pc'[t], loc'[t], coder'[t], Told')
    <3>1. ~ h => Told'
      <4>1. l.needWrite \/ l.alloc \/ l.stop
        BY <1>5 DEF LocalAt, IsWork
      <4>2. wasInterrupted => Told
        BY DEF Told
      <4>3. wasInterrupted' \/ progressRes' # "ok" => Told'
        BY DEF Told
      <4> QED
        BY <1>2, <1>14, <1>16, <4>1, <4>2, <4>3
    <3>2. \A told \in BOOLEAN : (~ h => told) => LocalAt("write", k, coder[t], told)
      BY <1>4, <1>5 DEF LocalAt, IsBusy, IsWork
    <3> QED
      BY <1>1, <1>4, <1>6, <1>14, <3>1, <3>2
  <2>2. ASSUME NEW u \in Thread \ {t} PROVE LocalAt(pc'[u], loc'[u], coder'[u], Told')
    <3>1. LocalAt(pc[u], loc[u], coder[u], Told)
      BY <1>0 DEF Locals
    <3>2. LocalAt(pc[u], loc[u], coder[u], Told')
      BY <1>14, <3>1, LocalLater
    <3> QED
      BY <1>1, <1>7, <3>2
  <2> QED
    BY <2>1, <2>2 DEF Locals
<1>18. Marks'
  <2>1. /\ \A u \in Thread : StopsFor(pc[u], loc[u], interrupt, progressRes)
        /\ interrupt # None =>
             Told \/ \E u \in Thread : pc[u] = "waitWrite" /\ loc[u].code = "data" /\ loc[u].block <= interrupt
        /\ Flags => wasInterrupted
        /\ ~ Told => numFilled = 0
    BY <1>0, <1>8 DEF Marks
  <2>2. Flags' => wasInterrupted'
    BY <1>2, <1>9, <2>1 DEF Flags
  <2>3. ASSUME NEW u \in Thread PROVE StopsFor(pc'[u], loc'[u], interrupt', progressRes')
    <3>1. CASE u = t
      BY <1>1, <1>3, <1>4, <1>5, <3>1 DEF StopsFor, IsBusy
    <3>2. CASE u # t
      BY <1>1, <1>3, <1>7, <2>1, <3>2 DEF StopsFor
    <3> QED
      BY <3>1, <3>2
  <2>4. ASSUME NEW u \in Thread, pc[u] = "waitWrite", loc[u].code = "data", ~ Told'
        PROVE  pc'[u] = "waitWrite" /\ loc'[u] = loc[u]
    <3>1. u # t
      BY <1>2, <1>14, <2>4 DEF Told
    <3> QED
      BY <1>7, <2>4, <3>1
  <2>5. numFilled' = numFilled /\ interrupt' = interrupt /\ main' = main
    BY <1>1
  <2> QED
    BY <1>14, <2>1, <2>2, <2>3, <2>4, <2>5 DEF Marks
<1>19. Fits'
  <2>1. PICK Q \in [Nat -> Nat] : Fit(Q)
    BY <1>0 DEF Fits
  <2>2. \A u \in Thread :
          FitAt(Q, pc[u], loc[u], canRead[u], canWrite[u], blockIndex, inProcessed, Len(cross), pos)
    BY <2>1 DEF Fit
  <2>3. FitAt(Q, "write", k, canRead[t], FALSE, blockIndex, inProcessed, Len(cross), pos)
    <3>1. FitAt(Q, "waitWrite", l, canRead[t], TRUE, blockIndex, inProcessed, Len(cross), pos)
      <4>1. canWrite[t] = TRUE
        BY <1>0, <1>1 DEF RingTypes
      <4> QED
        BY <1>1, <1>2, <2>2, <4>1
    <3> QED
      BY <1>4, <3>1 DEF FitAt, IsBusy, IsWork
  <2>4. ASSUME NEW u \in Thread
        PROVE  FitAt(Q, pc'[u], loc'[u], canRead'[u], canWrite'[u], blockIndex', inProcessed', Len(cross'), pos')
    <3>1. CASE u = t
      <4>1. canWrite'[t] = FALSE
        BY <1>0, <1>1 DEF RingTypes
      <4> QED
        BY <1>1, <1>4, <1>6, <2>3, <3>1, <4>1
    <3>2. CASE u # t
      BY <1>1, <1>7, <2>2, <3>2
    <3> QED
      BY <3>1, <3>2
  <2>5. Fit(Q)'
    BY <2>4 DEF Fit
  <2> QED
    BY <2>5 DEF Fits
<1>20. Handover' /\ Alone'
  <2>1. ASSUME Flags', progressRes' = "ok"
        PROVE  /\ \A u \in Thread : IsBusy(pc'[u]) => u = t
               /\ ~ k.write /\ k.finish /\ numFilled = 0
    <3>1. progressRes = "ok"
      BY <1>0, <1>3, <2>1 DEF ReaderTypes
    <3>2. ~ Flags
      BY <1>0, <1>1, <1>8, <3>1 DEF Handover, IsBusy
    <3>3. ~ wasInterrupted /\ keep
      BY <1>2, <1>9, <2>1, <3>2 DEF Flags
    <3>4. l.finish
      <4>1. l.alloc \/ l.over \/ l.thread \/ l.code = "memory"
        BY <1>2, <3>3
      <4> QED
        BY <1>5, <4>1 DEF LocalAt, IsWork
    <3>5. ~ h /\ numFilled = 0
      BY <1>0, <1>2, <1>8, <3>1, <3>3 DEF Marks, Told
    <3>6. ASSUME NEW u \in Thread, IsBusy(pc'[u]), u # t PROVE FALSE
      <4>1. Busy(u)
        BY <1>7, <3>6 DEF IsBusy, Busy
      <4>2. HasRead(t)
        BY <1>1, <1>2, <3>4 DEF HasRead, Work
      <4>3. l.block = blockIndex - 1 /\ loc[u].block \in 1 .. blockIndex - 1 /\ l.block <= loc[u].block
        BY <1>2, <1>8, <4>1, <4>2 DEF Rights, Blocks, OneWrites
      <4>4. loc[u].block = l.block
        BY <1>0, <4>3 DEF RingTypes
      <4> QED
        BY <1>2, <1>8, <3>6, <4>1, <4>4 DEF Rights, Blocks
    <3> QED
      BY <1>4, <3>4, <3>5, <3>6
  <2>2. IsBusy(pc'[t])
    BY <1>6 DEF IsBusy
  <2> QED
    BY <1>1, <1>4, <1>6, <1>8, <2>1, <2>2 DEF Handover, Alone
<1>21. FilledFit'
  <2>1. Keepers' = Keepers
    <3>1. MayKeep(pc'[t], loc'[t]) = MayKeep(pc[t], loc[t])
      BY <1>1, <1>2, <1>4, <1>6 DEF MayKeep, IsWork
    <3> QED
      BY <1>7, <3>1 DEF Keepers
  <2>2. Over => Over'
    <3>1. 0 \in Thread
      BY MtDecAssumption DEF Thread
    <3> QED
      BY <1>1, <1>6, <1>7, <3>1 DEF Over
  <2> QED
    BY <1>0, <1>1, <1>8, <2>1, <2>2 DEF FilledFit
<1> QED
  BY <1>10, <1>11, <1>12, <1>13, <1>17, <1>18, <1>19, <1>20, <1>21 DEF Sizes

-----------------------------------------------------------------------------
(* Passing the right to read on. *)

\* A finite set with its number of members.
Few(S) == IsFiniteSet(S) /\ Cardinality(S) \in Nat

\* The threads that may keep their block are finitely many.
LEMMA KeepersFew ==
  ASSUME NEW S, S \subseteq Thread
  PROVE  Few(S)
<1>1. IsFiniteSet(Thread)
  BY FS_Interval, MtDecAssumption DEF Thread
<1>2. IsFiniteSet(S)
  BY <1>1, FS_Subset
<1> QED
  BY <1>2, FS_CardinalityType DEF Few

\* Fewer threads may keep their block when t no longer does.
LEMMA FewerKeep ==
  ASSUME NEW S, S \subseteq Thread, NEW T, T \subseteq S
  PROVE  Cardinality(T) <= Cardinality(S)
<1>1. IsFiniteSet(S)
  BY KeepersFew DEF Few
<1> QED
  BY <1>1, FS_Subset

\* The right to read is passed on, or not, by t with the locals l, then k.
HandedOn(t, l, k, c, st, alone) ==
  /\ c \in {"ok", "data", "memory"} /\ st \in BOOLEAN /\ alone \in BOOLEAN
  /\ l = loc[t] /\ k = loc'[t]
  /\ st <=> Stops(t)
  /\ ~ k.finish => ~ l.finish /\ ~ st /\ c = "ok"
  /\ alone => k.finish
  /\ k.finish \in BOOLEAN
  /\ pc'[t] = "code" => c = "ok" /\ ~ st
  /\ pc'[t] \in {"code", "waitWrite"}
  /\ startedLimit' \in 1 .. ThreadsMax
  /\ failures' \in 0 .. MaxFaults
  /\ k.block = l.block /\ k.links = l.links /\ k.got = l.got /\ k.size = l.size
  /\ k.first = l.first /\ k.crossed = l.crossed /\ k.needCode \in BOOLEAN
  /\ k.needWrite = l.needWrite /\ k.alloc = l.alloc /\ k.over = l.over
  /\ k.thread = alone /\ k.stop = st /\ k.code = c /\ k.write = l.write

\* What a thread knows of its block when it passes the right to read on or
\* keeps it (MtDec.c:526-585).
LEMMA HandReadLocals ==
  ASSUME Rights, Sizes, NEW t \in Thread, HandRead(t), t < numStarted
  PROVE  \E l, k, c, st, alone : HandedOn(t, l, k, c, st, alone)
<1>0. RingTypes /\ CallerTypes /\ ReaderTypes /\ ThreadTypes
  BY DEF Rights, Sizes
<1>1. PICK c, noThread :
        /\ noThread \in BOOLEAN
        /\ c \in (IF loc[t].needCode /\ ~ Stops(t) THEN PreCodeResults(t) ELSE {"ok"})
        /\ PassRead(t, c, noThread)
  <2>1. PICK c, noThread : /\ c \in (IF loc[t].needCode /\ ~ Stops(t) THEN PreCodeResults(t) ELSE {"ok"})
                           /\ noThread \in MayFail("thread") /\ PassRead(t, c, noThread)
    BY DEF HandRead
  <2>2. noThread \in BOOLEAN
    BY <2>1, MayFailIs
  <2> QED
    BY <2>1, <2>2, Zenon
<1>2. c \in {"ok", "data", "memory"}
  BY <1>1 DEF PreCodeResults, Kind
<1>3. PICK l, st : st \in BOOLEAN /\ l = loc[t] /\ st = Stops(t) /\ DOMAIN l = LocFields
  BY <1>0 DEF Stops, ThreadTypes, IsLocal, RingTypes
<1> DEFINE finish == l.finish \/ st \/ c # "ok"
           more   == ~ finish /\ MayStart(numStarted)
           alone  == noThread /\ numStarted = 1
           ends   == finish \/ alone
           n      == IF more /\ ~ noThread THEN numStarted + 1 ELSE numStarted
           coded  == l.needCode /\ ~ st /\ c = "ok"
<1>4. loc' = [loc EXCEPT ![t] =
                [l EXCEPT !.stop = st, !.code = c, !.thread = alone, !.finish = ends,
                          !.needCode = @ /\ c = "ok" /\ ~ alone,
                          !.next = IF ends THEN None ELSE NextThread(t, n)]]
  BY <1>1, <1>3 DEF PassRead
<1>5. startedLimit' = IF noThread /\ ~ alone THEN numStarted ELSE startedLimit
  BY <1>1, <1>3 DEF PassRead
<1>6. pc' = [pc EXCEPT ![n - 1] = IF n > numStarted THEN "waitRead" ELSE @,
                       ![t] = IF coded /\ ~ alone THEN "code" ELSE "waitWrite"]
  BY <1>1, <1>3 DEF PassRead
<1>7. failures' \in 0 .. MaxFaults
  <2>1. PICK q \in Nat : q = Count(noThread) + Count(c = "memory" /\ coder[t].outPre # 0)
    BY DEF Count
  <2>2. Failing(q)
    BY <1>1, <2>1 DEF PassRead
  <2> QED
    BY <1>0, <2>2, FailingTypes
<1>8. startedLimit' \in 1 .. ThreadsMax
  BY <1>0, <1>5 DEF RingTypes, ReaderTypes, Thread
<1>9. alone \in BOOLEAN /\ ends \in BOOLEAN /\ coded \in BOOLEAN
  OBVIOUS
<1>a. pc'[t] = IF coded /\ ~ alone THEN "code" ELSE "waitWrite"
  BY <1>0, <1>6 DEF RingTypes
<1>b. /\ ~ ends => ~ l.finish /\ ~ st /\ c = "ok"
      /\ alone => ends
      /\ coded => c = "ok" /\ ~ st
  OBVIOUS
<1> HIDE DEF coded, n, ends, alone
<1>10. PICK k : /\ k = loc'[t] /\ k.finish = ends
                /\ k.block = l.block /\ k.links = l.links /\ k.got = l.got /\ k.size = l.size
                /\ k.first = l.first /\ k.crossed = l.crossed /\ k.needCode \in BOOLEAN
                /\ k.needWrite = l.needWrite /\ k.alloc = l.alloc /\ k.over = l.over
                /\ k.thread = alone /\ k.stop = st /\ k.code = c /\ k.write = l.write
  <2>1. PICK h \in BOOLEAN : h = (l.needCode /\ c = "ok" /\ ~ alone)
    OBVIOUS
  <2>2. PICK next : next = IF ends THEN None ELSE NextThread(t, n)
    OBVIOUS
  <2>3. loc'[t] = [l EXCEPT !.stop = st, !.code = c, !.thread = alone, !.finish = ends,
                            !.needCode = h, !.next = next]
    BY <1>0, <1>3, <1>4, <2>1, <2>2 DEF RingTypes
  <2> QED
    BY <1>3, <2>3, ZenonT(40) DEF LocFields
<1>11. pc'[t] \in {"code", "waitWrite"} /\ (pc'[t] = "code" => coded)
  BY <1>a
<1>12. HandedOn(t, l, k, c, st, alone)
  BY <1>2, <1>3, <1>7, <1>8, <1>9, <1>10, <1>11, <1>b DEF HandedOn
<1> QED
  BY <1>12, Zenon

\* Passing the right to read on keeps Sizes (MtDec.c:526-585).
LEMMA HandReadSizes ==
  ASSUME Rights, Sizes, NEW t \in Thread, HandRead(t)
  PROVE  Sizes'
<1>0. /\ RingTypes /\ CallerTypes /\ ReaderTypes /\ WriterTypes /\ ThreadTypes
      /\ Locals /\ Marks /\ Fits /\ Handover /\ Alone /\ FilledFit
  BY DEF Rights, Sizes
<1>1. pc[t] = "hand" /\ Busy(t) /\ HasRead(t) /\ Reading(t) /\ Runs /\ main = "mt"
  <2>1. pc[t] = "hand" /\ Busy(t) /\ HasRead(t) /\ Reading(t)
    BY DEF HandRead, Busy, HasRead, Reading
  <2> QED
    BY <2>1 DEF Rights, Clear, Runs
<1>2. t < numStarted /\ numStarted > t /\ numStarted \in Nat
  BY <1>0, <1>1 DEF Rights, OnlyStarted, RingTypes, Thread
<1>3. PICK n, ends :
        /\ n \in 1 .. ThreadsMax /\ ends \in BOOLEAN
        /\ n \in {numStarted, numStarted + 1} /\ numStarted' = n
        /\ loc'[t].finish = ends
        /\ canRead' = IF ends THEN canRead ELSE [canRead EXCEPT ![NextThread(t, n)] = TRUE]
        /\ \A u \in Thread \ {t} : pc'[u] = IF u = numStarted /\ n > u THEN "waitRead" ELSE pc[u]
        /\ DOMAIN loc' = Thread
        /\ \A u \in Thread \ {t} : loc'[u] = loc[u]
        /\ UNCHANGED <<main, blockIndex, exitThread, canWrite>>
  BY <1>0, <1>2, HandReadEffect
<1>4. PICK l, k, c, st, alone : HandedOn(t, l, k, c, st, alone)
  BY <1>2, HandReadLocals
<1>5. /\ l = loc[t] /\ k = loc'[t] /\ k.finish = ends
      /\ c \in {"ok", "data", "memory"} /\ st \in BOOLEAN /\ alone \in BOOLEAN
      /\ k.block = l.block /\ k.size = l.size
      /\ ~ k.finish => ~ l.finish /\ ~ st /\ c = "ok"
      /\ alone => k.finish
      /\ k.finish \in BOOLEAN /\ pc'[t] \in {"code", "waitWrite"}
  BY <1>3, <1>4 DEF HandedOn
<1>6. UNCHANGED <<input, calls, result, tryMt, tMode, fresh, failed, coder,
                  pos, readRes, cross, crossBlock, outParsed, interrupt, progressRes,
                  wasInterrupted, isAllocError, overflow, threadingError,
                  inProcessed, filledStart, numFilled, filledSize, filledFirst>>
  BY DEF HandRead, callerVars, csVars, writerVars, filledVars, stVars
<1>7. /\ IsLocal(l) /\ IsCoder(coder[t]) /\ LocalAt("hand", l, coder[t], Told)
      /\ StopsFor("hand", l, interrupt, progressRes)
      /\ l.block = blockIndex - 1 /\ l.block \in Nat /\ l.block + 1 = blockIndex
  <2>1. IsLocal(l) /\ IsCoder(coder[t]) /\ LocalAt("hand", l, coder[t], Told) /\ StopsFor("hand", l, interrupt, progressRes)
    BY <1>0, <1>1, <1>5 DEF ThreadTypes, Locals, Marks
  <2>2. l.block = blockIndex - 1 /\ l.block \in Nat /\ blockIndex \in Nat
    BY <1>0, <1>1, <1>5 DEF Rights, Blocks, RingTypes
  <2> QED
    BY <2>1, <2>2
<1>8. \A u \in Thread \ {t} : /\ pc'[u] = pc[u] \/ (~ IsBusy(pc'[u]) /\ ~ IsBusy(pc[u]))
                              /\ loc'[u] = loc[u]
  BY <1>0, <1>3 DEF Rights, OnlyStarted, RingTypes, Busy, IsBusy
<1>9. \A u \in Thread \ {t} : ~ Reading(u)
  BY <1>1 DEF Rights, OneReads
<1>10. CallerTypes'
  BY <1>0, <1>3, <1>4, <1>6 DEF CallerTypes, HandedOn
<1>11. ReaderTypes'
  BY <1>0, <1>3, <1>4, <1>6 DEF ReaderTypes, HandedOn
<1>12. WriterTypes'
  BY <1>0, <1>6 DEF WriterTypes
<1>13. IsLocal(k)
  BY <1>4, <1>7 DEF IsLocal, HandedOn
<1>14. ThreadTypes'
  BY <1>0, <1>3, <1>5, <1>6, <1>8, <1>13 DEF ThreadTypes
<1>15. Told' = Told
  BY <1>6 DEF Told
<1>16. Locals'
  <2>1. LocalAt(pc'[t], loc'[t], coder'[t], Told')
    <3>1. /\ coder[t].used <= l.size
          /\ l.needWrite \/ l.alloc \/ l.stop
          /\ l.alloc \/ l.over => l.finish
          /\ ~ l.stop /\ ~ l.finish => coder[t].status = "new"
      BY <1>7 DEF LocalAt, IsWork
    <3>2. l.stop => st
      BY <1>4 DEF HandedOn, Stops
    <3>3. /\ coder[t].used <= k.size
          /\ k.needWrite \/ k.alloc \/ k.stop
          /\ k.needWrite \/ k.finish
          /\ k.alloc \/ k.over \/ k.thread \/ k.code = "memory" => k.finish
          /\ ~ k.finish => coder[t].status = "new"
          /\ pc'[t] = "code" => k.code = "ok" /\ ~ k.stop
      BY <1>4, <3>1, <3>2 DEF HandedOn
    <3>4. CASE pc'[t] = "code"
      <4>1. LocalAt("code", k, coder[t], Told)
        BY <3>3, <3>4 DEF LocalAt, IsBusy, IsWork
      <4> QED
        BY <1>5, <1>6, <1>15, <3>4, <4>1
    <3>5. CASE pc'[t] = "waitWrite"
      <4>1. LocalAt("waitWrite", k, coder[t], Told)
        BY <3>3 DEF LocalAt, IsBusy, IsWork
      <4> QED
        BY <1>5, <1>6, <1>15, <3>5, <4>1
    <3> QED
      BY <1>5, <3>4, <3>5
  <2>2. ASSUME NEW u \in Thread \ {t} PROVE LocalAt(pc'[u], loc'[u], coder'[u], Told')
    <3>1. LocalAt(pc[u], loc[u], coder[u], Told)
      BY <1>0 DEF Locals
    <3>2. CASE pc'[u] = pc[u]
      BY <1>6, <1>8, <1>15, <3>1, <3>2
    <3>3. CASE ~ IsBusy(pc'[u]) /\ ~ IsBusy(pc[u])
      <4>1. loc[u] = NoLoc /\ coder[u].used <= loc[u].size
        BY <3>1, <3>3 DEF LocalAt
      <4>2. pc'[u] \notin {"read", "parse", "hand", "code", "waitWrite", "write"}
        BY <3>3 DEF IsBusy
      <4> QED
        BY <1>6, <1>8, <4>1, <4>2 DEF LocalAt, IsWork
    <3> QED
      BY <1>8, <3>2, <3>3
  <2> QED
    BY <2>1, <2>2 DEF Locals
<1>17. Marks'
  <2>1. /\ \A u \in Thread : StopsFor(pc[u], loc[u], interrupt, progressRes)
        /\ interrupt # None =>
             Told \/ \E u \in Thread : pc[u] = "waitWrite" /\ loc[u].code = "data" /\ loc[u].block <= interrupt
        /\ Flags => wasInterrupted
        /\ ~ Told => numFilled = 0
    BY <1>0, <1>1 DEF Marks
  <2>2. ASSUME NEW u \in Thread PROVE StopsFor(pc'[u], loc'[u], interrupt', progressRes')
    <3>1. CASE u = t
      <4>1. PICK i, b : i = interrupt /\ b = l.block /\ i \in {None} \cup Nat /\ b \in Nat
        BY <1>0, <1>7 DEF ReaderTypes, RingTypes
      <4>2. st => l.stop \/ progressRes # "ok" \/ (i # None /\ b > i)
        BY <1>4, <4>1 DEF HandedOn, Stops, Interrupted
      <4>3. l.stop => progressRes # "ok" \/ (i # None /\ i < b)
        BY <1>7, <4>1 DEF StopsFor, IsBusy
      <4>4. st => progressRes # "ok" \/ (i # None /\ i < b)
        BY <4>1, <4>2, <4>3
      <4>5. k.stop = st /\ k.block = b
        BY <1>4, <4>1 DEF HandedOn
      <4> QED
        BY <1>5, <1>6, <3>1, <4>1, <4>4, <4>5 DEF StopsFor
    <3>2. CASE u # t
      BY <1>6, <1>8, <2>1, <3>2 DEF StopsFor
    <3> QED
      BY <3>1, <3>2
  <2>3. ASSUME NEW u \in Thread, pc[u] = "waitWrite" PROVE pc'[u] = "waitWrite" /\ loc'[u] = loc[u]
    BY <1>1, <1>8, <2>3 DEF IsBusy
  <2>4. Flags' = Flags
    BY <1>6 DEF Flags
  <2>5. numFilled' = numFilled /\ interrupt' = interrupt /\ main' = main /\ wasInterrupted' = wasInterrupted
    BY <1>3, <1>6
  <2> QED
    BY <1>15, <2>1, <2>2, <2>3, <2>4, <2>5 DEF Marks
<1>18. Fits'
  <2>1. PICK Q \in [Nat -> Nat] : Fit(Q)
    BY <1>0 DEF Fits
  <2>2. \A u \in Thread :
          FitAt(Q, pc[u], loc[u], canRead[u], canWrite[u], blockIndex, inProcessed, Len(cross), pos)
    BY <2>1 DEF Fit
  <2>3. PICK m \in Nat : m = Len(cross)
    BY <1>0 DEF ReaderTypes
  <2>4. \A u \in Thread : ~ canRead[u]
    BY <1>1, <1>9 DEF Rights, OneReads, Reading
  <2>5. FitAt(Q, "hand", l, canRead[t], canWrite[t], blockIndex, inProcessed, m, pos)
    BY <1>1, <1>5, <2>2, <2>3
  <2>6. ASSUME NEW u \in Thread, canWrite[u] \/ pc[u] = "write" PROVE IsBusy(pc[u])
    BY <1>1, <2>6 DEF Rights, OneWrites, Writing, Busy, IsBusy
  <2>7. \A u \in Thread : canWrite[u] => pc'[u] = pc[u] \/ u = t
    BY <1>8, <2>6
  <2>8. CASE ends
    <3>1. ASSUME NEW u \in Thread
          PROVE  FitAt(Q, pc'[u], loc'[u], canRead'[u], canWrite'[u], blockIndex', inProcessed', Len(cross'), pos')
      <4>1. CASE u = t
        <5>1. FitAt(Q, pc'[t], k, canRead[t], canWrite[t], blockIndex, inProcessed, m, pos)
          BY <1>5, <2>5, <2>8 DEF FitAt, IsBusy, IsWork
        <5> QED
          BY <1>3, <1>5, <1>6, <2>3, <2>8, <4>1, <5>1
      <4>2. CASE u # t /\ pc'[u] = pc[u]
        BY <1>3, <1>6, <1>8, <2>2, <2>8, <4>2
      <4>3. CASE u # t /\ ~ IsBusy(pc'[u]) /\ ~ IsBusy(pc[u])
        <5>1. ~ canRead[u] /\ ~ canWrite[u] /\ pc'[u] \notin {"read", "parse", "hand", "code", "waitWrite", "write"}
          BY <2>4, <2>6, <4>3 DEF IsBusy
        <5> QED
          BY <1>3, <2>8, <5>1 DEF FitAt, IsWork
      <4> QED
        BY <1>8, <4>1, <4>2, <4>3
    <3>2. Fit(Q)'
      BY <3>1 DEF Fit
    <3> QED
      BY <3>2 DEF Fits
  <2>9. CASE ~ ends
    <3>1. PICK b, e, s : b = blockIndex /\ e = l.block /\ s = l.size /\ b \in Nat /\ e \in Nat /\ s \in Nat /\ e + 1 = b
      BY <1>0, <1>7 DEF RingTypes, IsLocal
    <3>2. PICK P : P = [Q EXCEPT ![b] = Q[e] + s]
      OBVIOUS
    <3>3. P \in [Nat -> Nat] /\ \A i \in Nat : i # b => P[i] = Q[i]
      BY <3>1, <3>2
    <3>4. inProcessed \in Nat /\ pos \in Nat
      BY <1>0 DEF WriterTypes, ReaderTypes
    <3>5. FitAt(P, pc'[t], k, canRead'[t], canWrite[t], b, inProcessed, m, pos) /\ P[b] + m <= pos
      <4>1. FitAt(Q, "hand", l, canRead[t], canWrite[t], b, inProcessed, m, pos)
        BY <2>5, <3>1
      <4>2. k.block = e /\ k.size = s /\ ~ k.finish /\ l.block = e /\ l.size = s
        BY <1>5, <2>9, <3>1
      <4>3. P[e] = Q[e] /\ P[e] \in Nat /\ P[b] = P[e] + s /\ P[e + 1] = P[e] + s
        BY <2>1, <3>1, <3>2
      <4>4. (canWrite[t] => inProcessed <= P[e]) /\ P[e] + s + m <= pos
        BY <4>1, <4>2, <4>3 DEF FitAt, IsBusy
      <4>5. P[b] + m <= pos /\ P[e] + s <= pos
        <5>1. PICK x \in Nat, y \in Nat : x = P[e] /\ y = pos
          BY <3>4, <4>3
        <5>2. x + s + m <= y /\ m \in Nat /\ s \in Nat
          BY <2>3, <3>1, <4>4, <5>1
        <5>3. x + s + m = (x + s) + m /\ x + s <= y
          BY <5>2
        <5> QED
          BY <4>3, <5>1, <5>2, <5>3
      <4>6. pc'[t] \in {"code", "waitWrite"}
        BY <1>5
      <4> QED
        BY <3>1, <4>2, <4>3, <4>4, <4>5, <4>6 DEF FitAt, IsBusy, IsWork
    <3>6. ASSUME NEW u \in Thread \ {t}
          PROVE  FitAt(P, pc'[u], loc[u], canRead'[u], canWrite[u], b, inProcessed, m, pos)
      <4>1. pc'[u] = pc[u] \/ (~ IsBusy(pc'[u]) /\ ~ IsBusy(pc[u]))
        BY <1>8
      <4>2. CASE IsBusy(pc[u])
        <5>1. pc'[u] = pc[u]
          BY <4>1, <4>2
        <5>2. Busy(u)
          BY <4>2 DEF IsBusy, Busy
        <5>3. loc[u].block \in 1 .. b - 1 /\ loc[u].block # e
          BY <1>1, <1>5, <3>1, <5>2 DEF Rights, Blocks
        <5>4. PICK g \in Nat : g = loc[u].block /\ g # b /\ g + 1 # b
          BY <3>1, <5>3
        <5>5. P[g] = Q[g] /\ P[g + 1] = Q[g + 1]
          BY <3>3, <5>4
        <5>6. FitAt(Q, pc[u], loc[u], canRead[u], canWrite[u], b, inProcessed, m, pos)
          BY <2>2, <2>3, <3>1
        <5> QED
          BY <3>5, <4>2, <5>1, <5>4, <5>5, <5>6 DEF FitAt
      <4>3. CASE ~ IsBusy(pc[u])
        <5>1. ~ IsBusy(pc'[u]) /\ ~ canWrite[u]
          BY <2>6, <4>1, <4>3
        <5>2. pc'[u] \notin {"read", "parse", "hand", "code", "waitWrite", "write"}
          BY <5>1 DEF IsBusy
        <5> QED
          BY <3>5, <5>1, <5>2 DEF FitAt, IsWork
      <4> QED
        BY <4>2, <4>3
    <3>7. ASSUME NEW u \in Thread
          PROVE  FitAt(P, pc'[u], loc'[u], canRead'[u], canWrite'[u], blockIndex', inProcessed', Len(cross'), pos')
      <4>1. CASE u = t
        BY <1>3, <1>5, <1>6, <2>3, <3>1, <3>5, <4>1
      <4>2. CASE u # t
        <5>1. u \in Thread \ {t}
          BY <4>2
        <5>2. FitAt(P, pc'[u], loc[u], canRead'[u], canWrite[u], b, inProcessed, m, pos)
          BY <3>6, <5>1, Zenon
        <5> QED
          BY <1>3, <1>6, <1>8, <2>3, <3>1, <5>1, <5>2
      <4> QED
        BY <4>1, <4>2
    <3>8. Fit(P)'
      BY <3>7 DEF Fit
    <3> QED
      BY <3>3, <3>8 DEF Fits
  <2> QED
    BY <2>8, <2>9
<1>19. Handover' /\ Alone'
  <2>1. ~ (Flags /\ progressRes = "ok")
    BY <1>0, <1>1 DEF Handover, IsBusy
  <2>2. Flags' = Flags
    BY <1>6 DEF Flags
  <2> QED
    BY <1>1, <1>3, <1>6, <2>1, <2>2 DEF Handover, Alone
<1>20. FilledFit'
  <2>1. Keepers \subseteq Thread /\ Keepers' \subseteq Keepers
    <3>1. MayKeep(pc[t], loc[t])
      BY <1>1 DEF MayKeep
    <3>2. ASSUME NEW u \in Thread \ {t}, MayKeep(pc'[u], loc'[u]) PROVE MayKeep(pc[u], loc[u])
      <4>1. IsBusy(pc'[u])
        BY <3>2 DEF MayKeep, IsBusy, IsWork
      <4> QED
        BY <1>8, <3>2, <4>1
    <3> QED
      BY <3>1, <3>2 DEF Keepers
  <2>2. Cardinality(Keepers') <= Cardinality(Keepers)
    BY <2>1, FewerKeep
  <2>3. Cardinality(Keepers') \in Nat /\ Cardinality(Keepers) \in Nat
    <3>1. Keepers' \subseteq Thread
      BY <2>1
    <3> QED
      BY <2>1, <3>1, KeepersFew DEF Few
  <2>4. ~ Over
    BY <1>1 DEF Rights, Exits, Over, Runs
  <2>5. PICK x, y \in Nat : x = Cardinality(Keepers') /\ y = Cardinality(Keepers)
    BY <2>3
  <2>6. numFilled \in Nat
    BY <1>0 DEF WriterTypes
  <2> QED
    BY <1>0, <1>1, <1>2, <1>3, <1>6, <2>2, <2>4, <2>5, <2>6 DEF FilledFit
<1> QED
  BY <1>10, <1>11, <1>12, <1>14, <1>16, <1>17, <1>18, <1>19, <1>20 DEF Sizes

-----------------------------------------------------------------------------
(* The end of an iteration. *)

\* What the end of an iteration of t does, with the locals l and the coder c.
Written(t, l, c, fails, goesOn, kp, counts) ==
  /\ l = loc[t] /\ c = coder[t]
  /\ fails \in BOOLEAN /\ goesOn \in BOOLEAN /\ kp \in BOOLEAN /\ counts \in BOOLEAN
  /\ fails => l.write
  /\ goesOn <=> IF l.needWrite THEN l.write /\ ~ fails /\ c.status \in {"more", "new"} ELSE ~ l.finish
  /\ kp => ~ l.write
  /\ counts <=> kp /\ (l.size # 0 \/ ~ l.finish)
  /\ inProcessed' = IF l.write THEN inProcessed + c.used ELSE inProcessed
  /\ wasInterrupted' = (wasInterrupted \/ fails)
  /\ interrupt' = IF fails \/ (~ goesOn /\ ~ l.finish)
                    THEN IF interrupt = None \/ l.block < interrupt THEN l.block ELSE interrupt
                    ELSE interrupt
  /\ filledStart' = IF kp /\ numFilled = 0 THEN t ELSE filledStart
  /\ numFilled' = IF counts THEN numFilled + 1 ELSE numFilled
  /\ filledSize' = [filledSize EXCEPT ![t] = IF counts THEN l.size ELSE @]
  /\ filledFirst' = [filledFirst EXCEPT ![t] = IF counts THEN l.first ELSE @]
  /\ PassOn(t, goesOn)
  /\ failures' \in 0 .. MaxFaults /\ failed' \subseteq FaultKinds

\* The end of an iteration of t, as the code has it.
WriteEnds(t, fails) ==
  LET l      == loc[t]
      goesOn == Continues(t, fails)
      counts == Keeps(t) /\ (l.size # 0 \/ ~ l.finish)
  IN /\ inProcessed' = IF l.write THEN inProcessed + coder[t].used ELSE inProcessed
     /\ wasInterrupted' = (wasInterrupted \/ fails)
     /\ IF fails \/ (~ goesOn /\ ~ l.finish) THEN Interrupt(t) ELSE UNCHANGED interrupt
     /\ filledStart' = IF Keeps(t) /\ numFilled = 0 THEN t ELSE filledStart
     /\ numFilled' = IF counts THEN numFilled + 1 ELSE numFilled
     /\ filledSize' = [filledSize EXCEPT ![t] = IF counts THEN l.size ELSE @]
     /\ filledFirst' = [filledFirst EXCEPT ![t] = IF counts THEN l.first ELSE @]
     /\ PassOn(t, goesOn)

\* Write is the end of an iteration as WriteEnds says (MtDec.c:720-795).
LEMMA WriteIs ==
  ASSUME Sizes, NEW t \in Thread, Write(t)
  PROVE  \E l, c, fails, goesOn, kp, counts : Written(t, l, c, fails, goesOn, kp, counts)
<1>0. CallerTypes /\ ThreadTypes
  BY DEF Sizes
<1>1. PICK l, c : l = loc[t] /\ c = coder[t]
  OBVIOUS
<1>2. PICK fails : /\ fails \in (IF loc[t].write THEN MayFail("write") ELSE {FALSE})
                   /\ Failing(Count(fails)) /\ Fatal(Kind(fails, "write"))
                   /\ WriteEnds(t, fails)
  BY Zenon DEF Write, WriteEnds
<1>3. fails \in BOOLEAN /\ Count(fails) \in Nat /\ (fails => l.write)
  BY <1>1, <1>2, MayFailIs DEF Count
<1>4. PICK kp : kp \in BOOLEAN /\ (kp <=> Keeps(t)) /\ (kp => ~ l.write)
  BY <1>1 DEF Keeps
<1>5. PICK counts : counts \in BOOLEAN /\ (counts <=> kp /\ (l.size # 0 \/ ~ l.finish))
  OBVIOUS
<1>6. PICK goesOn :
        /\ goesOn \in BOOLEAN /\ goesOn = Continues(t, fails) /\ (goesOn <=> Continues(t, fails))
        /\ goesOn <=> IF l.needWrite THEN l.write /\ ~ fails /\ c.status \in {"more", "new"} ELSE ~ l.finish
  <2>1. l.write \in BOOLEAN /\ l.needWrite \in BOOLEAN
    BY <1>0, <1>1 DEF ThreadTypes, IsLocal
  <2> QED
    BY <1>1, <1>3, <2>1 DEF Continues
<1>7. failures' \in 0 .. MaxFaults
  BY <1>0, <1>2, <1>3, FailingTypes
<1>8. failed' \subseteq FaultKinds
  BY <1>0, <1>2 DEF CallerTypes, Fatal, Kind, FaultKinds
<1>9. /\ inProcessed' = IF l.write THEN inProcessed + c.used ELSE inProcessed
      /\ wasInterrupted' = (wasInterrupted \/ fails)
      /\ PassOn(t, goesOn)
  BY <1>1, <1>2, <1>6 DEF WriteEnds
<1>a. /\ numFilled' = IF counts THEN numFilled + 1 ELSE numFilled
      /\ filledSize' = [filledSize EXCEPT ![t] = IF counts THEN l.size ELSE @]
      /\ filledFirst' = [filledFirst EXCEPT ![t] = IF counts THEN l.first ELSE @]
      /\ filledStart' = IF kp /\ numFilled = 0 THEN t ELSE filledStart
  <2>1. CASE Keeps(t)
    BY <1>1, <1>2, <1>4, <1>5, <2>1 DEF WriteEnds
  <2>2. CASE ~ Keeps(t)
    BY <1>1, <1>2, <1>4, <1>5, <2>2 DEF WriteEnds
  <2> QED
    BY <2>1, <2>2
<1>b. interrupt' = IF fails \/ (~ goesOn /\ ~ l.finish)
                    THEN IF interrupt = None \/ l.block < interrupt THEN l.block ELSE interrupt
                    ELSE interrupt
  <2>1. IF fails \/ (~ Continues(t, fails) /\ ~ loc[t].finish) THEN Interrupt(t) ELSE interrupt' = interrupt
    BY <1>2, Zenon DEF WriteEnds
  <2>2. CASE fails \/ (~ goesOn /\ ~ l.finish)
    <3>1. Interrupt(t)
      BY <1>1, <1>6, <2>1, <2>2, Zenon
    <3> QED
      BY <1>1, <2>2, <3>1 DEF Interrupt
  <2>3. CASE ~ (fails \/ (~ goesOn /\ ~ l.finish))
    <3>1. interrupt' = interrupt
      BY <1>1, <1>6, <2>1, <2>3, Zenon
    <3> QED
      BY <2>3, <3>1
  <2> QED
    BY <2>2, <2>3
<1>10. Written(t, l, c, fails, goesOn, kp, counts)
  BY <1>1, <1>3, <1>4, <1>5, <1>6, <1>7, <1>8, <1>9, <1>a, <1>b, Zenon DEF Written
<1> QED
  BY <1>10, Zenon

\* What a step that ends an iteration finds (MtDec.c:664-795).
LEMMA WriteFinds ==
  ASSUME Rights, Sizes, NEW t \in Thread, pc[t] = "write"
  PROVE  /\ Runs /\ main = "mt" /\ Busy(t) /\ Writing(t) /\ ~ exitThread /\ ~ Over
         /\ loc[t].block \in 1 .. blockIndex - 1 /\ blockIndex \in Nat
         /\ \A u \in Thread : ~ canWrite[u] /\ (u # t => pc[u] # "write")
         /\ \A u \in Thread \ {t} : Busy(u) => loc[t].block < loc[u].block
         /\ loc[t].finish => /\ loc[t].block + 1 = blockIndex
                             /\ \A u \in Thread : ~ canRead[u] /\ (u # t => ~ Busy(u))
<1>0. RingTypes
  BY DEF Rights
<1>1. Busy(t) /\ Writing(t)
  BY DEF Busy, Writing
<1>2. Runs /\ main = "mt" /\ ~ exitThread
  BY <1>1 DEF Rights, Clear, Exits, Runs
<1>3. \A u \in Thread : ~ canWrite[u] /\ (u # t => pc[u] # "write")
  BY <1>1 DEF Rights, OneWrites, Writing
<1>4. \A u \in Thread : Busy(u) => loc[u].block \in 1 .. blockIndex - 1
  BY DEF Rights, Blocks
<1>5. \A u \in Thread \ {t} : Busy(u) => loc[t].block < loc[u].block
  <2>1. \A u \in Thread : Busy(u) => loc[t].block <= loc[u].block
    BY <1>1 DEF Rights, OneWrites
  <2> QED
    BY <1>0, <1>1, <1>4, <2>1 DEF Rights, Blocks, RingTypes
<1>6. ASSUME loc[t].finish
      PROVE  /\ loc[t].block + 1 = blockIndex
             /\ \A u \in Thread : ~ canRead[u] /\ (u # t => ~ Busy(u))
  <2>1. HasRead(t) /\ Reading(t)
    BY <1>6 DEF HasRead, Reading, Work
  <2>2. loc[t].block = blockIndex - 1
    BY <2>1 DEF Rights, Blocks
  <2>3. \A u \in Thread : ~ canRead[u]
    BY <2>1 DEF Rights, OneReads, Reading
  <2> QED
    BY <1>0, <1>4, <1>5, <2>2, <2>3 DEF RingTypes
<1>7. loc[t].block \in 1 .. blockIndex - 1 /\ blockIndex \in Nat
  BY <1>0, <1>1, <1>4 DEF RingTypes
<1> QED
  BY <1>1, <1>2, <1>3, <1>5, <1>6, <1>7 DEF Over, Runs

\* Where the rights go (MtDec.c:774-794).
LEMMA PassOnIs ==
  ASSUME RingTypes, NEW t \in Thread, NEW goesOn \in BOOLEAN, PassOn(t, goesOn),
         pc[t] = "write", loc' = [loc EXCEPT ![t] = NoLoc]
  PROVE  /\ ~ IsBusy(pc'[t]) /\ loc'[t] = NoLoc
         /\ \A u \in Thread \ {t} : pc'[u] = pc[u] /\ loc'[u] = loc[u]
         /\ loc[t].finish /\ ~ goesOn => Over'
         /\ ~ loc[t].finish => canRead' = canRead /\ canWrite' = [canWrite EXCEPT ![loc[t].next] = TRUE]
<1>1. pc' = [pc EXCEPT ![t] = IF loc[t].finish /\ ~ goesOn /\ t = 0 THEN "ended" ELSE "waitRead"]
  BY DEF PassOn, Goto
<1>2. pc'[t] = IF loc[t].finish /\ ~ goesOn /\ t = 0 THEN "ended" ELSE "waitRead"
  BY <1>1 DEF RingTypes
<1>3. ~ IsBusy(pc'[t]) /\ loc'[t] = NoLoc
  BY <1>2 DEF IsBusy, RingTypes
<1>4. \A u \in Thread \ {t} : pc'[u] = pc[u] /\ loc'[u] = loc[u]
  BY <1>1 DEF RingTypes
<1>5. loc[t].finish /\ ~ goesOn => Over'
  BY <1>2 DEF PassOn, Over
<1>6. ~ loc[t].finish => canRead' = canRead /\ canWrite' = [canWrite EXCEPT ![loc[t].next] = TRUE]
  BY DEF PassOn
<1> QED
  BY <1>3, <1>4, <1>5, <1>6

\* Started threads that keep a block leave room for one more kept block
\* (MtDec.c:754-772).
LEMMA FewerStarted ==
  ASSUME NEW n \in Nat, NEW S, S \subseteq 0 .. n - 1
  PROVE  IsFiniteSet(S) /\ Cardinality(S) \in Nat /\ Cardinality(S) <= n
<1>1. IsFiniteSet(0 .. n - 1) /\ Cardinality(0 .. n - 1) = n
  BY FS_Interval
<1>2. IsFiniteSet(S) /\ Cardinality(S) <= n
  BY <1>1, FS_Subset
<1> QED
  BY <1>2, FS_CardinalityType

\* The end of an iteration keeps Sizes: what is decoded was read, and the blocks
\* after an interruption are kept for the single thread (MtDec.c:720-795).
LEMMA WriteSizes ==
  ASSUME Rights, Sizes, NEW t \in Thread, Write(t)
  PROVE  Sizes'
<1>0. /\ RingTypes /\ CallerTypes /\ ReaderTypes /\ WriterTypes /\ ThreadTypes
      /\ Locals /\ Marks /\ Fits /\ Handover /\ Alone /\ FilledFit
  BY DEF Rights, Sizes
<1>1. /\ pc[t] = "write" /\ loc' = [loc EXCEPT ![t] = NoLoc]
      /\ coder' = [coder EXCEPT ![t] = NoCoder]
      /\ UNCHANGED <<main, input, calls, result, tryMt, tMode, fresh,
                     pos, readRes, blockIndex, cross, crossBlock, numStarted, startedLimit,
                     outParsed,
                     progressRes, isAllocError, overflow, threadingError>>
  BY DEF Write, callerVars, readerVars, stVars
<1>2. PICK l, c, fails, goesOn, kp, counts : Written(t, l, c, fails, goesOn, kp, counts)
  BY <1>0, WriteIs
<1>3. /\ l = loc[t] /\ c = coder[t]
      /\ fails \in BOOLEAN /\ goesOn \in BOOLEAN /\ kp \in BOOLEAN /\ counts \in BOOLEAN
      /\ PassOn(t, goesOn)
  BY <1>2 DEF Written
<1>4. /\ Runs /\ main = "mt" /\ Busy(t) /\ Writing(t) /\ ~ exitThread /\ ~ Over
      /\ l.block \in 1 .. blockIndex - 1 /\ blockIndex \in Nat
      /\ \A u \in Thread : ~ canWrite[u] /\ (u # t => pc[u] # "write")
      /\ \A u \in Thread \ {t} : Busy(u) => l.block < loc[u].block
      /\ l.finish => /\ l.block + 1 = blockIndex
                     /\ \A u \in Thread : ~ canRead[u] /\ (u # t => ~ Busy(u))
  BY <1>1, <1>3, WriteFinds
<1>5. /\ ~ IsBusy(pc'[t]) /\ loc'[t] = NoLoc
      /\ \A u \in Thread \ {t} : pc'[u] = pc[u] /\ loc'[u] = loc[u]
      /\ l.finish /\ ~ goesOn => Over'
      /\ ~ l.finish => canRead' = canRead /\ canWrite' = [canWrite EXCEPT ![l.next] = TRUE]
  BY <1>0, <1>1, <1>3, PassOnIs
<1>6. /\ IsLocal(l) /\ IsCoder(c) /\ LocalAt("write", l, c, Told)
      /\ DOMAIN coder' = Thread /\ coder'[t] = NoCoder /\ DOMAIN loc' = Thread
      /\ \A u \in Thread \ {t} : coder'[u] = coder[u]
  BY <1>0, <1>1, <1>3 DEF ThreadTypes, Locals, RingTypes
<1>7. /\ c.used <= l.size /\ (l.needWrite \/ l.finish) /\ (~ l.finish => c.status = "new")
      /\ ~ l.write => Told
  BY <1>6 DEF LocalAt, IsWork
<1>8. /\ ~ l.write /\ l.finish => ~ goesOn
      /\ ~ l.finish /\ ~ goesOn /\ ~ fails => ~ l.write
      /\ ~ l.finish /\ ~ l.write => ~ goesOn
      /\ counts => ~ l.write
  BY <1>2, <1>7 DEF Written
<1>9. Told \in BOOLEAN /\ Told' \in BOOLEAN /\ (Told => Told') /\ (fails => Told')
  BY <1>1, <1>2 DEF Told, Written
<1>10. CallerTypes'
  BY <1>0, <1>1, <1>2 DEF CallerTypes, Written
<1>11. PICK i, j, b : /\ i = interrupt /\ j = interrupt' /\ b = l.block
                      /\ i \in {None} \cup Nat /\ b \in Nat \ {0} /\ b < blockIndex
                      /\ j = IF fails \/ (~ goesOn /\ ~ l.finish) THEN IF i = None \/ b < i THEN b ELSE i ELSE i
  <2>1. l.block \in Nat \ {0} /\ l.block < blockIndex /\ interrupt \in {None} \cup Nat
    BY <1>0, <1>4 DEF ReaderTypes, RingTypes
  <2> QED
    BY <1>2, <2>1 DEF Written
<1>12. /\ j \in {None} \cup Nat
       /\ i # None => j # None /\ j <= i
       /\ fails \/ (~ goesOn /\ ~ l.finish) => j # None /\ j <= b
  BY <1>11 DEF None
<1>13. ReaderTypes'
  <2>1. j \in {None} \cup 1 .. blockIndex
    <3>1. i \in {None} \cup 1 .. blockIndex
      BY <1>0, <1>11 DEF ReaderTypes
    <3> QED
      BY <1>4, <1>11, <3>1
  <2> QED
    BY <1>0, <1>1, <1>11, <2>1 DEF ReaderTypes
<1>14. PICK s, used, n, ps, ip, iq :
         /\ s = l.size /\ used = c.used /\ n = Len(cross) /\ ps = pos
         /\ ip = inProcessed /\ iq = inProcessed'
         /\ s \in Nat /\ used \in Nat /\ n \in Nat /\ ps \in Nat /\ ip \in Nat /\ iq \in Nat
         /\ used <= s
         /\ iq <= ip + s /\ (~ l.write => iq = ip)
  <2>1. l.size \in Nat /\ c.used \in Nat /\ Len(cross) \in Nat /\ pos \in Nat /\ inProcessed \in Nat
    BY <1>0, <1>6 DEF IsLocal, IsCoder, ReaderTypes, WriterTypes
  <2>2. inProcessed' = IF l.write THEN inProcessed + c.used ELSE inProcessed
    BY <1>2 DEF Written
  <2>3. inProcessed' \in Nat /\ inProcessed' <= inProcessed + l.size /\ (~ l.write => inProcessed' = inProcessed)
    BY <1>7, <2>1, <2>2
  <2> QED
    BY <1>7, <2>1, <2>3
<1>a. s \in Nat /\ n \in Nat /\ ps \in Nat /\ ip \in Nat /\ iq \in Nat /\ iq <= ip + s
  BY <1>14
<1>15. PICK Q \in [Nat -> Nat] : Fit(Q)
  BY <1>0 DEF Fits
<1>16. \A u \in Thread : FitAt(Q, pc[u], loc[u], canRead[u], canWrite[u], blockIndex, ip, n, ps)
  BY <1>14, <1>15 DEF Fit
<1>17. PICK p \in Nat : /\ p = Q[b] /\ ip <= p /\ p + s <= ps
                        /\ l.finish => p + s + n <= ps
                        /\ ~ l.finish => p + s <= Q[b + 1]
  <2>1. FitAt(Q, "write", l, canRead[t], canWrite[t], blockIndex, ip, n, ps)
    BY <1>1, <1>3, <1>16
  <2>2. PICK p \in Nat : p = Q[b]
    BY <1>11, <1>15
  <2>3. /\ ip <= p
        /\ l.finish => p + s + n <= ps
        /\ ~ l.finish => p + s <= Q[b + 1] /\ p + s <= ps
    BY <1>11, <1>14, <2>1, <2>2 DEF FitAt, IsBusy, IsWork
  <2>4. p \in Nat
    BY <2>2
  <2>5. p + s + n <= ps => p + s <= ps
    BY <1>a, <2>4
  <2>6. p + s <= ps
    BY <2>3, <2>5
  <2> QED
    BY <2>2, <2>3, <2>6
<1>b. p \in Nat /\ ip <= p /\ p + s <= ps
  BY <1>17
<1>18. iq <= p + s /\ iq <= ps /\ p + s \in Nat
  BY <1>a, <1>b
<1>19. WriterTypes'
  <2>1. /\ filledStart' \in Thread /\ numFilled' \in Nat /\ wasInterrupted' \in BOOLEAN
    BY <1>0, <1>2 DEF Written, WriterTypes
  <2>2. PICK x, y : x = l.size /\ y = l.first /\ x \in Nat /\ y \in Nat /\ y <= x
    BY <1>6 DEF IsLocal
  <2>3. /\ filledSize' = [filledSize EXCEPT ![t] = IF counts THEN x ELSE @]
        /\ filledFirst' = [filledFirst EXCEPT ![t] = IF counts THEN y ELSE @]
    BY <1>2, <2>2 DEF Written
  <2>4. /\ filledSize' \in [Thread -> Nat] /\ filledFirst' \in [Thread -> Nat]
        /\ \A u \in Thread : filledFirst'[u] <= filledSize'[u]
    BY <1>0, <2>2, <2>3 DEF WriterTypes
  <2>5. inProcessed' \in Nat /\ inProcessed' <= pos'
    BY <1>1, <1>14, <1>18
  <2>6. isAllocError' \in BOOLEAN /\ overflow' \in BOOLEAN /\ threadingError' \in BOOLEAN
    BY <1>0, <1>1 DEF WriterTypes
  <2> QED
    BY <2>1, <2>4, <2>5, <2>6 DEF WriterTypes
<1>20. ThreadTypes'
  <2>1. IsLocal(NoLoc)
    <3>1. <<>> \in Seq(Nat) /\ 0 <= 0
      OBVIOUS
    <3> QED
      BY <3>1 DEF IsLocal, NoLoc
  <2>2. IsCoder(NoCoder)
    BY DEF IsCoder, NoCoder, CoderFields
  <2> QED
    BY <1>0, <1>5, <1>6, <2>1, <2>2 DEF ThreadTypes
<1>21. Locals'
  <2>1. LocalAt(pc'[t], loc'[t], coder'[t], Told')
    <3>1. pc'[t] \notin {"read", "parse", "hand", "code", "waitWrite", "write"}
      BY <1>5 DEF IsBusy
    <3>2. NoCoder.used <= NoLoc.size
      BY DEF NoCoder, NoLoc
    <3> QED
      BY <1>5, <1>6, <3>1, <3>2 DEF LocalAt, IsWork
  <2>2. ASSUME NEW u \in Thread \ {t} PROVE LocalAt(pc'[u], loc'[u], coder'[u], Told')
    <3>1. LocalAt(pc[u], loc[u], coder[u], Told)
      BY <1>0 DEF Locals
    <3>2. LocalAt(pc[u], loc[u], coder[u], Told')
      BY <1>9, <3>1, LocalLater
    <3> QED
      BY <1>5, <1>6, <3>2
  <2> QED
    BY <2>1, <2>2 DEF Locals
<1>22. Marks'
  <2>1. /\ \A u \in Thread : StopsFor(pc[u], loc[u], interrupt, progressRes)
        /\ interrupt # None =>
             Told \/ \E u \in Thread : pc[u] = "waitWrite" /\ loc[u].code = "data" /\ loc[u].block <= interrupt
        /\ Flags => wasInterrupted
        /\ ~ Told => numFilled = 0
    BY <1>0, <1>4 DEF Marks
  <2>2. Flags' => wasInterrupted'
    BY <1>1, <1>2, <2>1 DEF Flags, Written
  <2>3. ASSUME NEW u \in Thread PROVE StopsFor(pc'[u], loc'[u], interrupt', progressRes')
    <3>1. CASE u = t
      BY <1>5, <3>1 DEF StopsFor
    <3>2. CASE u # t
      <4>1. StopsFor(pc[u], loc[u], i, progressRes)
        BY <1>11, <2>1
      <4>2. PICK g \in Nat : g = loc[u].block
        BY <1>0 DEF RingTypes
      <4>3. i # None /\ i < g => j # None /\ j < g
        BY <1>11, <1>12
      <4>4. StopsFor(pc[u], loc[u], j, progressRes)
        BY <4>1, <4>2, <4>3 DEF StopsFor
      <4> QED
        BY <1>1, <1>5, <1>11, <3>2, <4>4
    <3> QED
      BY <3>1, <3>2
  <2>4. ASSUME interrupt' # None, ~ Told'
        PROVE  \E u \in Thread : pc'[u] = "waitWrite" /\ loc'[u].code = "data" /\ loc'[u].block <= interrupt'
    <3>1. ~ Told /\ ~ fails
      BY <1>9, <2>4
    <3>2. l.write
      BY <1>7, <3>1
    <3>3. ~ (fails \/ (~ goesOn /\ ~ l.finish))
      BY <1>8, <3>1, <3>2
    <3>4. j = i
      BY <1>11, <3>3
    <3>5. PICK u \in Thread : pc[u] = "waitWrite" /\ loc[u].code = "data" /\ loc[u].block <= interrupt
      BY <1>11, <2>1, <2>4, <3>1, <3>4
    <3>6. u # t
      BY <1>1, <3>5
    <3> QED
      BY <1>5, <1>11, <3>4, <3>5, <3>6
  <2>5. ASSUME ~ Told' PROVE numFilled' = 0
    <3>1. l.write /\ numFilled = 0
      BY <1>7, <1>9, <2>1, <2>5
    <3> QED
      BY <1>2, <1>8, <3>1 DEF Written
  <2> QED
    BY <2>2, <2>3, <2>4, <2>5 DEF Marks
<1>24. Fits'
  <2>1. CASE l.finish
    <3>1. PICK e \in Nat : e = blockIndex /\ e # b
      BY <1>4, <1>11
    <3>2. PICK P : P = [Q EXCEPT ![e] = p + s]
      OBVIOUS
    <3>3. P \in [Nat -> Nat] /\ P[e] = p + s
      BY <1>15, <1>18, <3>1, <3>2
    <3>4. iq <= P[e] /\ P[e] + n <= ps
      <4>1. p + s + n <= ps /\ p + s + n = (p + s) + n
        BY <1>17, <2>1
      <4> QED
        BY <1>18, <3>3, <4>1
    <3>5. ASSUME NEW u \in Thread
          PROVE  FitAt(P, pc'[u], loc'[u], canRead'[u], canWrite'[u], blockIndex', inProcessed', Len(cross'), pos')
      <4>1. ~ IsBusy(pc'[u])
        BY <1>4, <1>5, <2>1 DEF Busy, IsBusy
      <4>2. pc'[u] \notin {"read", "parse", "hand", "code", "waitWrite", "write"}
        BY <4>1 DEF IsBusy
      <4>3. FitAt(P, pc'[u], loc'[u], canRead'[u], canWrite'[u], e, iq, n, ps)
        BY <3>4, <4>1, <4>2 DEF FitAt, IsWork
      <4> QED
        BY <1>1, <1>14, <3>1, <4>3
    <3>6. Fit(P)'
      BY <3>5 DEF Fit
    <3> QED
      BY <3>3, <3>6 DEF Fits
  <2>2. CASE ~ l.finish
    <3>1. PICK v \in Thread : /\ v = l.next
                              /\ \/ canRead[v] /\ blockIndex = b + 1
                                 \/ Busy(v) /\ loc[v].block = b + 1
      BY <1>1, <1>3, <1>11, <2>2 DEF Rights, Chain, Work
    <3>2. canRead' = canRead /\ \A u \in Thread : canWrite'[u] => u = v
      BY <1>0, <1>4, <1>5, <2>2, <3>1 DEF RingTypes
    <3>3. PICK x \in Nat : x = Q[b + 1] /\ iq <= x
      <4>1. Q[b + 1] \in Nat /\ p + s <= Q[b + 1]
        BY <1>11, <1>15, <1>17, <2>2
      <4>2. PICK x \in Nat : x = Q[b + 1] /\ p + s <= x
        BY <4>1
      <4>3. iq <= x
        <5>1. x \in Nat /\ p + s <= x
          BY <4>2
        <5> QED
          BY <1>a, <1>18, <5>1
      <4> QED
        BY <4>2, <4>3
    <3>4. ASSUME NEW u \in Thread
          PROVE  FitAt(Q, pc'[u], loc'[u], canRead[u], canWrite'[u], blockIndex, iq, n, ps)
      <4>1. FitAt(Q, pc[u], loc[u], canRead[u], canWrite[u], blockIndex, ip, n, ps)
        BY <1>16
      <4>2. ~ canWrite[u]
        BY <1>4
      <4>3. CASE u = t
        <5>1. ~ IsBusy(pc'[t]) /\ pc'[t] \notin {"read", "parse", "hand", "code", "waitWrite", "write"}
          BY <1>5 DEF IsBusy
        <5>2. canRead[t] => Q[blockIndex] + n <= ps
          BY <4>1, <4>3 DEF FitAt
        <5>3. canWrite'[t] => iq <= Q[blockIndex]
          <6>1. ASSUME canWrite'[t] PROVE iq <= Q[blockIndex]
            <7>1. v = t
              BY <3>2, <6>1
            <7>2. blockIndex = b + 1
              BY <1>3, <1>11, <3>1, <7>1
            <7> QED
              BY <3>3, <7>2
          <6> QED
            BY <6>1
        <5> QED
          BY <4>3, <5>1, <5>2, <5>3 DEF FitAt, IsWork
      <4>4. CASE u # t
        <5>1. pc'[u] = pc[u] /\ loc'[u] = loc[u] /\ pc[u] # "write"
          BY <1>4, <1>5, <4>4
        <5>2. canWrite'[u] => iq <= IF IsBusy(pc[u]) THEN Q[loc[u].block] ELSE Q[blockIndex]
          <6>1. ASSUME canWrite'[u] PROVE iq <= IF IsBusy(pc[u]) THEN Q[loc[u].block] ELSE Q[blockIndex]
            <7>1. v = u
              BY <3>2, <6>1
            <7>2. CASE Busy(u) /\ loc[u].block = b + 1
              BY <3>3, <7>2 DEF Busy, IsBusy
            <7>3. CASE canRead[u] /\ blockIndex = b + 1
              <8>1. ~ Busy(u)
                <9>1. ASSUME Busy(u) PROVE FALSE
                  <10>1. loc[u].block \in 1 .. blockIndex - 1 /\ b < loc[u].block
                    BY <1>4, <1>11, <4>4, <9>1 DEF Rights, Blocks
                  <10> QED
                    BY <1>4, <1>11, <7>3, <10>1
                <9> QED
                  BY <9>1
              <8> QED
                BY <3>3, <7>3, <8>1 DEF Busy, IsBusy
            <7> QED
              BY <3>1, <7>1, <7>2, <7>3
          <6> QED
            BY <6>1
        <5> QED
          BY <4>1, <5>1, <5>2 DEF FitAt
      <4> QED
        BY <4>3, <4>4
    <3>5. ASSUME NEW u \in Thread
          PROVE  FitAt(Q, pc'[u], loc'[u], canRead'[u], canWrite'[u], blockIndex', inProcessed', Len(cross'), pos')
      BY <1>1, <1>14, <3>2, <3>4
    <3>6. Fit(Q)'
      BY <3>5 DEF Fit
    <3> QED
      BY <3>6 DEF Fits
  <2> QED
    BY <2>1, <2>2
<1>25. Handover' /\ Alone'
  <2>1. main' = main /\ Flags' = Flags /\ progressRes' = progressRes
    BY <1>1 DEF Flags
  <2>2. ASSUME Flags, progressRes = "ok"
        PROVE  (\A u \in Thread : ~ IsBusy(pc'[u])) /\ Over' /\ KeptFits'
    <3>1. ~ l.write /\ l.finish /\ numFilled = 0
      BY <1>0, <1>1, <1>3, <1>4, <2>2 DEF Handover, IsBusy
    <3>2. \A u \in Thread : ~ IsBusy(pc'[u])
      BY <1>4, <1>5, <3>1 DEF Busy, IsBusy
    <3>3. Over'
      BY <1>5, <1>8, <3>1
    <3>4. KeptFits'
      <4>1. iq = ip /\ ip + s + n <= ps /\ ip + 0 + n <= ps
        <5>1. iq = ip /\ p + s + n <= ps
          BY <1>14, <1>17, <3>1
        <5>2. ip + s + n <= ps /\ ip + 0 + n <= ps
          BY <1>a, <1>b, <5>1
        <5> QED
          BY <5>1, <5>2
      <4>2. CASE counts
        <5>1. numFilled' = 1 /\ filledStart' = t /\ filledSize'[t] = s
          BY <1>0, <1>2, <1>14, <3>1, <4>2 DEF Written, WriterTypes
        <5>2. pos' = ps /\ Len(cross') = n /\ inProcessed' = iq
          BY <1>1, <1>14
        <5> QED
          BY <4>1, <5>1, <5>2 DEF KeptFits
      <4>3. CASE ~ counts
        <5>1. numFilled' = 0
          BY <1>2, <3>1, <4>3 DEF Written
        <5>2. pos' = ps /\ Len(cross') = n /\ inProcessed' = iq
          BY <1>1, <1>14
        <5> QED
          BY <4>1, <5>1, <5>2 DEF KeptFits
      <4> QED
        BY <4>2, <4>3
    <3> QED
      BY <3>2, <3>3, <3>4
  <2> QED
    BY <1>4, <2>1, <2>2 DEF Handover, Alone
<1>26. FilledFit'
  <2>1. /\ Keepers \subseteq 0 .. numStarted - 1 /\ Keepers' = Keepers \ {t}
        /\ (counts => t \in Keepers) /\ numStarted \in 0 .. ThreadsMax /\ ThreadsMax \in Nat
    <3>1. ASSUME NEW u \in Keepers PROVE u \in 0 .. numStarted - 1
      <4>1. u \in Thread /\ Busy(u)
        BY DEF Keepers, MayKeep, IsWork, Busy
      <4> QED
        BY <1>0, <4>1 DEF Rights, OnlyStarted, RingTypes, Thread
    <3>2. ~ MayKeep(pc'[t], loc'[t])
      BY <1>5 DEF MayKeep, IsBusy, IsWork
    <3>3. \A u \in Thread \ {t} : MayKeep(pc'[u], loc'[u]) = MayKeep(pc[u], loc[u])
      BY <1>5
    <3>4. Keepers' = Keepers \ {t}
      BY <3>2, <3>3 DEF Keepers
    <3>5. counts => t \in Keepers
      BY <1>1, <1>2, <1>3 DEF Written, Keepers, MayKeep, IsWork
    <3> QED
      BY <1>0, <3>1, <3>4, <3>5, MtDecAssumption DEF RingTypes
  <2>2. PICK x, y, N, f, h :
          /\ x = Cardinality(Keepers) /\ y = Cardinality(Keepers') /\ N = numStarted
          /\ f = numFilled /\ h = numFilled'
          /\ x \in Nat /\ y \in Nat /\ N \in Nat /\ N <= ThreadsMax /\ f \in Nat
          /\ x <= N /\ y <= x /\ (counts => y = x - 1)
          /\ h = IF counts THEN f + 1 ELSE f
    <3>0. PICK N \in Nat : N = numStarted /\ Keepers \subseteq 0 .. N - 1 /\ Keepers \ {t} \subseteq 0 .. N - 1
                           /\ N <= ThreadsMax
      <4>1. numStarted \in Nat /\ numStarted <= ThreadsMax
        BY <2>1
      <4>2. Keepers \subseteq 0 .. numStarted - 1 /\ Keepers \ {t} \subseteq 0 .. numStarted - 1
        BY <2>1, Zenon
      <4> QED
        BY <4>1, <4>2, Zenon
    <3>1. IsFiniteSet(Keepers) /\ Cardinality(Keepers) \in Nat /\ Cardinality(Keepers) <= N
      BY <3>0, FewerStarted
    <3>2. Cardinality(Keepers \ {t}) = IF t \in Keepers THEN Cardinality(Keepers) - 1 ELSE Cardinality(Keepers)
      BY <3>1, FS_RemoveElement
    <3>3. Cardinality(Keepers \ {t}) \in Nat
      BY <3>0, FewerStarted
    <3>4. numFilled \in Nat /\ numFilled' = IF counts THEN numFilled + 1 ELSE numFilled
      BY <1>0, <1>2 DEF WriterTypes, Written
    <3>5. Cardinality(Keepers') = IF t \in Keepers THEN Cardinality(Keepers) - 1 ELSE Cardinality(Keepers)
      BY <2>1, <3>2
    <3>6. Cardinality(Keepers') \in Nat
      BY <2>1, <3>3
    <3> QED
      <4>1. PICK x \in Nat, y \in Nat, f \in Nat :
              x = Cardinality(Keepers) /\ y = Cardinality(Keepers') /\ f = numFilled
        BY <3>1, <3>4, <3>6
      <4>2. x <= N /\ (y = IF t \in Keepers THEN x - 1 ELSE x)
        BY <3>0, <3>1, <3>5, <4>1
      <4>3. y <= x
        BY <4>1, <4>2
      <4> QED
        BY <2>1, <3>0, <3>4, <4>1, <4>2, <4>3
  <2>3. f # 0 => x + f <= N
    BY <1>0, <1>4, <2>2 DEF FilledFit
  <2>4. h # 0 => y + h <= N
    BY <2>2, <2>3
  <2>5. h # 0 => Over' \/ (j # None /\ j < blockIndex)
    <3>1. CASE f # 0
      <4>1. i # None /\ i < blockIndex
        BY <1>0, <1>4, <1>11, <2>2, <3>1 DEF FilledFit
      <4> QED
        BY <1>4, <1>11, <1>12, <4>1
    <3>2. CASE f = 0 /\ counts
      <4>1. ~ l.write
        BY <1>8, <3>2
      <4>2. CASE l.finish
        BY <1>5, <1>8, <4>1, <4>2
      <4>3. CASE ~ l.finish
        <5>1. j # None /\ j <= b
          BY <1>8, <1>12, <4>1, <4>3
        <5> QED
          BY <1>4, <1>11, <1>12, <5>1
      <4> QED
        BY <4>2, <4>3
    <3>3. CASE f = 0 /\ ~ counts
      BY <2>2, <3>3
    <3> QED
      BY <1>3, <3>1, <3>2, <3>3
  <2>6. h <= ThreadsMax
    BY <2>1, <2>2, <2>4
  <2>7. y + h <= N => Cardinality(Keepers') + numFilled' <= numStarted'
    BY <1>1, <2>2
  <2>8. j # None /\ j < blockIndex => interrupt' # None /\ interrupt' < blockIndex'
    BY <1>1, <1>11
  <2> QED
    BY <2>2, <2>4, <2>5, <2>6, <2>7, <2>8 DEF FilledFit
<1> QED
  BY <1>10, <1>13, <1>19, <1>20, <1>21, <1>22, <1>24, <1>25, <1>26 DEF Sizes

-----------------------------------------------------------------------------
(* The caller, and the theorems. *)

\* One round of Lzma2Dec_Decode_ST uses no more than the piece of n units it is
\* given (Lzma2DecMt.c:710-797).
LEMMA DecodePieceTypes ==
  ASSUME CallerTypes, inProcessed \in Nat, NEW w, NEW n \in Nat, Len(w) = n, NEW e \in BOOLEAN,
         DecodePiece(w, e)
  PROVE  /\ inProcessed' \in Nat /\ inProcessed' <= inProcessed + n
         /\ fresh' \in BOOLEAN /\ failures' \in 0 .. MaxFaults /\ failed' \subseteq FaultKinds
         /\ main' \in {"st", "result"}
<1>1. PICK d : d = Decode(input.kind, w, fresh, input.outSize - Len(out), input.finish)
  OBVIOUS
<1>2. d.used \in 0 .. n
  BY <1>1, DecodeFits
<1>3. PICK fails, f : /\ fails \in MayFail("write") /\ f \in MayFail("progress")
                      /\ Failing(Count(e) + Count(fails \/ f))
                      /\ Fatal(Kind(e, "read") \cup Kind(fails, "write") \cup Kind(f, "progress"))
                      /\ inProcessed' = inProcessed + d.used
                      /\ fresh' = (fresh /\ d.used = 0)
                      /\ main' = IF d.status = "more" /\ sres' = "ok" THEN "st" ELSE "result"
  BY <1>1 DEF DecodePiece
<1>4. failures' \in 0 .. MaxFaults
  <2>1. PICK q \in Nat : q = Count(e) + Count(fails \/ f)
    BY DEF Count
  <2> QED
    BY <1>3, <2>1, FailingTypes
<1>5. failed' \subseteq FaultKinds
  BY <1>3 DEF CallerTypes, Fatal, Kind, FaultKinds
<1>6. fresh' \in BOOLEAN /\ main' \in {"st", "result"}
  BY <1>3
<1> QED
  BY <1>2, <1>3, <1>4, <1>5, <1>6

\* Outside of the ring little is to be kept (Lzma2DecMt.c:637-797).
LEMMA OutsideSizes ==
  ASSUME Rights', Sizes, CallerTypes', ReaderTypes', WriterTypes', ~ Runs, ~ Runs', Rights, main' # "mt",
         UNCHANGED <<loc, coder>>, Alone', numFilled' <= ThreadsMax
  PROVE  Sizes'
<1>1. \A t \in Thread : ~ IsBusy(pc[t]) /\ ~ IsBusy(pc'[t]) /\ ~ canRead'[t] /\ ~ canWrite'[t]
  BY DEF Rights, Clear, Busy, IsBusy
<1>2. ThreadTypes'
  BY DEF Sizes, ThreadTypes
<1>3. Locals'
  <2>1. ASSUME NEW u \in Thread PROVE LocalAt(pc'[u], loc'[u], coder'[u], Told')
    <3>1. LocalAt(pc[u], loc[u], coder[u], Told)
      BY DEF Sizes, Locals
    <3>2. loc[u] = NoLoc /\ coder[u].used <= loc[u].size
      BY <1>1, <3>1 DEF LocalAt
    <3>3. pc'[u] \notin {"read", "parse", "hand", "code", "waitWrite", "write"}
      BY <1>1 DEF IsBusy
    <3> QED
      BY <3>2, <3>3 DEF LocalAt, IsWork
  <2> QED
    BY <2>1 DEF Locals
<1>4. Marks'
  BY <1>1 DEF Marks, StopsFor
<1>5. Fits'
  <2>1. PICK Q : Q = [i \in Nat |-> 0]
    OBVIOUS
  <2>2. ASSUME NEW u \in Thread
        PROVE  FitAt(Q, pc'[u], loc'[u], canRead'[u], canWrite'[u], blockIndex', inProcessed', Len(cross'), pos')
    <3>1. pc'[u] \notin {"read", "parse", "hand", "code", "waitWrite", "write"}
      BY <1>1 DEF IsBusy
    <3> QED
      BY <1>1, <3>1 DEF FitAt, IsWork
  <2>3. Fit(Q)' /\ Q \in [Nat -> Nat]
    BY <2>1, <2>2 DEF Fit
  <2> QED
    BY <2>3 DEF Fits
<1>6. Handover' /\ FilledFit'
  BY DEF Handover, FilledFit
<1> QED
  BY <1>2, <1>3, <1>4, <1>5, <1>6 DEF Sizes

\* MtDec_Code starts with nothing read, held or decoded (MtDec.c:1017-1084).
LEMMA StartSizes ==
  ASSUME Rights, Sizes, Start
  PROVE  Sizes'
<1>0. /\ RingTypes /\ CallerTypes /\ ReaderTypes /\ WriterTypes /\ ThreadTypes
      /\ Locals /\ FilledFit /\ 0 \in Thread /\ ThreadsMax \in Nat \ {0} /\ main = "start"
      /\ Len(input.kind) \in Nat
  BY MtDecAssumption, InputTypes DEF Rights, Sizes, Start, Thread
<1>1. Rights'
  BY StartRights
<1>2. /\ inProcessed' = 0 /\ pos' = 0 /\ readRes' = "ok" /\ fresh' = TRUE /\ tMode' = FALSE
      /\ UNCHANGED <<input, calls, result, tryMt, failures, failed, crossBlock, filledSize, filledFirst, coder, loc>>
      /\ main' = IF tryMt THEN "mt" ELSE "st"
  BY DEF Start, faultVars, filledVars
<1>3. CallerTypes'
  BY <1>0, <1>2 DEF CallerTypes
<1>4. CASE ~ tryMt
  <2>1. /\ main' = "st"
        /\ UNCHANGED <<outParsed, blockIndex, isAllocError, overflow, threadingError,
                       interrupt, wasInterrupted, cross, filledStart, numFilled,
                       startedLimit, numStarted, progressRes, exitThread>>
    BY <1>4 DEF Start
  <2>2. ReaderTypes' /\ WriterTypes'
    BY <1>0, <1>2, <2>1 DEF ReaderTypes, WriterTypes
  <2>3. ~ Runs /\ ~ Runs'
    BY <1>0, <2>1 DEF Runs
  <2>4. Alone' /\ numFilled' <= ThreadsMax
    BY <1>0, <1>2, <2>1 DEF Alone, FilledFit
  <2> QED
    BY <1>1, <1>2, <1>3, <2>1, <2>2, <2>3, <2>4, OutsideSizes
<1>5. CASE tryMt
  <2>1. /\ outParsed' = 0 /\ blockIndex' = 1
        /\ isAllocError' = FALSE /\ overflow' = FALSE /\ threadingError' = FALSE
        /\ interrupt' = None /\ wasInterrupted' = FALSE /\ cross' = <<>>
        /\ filledStart' = 0 /\ numFilled' = 0
        /\ startedLimit' = ThreadsMax
        /\ progressRes' = "ok" /\ exitThread' = FALSE
        /\ canRead' = [canRead EXCEPT ![0] = TRUE]
        /\ canWrite' = [canWrite EXCEPT ![0] = TRUE]
        /\ pc' = [pc EXCEPT ![0] = "waitRead"] /\ main' = "mt"
    BY <1>5 DEF Start
  <2>2. ReaderTypes' /\ WriterTypes' /\ ThreadTypes'
    <3>1. cross' \in Seq(Nat) /\ Len(cross') = 0
      BY <2>1
    <3>2. startedLimit' \in 1 .. ThreadsMax
      BY <1>0, <2>1
    <3> QED
      <4>1. ReaderTypes'
        <5>1. /\ interrupt' \in {None} \cup 1 .. blockIndex' /\ crossBlock' \in BOOLEAN
              /\ outParsed' \in Nat /\ pos' \in Nat /\ pos' <= Len(input'.kind)
          BY <1>0, <1>2, <2>1 DEF ReaderTypes
        <5> QED
          BY <1>2, <2>1, <3>1, <3>2, <5>1 DEF ReaderTypes
      <4>2. WriterTypes'
        <5>1. 0 \in Thread
          BY MtDecAssumption DEF Thread
        <5>2. wasInterrupted' \in BOOLEAN /\ isAllocError' \in BOOLEAN /\ overflow' \in BOOLEAN
              /\ threadingError' \in BOOLEAN /\ filledStart' \in Thread /\ numFilled' \in Nat
          BY <2>1, <5>1
        <5>3. inProcessed' \in Nat /\ inProcessed' <= pos'
          BY <1>2
        <5>4. /\ filledSize' \in [Thread -> Nat] /\ filledFirst' \in [Thread -> Nat]
              /\ \A u \in Thread : filledFirst'[u] <= filledSize'[u]
          BY <1>0, <1>2 DEF WriterTypes
        <5> QED
          BY <5>2, <5>3, <5>4 DEF WriterTypes
      <4>3. ThreadTypes'
        BY <1>0, <1>2 DEF ThreadTypes
      <4> QED
        BY <4>1, <4>2, <4>3
  <2>3. ~ Runs
    BY <1>0 DEF Runs
  <2>4. \A u \in Thread : /\ ~ IsBusy(pc[u])
                          /\ pc'[u] \notin {"read", "parse", "hand", "code", "waitWrite", "write"}
    <3>1. \A u \in Thread : ~ IsBusy(pc[u])
      BY <2>3 DEF Rights, Clear, Busy, IsBusy
    <3> QED
      BY <1>0, <2>1, <3>1 DEF IsBusy, RingTypes
  <2>5. \A u \in Thread : ~ IsBusy(pc'[u])
    <3>1. pc' \in [Thread -> ThreadPc]
      BY <1>1 DEF Rights, RingTypes
    <3> QED
      BY <2>4, <3>1 DEF IsBusy, ThreadPc
  <2>6. Locals'
    <3>1. ASSUME NEW u \in Thread PROVE LocalAt(pc'[u], loc'[u], coder'[u], Told')
      <4>1. LocalAt(pc[u], loc[u], coder[u], Told)
        BY <1>0 DEF Locals
      <4>2. loc[u] = NoLoc /\ coder[u].used <= loc[u].size
        BY <2>4, <4>1 DEF LocalAt
      <4> QED
        BY <1>2, <2>4, <4>2 DEF LocalAt, IsWork
    <3> QED
      BY <3>1 DEF Locals
  <2>7. Marks'
    BY <2>1, <2>5 DEF Marks, StopsFor, Flags
  <2>8. Fits'
    <3>1. PICK Q : Q = [i \in Nat |-> 0]
      OBVIOUS
    <3>2. ASSUME NEW u \in Thread
          PROVE  FitAt(Q, pc'[u], loc'[u], canRead'[u], canWrite'[u], blockIndex', inProcessed', Len(cross'), pos')
      <4>1. Q[1] = 0 /\ Len(cross') = 0
        BY <2>1, <3>1
      <4>2. 0 <= Q[1] /\ Q[1] + 0 <= 0
        BY <4>1
      <4>3. FitAt(Q, pc'[u], loc'[u], canRead'[u], canWrite'[u], 1, 0, 0, 0)
        BY <2>4, <2>5, <4>2 DEF FitAt, IsWork
      <4> QED
        BY <1>2, <2>1, <4>1, <4>3
    <3>3. Fit(Q)' /\ Q \in [Nat -> Nat]
      BY <3>1, <3>2 DEF Fit
    <3> QED
      BY <3>3 DEF Fits
  <2>9. Handover' /\ Alone' /\ FilledFit'
    BY <1>0, <2>1 DEF Handover, Alone, FilledFit, Flags
  <2> QED
    BY <1>3, <2>2, <2>6, <2>7, <2>8, <2>9 DEF Sizes
<1> QED
  BY <1>4, <1>5

\* What the ring kept is what the single thread is given (MtDec.c:859-878,
\* Lzma2DecMt.c:918-950).
LEMMA ReturnSizes ==
  ASSUME Rights, Sizes, Return
  PROVE  Sizes'
<1>0. /\ RingTypes /\ CallerTypes /\ ReaderTypes /\ WriterTypes /\ ThreadTypes
      /\ Locals /\ Handover /\ FilledFit /\ 0 \in Thread
  BY MtDecAssumption DEF Rights, Sizes, Thread
<1>1. Rights'
  BY ReturnRights
<1>2. /\ main = "mt" /\ pc[0] = "ended" /\ main' \in {"st", "result"}
      /\ UNCHANGED <<input, calls, result, pos, readRes, blockIndex, cross,
                 numStarted, startedLimit, outParsed, interrupt, progressRes, wasInterrupted,
                 isAllocError,
                 overflow, threadingError, exitThread, inProcessed, filledStart, numFilled,
                 filledSize, filledFirst, coder, loc, fresh>>
  BY DEF Return, csVars, writerVars, filledVars
<1>3. ~ Runs /\ ~ Runs'
  BY <1>2 DEF Runs
<1>4. /\ tryMt' \in BOOLEAN /\ tMode' \in BOOLEAN /\ crossBlock' \in BOOLEAN
      /\ failures' \in 0 .. MaxFaults /\ failed' \subseteq FaultKinds
      /\ main' = "st" => Flags /\ progressRes = "ok"
  <2>1. CASE progressRes # "ok" \/ ~ (isAllocError \/ threadingError \/ overflow)
    <3>1. main' = "result" /\ tryMt' = TRUE /\ UNCHANGED <<failures, failed, crossBlock, tMode>>
      BY <2>1 DEF Return, faultVars
    <3> QED
      BY <1>0, <3>1 DEF CallerTypes, ReaderTypes
  <2>2. CASE ~ (progressRes # "ok" \/ ~ (isAllocError \/ threadingError \/ overflow))
    <3>1. PICK f : /\ f \in MayFail("last") /\ Failing(Count(f)) /\ Fatal(Kind(f, "last"))
                   /\ tryMt' = FALSE
                   /\ tMode' = (numFilled # 0 \/ cross # <<>>)
                   /\ crossBlock' = (crossBlock /\ cross # <<>>)
      BY <2>2 DEF Return
    <3>2. failures' \in 0 .. MaxFaults
      <4>1. Count(f) \in Nat
        BY DEF Count
      <4> QED
        BY <1>0, <3>1, <4>1, FailingTypes
    <3>3. failed' \subseteq FaultKinds
      BY <1>0, <3>1 DEF CallerTypes, Fatal, Kind, FaultKinds
    <3>4. tMode' \in BOOLEAN /\ crossBlock' \in BOOLEAN
      BY <3>1
    <3> QED
      BY <2>2, <3>1, <3>2, <3>3, <3>4 DEF Flags
  <2> QED
    BY <2>1, <2>2
<1>5. CallerTypes' /\ ReaderTypes' /\ WriterTypes'
  BY <1>0, <1>2, <1>4 DEF CallerTypes, ReaderTypes, WriterTypes
<1>6. Alone'
  <2>1. ASSUME main' = "st" PROVE KeptFits'
    <3>1. \A t \in Thread : ~ IsBusy(pc[t])
      BY <1>3 DEF Rights, Clear, Busy, IsBusy
    <3>2. KeptFits
      BY <1>0, <1>2, <1>4, <2>1, <3>1 DEF Handover
    <3> QED
      BY <1>2, <3>2 DEF KeptFits
  <2> QED
    BY <2>1 DEF Alone
<1>7. numFilled' <= ThreadsMax /\ main' # "mt"
  BY <1>0, <1>2 DEF FilledFit
<1> QED
  BY <1>1, <1>2, <1>3, <1>5, <1>6, <1>7, OutsideSizes

\* The single thread decodes a kept link (MtDec.c:882-923).
LEMMA ReadFilledSizes ==
  ASSUME Rights, Sizes, ReadFilled
  PROVE  Sizes'
<1>0. /\ RingTypes /\ CallerTypes /\ ReaderTypes /\ WriterTypes /\ FilledFit /\ KeptFits
      /\ main = "st" /\ tMode /\ numFilled # 0
  BY DEF Rights, Sizes, ReadFilled, Alone
<1>1. Rights'
  BY CallerRights
<1>2. UNCHANGED <<input, calls, result, tryMt, blockIndex, numStarted, startedLimit, outParsed,
                  interrupt, progressRes, wasInterrupted, isAllocError, overflow, threadingError,
                  exitThread,
                  coder, loc, pos, readRes, cross, crossBlock, tMode>>
  BY DEF ReadFilled, callerRest, csVars
<1>3. PICK t, fs, ff, lim :
        /\ t = filledStart /\ fs = filledSize[t] /\ ff = filledFirst[t]
        /\ lim = IF ff # 0 THEN ff ELSE Min({InBufSize, fs})
  OBVIOUS
<1>4. t \in Thread /\ fs \in Nat /\ ff \in Nat /\ ff <= fs
  BY <1>0, <1>3 DEF WriterTypes
<1>5. lim \in Nat /\ lim <= fs
  <2>1. InBufSize \in Int /\ InBufSize \in Nat /\ fs \in Int
    BY <1>4, MtDecAssumption
  <2>2. Min({InBufSize, fs}) = IF InBufSize <= fs THEN InBufSize ELSE fs
    BY <2>1, MinOfTwo
  <2> QED
    BY <1>3, <1>4, <2>1, <2>2
<1>6. /\ DecodePiece(SubSeq(Head(inBuf[t]), 1, lim), FALSE)
      /\ filledFirst' = [filledFirst EXCEPT ![t] = 0]
      /\ filledSize' = [filledSize EXCEPT ![t] = fs - lim]
      /\ numFilled' = IF fs = lim THEN numFilled - 1 ELSE numFilled
      /\ filledStart' = IF fs = lim /\ numFilled > 1 THEN NextFilled(filledStart) ELSE filledStart
  BY <1>3 DEF ReadFilled
<1>7. Len(SubSeq(Head(inBuf[t]), 1, lim)) = lim
  BY <1>5
<1>8. /\ inProcessed' \in Nat /\ inProcessed' <= inProcessed + lim
      /\ fresh' \in BOOLEAN /\ failures' \in 0 .. MaxFaults /\ failed' \subseteq FaultKinds
      /\ main' \in {"st", "result"}
  <2>1. inProcessed \in Nat
    BY <1>0 DEF WriterTypes
  <2> QED
    BY <1>0, <1>5, <1>6, <1>7, <2>1, DecodePieceTypes
<1>9. PICK ip, iq, n, ps : /\ ip = inProcessed /\ iq = inProcessed' /\ n = Len(cross) /\ ps = pos
                           /\ ip \in Nat /\ iq \in Nat /\ n \in Nat /\ ps \in Nat
                           /\ iq <= ip + lim
  BY <1>0, <1>8, SMTT(30) DEF WriterTypes, ReaderTypes
<1>10. numFilled = 1 /\ ip + fs + n <= ps
  BY <1>0, <1>3, <1>9 DEF KeptFits
<1>11. filledStart' = t /\ numFilled' = IF fs = lim THEN 0 ELSE 1
  BY <1>3, <1>6, <1>10
<1>12. iq + (fs - lim) + n <= ps /\ fs - lim \in Nat /\ iq <= ps /\ (fs = lim => iq + 0 + n <= ps)
  <2>1. /\ ip \in Nat /\ iq \in Nat /\ n \in Nat /\ ps \in Nat /\ fs \in Nat /\ lim \in Nat
        /\ iq <= ip + lim /\ ip + fs + n <= ps /\ lim <= fs
    BY <1>4, <1>5, <1>9, <1>10
  <2> QED
    BY <2>1
<1>13. CallerTypes' /\ ReaderTypes'
  BY <1>0, <1>2, <1>8 DEF CallerTypes, ReaderTypes
<1>14. WriterTypes'
  <2>1. /\ filledFirst' \in [Thread -> Nat] /\ filledSize' \in [Thread -> Nat]
        /\ \A u \in Thread : filledFirst'[u] <= filledSize'[u]
    BY <1>0, <1>4, <1>6, <1>12 DEF WriterTypes
  <2>2. inProcessed' \in Nat /\ inProcessed' <= pos'
    BY <1>2, <1>9, <1>12
  <2>3. filledStart' \in Thread /\ numFilled' \in Nat
    BY <1>4, <1>11
  <2> QED
    BY <1>0, <1>2, <2>1, <2>2, <2>3 DEF WriterTypes
<1>15. Alone'
  <2>1. filledSize'[t] = fs - lim
    BY <1>0, <1>4, <1>6 DEF WriterTypes
  <2>2. inProcessed' = iq /\ pos' = ps /\ Len(cross') = n
    BY <1>2, <1>9
  <2>3. CASE fs = lim
    <3>1. numFilled' = 0 /\ iq + 0 + n <= ps
      BY <1>11, <1>12, <2>3
    <3> QED
      BY <2>2, <3>1 DEF Alone, KeptFits
  <2>4. CASE fs # lim
    <3>1. numFilled' = 1 /\ filledStart' = t /\ iq + (fs - lim) + n <= ps
      BY <1>11, <1>12, <2>4
    <3> QED
      BY <2>1, <2>2, <3>1 DEF Alone, KeptFits
  <2> QED
    BY <2>3, <2>4
<1>16. ~ Runs /\ ~ Runs' /\ main' # "mt" /\ numFilled' <= ThreadsMax
  BY <1>0, <1>8, <1>11, MtDecAssumption DEF Runs
<1> QED
  BY <1>1, <1>2, <1>13, <1>14, <1>15, <1>16, OutsideSizes

\* The single thread decodes the cross block after the kept links
\* (MtDec.c:925-934).
LEMMA ReadCrossSizes ==
  ASSUME Rights, Sizes, ReadCross
  PROVE  Sizes'
<1>0. /\ RingTypes /\ CallerTypes /\ ReaderTypes /\ WriterTypes /\ FilledFit /\ KeptFits
      /\ main = "st" /\ tMode /\ numFilled = 0
  BY DEF Rights, Sizes, ReadCross, Alone
<1>1. Rights'
  BY CallerRights
<1>2. /\ UNCHANGED <<input, calls, result, tryMt, blockIndex, numStarted, startedLimit, outParsed,
                  interrupt, progressRes, wasInterrupted, isAllocError, overflow, threadingError,
                  exitThread,
                  coder, loc, pos, readRes, crossBlock, tMode, filledStart, numFilled, filledSize,
                  filledFirst>>
      /\ cross' = <<>> /\ DecodePiece(cross, FALSE)
  BY DEF ReadCross, callerRest, csVars, filledVars
<1>3. PICK n \in Nat : n = Len(cross)
  BY <1>0 DEF ReaderTypes
<1>4. /\ inProcessed' \in Nat /\ inProcessed' <= inProcessed + n
      /\ fresh' \in BOOLEAN /\ failures' \in 0 .. MaxFaults /\ failed' \subseteq FaultKinds
      /\ main' \in {"st", "result"}
  <2>1. inProcessed \in Nat
    BY <1>0 DEF WriterTypes
  <2> QED
    BY <1>0, <1>2, <1>3, <2>1, DecodePieceTypes
<1>5. PICK ip, iq, ps : /\ ip = inProcessed /\ iq = inProcessed' /\ ps = pos
                        /\ ip \in Nat /\ iq \in Nat /\ ps \in Nat /\ iq <= ip + n
  BY <1>0, <1>4 DEF WriterTypes, ReaderTypes
<1>6. ip + 0 + n <= ps
  BY <1>0, <1>3, <1>5 DEF KeptFits
<1>7. iq <= ps /\ iq + 0 + 0 <= ps
  <2>1. ip \in Nat /\ iq \in Nat /\ ps \in Nat /\ n \in Nat /\ iq <= ip + n /\ ip + 0 + n <= ps
    BY <1>3, <1>5, <1>6
  <2> QED
    BY <2>1
<1>8. cross' \in Seq(Nat) /\ Len(cross') = 0
  BY <1>2
<1>9. CallerTypes' /\ ReaderTypes'
  BY <1>0, <1>2, <1>4, <1>8 DEF CallerTypes, ReaderTypes
<1>10. WriterTypes'
  BY <1>0, <1>2, <1>5, <1>7 DEF WriterTypes
<1>11. Alone'
  <2>1. numFilled' = 0 /\ inProcessed' = iq /\ pos' = ps
    BY <1>0, <1>2, <1>5
  <2>2. KeptFits'
    BY <1>7, <1>8, <2>1 DEF KeptFits
  <2> QED
    BY <2>2 DEF Alone
<1>12. ~ Runs /\ ~ Runs' /\ main' # "mt" /\ numFilled' <= ThreadsMax
  BY <1>0, <1>2, <1>4 DEF Runs, FilledFit
<1> QED
  BY <1>1, <1>2, <1>9, <1>10, <1>11, <1>12, OutsideSizes

\* The single thread reads on (Lzma2DecMt.c:683-708).
LEMMA ReadNextSizes ==
  ASSUME Rights, Sizes, ReadNext
  PROVE  Sizes'
<1>0. /\ RingTypes /\ CallerTypes /\ ReaderTypes /\ WriterTypes /\ FilledFit /\ main = "st"
      /\ Len(input.kind) \in Nat
  BY InputTypes DEF Rights, Sizes, ReadNext
<1>1. Rights'
  BY CallerRights
<1>2. /\ UNCHANGED <<input, calls, result, tryMt, blockIndex, numStarted, startedLimit, outParsed,
                  interrupt, progressRes, wasInterrupted, isAllocError, overflow, threadingError,
                  exitThread,
                  coder, loc, cross, filledStart, numFilled, filledSize, filledFirst>>
      /\ tMode' = FALSE /\ crossBlock' = (crossBlock /\ ~ tMode)
  BY DEF ReadNext, callerRest, csVars, filledVars
<1>3. PICK ps \in Nat : ps = pos /\ ps <= Len(input.kind)
  BY <1>0 DEF ReaderTypes
<1>4. PICK w, n, e : /\ e \in BOOLEAN /\ n \in Nat /\ Len(w) = n /\ DecodePiece(w, e)
                     /\ pos' = ps + n /\ ps + n <= Len(input.kind) /\ readRes' \in {"ok", "read"}
  <2>1. CASE readWasFinished
    <3>1. DecodePiece(<<>>, FALSE) /\ UNCHANGED <<pos, readRes>>
      BY <2>1 DEF ReadNext
    <3>2. Len(<<>>) = 0 /\ FALSE \in BOOLEAN /\ 0 \in Nat
      OBVIOUS
    <3>3. pos' = ps /\ readRes' \in {"ok", "read"}
      BY <1>0, <1>3, <3>1 DEF ReaderTypes
    <3>4. ps + 0 = ps
      BY <1>3
    <3>5. pos' = ps + 0 /\ ps + 0 <= Len(input.kind)
      BY <1>3, <3>3, <3>4
    <3> QED
      BY <3>1, <3>2, <3>3, <3>5
  <2>2. CASE ~ readWasFinished
    <3>0. \E e \in MayFail("read"), n \in 0 .. Min({InBufSize, Rest}) :
            /\ n = 0 => e \/ Rest = 0
            /\ DecodePiece(Units(pos, n), e)
            /\ pos' = pos + n /\ readWasFinished' = (e \/ n = 0)
            /\ readRes' = IF e THEN "read" ELSE "ok"
      BY <2>2, Zenon DEF ReadNext
    <3>1. PICK e \in MayFail("read"), n \in 0 .. Min({InBufSize, Rest}) :
            /\ DecodePiece(Units(pos, n), e)
            /\ pos' = pos + n /\ readRes' = IF e THEN "read" ELSE "ok"
      BY <3>0, Zenon
    <3>2. PICK rest \in Nat : rest = Rest /\ rest = Len(input.kind) - ps
      BY <1>0, <1>3 DEF Rest
    <3>3. Min({InBufSize, rest}) \in Nat /\ Min({InBufSize, rest}) <= rest
      <4>1. InBufSize \in Int /\ InBufSize \in Nat /\ rest \in Int
        BY MtDecAssumption
      <4>2. Min({InBufSize, rest}) = IF InBufSize <= rest THEN InBufSize ELSE rest
        BY <4>1, MinOfTwo
      <4> QED
        BY <4>1, <4>2
    <3>4. n \in Nat /\ n <= rest
      BY <3>1, <3>2, <3>3
    <3>5. Len(Units(pos, n)) = n /\ e \in BOOLEAN
      BY <1>3, <3>1, <3>4, UnitsType, MayFailIs
    <3>6. ps + n <= Len(input.kind) /\ pos' = ps + n /\ readRes' \in {"ok", "read"}
      BY <1>0, <1>3, <3>1, <3>2, <3>4
    <3> QED
      BY <3>1, <3>4, <3>5, <3>6
  <2> QED
    BY <2>1, <2>2
<1>5. /\ inProcessed' \in Nat /\ inProcessed' <= inProcessed + n
      /\ fresh' \in BOOLEAN /\ failures' \in 0 .. MaxFaults /\ failed' \subseteq FaultKinds
      /\ main' \in {"st", "result"}
  <2>1. inProcessed \in Nat
    BY <1>0 DEF WriterTypes
  <2> QED
    BY <1>0, <1>4, <2>1, DecodePieceTypes
<1>6. PICK ip, iq : /\ ip = inProcessed /\ iq = inProcessed' /\ ip \in Nat /\ iq \in Nat
                    /\ iq <= ip + n /\ ip <= ps
  BY <1>0, <1>3, <1>5 DEF WriterTypes
<1>7. iq <= ps + n /\ ps + n \in Nat
  BY <1>3, <1>4, <1>6
<1>8. CallerTypes'
  BY <1>0, <1>2, <1>5 DEF CallerTypes
<1>9. ReaderTypes'
  <2>1. pos' \in Nat /\ pos' <= Len(input'.kind)
    BY <1>2, <1>4, <1>7
  <2>2. crossBlock' \in BOOLEAN
    BY <1>2
  <2> QED
    BY <1>0, <1>2, <1>4, <2>1, <2>2 DEF ReaderTypes
<1>10. WriterTypes'
  <2>1. inProcessed' \in Nat /\ inProcessed' <= pos'
    BY <1>4, <1>6, <1>7
  <2> QED
    BY <1>0, <1>2, <2>1 DEF WriterTypes
<1>11. Alone' /\ ~ Runs /\ ~ Runs' /\ main' # "mt" /\ numFilled' <= ThreadsMax
  BY <1>0, <1>2, <1>5 DEF Alone, Runs, FilledFit
<1> QED
  BY <1>1, <1>2, <1>8, <1>9, <1>10, <1>11, OutsideSizes

\* The result and the next call keep Sizes (Lzma2Decoder.cpp:84-185).
LEMMA CallerSizes ==
  ASSUME Rights, Sizes, Finish \/ NextCall
  PROVE  Sizes'
<1>0. /\ RingTypes /\ CallerTypes /\ ReaderTypes /\ WriterTypes /\ FilledFit
  BY DEF Rights, Sizes
<1>1. Rights'
  BY CallerRights
<1>2. CASE Finish
  <2>1. /\ UNCHANGED <<input, calls, tryMt, failures, failed, blockIndex, numStarted, startedLimit, outParsed,
                  interrupt, progressRes, wasInterrupted, isAllocError, overflow, threadingError,
                  exitThread,
                  coder, loc, pos, readRes, crossBlock, cross, filledStart, numFilled, filledSize,
                  filledFirst,
                  tMode, fresh, inProcessed>>
        /\ main = "result" /\ main' = "done" /\ result' \in {"ok", "error"}
    BY <1>2 DEF Finish, faultVars, readerVars, csVars, writerVars, filledVars, stVars
  <2>2. CallerTypes' /\ ReaderTypes' /\ WriterTypes'
    BY <1>0, <2>1 DEF CallerTypes, ReaderTypes, WriterTypes
  <2>3. Alone' /\ ~ Runs /\ ~ Runs' /\ main' # "mt" /\ numFilled' <= ThreadsMax
    BY <1>0, <2>1 DEF Alone, Runs, FilledFit
  <2> QED
    BY <1>1, <2>1, <2>2, <2>3, OutsideSizes
<1>3. CASE NextCall
  <2>1. /\ UNCHANGED <<tryMt, blockIndex, numStarted, startedLimit, outParsed,
                  interrupt, progressRes, wasInterrupted, isAllocError, overflow, threadingError,
                  exitThread,
                  coder, loc, pos, readRes, crossBlock, cross, filledStart, numFilled, filledSize,
                  filledFirst,
                  tMode, fresh, inProcessed>>
        /\ main = "done" /\ main' = "start" /\ result' = "none" /\ input' \in Inputs
        /\ calls < MaxCalls /\ calls' = calls + 1 /\ failures' = 0 /\ failed' = {}
    BY <1>3 DEF NextCall, faultVars, readerVars, csVars, writerVars, filledVars, stVars
  <2>2. CallerTypes' /\ ReaderTypes' /\ WriterTypes'
    BY <1>0, <2>1, MtDecAssumption DEF CallerTypes, ReaderTypes, WriterTypes
  <2>3. Alone' /\ ~ Runs /\ ~ Runs' /\ main' # "mt" /\ numFilled' <= ThreadsMax
    BY <1>0, <2>1 DEF Alone, Runs, FilledFit
  <2> QED
    BY <1>1, <2>1, <2>2, <2>3, OutsideSizes
<1> QED
  BY <1>2, <1>3

\* Nothing of Sizes changes in a step that changes nothing.
LEMMA StutterSizes ==
  ASSUME Sizes, UNCHANGED vars
  PROVE  Sizes'
<1>1. UNCHANGED <<input, main, calls, result, tryMt, tMode, fresh, failures, failed, blockIndex, numStarted,
                  startedLimit, outParsed, interrupt, progressRes, wasInterrupted, isAllocError,
                  overflow,
                  threadingError, exitThread, coder, loc, pc, canRead, canWrite, pos, readRes,
                  crossBlock,
                  cross, filledStart, numFilled, filledSize, filledFirst, inProcessed>>
  BY DEF vars, callerVars, faultVars, readerVars, csVars, writerVars, filledVars, stVars
<1>2. CallerTypes' /\ ReaderTypes' /\ WriterTypes' /\ ThreadTypes'
  BY <1>1 DEF Sizes, CallerTypes, ReaderTypes, WriterTypes, ThreadTypes
<1>3. Locals' /\ Marks'
  BY <1>1 DEF Sizes, Locals, Marks, Told, Flags
<1>4. Fits'
  BY <1>1 DEF Sizes, Fits, Fit
<1>5. Handover' /\ Alone'
  BY <1>1 DEF Sizes, Handover, Alone, KeptFits, Over, Flags
<1>6. FilledFit'
  <2>1. Keepers' = Keepers
    BY <1>1 DEF Keepers
  <2> QED
    BY <1>1, <2>1 DEF Sizes, FilledFit, Over
<1> QED
  BY <1>2, <1>3, <1>4, <1>5, <1>6 DEF Sizes

\* Sizes holds before the first call.
LEMMA InitSizes ==
  ASSUME Init
  PROVE  Sizes
<1>0. /\ ThreadsMax \in Nat \ {0} /\ MaxFaults \in Nat /\ MaxCalls \in Nat \ {0} /\ 0 \in Thread
  BY MtDecAssumption DEF Thread
<1>1. /\ input \in Inputs /\ main = "start" /\ calls = 1 /\ result = "none" /\ tryMt = TRUE
      /\ failures = 0
      /\ failed = {} /\ tMode = FALSE /\ fresh = TRUE
      /\ pos = 0 /\ readRes = "ok" /\ blockIndex = 1
      /\ cross = <<>> /\ crossBlock = FALSE /\ startedLimit = ThreadsMax
      /\ outParsed = 0 /\ interrupt = None /\ progressRes = "ok"
      /\ wasInterrupted = FALSE /\ isAllocError = FALSE /\ overflow = FALSE
      /\ threadingError = FALSE /\ inProcessed = 0
      /\ filledStart = 0 /\ numFilled = 0
      /\ \A t \in Thread : /\ pc[t] = "none" /\ ~ canRead[t] /\ ~ canWrite[t]
                           /\ filledSize[t] = 0 /\ filledFirst[t] = 0 /\ coder[t] = NoCoder
                           /\ loc[t] = NoLoc
      /\ DOMAIN coder = Thread /\ filledSize \in [Thread -> Nat] /\ filledFirst \in [Thread -> Nat]
  BY DEF Init
<1>2. <<>> \in Seq(Nat) /\ Len(<<>>) = 0
  OBVIOUS
<1>3. CallerTypes
  BY <1>0, <1>1 DEF CallerTypes
<1>4. ReaderTypes
  <2>1. 0 \in Nat /\ startedLimit \in 1 .. ThreadsMax /\ cross \in Seq(Nat)
    BY <1>0, <1>1, <1>2
  <2> QED
    BY <1>1, <2>1 DEF ReaderTypes
<1>5. WriterTypes
  BY <1>0, <1>1 DEF WriterTypes
<1>6. ThreadTypes
  <2>1. IsLocal(NoLoc)
    <3>1. 0 <= 0 /\ 0 \in Nat
      OBVIOUS
    <3> QED
      BY <1>2, <3>1 DEF IsLocal, NoLoc
  <2>2. IsCoder(NoCoder)
    BY DEF IsCoder, NoCoder, CoderFields
  <2> QED
    BY <1>1, <2>1, <2>2 DEF ThreadTypes
<1>7. Locals
  <2>1. NoCoder.used <= NoLoc.size
    BY DEF NoCoder, NoLoc
  <2> QED
    BY <1>1, <2>1 DEF Locals, LocalAt, IsWork
<1>8. Marks
  BY <1>1 DEF Marks, StopsFor, IsBusy
<1>9. Fits
  <2>1. PICK Q : Q = [i \in Nat |-> 0]
    OBVIOUS
  <2>2. Fit(Q) /\ Q \in [Nat -> Nat]
    BY <1>1, <2>1 DEF Fit, FitAt, IsWork
  <2> QED
    BY <2>2 DEF Fits
<1>10. Handover /\ Alone /\ FilledFit
  BY <1>0, <1>1 DEF Handover, Alone, FilledFit
<1> QED
  BY <1>3, <1>4, <1>5, <1>6, <1>7, <1>8, <1>9, <1>10 DEF Sizes

\* Whatever the ring and the single thread do, no more is read than the stream
\* has, no more is decoded than was read, the blocks lie one after the other in
\* what was read, and the blocks kept after an interruption are fewer than the
\* threads (MtDec.c:250-796, 859-943), for every number of threads, stream and
\* sequence of failures.
THEOREM SizesInvariant == Spec => []Sizes
<1>1. Init => Sizes
  BY InitSizes
<1>2. Rights /\ Sizes /\ [Next]_vars => Sizes'
  <2> SUFFICES ASSUME Rights, Sizes, [Next]_vars PROVE Sizes'
    OBVIOUS
  <2>1. CASE MainStep
    BY <2>1, StartSizes, ReturnSizes, ReadFilledSizes, ReadCrossSizes, ReadNextSizes,
       CallerSizes DEF MainStep
  <2>2. CASE NextCall
    BY <2>2, CallerSizes
  <2>3. ASSUME NEW t \in Thread, ThreadStep(t) PROVE Sizes'
    BY <2>3, TakeReadEnds, TakeReadSizes, QuietActions, HandReadSizes, TakeWriteSizes,
       WriteSizes DEF ThreadStep
  <2>4. CASE UNCHANGED vars
    BY <2>4, StutterSizes
  <2> QED
    BY <2>1, <2>2, <2>3, <2>4 DEF Next, Terminating
<1> QED
  BY <1>1, <1>2, RightsInvariant, PTL DEF Spec

\* Every variable has its type, the positions and the counts of kept blocks in
\* their ranges (MtDec.h:120-180, MtDec.c:250-943, Lzma2DecMt.c:637-979).
THEOREM TypesAreKept == Spec => []TypeOK
<1>1. Rights /\ Sizes => TypeOK
  <2> SUFFICES ASSUME Rights, Sizes PROVE TypeOK
    OBVIOUS
  <2>1. RingTypes /\ CallerTypes /\ ReaderTypes /\ WriterTypes /\ FilledFit
    BY DEF Rights, Sizes
  <2>2. inProcessed \in 0 .. pos /\ numFilled \in 0 .. ThreadsMax
    BY <2>1, MtDecAssumption DEF ReaderTypes, WriterTypes, FilledFit
  <2> QED
    BY <2>1, <2>2 DEF TypeOK, RingTypes, CallerTypes, ReaderTypes, WriterTypes
<1> QED
  BY <1>1, RightsInvariant, SizesInvariant, PTL
=============================================================================
