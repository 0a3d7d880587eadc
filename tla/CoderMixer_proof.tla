-------------------------- MODULE CoderMixer_proof --------------------------
(***************************************************************************)
(* Proofs about CoderMixer: for every number of coders, every choice of    *)
(* the main one, every size of reads and writes and every way the coders   *)
(* end, the pipes are sound, nothing is left behind at the return, and the *)
(* binders implement a byte channel.                                       *)
(***************************************************************************)
EXTENDS CoderMixer, SequenceTheorems, TLAPS

-----------------------------------------------------------------------------
(* The inductive invariant. *)

\* The turn of coder c in this call has not come.
Unstarted(c) == startEvent[c] \/ (main = "start" /\ (c = Main \/ next <= c))

\* Coder c still has its streams: it gives them back input first.
Reads(c)  == Unstarted(c) \/ pc[c] \notin {"idle", "closeOut", "finish"}
Writes(c) == Unstarted(c) \/ pc[c] \notin {"idle", "finish"}

Streams ==
  \A b \in Bond : (b \in reading <=> Reads(b + 1)) /\ (b \in writing <=> Writes(b))

\* What the events and the calling thread know of the coders' threads.
Threads ==
  /\ \A c \in Coder : Unstarted(c) => pc[c] = "idle" /\ ~ finishedEvent[c]
  /\ \A c \in Coder : finishedEvent[c] => pc[c] = "idle"
  /\ ~ startEvent[Main] /\ ~ finishedEvent[Main]
  /\ main = "code" <=> pc[Main] # "idle"
  /\ main = "start" => \A c \in Coder : next <= c => ~ startEvent[c]
  /\ main = "wait" => \A c \in Coder : c < next => pc[c] = "idle" /\ ~ startEvent[c]
  /\ main = "idle" => \A c \in Coder : pc[c] = "idle" /\ ~ startEvent[c]

\* Coder c has ended in this call, and its result counts.
Over(c) == ~ Unstarted(c) /\ pc[c] \in {"idle", "closeIn", "closeOut", "finish"}

Outcome ==
  /\ \A c \in failed : Over(c)
  /\ \A c \in Coder : Over(c) => (c \in failed <=> res[c] \in FaultKinds)
  /\ main = "idle" => (result = "ok" <=> failed = {})

Control == Streams /\ Threads /\ Outcome

InWrite(b) == pc[b] \in {"writeWait", "writeDone"}

\* The bytes of binder b: taken, in the buffer, and told of.
Carried(b) ==
  /\ (\A k \in 1 .. Len(got[b]) : got[b][k] = k) /\ processedSize[b] = Len(got[b])
  /\ b \in reading => \A k \in 1 .. Len(buf[b]) : buf[b][k] = Len(got[b]) + k
  /\ InWrite(b) => size[b] > 0 /\ written[b] + size[b] = Len(got[b]) + Len(buf[b])
  /\ ~ InWrite(b) => written[b] = Len(got[b])

\* The semaphore has the unlock of a buffer that was read, until the writer
\* takes it; the two of a close come later and always fit.
Unlocks(b) ==
  /\ b \in reading =>
       /\ pc[b] # "writeWait" => buf[b] = <<>>
       /\ canWrite[b] + (IF pc[b + 1] = "readRelease" THEN 1 ELSE 0)
            = IF pc[b] = "writeWait" /\ buf[b] = <<>> THEN 1 ELSE 0
  /\ readingWasClosed2[b] => b \notin reading

\* The reader is let in only to a buffer with bytes, unless writing was closed,
\* and is not let in twice.
Offers(b) ==
  /\ pc[b + 1] \in {"readWait", "readCopy"} => size[b + 1] > 0
  /\ pc[b + 1] = "readCopy" => ~ waitWrite[b]
  /\ b \in reading /\ b \in writing =>
       /\ canRead[b] \/ ~ waitWrite[b] => pc[b] = "writeWait" /\ buf[b] # <<>>
       /\ ~ waitWrite[b] => ~ canRead[b]

Pipe(b) == Carried(b) /\ Unlocks(b) /\ Offers(b)

Pipes == ~ lost /\ \A b \in Bond : Pipe(b)

ReadPcs  == {"readWait", "readCopy", "readRelease"}
WritePcs == {"writeWait", "writeDone"}

\* A coder is in Read or Write only of a binder it has.
Placed ==
  \A c \in Coder : (pc[c] \in ReadPcs => HasIn(c)) /\ (pc[c] \in WritePcs => HasOut(c))

IInv == TypeOK /\ Control /\ Placed /\ Pipes


-----------------------------------------------------------------------------
(* Numbers and sequences. *)

\* The smaller of two numbers (MyMin of StreamBinder.cpp:86).
LEMMA MinOfTwo ==
  ASSUME NEW m \in Nat, NEW n \in Nat
  PROVE  /\ Min({m, n}) \in {m, n} /\ Min({m, n}) <= m /\ Min({m, n}) <= n
<1>1. \E x \in {m, n} : \A y \in {m, n} : x <= y
  OBVIOUS
<1>2. QED
  BY <1>1 DEF Min

\* A coder's binders.
LEMMA Bonds ==
  /\ \A b \in Bond : b \in Coder /\ b + 1 \in Coder /\ b \in Nat
  /\ \A c \in Coder : /\ HasIn(c) => In(c) \in Bond /\ In(c) + 1 = c
                      /\ HasOut(c) => Out(c) \in Bond
                      /\ \A b \in Bond : /\ b + 1 = c => HasIn(c) /\ In(c) = b
                                         /\ b = c => HasOut(c)
  BY CoderMixerAssumption DEF Bond, Coder, HasIn, HasOut, In, Out

\* The numbers after g, cut at n.
LEMMA Taking ==
  ASSUME NEW s \in Seq(Nat), NEW g \in Nat, \A k \in 1 .. Len(s) : s[k] = g + k,
         NEW n \in 0 .. Len(s)
  PROVE  LET left == SubSeq(s, n + 1, Len(s))
         IN /\ left \in Seq(Nat) /\ Len(left) = Len(s) - n
            /\ \A k \in 1 .. Len(left) : left[k] = (g + n) + k
<1> DEFINE left == SubSeq(s, n + 1, Len(s))
<1>1. \A k \in n + 1 .. Len(s) : s[k] \in Nat
  OBVIOUS
<1>2. /\ left \in Seq(Nat) /\ Len(left) = IF n + 1 <= Len(s) THEN Len(s) - (n + 1) + 1 ELSE 0
      /\ \A k \in 1 .. Len(s) - (n + 1) + 1 : left[k] = s[n + 1 + k - 1]
  BY <1>1, SubSeqProperties
<1> HIDE DEF left
<1>3. Len(left) = Len(s) - n
  BY <1>2
<1>4. \A k \in 1 .. Len(left) : left[k] = (g + n) + k
  BY <1>2, <1>3, SMTT(30)
<1>5. QED
  BY <1>2, <1>3, <1>4 DEF left

\* The numbers up to Len(t) and the n that follow.
LEMMA Joining ==
  ASSUME NEW s \in Seq(Nat), NEW t \in Seq(Nat), \A k \in 1 .. Len(t) : t[k] = k,
         \A k \in 1 .. Len(s) : s[k] = Len(t) + k, NEW n \in 0 .. Len(s)
  PROVE  LET both == t \o SubSeq(s, 1, n)
         IN /\ both \in Seq(Nat) /\ Len(both) = Len(t) + n
            /\ \A k \in 1 .. Len(both) : both[k] = k
<1> DEFINE part == SubSeq(s, 1, n)
           both == t \o part
<1>1. part \in Seq(Nat) /\ Len(part) = n /\ \A k \in 1 .. n : part[k] = Len(t) + k
  OBVIOUS
<1>2. both \in Seq(Nat) /\ Len(both) = Len(t) + n
  BY <1>1
<1>3. \A k \in 1 .. Len(both) : both[k] = k
  BY <1>1, <1>2
<1>4. QED
  BY <1>2, <1>3

\* A buffer that is written.
LEMMA Filling ==
  ASSUME NEW w \in Nat, NEW k \in Nat
  PROVE  /\ [j \in 1 .. k |-> w + j] \in Seq(Nat) /\ Len([j \in 1 .. k |-> w + j]) = k
         /\ \A i \in 1 .. k : [j \in 1 .. k |-> w + j][i] = w + i
  OBVIOUS

-----------------------------------------------------------------------------
(* The threads. *)

Running == {"run", "readWait", "readCopy", "readRelease", "writeWait", "writeDone"}

\* A coder that runs has both its streams.
LEMMA RunningHas ==
  ASSUME Streams, NEW c \in Coder, pc[c] \in Running \cup {"closeIn"}
  PROVE  /\ HasIn(c) => In(c) \in Bond /\ In(c) + 1 = c /\ In(c) \in reading
         /\ HasOut(c) => Out(c) \in Bond /\ Out(c) \in writing
  BY Bonds DEF Streams, Reads, Writes, Running, Out

\* As long as a coder runs nothing of it concerns the other threads.
LEMMA RunningControl ==
  ASSUME TypeOK, Control, NEW c \in Coder, NEW l \in Running, pc[c] \in Running,
         pc' = [pc EXCEPT ![c] = l],
         UNCHANGED <<reading, writing, res, startEvent, finishedEvent, main, next, result,
                     failed>>
  PROVE  Control'
<1>1. \A d \in Coder :
        /\ Unstarted(d)' = Unstarted(d) /\ Reads(d)' = Reads(d) /\ Writes(d)' = Writes(d)
        /\ Over(d)' = Over(d) /\ (pc'[d] = "idle" <=> pc[d] = "idle")
  BY DEF TypeOK, Unstarted, Reads, Writes, Over, Running
<1>2. Streams'
  BY <1>1, Bonds DEF Control, Streams
<1>3. Threads'
  BY <1>1, CoderMixerAssumption DEF Control, Threads
<1>4. Outcome'
  BY <1>1 DEF Control, Outcome, TypeOK
<1>5. QED
  BY <1>2, <1>3, <1>4 DEF Control

\* Whose start event is set has been started and not waited for.
LEMMA Turn ==
  ASSUME TypeOK, Threads, NEW c \in Coder, startEvent[c]
  PROVE  main \in {"start", "code"} \/ (main = "wait" /\ next <= c)
<1>1. c \in Int /\ next \in Int
  BY CoderMixerAssumption DEF Coder, TypeOK
<1>2. ~ c < next => next <= c
  BY <1>1
<1>3. main # "idle" /\ (main = "wait" => ~ c < next)
  BY DEF Threads
<1>4. main \in MainPc
  BY DEF TypeOK
<1>5. QED
  BY <1>2, <1>3, <1>4 DEF MainPc

\* A thread takes its start event (VirtThread.cpp:12-27).
LEMMA ThreadStartControl ==
  ASSUME TypeOK, Control, NEW c \in Coder, ThreadStart(c)
  PROVE  Control'
<1> USE DEF Control, ThreadStart, Goto, TypeOK
<1>1. /\ \A d \in Coder \ {c} : /\ Unstarted(d)' = Unstarted(d) /\ pc'[d] = pc[d]
                                /\ Over(d)' = Over(d)
      /\ Unstarted(c) /\ pc'[c] = "run" /\ ~ startEvent'[c] /\ ~ Over(c) /\ ~ Over(c)'
      /\ UNCHANGED <<reading, writing, res, finishedEvent, main, next, result, failed>>
  BY DEF Unstarted, Over, mainVars, streamVars, history
<1>2. \A d \in Coder : Reads(d)' = Reads(d) /\ Writes(d)' = Writes(d)
  BY <1>1 DEF Reads, Writes
<1>3. Streams'
  BY <1>1, <1>2, Bonds DEF Streams
<1>4. main \in {"start", "code"} \/ (main = "wait" /\ next <= c)
  BY <1>1, Turn DEF Control, ThreadStart
<1>5. Threads'
  <2>1. ~ Unstarted(c)' /\ ~ finishedEvent[c] /\ c # Main
    BY <1>1 DEF Threads, Unstarted
  <2>2. \A d \in Coder : startEvent'[d] => startEvent[d]
    OBVIOUS
  <2>3. QED
    BY <1>1, <1>4, <2>1, <2>2, CoderMixerAssumption DEF Threads
<1>6. Outcome'
  BY <1>1, <1>4 DEF Outcome
<1>7. QED
  BY <1>3, <1>5, <1>6

\* A coder returns (CoderMixer2.cpp:896-917).
LEMMA EndCodeControl ==
  ASSUME TypeOK, Control, NEW c \in Coder, EndCode(c)
  PROVE  Control'
<1> USE DEF Control, Goto, TypeOK
<1>1. PICK r \in {"ok", "cut"} \cup Faults :
        /\ res' = [res EXCEPT ![c] = r]
        /\ failed' = IF r \in FaultKinds THEN failed \cup {c} ELSE failed
  BY DEF EndCode
<1>2. /\ \A d \in Coder \ {c} : /\ Unstarted(d)' = Unstarted(d) /\ pc'[d] = pc[d]
                                /\ Over(d)' = Over(d) /\ res'[d] = res[d]
                                /\ (d \in failed' <=> d \in failed)
      /\ Unstarted(c)' = Unstarted(c) /\ pc[c] = "run" /\ pc'[c] = "closeIn" /\ ~ Over(c)
      /\ UNCHANGED <<reading, writing, startEvent, finishedEvent, main, next, result>>
  BY <1>1 DEF EndCode, Unstarted, Over, mainVars, streamVars, threadVars
<1>3. \A d \in Coder : Reads(d)' = Reads(d) /\ Writes(d)' = Writes(d)
  BY <1>2 DEF Reads, Writes
<1>4. Streams'
  BY <1>2, <1>3, Bonds DEF Streams
<1>5. ~ Unstarted(c) /\ main # "idle"
  BY <1>2 DEF Threads
<1>6. Threads'
  BY <1>2, <1>5, CoderMixerAssumption DEF Threads
<1>7. Outcome'
  <2>1. c \notin failed /\ failed' \subseteq Coder
    BY <1>1, <1>2 DEF Outcome
  <2>2. c \in failed' <=> res'[c] \in FaultKinds
    BY <1>1, <2>1
  <2>3. Over(c)'
    BY <1>2, <1>5 DEF Over
  <2>4. QED
    BY <1>2, <1>5, <2>1, <2>2, <2>3 DEF Outcome
<1>8. QED
  BY <1>4, <1>6, <1>7

\* A coder gives back its input, then its output (CoderMixer2.cpp:871-894).
LEMMA CloseControl ==
  ASSUME TypeOK, Control, NEW c \in Coder, CloseIn(c) \/ CloseOut(c)
  PROVE  Control'
<1> USE DEF Control, Goto, TypeOK
<1>1. /\ \A d \in Coder \ {c} : /\ Unstarted(d)' = Unstarted(d) /\ pc'[d] = pc[d]
                                /\ Over(d)' = Over(d)
      /\ Unstarted(c)' = Unstarted(c) /\ Over(c)' = Over(c) /\ pc[c] # "idle" /\ pc'[c] # "idle"
      /\ UNCHANGED <<startEvent, finishedEvent, main, next, result, failed, res>>
  BY DEF CloseIn, CloseOut, Unstarted, Over, mainVars, threadVars, history
<1>2. \A d \in Coder \ {c} : Reads(d)' = Reads(d) /\ Writes(d)' = Writes(d)
  BY <1>1 DEF Reads, Writes
<1>3. ~ Unstarted(c)
  BY <1>1 DEF Threads
<1>4. Streams'
  <2>1. CASE CloseIn(c)
    <3>1. /\ writing' = writing /\ reading' = IF HasIn(c) THEN reading \ {In(c)} ELSE reading
          /\ Writes(c)' = Writes(c) /\ ~ Reads(c)'
      BY <1>1, <1>3, <2>1 DEF CloseIn, Reads, Writes
    <3>2. QED
      BY <1>2, <3>1, Bonds DEF Streams
  <2>2. CASE CloseOut(c)
    <3>1. /\ reading' = reading /\ writing' = IF HasOut(c) THEN writing \ {Out(c)} ELSE writing
          /\ Reads(c)' = Reads(c) /\ ~ Writes(c)'
      BY <1>1, <1>3, <2>2 DEF CloseOut, Reads, Writes
    <3>2. QED
      BY <1>2, <3>1, Bonds DEF Streams, Out
  <2>3. QED
    BY <2>1, <2>2
<1>5. Threads'
  BY <1>1, CoderMixerAssumption DEF Threads
<1>6. Outcome'
  BY <1>1 DEF Outcome
<1>7. QED
  BY <1>4, <1>5, <1>6

\* A coder's thread reports its end, the main coder returns (VirtThread.cpp:24).
LEMMA FinishControl ==
  ASSUME TypeOK, Control, NEW c \in Coder, Finish(c)
  PROVE  Control'
<1> USE DEF Control, Goto, TypeOK
<1>1. /\ \A d \in Coder \ {c} : pc'[d] = pc[d] /\ finishedEvent'[d] = finishedEvent[d]
      /\ pc[c] = "finish" /\ pc'[c] = "idle"
      /\ UNCHANGED <<reading, writing, startEvent, result, failed, res>>
      /\ IF c = Main THEN main' = "wait" /\ next' = 0 /\ finishedEvent' = finishedEvent
         ELSE finishedEvent'[c] /\ UNCHANGED <<main, next>>
  BY DEF Finish, streamVars, history
<1>2. ~ Unstarted(c) /\ main # "idle" /\ (c = Main <=> main = "code" /\ c = Main)
  BY <1>1 DEF Threads
<1>3. \A d \in Coder : Unstarted(d)' = Unstarted(d)
  BY <1>1, <1>2 DEF Unstarted
<1>4. \A d \in Coder : Reads(d)' = Reads(d) /\ Writes(d)' = Writes(d) /\ Over(d)' = Over(d)
  BY <1>1, <1>2, <1>3 DEF Reads, Writes, Over
<1>5. Streams'
  BY <1>1, <1>4, Bonds DEF Streams
<1>6. Threads'
  <2>1. CASE c = Main
    BY <1>1, <1>2, <1>3, <2>1, CoderMixerAssumption DEF Threads, Coder
  <2>2. CASE c # Main
    BY <1>1, <1>2, <1>3, <2>2, CoderMixerAssumption DEF Threads
  <2>3. QED
    BY <2>1, <2>2
<1>7. Outcome'
  BY <1>1, <1>2, <1>4 DEF Outcome
<1>8. QED
  BY <1>5, <1>6, <1>7

\* CMixerMT::Code begins again (CoderMixer2.cpp:919-980).
LEMMA CallControl ==
  ASSUME TypeOK, Control, Call
  PROVE  Control'
<1>1. /\ \A c \in Coder : pc'[c] = "idle" /\ ~ startEvent'[c] /\ ~ finishedEvent'[c]
      /\ main' = "start" /\ next' = 0 /\ failed' = {} /\ reading' = Bond /\ writing' = Bond
  BY DEF Call, Control, Threads
<1>2. \A c \in Coder : Unstarted(c)' /\ Reads(c)' /\ Writes(c)' /\ ~ Over(c)'
  BY <1>1, CoderMixerAssumption DEF Unstarted, Reads, Writes, Over, Coder
<1>3. Streams'
  BY <1>1, <1>2, Bonds DEF Streams
<1>4. Threads'
  BY <1>1, CoderMixerAssumption DEF Threads
<1>5. Outcome'
  BY <1>1, <1>2 DEF Outcome
<1>6. QED
  BY <1>3, <1>4, <1>5 DEF Control

\* The threads are started, the main coder skipped (CoderMixer2.cpp:1058-1064).
LEMMA StartThreadControl ==
  ASSUME TypeOK, Control, StartThread
  PROVE  Control'
<1>0. next \in Coder /\ main = "start"
  BY CoderMixerAssumption DEF TypeOK, StartThread, Coder
<1>1. /\ startEvent' = [startEvent EXCEPT ![next] = next # Main] /\ next' = next + 1
      /\ UNCHANGED <<reading, writing, pc, res, finishedEvent, main, result, failed>>
  BY DEF StartThread, streamVars, history
<1>2. \A c \in Coder : startEvent'[c] = IF c = next THEN c # Main ELSE startEvent[c]
  BY <1>0, <1>1 DEF TypeOK
<1>3. \A c \in Coder : Unstarted(c)' <=> Unstarted(c)
  <2>1. PICK n \in Coder : n = next
    BY <1>0
  <2>2. \A c \in Coder : c # n => (next' <= c <=> next <= c)
    BY <1>1, <2>1, CoderMixerAssumption DEF Coder
  <2>3. next <= n
    BY <2>1, CoderMixerAssumption DEF Coder
  <2>4. Unstarted(n)
    BY <1>0, <2>3 DEF Unstarted
  <2>5. Unstarted(n)'
    BY <1>0, <1>1, <1>2, <2>1 DEF Unstarted
  <2>6. \A c \in Coder : c # n => (Unstarted(c)' <=> Unstarted(c))
    BY <1>1, <1>2, <2>1, <2>2 DEF Unstarted
  <2>7. QED
    BY <2>4, <2>5, <2>6
<1>4. \A c \in Coder : /\ Reads(c)' <=> Reads(c)
                       /\ Writes(c)' <=> Writes(c)
                       /\ Over(c)' <=> Over(c)
  BY <1>1, <1>3 DEF Reads, Writes, Over
<1>5. Streams'
  BY <1>1, <1>4, Bonds DEF Control, Streams
<1>6. Threads'
  <2>1. \A c \in Coder : next' <= c => c # next /\ next <= c
    BY <1>0, <1>1, CoderMixerAssumption DEF Coder
  <2>2. QED
    BY <1>0, <1>1, <1>2, <1>3, <2>1, CoderMixerAssumption DEF Control, Threads
<1>7. Outcome'
  <2>1. failed \subseteq Coder
    BY DEF TypeOK
  <2>2. QED
    BY <1>0, <1>1, <1>4, <2>1 DEF Control, Outcome
<1>8. QED
  BY <1>5, <1>6, <1>7 DEF Control

\* The main coder runs (CoderMixer2.cpp:1066).
LEMMA RunMainControl ==
  ASSUME TypeOK, Control, RunMain
  PROVE  Control'
<1> USE DEF Control, TypeOK
<1>1. /\ main = "start" /\ next = N /\ main' = "code" /\ pc' = [pc EXCEPT ![Main] = "run"]
      /\ UNCHANGED <<reading, writing, startEvent, res, finishedEvent, next, result, failed>>
  BY DEF RunMain, Goto, streamVars, threadVars, history
<1>2. \A c \in Coder : ~ next <= c
  BY <1>1, CoderMixerAssumption DEF Coder
<1>3. /\ Main \in Coder /\ Unstarted(Main) /\ pc'[Main] = "run" /\ ~ Unstarted(Main)'
      /\ ~ startEvent[Main]
  BY <1>1, CoderMixerAssumption DEF Unstarted, Threads
<1>4. \A c \in Coder \ {Main} : /\ Unstarted(c)' <=> Unstarted(c)
                                /\ pc'[c] = pc[c]
  BY <1>1, <1>2, <1>3 DEF Unstarted
<1>5. \A c \in Coder : /\ Reads(c)' <=> Reads(c)
                       /\ Writes(c)' <=> Writes(c)
                       /\ Over(c)' <=> Over(c)
  BY <1>3, <1>4 DEF Reads, Writes, Over
<1>6. Streams'
  BY <1>1, <1>5, Bonds DEF Streams
<1>7. Threads'
  BY <1>1, <1>3, <1>4 DEF Threads
<1>8. Outcome'
  <2>1. \A c \in Coder : res'[c] = res[c] /\ (c \in failed' <=> c \in failed)
    BY <1>1
  <2>2. QED
    BY <1>1, <1>5, <2>1 DEF Outcome
<1>9. QED
  BY <1>6, <1>7, <1>8

\* Code waits for a thread (CoderMixer2.cpp:1067-1069).
LEMMA WaitCoderControl ==
  ASSUME TypeOK, Control, WaitCoder
  PROVE  Control'
<1>0. next \in Coder /\ main = "wait"
  BY CoderMixerAssumption DEF TypeOK, WaitCoder, Coder
<1>1. /\ finishedEvent' = [finishedEvent EXCEPT ![next] = FALSE] /\ next' = next + 1
      /\ UNCHANGED <<reading, writing, pc, res, startEvent, main, result, failed>>
  BY DEF WaitCoder, streamVars, history
<1>2. pc[next] = "idle" /\ ~ startEvent[next]
  BY <1>0 DEF WaitCoder, Finished, Control, Threads, Unstarted
<1>3. \A c \in Coder : /\ Unstarted(c)' <=> Unstarted(c)
                       /\ finishedEvent'[c] => finishedEvent[c]
  BY <1>0, <1>1 DEF Unstarted, TypeOK
<1>4. \A c \in Coder : /\ Reads(c)' <=> Reads(c)
                       /\ Writes(c)' <=> Writes(c)
                       /\ Over(c)' <=> Over(c)
  BY <1>1, <1>3 DEF Reads, Writes, Over
<1>5. Streams'
  BY <1>1, <1>4, Bonds DEF Control, Streams
<1>6. Threads'
  <2>1. \A c \in Coder : c < next' => c < next \/ c = next
    BY <1>0, <1>1, CoderMixerAssumption DEF Coder
  <2>2. QED
    BY <1>0, <1>1, <1>2, <1>3, <2>1, CoderMixerAssumption DEF Control, Threads
<1>7. Outcome'
  <2>1. failed \subseteq Coder
    BY DEF TypeOK
  <2>2. QED
    BY <1>0, <1>1, <1>4, <2>1 DEF Control, Outcome
<1>8. QED
  BY <1>5, <1>6, <1>7 DEF Control

\* The worst of the results (CoderMixer2.cpp:1105-1133).
LEMMA Worst ==
  ASSUME TypeOK
  PROVE  /\ MixerResult \in Results
         /\ MixerResult = "ok" <=> \A c \in Coder : res[c] \notin FaultKinds
<1> DEFINE found == {k \in DOMAIN Rank : \E c \in Coder : res[c] = Rank[k]}
<1>1. DOMAIN Rank = 1 .. 5 /\ \A k \in 1 .. 5 : Rank[k] \in FaultKinds /\ Rank[k] # "ok"
  BY DEF Rank, FaultKinds, ToSet
<1>2. \A f \in FaultKinds : \E k \in 1 .. 5 : f = Rank[k]
  BY DEF Rank, FaultKinds, ToSet
<1>3. found = {} <=> \A c \in Coder : res[c] \notin FaultKinds
  BY <1>1, <1>2
<1>4. found # {} => Min(found) \in found
  <2>1. found \subseteq 1 .. 5
    BY <1>1
  <2> HIDE DEF found
  <2>2. found # {} => \E x \in found : \A y \in found : x <= y
    <3>1. CASE 1 \in found
      BY <2>1, <3>1
    <3>2. CASE 1 \notin found /\ 2 \in found
      BY <2>1, <3>2
    <3>3. CASE 1 \notin found /\ 2 \notin found /\ 3 \in found
      BY <2>1, <3>3
    <3>4. CASE 1 \notin found /\ 2 \notin found /\ 3 \notin found /\ 4 \in found
      BY <2>1, <3>4
    <3>5. CASE 1 \notin found /\ 2 \notin found /\ 3 \notin found /\ 4 \notin found
      <4>1. \A x \in found : x = 5
        BY <2>1, <3>5
      <4>2. QED
        BY <4>1
    <3>6. QED
      BY <3>1, <3>2, <3>3, <3>4, <3>5
  <2>3. QED
    BY <2>2 DEF Min
<1>5. MixerResult = IF found = {} THEN "ok" ELSE Rank[Min(found)]
  BY DEF MixerResult
<1>6. found # {} => Min(found) \in 1 .. 5
  BY <1>1, <1>4
<1> HIDE DEF found
<1>7. QED
  BY <1>1, <1>3, <1>5, <1>6 DEF Results

\* Code returns.
LEMMA ReturnControl ==
  ASSUME TypeOK, Control, Return
  PROVE  Control'
<1>1. /\ main = "wait" /\ next = N /\ main' = "idle" /\ result' = MixerResult
      /\ UNCHANGED <<reading, writing, pc, res, startEvent, finishedEvent, next, failed>>
  BY DEF Return, streamVars, threadVars, history
<1>2. \A c \in Coder : c < next
  BY <1>1, CoderMixerAssumption DEF Coder
<1>3. \A c \in Coder : pc[c] = "idle" /\ ~ startEvent[c] /\ ~ Unstarted(c) /\ ~ Unstarted(c)'
  BY <1>1, <1>2 DEF Control, Threads, Unstarted
<1>4. \A c \in Coder : /\ Reads(c)' <=> Reads(c)
                       /\ Writes(c)' <=> Writes(c)
                       /\ Over(c) /\ Over(c)'
  BY <1>1, <1>3 DEF Reads, Writes, Over
<1>5. Streams'
  BY <1>1, <1>4, Bonds DEF Control, Streams
<1>6. Threads'
  BY <1>1, <1>3, CoderMixerAssumption DEF Control, Threads
<1>7. Outcome'
  <2>1. \A c \in Coder : c \in failed <=> res[c] \in FaultKinds
    BY <1>4 DEF Control, Outcome
  <2>2. failed \subseteq Coder
    BY DEF TypeOK
  <2>3. MixerResult = "ok" <=> failed = {}
    BY <2>1, <2>2, Worst
  <2>4. QED
    BY <1>1, <1>4, <2>1, <2>2, <2>3 DEF Outcome
<1>8. QED
  BY <1>5, <1>6, <1>7 DEF Control

-----------------------------------------------------------------------------
(* The types. *)

\* The semaphore stays within its maximum (StreamBinder.cpp:42-47).
LEMMA ReleaseType ==
  ASSUME TypeOK, NEW b \in Bond, NEW k \in {1, 2}, Release(b, k)
  PROVE  canWrite' \in [Bond -> 0 .. MaxCount] /\ lost' \in BOOLEAN
<1>1. canWrite \in [Bond -> 0 .. 3] /\ lost \in BOOLEAN
  BY DEF TypeOK, MaxCount
<1>2. CASE canWrite[b] + k <= MaxCount
  <2>1. canWrite' = [canWrite EXCEPT ![b] = @ + k] /\ lost' = lost
    BY <1>2 DEF Release
  <2>2. canWrite[b] + k \in 0 .. 3
    BY <1>1, <1>2 DEF MaxCount
  <2>3. QED
    BY <1>1, <2>1, <2>2 DEF MaxCount
<1>3. CASE ~ (canWrite[b] + k <= MaxCount)
  BY <1>1, <1>3 DEF Release, MaxCount
<1>4. QED
  BY <1>2, <1>3

\* A read that copies leaves sequences of bytes (StreamBinder.cpp:84-107).
LEMMA ReadCopyType ==
  ASSUME TypeOK, NEW c \in Coder, ReadCopy(c), In(c) \in Bond
  PROVE  TypeOK'
<1> DEFINE b == In(c)
           k == Min({size[c], Len(buf[b])})
           left == SubSeq(buf[b], k + 1, Len(buf[b]))
<1>1. /\ pc[c] = "readCopy" /\ size' = [size EXCEPT ![c] = 0]
      /\ UNCHANGED <<canRead, canWrite, readingWasClosed2, reading, writing, res, startEvent,
                     finishedEvent, main, next, result, calls, written, cut, failed, lost>>
      /\ \/ /\ ended' = ended \cup {b} /\ pc' = [pc EXCEPT ![c] = "run"]
            /\ UNCHANGED <<waitWrite, buf, processedSize, got>>
         \/ /\ got' = [got EXCEPT ![b] = @ \o SubSeq(buf[b], 1, k)]
            /\ buf' = [buf EXCEPT ![b] = left]
            /\ processedSize' = [processedSize EXCEPT ![b] = @ + k]
            /\ waitWrite' = [waitWrite EXCEPT ![b] = @ \/ WholeRead(left)]
            /\ pc' = [pc EXCEPT ![c] = IF WholeRead(left) THEN "readRelease" ELSE "run"]
            /\ UNCHANGED ended
  BY DEF ReadCopy, Goto, Resize, streamVars, threadVars, mainVars
<1>2. b \in Bond /\ In(c) = b
  OBVIOUS
<1> HIDE DEF b
<1>3. /\ buf[b] \in Seq(Nat) /\ size[c] \in Nat /\ Len(buf[b]) \in Nat
      /\ got[b] \in Seq(Nat) /\ 0 \in 0 .. MaxSize
  BY <1>2, CoderMixerAssumption DEF TypeOK
<1> HIDE DEF k
<1>4. k \in 0 .. Len(buf[b])
  <2>1. Min({size[c], Len(buf[b])}) \in {size[c], Len(buf[b])}
        /\ Min({size[c], Len(buf[b])}) <= Len(buf[b])
    BY <1>3, MinOfTwo
  <2>2. k \in Nat /\ k <= Len(buf[b])
    BY <1>3, <2>1 DEF k
  <2>3. QED
    BY <1>3, <2>2
<1>5. left \in Seq(Nat) /\ SubSeq(buf[b], 1, k) \in Seq(Nat)
  BY <1>3, <1>4, SMTT(30)
<1> HIDE DEF left
<1>6. (got[b] \o SubSeq(buf[b], 1, k)) \in Seq(Nat)
  BY <1>3, <1>5
<1>7. waitWrite' \in [Bond -> BOOLEAN] /\ processedSize' \in [Bond -> Nat]
  <2>1. (waitWrite[b] \/ WholeRead(left)) \in BOOLEAN
    BY DEF WholeRead
  <2>2. waitWrite' \in [Bond -> BOOLEAN]
    BY <1>1, <2>1 DEF TypeOK
  <2>3. processedSize[b] + k \in Nat
    BY <1>2, <1>3, <1>4 DEF TypeOK
  <2>4. processedSize' \in [Bond -> Nat]
    BY <1>1, <2>3, ZenonT(40) DEF TypeOK
  <2>5. QED
    BY <2>2, <2>4
<1>8. buf' \in [Bond -> Seq(Nat)] /\ got' \in [Bond -> Seq(Nat)] /\ ended' \subseteq Bond
  <2>1. buf' = buf \/ buf' = [buf EXCEPT ![b] = left]
    BY <1>1
  <2>2. got' = got \/ got' = [got EXCEPT ![b] = @ \o SubSeq(buf[b], 1, k)]
    BY <1>1
  <2>3. ended' = ended \/ ended' = ended \cup {b}
    BY <1>1
  <2>4. buf' \in [Bond -> Seq(Nat)]
    BY <1>5, <2>1 DEF TypeOK
  <2>5. got' \in [Bond -> Seq(Nat)]
    BY <1>6, <2>2 DEF TypeOK
  <2>6. QED
    BY <1>2, <2>3, <2>4, <2>5 DEF TypeOK
<1>9. pc' \in [Coder -> CoderPc] /\ size' \in [Coder -> 0 .. MaxSize]
  <2>1. "run" \in CoderPc /\ "readRelease" \in CoderPc
    BY DEF CoderPc
  <2>2. pc' \in [Coder -> CoderPc]
    BY <1>1, <2>1 DEF TypeOK
  <2>3. QED
    BY <1>1, <1>3, <2>2 DEF TypeOK
<1>10. QED
  BY <1>1, <1>7, <1>8, <1>9 DEF TypeOK

\* Reading and its wait keep the types.
LEMMA ReadType ==
  ASSUME TypeOK, NEW c \in Coder, In(c) \in Bond,
         Read(c) \/ ReadWait(c) \/ ReadRelease(c)
  PROVE  TypeOK'
<1>1. CASE Read(c)
  BY <1>1, CoderMixerAssumption
     DEF Read, Goto, Resize, TypeOK, CoderPc, binderVars, streamVars, threadVars, mainVars,
         history
<1>2. CASE ReadWait(c)
  BY <1>2 DEF ReadWait, Goto, TypeOK, CoderPc, streamVars, threadVars, mainVars, history
<1>3. CASE ReadRelease(c)
  <2>1. canWrite' \in [Bond -> 0 .. MaxCount] /\ lost' \in BOOLEAN
    BY <1>3, ReleaseType DEF ReadRelease
  <2>2. QED
    BY <1>3, <2>1 DEF ReadRelease, Goto, TypeOK, CoderPc, streamVars, threadVars, mainVars
<1>4. QED
  BY <1>1, <1>2, <1>3

\* Writing keeps the types, if the reader did not take more than was offered.
LEMMA WriteType ==
  ASSUME TypeOK, NEW c \in Coder, Out(c) \in Bond, Pipe(c),
         WriteCut(c) \/ Write(c) \/ WriteWait(c) \/ WriteDone(c)
  PROVE  TypeOK'
<1>0. Out(c) = c /\ c \in Bond
  BY DEF Out
<1>1. CASE WriteCut(c)
  BY <1>1 DEF WriteCut, TypeOK, binderVars, streamVars, threadVars, mainVars
<1>2. CASE Write(c)
  <2>1. PICK k \in 1 .. MaxSize :
          /\ size' = [size EXCEPT ![c] = k]
          /\ buf' = [buf EXCEPT ![c] = [j \in 1 .. k |-> written[c] + j]]
          /\ canRead' = [canRead EXCEPT ![c] = TRUE]
    BY <1>0, <1>2 DEF Write, Resize
  <2>2. k \in Nat /\ written[c] \in Nat /\ k \in 0 .. MaxSize
    BY <1>0, CoderMixerAssumption DEF TypeOK
  <2>3. [j \in 1 .. k |-> written[c] + j] \in Seq(Nat)
    BY <2>2, Filling
  <2>4. /\ buf' \in [Bond -> Seq(Nat)] /\ canRead' \in [Bond -> BOOLEAN]
        /\ size' \in [Coder -> 0 .. MaxSize]
    BY <2>1, <2>2, <2>3 DEF TypeOK
  <2>5. QED
    BY <1>2, <2>4 DEF Write, Goto, TypeOK, CoderPc, streamVars, threadVars, mainVars, history
<1>3. CASE WriteWait(c)
  <2>1. canWrite' = [canWrite EXCEPT ![c] = @ - 1] /\ canWrite[c] > 0
    BY <1>0, <1>3 DEF WriteWait, Unlocked
  <2>2. canWrite' \in [Bond -> 0 .. MaxCount]
    BY <1>0, <2>1 DEF TypeOK, MaxCount
  <2>3. QED
    BY <1>3, <2>2 DEF WriteWait, Goto, TypeOK, CoderPc, streamVars, threadVars, mainVars,
                      history
<1>4. CASE WriteDone(c)
  <2>1. written' = [written EXCEPT ![c] = @ + Taken(c)] \/ written' = written
    BY <1>0, <1>4 DEF WriteDone
  <2>2. written[c] + Taken(c) \in Nat
    <3>1. written[c] + size[c] = Len(got[c]) + Len(buf[c])
      BY <1>4 DEF WriteDone, Pipe, Carried, InWrite
    <3>2. written[c] \in Nat /\ size[c] \in Nat /\ Len(got[c]) \in Nat /\ Len(buf[c]) \in Nat
      BY <1>0, CoderMixerAssumption DEF TypeOK
    <3>3. Taken(c) = size[c] - Len(buf[c])
      BY <1>0 DEF Taken
    <3>4. PICK w \in Nat, o \in Nat, g \in Nat, l \in Nat :
            w = written[c] /\ o = size[c] /\ g = Len(got[c]) /\ l = Len(buf[c])
      BY <3>2, Zenon
    <3>5. w + o = g + l
      BY <3>1, <3>4, Zenon
    <3>6. w + (o - l) = g
      BY <3>5
    <3>7. QED
      BY <3>3, <3>4, <3>6, Zenon
  <2>3. written' \in [Bond -> Nat]
    BY <2>1, <2>2 DEF TypeOK
  <2>4. readingWasClosed2' \in [Bond -> BOOLEAN] /\ cut' \subseteq Bond
    BY <1>0, <1>4 DEF WriteDone, TypeOK
  <2>5. QED
    BY <1>4, <2>3, <2>4, CoderMixerAssumption
       DEF WriteDone, Goto, Resize, TypeOK, CoderPc, streamVars, threadVars, mainVars
<1>5. QED
  BY <1>1, <1>2, <1>3, <1>4

\* The thread and the streams around a coder keep the types.
LEMMA EndType ==
  ASSUME TypeOK, NEW c \in Coder,
         ThreadStart(c) \/ EndCode(c) \/ CloseIn(c) \/ CloseOut(c) \/ Finish(c)
  PROVE  TypeOK'
<1>0. (HasIn(c) => In(c) \in Bond) /\ (HasOut(c) => Out(c) \in Bond)
  BY Bonds
<1>1. CASE ThreadStart(c)
  BY <1>1 DEF ThreadStart, Goto, TypeOK, CoderPc, binderVars, streamVars, mainVars, history
<1>2. CASE EndCode(c)
  <2>1. PICK r \in {"ok", "cut"} \cup Faults :
          /\ res' = [res EXCEPT ![c] = r]
          /\ failed' = IF r \in FaultKinds THEN failed \cup {c} ELSE failed
    BY <1>2 DEF EndCode
  <2>2. r \in Results
    BY CoderMixerAssumption DEF Results
  <2>3. QED
    BY <1>2, <2>1, <2>2 DEF EndCode, Goto, TypeOK, CoderPc, binderVars, streamVars,
                            threadVars, mainVars
<1>3. CASE CloseIn(c)
  <2>1. /\ canWrite' \in [Bond -> 0 .. MaxCount] /\ lost' \in BOOLEAN
        /\ reading' \subseteq Bond
    <3>1. CASE HasIn(c)
      <4>1. Release(In(c), 2) /\ reading' = reading \ {In(c)}
        BY <1>3, <3>1 DEF CloseIn, CloseUnlocks
      <4>2. QED
        BY <1>0, <3>1, <4>1, ReleaseType DEF TypeOK
    <3>2. CASE ~ HasIn(c)
      BY <1>3, <3>2 DEF CloseIn, TypeOK
    <3>3. QED
      BY <3>1, <3>2
  <2>2. QED
    BY <1>3, <2>1 DEF CloseIn, Goto, TypeOK, CoderPc, threadVars, mainVars
<1>4. CASE CloseOut(c)
  <2>1. /\ buf' \in [Bond -> Seq(Nat)] /\ canRead' \in [Bond -> BOOLEAN]
        /\ writing' \subseteq Bond
    <3>1. CASE HasOut(c)
      <4>1. /\ buf' = [buf EXCEPT ![Out(c)] = <<>>]
            /\ canRead' = [canRead EXCEPT ![Out(c)] = TRUE]
            /\ writing' = writing \ {Out(c)}
        BY <1>4, <3>1 DEF CloseOut
      <4>2. <<>> \in Seq(Nat)
        OBVIOUS
      <4>3. buf' \in [Bond -> Seq(Nat)]
        BY <4>1, <4>2 DEF TypeOK
      <4>4. QED
        BY <4>1, <4>3 DEF TypeOK
    <3>2. CASE ~ HasOut(c)
      BY <1>4, <3>2 DEF CloseOut, TypeOK
    <3>3. QED
      BY <3>1, <3>2
  <2>2. QED
    BY <1>4, <2>1 DEF CloseOut, Goto, TypeOK, CoderPc, threadVars, mainVars, history
<1>5. CASE Finish(c)
  <2>1. main' \in MainPc /\ next' \in 0 .. N /\ finishedEvent' \in [Coder -> BOOLEAN]
    <3>1. 0 \in 0 .. N
      BY CoderMixerAssumption
    <3>2. main \in MainPc /\ next \in 0 .. N /\ finishedEvent \in [Coder -> BOOLEAN]
      BY DEF TypeOK
    <3>3. CASE c = Main
      BY <1>5, <3>1, <3>2, <3>3 DEF Finish, MainPc
    <3>4. CASE c # Main
      BY <1>5, <3>2, <3>4 DEF Finish
    <3>5. QED
      BY <3>3, <3>4
  <2>2. QED
    BY <1>5, <2>1 DEF Finish, Goto, TypeOK, CoderPc, binderVars, streamVars, history
<1>6. QED
  BY <1>1, <1>2, <1>3, <1>4, <1>5

\* The caller keeps the types.
LEMMA MixerType ==
  ASSUME TypeOK, Mixer \/ Call
  PROVE  TypeOK'
<1>1. CASE StartThread
  <2>1. next \in Coder /\ next' \in 0 .. N
    BY <1>1, CoderMixerAssumption DEF StartThread, TypeOK, Coder
  <2>2. startEvent' \in [Coder -> BOOLEAN]
    BY <1>1, <2>1 DEF StartThread, TypeOK
  <2>3. QED
    BY <1>1, <2>1, <2>2 DEF StartThread, TypeOK, binderVars, streamVars, history
<1>2. CASE RunMain
  BY <1>2 DEF RunMain, Goto, TypeOK, CoderPc, MainPc, binderVars, streamVars, threadVars, history
<1>3. CASE WaitCoder
  <2>1. next' \in 0 .. N /\ finishedEvent' \in [Coder -> BOOLEAN]
    <3>1. next' \in 0 .. N
      BY <1>3, CoderMixerAssumption DEF WaitCoder, TypeOK
    <3>2. finishedEvent' \in [Coder -> BOOLEAN]
      BY <1>3 DEF WaitCoder, TypeOK
    <3>3. QED
      BY <3>1, <3>2
  <2>2. QED
    BY <1>3, <2>1 DEF WaitCoder, TypeOK, binderVars, streamVars, history
<1>4. CASE Return
  <2>1. MixerResult \in Results
    BY Worst
  <2>2. QED
    BY <1>4, <2>1 DEF Return, TypeOK, MainPc, binderVars, streamVars, threadVars, history
<1>5. CASE Call
  <2>1. calls' \in 1 .. MaxCalls
    BY <1>5, CoderMixerAssumption DEF Call, TypeOK
  <2>2. <<>> \in Seq(Nat) /\ \A b \in Bond : ClosedAtStart(b) \in BOOLEAN
    BY DEF ClosedAtStart
  <2>3. QED
    BY <1>5, <2>1, <2>2, CoderMixerAssumption DEF Call, TypeOK, MainPc, MaxCount
<1>6. QED
  BY <1>1, <1>2, <1>3, <1>4, <1>5 DEF Mixer

-----------------------------------------------------------------------------
(* The pipes. *)

\* Nothing of binder b changes in this step.
Still(b) ==
  /\ canRead'[b] = canRead[b] /\ canWrite'[b] = canWrite[b] /\ waitWrite'[b] = waitWrite[b]
  /\ buf'[b] = buf[b] /\ readingWasClosed2'[b] = readingWasClosed2[b]
  /\ processedSize'[b] = processedSize[b] /\ written'[b] = written[b] /\ got'[b] = got[b]
  /\ (b \in reading' <=> b \in reading) /\ (b \in writing' <=> b \in writing)

\* Coder c stays where it is, or is in this step in none of the places l.
Apart(c, l) ==
  \/ pc'[c] = pc[c] /\ size'[c] = size[c]
  \/ pc[c] \notin l /\ pc'[c] \notin l

\* A pipe is as it was if its reader and its writer do nothing in it.
LEMMA PipeKept ==
  ASSUME NEW b \in Bond, Pipe(b), Still(b), Apart(b, WritePcs), Apart(b + 1, ReadPcs)
  PROVE  Pipe(b)'
<1> USE DEF Still, Apart, ReadPcs, WritePcs
<1>1. /\ InWrite(b)' <=> InWrite(b)
      /\ InWrite(b) => size'[b] = size[b]
      /\ pc'[b] = "writeWait" <=> pc[b] = "writeWait"
      /\ pc'[b + 1] = "readRelease" <=> pc[b + 1] = "readRelease"
  BY DEF InWrite
<1>2. Carried(b)'
  BY <1>1 DEF Pipe, Carried
<1>3. Unlocks(b)'
  BY <1>1 DEF Pipe, Unlocks
<1>4. Offers(b)'
  BY <1>1 DEF Pipe, Offers
<1>5. QED
  BY <1>2, <1>3, <1>4 DEF Pipe

\* A coder touches only the binders at its sides.
LEMMA Elsewhere ==
  ASSUME TypeOK, NEW c \in Coder, CoderStep(c)
  PROVE  /\ \A d \in Coder \ {c} : pc'[d] = pc[d] /\ size'[d] = size[d]
         /\ \A b \in Bond : b # c /\ b + 1 # c => Still(b)
<1>1. PICK l : pc' = [pc EXCEPT ![c] = l] \/ pc' = pc
  BY DEF CoderStep, ThreadStart, Read, ReadWait, ReadCopy, ReadRelease, WriteCut, Write,
         WriteWait, WriteDone, EndCode, CloseIn, CloseOut, Finish, Goto
<1>2. PICK k : size' = [size EXCEPT ![c] = k] \/ size' = size
  BY DEF CoderStep, ThreadStart, Read, ReadWait, ReadCopy, ReadRelease, WriteCut, Write,
         WriteWait, WriteDone, EndCode, CloseIn, CloseOut, Finish, Resize
<1>3. \A d \in Coder \ {c} : pc'[d] = pc[d] /\ size'[d] = size[d]
  BY <1>1, <1>2 DEF TypeOK
<1> DEFINE Away(b) == b # In(c) /\ b # Out(c)
<1>4. \A b \in Bond : b # c /\ b + 1 # c => Away(b)
  BY CoderMixerAssumption DEF Bond, Coder, In, Out
<1>5. \A b \in Bond : Away(b) => Still(b)
  <2> USE DEF TypeOK, Still, Release
  <2>1. CASE ThreadStart(c) \/ Read(c) \/ WriteCut(c) \/ EndCode(c) \/ Finish(c)
    BY <2>1 DEF ThreadStart, Read, WriteCut, EndCode, Finish, binderVars, streamVars, history
  <2>2. CASE ReadWait(c) \/ ReadRelease(c)
    BY <2>2 DEF ReadWait, ReadRelease, streamVars, history
  <2>3. CASE ReadCopy(c)
    BY <2>3 DEF ReadCopy, streamVars
  <2>4. CASE Write(c) \/ WriteWait(c)
    BY <2>4 DEF Write, WriteWait, streamVars, history
  <2>5. CASE WriteDone(c)
    BY <2>5 DEF WriteDone, streamVars
  <2>6. CASE CloseIn(c)
    BY <2>6 DEF CloseIn
  <2>7. CASE CloseOut(c)
    BY <2>7 DEF CloseOut, history
  <2>8. QED
    BY <2>1, <2>2, <2>3, <2>4, <2>5, <2>6, <2>7 DEF CoderStep
<1>6. QED
  BY <1>3, <1>4, <1>5

Neutral(c) == ThreadStart(c) \/ EndCode(c) \/ Finish(c)

\* A coder that reads, or closes its input, leaves the pipe it writes alone.
LEMMA OutputKept ==
  ASSUME TypeOK, NEW c \in Coder, NEW b \in Bond, b = c, Pipe(b),
         \/ Neutral(c) \/ Read(c) \/ ReadWait(c) \/ ReadCopy(c) \/ ReadRelease(c)
         \/ WriteCut(c) \/ CloseIn(c)
  PROVE  Pipe(b)'
<1>1. b # In(c) /\ b + 1 \in Coder \ {c}
  BY Bonds, CoderMixerAssumption DEF Bond, Coder, In
<1>2. Apart(b + 1, ReadPcs)
  <2>1. CoderStep(c)
    BY DEF CoderStep, Neutral
  <2>2. QED
    BY <1>1, <2>1, Elsewhere DEF Apart
<1>3. Apart(b, WritePcs)
  BY DEF Apart, WritePcs, Neutral, ThreadStart, EndCode, Finish, Read, ReadWait, ReadCopy,
         ReadRelease, WriteCut, CloseIn, Goto, TypeOK
<1>4. Still(b)
  <2> USE <1>1 DEF TypeOK, Still, Release
  <2>1. CASE Neutral(c) \/ Read(c) \/ WriteCut(c)
    BY <2>1 DEF Neutral, ThreadStart, Read, WriteCut, EndCode, Finish, binderVars, streamVars,
                history
  <2>2. CASE ReadWait(c) \/ ReadRelease(c)
    BY <2>2 DEF ReadWait, ReadRelease, streamVars, history
  <2>3. CASE ReadCopy(c)
    BY <2>3 DEF ReadCopy, streamVars
  <2>4. CASE CloseIn(c)
    BY <2>4 DEF CloseIn
  <2>5. QED
    BY <2>1, <2>2, <2>3, <2>4
<1>5. QED
  BY <1>2, <1>3, <1>4, PipeKept

\* A coder that writes, or closes its output, leaves the pipe it reads alone.
LEMMA InputKept ==
  ASSUME TypeOK, NEW c \in Coder, NEW b \in Bond, b + 1 = c, Pipe(b),
         \/ Neutral(c) \/ WriteCut(c) \/ Write(c) \/ WriteWait(c) \/ WriteDone(c)
         \/ CloseOut(c)
  PROVE  Pipe(b)'
<1>1. b # Out(c) /\ b \in Coder \ {c}
  BY Bonds, CoderMixerAssumption DEF Bond, Coder, Out
<1>2. Apart(b, WritePcs)
  <2>1. CoderStep(c)
    BY DEF CoderStep, Neutral
  <2>2. QED
    BY <1>1, <2>1, Elsewhere DEF Apart
<1>3. Apart(b + 1, ReadPcs)
  BY DEF Apart, ReadPcs, Neutral, ThreadStart, EndCode, Finish, WriteCut, Write, WriteWait,
         WriteDone, CloseOut, Goto, TypeOK
<1>4. Still(b)
  <2> USE <1>1 DEF TypeOK, Still
  <2>1. CASE Neutral(c) \/ WriteCut(c)
    BY <2>1 DEF Neutral, ThreadStart, WriteCut, EndCode, Finish, binderVars, streamVars, history
  <2>2. CASE Write(c) \/ WriteWait(c)
    BY <2>2 DEF Write, WriteWait, streamVars, history
  <2>3. CASE WriteDone(c)
    BY <2>3 DEF WriteDone, streamVars
  <2>4. CASE CloseOut(c)
    BY <2>4 DEF CloseOut, history
  <2>5. QED
    BY <2>1, <2>2, <2>3, <2>4
<1>5. QED
  BY <1>2, <1>3, <1>4, PipeKept

\* What is known of a pipe in the hands of its reader.
LEMMA InHand ==
  ASSUME TypeOK, NEW b \in Bond
  PROVE  /\ canWrite[b] \in 0 .. 3 /\ written[b] \in Nat /\ size[b] \in Nat
         /\ buf[b] \in Seq(Nat) /\ got[b] \in Seq(Nat) /\ size[b + 1] \in Nat
         /\ processedSize[b] \in Nat /\ b \in Coder /\ b + 1 \in Coder /\ b # b + 1
         /\ Len(buf[b]) \in Nat /\ Len(got[b]) \in Nat
<1>1. b \in Coder /\ b + 1 \in Coder /\ b # b + 1
  BY Bonds
<1>2. size[b] \in 0 .. MaxSize /\ size[b + 1] \in 0 .. MaxSize
  BY <1>1 DEF TypeOK
<1>3. QED
  BY <1>1, <1>2, CoderMixerAssumption DEF TypeOK, MaxCount

\* The reader asks, and is let in (StreamBinder.cpp:74-83).
LEMMA ReadPipe ==
  ASSUME TypeOK, Control, NEW c \in Coder, NEW b \in Bond, b + 1 = c, Pipe(b),
         Read(c) \/ ReadWait(c)
  PROVE  Pipe(b)'
<1>1. In(c) = b /\ b \in Coder /\ b # c
  BY Bonds
<1>2. pc[c] \in {"run", "readWait"} /\ pc'[c] \in {"readWait", "readCopy"}
  BY DEF Read, ReadWait, Goto, TypeOK
<1>3. b \in reading
  BY <1>1, <1>2, RunningHas, Bonds DEF Control, Running
<1>4. pc'[b] = pc[b] /\ size'[b] = size[b]
  BY <1>1, Elsewhere DEF CoderStep
<1>5. /\ canWrite' = canWrite /\ buf' = buf /\ readingWasClosed2' = readingWasClosed2
      /\ processedSize' = processedSize /\ written' = written /\ got' = got
      /\ reading' = reading /\ writing' = writing
  BY DEF Read, ReadWait, binderVars, streamVars, history
<1>6. Carried(b)'
  BY <1>4, <1>5 DEF Pipe, Carried, InWrite
<1>7. Unlocks(b)'
  BY <1>2, <1>4, <1>5 DEF Pipe, Unlocks
<1>8. Offers(b)'
  <2>1. CASE Read(c)
    <3>1. size'[c] > 0
      BY <2>1, CoderMixerAssumption DEF Read, Resize, TypeOK
    <3>2. canRead' = canRead /\ waitWrite' = waitWrite /\ (pc'[c] = "readCopy" => ~ waitWrite[b])
      BY <1>1, <2>1 DEF Read, Goto, TypeOK, binderVars
    <3>3. QED
      BY <1>2, <1>4, <1>5, <3>1, <3>2 DEF Pipe, Offers
  <2>2. CASE ReadWait(c)
    <3>1. size' = size /\ canRead[b] /\ ~ canRead'[b] /\ ~ waitWrite'[b] /\ pc[c] = "readWait"
      BY <1>1, <2>2 DEF ReadWait, TypeOK
    <3>2. QED
      BY <1>2, <1>3, <1>4, <1>5, <3>1 DEF Pipe, Offers
  <2>3. QED
    BY <2>1, <2>2
<1>9. QED
  BY <1>6, <1>7, <1>8 DEF Pipe

\* The reader finds nothing: it is the end (StreamBinder.cpp:84-88).
LEMMA ReadEnd ==
  ASSUME TypeOK, Control, NEW c \in Coder, NEW b \in Bond, b + 1 = c, Pipe(b),
         pc[c] = "readCopy", Min({size[c], Len(buf[b])}) = 0
  PROVE  buf[b] = <<>> /\ b \in reading /\ b \notin writing
<1>1. In(c) = b /\ b \in reading
  BY RunningHas, Bonds DEF Control, Running
<1>2. size[c] > 0 /\ ~ waitWrite[b]
  BY DEF Pipe, Offers
<1>3. size[c] \in Nat /\ Len(buf[b]) \in Nat /\ buf[b] \in Seq(Nat)
  BY InHand
<1>4. Min({size[c], Len(buf[b])}) \in {size[c], Len(buf[b])}
  BY <1>3, MinOfTwo
<1>5. Len(buf[b]) = 0
  BY <1>2, <1>3, <1>4
<1>6. buf[b] = <<>>
  BY <1>3, <1>5
<1>7. b \notin writing
  BY <1>1, <1>2, <1>6 DEF Pipe, Offers
<1>8. QED
  BY <1>1, <1>6, <1>7

\* The reader takes what is there, up to what it asked for
\* (StreamBinder.cpp:84-107).
LEMMA ReadCopyPipe ==
  ASSUME TypeOK, Control, NEW c \in Coder, NEW b \in Bond, b + 1 = c, Pipe(b), ReadCopy(c)
  PROVE  Pipe(b)'
<1>1. In(c) = b /\ b \in Coder /\ b # c /\ pc[c] = "readCopy"
  BY Bonds DEF ReadCopy
<1>2. b \in reading
  BY <1>1, RunningHas, Bonds DEF Control, Running
<1>3. pc'[b] = pc[b] /\ size'[b] = size[b]
  BY <1>1, Elsewhere DEF CoderStep
<1>4. /\ canWrite' = canWrite /\ canRead' = canRead /\ readingWasClosed2' = readingWasClosed2
      /\ written' = written /\ reading' = reading /\ writing' = writing
  BY DEF ReadCopy, streamVars
<1>5. PICK k : k = Min({size[c], Len(buf[b])})
  OBVIOUS
<1>6. k \in 0 .. Len(buf[b])
  <2>1. size[c] \in Nat /\ Len(buf[b]) \in Nat
    BY InHand
  <2>2. QED
    BY <1>5, <2>1, MinOfTwo
<1>7. CASE k = 0
  <2>1. /\ waitWrite' = waitWrite /\ buf' = buf /\ processedSize' = processedSize /\ got' = got
        /\ pc'[c] = "run"
    BY <1>1, <1>5, <1>7 DEF ReadCopy, Goto, TypeOK
  <2>2. b \notin writing
    BY <1>1, <1>5, <1>7, ReadEnd
  <2>3. Carried(b)'
    BY <1>3, <1>4, <2>1 DEF Pipe, Carried, InWrite
  <2>4. Unlocks(b)'
    BY <1>1, <1>3, <1>4, <2>1 DEF Pipe, Unlocks
  <2>5. Offers(b)'
    BY <1>4, <2>1, <2>2 DEF Offers
  <2>6. QED
    BY <2>3, <2>4, <2>5 DEF Pipe
<1>8. CASE k # 0
  <2> DEFINE left == SubSeq(buf[b], k + 1, Len(buf[b]))
             both == got[b] \o SubSeq(buf[b], 1, k)
  <2>1. /\ got'[b] = both /\ buf'[b] = left /\ processedSize'[b] = processedSize[b] + k
        /\ waitWrite'[b] = (waitWrite[b] \/ left = <<>>)
        /\ pc'[c] = IF left = <<>> THEN "readRelease" ELSE "run"
    <3>1. /\ got' = [got EXCEPT ![b] = @ \o SubSeq(buf[b], 1, k)]
          /\ buf' = [buf EXCEPT ![b] = left]
          /\ processedSize' = [processedSize EXCEPT ![b] = @ + k]
          /\ waitWrite' = [waitWrite EXCEPT ![b] = @ \/ WholeRead(left)]
          /\ pc' = [pc EXCEPT ![c] = IF WholeRead(left) THEN "readRelease" ELSE "run"]
      BY <1>1, <1>5, <1>8 DEF ReadCopy, Goto
    <3>2. QED
      BY <3>1 DEF TypeOK, WholeRead
  <2>2. /\ buf[b] \in Seq(Nat) /\ got[b] \in Seq(Nat) /\ Len(got[b]) \in Nat
        /\ Len(buf[b]) \in Nat /\ written[b] \in Nat /\ size[b] \in Nat /\ canWrite[b] \in 0 .. 3
        /\ processedSize[b] \in Nat
    BY InHand
  <2>3. /\ \A i \in 1 .. Len(got[b]) : got[b][i] = i
        /\ \A i \in 1 .. Len(buf[b]) : buf[b][i] = Len(got[b]) + i
        /\ processedSize[b] = Len(got[b])
    BY <1>2 DEF Pipe, Carried
  <2>4. /\ left \in Seq(Nat) /\ Len(left) = Len(buf[b]) - k
        /\ \A i \in 1 .. Len(left) : left[i] = (Len(got[b]) + k) + i
    BY <1>6, <2>2, <2>3, Taking
  <2>5. /\ both \in Seq(Nat) /\ Len(both) = Len(got[b]) + k
        /\ \A i \in 1 .. Len(both) : both[i] = i
    BY <1>6, <2>2, <2>3, Joining
  <2> HIDE DEF left, both
  <2>6. buf[b] # <<>>
    BY <1>6, <1>8
  <2>7. pc[b] = "writeWait" /\ InWrite(b)
    BY <1>2, <2>6 DEF Pipe, Unlocks, InWrite
  <2>8. Carried(b)'
    <3>1. InWrite(b)'
      BY <1>3, <2>7 DEF InWrite
    <3>2. Len(got'[b]) + Len(buf'[b]) = Len(got[b]) + Len(buf[b])
      <4>1. Len(got'[b]) = Len(got[b]) + k /\ Len(buf'[b]) = Len(buf[b]) - k
        BY <2>1, <2>4, <2>5
      <4>2. PICK g \in Nat, l \in Nat : g = Len(got[b]) /\ l = Len(buf[b])
        BY <2>2
      <4>3. k \in 0 .. l
        BY <1>6, <4>2
      <4>4. (g + k) + (l - k) = g + l
        BY <4>3
      <4>5. QED
        BY <4>1, <4>2, <4>4
    <3>3. size'[b] > 0 /\ written'[b] + size'[b] = Len(got[b]) + Len(buf[b])
      BY <1>3, <1>4, <2>7 DEF Pipe, Carried
    <3>4. processedSize'[b] = Len(got'[b])
      BY <2>1, <2>3, <2>5
    <3>5. QED
      BY <2>1, <2>4, <2>5, <3>1, <3>2, <3>3, <3>4 DEF Carried
  <2>9. Unlocks(b)'
    <3>1. canWrite[b] = 0
      BY <1>1, <1>2, <2>2, <2>6 DEF Pipe, Unlocks
    <3>2. QED
      BY <1>1, <1>2, <1>3, <1>4, <2>1, <2>7, <3>1 DEF Pipe, Unlocks
  <2>10. Offers(b)'
    <3>1. ~ waitWrite[b] /\ (b \in writing => ~ canRead[b])
      BY <1>1, <1>2 DEF Pipe, Offers
    <3>2. QED
      BY <1>1, <1>3, <1>4, <2>1, <2>7, <3>1 DEF Offers
  <2>11. QED
    BY <2>8, <2>9, <2>10 DEF Pipe
<1>9. QED
  BY <1>7, <1>8

\* A release whose places are free.
LEMMA ReleaseFits ==
  ASSUME TypeOK, NEW b \in Bond, NEW k \in {1, 2}, canWrite[b] <= 1, Release(b, k)
  PROVE  canWrite' = [canWrite EXCEPT ![b] = canWrite[b] + k] /\ lost' = lost
<1>1. canWrite[b] \in 0 .. 3
  BY InHand
<1>2. canWrite[b] + k <= MaxCount
  BY <1>1 DEF MaxCount
<1>3. QED
  BY <1>2 DEF Release

\* The unlock of a buffer that was read, and those of a close, fit.
LEMMA UnlocksFit ==
  ASSUME TypeOK, NEW b \in Bond, Pipe(b), b \in reading
  PROVE  canWrite[b] <= 1
<1>1. canWrite[b] \in 0 .. 3
  BY InHand
<1>2. QED
  BY <1>1 DEF Pipe, Unlocks

\* The reader lets the writer go (StreamBinder.cpp:103-104).
LEMMA ReadReleasePipe ==
  ASSUME TypeOK, Control, NEW c \in Coder, NEW b \in Bond, b + 1 = c, Pipe(b), ReadRelease(c)
  PROVE  Pipe(b)' /\ lost' = lost
<1>1. In(c) = b /\ b \in Coder /\ b # c /\ pc[c] = "readRelease"
  BY Bonds DEF ReadRelease
<1>2. b \in reading
  BY <1>1, RunningHas, Bonds DEF Control, Running
<1>3. pc'[b] = pc[b] /\ size'[b] = size[b] /\ pc'[c] = "run"
  BY <1>1, Elsewhere DEF CoderStep, ReadRelease, Goto, TypeOK
<1>4. /\ buf' = buf /\ canRead' = canRead /\ readingWasClosed2' = readingWasClosed2
      /\ written' = written /\ reading' = reading /\ writing' = writing
      /\ waitWrite' = waitWrite /\ processedSize' = processedSize /\ got' = got
  BY DEF ReadRelease, streamVars
<1>5. canWrite' = [canWrite EXCEPT ![b] = canWrite[b] + 1] /\ lost' = lost
  BY <1>1, <1>2, UnlocksFit, ReleaseFits DEF ReadRelease
<1>6. canWrite'[b] = canWrite[b] + 1 /\ canWrite[b] \in 0 .. 3
  BY <1>5, InHand DEF TypeOK
<1>7. Carried(b)'
  BY <1>3, <1>4 DEF Pipe, Carried, InWrite
<1>8. Unlocks(b)'
  BY <1>1, <1>2, <1>3, <1>4, <1>6 DEF Pipe, Unlocks
<1>9. Offers(b)'
  BY <1>1, <1>3, <1>4 DEF Pipe, Offers
<1>10. QED
  BY <1>5, <1>7, <1>8, <1>9 DEF Pipe

\* The reader closes: two unlocks for the writer (StreamBinder.h:57-73).
LEMMA CloseInPipe ==
  ASSUME TypeOK, Control, NEW c \in Coder, NEW b \in Bond, b + 1 = c, Pipe(b), CloseIn(c)
  PROVE  Pipe(b)' /\ lost' = lost
<1>1. In(c) = b /\ HasIn(c) /\ b \in Coder /\ b # c /\ pc[c] = "closeIn"
  BY Bonds DEF CloseIn
<1>2. b \in reading
  BY <1>1, RunningHas DEF Control
<1>3. pc'[b] = pc[b] /\ size'[b] = size[b] /\ pc'[c] = "closeOut"
  BY <1>1, Elsewhere DEF CoderStep, CloseIn, Goto, TypeOK
<1>4. /\ buf' = buf /\ canRead' = canRead /\ readingWasClosed2' = readingWasClosed2
      /\ written' = written /\ reading' = reading \ {b} /\ writing' = writing
      /\ waitWrite' = waitWrite /\ processedSize' = processedSize /\ got' = got
  BY <1>1 DEF CloseIn
<1>5. lost' = lost
  BY <1>1, <1>2, UnlocksFit, ReleaseFits DEF CloseIn, CloseUnlocks
<1>6. Carried(b)'
  BY <1>3, <1>4 DEF Pipe, Carried, InWrite
<1>7. Unlocks(b)'
  BY <1>4 DEF Unlocks
<1>8. Offers(b)'
  BY <1>1, <1>3, <1>4 DEF Offers
<1>9. QED
  BY <1>5, <1>6, <1>7, <1>8 DEF Pipe

\* The writer offers a buffer (StreamBinder.cpp:109-133).
LEMMA WritePipe ==
  ASSUME TypeOK, Control, NEW c \in Coder, c \in Bond, Pipe(c), Write(c)
  PROVE  Pipe(c)'
<1>1. Out(c) = c /\ c + 1 \in Coder /\ c # c + 1 /\ pc[c] = "run"
  BY Bonds DEF Write, Out
<1>2. c \in writing
  BY <1>1, RunningHas, Bonds DEF Control, Running
<1>3. pc'[c + 1] = pc[c + 1] /\ size'[c + 1] = size[c + 1] /\ pc'[c] = "writeWait"
  BY <1>1, Elsewhere DEF CoderStep, Write, Goto, TypeOK
<1>4. /\ canWrite' = canWrite /\ readingWasClosed2' = readingWasClosed2 /\ written' = written
      /\ reading' = reading /\ writing' = writing /\ waitWrite' = waitWrite
      /\ processedSize' = processedSize /\ got' = got
  BY DEF Write, streamVars, history
<1>5. PICK k \in 1 .. MaxSize :
        /\ size' = [size EXCEPT ![c] = k]
        /\ buf' = [buf EXCEPT ![c] = [j \in 1 .. k |-> written[c] + j]]
        /\ canRead' = [canRead EXCEPT ![c] = TRUE]
  BY <1>1 DEF Write, Resize
<1>6. /\ buf[c] \in Seq(Nat) /\ got[c] \in Seq(Nat) /\ Len(got[c]) \in Nat
      /\ written[c] \in Nat /\ canWrite[c] \in 0 .. 3 /\ k \in Nat /\ k > 0
  BY <1>5, InHand, CoderMixerAssumption
<1> DEFINE new == [j \in 1 .. k |-> written[c] + j]
<1>7. new \in Seq(Nat) /\ Len(new) = k /\ \A i \in 1 .. k : new[i] = written[c] + i
  BY <1>6, Filling
<1>8. size'[c] = k /\ buf'[c] = new
  BY <1>5 DEF TypeOK
<1> HIDE DEF new
<1>9. written[c] = Len(got[c])
  BY <1>1 DEF Pipe, Carried, InWrite
<1>10. Carried(c)'
  <2>1. InWrite(c)'
    BY <1>3 DEF InWrite
  <2>2. (\A i \in 1 .. Len(got[c]) : got[c][i] = i) /\ processedSize[c] = Len(got[c])
    BY DEF Pipe, Carried
  <2>3. \A i \in 1 .. Len(buf'[c]) : buf'[c][i] = Len(got[c]) + i
    BY <1>7, <1>8, <1>9
  <2>4. written[c] + k = Len(got[c]) + Len(new)
    BY <1>7, <1>9
  <2>5. QED
    BY <1>4, <1>6, <1>8, <2>1, <2>2, <2>3, <2>4 DEF Carried
<1>11. c \in reading => /\ canWrite[c] = 0 /\ pc[c + 1] # "readRelease"
                        /\ waitWrite[c]
  BY <1>1, <1>2, <1>6 DEF Pipe, Unlocks, Offers
<1>12. new # <<>>
  BY <1>6, <1>7
<1>13. Unlocks(c)'
  BY <1>3, <1>4, <1>6, <1>8, <1>11, <1>12 DEF Pipe, Unlocks
<1>14. Offers(c)'
  BY <1>3, <1>4, <1>8, <1>11, <1>12 DEF Pipe, Offers
<1>15. QED
  BY <1>10, <1>13, <1>14 DEF Pipe

\* The writer is let go (StreamBinder.cpp:134).
LEMMA WriteWaitPipe ==
  ASSUME TypeOK, Control, NEW c \in Coder, c \in Bond, Pipe(c), WriteWait(c)
  PROVE  Pipe(c)'
<1>1. Out(c) = c /\ c + 1 \in Coder /\ c # c + 1 /\ pc[c] = "writeWait"
  BY Bonds DEF WriteWait, Out
<1>2. pc'[c + 1] = pc[c + 1] /\ pc'[c] = "writeDone"
  BY <1>1, Elsewhere DEF CoderStep, WriteWait, Goto, TypeOK
<1>3. /\ buf' = buf /\ canRead' = canRead /\ readingWasClosed2' = readingWasClosed2
      /\ written' = written /\ reading' = reading /\ writing' = writing /\ size' = size
      /\ waitWrite' = waitWrite /\ processedSize' = processedSize /\ got' = got
  BY DEF WriteWait, streamVars, history
<1>4. canWrite[c] > 0 /\ canWrite'[c] = canWrite[c] - 1 /\ canWrite[c] \in 0 .. 3
  BY <1>1, InHand DEF WriteWait, Unlocked, TypeOK
<1>5. c \in reading => buf[c] = <<>> /\ canWrite[c] = 1 /\ pc[c + 1] # "readRelease"
  BY <1>1, <1>4 DEF Pipe, Unlocks
<1>6. InWrite(c) /\ InWrite(c)'
  BY <1>1, <1>2 DEF InWrite
<1>7. Carried(c)'
  BY <1>3, <1>6 DEF Pipe, Carried
<1>8. Unlocks(c)'
  BY <1>2, <1>3, <1>4, <1>5 DEF Pipe, Unlocks
<1>9. Offers(c)'
  BY <1>1, <1>2, <1>3, <1>5 DEF Pipe, Offers
<1>10. QED
  BY <1>7, <1>8, <1>9 DEF Pipe

\* What the writer learns when it is let go (StreamBinder.cpp:135-150).
LEMMA Learns ==
  ASSUME TypeOK, NEW c \in Coder, c \in Bond, Pipe(c), WriteDone(c)
  PROVE  /\ written' = [written EXCEPT ![c] = Len(got[c])]
         /\ Taken(c) # 0 => UNCHANGED <<readingWasClosed2, cut>>
         /\ Taken(c) = 0 => /\ c \notin reading /\ cut' = cut \cup {c}
                            /\ written[c] = Len(got[c])
                            /\ readingWasClosed2' = [readingWasClosed2 EXCEPT ![c] = TRUE]
<1>1. Out(c) = c /\ pc[c] = "writeDone"
  BY DEF WriteDone, Out
<1>2. PICK w \in Nat, s \in Nat, g \in Nat, l \in Nat :
        w = written[c] /\ s = size[c] /\ g = Len(got[c]) /\ l = Len(buf[c])
  BY InHand
<1>3. s > 0 /\ w + s = g + l
  BY <1>1, <1>2 DEF Pipe, Carried, InWrite
<1>4. Taken(c) = s - l
  BY <1>1, <1>2 DEF Taken
<1>5. w + (s - l) = g
  BY <1>3
<1>6. CASE Taken(c) # 0
  BY <1>1, <1>2, <1>4, <1>5, <1>6 DEF WriteDone
<1>7. CASE Taken(c) = 0
  <2>1. /\ readingWasClosed2' = [readingWasClosed2 EXCEPT ![c] = TRUE] /\ cut' = cut \cup {c}
        /\ written' = written
    BY <1>1, <1>7 DEF WriteDone
  <2>2. s = l /\ w = g
    BY <1>4, <1>5, <1>7
  <2>3. written = [written EXCEPT ![c] = Len(got[c])]
    BY <1>2, <2>2 DEF TypeOK
  <2>4. c \notin reading
    <3>1. buf[c] # <<>>
      BY <1>2, <1>3, <2>2
    <3>2. QED
      BY <1>1, <3>1 DEF Pipe, Unlocks
  <2>5. QED
    BY <1>2, <1>7, <2>1, <2>2, <2>3, <2>4
<1>8. QED
  BY <1>6, <1>7

\* The writer goes on (StreamBinder.cpp:135-150).
LEMMA WriteDonePipe ==
  ASSUME TypeOK, Control, NEW c \in Coder, c \in Bond, Pipe(c), WriteDone(c)
  PROVE  Pipe(c)'
<1>1. Out(c) = c /\ c + 1 \in Coder /\ c # c + 1 /\ pc[c] = "writeDone"
  BY Bonds DEF WriteDone, Out
<1>2. pc'[c + 1] = pc[c + 1] /\ size'[c + 1] = size[c + 1] /\ pc'[c] = "run"
  BY <1>1, Elsewhere DEF CoderStep, WriteDone, Goto, TypeOK
<1>3. /\ buf' = buf /\ canRead' = canRead /\ canWrite' = canWrite
      /\ reading' = reading /\ writing' = writing
      /\ waitWrite' = waitWrite /\ processedSize' = processedSize /\ got' = got
  BY DEF WriteDone, streamVars
<1>4. written'[c] = Len(got[c]) /\ (readingWasClosed2'[c] => c \notin reading)
  BY Learns DEF TypeOK, Pipe, Unlocks
<1>5. Carried(c)'
  BY <1>2, <1>3, <1>4 DEF Pipe, Carried, InWrite
<1>6. Unlocks(c)'
  BY <1>1, <1>2, <1>3, <1>4 DEF Pipe, Unlocks
<1>7. Offers(c)'
  BY <1>1, <1>2, <1>3 DEF Pipe, Offers
<1>8. QED
  BY <1>5, <1>6, <1>7 DEF Pipe

\* The writer closes (StreamBinder.h:75-83).
LEMMA CloseOutPipe ==
  ASSUME TypeOK, Control, NEW c \in Coder, c \in Bond, Pipe(c), CloseOut(c)
  PROVE  Pipe(c)'
<1>1. Out(c) = c /\ HasOut(c) /\ c + 1 \in Coder /\ c # c + 1 /\ pc[c] = "closeOut"
  BY Bonds DEF CloseOut, Out
<1>2. pc'[c + 1] = pc[c + 1] /\ size'[c + 1] = size[c + 1] /\ pc'[c] = "finish"
  BY <1>1, Elsewhere DEF CoderStep, CloseOut, Goto, TypeOK
<1>3. /\ canWrite' = canWrite /\ readingWasClosed2' = readingWasClosed2 /\ written' = written
      /\ reading' = reading /\ waitWrite' = waitWrite
      /\ processedSize' = processedSize /\ got' = got
  BY DEF CloseOut, history
<1>4. buf'[c] = <<>> /\ c \notin writing'
  BY <1>1 DEF CloseOut, TypeOK
<1>5. Carried(c)'
  BY <1>1, <1>2, <1>3, <1>4 DEF Pipe, Carried, InWrite
<1>6. Unlocks(c)'
  BY <1>1, <1>2, <1>3, <1>4 DEF Pipe, Unlocks
<1>7. Offers(c)'
  BY <1>2, <1>3, <1>4 DEF Pipe, Offers
<1>8. QED
  BY <1>5, <1>6, <1>7 DEF Pipe

\* A coder's step keeps every pipe.
LEMMA CoderPipes ==
  ASSUME TypeOK, Control, Placed, Pipes, NEW c \in Coder, CoderStep(c)
  PROVE  Pipes'
<1>1. \A b \in Bond : b # c /\ b + 1 # c => Pipe(b)'
  <2>1. SUFFICES ASSUME NEW b \in Bond, b # c, b + 1 # c PROVE Pipe(b)'
    OBVIOUS
  <2>2. Still(b) /\ Apart(b, WritePcs) /\ Apart(b + 1, ReadPcs)
    BY <2>1, Bonds, Elsewhere DEF Apart
  <2>3. QED
    BY <2>2, PipeKept DEF Pipes
<1>2. c \in Bond => Pipe(c)'
  <2>1. SUFFICES ASSUME c \in Bond PROVE Pipe(c)'
    OBVIOUS
  <2>2. Pipe(c)
    BY <2>1 DEF Pipes
  <2>3. CASE \/ Neutral(c) \/ Read(c) \/ ReadWait(c) \/ ReadCopy(c) \/ ReadRelease(c)
             \/ WriteCut(c) \/ CloseIn(c)
    BY <2>1, <2>2, <2>3, OutputKept
  <2>4. CASE Write(c) \/ WriteWait(c) \/ WriteDone(c) \/ CloseOut(c)
    BY <2>1, <2>2, <2>4, WritePipe, WriteWaitPipe, WriteDonePipe, CloseOutPipe
  <2>5. QED
    BY <2>3, <2>4 DEF CoderStep, Neutral
<1>3. \A b \in Bond : b + 1 = c => Pipe(b)'
  <2>1. SUFFICES ASSUME NEW b \in Bond, b + 1 = c PROVE Pipe(b)'
    OBVIOUS
  <2>2. Pipe(b)
    BY DEF Pipes
  <2>3. CASE \/ Neutral(c) \/ WriteCut(c) \/ Write(c) \/ WriteWait(c) \/ WriteDone(c)
             \/ CloseOut(c)
    BY <2>1, <2>2, <2>3, InputKept
  <2>4. CASE Read(c) \/ ReadWait(c) \/ ReadCopy(c) \/ ReadRelease(c) \/ CloseIn(c)
    BY <2>1, <2>2, <2>4, ReadPipe, ReadCopyPipe, ReadReleasePipe, CloseInPipe
  <2>5. QED
    BY <2>3, <2>4 DEF CoderStep, Neutral
<1>4. lost' = lost
  <2>1. CASE ReadRelease(c) \/ CloseIn(c)
    <3>1. CASE HasIn(c)
      <4>1. PICK b \in Bond : b + 1 = c
        BY <3>1, Bonds
      <4>2. Pipe(b)
        BY DEF Pipes
      <4>3. QED
        BY <2>1, <4>1, <4>2, ReadReleasePipe, CloseInPipe
    <3>2. CASE ~ HasIn(c)
      <4>1. ~ ReadRelease(c)
        BY <3>2 DEF Placed, ReadPcs, ReadRelease
      <4>2. QED
        BY <2>1, <3>2, <4>1 DEF CloseIn
    <3>3. QED
      BY <3>1, <3>2
  <2>2. CASE ~ ReadRelease(c) /\ ~ CloseIn(c)
    BY <2>2 DEF CoderStep, ThreadStart, Read, ReadWait, ReadCopy, WriteCut, Write, WriteWait,
                WriteDone, EndCode, CloseOut, Finish, history
  <2>3. QED
    BY <2>1, <2>2
<1>5. QED
  BY <1>1, <1>2, <1>3, <1>4 DEF Pipes

\* The caller moves nothing in the pipes, or begins with new ones.
LEMMA MixerPipes ==
  ASSUME TypeOK, Control, Pipes, Mixer \/ Call
  PROVE  Pipes'
<1>1. CASE StartThread \/ WaitCoder \/ Return
  <2>1. UNCHANGED <<binderVars, streamVars, pc, size, history>>
    BY <1>1 DEF StartThread, WaitCoder, Return
  <2>2. SUFFICES ASSUME NEW b \in Bond PROVE Pipe(b)'
    BY <2>1 DEF Pipes, history
  <2>3. Still(b) /\ Apart(b, WritePcs) /\ Apart(b + 1, ReadPcs) /\ Pipe(b)
    BY <2>1 DEF Still, Apart, Pipes, binderVars, streamVars, history
  <2>4. QED
    BY <2>3, PipeKept
<1>2. CASE RunMain
  <2>1. /\ UNCHANGED <<binderVars, streamVars, size, history>>
        /\ pc' = [pc EXCEPT ![Main] = "run"] /\ pc[Main] = "idle"
    BY <1>2 DEF RunMain, Goto, Control, Threads
  <2>2. SUFFICES ASSUME NEW b \in Bond PROVE Pipe(b)'
    BY <2>1 DEF Pipes, history
  <2>3. b \in Coder /\ b + 1 \in Coder
    BY Bonds
  <2>4. Apart(b, WritePcs) /\ Apart(b + 1, ReadPcs)
    BY <2>1, <2>3 DEF Apart, ReadPcs, WritePcs, TypeOK
  <2>5. Still(b) /\ Pipe(b)
    BY <2>1 DEF Still, Pipes, binderVars, streamVars, history
  <2>6. QED
    BY <2>4, <2>5, PipeKept
<1>3. CASE Call
  <2>1. \A c \in Coder : pc'[c] = "idle"
    BY <1>3 DEF Call, Control, Threads
  <2>2. SUFFICES ASSUME NEW b \in Bond PROVE Pipe(b)'
    BY <1>3 DEF Call, Pipes
  <2>3. b \in Coder /\ b + 1 \in Coder
    BY Bonds
  <2>4. /\ got'[b] = <<>> /\ buf'[b] = <<>> /\ written'[b] = 0 /\ processedSize'[b] = 0
        /\ ~ canRead'[b] /\ waitWrite'[b] /\ canWrite'[b] = 0 /\ ~ readingWasClosed2'[b]
    BY <1>3 DEF Call, ClosedAtStart
  <2>5. QED
    BY <2>1, <2>3, <2>4 DEF Pipe, Carried, Unlocks, Offers, InWrite
<1>4. QED
  BY <1>1, <1>2, <1>3 DEF Mixer

\* Only a coder with an input reads, only one with an output writes.
LEMMA PlacedStep ==
  ASSUME TypeOK, Placed, (\E c \in Coder : CoderStep(c)) \/ Mixer \/ Call
  PROVE  Placed'
<1>1. ASSUME NEW c \in Coder, CoderStep(c) PROVE Placed'
  <2>1. \A d \in Coder \ {c} : pc'[d] = pc[d]
    BY <1>1, Elsewhere, SMTT(30)
  <2>2. pc'[c] \in ReadPcs => HasIn(c)
    BY <1>1, SMTT(30) DEF CoderStep, ThreadStart, Read, ReadWait, ReadCopy, ReadRelease, WriteCut, Write,
                WriteWait, WriteDone, EndCode, CloseIn, CloseOut, Finish, Goto, TypeOK, Placed,
                ReadPcs
  <2>3. pc'[c] \in WritePcs => HasOut(c)
    BY <1>1 DEF CoderStep, ThreadStart, Read, ReadWait, ReadCopy, ReadRelease, WriteCut, Write,
                WriteWait, WriteDone, EndCode, CloseIn, CloseOut, Finish, Goto, TypeOK, Placed,
                WritePcs
  <2>4. QED
    BY <2>1, <2>2, <2>3 DEF Placed, HasIn, HasOut
<1>2. CASE Mixer \/ Call
  <2>1. pc' = pc \/ pc' = [pc EXCEPT ![Main] = "run"]
    BY <1>2 DEF Mixer, Call, StartThread, RunMain, WaitCoder, Return, Goto
  <2>2. QED
    BY <2>1 DEF Placed, HasIn, HasOut, ReadPcs, WritePcs, TypeOK
<1>3. QED
  BY <1>1, <1>2

\* The types are kept by every coder's step.
LEMMA CoderType ==
  ASSUME TypeOK, Placed, Pipes, NEW c \in Coder, CoderStep(c)
  PROVE  TypeOK'
<1>1. CASE ThreadStart(c) \/ EndCode(c) \/ CloseIn(c) \/ CloseOut(c) \/ Finish(c)
  BY <1>1, EndType
<1>2. CASE Read(c) \/ ReadWait(c) \/ ReadCopy(c) \/ ReadRelease(c)
  <2>1. HasIn(c)
    BY <1>2 DEF Placed, ReadPcs, Read, ReadWait, ReadCopy, ReadRelease
  <2>2. In(c) \in Bond
    BY <2>1, Bonds
  <2>3. QED
    BY <1>2, <2>2, ReadType, ReadCopyType
<1>3. CASE WriteCut(c) \/ Write(c) \/ WriteWait(c) \/ WriteDone(c)
  <2>1. HasOut(c)
    BY <1>3 DEF Placed, WritePcs, WriteCut, Write, WriteWait, WriteDone
  <2>2. Out(c) \in Bond /\ Out(c) = c
    BY <2>1, Bonds DEF Out
  <2>3. Pipe(c)
    BY <2>2 DEF Pipes
  <2>4. QED
    BY <1>3, <2>2, <2>3, WriteType
<1>4. QED
  BY <1>1, <1>2, <1>3 DEF CoderStep

\* The threads are as they should be after every coder's step.
LEMMA CoderControl ==
  ASSUME TypeOK, Control, NEW c \in Coder, CoderStep(c)
  PROVE  Control'
<1>1. CASE ThreadStart(c) \/ EndCode(c) \/ CloseIn(c) \/ CloseOut(c) \/ Finish(c)
  BY <1>1, ThreadStartControl, EndCodeControl, CloseControl, FinishControl
<1>2. CASE \/ Read(c) \/ ReadWait(c) \/ ReadCopy(c) \/ ReadRelease(c)
           \/ Write(c) \/ WriteWait(c) \/ WriteDone(c)
  <2>1. UNCHANGED <<reading, writing, res, startEvent, finishedEvent, main, next, result, failed>>
    BY <1>2 DEF Read, ReadWait, ReadCopy, ReadRelease, Write, WriteWait, WriteDone, streamVars,
                threadVars, mainVars, history
  <2>2. PICK l \in Running : pc' = [pc EXCEPT ![c] = l]
    BY <1>2 DEF Read, ReadWait, ReadCopy, ReadRelease, Write, WriteWait, WriteDone, Goto, Running
  <2>3. pc[c] \in Running
    BY <1>2 DEF Read, ReadWait, ReadCopy, ReadRelease, Write, WriteWait, WriteDone, Running
  <2>4. QED
    BY <2>1, <2>2, <2>3, RunningControl
<1>3. CASE WriteCut(c)
  <2>1. UNCHANGED <<reading, writing, res, startEvent, finishedEvent, main, next, result, failed>>
    BY <1>3 DEF WriteCut, streamVars, threadVars, mainVars
  <2>2. pc' = [pc EXCEPT ![c] = "run"] /\ pc[c] \in Running /\ "run" \in Running
    BY <1>3 DEF WriteCut, Running, TypeOK
  <2>3. QED
    BY <2>1, <2>2, RunningControl
<1>4. QED
  BY <1>1, <1>2, <1>3 DEF CoderStep

-----------------------------------------------------------------------------
(* The invariant. *)

\* The mixer as it is created.
LEMMA InitInv == Init => IInv
<1> SUFFICES ASSUME Init PROVE IInv
  OBVIOUS
<1>1. TypeOK
  <2>1. /\ <<>> \in Seq(Nat) /\ 0 \in 0 .. 3 /\ 0 \in 0 .. MaxSize /\ 0 \in 0 .. N
        /\ 1 \in 1 .. MaxCalls
    BY CoderMixerAssumption
  <2>2. QED
    BY <2>1 DEF Init, TypeOK, MaxCount, CoderPc, Results, MainPc
<1>2. \A c \in Coder : Unstarted(c) /\ pc[c] = "idle"
  BY CoderMixerAssumption DEF Init, Unstarted, Coder
<1>3. Control
  <2>1. Streams
    BY <1>2, Bonds DEF Init, Streams, Reads, Writes
  <2>2. Threads
    BY <1>2, CoderMixerAssumption DEF Init, Threads, Coder
  <2>3. Outcome
    BY <1>2 DEF Init, Outcome, Over
  <2>4. QED
    BY <2>1, <2>2, <2>3 DEF Control
<1>4. Placed
  BY <1>2 DEF Placed, ReadPcs, WritePcs
<1>5. Pipes
  <2>1. SUFFICES ASSUME NEW b \in Bond PROVE Pipe(b)
    BY DEF Init, Pipes
  <2>2. b \in Coder /\ b + 1 \in Coder
    BY Bonds
  <2>3. /\ got[b] = <<>> /\ buf[b] = <<>> /\ written[b] = 0 /\ processedSize[b] = 0
        /\ ~ canRead[b] /\ waitWrite[b] /\ canWrite[b] = 0 /\ ~ readingWasClosed2[b]
    BY DEF Init
  <2>4. QED
    BY <1>2, <2>2, <2>3 DEF Pipe, Carried, Unlocks, Offers, InWrite
<1>6. QED
  BY <1>1, <1>3, <1>4, <1>5 DEF IInv

\* Every step keeps it.
LEMMA StepInv == IInv /\ [Next]_vars => IInv'
<1> SUFFICES ASSUME IInv, [Next]_vars PROVE IInv'
  OBVIOUS
<1> USE DEF IInv
<1>1. ASSUME NEW c \in Coder, CoderStep(c) PROVE IInv'
  <2>1. TypeOK'
    BY <1>1, CoderType
  <2>2. Control'
    BY <1>1, CoderControl
  <2>3. Placed'
    BY <1>1, PlacedStep
  <2>4. Pipes'
    BY <1>1, CoderPipes
  <2>5. QED
    BY <2>1, <2>2, <2>3, <2>4
<1>2. CASE Mixer \/ Call
  <2>1. TypeOK'
    BY <1>2, MixerType
  <2>2. Control'
    BY <1>2, StartThreadControl, RunMainControl, WaitCoderControl, ReturnControl, CallControl
       DEF Mixer
  <2>3. Placed'
    BY <1>2, PlacedStep
  <2>4. Pipes'
    BY <1>2, MixerPipes
  <2>5. QED
    BY <2>1, <2>2, <2>3, <2>4
<1>3. CASE UNCHANGED vars
  <2>1. TypeOK'
    BY <1>3 DEF vars, binderVars, streamVars, threadVars, mainVars, history, TypeOK
  <2>2. Control'
    BY <1>3 DEF vars, binderVars, streamVars, threadVars, mainVars, history, Control, Streams,
                Threads, Outcome, Reads, Writes, Unstarted, Over
  <2>3. Placed'
    BY <1>3 DEF vars, Placed
  <2>4. Pipes'
    BY <1>3 DEF vars, binderVars, streamVars, threadVars, mainVars, history, Pipes, Pipe,
                Carried, Unlocks, Offers, InWrite
  <2>5. QED
    BY <2>1, <2>2, <2>3, <2>4
<1>4. QED
  BY <1>1, <1>2, <1>3 DEF Next, Terminating

\* The invariant holds of every state of every run.
THEOREM Invariance == Spec => []IInv
  BY InitInv, StepInv, PTL DEF Spec

-----------------------------------------------------------------------------
(* What follows. *)

\* The variables keep their types; no unlock takes a semaphore beyond its maximum.
THEOREM TypeCorrect == Spec => []TypeOK
<1>1. IInv => TypeOK
  BY DEF IInv
<1>2. QED
  BY Invariance, <1>1, PTL

\* The reader gets the bytes of the writer, in order, none twice and none left
\* out, and no unlock of the writer is lost (StreamBinder.cpp:49-151).
THEOREM PipesAreSound == Spec => []PipeSound
<1>1. IInv => PipeSound
  <2> SUFFICES ASSUME IInv PROVE PipeSound
    OBVIOUS
  <2>1. ASSUME NEW b \in Bond
        PROVE  got[b] = [i \in 1 .. Len(got[b]) |-> i] /\ processedSize[b] = Len(got[b])
    <3>1. got[b] \in Seq(Nat)
      BY DEF IInv, TypeOK
    <3>2. (\A k \in 1 .. Len(got[b]) : got[b][k] = k) /\ processedSize[b] = Len(got[b])
      BY DEF IInv, Pipes, Pipe, Carried
    <3>3. QED
      BY <3>1, <3>2
  <2>2. QED
    BY <2>1 DEF IInv, Pipes, PipeSound, DataInOrder, NoUnlockLost
<1>2. QED
  BY Invariance, <1>1, PTL

\* When Code returns no thread works and every stream is closed, and its result
\* is success exactly if no coder failed (CoderMixer2.cpp:1058-1134).
THEOREM ReturnsAreSound == Spec => []ReturnSound
<1>1. IInv => ReturnSound
  <2> SUFFICES ASSUME IInv PROVE ReturnSound
    OBVIOUS
  <2>1. ASSUME main = "idle" PROVE reading = {} /\ writing = {}
    <3>1. \A c \in Coder : ~ Unstarted(c) /\ pc[c] = "idle"
      BY <2>1 DEF IInv, Control, Threads, Unstarted
    <3>2. \A b \in Bond : b \notin reading /\ b \notin writing
      BY <3>1, Bonds DEF IInv, Control, Streams, Reads, Writes
    <3>3. QED
      BY <3>2 DEF IInv, TypeOK
  <2>2. QED
    BY <2>1 DEF IInv, Control, Threads, Outcome, ReturnSound, QuietAtReturn, ErrorsReported
<1>2. QED
  BY Invariance, <1>1, PTL

-----------------------------------------------------------------------------
(* The byte channel. *)

\* The variables of the channel keep their values.
SameChannel == UNCHANGED <<got, written, writing, reading, ended, cut>>

\* Such a step is a stutter of the channel.
LEMMA Stutters ==
  ASSUME SameChannel
  PROVE  UNCHANGED Channel!cvars
  BY DEF SameChannel, Channel!cvars

\* A read that copies moves bytes or sees the end.
LEMMA ReadCopyMaps ==
  ASSUME IInv, NEW c \in Coder, ReadCopy(c)
  PROVE  Channel!CNext
<1>1. HasIn(c) /\ pc[c] = "readCopy"
  BY DEF IInv, Placed, ReadPcs, ReadCopy
<1>2. PICK b \in Bond : b + 1 = c /\ In(c) = b
  BY <1>1, Bonds
<1>3. b \in reading /\ Pipe(b)
  BY <1>1, <1>2, RunningHas DEF IInv, Control, Running, Pipes
<1>4. PICK k : k = Min({size[c], Len(buf[b])})
  OBVIOUS
<1>5. k \in 0 .. Len(buf[b])
  <2>1. size[c] \in Nat /\ Len(buf[b]) \in Nat
    BY <1>2, InHand DEF IInv
  <2>2. QED
    BY <1>4, <2>1, MinOfTwo
<1>6. UNCHANGED <<written, writing, reading, cut>>
  BY DEF ReadCopy, streamVars
<1>7. CASE k = 0
  <2>1. ended' = ended \cup {b} /\ got' = got
    BY <1>2, <1>4, <1>7 DEF ReadCopy
  <2>2. b \notin writing
    BY <1>1, <1>2, <1>3, <1>4, <1>7, ReadEnd DEF IInv
  <2>3. Channel!End(b)
    BY <1>3, <1>6, <2>1, <2>2 DEF Channel!End
  <2>4. QED
    BY <2>3 DEF Channel!CNext
<1>8. CASE k # 0
  <2>1. got' = [got EXCEPT ![b] = @ \o SubSeq(buf[b], 1, k)] /\ ended' = ended
    BY <1>2, <1>4, <1>8 DEF ReadCopy
  <2>2. buf[b] \in Seq(Nat) /\ got[b] \in Seq(Nat) /\ Len(got[b]) \in Nat
    BY InHand DEF IInv
  <2>3. Len(got'[b]) = Len(got[b]) + k
    <3>1. SubSeq(buf[b], 1, k) \in Seq(Nat) /\ Len(SubSeq(buf[b], 1, k)) = k
      BY <1>5, <2>2
    <3>2. got'[b] = got[b] \o SubSeq(buf[b], 1, k)
      BY <2>1 DEF IInv, TypeOK
    <3>3. QED
      BY <2>2, <3>1, <3>2
  <2>4. \A d \in Bond \ {b} : got'[d] = got[d]
    BY <2>1 DEF IInv, TypeOK
  <2>5. b \in writing
    <3>1. buf[b] # <<>>
      BY <1>5, <1>8
    <3>2. pc[b] = "writeWait"
      BY <1>3, <3>1 DEF Pipe, Unlocks
    <3>3. QED
      BY <3>2, Bonds, RunningHas DEF IInv, Control, Streams, Writes
  <2>6. Len(got'[b]) \in Nat /\ Len(got'[b]) > Len(got[b])
    BY <1>5, <1>8, <2>2, <2>3
  <2> DEFINE moved == [d \in Bond |-> Len(got[d])]
  <2>7. moved' = [moved EXCEPT ![b] = moved'[b]]
    BY <2>4
  <2>8. moved'[b] \in Nat /\ moved'[b] > moved[b]
    BY <2>6
  <2>9. Channel!Move(b)
    BY <1>3, <1>6, <2>1, <2>5, <2>7, <2>8 DEF Channel!Move
  <2>10. QED
    BY <2>9 DEF Channel!CNext
<1>9. QED
  BY <1>7, <1>8

\* A writer that goes on is told of what was taken, or of the cut.
LEMMA WriteMaps ==
  ASSUME IInv, NEW c \in Coder, WriteCut(c) \/ WriteDone(c)
  PROVE  Channel!CNext
<1>1. HasOut(c) /\ pc[c] \in Running
  BY DEF IInv, Placed, WritePcs, Running, WriteDone, WriteCut
<1>2. Out(c) = c /\ c \in Bond /\ c \in writing /\ Pipe(c)
  BY <1>1, Bonds, RunningHas DEF IInv, Control, Running, Pipes, Out
<1>3. UNCHANGED <<got, writing, reading, ended>>
  BY DEF WriteCut, WriteDone, streamVars
<1>4. CASE WriteCut(c)
  <2>1. written' = written /\ cut' = cut \cup {c} /\ readingWasClosed2[c] /\ pc[c] = "run"
    BY <1>2, <1>4 DEF WriteCut
  <2>2. c \notin reading /\ written[c] = Len(got[c])
    BY <1>2, <2>1 DEF Pipe, Unlocks, Carried, InWrite
  <2>3. Channel!Cut(c)
    BY <1>2, <1>3, <2>1, <2>2 DEF Channel!Cut
  <2>4. QED
    BY <1>2, <2>3 DEF Channel!CNext
<1>5. CASE WriteDone(c) /\ Taken(c) # 0
  <2>1. written' = [written EXCEPT ![c] = Len(got[c])] /\ cut' = cut
    BY <1>2, <1>5, Learns DEF IInv
  <2>2. Channel!Tell(c)
    BY <1>2, <1>3, <2>1 DEF Channel!Tell
  <2>3. QED
    BY <1>2, <2>2 DEF Channel!CNext
<1>6. CASE WriteDone(c) /\ Taken(c) = 0
  <2>1. /\ written' = written /\ cut' = cut \cup {c} /\ c \notin reading
        /\ written[c] = Len(got[c])
    BY <1>2, <1>6, Learns DEF IInv, WriteDone
  <2>2. Channel!Cut(c)
    BY <1>2, <1>3, <2>1 DEF Channel!Cut
  <2>3. QED
    BY <1>2, <2>2 DEF Channel!CNext
<1>7. QED
  BY <1>4, <1>5, <1>6

\* A coder gives back a side of a pipe.
LEMMA CloseMaps ==
  ASSUME IInv, NEW c \in Coder, CloseIn(c) \/ CloseOut(c)
  PROVE  Channel!CNext \/ UNCHANGED Channel!cvars
<1>1. UNCHANGED <<got, written, ended, cut>>
  BY DEF CloseIn, CloseOut, history
<1>2. CASE CloseIn(c) /\ HasIn(c)
  <2>1. PICK b \in Bond : b + 1 = c /\ In(c) = b
    BY <1>2, Bonds
  <2>2. b \in reading
    BY <1>2, <2>1, RunningHas DEF IInv, Control, CloseIn
  <2>3. reading' = reading \ {b} /\ writing' = writing
    BY <1>2, <2>1 DEF CloseIn
  <2>4. Channel!CloseReading(b)
    BY <1>1, <2>2, <2>3 DEF Channel!CloseReading
  <2>5. QED
    BY <2>4 DEF Channel!CNext
<1>3. CASE CloseOut(c) /\ HasOut(c)
  <2>1. Out(c) = c /\ c \in Bond /\ pc[c] = "closeOut"
    BY <1>3, Bonds DEF Out, CloseOut
  <2>2. c \in writing /\ written[c] = Len(got[c])
    BY <2>1 DEF IInv, Control, Streams, Writes, Pipes, Pipe, Carried, InWrite
  <2>3. writing' = writing \ {c} /\ reading' = reading
    BY <1>3, <2>1 DEF CloseOut
  <2>4. Channel!CloseWriting(c)
    BY <1>1, <2>1, <2>2, <2>3 DEF Channel!CloseWriting
  <2>5. QED
    BY <2>1, <2>4 DEF Channel!CNext
<1>4. CASE (CloseIn(c) /\ ~ HasIn(c)) \/ (CloseOut(c) /\ ~ HasOut(c))
  BY <1>1, <1>4, Stutters DEF CloseIn, CloseOut, SameChannel
<1>5. QED
  BY <1>2, <1>3, <1>4

\* A new call opens all pipes again, which are closed then.
LEMMA CallMaps ==
  ASSUME IInv, Call
  PROVE  Channel!CNext
<1>1. reading = {} /\ writing = {}
  <2>1. \A c \in Coder : ~ Unstarted(c) /\ pc[c] = "idle"
    BY DEF IInv, Control, Threads, Unstarted, Call
  <2>2. \A b \in Bond : b \notin reading /\ b \notin writing
    BY <2>1, Bonds DEF IInv, Control, Streams, Reads, Writes
  <2>3. QED
    BY <2>2 DEF IInv, TypeOK
<1>2. \A b \in Bond : Len(got'[b]) = 0
  BY DEF Call
<1>3. Channel!Reopen
  BY <1>1, <1>2 DEF Call, Channel!Reopen
<1>4. QED
  BY <1>3 DEF Channel!CNext

\* Every step is one of the channel or a stutter.
LEMMA StepMaps ==
  ASSUME IInv, [Next]_vars
  PROVE  [Channel!CNext]_(Channel!cvars)
<1>1. ASSUME NEW c \in Coder, CoderStep(c)
      PROVE  Channel!CNext \/ UNCHANGED Channel!cvars
  <2>1. CASE ReadCopy(c)
    BY <2>1, ReadCopyMaps
  <2>2. CASE WriteCut(c) \/ WriteDone(c)
    BY <2>2, WriteMaps
  <2>3. CASE CloseIn(c) \/ CloseOut(c)
    BY <2>3, CloseMaps
  <2>4. CASE \/ ThreadStart(c) \/ Read(c) \/ ReadWait(c) \/ ReadRelease(c) \/ Write(c)
             \/ WriteWait(c) \/ EndCode(c) \/ Finish(c)
    <3>1. SameChannel
      BY <2>4 DEF SameChannel, ThreadStart, Read, ReadWait, ReadRelease, Write, WriteWait,
                  EndCode, Finish, streamVars, history
    <3>2. QED
      BY <3>1, Stutters
  <2>5. QED
    BY <1>1, <2>1, <2>2, <2>3, <2>4 DEF CoderStep
<1>2. CASE Call
  BY <1>2, CallMaps
<1>3. CASE Mixer \/ Terminating \/ UNCHANGED vars
  <2>1. SameChannel
    BY <1>3 DEF SameChannel, Mixer, StartThread, RunMain, WaitCoder, Return, Terminating, vars,
                streamVars, history
  <2>2. QED
    BY <2>1, Stutters
<1>4. QED
  BY <1>1, <1>2, <1>3 DEF Next

\* The binders implement the byte channel: the writer is told of every byte that
\* was taken, and the end and the cut are seen only after the other side closed
\* (StreamBinder.cpp:43-151).
THEOREM Refinement == Spec => ImplementsChannel
<1>1. Init => Channel!Fresh
  BY DEF Init, Channel!Fresh
<1>2. IInv /\ [Next]_vars => [Channel!CNext]_(Channel!cvars)
  BY StepMaps
<1>3. QED
  BY Invariance, <1>1, <1>2, PTL DEF Spec, ImplementsChannel, Channel!CSpec
=============================================================================
