------------------------ MODULE Lz4MtCompress_proof ------------------------
(***************************************************************************)
(* Proofs about Lz4MtCompress, for every number of threads, size of the    *)
(* input, number of calls and set of failures.                             *)
(***************************************************************************)
EXTENDS Lz4MtCompress, FiniteSetTheorems, TLAPS

-----------------------------------------------------------------------------
(* The inductive invariant. *)

Busy(t) == pc[t] \in {"compress", "queue"}

\* The worker that holds write_mutex in pt_write is the one at "write".
Turns == \A t \in Thread : pc[t] = "write" <=> writer = t

\* Every frame number is given out once: it is with one worker, or done.
Owned ==
  /\ \A f \in done : f < frames
  /\ \A t \in Thread : Busy(t) => frame[t] < frames /\ frame[t] \notin done
  /\ \A t, u \in Thread : Busy(t) /\ Busy(u) /\ frame[t] = frame[u] => t = u

\* As many frames as blocks; an empty input is the first one and has one frame.
Counted ==
  /\ base <= curframe
  /\ total > 0 => frames = base + taken
  /\ total = 0 => base = 0 /\ frames <= 1

Ordered == out = [i \in 1 .. curframe - base |-> i]

\* A worker that has not returned has not failed; one that returned success
\* has seen the end of the input.
Ended ==
  /\ \A t \in Thread : pc[t] \notin {"end", "none"} => ret[t] = "ok"
  /\ \A t \in Thread :
       pc[t] = "release" \/ (pc[t] \in {"end", "none"} /\ ret[t] = "ok") =>
         taken = total /\ frames > 0

Joined ==
  /\ \A t \in Thread : pc[t] = "none" <=> t < joined
  /\ retval = "ok" <=> \A t \in Thread : t < joined => ret[t] = "ok"
  /\ result # "none" => joined = NumThreads /\ result = retval /\ done = {}

AllOk == \A t \in Thread : ret[t] = "ok" /\ pc[t] # "drop"

\* While nothing failed no frame is lost, and the one that is due is not left.
Kept ==
  result = "none" /\ AllOk =>
    /\ \A f \in curframe .. frames - 1 : f \in done \/ \E t \in Thread : Holds(t, f)
    /\ writer = NoThread => curframe \notin done

Complete == result = "ok" => curframe = frames

\* After a failed write the frame that is due stays in the done list.
Stuck == writeFailed /\ result = "none" => writer = NoThread /\ curframe \in done

IInv ==
  /\ TypeOK
  /\ Turns
  /\ Owned
  /\ Counted
  /\ Ordered
  /\ Ended
  /\ Joined
  /\ Kept
  /\ Complete
  /\ Stuck

-----------------------------------------------------------------------------
(* Every action keeps it. *)

\* A worker that has no frame returns an error.
LEMMA FailInv ==
  ASSUME IInv, NEW t \in Thread, pc[t] \in {"start", "alloc", "read"},
         NEW codes, FailWith(t, codes),
         UNCHANGED <<inputVars, readVars, queueVars, writer, frame, callVars, outVars>>
  PROVE  IInv'
<1>1. /\ TypeOK /\ Turns /\ Owned /\ Counted /\ Ordered
      /\ Ended /\ Joined /\ Kept /\ Complete /\ Stuck
  BY DEF IInv
<1>2. PICK c \in codes \cap Faults : ret' = [ret EXCEPT ![t] = c] /\ pc' = [pc EXCEPT ![t] = "end"]
  BY DEF FailWith, Goto
<1>3. c \in Codes /\ c # "ok"
  BY <1>2, Lz4MtCompressAssumption DEF Codes
<1> USE <1>1, <1>2, <1>3
    DEF Thread, NoThread, inputVars, readVars, queueVars, callVars, outVars
<1>4. TypeOK' BY DEF TypeOK, WorkerPc
<1>5. Turns' BY DEF Turns, TypeOK
<1>6. Owned' BY DEF Owned, Busy, TypeOK
<1>7. Counted' /\ Ordered' /\ Complete' /\ Stuck' BY DEF Counted, Ordered, Complete, Stuck
<1>8. Ended' BY DEF Ended, TypeOK
<1>9. Joined' BY DEF Joined, TypeOK
<1>10. Kept' BY DEF Kept, AllOk, TypeOK
<1>11. QED BY <1>4, <1>5, <1>6, <1>7, <1>8, <1>9, <1>10 DEF IInv

\* A worker allocates its input buffer.
LEMMA StartInv ==
  ASSUME IInv, NEW t \in Thread, Start(t)
  PROVE  IInv'
<1> USE DEF IInv
<1>1. TypeOK'
  BY DEF Start, TypeOK, inputVars, readVars, queueVars, callVars, outVars, Goto, FailWith, Codes, WorkerPc
<1>2. Turns'
  BY DEF Start, Turns, Goto, FailWith, TypeOK
<1>3. Owned'
  BY ZenonT(40) DEF Start, Owned, Busy, readVars, queueVars, Goto, FailWith, TypeOK
<1>4. Counted'
  BY DEF Start, Counted, inputVars, readVars, queueVars
<1>5. Ordered'
  BY DEF Start, Ordered, inputVars, queueVars, outVars
<1>6. Ended'
  BY DEF Start, Ended, inputVars, readVars, Goto, FailWith, TypeOK
<1>7. Joined'
  BY DEF Start, Joined, queueVars, callVars, Goto, FailWith, TypeOK
<1>8. Kept'
  BY DEF Start, Kept, AllOk, Holds, readVars, queueVars, callVars, Goto, FailWith, TypeOK
<1>9. Complete'
  BY DEF Start, Complete, readVars, queueVars, callVars
<1>10. Stuck'
  BY DEF Start, Stuck, queueVars, callVars, outVars
<1>11. QED
  BY <1>1, <1>2, <1>3, <1>4, <1>5, <1>6, <1>7, <1>8, <1>9, <1>10

\* A worker takes an output entry.
LEMMA AllocInv ==
  ASSUME IInv, NEW t \in Thread, Alloc(t)
  PROVE  IInv'
<1> USE DEF IInv
<1>1. TypeOK'
  BY DEF Alloc, TypeOK, inputVars, readVars, callVars, outVars, Goto, FailWith, Codes, FreeTaken, WorkerPc, Thread
<1>2. Turns'
  BY DEF Alloc, Turns, Goto, FailWith, TypeOK
<1>3. Owned'
  BY ZenonT(40) DEF Alloc, Owned, Busy, readVars, Goto, FailWith, TypeOK
<1>4. Counted'
  BY DEF Alloc, Counted, inputVars, readVars
<1>5. Ordered'
  BY DEF Alloc, Ordered, inputVars, outVars
<1>6. Ended'
  BY DEF Alloc, Ended, inputVars, readVars, Goto, FailWith, TypeOK
<1>7. Joined'
  BY DEF Alloc, Joined, callVars, Goto, FailWith, TypeOK
<1>8. Kept'
  BY DEF Alloc, Kept, AllOk, Holds, readVars, callVars, Goto, FailWith, TypeOK
<1>9. Complete'
  BY DEF Alloc, Complete, readVars, callVars
<1>10. Stuck'
  BY DEF Alloc, Stuck, callVars, outVars
<1>11. QED
  BY <1>1, <1>2, <1>3, <1>4, <1>5, <1>6, <1>7, <1>8, <1>9, <1>10

\* A worker reads a block and numbers its frame, or sees the end of the input.
LEMMA ReadInv ==
  ASSUME IInv, NEW t \in Thread, Read(t)
  PROVE  IInv'
<1>1. /\ TypeOK /\ Turns /\ Owned /\ Counted /\ Ordered
      /\ Ended /\ Joined /\ Kept /\ Complete /\ Stuck
  BY DEF IInv
<1>2. /\ pc[t] = "read" /\ UNCHANGED <<total, calls, base, curframe, free, done>>
      /\ UNCHANGED <<writer, joined, retval, result, out, writeFailed>>
  BY DEF Read, inputVars, queueVars, callVars, outVars
<1> USE DEF Thread, NoThread
<1>3. CASE Eof /\ Goto(t, "release") /\ UNCHANGED <<readVars, frame, ret>>
  <2> USE <1>1, <1>2, <1>3 DEF Goto, readVars
  <2>1. TypeOK' BY DEF TypeOK, WorkerPc
  <2>2. Turns' BY DEF Turns, TypeOK
  <2>3. Owned' BY DEF Owned, Busy, TypeOK
  <2>4. Counted' /\ Ordered' /\ Complete' /\ Stuck' BY DEF Counted, Ordered, Complete, Stuck
  <2>5. Ended' BY DEF Ended, TypeOK, Eof
  <2>6. Joined' BY DEF Joined, TypeOK
  <2>7. Kept' BY ZenonT(40) DEF Kept, AllOk, Holds, TypeOK
  <2>8. QED BY <2>1, <2>2, <2>3, <2>4, <2>5, <2>6, <2>7 DEF IInv
<1>4. CASE /\ ~ Eof
           /\ taken' = IF taken < total THEN taken + 1 ELSE taken
           /\ frame' = [frame EXCEPT ![t] = frames]
           /\ frames' = frames + 1
           /\ Goto(t, "compress")
           /\ UNCHANGED ret
  <2> USE <1>1, <1>2, <1>4 DEF Goto
  <2>1. TypeOK'
    BY DEF TypeOK, WorkerPc
  <2>2. Turns'
    BY DEF Turns, TypeOK
  <2>3. Owned'
    <3>1. \A f \in done' : f < frames'
      BY DEF Owned, TypeOK
    <3>2. \A u \in Thread : u # t => frame'[u] = frame[u] /\ (Busy(u)' <=> Busy(u))
      BY DEF Busy, TypeOK
    <3>3. frame'[t] = frames /\ frames \notin done
      BY DEF Owned, TypeOK
    <3>4. \A u \in Thread : u # t /\ Busy(u) => frame[u] < frames /\ frame[u] # frames
      BY DEF Owned, TypeOK
    <3>5. \A u \in Thread : Busy(u)' => frame'[u] < frames' /\ frame'[u] \notin done'
      <4>1. frames < frames' /\ \A n \in Nat : n < frames => n < frames'
        BY DEF TypeOK
      <4>2. \A u \in Thread : u # t /\ Busy(u) => frame[u] \in Nat /\ frame[u] \notin done
        BY DEF Owned, TypeOK
      <4>3. QED
        BY <3>2, <3>3, <3>4, <4>1, <4>2
    <3>6. \A u, v \in Thread : Busy(u)' /\ Busy(v)' /\ frame'[u] = frame'[v] => u = v
      BY <3>2, <3>3, <3>4 DEF Owned
    <3>7. QED
      BY <3>1, <3>5, <3>6 DEF Owned
  <2>4. Counted'
    <3>1. CASE total = 0
      BY <3>1 DEF Counted, TypeOK, Eof
    <3>2. CASE total > 0
      <4>1. taken < total
        BY <3>2 DEF Counted, TypeOK, Eof
      <4>2. QED
        BY <3>2, <4>1 DEF Counted, TypeOK
    <3>3. QED
      BY <3>1, <3>2 DEF TypeOK
  <2>5. Ordered' /\ Stuck'
    BY DEF Ordered, Stuck
  <2>6. Ended'
    BY DEF Ended, TypeOK, Eof
  <2>7. Joined'
    BY DEF Joined, TypeOK
  <2>8. Kept'
    <3> SUFFICES ASSUME result = "none", AllOk'
                 PROVE  /\ \A f \in curframe .. frames : f \in done \/ \E u \in Thread : Holds(u, f)'
                        /\ writer = NoThread => curframe \notin done
      BY DEF Kept, TypeOK
    <3>1. AllOk
      BY DEF AllOk, TypeOK
    <3>2. pc'[t] = "compress" /\ frame'[t] = frames
      BY DEF TypeOK
    <3>3. \A u \in Thread, f \in Nat : Holds(u, f) => Holds(u, f)'
      BY DEF Holds, TypeOK
    <3>4. \A f \in curframe .. frames - 1 : f \in Nat /\ (f \in done \/ \E u \in Thread : Holds(u, f))
      BY <3>1 DEF Kept, TypeOK
    <3>5. \A f \in curframe .. frames : f = frames \/ f \in curframe .. frames - 1
      BY DEF TypeOK
    <3>6. QED
      BY <3>1, <3>2, <3>3, <3>4, <3>5 DEF Kept, Holds
  <2>9. Complete'
    BY DEF Complete, Joined, TypeOK
  <2>10. QED
    BY <2>1, <2>2, <2>3, <2>4, <2>5, <2>6, <2>7, <2>8, <2>9 DEF IInv
<1>5. CASE FailWith(t, IoCodes) /\ UNCHANGED <<readVars, frame>>
  BY <1>2, <1>5, FailInv DEF inputVars, readVars, queueVars, callVars, outVars
<1>6. QED
  BY <1>3, <1>4, <1>5 DEF Read

\* A worker compresses its block.
LEMMA CompressInv ==
  ASSUME IInv, NEW t \in Thread, Compress(t)
  PROVE  IInv'
<1> USE DEF IInv
<1>1. TypeOK'
  BY DEF Compress, TypeOK, inputVars, readVars, queueVars, callVars, outVars, Goto, WorkerPc
<1>2. Turns'
  BY DEF Compress, Turns, Goto, TypeOK
<1>3. Owned'
  BY ZenonT(40) DEF Compress, Owned, Busy, readVars, queueVars, Goto, TypeOK
<1>4. Counted'
  BY DEF Compress, Counted, inputVars, readVars, queueVars
<1>5. Ordered'
  BY DEF Compress, Ordered, inputVars, queueVars, outVars
<1>6. Ended'
  BY DEF Compress, Ended, inputVars, readVars, Goto, TypeOK
<1>7. Joined'
  BY DEF Compress, Joined, queueVars, callVars, Goto, TypeOK
<1>8. Kept'
  BY DEF Compress, Kept, AllOk, Holds, readVars, queueVars, callVars, Goto, TypeOK
<1>9. Complete'
  BY DEF Compress, Complete, readVars, queueVars, callVars
<1>10. Stuck'
  BY DEF Compress, Stuck, queueVars, callVars, outVars
<1>11. QED
  BY <1>1, <1>2, <1>3, <1>4, <1>5, <1>6, <1>7, <1>8, <1>9, <1>10

\* A worker gives its entry back.
LEMMA ReleaseInv ==
  ASSUME IInv, NEW t \in Thread, Release(t)
  PROVE  IInv'
<1> USE DEF IInv
<1>1. TypeOK'
  BY DEF Release, TypeOK, inputVars, readVars, callVars, outVars, Goto, Codes, WorkerPc
<1>2. Turns'
  BY DEF Release, Turns, Goto
<1>3. Owned'
  BY DEF Release, Owned, Busy, readVars, Goto
<1>4. Counted'
  BY DEF Release, Counted, inputVars, readVars
<1>5. Ordered'
  BY DEF Release, Ordered, inputVars, outVars
<1>6. Ended'
  BY DEF Release, Ended, inputVars, readVars, Goto, TypeOK
<1>7. Joined'
  BY DEF Release, Joined, callVars, Goto
<1>8. Kept'
  <2>1. UNCHANGED <<curframe, frames, done, writer, frame, result>>
    BY DEF Release, readVars, callVars
  <2>2. CASE pc[t] = "drop"
    BY <2>2 DEF Release, Kept, AllOk, TypeOK
  <2>3. CASE pc[t] = "release"
    <3>1. AllOk' => AllOk
      BY <2>3 DEF Release, AllOk, TypeOK, Ended, Goto
    <3>2. \A u \in Thread, f \in curframe .. frames - 1 : Holds(u, f) => Holds(u, f)'
      BY <2>1, <2>3 DEF Release, Holds, TypeOK, Goto
    <3>3. QED
      BY <2>1, <3>1, <3>2 DEF Kept
  <2>4. QED
    BY <2>2, <2>3 DEF Release
<1>9. Complete'
  BY DEF Release, Complete, readVars, callVars
<1>10. Stuck'
  BY DEF Release, Stuck, callVars, outVars
<1>11. QED
  BY <1>1, <1>2, <1>3, <1>4, <1>5, <1>6, <1>7, <1>8, <1>9, <1>10

\* A worker queues its frame and, when it is due, becomes the writer.
LEMMA QueueInv ==
  ASSUME IInv, NEW t \in Thread, Queue(t)
  PROVE  IInv'
<1>1. /\ TypeOK /\ Turns /\ Owned /\ Counted /\ Ordered
      /\ Ended /\ Joined /\ Kept /\ Complete /\ Stuck
  BY DEF IInv
<1>2. /\ pc[t] = "queue" /\ writer = NoThread /\ done' = done \cup {frame[t]}
      /\ UNCHANGED <<total, calls, base, taken, frames, curframe, free, frame, ret>>
      /\ UNCHANGED <<joined, retval, result, out, writeFailed>>
  BY DEF Queue, inputVars, readVars, callVars, outVars
<1>3. \/ frame[t] = curframe /\ writer' = t /\ pc' = [pc EXCEPT ![t] = "write"]
      \/ frame[t] # curframe /\ writer' = writer /\ pc' = [pc EXCEPT ![t] = "alloc"]
  BY DEF Queue, Turn, Goto
<1>4. Busy(t) /\ frame[t] \in Nat /\ frame[t] < frames /\ frame[t] \notin done
  BY <1>1, <1>2 DEF Busy, Owned, TypeOK
<1>5. result = "none"
  BY <1>1, <1>2 DEF Joined, TypeOK, Thread
<1> USE <1>1, <1>2, <1>3, <1>4, <1>5
<1>6. TypeOK'
  <2>1. frame[t] \in 0 .. frames /\ done' \subseteq 0 .. frames
    <3>1. frames \in Nat /\ done \subseteq 0 .. frames
      BY DEF TypeOK
    <3>2. frame[t] \in 0 .. frames
      BY <3>1
    <3>3. QED
      BY <3>1, <3>2
  <2>2. pc' \in [Thread -> WorkerPc] /\ writer' \in Thread \cup {NoThread}
    BY DEF TypeOK, WorkerPc
  <2>3. QED
    BY <2>1, <2>2 DEF TypeOK
<1>7. Turns'
  <2>1. NoThread \notin Thread
    BY DEF Thread, NoThread
  <2>2. QED
    BY <2>1 DEF Turns, TypeOK
<1>8. Owned'
  <2>1. \A u \in Thread : Busy(u)' => Busy(u) /\ u # t
    BY DEF Busy, TypeOK
  <2>2. QED
    BY <2>1 DEF Owned
<1>9. Counted' /\ Ordered' /\ Complete'
  BY DEF Counted, Ordered, Complete
<1>10. Ended'
  BY DEF Ended, TypeOK
<1>11. Joined'
  BY DEF Joined, TypeOK, Thread
<1>12. Kept'
  <2> SUFFICES ASSUME AllOk'
               PROVE  /\ \A f \in curframe .. frames - 1 :
                           f \in done' \/ \E u \in Thread : Holds(u, f)'
                      /\ writer' = NoThread => curframe \notin done'
    BY DEF Kept
  <2>1. AllOk
    BY DEF AllOk, TypeOK
  <2>2. \A u \in Thread, f \in curframe .. frames - 1 : Holds(u, f) => Holds(u, f)' \/ f = frame[t]
    BY DEF Holds, TypeOK
  <2>3. writer' = NoThread => frame[t] # curframe
    BY DEF Thread, NoThread
  <2>4. QED
    BY <2>1, <2>2, <2>3 DEF Kept
<1>13. Stuck'
  BY DEF Stuck
<1>14. QED
  BY <1>6, <1>7, <1>8, <1>9, <1>10, <1>11, <1>12, <1>13 DEF IInv

\* The next number after 1..n.
LEMMA AppendNext ==
  ASSUME NEW n \in Nat
  PROVE  Append([i \in 1..n |-> i], n + 1) = [i \in 1 .. n + 1 |-> i]
<1>1. [i \in 1..n |-> i] \in Seq(Nat) /\ Len([i \in 1..n |-> i]) = n
  OBVIOUS
<1>2. QED
  BY <1>1

\* The writer writes the frame that is due.
LEMMA WriteDueInv ==
  ASSUME IInv, NEW t \in Thread, pc[t] = "write", curframe \in done,
         out' = Append(out, curframe - base + 1),
         curframe' = curframe + 1, done' = done \ {curframe}, free' = free + 1,
         UNCHANGED <<writer, pc, ret, writeFailed, inputVars, readVars, frame, callVars>>
  PROVE  IInv'
<1>1. /\ TypeOK /\ Turns /\ Owned /\ Counted /\ Ordered
      /\ Ended /\ Joined /\ Kept /\ Complete /\ Stuck
  BY DEF IInv
<1>2. writer = t /\ curframe < frames /\ result = "none"
  BY <1>1 DEF Turns, Owned, Joined, TypeOK, Thread
<1> USE <1>1, <1>2 DEF inputVars, readVars, callVars
<1>3. Ordered'
  <2>1. curframe - base \in Nat /\ (curframe + 1) - base = (curframe - base) + 1
    BY DEF Counted, TypeOK
  <2>2. QED
    BY <2>1, AppendNext DEF Ordered
<1>4. TypeOK'
  <2>1. out' \in Seq(Nat)
    BY DEF TypeOK, Counted
  <2>2. QED
    BY <2>1 DEF TypeOK
<1>5. Turns' /\ Ended' /\ Joined' /\ Complete'
  BY DEF Turns, Ended, Joined, Complete
<1>6. Owned'
  BY DEF Owned, Busy
<1>7. Counted'
  BY DEF Counted, TypeOK
<1>8. Kept'
  <2> SUFFICES ASSUME AllOk' PROVE \A f \in curframe + 1 .. frames - 1 :
                                     f \in done' \/ \E u \in Thread : Holds(u, f)'
    BY DEF Kept, Thread, NoThread
  <2>1. \A f \in curframe + 1 .. frames - 1 : f \in curframe .. frames - 1 /\ f # curframe
    BY DEF TypeOK
  <2>2. AllOk /\ \A u \in Thread, f \in curframe .. frames - 1 : Holds(u, f) => Holds(u, f)'
    BY DEF AllOk, Holds
  <2>3. QED
    BY <2>1, <2>2 DEF Kept
<1>9. Stuck'
  BY DEF Stuck, Thread, NoThread
<1>10. QED
  BY <1>3, <1>4, <1>5, <1>6, <1>7, <1>8, <1>9 DEF IInv

\* The writer leaves pt_write: it failed, or no frame is due.
LEMMA WriteLeaveInv ==
  ASSUME IInv, NEW t \in Thread, pc[t] = "write", writer' = NoThread,
         \/ /\ curframe \in done
            /\ FailWith(t, IoCodes) /\ writeFailed' = TRUE
         \/ /\ curframe \notin done
            /\ Goto(t, "alloc") /\ UNCHANGED <<ret, writeFailed>>,
         UNCHANGED <<inputVars, readVars, queueVars, frame, callVars, out>>
  PROVE  IInv'
<1>1. /\ TypeOK /\ Turns /\ Owned /\ Counted /\ Ordered
      /\ Ended /\ Joined /\ Kept /\ Complete /\ Stuck
  BY DEF IInv
<1>2. writer = t /\ result = "none" /\ ~ writeFailed
  BY <1>1 DEF Turns, Joined, Stuck, TypeOK, Thread, NoThread
<1>3. NoThread \notin Thread
  BY DEF Thread, NoThread
<1>4. \/ /\ curframe \in done /\ writeFailed'
         /\ pc' = [pc EXCEPT ![t] = "end"]
         /\ \E c \in Codes : c # "ok" /\ ret' = [ret EXCEPT ![t] = c]
      \/ /\ curframe \notin done /\ writeFailed' = writeFailed
         /\ pc' = [pc EXCEPT ![t] = "alloc"] /\ ret' = ret
  BY Lz4MtCompressAssumption DEF FailWith, Goto, Codes
<1>5. writeFailed' \in BOOLEAN
  BY <1>1 DEF TypeOK
<1> USE <1>1, <1>2, <1>3, <1>4 DEF inputVars, readVars, queueVars, callVars
<1>6. TypeOK'
  <2>1. pc' \in [Thread -> WorkerPc] /\ ret' \in [Thread -> Codes \cup {"ok"}]
    BY DEF TypeOK, WorkerPc
  <2>2. QED
    BY <1>5, <2>1 DEF TypeOK
<1>7. Turns'
  BY DEF Turns, TypeOK
<1>8. Owned'
  BY ZenonT(40) DEF Owned, Busy, TypeOK
<1>9. Counted' /\ Ordered' /\ Complete'
  BY DEF Counted, Ordered, Complete
<1>10. Ended'
  BY DEF Ended, TypeOK
<1>11. Joined'
  BY DEF Joined, TypeOK
<1>12. Kept'
  <2>1. CASE curframe \in done
    BY <2>1 DEF Kept, AllOk, TypeOK
  <2>2. CASE curframe \notin done
    <3>1. AllOk' => AllOk
      BY <2>2 DEF AllOk, TypeOK
    <3>2. \A u \in Thread, f \in curframe .. frames - 1 : Holds(u, f) => Holds(u, f)'
      BY <2>2 DEF Holds, TypeOK
    <3>3. QED
      BY <2>2, <3>1, <3>2 DEF Kept
  <2>3. QED
    BY <2>1, <2>2
<1>13. Stuck'
  BY DEF Stuck
<1>14. QED
  BY <1>6, <1>7, <1>8, <1>9, <1>10, <1>11, <1>12, <1>13 DEF IInv

\* Every step of the writer.
LEMMA WriteInv ==
  ASSUME IInv, NEW t \in Thread, Write(t)
  PROVE  IInv'
<1>1. curframe \in done <=> Due # {}
  BY DEF Due
<1>2. \A f \in Due : f = curframe
  BY DEF Due
<1>3. CASE \E f \in Due : out' = Append(out, f - base + 1)
                          /\ curframe' = curframe + 1 /\ done' = done \ {f}
                          /\ free' = free + 1 /\ AfterWrite(t)
                          /\ UNCHANGED <<ret, writeFailed>>
  BY <1>1, <1>2, <1>3, WriteDueInv DEF Write, AfterWrite
<1>4. CASE /\ Due # {} /\ FailWith(t, IoCodes)
           /\ writeFailed' = TRUE
           /\ UnlockAfterFailure(t)
           /\ UNCHANGED <<queueVars, out>>
  BY <1>1, <1>4, WriteLeaveInv DEF Write, UnlockAfterFailure
<1>5. CASE /\ Due = {}
           /\ writer' = NoThread
           /\ Goto(t, "alloc")
           /\ UNCHANGED <<queueVars, ret, outVars>>
  BY <1>1, <1>5, WriteLeaveInv DEF Write, outVars
<1>6. QED
  BY <1>3, <1>4, <1>5 DEF Write

\* The caller joins the next worker.
LEMMA JoinInv ==
  ASSUME IInv, Join
  PROVE  IInv'
<1> USE DEF IInv
<1>1. TypeOK'
  BY Lz4MtCompressAssumption DEF Join, TypeOK, inputVars, readVars, queueVars, outVars, RetvalAfter, WorkerPc, Thread
<1>2. Turns'
  BY DEF Join, Turns
<1>3. Owned'
  BY DEF Join, Owned, Busy, readVars, queueVars
<1>4. Counted'
  BY DEF Join, Counted, inputVars, readVars, queueVars
<1>5. Ordered'
  BY DEF Join, Ordered, inputVars, queueVars, outVars
<1>6. Ended'
  BY DEF Join, Ended, inputVars, readVars
<1>7. Joined'
  BY Lz4MtCompressAssumption DEF Join, Joined, RetvalAfter, TypeOK, Thread
<1>8. Kept'
  BY DEF Join, Kept, AllOk, Holds, readVars, queueVars
<1>9. Complete'
  BY Lz4MtCompressAssumption DEF Join, Complete
<1>10. Stuck'
  BY DEF Join, Stuck, queueVars, outVars
<1>11. QED
  BY <1>1, <1>2, <1>3, <1>4, <1>5, <1>6, <1>7, <1>8, <1>9, <1>10

\* All workers are joined: the lists are emptied and the result is known.
LEMMA FinishInv ==
  ASSUME IInv, Finish
  PROVE  IInv'
<1> USE DEF IInv
<1>1. TypeOK'
  BY Lz4MtCompressAssumption DEF Finish, TypeOK, inputVars, readVars, outVars
<1>2. Turns'
  BY DEF Finish, Turns
<1>3. Owned'
  BY DEF Finish, Owned, Busy, readVars
<1>4. Counted'
  BY DEF Finish, Counted, inputVars, readVars
<1>5. Ordered'
  BY DEF Finish, Ordered, inputVars, outVars
<1>6. Ended'
  BY DEF Finish, Ended, inputVars, readVars
<1>7. Joined'
  BY Lz4MtCompressAssumption DEF Finish, Joined
<1>8. Kept'
  BY DEF Finish, Kept, Codes, TypeOK
<1>9. Complete'
  <2> SUFFICES ASSUME retval = "ok" PROVE curframe = frames
    BY DEF Finish, Complete, readVars
  <2>1. result = "none" /\ \A u \in Thread : pc[u] = "none" /\ ret[u] = "ok"
    BY DEF Finish, Joined, Thread, TypeOK
  <2>2. writer = NoThread
    BY <2>1 DEF Turns, TypeOK
  <2>3. \A u \in Thread, f \in curframe .. frames - 1 : ~ Holds(u, f)
    BY <2>1 DEF Holds
  <2>4. curframe \notin done /\ \A f \in curframe .. frames - 1 : f \in done
    BY <2>1, <2>2, <2>3 DEF Kept, AllOk
  <2>5. curframe \notin curframe .. frames - 1
    BY <2>4
  <2>6. QED
    BY <2>5 DEF TypeOK
<1>10. Stuck'
  BY DEF Finish, Stuck, Codes, TypeOK
<1>11. QED
  BY <1>1, <1>2, <1>3, <1>4, <1>5, <1>6, <1>7, <1>8, <1>9, <1>10

\* The context is used again for another input.
LEMMA CallInv ==
  ASSUME IInv, Call
  PROVE  IInv'
<1>1. TypeOK /\ Turns /\ Counted /\ Joined /\ Complete
  BY DEF IInv
<1>2. PICK n \in 1..MaxInput :
        /\ total' = n /\ taken' = 0 /\ base' = frames /\ out' = <<>> /\ writeFailed' = FALSE
        /\ pc' = [t \in Thread |-> "start"] /\ frame' = [t \in Thread |-> 0]
        /\ ret' = [t \in Thread |-> "ok"] /\ joined' = 0 /\ retval' = "ok"
        /\ result' = "none" /\ result = "ok" /\ calls < MaxCalls /\ calls' = calls + 1
        /\ UNCHANGED <<frames, curframe, free, done, writer>>
  BY DEF Call, queueVars
<1>3. /\ curframe = frames /\ done = {} /\ writer = NoThread
      /\ n \in Nat /\ n > 0 /\ frames \in Nat
  <2>1. curframe = frames /\ done = {} /\ joined = NumThreads
    BY <1>1, <1>2 DEF Complete, Joined
  <2>2. \A t \in Thread : pc[t] = "none"
    BY <1>1, <2>1, Lz4MtCompressAssumption DEF Joined, Thread
  <2>3. writer = NoThread
    BY <1>1, <2>2 DEF Turns, TypeOK
  <2>4. n \in Nat /\ n > 0 /\ frames \in Nat
    BY <1>1, Lz4MtCompressAssumption DEF TypeOK
  <2>5. QED
    BY <2>1, <2>3, <2>4
<1> USE <1>2, <1>3
<1>4. TypeOK'
  <2>1. calls' \in 1..MaxCalls /\ total' \in 0..MaxInput
    BY <1>1, Lz4MtCompressAssumption DEF TypeOK
  <2>2. taken' \in 0 .. total' /\ curframe' \in 0 .. frames' /\ base' \in 0 .. frames'
    BY <1>1 DEF TypeOK
  <2>3. pc' \in [Thread -> WorkerPc] /\ joined' \in 0..NumThreads
    BY Lz4MtCompressAssumption DEF WorkerPc
  <2>4. frame' \in [Thread -> Nat] /\ ret' \in [Thread -> Codes \cup {"ok"}]
    OBVIOUS
  <2>5. free' \in Nat /\ done' \subseteq 0 .. frames' /\ writer' \in Thread \cup {NoThread}
    BY <1>1 DEF TypeOK
  <2>6. writeFailed' \in BOOLEAN /\ frames' \in Nat
    OBVIOUS
  <2>10. <<>> \in Seq(Nat)
    OBVIOUS
  <2>7. retval' \in Codes \cup {"ok"} /\ result' \in Codes \cup {"ok", "none"}
    OBVIOUS
  <2>8. QED
    BY <2>1, <2>2, <2>3, <2>4, <2>5, <2>6, <2>7, <2>10 DEF TypeOK
<1>5. Turns'
  BY DEF Turns, Thread, NoThread
<1>6. Owned'
  BY DEF Owned, Busy
<1>7. Counted'
  BY DEF Counted
<1>8. Ordered'
  <2>1. [i \in 1 .. frames - frames |-> i] = <<>>
    OBVIOUS
  <2>2. QED
    BY <2>1 DEF Ordered
<1>9. Ended' /\ Complete' /\ Stuck'
  BY DEF Ended, Complete, Stuck
<1>10. Joined'
  BY Lz4MtCompressAssumption DEF Joined, Thread
<1>11. Kept'
  BY DEF Kept
<1>12. QED
  BY <1>4, <1>5, <1>6, <1>7, <1>8, <1>9, <1>10, <1>11 DEF IInv

-----------------------------------------------------------------------------
(* The theorems. *)

\* A new context satisfies the invariant.
LEMMA InitInv == Init => IInv
<1> SUFFICES ASSUME Init PROVE IInv
  OBVIOUS
<1> USE Lz4MtCompressAssumption DEF Init, Thread, NoThread
<1>1. TypeOK
  <2>1. /\ total \in 0..MaxInput /\ taken \in 0..total /\ frames \in Nat
        /\ curframe \in 0..frames /\ free \in Nat /\ done \subseteq 0..frames
        /\ joined \in 0..NumThreads /\ calls \in 1..MaxCalls /\ base \in 0..frames
    OBVIOUS
  <2>2. pc \in [Thread -> WorkerPc] /\ frame \in [Thread -> Nat]
    BY DEF WorkerPc
  <2>3. ret \in [Thread -> Codes \cup {"ok"}] /\ retval \in Codes \cup {"ok"}
    OBVIOUS
  <2>4. <<>> \in Seq(Nat)
    OBVIOUS
  <2>5. QED
    BY <2>1, <2>2, <2>3, <2>4 DEF TypeOK
<1>2. Turns /\ Owned /\ Counted /\ Ended /\ Joined
  BY DEF Turns, Owned, Busy, Counted, Ended, Joined
<1>3. Ordered
  <2>1. [i \in 1 .. 0 - 0 |-> i] = <<>>
    OBVIOUS
  <2>2. QED
    BY <2>1 DEF Ordered
<1>4. Kept /\ Complete /\ Stuck
  BY DEF Kept, Complete, Stuck
<1>5. QED
  BY <1>1, <1>2, <1>3, <1>4 DEF IInv

\* A step that changes nothing keeps the invariant.
LEMMA StutterInv == IInv /\ UNCHANGED vars => IInv'
<1> SUFFICES ASSUME IInv, UNCHANGED vars PROVE IInv'
  OBVIOUS
<1> USE DEF vars, inputVars, readVars, queueVars, callVars, outVars
<1>1. TypeOK' BY DEF IInv, TypeOK
<1>2. Turns' /\ Owned' BY DEF IInv, Turns, Owned, Busy
<1>3. Counted' /\ Ordered' /\ Ended' BY DEF IInv, Counted, Ordered, Ended
<1>4. Joined' /\ Complete' /\ Stuck' BY DEF IInv, Joined, Complete, Stuck
<1>5. Kept' BY DEF IInv, Kept, AllOk, Holds
<1>6. QED BY <1>1, <1>2, <1>3, <1>4, <1>5 DEF IInv

\* The invariant is inductive.
LEMMA StepInv == IInv /\ [Next]_vars => IInv'
  BY StartInv, AllocInv, ReadInv, CompressInv, ReleaseInv, QueueInv, WriteInv, JoinInv,
     FinishInv, CallInv, StutterInv
     DEF Next, Worker, Terminating

\* The invariant holds in every state of every behaviour.
THEOREM Invariance == Spec => []IInv
  BY InitInv, StepInv, PTL DEF Spec

\* The variables keep their types; the frame that is due never runs ahead of the
\* frames that were given out (lz4-mt_compress.c:160-335).
THEOREM TypeCorrect == Spec => []TypeOK
<1>1. IInv => TypeOK
  BY DEF IInv
<1>2. QED
  BY <1>1, Invariance, PTL

\* Whatever the workers do and however many there are, the output is a
\* beginning of the input, in order (lz4-mt_compress.c:180-207).
THEOREM OutputInOrder == Spec => []OutInOrder
<1>1. IInv => OutInOrder
  <2> SUFFICES ASSUME IInv PROVE OutInOrder
    OBVIOUS
  <2>1. curframe - base \in Nat /\ curframe - base <= Blocks
    BY DEF IInv, TypeOK, Counted, Blocks
  <2>2. Len(out) = curframe - base
    BY <2>1 DEF IInv, Ordered
  <2>3. QED
    BY <2>1, <2>2 DEF IInv, Ordered, OutInOrder
<1>2. QED
  BY <1>1, Invariance, PTL

\* What the invariant says of the result of a call.
LEMMA SoundInvariant == IInv => ResultSound
<1> SUFFICES ASSUME IInv PROVE ResultSound
  OBVIOUS
<1> USE DEF IInv
<1>1. result # "none" =>
        (\A t \in Thread : pc[t] = "none") /\ (result = "ok" <=> \A t \in Thread : ret[t] = "ok")
  BY DEF Joined, Thread, TypeOK
<1>2. ASSUME result = "ok" PROVE Len(out) = Blocks
  <2>1. 0 \in Thread
    BY Lz4MtCompressAssumption DEF Thread
  <2>2. taken = total /\ frames > 0 /\ curframe = frames
    BY <1>1, <1>2, <2>1 DEF Ended, Complete
  <2>3. curframe - base = Blocks
    BY <2>2 DEF Counted, TypeOK, Blocks
  <2>4. Blocks \in Nat
    BY DEF Blocks, TypeOK
  <2>5. QED
    BY <2>3, <2>4 DEF Ordered
<1>3. QED
  BY <1>1, <1>2 DEF ResultSound

\* Success is returned only for the whole input, an error only when a worker
\* failed (lz4-mt_compress.c:269-282, 366-372).
THEOREM ResultIsSound == Spec => []ResultSound
  BY SoundInvariant, Invariance, PTL

\* While nothing failed no frame is lost, none is with two workers, and the one
\* that is due never waits without a writer (lz4-mt_compress.c:180-207).
THEOREM NoFrameIsLost == Spec => []FramesKept
<1>1. IInv => FramesKept
  <2> SUFFICES ASSUME IInv, result = "none", AllOk
               PROVE  /\ \A f \in curframe .. frames - 1 :
                           Cardinality({t \in Thread : Holds(t, f)})
                             + (IF f \in done THEN 1 ELSE 0) = 1
                      /\ writer = NoThread => curframe \notin done
    BY DEF FramesKept, AllOk
  <2>1. ASSUME NEW f \in curframe .. frames - 1
        PROVE  Cardinality({t \in Thread : Holds(t, f)}) + (IF f \in done THEN 1 ELSE 0) = 1
    <3>1. CASE f \in done
      <4>1. {t \in Thread : Holds(t, f)} = {}
        BY <3>1 DEF IInv, Owned, Holds, Busy
      <4>2. QED
        BY <3>1, <4>1, FS_EmptySet
    <3>2. CASE f \notin done
      <4>1. PICK u \in Thread : Holds(u, f)
        BY <2>1, <3>2 DEF IInv, Kept
      <4>2. {t \in Thread : Holds(t, f)} = {u}
        BY <4>1 DEF IInv, Owned, Holds, Busy
      <4>3. Cardinality({u}) = 1
        BY FS_Singleton
      <4>4. QED
        BY <3>2, <4>2, <4>3
    <3>3. QED
      BY <3>1, <3>2
  <2>2. QED
    BY <2>1 DEF IInv, Kept
<1>2. QED
  BY <1>1, Invariance, PTL

\* Once fn_write has failed nothing more is written in this call
\* (lz4-mt_compress.c:184-189, 196-198).
THEOREM FailedWriteIsLast == Spec => NothingAfterFailedWrite
<1>1. IInv /\ [Next]_vars => (writeFailed /\ writeFailed' => out' = out)
  <2> SUFFICES ASSUME IInv, [Next]_vars, writeFailed, writeFailed' PROVE out' = out
    OBVIOUS
  <2>1. \A t \in Thread : pc[t] # "write"
    BY DEF IInv, Stuck, Turns, Joined, Thread, NoThread, TypeOK
  <2>2. ~ Call /\ \A t \in Thread : ~ Write(t)
    BY <2>1 DEF Call, Write
  <2>3. QED
    BY <2>2 DEF Next, Worker, Start, Alloc, Read, Compress, Release, Queue, Join, Finish,
                Terminating, vars, outVars
<1>2. QED
  BY <1>1, Invariance, PTL DEF Spec, NothingAfterFailedWrite

-----------------------------------------------------------------------------
(* Refinement: every step is a step of the block pipeline, or none of it. *)

Failed == \E t \in Thread : ret[t] # "ok"

Status == CASE result = "none" -> "run" [] result = "ok" -> "ok" [] OTHER -> "error"

\* The last element of 1..n.
LEMMA LastOfCount ==
  ASSUME NEW n \in Nat
  PROVE  Pipeline!LastOf([i \in 1..n |-> i]) = n /\ Len([i \in 1..n |-> i]) = n
<1>1. [i \in 1..n |-> i] \in Seq(Nat) /\ Len([i \in 1..n |-> i]) = n
  OBVIOUS
<1>2. CASE n = 0
  <2>1. [i \in 1..n |-> i] = <<>>
    BY <1>2
  <2>2. QED
    BY <1>1, <1>2, <2>1 DEF Pipeline!LastOf
<1>3. CASE n # 0
  <2>1. [i \in 1..n |-> i] # <<>>
    BY <1>1, <1>3
  <2>2. QED
    BY <1>1, <1>3, <2>1 DEF Pipeline!LastOf
<1>4. QED
  BY <1>2, <1>3

\* The writer's frame is the pipeline's next block, late when a worker has
\* failed.
LEMMA WriteDueRefines ==
  ASSUME IInv, NEW t \in Thread, pc[t] = "write", curframe \in done,
         out' = Append(out, curframe - base + 1),
         UNCHANGED <<ret, inputVars, callVars>>
  PROVE  Pipeline!PNext
<1>1. result = "none" /\ curframe < frames
  BY DEF IInv, Joined, Owned, Thread, TypeOK
<1>2. PICK n \in Nat : n = curframe - base /\ n < Blocks /\ Blocks \in Nat
  BY <1>1 DEF IInv, TypeOK, Counted, Blocks
<1>3. out = [i \in 1..n |-> i] /\ out' = Append(out, n + 1)
  BY <1>2 DEF IInv, Ordered
<1>4. Len(out) = n /\ Pipeline!LastOf(out) = n
  BY <1>3, LastOfCount
<1>5. UNCHANGED <<Blocks, Failed, Status>> /\ Status = "run"
  BY <1>1 DEF inputVars, callVars, Blocks, Failed, Status
<1>6. CASE Failed
  <2>1. n + 1 \in Pipeline!LastOf(out) + 1 .. Blocks
    BY <1>2, <1>4
  <2>2. Pipeline!EmitLate
    BY <1>3, <1>5, <1>6, <2>1 DEF Pipeline!EmitLate, Failed, Status
  <2>3. QED
    BY <2>2 DEF Pipeline!PNext
<1>7. CASE ~ Failed
  <2>1. Pipeline!Emit
    BY <1>2, <1>3, <1>4, <1>5, <1>7 DEF Pipeline!Emit, Failed, Status
  <2>2. QED
    BY <2>1 DEF Pipeline!PNext
<1>8. QED
  BY <1>6, <1>7

\* A step of a worker that writes nothing fails, or is invisible.
LEMMA QuietRefines ==
  ASSUME result = "none", UNCHANGED <<inputVars, callVars, out>>,
         \/ ret' = ret
         \/ \E t \in Thread, c \in Codes : c # "ok" /\ ret' = [ret EXCEPT ![t] = c],
         ret \in [Thread -> Codes \cup {"ok"}]
  PROVE  [Pipeline!PNext]_Pipeline!pvars
<1>1. UNCHANGED <<Blocks, Status, out>> /\ Status = "run"
  BY DEF inputVars, callVars, Blocks, Status
<1>2. CASE ret' = ret
  BY <1>1, <1>2 DEF Pipeline!pvars, Failed, Status
<1>3. CASE \E t \in Thread, c \in Codes : c # "ok" /\ ret' = [ret EXCEPT ![t] = c]
  <2>1. Failed'
    BY <1>3 DEF Failed
  <2>2. Pipeline!Fail
    BY <1>1, <2>1 DEF Pipeline!Fail, Failed, Status
  <2>3. QED
    BY <2>2 DEF Pipeline!PNext
<1>4. QED
  BY <1>2, <1>3

\* Every step of a worker.
LEMMA WorkerRefines ==
  ASSUME IInv, NEW t \in Thread, Worker(t)
  PROVE  [Pipeline!PNext]_Pipeline!pvars
<1>1. pc[t] # "none" /\ ret \in [Thread -> Codes \cup {"ok"}]
  BY DEF IInv, TypeOK, Worker, Start, Alloc, Read, Compress, Release, Queue, Write
<1>2. result = "none"
  BY <1>1 DEF IInv, Joined, Thread, TypeOK
<1>3. CASE \E f \in Due : out' = Append(out, f - base + 1) /\ pc[t] = "write"
                          /\ UNCHANGED <<ret, inputVars, callVars>>
  BY <1>3, WriteDueRefines DEF Due
<1>4. \A codes : FailWith(t, codes) =>
        \E c \in Codes : c # "ok" /\ ret' = [ret EXCEPT ![t] = c]
  BY Lz4MtCompressAssumption DEF FailWith, Codes
<1>5. CASE Write(t) /\ UNCHANGED out
  BY <1>1, <1>2, <1>4, <1>5, QuietRefines DEF Write
<1>6. CASE Start(t) \/ Alloc(t) \/ Read(t) \/ Compress(t) \/ Queue(t)
  <2>1. UNCHANGED <<inputVars, callVars, out>> /\ (ret' = ret \/ \E codes : FailWith(t, codes))
    BY <1>6 DEF Start, Alloc, Read, Compress, Queue, outVars
  <2>2. QED
    BY <1>1, <1>2, <1>4, <2>1, QuietRefines
<1>7. CASE Release(t)
  <2>1. ret' = [ret EXCEPT ![t] = "compress"] \/ ret' = ret
    BY <1>1, <1>7 DEF Release, IInv, Ended
  <2>2. UNCHANGED <<inputVars, callVars, out>> /\ "compress" \in Codes
    BY <1>7 DEF Release, outVars, Codes
  <2>3. QED
    BY <1>1, <1>2, <2>1, <2>2, QuietRefines
<1>8. Write(t) => (UNCHANGED out \/ \E f \in Due : out' = Append(out, f - base + 1)
                          /\ pc[t] = "write" /\ UNCHANGED <<ret, inputVars, callVars>>)
  BY DEF Write, outVars
<1>9. QED
  BY <1>3, <1>5, <1>6, <1>7, <1>8 DEF Worker

\* The steps of the calling thread.
LEMMA CallerRefines ==
  ASSUME IInv, IInv', Join \/ Finish \/ Call
  PROVE  [Pipeline!PNext]_Pipeline!pvars
<1>1. CASE Join
  <2>1. UNCHANGED <<Blocks, Status, out, ret>>
    BY <1>1 DEF Join, inputVars, outVars, Blocks, Status
  <2>2. QED
    BY <2>1 DEF Pipeline!pvars, Status, Failed
<1>2. CASE Finish
  <2>1. UNCHANGED <<Blocks, out, ret>> /\ Status = "run" /\ Status' = IF retval = "ok" THEN "ok" ELSE "error"
    BY <1>2 DEF Finish, inputVars, outVars, Blocks, Status, IInv, TypeOK, Codes
  <2>2. retval = "ok" <=> ~ Failed
    <3>1. \A u \in Thread : u < joined
      BY <1>2, Lz4MtCompressAssumption DEF Finish, Thread
    <3>2. QED
      BY <3>1 DEF IInv, Joined, Failed
  <2>3. CASE retval = "ok"
    <3>1. curframe = frames
      BY <1>2, <2>3 DEF Finish, IInv, Complete, readVars
    <3>2. taken = total /\ frames > 0
      <4>1. pc[0] = "none" /\ ret[0] = "ok" /\ 0 \in Thread
        BY <1>2, <2>2, <2>3, Lz4MtCompressAssumption DEF Finish, IInv, Joined, Failed, Thread
      <4>2. QED
        BY <4>1 DEF IInv, Ended
    <3>3. Len(out) = Blocks
      <4>1. curframe - base = Blocks /\ Blocks \in Nat
        BY <3>1, <3>2, SMTT(30) DEF IInv, Counted, TypeOK, Blocks
      <4>2. QED
        BY <4>1 DEF IInv, Ordered
    <3>4. Pipeline!Succeed
      BY <2>1, <2>2, <2>3, <3>3 DEF Pipeline!Succeed, Failed, Status
    <3>5. QED
      BY <3>4 DEF Pipeline!PNext
  <2>4. CASE retval # "ok"
    <3>1. Pipeline!GiveUp
      BY <2>1, <2>2, <2>4 DEF Pipeline!GiveUp, Failed, Status
    <3>2. QED
      BY <3>1 DEF Pipeline!PNext
  <2>5. QED
    BY <2>3, <2>4
<1>3. CASE Call
  <2>1. Status = "ok" /\ Status' = "run" /\ out' = <<>> /\ ~ Failed'
    BY <1>3 DEF Call, Status, Failed
  <2>2. Blocks' \in Nat \ {0}
    BY <1>3, Lz4MtCompressAssumption DEF Call, Blocks
  <2>3. Pipeline!Again
    BY <2>1, <2>2 DEF Pipeline!Again, Status, Failed
  <2>4. QED
    BY <2>3 DEF Pipeline!PNext
<1>4. QED
  BY <1>1, <1>2, <1>3

\* lz4-mt keeps the promise of a block pipeline, for every number of threads
\* and every set of failures (lz4-mt_compress.c:180-395).
THEOREM Refinement == Spec => ImplementsPipeline
<1>1. Init => Pipeline!PInit
  <2> SUFFICES ASSUME Init PROVE Pipeline!PInit
    OBVIOUS
  <2>1. Blocks \in Nat \ {0}
    BY Lz4MtCompressAssumption DEF Init, Blocks
  <2>2. Status = "run" /\ ~ Failed /\ out = <<>>
    BY DEF Init, Status, Failed
  <2>3. QED
    BY <2>1, <2>2 DEF Pipeline!PInit, Status, Failed
<1>2. UNCHANGED vars => UNCHANGED Pipeline!pvars
  BY DEF vars, inputVars, callVars, outVars, Pipeline!pvars, Blocks
<1>3. IInv /\ IInv' /\ [Next]_vars => [Pipeline!PNext]_Pipeline!pvars
  BY <1>2, WorkerRefines, CallerRefines DEF Next, Terminating
<1>4. QED
  BY <1>1, <1>3, Invariance, PTL DEF Spec, ImplementsPipeline, Pipeline!PSpec

\* No frame is lost while nothing failed, and none is written after a failed
\* write (lz4-mt_compress.c:180-207).
THEOREM FramesAreSound == Spec => FramesSound
BY NoFrameIsLost, FailedWriteIsLast DEF FramesSound
=============================================================================
