--------------------------- MODULE Lz4MtCompress ---------------------------
(***************************************************************************)
(* LZ4MT_compressCCtx of C/zstdmt/lz4-mt_compress.c: every worker takes an *)
(* output entry, reads the next block of the input, compresses it to a     *)
(* frame and queues the frame; whoever queues the frame that is due writes *)
(* it and the queued frames that follow.  Two mutexes, no conditions: a    *)
(* worker never waits for another one's frame.  lz5-mt and lizard-mt are   *)
(* the same program with another codec.                                    *)
(*                                                                         *)
(* Calls that hold read_mutex, and those that hold write_mutex without     *)
(* calling fn_write, are one step; pt_write takes one step per frame and   *)
(* holds the mutex in between.  An entry of the write list is counted      *)
(* while it is free, and is the number of its frame while it is done.      *)
(***************************************************************************)
EXTENDS Integers, Sequences, FiniteSets

CONSTANTS
  NumThreads, \* ctx->threads
  Faults,     \* what may fail: a subset of Codes
  MaxInput,   \* bound: largest input, in blocks
  MaxCalls    \* bound: calls on one context

Codes == {"read_fail", "canceled", "memory", "compress"}

ASSUME Lz4MtCompressAssumption ==
  /\ NumThreads \in Nat \ {0} /\ MaxInput \in Nat /\ MaxCalls \in Nat \ {0}
  /\ Faults \subseteq Codes

VARIABLES
  \* the caller's input
  total,     \* blocks of the input of this call
  taken,     \* blocks read so far
  \* the context
  frames, curframe, free, done,
  writer,    \* the worker that holds write_mutex in pt_write, or NoThread
  \* the workers
  pc, frame, ret,
  \* the calling thread
  joined,    \* workers joined so far
  retval,    \* retval_of_thread
  result,    \* "none" during a call
  calls,
  \* history
  base,      \* frames of the earlier calls
  out,       \* blocks written in this call, by number
  writeFailed

inputVars  == <<total, calls, base>>
readVars   == <<taken, frames>>
queueVars  == <<curframe, free, done>>
callVars   == <<joined, retval, result>>
outVars    == <<out, writeFailed>>
vars == <<inputVars, readVars, queueVars, writer, pc, frame, ret, callVars, outVars>>

Thread   == 0 .. NumThreads - 1
NoThread == -1
WorkerPc == {"none", "start", "alloc", "read", "compress", "queue", "write", "release",
             "drop", "end"}

\* A new context and its first call.
Init ==
  /\ total \in 0..MaxInput /\ taken = 0
  /\ frames = 0 /\ curframe = 0 /\ free = 0 /\ done = {}
  /\ writer = NoThread
  /\ pc = [t \in Thread |-> "start"] /\ frame = [t \in Thread |-> 0]
  /\ ret = [t \in Thread |-> "ok"]
  /\ joined = 0 /\ retval = "ok" /\ result = "none" /\ calls = 1
  /\ base = 0 /\ out = <<>> /\ writeFailed = FALSE

Goto(t, l) == pc' = [pc EXCEPT ![t] = l]

\* Worker t returns an error code.
FailWith(t, codes) ==
  \E c \in codes \cap Faults : ret' = [ret EXCEPT ![t] = c] /\ Goto(t, "end")

\* The answers of fn_read and fn_write (mt_error).
IoCodes == {"read_fail", "canceled", "memory"}

-----------------------------------------------------------------------------
(* A worker (pt_compress). *)

Start(t) ==
  /\ pc[t] = "start"
  /\ \/ Goto(t, "alloc") /\ UNCHANGED ret
     \/ FailWith(t, {"memory"})
  /\ UNCHANGED <<inputVars, readVars, queueVars, writer, frame, callVars, outVars>>

FreeWithoutTest == free - 1                                    \* mutant

\* The free list after one entry was taken from it, or a new one allocated.
FreeTaken == IF free > 0 THEN free - 1 ELSE 0

Alloc(t) ==
  /\ pc[t] = "alloc" /\ writer = NoThread
  /\ \/ Goto(t, "read") /\ free' = FreeTaken /\ UNCHANGED ret
     \/ free = 0 /\ FailWith(t, {"memory"}) /\ UNCHANGED free
  /\ UNCHANGED <<inputVars, readVars, curframe, done, writer, frame, callVars, outVars>>

\* Nothing read, and the stream has a frame.
Eof == taken = total /\ frames > 0

Read(t) ==
  /\ pc[t] = "read"
  /\ \/ /\ Eof
        /\ Goto(t, "release")
        /\ UNCHANGED <<readVars, frame, ret>>
     \/ /\ ~ Eof
        /\ taken' = IF taken < total THEN taken + 1 ELSE taken
        /\ frame' = [frame EXCEPT ![t] = frames]
        /\ frames' = frames + 1
        /\ Goto(t, "compress")
        /\ UNCHANGED ret
     \/ /\ FailWith(t, IoCodes)
        /\ UNCHANGED <<readVars, frame>>
  /\ UNCHANGED <<inputVars, queueVars, writer, callVars, outVars>>

Compress(t) ==
  /\ pc[t] = "compress"
  /\ \/ Goto(t, "queue")
     \/ "compress" \in Faults /\ Goto(t, "drop")
  /\ UNCHANGED <<inputVars, readVars, queueVars, writer, frame, ret, callVars, outVars>>

\* The entry goes back to the free list: at the end of the input, or after the
\* codec failed.
Release(t) ==
  /\ pc[t] \in {"release", "drop"} /\ writer = NoThread
  /\ free' = free + 1
  /\ ret' = [ret EXCEPT ![t] = IF pc[t] = "drop" THEN "compress" ELSE "ok"]
  /\ Goto(t, "end")
  /\ UNCHANGED <<inputVars, readVars, curframe, done, writer, frame, callVars, outVars>>

AlwaysTurn(t) == TRUE                                          \* mutant

\* pt_write goes on to write only for the frame that is due.
Turn(t) == frame[t] = curframe

\* pt_write: the entry joins the done list.
Queue(t) ==
  /\ pc[t] = "queue" /\ writer = NoThread
  /\ done' = done \cup {frame[t]}
  /\ IF Turn(t) THEN writer' = t /\ Goto(t, "write")
                ELSE UNCHANGED writer /\ Goto(t, "alloc")
  /\ UNCHANGED <<inputVars, readVars, curframe, free, frame, ret, callVars, outVars>>

\* The frames of the done list that can be written: at most one.
Due == done \cap {curframe}

WriteOnce(t) == writer' = NoThread /\ Goto(t, "alloc")         \* mutant

\* After a frame was written the search begins again.
AfterWrite(t) == UNCHANGED <<writer, pc>>

StillLocked(t) == UNCHANGED writer                             \* mutant

\* write_mutex is released when fn_write failed, too.
UnlockAfterFailure(t) == writer' = NoThread

\* pt_write: the frame that is due is written and the next one looked for.
Write(t) ==
  /\ pc[t] = "write"
  /\ \/ \E f \in Due :
          /\ out' = Append(out, f - base + 1)
          /\ curframe' = curframe + 1
          /\ done' = done \ {f}
          /\ free' = free + 1
          /\ AfterWrite(t)
          /\ UNCHANGED <<ret, writeFailed>>
     \/ /\ Due # {} /\ FailWith(t, IoCodes)
        /\ writeFailed' = TRUE
        /\ UnlockAfterFailure(t)
        /\ UNCHANGED <<queueVars, out>>
     \/ /\ Due = {}
        /\ writer' = NoThread
        /\ Goto(t, "alloc")
        /\ UNCHANGED <<queueVars, ret, outVars>>
  /\ UNCHANGED <<inputVars, readVars, frame, callVars>>

Worker(t) == \/ Start(t) \/ Alloc(t) \/ Read(t) \/ Compress(t) \/ Release(t) \/ Queue(t)
             \/ Write(t)

-----------------------------------------------------------------------------
(* The calling thread (LZ4MT_compressCCtx). *)

LastRet(r) == r                                                \* mutant

\* A worker's error replaces those of the workers joined before it.
RetvalAfter(r) == IF r # "ok" THEN r ELSE retval

Join ==
  /\ result = "none" /\ joined < NumThreads
  /\ pc[joined] = "end"
  /\ retval' = RetvalAfter(ret[joined])
  /\ joined' = joined + 1
  /\ pc' = [pc EXCEPT ![joined] = "none"]
  /\ UNCHANGED <<inputVars, readVars, queueVars, writer, frame, ret, result, outVars>>

\* The lists are emptied; frames and curframe stay.
Finish ==
  /\ result = "none" /\ joined = NumThreads
  /\ done' = {} /\ free' = 0
  /\ result' = retval
  /\ UNCHANGED <<inputVars, readVars, curframe, writer, pc, frame, ret, joined, retval,
                 outVars>>

\* The encoder object keeps its context and may be used again for a file that
\* is not empty, unless it failed.
Call ==
  /\ result = "ok" /\ calls < MaxCalls
  /\ calls' = calls + 1
  /\ total' \in 1..MaxInput /\ taken' = 0
  /\ base' = frames
  /\ out' = <<>> /\ writeFailed' = FALSE
  /\ pc' = [t \in Thread |-> "start"] /\ frame' = [t \in Thread |-> 0]
  /\ ret' = [t \in Thread |-> "ok"]
  /\ joined' = 0 /\ retval' = "ok" /\ result' = "none"
  /\ UNCHANGED <<frames, queueVars, writer>>

Terminating ==
  /\ result # "none" /\ (result # "ok" \/ calls = MaxCalls)
  /\ UNCHANGED vars

Next == (\E t \in Thread : Worker(t)) \/ Join \/ Finish \/ Call \/ Terminating

Spec == Init /\ [][Next]_vars

\* The threads are scheduled; nothing forces the caller to call again.
FairSpec ==
  Spec /\ WF_vars(Join) /\ WF_vars(Finish)
       /\ \A t \in Thread : WF_vars(Worker(t))

-----------------------------------------------------------------------------
(* Properties. *)

\* Every variable has its type.
TypeOK ==
  /\ total \in 0..MaxInput /\ taken \in 0..total
  /\ frames \in Nat /\ curframe \in 0..frames /\ free \in Nat /\ done \subseteq 0..frames
  /\ writer \in Thread \cup {NoThread}
  /\ pc \in [Thread -> WorkerPc] /\ frame \in [Thread -> Nat]
  /\ ret \in [Thread -> Codes \cup {"ok"}]
  /\ joined \in 0..NumThreads /\ retval \in Codes \cup {"ok"}
  /\ result \in Codes \cup {"ok", "none"}
  /\ calls \in 1..MaxCalls /\ base \in 0..frames /\ out \in Seq(Nat)
  /\ writeFailed \in BOOLEAN

\* The blocks that make up the output: an empty input has one empty frame.
Blocks == IF total = 0 THEN 1 ELSE total

\* The output is always a beginning of the input, in order, whatever fails
\* (lz4-mt_compress.c:180-207).
OutInOrder == out = [i \in 1 .. Len(out) |-> i] /\ Len(out) <= Blocks

\* A call that returns success has written everything; one in which a worker
\* failed returns an error (lz4-mt_compress.c:269-282, 366-372).
ResultSound ==
  /\ result = "ok" => Len(out) = Blocks
  /\ result # "none" => (result = "ok" <=> \A t \in Thread : ret[t] = "ok")

\* No frame is lost and none waits in vain: while nothing failed every frame read
\* and not yet written is with exactly one worker or in the done list, and the one
\* that is due is not left in the done list by the last writer
\* (lz4-mt_compress.c:180-207).
Holds(t, f) == pc[t] \in {"compress", "queue"} /\ frame[t] = f
FramesKept ==
  result = "none" /\ (\A t \in Thread : ret[t] = "ok" /\ pc[t] # "drop") =>
    /\ \A f \in curframe .. frames - 1 :
         Cardinality({t \in Thread : Holds(t, f)}) + (IF f \in done THEN 1 ELSE 0) = 1
    /\ writer = NoThread => curframe \notin done

\* Once fn_write has failed nothing more is written in this call
\* (lz4-mt_compress.c:184-189, 196-198).
NothingAfterFailedWrite == [][writeFailed /\ writeFailed' => out' = out]_vars

\* No frame is lost while nothing failed, and none comes after a failed write.
FramesSound == []FramesKept /\ NothingAfterFailedWrite

Pipeline == INSTANCE BlockPipeline WITH
  total  <- Blocks,
  failed <- \E t \in Thread : ret[t] # "ok",
  status <- CASE result = "none" -> "run" [] result = "ok" -> "ok" [] OTHER -> "error"

\* It keeps the same promise as MtCoder, of which it shares no line
\* (lz4-mt_compress.c:180-395).
ImplementsPipeline == Pipeline!PSpec

\* Every call returns, whatever fails (lz4-mt_compress.c:209-395).
CallReturns == result = "none" ~> result # "none"
=============================================================================
