---------------------------- MODULE EntryReader ----------------------------
(***************************************************************************)
(* SevenZipEntryReader of user/sevenzip_lib.cpp: one archive entry read as *)
(* if it were a file.  A worker thread decodes the entry from its start    *)
(* and pushes the chunks into a bounded queue (OnData); the consumer pulls *)
(* bytes from it.  A backward read_at stops the worker, joins it and       *)
(* starts decoding again; close stops it too.                              *)
(*                                                                         *)
(* The byte at offset o of the entry is the number o.  The decoder hands   *)
(* out chunks of 1..MaxChunk bytes and may fail at any point.  Its entry   *)
(* may hold another number of bytes than its header declares.  The mutex m *)
(* makes each step below atomic; the copy loop of Pull runs under m, so    *)
(* while the consumer is in it the worker cannot enter.  Both threads wait *)
(* on the one condition variable cv: a thread that finds its condition     *)
(* false sleeps, and only a notify_all makes it look again.                *)
(***************************************************************************)
EXTENDS Integers, Sequences, SequencesExt

CONSTANTS
  Size,         \* size of the entry in the archive's header
  Lengths,      \* numbers of bytes the entry may really decode to
  MaxChunk,     \* largest chunk the decoder writes at once
  Capacity,     \* kCapacity
  Scratch,      \* size of the scratch buffer of a forward seek
  MaxRead,      \* bound: largest size of one read
  DecodeFaults  \* whether decoding can fail

ASSUME EntryReaderAssumption ==
  /\ Size \in Nat /\ Lengths \subseteq Nat /\ Lengths # {}
  /\ MaxChunk \in Nat \ {0} /\ Capacity \in Nat \ {0} /\ Scratch \in Nat \ {0}
  /\ MaxRead \in Nat /\ DecodeFaults \in BOOLEAN

VARIABLES
  \* the reader object
  pos, chunks, frontOffset, buffered, running, done, failed, abort,
  asleep,   \* the threads that sleep on cv
  \* the decoder on the worker thread
  length,   \* bytes this entry decodes to
  wpc,      \* "none", "decode", "deliver", "end", "ended"
  decoded,  \* bytes handed to OnData so far
  n,        \* size of the chunk being delivered
  rc,       \* result of sevenzip_extract_entry_stream
  \* the consumer's call
  cpc, op, offset, size, want, got, answer

queueVars  == <<pos, chunks, frontOffset, buffered, running, done, failed, abort>>
readerVars == <<queueVars, asleep>>
workerVars == <<length, wpc, decoded, n, rc>>
callVars   == <<op, offset, size>>
entryVars == <<readerVars, workerVars, callVars, cpc, want, got, answer>>

WorkerPc == {"none", "decode", "deliver", "end", "ended"}
ConsumerPc == {"idle", "stop", "join", "seek", "fill", "pull", "copy", "closed"}
Ops == {"read", "read_at", "close"}

EntryInit ==
  /\ pos = 0 /\ chunks = <<>> /\ frontOffset = 0 /\ buffered = 0
  /\ running = FALSE /\ done = FALSE /\ failed = FALSE /\ abort = FALSE
  /\ asleep = {}
  /\ length \in Lengths
  /\ wpc = "none" /\ decoded = 0 /\ n = 0 /\ rc = 0
  /\ cpc = "idle" /\ op = "read" /\ offset = 0 /\ size = 0
  /\ want = 0 /\ got = <<>> /\ answer = "none"

Bytes(first, count) == [i \in 1..count |-> first + i - 1]

-----------------------------------------------------------------------------
(* The worker: sevenzip_extract_entry_stream with OnData as its sink.  m is *)
(* held by the consumer while it copies.                                    *)

Locked == cpc = "copy"

\* The decoder produces the next chunk, comes to the end, or fails.
Decode ==
  /\ wpc = "decode"
  /\ \/ /\ \E k \in 1..MaxChunk : decoded + k <= length /\ n' = k
        /\ wpc' = "deliver"
        /\ UNCHANGED rc
     \/ /\ decoded = length
        /\ wpc' = "end" /\ rc' = 0
        /\ UNCHANGED n
     \/ /\ DecodeFaults
        /\ wpc' = "end" /\ rc' = -1
        /\ UNCHANGED n
  /\ UNCHANGED <<readerVars, length, decoded, callVars, cpc, want, got, answer>>

RoomIgnored == TRUE                                            \* mutant

\* The queue takes another chunk.
Room == buffered < Capacity

NotifyAll == asleep' = {}

\* The condition a thread waits for is false.
Sleep(t) == asleep' = asleep \cup {t}

\* OnData: waits for room or an abort; an abort stops the extraction (-6).
OnData ==
  /\ wpc = "deliver" /\ ~ Locked /\ "worker" \notin asleep
  /\ \/ /\ abort
        /\ wpc' = "end" /\ rc' = -6
        /\ UNCHANGED <<chunks, buffered, decoded, asleep>>
     \/ /\ ~ abort /\ Room
        /\ chunks' = Append(chunks, Bytes(decoded, n))
        /\ buffered' = buffered + n
        /\ decoded' = decoded + n
        /\ wpc' = "decode"
        /\ NotifyAll
        /\ UNCHANGED rc
     \/ /\ ~ abort /\ ~ Room
        /\ Sleep("worker")
        /\ UNCHANGED <<chunks, buffered, decoded, wpc, rc>>
  /\ UNCHANGED <<pos, frontOffset, running, done, failed, abort, length, n,
                 callVars, cpc, want, got, answer>>

\* Only a failure nobody asked for counts as one.
FailedBy(r, a) == r # 0 /\ ~ a

WorkerEnd ==
  /\ wpc = "end" /\ ~ Locked
  /\ done' = TRUE
  /\ failed' = FailedBy(rc, abort)
  /\ wpc' = "ended"
  /\ NotifyAll
  /\ UNCHANGED <<pos, chunks, frontOffset, buffered, running, abort, length, decoded,
                 n, rc, callVars, cpc, want, got, answer>>

Worker == Decode \/ OnData \/ WorkerEnd

-----------------------------------------------------------------------------
(* The consumer: one call at a time. *)

Return(r) == cpc' = "idle" /\ answer' = r

CallRead ==
  /\ cpc = "idle"
  /\ \E k \in 0..MaxRead :
       /\ op' = "read" /\ offset' = pos /\ size' = k /\ want' = k
       /\ got' = <<>>
       /\ IF k = 0 THEN Return("ok")
          ELSE cpc' = "pull" /\ answer' = "none"
  /\ UNCHANGED <<readerVars, workerVars>>

\* read_at checks the range; a backward read restarts, a forward one skips.
CallReadAt ==
  /\ cpc = "idle"
  /\ \E o \in 0 .. Size + 1, k \in 0..MaxRead :
       /\ op' = "read_at" /\ offset' = o /\ size' = k /\ want' = 0
       /\ got' = <<>>
       /\ IF o > Size \/ k > Size - o THEN Return("past")
          ELSE /\ cpc' = IF o < pos THEN "stop" ELSE "seek"
               /\ answer' = "none"
  /\ UNCHANGED <<readerVars, workerVars>>

CallClose ==
  /\ cpc = "idle"
  /\ cpc' = "stop" /\ op' = "close" /\ offset' = 0 /\ size' = 0 /\ want' = 0
  /\ got' = <<>> /\ answer' = "none"
  /\ UNCHANGED <<readerVars, workerVars>>

StopIfDecoding == running /\ ~ done                            \* mutant

\* Stop() has a thread to join.
MustJoin == running

\* Stop(): nothing to do without a worker, else it is told to abort and joined.
Stopped ==
  IF op = "close" THEN cpc' = "closed" /\ UNCHANGED pos
                  ELSE cpc' = "seek" /\ pos' = 0

Stop ==
  /\ cpc = "stop"
  /\ IF MustJoin THEN abort' = TRUE /\ cpc' = "join" /\ NotifyAll /\ UNCHANGED pos
                 ELSE UNCHANGED <<abort, asleep>> /\ Stopped
  /\ UNCHANGED <<chunks, frontOffset, buffered, running, done, failed, workerVars,
                 callVars, want, got, answer>>

Join ==
  /\ cpc = "join" /\ wpc = "ended"
  /\ wpc' = "none"
  /\ running' = FALSE
  /\ Stopped
  /\ UNCHANGED <<chunks, frontOffset, buffered, done, failed, abort, asleep, length,
                 decoded, n, rc, callVars, want, got, answer>>

\* The two loops of read_at: bytes up to offset are decoded and dropped, then
\* the caller's buffer is filled.
Seek ==
  /\ cpc = "seek"
  /\ IF pos < offset THEN cpc' = "pull" /\ want' = Min({Scratch, offset - pos})
                     ELSE cpc' = "fill" /\ UNCHANGED want
  /\ UNCHANGED <<readerVars, workerVars, callVars, got, answer>>

\* read_at goes on until it has everything.
Unfilled == Len(got) < size

Fill ==
  /\ cpc = "fill"
  /\ IF Unfilled THEN cpc' = "pull" /\ want' = size - Len(got) /\ UNCHANGED answer
                 ELSE Return("ok") /\ UNCHANGED want
  /\ UNCHANGED <<readerVars, workerVars, callVars, got>>

StartKeepsQueue == chunks                                      \* mutant

\* What Start() leaves in the queue.
StartQueue == <<>>

\* Pull without a worker: Start().
Start ==
  /\ cpc = "pull" /\ ~ running
  /\ chunks' = StartQueue /\ frontOffset' = 0 /\ buffered' = 0 /\ pos' = 0
  /\ done' = FALSE /\ failed' = FALSE /\ abort' = FALSE
  /\ running' = TRUE
  /\ wpc' = "decode" /\ decoded' = 0 /\ n' = 0 /\ rc' = 0
  /\ UNCHANGED <<asleep, length, callVars, cpc, want, got, answer>>

EndOfQueue == buffered = 0
PullReadyNow == TRUE                                           \* mutant

\* The wait of Pull is over.
PullReady == buffered > 0 \/ done

\* Pull: bytes are there, or the end of the entry, or a decode error.
Pull ==
  /\ cpc = "pull" /\ running /\ "consumer" \notin asleep
  /\ \/ /\ PullReady /\ EndOfQueue
        /\ Return(IF failed THEN "error" ELSE IF op = "read" THEN "end" ELSE "early")
        /\ UNCHANGED asleep
     \/ /\ PullReady /\ ~ EndOfQueue
        /\ cpc' = "copy"
        /\ UNCHANGED <<asleep, answer>>
     \/ /\ ~ PullReady
        /\ Sleep("consumer")
        /\ UNCHANGED <<cpc, answer>>
  /\ UNCHANGED <<queueVars, workerVars, callVars, want, got>>

\* How much of the front chunk one round of the loop copies.
Take(front) == Min({want, Len(front) - frontOffset})

FrontNotKept(take) == 0                                        \* mutant

\* front_offset after `take` bytes of a chunk that is not used up.
FrontAfter(take) == frontOffset + take

\* One round of the copy loop: bytes of the front chunk go to the caller, or to
\* the scratch buffer while seeking; buffered and pos follow at the loop's end.
Copy ==
  /\ cpc = "copy" /\ want > 0 /\ chunks # <<>>
  /\ LET front == Head(chunks)
         take  == Take(front)
     IN /\ want' = want - take
        /\ got' = IF op = "read_at" /\ pos < offset THEN got
                  ELSE got \o SubSeq(front, frontOffset + 1, frontOffset + take)
        /\ pos' = pos + take
        /\ buffered' = buffered - take
        /\ IF frontOffset + take = Len(front)
             THEN chunks' = Tail(chunks) /\ frontOffset' = 0
             ELSE chunks' = chunks /\ frontOffset' = FrontAfter(take)
  /\ UNCHANGED <<running, done, failed, abort, asleep, workerVars, callVars, cpc, answer>>

NobodyWoken == UNCHANGED asleep                                \* mutant

\* Who hears that there is room again.
Drained == NotifyAll

CopyEnd ==
  /\ cpc = "copy" /\ (want = 0 \/ chunks = <<>>)
  /\ Drained
  /\ IF op = "read" THEN Return("ok") ELSE cpc' = "seek" /\ UNCHANGED answer
  /\ UNCHANGED <<queueVars, workerVars, callVars, want, got>>

Consumer == Stop \/ Join \/ Seek \/ Fill \/ Start \/ Pull \/ Copy \/ CopyEnd

Call == CallRead \/ CallReadAt \/ CallClose

EntryTerminating == cpc = "closed" /\ UNCHANGED entryVars

EntryNext == Worker \/ Consumer \/ Call \/ EntryTerminating

EntrySpec == EntryInit /\ [][EntryNext]_entryVars

\* The worker thread and a call in progress are scheduled, and the decoder
\* returns; nothing forces the consumer to call again.
EntryFairSpec == EntrySpec /\ WF_entryVars(Worker) /\ WF_entryVars(Consumer)

-----------------------------------------------------------------------------
(* Properties. *)

\* Every variable has its type; buffered, a uint64_t, never goes below zero.
EntryTypeOK ==
  /\ pos \in Nat /\ chunks \in Seq(Seq(Nat)) /\ frontOffset \in Nat /\ buffered \in Nat
  /\ running \in BOOLEAN /\ done \in BOOLEAN /\ failed \in BOOLEAN /\ abort \in BOOLEAN
  /\ asleep \subseteq {"worker", "consumer"}
  /\ length \in Lengths /\ wpc \in WorkerPc /\ decoded \in Nat /\ n \in 0..MaxChunk
  /\ rc \in {0, -1, -6}
  /\ cpc \in ConsumerPc /\ op \in Ops /\ offset \in Nat /\ size \in Nat
  /\ want \in Nat /\ got \in Seq(Nat)
  /\ answer \in {"none", "ok", "end", "error", "early", "past"}

\* A call gives the bytes of the entry at its offset, in order, however the
\* decoder cuts them into chunks and however often decoding was restarted
\* (sevenzip_lib.h:247-250).
ReadsExact == op # "close" => got = Bytes(offset, Len(got))

\* read_at gives all or an error; read gives something unless asked for nothing.
ReadsComplete ==
  answer = "ok" => IF op = "read_at" THEN Len(got) = size
                                     ELSE size > 0 => Len(got) \in 1..size

\* What a call gives is right and enough (sevenzip_lib.h:247-250).
ReadsRight == ReadsExact /\ ReadsComplete

\* The end of the entry is reported only where the decoded data ends and
\* without a failure, an error only when the decoder failed by itself: an
\* abort asked for by the reader never shows (sevenzip_lib.cpp:1173-1175,
\* 1199-1208).
EndsAreReal ==
  /\ answer = "end"   => pos = length /\ rc = 0
  /\ answer = "early" => pos = length /\ length < Size /\ rc = 0
  /\ answer = "error" => rc = -1

\* What a call gives and what it reports are those of the entry.
AnswersRight == ReadsRight /\ EndsAreReal

\* The decoder runs ahead of the consumer by less than one chunk over the
\* capacity (sevenzip_lib.cpp:1151-1156).
Bounded == buffered < Capacity + MaxChunk

\* A worker exists exactly while the reader says so; after close there is none
\* that could still use the object (sevenzip_lib.cpp:1180-1191, 1310-1317).
WorkerOwned == (running <=> wpc # "none") /\ (cpc = "closed" => wpc = "none")

\* The worker is neither left behind nor let run away.
WorkerInHand == Bounded /\ WorkerOwned

\* Every call returns, close included, whatever the worker waits for
\* (sevenzip_lib.cpp:1151, 1180-1199).
CallsReturn == cpc \notin {"idle", "closed"} ~> cpc \in {"idle", "closed"}
=============================================================================
