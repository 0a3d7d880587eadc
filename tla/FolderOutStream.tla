-------------------------- MODULE FolderOutStream --------------------------
(***************************************************************************)
(* Extraction from a 7z archive (CPP/7zip/Archive/7z/7zExtract.cpp): how   *)
(* CHandler::Extract walks the folders of the request and how              *)
(* CFolderOutStream cuts the one stream of unpacked bytes of a (solid)     *)
(* folder into files, with the data callbacks OnFileBegin, OnData and      *)
(* OnFileEnd that may ask to stop.                                         *)
(*                                                                         *)
(* The program is sequential; what varies is the archive, the request, how *)
(* the decoder cuts its output into blocks and how it ends, and what every *)
(* callback answers.  Byte p of a folder is the number p.  Directories and *)
(* anti-items, which only change which ask mode they get, are left out,    *)
(* and so is ReportExtractResult, a message.                               *)
(***************************************************************************)
EXTENDS Integers, Sequences, FiniteSets, SequencesExt

CONSTANTS
  Files,          \* _db.Files from 0 up: sequence of [size, crcDefined, folder]
  Requests,       \* sorted sequences of file indices that may be asked for
  MaxBlock,       \* largest block the decoder writes at once
  Stops,          \* whether the data callbacks may ask to stop
  CallbackFaults, \* whether callbacks may fail
  PartialWrites,  \* whether the output stream may take a part of a block
  Coders          \* the kinds of coder that may be the last of a folder

\* What the last coder does when its Write failed or was cut: most return, and
\* Write is not called again; Deflate and Deflate64 flush the rest of their window
\* (~CCoderReleaser), as a filter behind the main coder of a single-threaded mixer
\* does (OutStreamFinish); Lz4, Lz5, Lizard and Brotli take a cut for success.
CoderKinds == {"returns", "flushes", "goesOn"}

FileIndex == 0 .. Len(Files) - 1
NoFolder  == -1

File(f)     == Files[f + 1]
FolderOf(f) == File(f).folder

\* The files of a folder follow each other; an empty file between two folders
\* belongs to none.  Requests are sorted (IArchive.h:339).
ASSUME FolderOutStreamAssumption ==
  /\ Files \in Seq([size : Nat, crcDefined : BOOLEAN, folder : Nat \cup {NoFolder}])
  /\ \A f \in FileIndex : FolderOf(f) = NoFolder => File(f).size = 0
  /\ \A f, h \in FileIndex :
       f < h /\ FolderOf(f) = FolderOf(h) /\ FolderOf(f) # NoFolder =>
         \A g \in f .. h : FolderOf(g) = FolderOf(f)
  /\ \A r \in Requests : /\ r \in Seq(FileIndex)
                         /\ \A j, k \in 1..Len(r) : j < k => r[j] < r[k]
  /\ MaxBlock \in Nat \ {0}
  /\ {Stops, CallbackFaults, PartialWrites} \subseteq BOOLEAN
  /\ Coders \subseteq CoderKinds

FolderStart(g) == CHOOSE f \in FileIndex :
                    FolderOf(f) = g /\ \A h \in FileIndex : FolderOf(h) = g => f <= h

\* Bytes of the files before f.
SizeBefore[f \in 0 .. Len(Files)] ==
  IF f = 0 THEN 0 ELSE SizeBefore[f - 1] + File(f - 1).size

\* Bytes of the files first .. last.
SizeOf(first, last) == SizeBefore[last + 1] - SizeBefore[first]

-----------------------------------------------------------------------------

VARIABLES
  testMode, indices,
  i,          \* how many of indices Extract has come to
  \* the CFolderOutStream
  fileIndex, todo,         \* _fileIndex; the _numFiles indices at _indexes
  fileIsOpen, rem, askMode, badCrc, hasStream,
  stopByDataCallback,
  \* the decoder of the current folder
  folder,
  coder,      \* the kind of its last coder
  limit,      \* bytes it may write: those up to the last file asked for, or more
  folderPos,  \* bytes of the folder before what Write has still to process
  block,      \* bytes of the current block that Write has still to process
  blockBad,   \* the block is not what was packed
  writeRes,   \* result of the inner Write
  firstRes,   \* what Write answered when it failed and was called for the rest
  \* Extract
  pc, flushRes, thrown, result,
  \* history, per file: what the callbacks and output streams saw
  begun, ended, asked, sink, opRes, delivered, written, crcBad,
  misplaced,  \* OnData was told an offset that is not that of the data
  faulted     \* the files whose OnFileBegin or SetOperationResult failed

requestVars == <<testMode, indices, i>>
fileVars    == <<fileIndex, todo, fileIsOpen, rem, askMode, badCrc, hasStream>>
decodeVars  == <<folder, coder, limit, folderPos, block, blockBad>>
extractVars == <<flushRes, thrown, result>>
flow        == <<pc, writeRes, firstRes, extractVars>>
history     == <<begun, ended, asked, sink, opRes, delivered, written, crcBad,
                 misplaced, faulted>>
vars == <<requestVars, fileVars, stopByDataCallback, decodeVars, flow, history>>

Modes   == {"none", "extract", "test", "skip"}
OpRes   == {"none", "ok", "crc", "data", "method", "afterEnd"}
\* "cut" is k_My_HRESULT_WritingWasCut, "false" S_FALSE, "abort" what a callback
\* answered, "fail" any other failure of a coder.
Results == {"none", "ok", "cut", "false", "notimpl", "abort", "fail"}
\* "empty": Write is called with a file open that has no bytes to come.
Pc      == {"next", "init", "decode", "write", "empty", "flush", "done"}

Init ==
  /\ testMode \in BOOLEAN
  /\ indices \in Requests /\ i = 0
  /\ fileIndex = 0 /\ todo = <<>> /\ fileIsOpen = FALSE /\ rem = 0 /\ askMode = "skip"
  /\ badCrc = FALSE /\ hasStream = FALSE
  /\ stopByDataCallback = FALSE
  /\ folder = NoFolder /\ coder = "returns" /\ limit = 0 /\ folderPos = 0 /\ block = 0
  /\ blockBad = FALSE /\ writeRes = "ok" /\ firstRes = "none"
  /\ pc = "next" /\ flushRes = "none" /\ thrown = FALSE /\ result = "none"
  /\ begun = [f \in FileIndex |-> 0] /\ ended = [f \in FileIndex |-> 0]
  /\ asked = [f \in FileIndex |-> "none"] /\ sink = {} /\ opRes = [f \in FileIndex |-> "none"]
  /\ delivered = [f \in FileIndex |-> <<>>] /\ written = [f \in FileIndex |-> <<>>]
  /\ crcBad = [f \in FileIndex |-> FALSE] /\ misplaced = FALSE /\ faulted = {}

Done(r) ==
  pc' = "done" /\ result' = r /\ UNCHANGED <<writeRes, firstRes, flushRes, thrown>>

FlushWith(res) ==
  pc' = "flush" /\ flushRes' = res /\ UNCHANGED <<writeRes, firstRes, thrown, result>>

Add1(c, f) == [c EXCEPT ![f] = @ + 1]

\* What a callback that may fail answers.
Answers == IF CallbackFaults THEN {"ok", "abort"} ELSE {"ok"}

-----------------------------------------------------------------------------
(* Decoder.Decode: the coder mixer takes a cut write for success. *)

\* Decode returned r: what Extract does next.
AfterDecode(r, dataAfterEnd) ==
  LET res == CASE r = "notimpl" -> "method"
               [] r # "false" /\ todo = <<>> /\ dataAfterEnd -> "afterEnd"
               [] OTHER -> "data"
  IN IF stopByDataCallback' THEN FlushWith("ok")
     ELSE IF r \in {"false", "notimpl"} \/ dataAfterEnd THEN FlushWith(res)
     ELSE IF r \notin {"ok", "cut"} THEN Done(r)
     ELSE FlushWith("data")

\* Write is called with what is left of the block.
CallWrite == pc' = IF fileIsOpen' /\ rem' = 0 THEN "empty" ELSE "write"

\* What Decode may return when a Write failed with r: r, or an error of another
\* coder of the folder that counts more (CMixerMT::Code), or one the last coder met
\* before it wrote what it had left (Deflate, BZip2, Rar5).
DecodeResults(r) == {r, "false", "notimpl", "fail"}

\* A coder that takes a cut for success drops the block and decodes the next one.
DropBlock ==
  pc' = "decode" /\ writeRes' = "ok" /\ UNCHANGED <<firstRes, extractVars>>

\* Write failed with r; the coder flushes the rest of the block.  COutBuffer does
\* so, once, when Write took a part of it, a filter in any case.
WriteRest(r) ==
  CallWrite /\ writeRes' = "ok" /\ firstRes' = r /\ UNCHANGED extractVars

TakesCut(r) == coder = "goesOn" /\ r = "cut"

InWrite == pc \in {"write", "empty"}

\* A function of CFolderOutStream failed with r.  In Init and FlushCorrupted that
\* ends Extract; in Write it depends on the coder.
Fail(r) ==
  \/ ~ InWrite /\ Done(r)
  \/ InWrite /\ TakesCut(r) /\ DropBlock
  \/ InWrite /\ coder = "flushes" /\ firstRes = "none" /\ block > 0 /\ WriteRest(r)
  \/ /\ InWrite /\ ~ TakesCut(r)
     /\ LET first == IF firstRes = "none" THEN r ELSE firstRes
        IN \E res \in DecodeResults(first) : AfterDecode(res, FALSE)

-----------------------------------------------------------------------------
(* CFolderOutStream. *)

AskedNext == todo # <<>> /\ Head(todo) = fileIndex

\* A file nobody asked for is skipped; one lost to an error is only tested.
AskMode(corrupted) ==
  IF ~ AskedNext THEN "skip"
  ELSE IF testMode \/ corrupted THEN "test"
  ELSE "extract"

StopAlways(mode) == TRUE                                       \* mutant

\* Only a test can be stopped: no truncated file is left behind.
StopHonoured(mode) == mode = "test"

\* OpenFile: GetStream, OnFileBegin, PrepareOperation.
OpenFile(corrupted) ==
  LET ask == AskMode(corrupted)
      f   == fileIndex
  IN \/ /\ CallbackFaults                                    \* GetStream fails
        /\ UNCHANGED <<requestVars, fileVars, stopByDataCallback, decodeVars, history>>
        /\ Fail("abort")
     \/ \E stream \in IF ask = "extract" THEN BOOLEAN ELSE {FALSE} :
        LET mode == IF ask = "extract" /\ ~ stream THEN "skip" ELSE ask
        IN /\ fileIsOpen' = TRUE /\ rem' = File(f).size
           /\ badCrc' = FALSE /\ hasStream' = stream
           /\ asked' = [asked EXCEPT ![f] = ask]
           /\ sink' = IF stream THEN sink \cup {f} ELSE sink
           /\ UNCHANGED <<requestVars, fileIndex, todo, decodeVars, ended, opRes,
                          delivered, written, crcBad, misplaced>>
           /\ \/ /\ CallbackFaults                           \* OnFileBegin fails
                 /\ faulted' = faulted \cup {f}
                 /\ UNCHANGED <<askMode, stopByDataCallback, begun>>
                 /\ Fail("abort")
              \/ /\ Stops /\ StopHonoured(mode)              \* it asks to stop
                 /\ askMode' = mode
                 /\ begun' = Add1(begun, f)
                 /\ stopByDataCallback' = TRUE
                 /\ UNCHANGED faulted
                 /\ Fail("cut")
              \/ /\ askMode' = mode
                 /\ begun' = Add1(begun, f)
                 /\ UNCHANGED <<stopByDataCallback, faulted>>
                 /\ \/ UNCHANGED flow
                    \/ CallbackFaults /\ Fail("abort")       \* PrepareOperation fails

\* The files still to come once the current one is closed.
TodoAfter == IF AskedNext THEN Tail(todo) ELSE todo

\* CloseFile_and_SetResult: SetOperationResult, OnFileEnd.
CloseFile(res) ==
  LET f == fileIndex
  IN /\ fileIsOpen' = FALSE /\ hasStream' = FALSE
     /\ todo' = TodoAfter
     /\ fileIndex' = fileIndex + 1
     /\ UNCHANGED <<requestVars, rem, askMode, badCrc, stopByDataCallback, decodeVars,
                    begun, asked, sink, delivered, written, misplaced>>
     /\ \/ /\ CallbackFaults                                 \* SetOperationResult fails
           /\ faulted' = faulted \cup {f}
           /\ UNCHANGED <<ended, opRes, crcBad>>
           /\ Fail("abort")
        \/ /\ UNCHANGED faulted
           /\ opRes' = [opRes EXCEPT ![f] = res]
           /\ ended' = Add1(ended, f)
           /\ crcBad' = [crcBad EXCEPT ![f] = badCrc]
           /\ \/ UNCHANGED flow
              \/ CallbackFaults /\ Fail("abort")             \* OnFileEnd fails

NextIsEmpty == todo # <<>> /\ File(fileIndex).size = 0

\* CloseFile: the result of a file whose bytes have all come.
CrcResult == IF badCrc THEN "crc" ELSE "ok"

\* The open file is complete, or empty files follow (ProcessEmptyFiles).
FilesDue == IF fileIsOpen THEN rem = 0 ELSE NextIsEmpty

\* Init and Write close a file that is complete, and open and close the empty
\* files after it.
ProcessFiles ==
  /\ pc \in {"init", "write"} /\ FilesDue
  /\ IF fileIsOpen THEN CloseFile(CrcResult) ELSE OpenFile(FALSE)

\* Write: a block goes on after the last file asked for.
WriteBeyond ==
  /\ pc = "write" /\ ~ FilesDue /\ writeRes = "ok" /\ block > 0
  /\ ~ fileIsOpen /\ todo = <<>>
  /\ UNCHANGED <<requestVars, fileVars, stopByDataCallback, decodeVars, history>>
  /\ Fail("cut")

\* Write: a block goes on in the next file.
WriteOpen ==
  /\ pc = "write" /\ ~ FilesDue /\ writeRes = "ok" /\ block > 0
  /\ ~ fileIsOpen /\ todo # <<>>
  /\ OpenFile(FALSE)

CurOverflows == block                                          \* mutant

\* How much of the block the open file takes.
Cur == Min({block, rem})

Positions(first, count) == [j \in 1..count |-> first + j - 1]

\* OnData is told of the bytes of the open file.
Wanted == askMode # "skip"

OffsetOfBlock == 0                                             \* mutant

\* offsetInFile.
OffsetInFile == File(fileIndex).size - rem

\* Where the bytes of file f begin in its folder.
First(f) == SizeOf(FolderStart(FolderOf(f)), f - 1)

\* Write: OnData is told of cur bytes, then the output stream takes taken of
\* them: all, unless the stream takes only a part or fails.  A file without bytes
\* to come takes none, and the Write that ends there is called again or counts as
\* failed.  (That a block is cut at 1 MB when there is a CRC is left out: the
\* decoder may cut it, too.)
WriteData ==
  /\ \/ pc = "empty"
     \/ pc = "write" /\ ~ FilesDue /\ writeRes = "ok" /\ block > 0 /\ fileIsOpen
  /\ UNCHANGED <<requestVars, fileIndex, todo, fileIsOpen, askMode, hasStream, folder, coder,
                 limit, blockBad, begun, ended, asked, sink, opRes, crcBad, faulted>>
  /\ LET f   == fileIndex
         cur == Cur
         tell == /\ delivered' = IF Wanted
                                   THEN [delivered EXCEPT ![f] = @ \o Positions(folderPos, cur)]
                                   ELSE delivered
                 /\ misplaced' = (misplaced \/ (Wanted /\ folderPos # First(f) + OffsetInFile))
     IN \/ /\ Wanted /\ CallbackFaults                       \* OnData fails
           /\ UNCHANGED <<rem, badCrc, stopByDataCallback, folderPos, block, delivered,
                          misplaced, written>>
           /\ Fail("abort")
        \/ /\ Wanted /\ Stops /\ StopHonoured(askMode)       \* OnData asks to stop
           /\ tell
           /\ stopByDataCallback' = TRUE
           /\ UNCHANGED <<rem, badCrc, folderPos, block, written>>
           /\ Fail("cut")
        \/ \E res \in {"ok", "abort", "fail"}, taken \in 0..cur :
             /\ res = "abort" => hasStream /\ CallbackFaults
             /\ res = "fail" => pc = "empty"
             /\ taken < cur => hasStream /\ (res = "abort" \/ (PartialWrites /\ taken > 0))
             /\ tell
             /\ written' = IF hasStream
                             THEN [written EXCEPT ![f] = @ \o Positions(folderPos, taken)]
                             ELSE written
             /\ badCrc' = (badCrc \/ (blockBad /\ File(f).crcDefined))
             /\ block' = block - taken
             /\ rem' = rem - taken
             /\ folderPos' = folderPos + taken
             /\ writeRes' = res
             /\ pc' = "write"
             /\ UNCHANGED <<stopByDataCallback, firstRes, extractVars>>

\* Write returns to the decoder: the block is done, or the output stream failed.
WriteReturn ==
  /\ pc = "write" /\ ~ FilesDue
  /\ \/ /\ writeRes # "ok"
        /\ UNCHANGED <<requestVars, fileVars, stopByDataCallback, decodeVars, history>>
        /\ Fail(writeRes)
     \/ /\ writeRes = "ok" /\ block = 0
        /\ pc' = "decode"
        /\ UNCHANGED <<requestVars, fileVars, stopByDataCallback, decodeVars, writeRes,
                       firstRes, extractVars, history>>

\* FlushCorrupted: the files still to come get flushRes.
Flush ==
  /\ pc = "flush" /\ todo # <<>>
  /\ IF fileIsOpen THEN CloseFile(flushRes) ELSE OpenFile(TRUE)

-----------------------------------------------------------------------------
(* CHandler::Extract. *)

LoopGoesOn == TRUE                                             \* mutant

\* After a stop the loop over the folders ends.
LoopGoesOnAfterFlush == ~ stopByDataCallback

FlushEnd ==
  /\ pc = "flush" /\ todo = <<>>
  /\ IF thrown THEN Done("fail")
     ELSE IF LoopGoesOnAfterFlush
       THEN pc' = "next" /\ UNCHANGED <<writeRes, firstRes, extractVars>>
     ELSE Done("ok")
  /\ UNCHANGED <<requestVars, fileVars, stopByDataCallback, decodeVars, history>>

OneByOne(left) == 1                                            \* mutant

\* How many of the files left, from the first on, one decoding of its folder
\* gives: k - i.
NumSolidFiles(left) ==
  IF FolderOf(Head(left)) = NoFolder THEN 1
  ELSE CHOOSE k \in 1..Len(left) :
         /\ \A j \in 1..k : FolderOf(left[j]) = FolderOf(Head(left))
         /\ k < Len(left) => FolderOf(left[k + 1]) # FolderOf(Head(left))

NextFolder ==
  /\ pc = "next" /\ i < Len(indices)
  /\ LET left  == SubSeq(indices, i + 1, Len(indices))
         g     == FolderOf(Head(left))
         k     == NumSolidFiles(left)
         first == IF g = NoFolder THEN Head(left) ELSE FolderStart(g)
     IN /\ folder' = g
        /\ coder' \in IF g = NoFolder THEN {"returns"} ELSE Coders
        /\ fileIndex' = first
        /\ todo' = SubSeq(left, 1, k)
        /\ i' = i + k
        /\ limit' = SizeOf(first, left[k])
  /\ fileIsOpen' = FALSE /\ askMode' = "skip" /\ stopByDataCallback' = FALSE
  /\ rem' = 0 /\ badCrc' = FALSE /\ hasStream' = FALSE
  /\ folderPos' = 0 /\ block' = 0 /\ blockBad' = FALSE
  /\ pc' = "init" /\ writeRes' = "ok" /\ firstRes' = "none"
  /\ UNCHANGED <<testMode, indices, extractVars, history>>

\* progress cancels, or nothing is left
ExtractEnd ==
  /\ pc = "next"
  /\ \/ i = Len(indices) /\ Done("ok")
     \/ CallbackFaults /\ Done("abort")
  /\ UNCHANGED <<requestVars, fileVars, stopByDataCallback, decodeVars, history>>

\* Init is done: nothing more to do, or the folder has to be decoded.
InitEnd ==
  /\ pc = "init" /\ ~ FilesDue
  /\ IF todo # <<>> /\ folder = NoFolder THEN Done("fail")
     ELSE /\ pc' = IF todo = <<>> THEN "next" ELSE "decode"
          /\ UNCHANGED <<writeRes, firstRes, extractVars>>
  /\ UNCHANGED <<requestVars, fileVars, stopByDataCallback, decodeVars, history>>

\* The last coder writes its next block.  Some do not stop at the limit; after a
\* flush, a filter may have its last bytes still to write.
DecodeBlock ==
  /\ pc = "decode"
  /\ \E k \in 1..MaxBlock, bad \in BOOLEAN :
       /\ folderPos + block + k <= limit + 1
       /\ block' = k /\ blockBad' = bad
  /\ folderPos' = folderPos + block
  /\ UNCHANGED <<requestVars, fileVars, stopByDataCallback, folder, coder, limit, writeRes,
                 firstRes, extractVars, history>>
  /\ CallWrite

\* The decoder returns: success (perhaps too early), a data error, an unsupported
\* method, data after the end, a failure, an exception; after a flush, why it
\* flushed.
DecodeEnd ==
  /\ pc = "decode"
  /\ UNCHANGED <<requestVars, fileVars, stopByDataCallback, decodeVars, history>>
  /\ \/ firstRes # "none" /\ \E res \in DecodeResults(firstRes) : AfterDecode(res, FALSE)
     \/ firstRes = "none" /\ \E res \in DecodeResults("ok") : AfterDecode(res, FALSE)
     \/ firstRes = "none" /\ AfterDecode("ok", TRUE)
     \/ /\ firstRes = "none"
        /\ pc' = "flush" /\ flushRes' = "data" /\ thrown' = TRUE
        /\ UNCHANGED <<writeRes, firstRes, result>>

Terminating == pc = "done" /\ UNCHANGED vars

Next == \/ ProcessFiles \/ WriteBeyond \/ WriteOpen \/ WriteData \/ WriteReturn \/ Flush
        \/ FlushEnd \/ NextFolder \/ ExtractEnd \/ InitEnd \/ DecodeBlock \/ DecodeEnd
        \/ Terminating

Spec == Init /\ [][Next]_vars

-----------------------------------------------------------------------------
(* Properties. *)

\* Every variable has its type.
TypeOK ==
  /\ testMode \in BOOLEAN /\ indices \in Requests /\ i \in 0 .. Len(indices)
  /\ fileIndex \in 0 .. Len(Files) /\ todo \in Seq(FileIndex)
  /\ fileIsOpen \in BOOLEAN /\ rem \in Nat /\ askMode \in Modes /\ badCrc \in BOOLEAN
  /\ hasStream \in BOOLEAN /\ stopByDataCallback \in BOOLEAN
  /\ folder \in Nat \cup {NoFolder} /\ coder \in CoderKinds /\ limit \in Nat
  /\ folderPos \in Nat /\ block \in 0..MaxBlock /\ blockBad \in BOOLEAN
  /\ writeRes \in Results /\ firstRes \in Results
  /\ pc \in Pc /\ flushRes \in OpRes /\ thrown \in BOOLEAN /\ result \in Results
  /\ begun \in [FileIndex -> Nat] /\ ended \in [FileIndex -> Nat]
  /\ asked \in [FileIndex -> Modes] /\ sink \subseteq FileIndex
  /\ opRes \in [FileIndex -> OpRes] /\ crcBad \in [FileIndex -> BOOLEAN]
  /\ misplaced \in BOOLEAN /\ faulted \subseteq FileIndex
  /\ delivered \in [FileIndex -> Seq(Nat)] /\ written \in [FileIndex -> Seq(Nat)]

\* The bytes of the folder that are file f's.
BytesOf(f) ==
  IF FolderOf(f) = NoFolder THEN <<>>
  ELSE Positions(First(f), File(f).size)

AskedFor(f) == \E j \in 1..Len(indices) : indices[j] = f

\* A consumer that opens a hash in OnFileBegin and closes it in OnFileEnd never
\* has two open, never opens or closes one twice, and has closed all of them when
\* Extract succeeds (docs/stream-hash-callback.md:48-54; 7zExtract.cpp:112-151,
\* 239-253), whatever coder writes the files.  A file whose own OnFileBegin or
\* SetOperationResult failed may miss the other half; no other file does.
Bracketed ==
  /\ \A f \in FileIndex : begun[f] <= 1 /\ ended[f] <= 1
  /\ \A f \in FileIndex \ faulted :
       /\ ended[f] <= begun[f]
       /\ begun[f] > ended[f] => (fileIsOpen /\ f = fileIndex) \/ pc = "done"
       /\ result = "ok" => begun[f] = ended[f]

\* When Extract succeeds and nobody stopped it, every file asked for has got its
\* result, whatever the decoders of the folders did; no other file was extracted
\* or tested (7zExtract.cpp:239-253, 354-491).
AllReported ==
  /\ \A f \in FileIndex : ~ AskedFor(f) => asked[f] \in {"none", "skip"}
  /\ result = "ok" /\ ~ stopByDataCallback =>
       \A f \in FileIndex \ faulted : AskedFor(f) => ended[f] = 1 /\ opRes[f] # "none"

\* Every file asked for has its begin, its end and its result, and no other.
Reported == Bracketed /\ AllReported

\* The bytes of a file, and no others, reach its output stream, in order, however
\* the decoder and the stream cut them (7zExtract.cpp:176-218).
WrittenInPlace ==
  \A f \in FileIndex : IsPrefix(written[f], BytesOf(f))

\* kOK is never reported for a file on disk that is truncated or whose CRC is
\* wrong, stop or no stop; nor, without a stop, for a file that was tested, unless
\* its own OnFileBegin failed (7zExtract.cpp:153-159, 199-212, 445-483).
OkIsComplete ==
  \A f \in FileIndex :
    opRes[f] = "ok" =>
      /\ f \in sink => written[f] = BytesOf(f) /\ ~ crcBad[f]
      /\ asked[f] = "test" /\ ~ stopByDataCallback /\ f \notin faulted =>
           delivered[f] = BytesOf(f) /\ ~ crcBad[f]

\* A stop that was honoured is never forgotten: no other folder is begun, no file
\* gets an output stream, and not a byte is written any more, although Write may be
\* called again by a coder that flushes or goes on; by any other coder nothing more
\* is delivered or decoded, either (7zExtract.cpp:116-121, 192-196, 445-449).
StopIsFinal ==
  [][stopByDataCallback =>
       /\ stopByDataCallback' /\ pc' \notin {"next", "init"}
       /\ UNCHANGED <<i, folder, sink, written>>
       /\ coder = "returns" => UNCHANGED delivered /\ pc' \in {"flush", "done"}]_vars

\* docs/stream-hash-callback.md:41: the offset OnData is told is that of the data
\* in the file it is told of.  Only a coder that takes the cut for success shows
\* data elsewhere, after a stop.
OffsetsTrue == misplaced => stopByDataCallback /\ coder = "goesOn"

\* The output stream and OnData get the bytes of a file where they belong.
DataInPlace == WrittenInPlace /\ OffsetsTrue

\* docs/stream-hash-callback.md:62: when a stop is honoured, extraction returns
\* the success path.
StopIsSuccess == pc = "done" /\ stopByDataCallback => result = "ok"

\* docs/stream-hash-callback.md:39,52: each unpacked chunk goes to OnData of its
\* file, whose hash is fed with every chunk: no byte is shown twice.
DeliveredOnce ==
  \A f \in FileIndex : IsPrefix(delivered[f], BytesOf(f))
=============================================================================
