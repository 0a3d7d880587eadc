# A verification project for 7-Zip zstd

TLA+ models of the parts of this 7-Zip fork whose correctness depends on the order in
which things happen: the multi-thread coders and decoders, the match finder's threads, the
thread behind the library's entry reader, the multi-thread update of zip archives, and the
extraction of solid folders with its data callbacks. TLC checks the
models on small instances; TLAPS proves the most important statements for every value
of the constants. Paths below are relative to `src/`.

Contents: 1 the system, 2 the modules and how they correspond to the code, 3 what is
checked, 4 fairness, 5 what is proved, 6 what the checks found, 7 what is not modelled,
8 the plan.

## 1. The system

7-Zip is an archiver built in layers. A user interface (or the C library API in
`user/sevenzip_lib.*`, new in this fork) opens a format *handler* (`CPP/7zip/Archive`),
which reads or writes the archive's headers and runs *coders* (`CPP/7zip/Compress`, over
`C/`) between streams. Streams are COM-like interfaces (`ISequentialInStream::Read`,
`ISequentialOutStream::Write`), and results are `HRESULT`s or `SRes` codes passed up by
early return. Concurrency lies at the bottom (block-parallel coders), in the middle (one
thread per coder of a multi-coder folder) and at the top (the library's reader thread,
the zip updater's threads).

| Component | State it keeps | Operations | Interacts with | Hard behaviour | What makes it correct |
|---|---|---|---|---|---|
| **Block coder** `C/MtCoder.c` | ring of blocks, free list of output buffers, tokens for reading and writing, sticky errors, threads kept between calls | `MtCoder_Code`, `ThreadFunc`, callbacks `Code` and `Write`, `MtCoder_Free` | LZMA2 and xz encoders (callbacks), input and output streams, events, a semaphore, a critical section | threads passing tokens; errors that must not block the others; reuse of the object | one reader, one writer, no buffer or slot with two users, output in order, success only for everything, every call returns |
| **Entry reader** `user/sevenzip_lib.cpp` | queue of chunks, position, `running`/`done`/`failed`/`abort` | `open`, `read`, `read_at`, `close`; worker's `OnData` | extraction of one entry as producer; the application as consumer; one mutex, one condition variable | abort racing with the decoder's end; restarts on the same queue; one condition variable for two conditions | exact bytes at every offset, real ends and errors, bounded queue, every call returns, no thread left after close |
| **7z extraction** `CPP/7zip/Archive/7z/7zExtract.cpp` | current file of the folder, remaining bytes, ask mode, stop flag | `CHandler::Extract`; `CFolderOutStream::Init/Write/FlushCorrupted` | coder mixer (calls `Write`), extract callbacks, output streams, data callbacks `OnFileBegin/OnData/OnFileEnd` | one stream cut into files; empty files; every way a decoder ends; failing callbacks; stops | begin/end bracketing, every requested file gets its result once, `kOK` only for whole files, a stop is not forgotten |
| **lz4/lz5/lizard mt compression** `C/zstdmt/*-mt_compress.c` | free and done lists, frame counters | `*MT_compressCCtx`, `pt_compress`, `pt_write` | `fn_read`, `fn_write`, codec; two mutexes | whoever completes the frame that is due writes for everybody; partial failure | output is a beginning of the input in order, success only for all of it, nothing written after a failed write |
| mt decompression `C/zstdmt/*-mt_decompress.c` | the same lists, header state | `*MT_decompressDCtx`, `pt_decompress` | as above | frame headers read under the mutex; single-thread fallback | as above |
| Block decoder `C/MtDec.c` | ring of threads, recycled buffers, interrupt and overrun state | `MtDec_Code`, `MtDec_ThreadFunc2` | LZMA2 and xz decoders | rights to read and write go round; mispredicted block ends give data back | in order, no byte lost at an interruption, no deadlock |
| Stream binder, coder mixer `CPP/7zip/Common/StreamBinder.cpp`, `CPP/7zip/Archive/Common/CoderMixer2.cpp` | buffer pointer, events, one thread per coder | `Read`, `Write`, `CloseRead_CallOnce`, `CloseWrite`; `Code` | coders on both ends | either side closes early | every byte once; a closed reader stops the writer; no deadlock |
| Match finder `C/LzFindMt.c` | hash and tree threads, block counters | `GetNextBlock`, `StopWriting`, `Init`, `Release` | LZMA encoder | stop and restart between files; position overflow | the consumer sees blocks in order; stop leaves both threads idle |
| Memory blocks, zip update `CPP/7zip/Common/MemBlocks.cpp`, `OutMemStream.cpp`, `CPP/7zip/Archive/Zip/ZipUpdate.cpp` | block pool and its semaphore; per-file memory stream or direct output | `AllocBlock`/`FreeBlock`, `SetRealStreamMode`, `WriteToRealStream` | several encoder threads, one output | the pool runs out while the first file still needs blocks | no deadlock, output in file order |
| Resumable decoders `C/XzDec.c`, `C/Lzma2Dec.c`, `C/Bcj2.c` | parser state between calls | `*_Code`, `*_DecodeToBuf` | any cut of the input | piecewise input | same result for every cut |
| Update logic `CPP/7zip/UI/Common/Update*.cpp` | pairs of disk and archive items, action table | `GetUpdatePairInfoList`, `UpdateProduce` | command line, handlers | equal names, times, case | every item has one action |
| Stream helpers `CPP/7zip/Common/` | positions, buffers, volumes | `Read`, `Write`, `Seek` | everything | boundaries of volumes and limits | position arithmetic |
| Synchronisation `C/Threads.c`, `CPP/Windows/Synchronization.*` | events, semaphores | wait, set, release | all of the above | wrapper over Win32/pthread | taken as given |
| Other handlers, codecs, hashes, UI, plug-ins, installers | | | | data-heavy or I/O | out of scope (section 7) |

`PROJECT.json` lists the components with their status, every mapped definition with its
lines, and the hazards: the places where the code can go wrong in a way a unit test
would hardly reach, with the properties aimed at each.

## 2. The modules

### `BlockPipeline`: what a block-parallel coder promises

The abstract specification shared by the coders. Its state is the input size `total`,
the blocks written so far `out`, whether anything `failed`, and `status`. While nothing
failed only the next block can be written (`Emit`); after a failure blocks may be skipped
but the output never goes back (`EmitLate`); success is reported exactly for the whole
input without a failure (`Succeed`), an error only for a failure (`GiveUp`); then the
coder may be used again (`Again`).

### `MtCoder`: `C/MtCoder.c`

One action per stretch of the code between two points where another thread can see a
difference; the names of variables are those of the struct and of the function's locals.

| Code | Model |
|---|---|
| `MtCoder_Code` (445-600) | `Prologue`, `StartFirst`, `ReturnNoThread`, `OpenReading`, `WaitFinished`, `Collect`, `Free` by `main` |
| the caller using the object again | `NewInput` (with `EarlyReuse`, also before the threads of the last call came to rest, `AtRest`) |
| `ThreadFunc` (331-358) | `WaitStart`, `CountFinished`, `SignalFinished`: the atomic increment (350) and the comparison (351) are separate |
| `ThreadFunc2` (101-328) | `TakeRead`, `Read`, `TakeSlot`, `Check`, `StartNext`, `HandRead`, `TakeBuf`, `Code`, `Store`, `Publish`, `Write`, `Release`, `Post` |
| auto-reset events, `blocksSemaphore`, `cs` | Booleans, a counter, one action per critical section |
| `freeBlockHead`/`freeBlockList` | the sequence `freeBlocks`, used as a stack |
| the index stored in `writeIndex`, `(UInt32)(Int32)-1` | `None` |

A block of data is its number in the input. The callbacks fill a buffer with that number
(`bufData`) and append it to `out`, so a buffer mixed up between threads shows as a wrong
number. `Faults` selects what may fail: reading, coding, writing, creating a thread.
`expectedDataSize` is unknown, exact, or reached one block early (`Hints`). Only an input
of at least one (perhaps empty) block exists, as the first thread always has one to
read. The build modelled is the one without `MTCODER_USE_WRITE_THREAD`. `MaxInput` bounds
an input and the one after it together. `EarlyReuse` is the finding of section 6: the code
lets the caller come back while a thread of its last call still stands between its counter
and its comparison; without it the second call begins when all threads wait.

`Pipeline` maps it to `BlockPipeline`: `failed` is the shared error of `mtProgress` while
a call runs, or an error already returned.

### `EntryReader`: `SevenZipEntryReader` (`user/sevenzip_lib.cpp:1129-1317`)

Two threads. The worker: `Decode` (the extraction, external to the class, hands out a
chunk of any size, ends, or fails), `OnData`, `WorkerEnd`. The consumer: `CallRead`,
`CallReadAt`, `CallClose`, then by `cpc` `Stop`, `Join`, `Seek`, `Fill` (the two loops of
`read_at`), `Start`, `Pull`, `Copy`, `CopyEnd`. The mutex is held for a whole action; the
copy loop of `Pull`, which holds it over several rounds, is one action per round with the
worker kept out (`Locked`). The condition variable is a set of sleepers `asleep`: a
thread that finds its condition false sleeps until a `notify_all`; without this a lost
wake-up could not show. The byte at offset `o` of the entry is the number `o`. An entry
may decode to fewer or more bytes than its header says (`Lengths`).

### `FolderOutStream`: `CPP/7zip/Archive/7z/7zExtract.cpp`

Sequential. `NextFolder`, `InitEnd`, `DecodeBlock`, `DecodeEnd`, `FlushEnd`, `ExtractEnd`
are `CHandler::Extract`; `ProcessFiles`, `WriteBeyond`, `WriteOpen`, `WriteData`,
`WriteReturn`, `Flush` are `CFolderOutStream::Init`, `Write` and `FlushCorrupted`, with
`OpenFile` and `CloseFile` inside them (each makes all of its callbacks in one action,
each of which may fail or ask to stop). An early return is `Fail(r)`: elsewhere than in
`Write` it ends `Extract`; in `Write` it depends on the last coder of the folder (`coder`,
chosen from `Coders` for every folder). What varies: the
archive and the request, how the decoder cuts its output into blocks, whether a block is
corrupt, how the decoder ends (success, too early, data error, unsupported, data after
the end, failure, exception), the answer of each callback, and how much of a block the
output stream takes. History variables record
what the callbacks and the output streams saw. Byte `p` of a folder is the number `p`.

What a coder does when its `Write` failed or was cut:

- `returns`: LZMA, LZMA2, PPMd, Zstd, Copy, BCJ2 and, with the multi-thread mixer, the
  filters do not call `Write` again.
- `flushes`: with Deflate and Deflate64 `COutBuffer` throws, and on the way out
  `~CCoderReleaser` flushes what is left of the window (`DeflateDecoder.h:99-110`,
  `OutBuffer.cpp:49-100`): if `Write` took a part of the block it is called once more with
  the rest (`WriteRest`; `firstRes` keeps the first answer, which is what `Decode` returns). A filter
  behind the main coder of a single-thread mixer does so in any case, in
  `CFilterCoder::OutStreamFinish` (`FilterCoder.cpp:295-400`). The model lets it happen or not.
- `goesOn`: Lz4, Lz5, Lizard and Brotli take `k_My_HRESULT_WritingWasCut` for success, drop the
  block and decode the next (`DropBlock`, `Lz4Decoder.cpp:51`); any other failure ends them.

`Decode` may then return that failure or another one (`DecodeResults`): the error of another coder
can outrank it (`CoderMixer2.cpp:1107-1130`), and Deflate, BZip2 and Rar5 drop the failure of
the `Write` they call for what is left after an error of their own
(`BZip2Decoder.cpp:1305-1323`). A `Write` called for the rest may find a file open that has no
bytes to come, since `OnFileEnd` or the callback before it failed: `pc = "empty"`.

### `Lz4MtCompress`: `C/zstdmt/lz4-mt_compress.c`

`Start`, `Alloc`, `Read`, `Compress`, `Release` are `pt_compress`; `Queue` and `Write` are
`pt_write`, one step per frame written, with `write_mutex` held in between (`writer`);
`Join`, `Finish` and `Call` are `LZ4MT_compressCCtx` and the encoder that calls it again
with the context it keeps. An entry of the write list is counted while free and is the
number of its frame while done. Frame numbers run on from call to call (`frames` and
`curframe` are never reset), and the model keeps that: `base` is where a call began.
The encoder is not called again for an empty input: a 7z archive stores empty files without
a coder, and the other users of the encoder make one per input. `Pipeline` maps it to `BlockPipeline`; an empty input counts as one
block, since it has one frame.

### `CoderMixer` and `ByteChannel`: `CoderMixer2.cpp`, `StreamBinder.*`, `VirtThread.cpp`

`CoderMixer` composes three parts: the binder between coder `c` and coder `c + 1`
(`Read`, `ReadWait`, `ReadCopy`, `ReadRelease`; `Write`, `WriteWait`, `WriteDone`,
`WriteCut`), the thread and stream handling around each coder (`ThreadStart`, `EndCode`,
`CloseIn`, `CloseOut`, `Finish`), and `CMixerMT` (`Call`, `StartThread`, `RunMain`,
`WaitCoder`, `Return`). A coder is external to these files and does what it likes: it reads
and writes pieces of any size, ends before its input does, ends with an error, returns
success after a write was cut. The lock of the semaphore and the read of `_bufSize` that
follows are separate steps, and so are emptying the buffer and releasing the semaphore,
because a close may come in between. A release beyond the semaphore's maximum changes
nothing, as in `Semaphore_ReleaseN`; its result is not looked at in the code.

`ByteChannel` is what the pipes promise: bytes move in order, the writer learns how
many were taken before it goes on or closes, the end and the cut are seen only after
the other side closed, and the pipes are opened again only when both ends of all are closed.

### `MtDec`, `Lzma2Stream` and `StreamDecoder`: `C/MtDec.c`, `C/Lzma2DecMt.c`

The multi-thread decoder together with its LZMA2 user: the callbacks `Parse`, `PreCode`,
`Code` and `Write`, the single-thread decoder that takes over, and
`NCompress::NLzma2::CDecoder::Code`, whose result is the one a handler sees.

| Code | Model |
|---|---|
| `MtDec_ThreadFunc2`, the part with the right to read | `TakeRead`, `TakeCross`, `ReadStream`, `ParseLink`, `HandRead` |
| decoding a block, in parallel | `Code` |
| the part with the right to write, and what the last writer decides | `TakeWrite`, `Write` |
| `MtDec_Code`, `Lzma2DecMt_Decode_MT`, `Lzma2DecMt_Decode_ST`, `CDecoder::Code` | `Start`, `Return`, `ReadFilled`, `ReadCross`, `ReadNext`, `Finish`, `NextCall` by `main` |

A stream is a sequence of units (`Lzma2Stream`): `head` a chunk that resets the dictionary,
`body` another chunk, `bad` one that does not decode, `end` the end mark, `alien` a byte that
is no control byte. `Parse` cuts units into blocks and `Decode` decodes a piece, both as
pure operators; what one thread makes of the whole stream (`Ideal`, `Verdict`) is the
reference. What a thread read beyond its block goes to the next one through the cross
block; when memory, a thread or a block that is too large stops the ring, the input the
threads still hold, then the cross block, then the stream are given to one thread.

`StreamDecoder` is the promise: the output is always a beginning of `Ideal`; success is
reported only for all of it, unless the caller wanted a part and the stream is bad; an
error only when the stream is not good or something outside failed. Of a stream that lacks
only its end mark it leaves the result open (section 6).

### `LzFindMt` and `MatchFeed`: `C/LzFindMt.c` over `C/LzFind.c`

Three threads, two `CMtSync` and one buffer.

| Code | Model |
|---|---|
| `HashThreadFunc` | `HashStart`, `EnterBt` (the lock of the tree's critical section before a move), `Move`, `FillHash` |
| `BtThreadFunc`, `BtFillBlock`, `BtGetMatches` | `BtStart`, `BeginBlock`, `LockBlock`, `AskHash`, `TakeHash`, `LockHash`, `Process`, `EndBlock`, `BtStop`, `HashStopped` |
| the encoder in `MtSync_GetNextBlock`, `MatchFinderMt_*`, `MtSync_StopWriting`, `MtSync_Create`, `MtSync_Destruct` | `Create`, `InitFile`, `AskBlock`, `TakeBlock`, `LockBt`, `Advance`, `EndOfStream`, `ReleaseStream`, `Stopped`, `Destruct`, `JoinBt`, `JoinHash` |

The semaphores of free and filled blocks are counters, the critical section of each
`CMtSync` is a field with its owner, and so are its flags and events; a block holds
the positions it is for, and its contents are erased when it is given back, so that use
after release would show. Positions, the buffer's lowest and highest byte and the
pointers of the tree and encoder are numbers; the move subtracts from all of them.

`MatchFeed` is the promise to the encoder: it goes through the stream position by position;
the number of bytes said to be available never goes back or beyond the stream, and is zero
only at its end or after a failure; a failure is known when the encoder finishes.

### `ZipUpdate`: `CPP/7zip/Archive/Zip/ZipUpdate.cpp` over `OutMemStream.cpp`, `MemBlocks.cpp`

The main thread hands files to threads ahead of time and writes the archive in the order of
the items. The thread of the item that is due, the front, may write to the archive itself from
where it needs one block more; the others collect in blocks of one pool and wait when it is
empty.

| Code | Model |
|---|---|
| `Update2`, the multi-thread part (1224-1596), starting threads | `PassOver`, `CannotStart`, `StartFile` |
| the item that is due | `SkipItem`, `CopyOld` (`UpdateItemOldData`, `WriteDirHeader`), `CopyFinished`, `OpenFront` |
| `mtSem.Semaphore.Lock`, `GetFreeItem` and what becomes of the item | `Collect` with `FrontDone` and `OtherDone` |
| the end, `~CThreads`, `FinalFlush` | `WriteCentralDir`, `StopThread`, `JoinThread` by `main` |
| `CThreadInfo::WaitAndCode`, `CAddCommon::Compress` with its passes | `Begin`, `PassEnds`, `NextPass`, `CodeFails`, `ReleaseItem`, `Post` |
| `COutMemStream::Write` and its wait for three objects, in their order | `WriteBlock`, `WriteReal`, `WaitStop`, `WaitReal`, `WaitBlock`, `AllocateBlock` |
| the blocks of a stream or a finished item, the free list, the two semaphores | numbers of blocks; the list and the semaphore beside it change in separate steps when a block is taken |

The archive is a sequence of units: headers, units of data that name their file, pass and place,
descriptors. So a unit of another file, of an earlier pass or in a wrong place shows.
A coder writes any of `Sizes` units in a pass; each write, reading a file, the coder and the final
flush may fail. That all later writes fail, too (`hres`), is `CCacheOutStream`'s
`_hres`; the rest of that class is not modelled. A file read sequentially is one with
ZipCrypto, which needs a descriptor then; other sequential files differ from it by their header only.

### Modules for checking and proving

`MCMtCoder`, `MCEntryReader`, `MCFolderOutStream`, `MCLz4MtCompress`, `MCCoderMixer`, `MCMtDec`,
`MCLzFindMt`, `MCZipUpdate` define the values of constants that a configuration cannot write.
`MtCoder_proof`, `Lz4MtCompress_proof`, `CoderMixer_proof`, `LzFindMt_proof` and
`ZipUpdate_proof` hold the theorems about their modules, `MtDec_proof` and, further,
`MtDecContent_proof` those about `MtDec`, and `Extraction_proof` those about `FolderOutStream`
and `EntryReader`, the two sides of an extraction. It sees the definitions of both, so the
specification of `EntryReader` is `EntrySpec`, with `EntryInit`, `EntryNext`, `EntryTypeOK`;
its `answer` and the `folderPos` of `FolderOutStream` are the result of a call and a position
in a folder.

## 3. What is checked

Every property names the code it is about in the comment above it. A definition marked
`mutant` is a plausible bug in the definition below it (a dropped guard, a missing reset,
a swapped order); for each property one of them breaks it, so none holds by the shape of
the model.

| Run | Instance | Distinct states | What it shows |
|---|---|---|---|
| `mtcoder_two_threads` | 2 threads, 3 slots, 2 calls with 4 blocks together, all faults, fair | 336,872 | types; one reader, one writer; no buffer or slot with two users and a buffer for who needs one; no straggler when the caller is woken; nothing of the first call leaks into the second; a true result and the refinement of `BlockPipeline`; every call returns |
| `mtcoder_reuse` | 2 threads, 2 calls, no faults, the caller back early | | a violation, section 6 |
| `entry_reader` | size 4, decoded length 3, 4 or 5, chunks up to 2, capacity 2, scratch 2, reads up to 3, faults, fair | 38,056 | bytes, ends and errors are right over any sequence of calls; the queue is bounded; every call returns |
| `extract_faults` | archive below, 5 requests, blocks up to 3, 3 kinds of coder, stops, failing callbacks, partial writes | 714,776 | bracketing, results, data and stops, with all three kinds of coder |
| `extract_partial_writes`, `extract_stop_result` | the same archive | | violations, section 6 |
| `lz4_mt_compress` | 3 threads, 0 to 3 blocks, 2 calls, all faults, fair | 972,070 | order, completeness, nothing after a failed write, the refinement, every call returns |
| `coder_mixer` | 3 coders, the main one in the middle, 2 bytes per binder in pieces of up to 2, 2 folders, a failing coder, fair | 493,466 | bytes between coders in order, no unlock lost, errors reported, all threads idle at the return, the refinement of `ByteChannel`, every call returns |
| `mtdec` | 3 threads, 8 streams, input buffers of 2 units, blocks of up to 2, one failure of any kind per call, 2 calls, fair | 153,069 | rights go round one at a time; nothing held by a thread is lost or reordered at the take-over; the refinement of `StreamDecoder`; every call returns |
| `mtdec_finish` | the same, one call | | a violation, section 6 |
| `lzfindmt` | hash blocks of 4, match blocks of 9, rings of 2, streams of 0 and 38 bytes, any number of files, stops, all faults, fair | 1,752,689 | data are locked while used; blocks are accounted for; pointers agree; a stop leaves both threads idle; the buffer keeps what anyone looks at; the refinement of `MatchFeed`; every call returns |
| `zip_update` | 2 threads, 3 files, or 2 files after items of the old archive, 0 or 2 blocks of 2 units, files of 1 or 3 units, 2 methods, one failure of any kind, fair | 1,121,014 | no block lost; the archive whole and in order at every moment; no internal error; the update returns |

Some properties are conjunctions of named parts, since they are violated and proved
together: `RightsExclusive` (reader and writer), `RingSafe` (slots, buffers, a buffer for
who needs one), `AnswersRight` (data, ends and errors), `WorkerInHand` (joined, bounded),
`Reported`, `DataInPlace`, `PipeSound`, `ReturnSound`, `FramesSound` (no frame lost, none after a
failed write), `HandshakesSound` (stops, blocks), `PositionsSound` (pointers, the buffer's
history), `ArchiveRight`. Where the parts can fail apart, there is a mutant for each.

Why the bounds are enough. *MtCoder*: four blocks are one more than the three slots of
two threads, so every slot is used again and both threads wait for the semaphore; two calls
with one, two or three blocks each find the object in every state an earlier call leaves,
failures included. *EntryReader*:
capacity 2 with chunks of 1 or 2 makes the queue full, over-full and empty; reads end
inside, at the end of and across chunks; a range beyond the end and a backward, a forward
and an equal seek all occur. The sequence of calls is not bounded. *FolderOutStream*: the
archive has a solid folder of two files with an empty one between them, an empty file in
no folder, and a folder of one file without CRC; the requests take everything, begin in
the middle, take only the last and only the first of the solid folder, and skip from
folder to folder; every folder has any of the three kinds of coder; blocks of up to 3 bytes span two files, end inside one, and go beyond
the last one asked for. *Lz4MtCompress*: three workers can hold three frames finished in
any order; fewer blocks than workers and an empty input are included; the second call
starts at a frame number that is not zero. *CoderMixer*: the middle coder both reads and
writes and runs on the calling thread, the outer ones on threads of their own; a piece of two
bytes can be read in two halves with a close in between, after which one byte is left to
write; the second folder finds binders in every state the first can leave. *MtDec*: five or six units in
blocks of one or two give every thread of the ring a block and the first of them a second
one; the eight streams are good, cut, without end mark, with a block that is too large, one that
does not decode, trailing bytes, nothing but the end mark, and no stream; a block can end
inside an input buffer (the cross block) or span two; the second call begins with what the
first left. *LzFindMt*: 38 bytes are more than the buffer holds, so it moves while tree and
encoder look at it; rings of two blocks become full and empty; a hash block is shorter
than the tree's, so that one takes several, with a rest of one used by the next. *ZipUpdate*: three
units are more than one block, and two such files need more than the pool has; with
no block at all only the front can go on; the third file starts while one of the first two
runs, is finished, or is being copied; a second pass begins in memory or in the archive.
`MaxFaults`, `MaxInput`, `MaxCalls`, `MaxRead`,
`MaxBlock`, `MaxSize` and `MaxBytes` are the only bounds.

`Deadlock` is checked in every run: a system that may really stop has the action
`Terminating`, which is enabled only in a proper final state.

## 4. Fairness

`FairSpec` of each module (`EntryFairSpec`) asks weak fairness of the caller inside a call and of each
thread: an operating system schedules runnable threads, and the callbacks (codec, streams,
decoder) return. One coder does not: a BZip2 encoder with inner threads whose `Write` throws leaves
`EncodeBlock3` before `CanWriteEvent.Set` (`BZip2Encoder.cpp:902-916`), so that the next block's thread waits
for ever; `UpdateReturns` says nothing of it. Nothing asks the caller or consumer to call again (`NewInput`, `Call`,
`CallRead`, ... are not fair). Weak fairness is enough because no guard is disabled
for ever by the progress of others while the property waits: the waits are on tokens,
semaphores and flags that, once given, stay until the waiting side takes them, or on
critical sections whose holder is fair, too. In `LzFindMt` only a call under way is fair
(`LzReturn`); that the encoder asks for a block, goes to the next file or releases is its choice. `CallReturns`/`CallsReturn` would fail if an error path
forgot to set `readEvent`, to unlock after a failed write, or to notify after draining
the queue, or if closing a reader gave the writer one unlock instead of two: their
mutants do precisely that. In `CoderMixer` fairness of a coder's steps also says
that it ends: its output is bounded and it does not read again after the end.

## 5. What is proved

All theorems hold for every value of the constants allowed by the module's assumption.

**`MtCoder_proof`.** `TypeCorrect`: types are preserved; the content is that
ring indexes stay in the ring, a thread about to work has slot and buffer indexes in
range, and `blocksSemaphore` never drops below zero. `OneReader` and `OneWriter`: the right to read and the right to write
have one owner. The invariant `Tokens` is stronger than the two: it also says
(`Quiet`) that until `OpenReading` no thread is further than its wait for `readEvent` and
the event is not set, because otherwise setting it in `MtCoder_Code` could add a second
token.
`ReadTokenMoves` and `WriteTokenMoves` show that each thread action moves a token or
leaves it alone; `RightsAreExclusive` joins the two.
`NoThreadIsLeft`: the invariant `Ending` counts. During a call `numStarted` is `numFinished`
plus the number of threads at work (`Counted`), so the thread whose count equals `numStarted` is
the last one; for that, the threads from `numStarted` on are at rest (`Unstarted`), and nobody
works outside a call (`Over`).
`RingIsSafe`: in the invariant `InStep` the slots in use are `l` slots from `w`, the one that is
written next, to `blockIndex`; free slots, those about to be given back and `l` add up
to the length of the ring (`Span`); each thread that fills a slot has it alone (`Owners`), and
a writer is at `w` (`Writers`). The buffers below the number of slots are in the free list,
with a thread or in a slot, each in one place (`FreeList`, `UsedLow`, `NoneLost`), so that by
counting slots a thread that holds one without a buffer finds the list not empty.

`OkIsComplete` and `Refinement` stand on top of `InStep` and `Ending`. The
invariant `Blocks(w, l, k)` adds the number `k` of slots taken so far, and with it the data. The
block in a slot has the number its place in the ring says, whether it is in an input buffer, coded,
waiting or being written (`Items`); the output has the blocks that have had their turn, all of them
while nothing failed (`Output`); one block was read per slot taken, until the end of the
input or a failure (`Reader`); every failure is known in `progressRes` before it can be lost with its
thread (`Noted`); threads end only after reading has stopped (`Stops`); and no
slot in use is without a thread, a ready flag or the writer (`Covered`). The last three give completeness:
when the caller is woken nobody works, so no slot is in use, and without an error all blocks
had their turn.

All but `TypeCorrect` assume `MaxCalls = 1 \/ ~ EarlyReuse`, visible in their statements: with
a caller that comes back early the finding of section 6 makes them false.

**`Extraction_proof`.** About `FolderOutStream`: `TypeCorrect`, `EveryFileIsReported`, `BytesAreInPlace`, `OkIsTrue`
and `StopEndsAll`, for every archive and request and every kind of coder. The invariant
follows the code's order: where control can be and what the locals are there, after a stop
only in a test (`Control`), which files are still to come (`Coming`), that files are begun and
ended in the order of the archive, each at most once, and paired unless one of their own
callbacks failed (`Brackets`), what was said of those that are not to come any more
(`Reports`), the position in the folder (`Place`), and what was done with the bytes that
have come (`Contents`, `WrittenInPlace`). `Place` needs that the offset of a
file in its folder is the sum of the sizes before it. The module has no induction over data
(the prover cannot instantiate the library's induction rules), so `SumsExist` and `SizesAdd` argue with the least number for which the
sum would fail, which is a first-order fact (`Least`).

About `EntryReader`: `WorkerIsOwned`, `QueueIsBounded`, `ReportsAreReal`,
`EntryTypeCorrect`, `BytesAreRight`, and joined `AnswersAreRight` and `WorkerIsInHand`. The
invariant relates flags to the worker (`Flags`), the decoded, queued and consumed byte
counts (`Ahead`), and where a `read_at` can be (`InRange`): the last is needed for the
early end, since reporting one is right only if a `read_at` never asks beyond the size.
For the bytes, `Queued` says of each chunk where it begins and that none reaches beyond what
is decoded, so that no sum over the queue is needed, and `Given` how far a call has come:
what it gave are the bytes from its offset to `pos`, and `want` is what is left of it.

**`Lz4MtCompress_proof`.** `TypeCorrect`, `OutputInOrder`, `ResultIsSound`, `NoFrameIsLost`,
`FailedWriteIsLast`, joined as `FramesAreSound`, and `Refinement`. The invariant says that every frame number is with
one worker or in the done list (`Owned`), that there are as many frames as blocks
(`Counted`), that the output is all frames before `curframe` (`Ordered`), what a worker
that has ended knows (`Ended`), what the join loop has seen (`Joined`), that while nothing
failed no frame is lost and the one that is due is not left without a writer (`Kept`), and
that after a failed write the frame that is due stays in the done list (`Stuck`). `Stuck`
is what makes `FailedWriteIsLast` true: no worker gets into `pt_write`'s loop again, as
its own frame number is not `curframe`. `Kept` with `Ended` gives completeness at the
join, and with it `ResultIsSound` and the step `Succeed` of the refinement.

**`CoderMixer_proof`.** `TypeCorrect`, `PipesAreSound`, `ReturnsAreSound` and `Refinement`, for any
number of coders. `Control` says which streams are open when (`Streams`), which threads
run (`Threads`) and what their results say (`Outcome`); `Pipe(b)` says of each binder that
what the writer offered is what was taken and what is left (`Carried`), and that the
semaphore holds the unlock of a whole read not yet taken and, once reading is closed, the
two of the close less those taken since (`Unlocks`, `Offers`).

**`MtDec_proof`.** `RightsAreExclusive`, `SizesInvariant` and `TypesAreKept`. The invariant `Rights`
orders the threads by age in the ring: only started threads take part (`OnlyStarted`); one thread
reads, and none that waits for the right to read still has a block to finish reading (`OneReads`);
the one that may write has the oldest block, or no block is left (`OneWrites`); behind every block
that goes on is the next one or the right to read (`Chain`); at the exit, and outside a run of the
ring, nobody holds anything (`Exits`, `Clear`).

`Sizes`, inductive beside `Rights`, is what keeps the numbers in range when a block turns out to be
wrong. The blocks lie one after the other: there is a function `Q` of block numbers to places in
the stream such that block `b` begins at `Q[b]` or before, what was decoded ends there, and the
blocks with the cross block end where reading has come to (`Fits`). What a thread knows of its own block is in
`Locals`. An error, or an interruption, is known to the ring, or its thread still waits for the right to
write (`Marks`); so when the ring ends with an error that one thread can go on from, the blocks behind
the interruption are those that are kept (`Handover`, `Alone`), and the threads that may still keep one leave
room for it (`FilledFit`, by counting `Keepers`). `DecodeFits` and `ParseFits` say that the operators of
`Lzma2Stream` take no more than they are given.

**`MtDecContent_proof`.** `ContentInvariant`, `NothingIsLost` and `ImplementsADecoder`, which rest on
the two invariants above. `Content`, inductive beside both, says what the data is. What matters of a place in the stream is
whether the units up to it decode (`Sound`), whether a block may begin there (`Begins`), whether decoding
ends in the next units (`Ends`), and whether with so much output nothing is left to do (`Complete`).
The output is always the first units of the stream, and they decode (`Output`). While nothing has failed
(`Layout`) there is a function `Q` of block numbers to places such that every thread has, in each state of its
work, what belongs to the block at `Q[b]`: the units read so far in its links, the part of them that is parsed,
the cross block behind it (`ReadAt`, `ParseAt`, `HandAt`), for the last block the reason why the ring ends there
(`LastAt`), for the others that the next begins right behind (`MiddleAt`), and after `Code` the units that
decode (`CodedAt`). How links make a block is `Linked`: the first one of any length, full ones, and a last one
that may hold more. What the ring knows when it stops has two cases. If one thread can go
on (`Flagged`), nobody else has a block, the output ends where the kept block begins, and that block and the cross
block are followed by what is not yet read, or decoding ends in the kept block (`KeptAt`). If not
(`Stopped`), what is written is complete or something failed (`Settled`), or the thread that is about to write
makes it so (`Writes`). `Single` says the same of the rounds of the single thread and `Outcome` of the
end of the call. `Notes` and `Failures` are the notes of the threads and who knows of a failure: in particular a
decoder that is told the stream has no more is told the truth (`Dry`).

There is one lemma for each action (`ReadStreamContent`, `ParseLinkContent`, `WriteContent`, `ReturnContent`,
`ReadFilledContent`, ...), which rest on lemmas about values: what `Parse` and `Decode` return for the units that follow on
a place (`ParseIs`, `DecodeIs`), how `FlattenSeq` puts links together (`FlatIs`, `DataIs`), and
what decoding the whole stream gives (`IdealIs`): no sound output is longer (`IdealSound`), and one with which nothing
is left to do is all of it (`IdealComplete`). `NothingIsLost` then reads `Single` for what the threads and the
cross block hold. `ImplementsADecoder` maps every step of the ring and of the single thread to `Emit` (the output grows
and stays sound), `Finish` to `Succeed` or `GiveUp` by `Outcome` and the verdict on the stream (`VerdictIs`), and
`NextCall` to `Again`. Without `Layout` the invariant would not be inductive: that a block written out
of the ring continues the output is known only from where its units were read.

**`LzFindMt_proof`.** `DataIsLocked`, `StopLeavesNothing` and `NoBlockIsLost`, the last two joined
as `HandshakesAreSound`, all from one
invariant `Control` on the flags, events, semaphores and critical sections of both
`CMtSync`: who is where in the handshakes of start and stop, who owns which section,
and where each block of a ring is.

`TypesAreKept`, `PositionsAreSound` and `ImplementsAMatchFinder` add the data (`DataInv`, inductive
beside `Control`: `DataInvariant`). The invariant reads each ring as a queue of blocks
that has nothing modular in it (`HashRingHolds`, `TreeRingHolds`), with a sequence of
positions at which the blocks start. The lemmas on what a push and a pop do are about
plain values (`HashPush`, `HashPop`, `TreePush`, `TreePop`), and only `HashRingPush`
and its like speak of indexes modulo the ring. `HashQueue` says that the blocks of heads follow on one another up
to the position of the hash thread, `TreeQueue` the same of the blocks of matches up to
the start of the block that the tree thread fills, and that a later block knows of no fewer bytes. `TakeData`
has the two ways in which the tree thread can be related to its queue: it works through the first block (`TakesHeads`), or
it has told of all of the stream and takes the empty blocks which the hash thread goes on
filling (`AllTaken`). Before the first block of a file there is no queue, but the values that `MatchFinderMt_Init` left
(`Fresh`, `FreshBt`, `FreshLz`). That a move never takes away what is still needed
follows from distances: while the stream has not ended, a block covers no more positions than
its size, so the tree thread and the encoder are no further behind than both rings have room for
(`BtNearPos`, `LzNearBt`), and a move leaves that and the history (`MovedLittle`), which is what
`MatchFinderMt_Create` adds to `keepAddBufferBefore`.

**`ZipUpdate_proof`.** `NothingImpossible`, `BlocksAreKept`, `ArchiveIsRight` and `TypesAreKept`,
on three invariants. `IInv` says who has which item. Each semaphore counts what
its list has, but for who is between the two (`Counted`), so who passes it finds something.
While main works, the threads without a file are those that are not in `threadIndices`, and one
in the list of those that are ready has come to the end of its file (`Placed`): so there is a
free one whenever main may start one, and the one that main takes is in `threadIndices`. The
files of the threads there are the open ones from `itemIndex` to `mtItemIndex`, in their order
(`Items`), so the first has the item that is due. And every stream and every finished item has a
block for each unit (`Full`), since a unit is only collected where there is room, and the blocks a
`Detach` keeps are enough (`KeptIsEnough`, by the least number of blocks that is).

`Pool` says who has which block: the free ones, those of the streams and those of the
finished items add up to the pool. `BlocksIn` is a recursive function; that a sum changes by what
one of its terms changes by is `BlocksChange`, again by the least index for which it would not.

`AInv` says what the archive, the streams and the finished items hold. A thread that codes has in
its blocks the units of this pass, or, in real stream mode, nothing (`Collects`); who has
no file, or has come to the end of it, writes nothing any more (`Rested`); a file that is done has in its thread,
or detached, the data of its coder's last pass (`Whole`); only the first thread of
`threadIndices` is ever unlocked, and only for the item that is due (`Unlocks`), so no other can write
between its entries; then the archive is the entries before the one that is due, or
behind them the header and the first units of the front (`Written`, `Fronted`), and the whole if the
result says so (`Over`). The entries are joined by the community modules' `FlattenSeq`: `EntriesAdd` says
that one item more adds one entry behind.

Only model-checked: liveness (`CallReturns`, `CallsReturn`, `CodeReturns`, `UpdateReturns`), which the prover does not
do. Every invariant, action property and refinement of the passing runs is a theorem, but for those whose
hypotheses are named above (`MtCoder` without the early reuse).

## 6. What the checks found

- **`MtCoder` used again too early** (`mtcoder_reuse`, `C/MtCoder.c:350-351`). A worker
  increments `numFinishedThreads` and then compares its count with
  `mtc->numStartedThreads`. The last worker wakes the caller, which may begin the next
  call while another worker is still between the two. The next call sets
  `numStartedThreads` to zero and counts up again; when it reaches the old worker's count,
  that worker sets `finishedEvent` of a call that has only begun. `MtCoder_Code` then
  returns `SZ_OK` with output missing, against `Lzma2Enc.h:31`. A worker descheduled for
  that long is unlikely, not impossible.
- **Bytes shown twice to `OnData`** (`extract_partial_writes`, `7zExtract.cpp:191`).
  `OnData` is told of a piece before the output stream has said how much of it it took; the
  rest comes again in the next round, so a hash fed as `user/docs/stream-hash-callback.md:52`
  says is wrong. `IStream.h:59` allows partial writes, and `CStdOutFileStream::Write` makes
  them (`FileStreams.cpp:907`).
- **A stop that is not a success** (`extract_stop_result`, `7zExtract.cpp:120`).
  `stream-hash-callback.md:62` says a stop that is honoured takes the success path. Asked
  for in `OnFileBegin` for an empty file in `Init`, or while `FlushCorrupted` reports
  lost files, it makes `Extract` return `k_My_HRESULT_WritingWasCut`.
- **A missing end mark is accepted** (`mtdec_finish`, `C/Lzma2DecMt.c:934`). With
  `finishMode` 1 the decoder is to check that the stream is finished (`Lzma2DecMt.h:53`). A
  stream that has all its blocks but no end mark is accepted when the blocks were decoded
  by several threads; one thread returns `SZ_ERROR_INPUT_EOF` for it.

Observations that are not runs. Nothing in `Write` looks at the stop flag (`7zExtract.cpp:171-237`), so
after a stop `OnData` and `OnFileBegin` come again when the last coder calls `Write` again: with
Deflate and Deflate64, with a filter in the single-thread mixer (`mtf` off), and with Lz4, Lz5,
Lizard and Brotli. The last four drop the block that was cut, so `OnData` is told of later data at
the offset of the stop, against `stream-hash-callback.md:41`; `OffsetsTrue` allows this case and no
other, and `StopIsFinal` says what holds for all coders (nothing written, no folder begun) and what
only for those that return (nothing delivered). In the same way a callback that fails in `Write` may
be called again by the flush: the next file is begun although the one whose `SetOperationResult`
failed was never ended, which is why `Bracketed` and `AllReported` leave out the files in `faulted`.
A failure of a callback can also be lost: another coder's error outranks it, or Deflate, BZip2 and Rar5 drop
it after an error of their own, or the `kOK` of a stop's own flush overwrites it
(`7zExtract.cpp:445-449`); `Extract` then returns `S_OK`. `sevenzip_lib.h:217` says that a source's callbacks are
called on the thread that called `sevenzip_create_archive_from_sources`, but a multi-thread
encoder reads its input on its own threads (`MtCoder.c:144`). In the model any thread can be
the one in `Read`. And the result of `memRef.WriteToStream` is not looked at (`ZipUpdate.cpp:1451`);
`ArchiveRight` holds all the same, because a header, a descriptor or the central directory always
comes after it and fails with it.

## 7. What is not modelled, and why

- Failures of the system's primitives (an event or semaphore that cannot be created or set).
- `MtCoder`'s write-thread build, its progress percentages, and memory allocation failures of
  input buffers apart from reading failing as a whole.
- In `CoderMixer`: BCJ2's trees of coders, the single-thread mixer, an exception thrown by the
  main coder, `CheckDataAfterEnd`.
- In extraction: directories and anti-items, totals and progress, passwords, messages.
- In `MtDec`: xz over the same ring, `Lzma2DecMt_Read`, a first call with one thread,
  `MtDec_Free`, progress values. After a read error the ring starts again and reads the
  failed stream once more (`MtDec.c:349`, with the comment at 366); the model assumes that a stream
  that failed gives nothing more. The single-thread decoder writes each piece at once, and
  asks for progress at any of them. That a write failed in the ring reaches the caller only through
  `CDecoder::Code`, which is why it is part of the model. With LZMA2 at most one thread holds
  input when one thread takes over, so `NextFilled` has one candidate in every run.
- In `LzFindMt`: hash and tree contents, the cyclic buffer and normalisation of positions,
  `directInput`, and errors checked in mid-stream by the encoder. Of the bytes read only the
  lowest and the highest position count. The assumption `Reserve >= MoveAlign` is needed: with
  less the buffer could be full and the move free nothing; `LzFind.c:301-302` reserves far
  more. `BtStop`'s branch for a hash thread that was not started, and `InitFile`'s for an
  error left from an earlier file, are in the model as in the code and are never taken.
- In `ZipUpdate`: the single-thread part (`Update2St`), the cache and the restrictions of
  `CCacheOutStream` (the archive is taken as a file that keeps what is written at a position),
  `AllocateSpaceAlways` but for its result, which may be no block at all, and failures while the
  threads are set up. An archive without seeking is in the model (`SeqModes`) but not in the run:
  with it every file has a descriptor and one pass, which files read sequentially have, too.
- Contents: what the codecs compute, frame formats, CRC arithmetic. A CRC is "the data was
  bad or not".
- Codecs, hashes, encryption, format parsers, user interfaces, plug-ins, installers: data-heavy
  sequential code, vendored code or pure I/O, where a model checker shows little.
- The components of section 8 that have no module yet.

## 8. The plan

Done: `BlockPipeline`, `MtCoder`, `EntryReader`, `FolderOutStream`, `Lz4MtCompress`, `CoderMixer`
with `ByteChannel`, `MtDec` with `Lzma2Stream` and `StreamDecoder`, `LzFindMt` with `MatchFeed`, and
`ZipUpdate`, each with its run and its proofs. Each component has one passing run that checks its
safety and, where it has them, its refinement and its liveness. Next, in order of importance:

1. `MtDecompress` (`C/zstdmt/lz4-mt_decompress.c`), reusing the structure of `Lz4MtCompress`;
   the lz5, lizard, zstd and brotli variants differ from lz4's in frame format only.
2. `CCacheOutStream` as a module that implements a file, composed with `ZipUpdate`: the cache of
   the archive's end with its restrictions.
3. `UpdatePair`/`UpdateProduce` and the resumable decoders, as functions checked against a
   reference definition over bounded inputs.

Of the modules there are, every safety property and refinement of the passing runs is proved (section 5).
Worth proving next is what belongs to the modules above; for `MtDecompress` the invariants of
`Lz4MtCompress_proof` (`Owned`, `Ordered`, `Kept`) should carry over.
