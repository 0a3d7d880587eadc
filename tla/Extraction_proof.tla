-------------------------- MODULE Extraction_proof -------------------------
(***************************************************************************)
(* Proofs about the two sides of an extraction, each for every run of its  *)
(* own specification.                                                      *)
(*                                                                         *)
(* FolderOutStream (Spec): for every archive, every request, every kind of *)
(* coder, every way the decoder cuts its output and ends, and every answer *)
(* of the callbacks, each file asked for gets its begin, its end and its   *)
(* result, bytes go where they belong, kOK is said only of whole files,    *)
(* and a stop is not forgotten.                                            *)
(*                                                                         *)
(* EntryReader (EntrySpec): for every size, decoded length, chunk size,    *)
(* capacity and scratch size, the worker is owned by the reader, the       *)
(* decoder runs ahead by a bounded number of bytes, the ends and errors    *)
(* that reads report are real, and the bytes they give are right.          *)
(***************************************************************************)
EXTENDS FolderOutStream, EntryReader, SequenceTheorems, WellFoundedInduction, TLAPS

-----------------------------------------------------------------------------
(* FolderOutStream: the inductive invariant. *)

\* A coder that took a cut for success may be anywhere in the folder.
Astray == coder = "goesOn" /\ (stopByDataCallback \/ todo = <<>>)

\* Extract is in a folder.
Busy == pc \in {"init", "decode", "write", "empty"}

\* Where Extract and the decoder are.
Control ==
  /\ stopByDataCallback => pc \notin {"next", "init"} /\ (pc # "done" => testMode)
  /\ stopByDataCallback /\ pc \in {"decode", "write", "empty"} => coder # "returns"
  /\ pc = "flush" => flushRes # "none" /\ (flushRes = "ok" => stopByDataCallback)
  /\ pc = "init" \/ (pc = "decode" /\ ~ Astray) => block = 0
  /\ pc = "empty" => fileIsOpen /\ rem = 0
  /\ writeRes \in {"ok", "abort", "fail"}
  /\ pc # "done" => result = "none"
  /\ result = "ok" => todo = <<>> /\ (stopByDataCallback \/ i = Len(indices))
  /\ testMode => sink = {}
  /\ Busy /\ askMode = "test" => testMode

\* The files to come are the last of the request so far, of the current folder,
\* and the current file is not beyond the first of them; the rest of the request
\* begins with another folder.
Coming ==
  /\ Len(todo) <= i
  /\ \A j \in 1 .. Len(todo) : todo[j] = indices[i - Len(todo) + j]
  /\ todo # <<>> => fileIndex <= todo[1]
  /\ fileIsOpen => todo # <<>>
  /\ pc = "next" => todo = <<>>
  /\ todo # <<>> => \A j \in 1 .. Len(todo) : FolderOf(todo[j]) = folder
  /\ folder = NoFolder => Len(todo) <= 1 /\ (todo # <<>> => fileIndex = todo[1])
  /\ 0 < i /\ i < Len(indices) =>
       \/ FolderOf(indices[i + 1]) # FolderOf(indices[i])
       \/ FolderOf(indices[i]) = NoFolder
  /\ folder # NoFolder => /\ FolderStart(folder) \in FileIndex
                          /\ FolderStart(folder) <= fileIndex
  /\ pc \in {"decode", "write", "empty"} => folder # NoFolder

\* Files are opened in the order of the archive, and begun and ended at most once;
\* those whose callbacks did not fail are ended once they are not open any more.
Brackets ==
  /\ \A f \in FileIndex : begun[f] <= 1 /\ ended[f] <= 1
  /\ \A f \in FileIndex : asked[f] = "none" => begun[f] = 0 /\ ended[f] = 0
  /\ \A f \in FileIndex :
       asked[f] # "none" => /\ i > 0 /\ f <= indices[i]
                            /\ f < fileIndex \/ (fileIsOpen /\ f = fileIndex)
  /\ fileIsOpen => asked[fileIndex] # "none" /\ ended[fileIndex] = 0
  /\ \A f \in FileIndex \ faulted :
       begun[f] = ended[f] + IF fileIsOpen /\ f = fileIndex THEN 1 ELSE 0

\* What was said of the files asked for that are not to come any more.
Reports ==
  /\ \A f \in FileIndex : asked[f] \notin {"none", "skip"} => AskedFor(f)
  /\ \A j \in 1 .. i - Len(todo) :
       indices[j] \notin faulted => ended[indices[j]] = 1 /\ opRes[indices[j]] # "none"

\* The position in the folder.
Place ==
  /\ fileIsOpen => rem <= File(fileIndex).size
  /\ Busy /\ folder # NoFolder /\ ~ Astray =>
       folderPos = SizeOf(FolderStart(folder), fileIndex - 1)
               + IF fileIsOpen THEN File(fileIndex).size - rem ELSE 0
  /\ OffsetsTrue

\* What was done with the bytes of the open file that have come, and with those
\* of files not opened yet.
Contents ==
  /\ \A f \in FileIndex :
       asked[f] = "none" => /\ written[f] = <<>> /\ delivered[f] = <<>>
                            /\ opRes[f] = "none" /\ f \notin sink
  /\ fileIsOpen =>
       LET f == fileIndex
           come == Positions(First(f), File(f).size - rem)
       IN /\ written[f] = IF hasStream THEN come ELSE <<>>
          /\ hasStream <=> f \in sink
          /\ opRes[f] = "none"
          /\ hasStream => asked[f] = "extract"
          /\ asked[f] = "test" /\ f \notin faulted =>
               askMode = "test" /\ (~ stopByDataCallback => delivered[f] = come)

IInv == /\ TypeOK /\ Control /\ Coming /\ Brackets /\ Reports
        /\ Place /\ Contents /\ WrittenInPlace /\ OkIsComplete

-----------------------------------------------------------------------------
(* Numbers. *)

\* A set of numbers that is not empty has a least one.
LEMMA Least ==
  ASSUME NEW S, S \subseteq Nat, S # {}
  PROVE  \E m \in S : \A q \in S : m <= q
<1>1. PICK R : IsWellFoundedOn(R, Nat) /\ \A x, y \in Nat : <<x, y>> \in R <=> x < y
  <2>1. \A x, y \in Nat : <<x, y>> \in OpToRel(<, Nat) <=> x < y
    BY Zenon DEF OpToRel
  <2>2. QED
    BY <2>1, NatLessThanWellFounded, Zenon
<1>2. IsWellFoundedOn(R, Nat)
  BY <1>1
<1>3. \E m \in S : \A q \in S : ~ (<<q, m>> \in R)
  BY <1>2, WFMin, Zenon
<1>4. PICK m \in S : \A q \in S : ~ (<<q, m>> \in R)
  BY <1>3
<1>5. \A q \in S : ~ (q < m) /\ q \in Nat /\ m \in Nat
  BY <1>1, <1>4
<1>6. \A q \in S : m <= q
  BY <1>5
<1>7. QED
  BY <1>6

\* g has the sums of the sizes of the first files, up to q.
Sums(q, g) ==
  /\ g \in [0 .. q -> Nat] /\ g[0] = 0
  /\ \A k \in 1 .. q : g[k] = g[k - 1] + File(k - 1).size

\* The sizes of the files of the archive.
LEMMA FileTypes ==
  /\ Len(Files) \in Nat
  /\ \A f \in FileIndex : /\ f \in Nat /\ f < Len(Files)
                          /\ File(f).size \in Nat /\ File(f).crcDefined \in BOOLEAN
                          /\ FolderOf(f) \in Nat \cup {NoFolder}
<1>1. Len(Files) \in Nat
  BY FolderOutStreamAssumption
<1>2. ASSUME NEW f \in FileIndex
      PROVE  f \in Nat /\ f < Len(Files) /\ f + 1 \in 1 .. Len(Files)
  BY <1>1 DEF FileIndex
<1>3. ASSUME NEW f \in FileIndex
      PROVE  File(f) \in [size : Nat, crcDefined : BOOLEAN, folder : Nat \cup {NoFolder}]
  <2> DEFINE R == [size : Nat, crcDefined : BOOLEAN, folder : Nat \cup {NoFolder}]
  <2>1. Files \in Seq(R)
    BY FolderOutStreamAssumption
  <2> HIDE DEF R
  <2>2. Files[f + 1] \in R
    BY <1>2, <2>1
  <2>3. QED
    BY <2>2 DEF R, File
<1>4. QED
  BY <1>1, <1>2, <1>3 DEF FolderOf

\* There are the sums of the sizes.
LEMMA SumsExist == \E g : Sums(Len(Files), g)
<1> DEFINE bad == {q \in 0 .. Len(Files) : ~ \E g : Sums(q, g)}
<1>1. SUFFICES ASSUME bad # {} PROVE FALSE
  BY FileTypes
<1>2. bad \subseteq Nat
  BY FileTypes
<1>3. PICK m \in bad : \A q \in bad : m <= q
  BY <1>1, <1>2, Least
<1>4. CASE m = 0
  <2>1. Sums(0, [k \in 0 .. 0 |-> 0])
    BY DEF Sums
  <2>2. QED
    BY <1>3, <1>4, <2>1
<1>5. CASE m # 0
  <2>1. m \in Nat /\ m - 1 \in 0 .. Len(Files) /\ m - 1 \in Nat /\ m - 1 < m /\ m <= Len(Files)
    BY <1>3, <1>5, FileTypes
  <2>2. m - 1 \notin bad
    <3>1. ~ m <= m - 1
      BY <2>1
    <3>2. QED
      BY <1>3, <3>1
  <2>3. PICK g : Sums(m - 1, g)
    BY <2>1, <2>2
  <2> DEFINE h == [k \in 0 .. m |-> IF k = m THEN g[m - 1] + File(m - 1).size ELSE g[k]]
  <2>4. m - 1 \in FileIndex /\ File(m - 1).size \in Nat
    BY <2>1, FileTypes DEF FileIndex
  <2>5. g[m - 1] \in Nat
    BY <2>1, <2>3 DEF Sums
  <2>6. h \in [0 .. m -> Nat]
    <3>1. \A k \in 0 .. m : k # m => g[k] \in Nat
      BY <2>1, <2>3 DEF Sums
    <3>2. QED
      BY <2>4, <2>5, <3>1
  <2>7. \A k \in 1 .. m : h[k] = h[k - 1] + File(k - 1).size
    <3>1. \A k \in 1 .. m : k # m => g[k] = g[k - 1] + File(k - 1).size
      BY <2>1, <2>3 DEF Sums
    <3>2. QED
      BY <2>1, <3>1
  <2>8. h[0] = 0
    BY <1>5, <2>1, <2>3 DEF Sums
  <2>9. Sums(m, h)
    BY <2>6, <2>7, <2>8 DEF Sums
  <2>10. QED
    BY <1>3, <2>9
<1>6. QED
  BY <1>4, <1>5

\* What SizeBefore is.
LEMMA SizesAdd ==
  /\ SizeBefore[0] = 0
  /\ \A f \in 0 .. Len(Files) : SizeBefore[f] \in Nat
  /\ \A f \in FileIndex : SizeBefore[f + 1] = SizeBefore[f] + File(f).size
<1>1. PICK g : Sums(Len(Files), g)
  BY SumsExist
<1>2. g = [f \in 0 .. Len(Files) |-> IF f = 0 THEN 0 ELSE g[f - 1] + File(f - 1).size]
  BY <1>1, FileTypes DEF Sums
<1>3. SizeBefore =
        [f \in 0 .. Len(Files) |-> IF f = 0 THEN 0 ELSE SizeBefore[f - 1] + File(f - 1).size]
  BY <1>2, Zenon DEF SizeBefore
<1>4. \A f \in 0 .. Len(Files) :
        SizeBefore[f] = IF f = 0 THEN 0 ELSE SizeBefore[f - 1] + File(f - 1).size
  BY <1>3, Zenon
<1>5. SizeBefore[0] = 0
  BY <1>4, FileTypes
<1>6. ASSUME NEW f \in FileIndex PROVE SizeBefore[f + 1] = SizeBefore[f] + File(f).size
  <2>1. PICK q \in 0 .. Len(Files) : q = f + 1 /\ q # 0 /\ q - 1 = f
    BY FileTypes DEF FileIndex
  <2>2. SizeBefore[q] = SizeBefore[q - 1] + File(q - 1).size
    BY <1>4, <2>1, Zenon
  <2>3. QED
    BY <2>1, <2>2, Zenon
<1>7. \A f \in 0 .. Len(Files) : SizeBefore[f] \in Nat
  <2> DEFINE bad == {f \in 0 .. Len(Files) : SizeBefore[f] \notin Nat}
  <2>1. SUFFICES ASSUME bad # {} PROVE FALSE
    OBVIOUS
  <2>2. bad \subseteq Nat
    BY FileTypes
  <2>3. PICK m \in bad : \A q \in bad : m <= q
    BY <2>1, <2>2, Least
  <2>4. m # 0 /\ m \in Nat /\ m - 1 \in FileIndex /\ m - 1 \in 0 .. Len(Files) /\ m - 1 < m
    BY <1>5, <2>3, FileTypes DEF FileIndex
  <2>5. SizeBefore[m - 1] \in Nat
    BY <2>3, <2>4
  <2>6. SizeBefore[m - 1 + 1] = SizeBefore[m - 1] + File(m - 1).size
    BY <1>6, <2>4
  <2>7. m - 1 + 1 = m
    BY <2>4
  <2>8. SizeBefore[m] \in Nat
    BY <2>4, <2>5, <2>6, <2>7, FileTypes
  <2>9. QED
    BY <2>3, <2>8
<1>8. QED
  BY <1>5, <1>6, <1>7

\* Later files begin later.
LEMMA SizesGrow ==
  ASSUME NEW a \in 0 .. Len(Files), NEW b \in 0 .. Len(Files), a <= b
  PROVE  SizeBefore[a] <= SizeBefore[b]
<1> DEFINE bad == {q \in a .. Len(Files) : ~ SizeBefore[a] <= SizeBefore[q]}
<1>1. SUFFICES ASSUME bad # {} PROVE FALSE
  BY FileTypes
<1>2. bad \subseteq Nat /\ a \in Nat
  BY FileTypes
<1>3. PICK m \in bad : \A q \in bad : m <= q
  BY <1>1, <1>2, Least
<1>4. SizeBefore[a] \in Nat
  BY SizesAdd
<1>5. m # a
  BY <1>3, <1>4
<1>6. /\ m \in Nat /\ m - 1 \in a .. Len(Files) /\ m - 1 \in FileIndex /\ m - 1 < m
      /\ m - 1 + 1 = m /\ m - 1 \in 0 .. Len(Files)
  BY <1>2, <1>3, <1>5, FileTypes DEF FileIndex
<1>7. SizeBefore[a] <= SizeBefore[m - 1]
  BY <1>3, <1>6
<1>8. SizeBefore[m] = SizeBefore[m - 1] + File(m - 1).size
  BY <1>6, SizesAdd
<1>9. SizeBefore[m - 1] \in Nat /\ File(m - 1).size \in Nat
  BY <1>6, SizesAdd, FileTypes
<1>10. SizeBefore[a] <= SizeBefore[m]
  BY <1>4, <1>7, <1>8, <1>9
<1>11. QED
  BY <1>3, <1>10

-----------------------------------------------------------------------------
(* Folders. *)

\* The first file of the folder of a file.
LEMMA FolderStarts ==
  ASSUME NEW f \in FileIndex
  PROVE  /\ FolderStart(FolderOf(f)) \in FileIndex
         /\ FolderOf(FolderStart(FolderOf(f))) = FolderOf(f)
         /\ FolderStart(FolderOf(f)) <= f
<1> DEFINE same == {h \in FileIndex : FolderOf(h) = FolderOf(f)}
<1>1. same \subseteq Nat /\ f \in same
  BY FileTypes
<1>2. PICK m \in same : \A h \in same : m <= h
  BY <1>1, Least
<1>3. \E s \in FileIndex : FolderOf(s) = FolderOf(f)
                           /\ \A h \in FileIndex : FolderOf(h) = FolderOf(f) => s <= h
  BY <1>2
<1>4. /\ FolderStart(FolderOf(f)) \in FileIndex
      /\ FolderOf(FolderStart(FolderOf(f))) = FolderOf(f)
      /\ \A h \in FileIndex : FolderOf(h) = FolderOf(f) => FolderStart(FolderOf(f)) <= h
  BY <1>3 DEF FolderStart
<1>5. QED
  BY <1>4

\* What is between two files of a folder is of the folder.
LEMMA Between ==
  ASSUME NEW f \in FileIndex, NEW h \in FileIndex, NEW g \in Int, f <= g, g <= h,
         FolderOf(f) = FolderOf(h), FolderOf(f) # NoFolder
  PROVE  g \in FileIndex /\ FolderOf(g) = FolderOf(h)
<1>1. g \in FileIndex
  BY FileTypes DEF FileIndex
<1>2. CASE f = h
  BY <1>1, <1>2, FileTypes
<1>3. CASE f # h
  <2>1. f < h /\ g \in f .. h
    BY <1>3, FileTypes
  <2>2. QED
    BY <1>1, <2>1, FolderOutStreamAssumption
<1>4. QED
  BY <1>2, <1>3

\* The files of the request left that the folder of the first of them has.
LEMMA SolidFiles ==
  ASSUME NEW left \in Seq(FileIndex), left # <<>>
  PROVE  /\ NumSolidFiles(left) \in 1 .. Len(left)
         /\ \A j \in 1 .. NumSolidFiles(left) : FolderOf(left[j]) = FolderOf(left[1])
         /\ NumSolidFiles(left) < Len(left) =>
              \/ FolderOf(left[NumSolidFiles(left) + 1]) # FolderOf(left[1])
              \/ FolderOf(left[1]) = NoFolder
         /\ FolderOf(left[1]) = NoFolder => NumSolidFiles(left) = 1
<1>0. Len(left) \in Nat \ {0} /\ Head(left) = left[1]
  OBVIOUS
<1>1. CASE FolderOf(left[1]) = NoFolder
  BY <1>0, <1>1 DEF NumSolidFiles
<1>2. CASE FolderOf(left[1]) # NoFolder
  <2> DEFINE Solid(k) == /\ \A j \in 1 .. k : FolderOf(left[j]) = FolderOf(Head(left))
                         /\ k < Len(left) => FolderOf(left[k + 1]) # FolderOf(Head(left))
             other == {q \in 1 .. Len(left) : FolderOf(left[q]) # FolderOf(left[1])}
  <2>1. \E k \in 1 .. Len(left) : Solid(k)
    <3>1. CASE other = {}
      BY <1>0, <3>1
    <3>2. CASE other # {}
      <4>1. other \subseteq Nat
        BY <1>0
      <4>2. PICK m \in other : \A q \in other : m <= q
        BY <3>2, <4>1, Least
      <4>3. m \in 2 .. Len(left) /\ m - 1 \in 1 .. Len(left) /\ m - 1 < Len(left) /\ m - 1 + 1 = m
        BY <1>0, <4>2
      <4>4. \A j \in 1 .. m - 1 : j \notin other /\ j \in 1 .. Len(left)
        BY <1>0, <4>2, <4>3
      <4>5. Solid(m - 1)
        BY <1>0, <4>2, <4>3, <4>4
      <4>6. QED
        BY <4>3, <4>5
    <3>3. QED
      BY <3>1, <3>2
  <2>2. NumSolidFiles(left) = CHOOSE k \in 1 .. Len(left) : Solid(k)
    BY <1>0, <1>2 DEF NumSolidFiles
  <2>3. NumSolidFiles(left) \in 1 .. Len(left) /\ Solid(NumSolidFiles(left))
    <3> HIDE DEF Solid
    <3>1. QED
      BY <2>1, <2>2, Zenon
  <2>4. QED
    BY <1>0, <1>2, <2>3
<1>3. QED
  BY <1>1, <1>2

\* A part of a request.
LEMMA Parts ==
  ASSUME NEW r \in Requests, NEW q \in 0 .. Len(r)
  PROVE  LET left == SubSeq(r, q + 1, Len(r))
         IN /\ left \in Seq(FileIndex) /\ Len(left) = Len(r) - q
            /\ \A j \in 1 .. Len(left) : left[j] = r[q + j]
<1> DEFINE left == SubSeq(r, q + 1, Len(r))
<1>1. r \in Seq(FileIndex) /\ Len(r) \in Nat
  BY FolderOutStreamAssumption
<1>2. \A k \in q + 1 .. Len(r) : r[k] \in FileIndex
  BY <1>1
<1>3. /\ left \in Seq(FileIndex)
      /\ Len(left) = IF q + 1 <= Len(r) THEN Len(r) - (q + 1) + 1 ELSE 0
      /\ \A k \in 1 .. Len(r) - (q + 1) + 1 : left[k] = r[q + 1 + k - 1]
  BY <1>1, <1>2, SubSeqProperties
<1> HIDE DEF left
<1>4. Len(left) = Len(r) - q
  BY <1>1, <1>3
<1>5. \A j \in 1 .. Len(left) : left[j] = r[q + j]
  <2>1. SUFFICES ASSUME NEW j \in 1 .. Len(left) PROVE left[j] = r[q + j]
    OBVIOUS
  <2>2. j \in 1 .. Len(r) - (q + 1) + 1 /\ q + 1 + j - 1 = q + j
    BY <1>1, <1>4
  <2>3. QED
    BY <1>3, <2>2
<1>6. QED
  BY <1>3, <1>4, <1>5 DEF left

\* The numbers that follow first, and those that follow them.
LEMMA PositionsFollow ==
  ASSUME NEW first \in Nat, NEW q \in Nat, NEW k \in Nat
  PROVE  /\ Positions(first, q) \in Seq(Nat) /\ Len(Positions(first, q)) = q
         /\ Positions(first, q) \o Positions(first + q, k) = Positions(first, q + k)
         /\ q <= k => IsPrefix(Positions(first, q), Positions(first, k))
         /\ Positions(first, 0) = <<>>
<1>1. \A m \in Nat, l \in Nat : Positions(m, l) \in Seq(Nat) /\ Len(Positions(m, l)) = l
                                /\ \A j \in 1 .. l : Positions(m, l)[j] = m + j - 1
  BY DEF Positions
<1>2. Positions(first, 0) = <<>>
  BY <1>1
<1>3. Positions(first, q) \o Positions(first + q, k) = Positions(first, q + k)
  <2> DEFINE a == Positions(first, q)
             b == Positions(first + q, k)
             c == Positions(first, q + k)
  <2>0. first + q \in Nat /\ q + k \in Nat
    OBVIOUS
  <2>1. a \in Seq(Nat) /\ b \in Seq(Nat) /\ c \in Seq(Nat) /\ Len(a) = q /\ Len(b) = k
        /\ Len(c) = q + k
    BY <1>1, <2>0, Zenon
  <2>2. (\A j \in 1 .. q : a[j] = first + j - 1) /\ (\A j \in 1 .. k : b[j] = first + q + j - 1)
        /\ (\A j \in 1 .. q + k : c[j] = first + j - 1)
    BY <1>1, <2>0, Zenon
  <2> HIDE DEF a, b, c
  <2>3. (a \o b) \in Seq(Nat) /\ Len(a \o b) = q + k
    BY <2>1, ConcatProperties
  <2>4. \A j \in 1 .. q + k : (a \o b)[j] = c[j]
    BY <2>1, <2>2, ConcatProperties
  <2>5. a \o b = c
    BY <2>1, <2>3, <2>4, SeqEqual
  <2>6. QED
    BY <2>5 DEF a, b, c
<1>4. ASSUME q <= k PROVE IsPrefix(Positions(first, q), Positions(first, k))
  <2> DEFINE a == Positions(first, q)
             c == Positions(first, k)
  <2>1. a \in Seq(Nat) /\ c \in Seq(Nat) /\ Len(a) = q /\ Len(c) = k
    BY <1>1
  <2>2. (\A j \in 1 .. q : a[j] = first + j - 1) /\ (\A j \in 1 .. k : c[j] = first + j - 1)
    BY <1>1
  <2> HIDE DEF a, c
  <2>3. SubSeq(a, 1, q) = SubSeq(c, 1, q)
    BY <1>4, <2>1, <2>2
  <2>4. IsPrefix(a, c)
    BY <1>4, <2>1, <2>3 DEF IsPrefix
  <2>5. QED
    BY <2>4 DEF a, c
<1>5. QED
  BY <1>1, <1>2, <1>3, <1>4

-----------------------------------------------------------------------------
(* Failures. *)

\* What follows a failure of a CFolderOutStream function or the end of the decoder:
\* Extract ends, or what is left gets a result, or a coder that does not return goes
\* on in Write or with its next block.
GaveUp ==
  /\ pc' \in {"done", "flush", "decode", "write", "empty"}
  /\ pc' # "done" => pc \in {"decode", "write", "empty"}
  /\ pc' \in {"decode", "write", "empty"} => InWrite /\ coder # "returns"
  /\ pc' = "decode" => coder = "goesOn" /\ (stopByDataCallback' \/ todo' = <<>>)
  /\ pc' = "empty" => fileIsOpen' /\ rem' = 0
  /\ pc' = "flush" => flushRes' # "none" /\ (flushRes' = "ok" => stopByDataCallback')
  /\ pc' = "done" => result' # "ok"
  /\ pc' # "done" => result' = "none"
  /\ writeRes' \in {"ok", "abort", "fail"} /\ firstRes' \in Results
  /\ flushRes' \in OpRes /\ thrown' \in BOOLEAN /\ result' \in Results

\* What is left alone by a step that does not touch a file.
Quiet == UNCHANGED <<requestVars, fileVars, stopByDataCallback, folder, coder, limit, history>>

\* The decoder returns.
LEMMA DecoderReturns ==
  ASSUME TypeOK, Control, pc \in {"decode", "write", "empty"},
         NEW r \in Results \ {"none"}, NEW after \in BOOLEAN, AfterDecode(r, after)
  PROVE  GaveUp
<1>1. /\ writeRes \in {"ok", "abort", "fail"} /\ firstRes \in Results /\ flushRes \in OpRes
      /\ thrown \in BOOLEAN /\ result = "none"
  BY DEF TypeOK, Control
<1>2. \/ /\ pc' = "flush" /\ UNCHANGED <<writeRes, firstRes, thrown, result>>
         /\ \/ flushRes' = "ok" /\ stopByDataCallback'
            \/ flushRes' \in {"method", "afterEnd", "data"}
      \/ /\ pc' = "done" /\ result' \in {"abort", "fail"}
         /\ UNCHANGED <<writeRes, firstRes, flushRes, thrown>>
  <2>1. CASE stopByDataCallback'
    BY <2>1 DEF AfterDecode, FlushWith
  <2>2. CASE ~ stopByDataCallback' /\ (r \in {"false", "notimpl"} \/ after)
    BY <2>2 DEF AfterDecode, FlushWith
  <2>3. CASE ~ stopByDataCallback' /\ ~ (r \in {"false", "notimpl"} \/ after) /\ r \in {"ok", "cut"}
    BY <2>3 DEF AfterDecode, FlushWith
  <2>4. CASE ~ stopByDataCallback' /\ ~ (r \in {"false", "notimpl"} \/ after) /\ r \notin {"ok", "cut"}
    BY <2>4 DEF AfterDecode, Done, Results
  <2>5. QED
    BY <2>1, <2>2, <2>3, <2>4
<1>3. QED
  BY <1>1, <1>2 DEF GaveUp, OpRes, Results

\* A function of CFolderOutStream fails.
LEMMA Fails ==
  ASSUME TypeOK, Control, pc # "done", NEW r \in {"abort", "cut", "fail"},
         r = "cut" => stopByDataCallback' \/ todo' = <<>>, Fail(r)
  PROVE  GaveUp
<1>1. /\ writeRes \in {"ok", "abort", "fail"} /\ firstRes \in Results /\ flushRes \in OpRes
      /\ thrown \in BOOLEAN /\ result = "none"
  BY DEF TypeOK, Control
<1>2. CASE Done(r)
  BY <1>1, <1>2 DEF Done, GaveUp, Results
<1>3. CASE InWrite /\ TakesCut(r) /\ DropBlock
  BY <1>1, <1>3 DEF TakesCut, DropBlock, InWrite, GaveUp, extractVars, Results
<1>4. CASE InWrite /\ coder = "flushes" /\ WriteRest(r)
  BY <1>1, <1>4 DEF WriteRest, CallWrite, InWrite, GaveUp, extractVars, Results
<1>5. CASE InWrite /\ \E res \in DecodeResults(IF firstRes = "none" THEN r ELSE firstRes) :
                         AfterDecode(res, FALSE)
  <2>1. PICK res \in Results \ {"none"} : AfterDecode(res, FALSE)
    BY <1>1, <1>5 DEF DecodeResults, Results
  <2>2. QED
    BY <1>5, <2>1, DecoderReturns DEF InWrite
<1>6. QED
  BY <1>2, <1>3, <1>4, <1>5 DEF Fail

-----------------------------------------------------------------------------
(* Steps that touch no file. *)

\* They keep what is said of files.
LEMMA QuietKeeps ==
  ASSUME IInv, Quiet
  PROVE  Brackets' /\ Reports' /\ Contents' /\ WrittenInPlace' /\ OkIsComplete'
<1>1. UNCHANGED <<testMode, indices, i, fileIndex, todo, fileIsOpen, rem, askMode, badCrc,
                  hasStream, stopByDataCallback, begun, ended, asked, sink, opRes, delivered,
                  written, crcBad, misplaced, faulted>>
  BY DEF Quiet, requestVars, fileVars, history
<1>2. Brackets'
  BY <1>1 DEF IInv, Brackets
<1>3. Reports'
  BY <1>1 DEF IInv, Reports, AskedFor
<1>4. Contents'
  BY <1>1 DEF IInv, Contents
<1>5. WrittenInPlace' /\ OkIsComplete'
  BY <1>1, Zenon DEF IInv, WrittenInPlace, OkIsComplete
<1>6. QED
  BY <1>2, <1>3, <1>4, <1>5

\* What they may do to the rest.
LEMMA QuietStep ==
  ASSUME IInv, Quiet,
         folderPos' \in Nat, block' \in 0 .. MaxBlock, blockBad' \in BOOLEAN,
         writeRes' \in Results, firstRes' \in Results,
         pc' \in Pc, flushRes' \in OpRes, thrown' \in BOOLEAN, result' \in Results,
         Control',
         pc' = "next" => todo = <<>>,
         pc' \in {"decode", "write", "empty"} => folder # NoFolder,
         Busy' => Busy /\ (~ Astray => folderPos' = folderPos)
  PROVE  IInv'
<1>1. UNCHANGED <<testMode, indices, i, fileIndex, todo, fileIsOpen, rem, askMode, badCrc,
                  hasStream, stopByDataCallback, folder, coder, limit, begun, ended, asked,
                  sink, opRes, delivered, written, crcBad, misplaced, faulted>>
  BY DEF Quiet, requestVars, fileVars, history
<1>2. TypeOK'
  BY <1>1 DEF IInv, TypeOK
<1>3. Coming'
  BY <1>1 DEF IInv, Coming
<1>4. Place'
  BY <1>1 DEF IInv, Place, OffsetsTrue, Astray
<1>5. QED
  BY <1>2, <1>3, <1>4, QuietKeeps DEF IInv

\* Something fails, or the decoder returns.
LEMMA QuietEnd ==
  ASSUME IInv, Quiet, UNCHANGED <<folderPos, block, blockBad>>, GaveUp
  PROVE  IInv'
<1>1. /\ UNCHANGED <<testMode, i, indices, todo, fileIsOpen, rem, askMode, stopByDataCallback,
                     coder, sink>>
  BY DEF Quiet, requestVars, fileVars, history
<1>2. Control'
  BY <1>1 DEF IInv, Control, GaveUp, Astray, Busy, InWrite
<1>3. /\ folderPos' \in Nat /\ block' \in 0 .. MaxBlock /\ blockBad' \in BOOLEAN
      /\ writeRes' \in Results /\ firstRes' \in Results /\ pc' \in Pc /\ flushRes' \in OpRes
      /\ thrown' \in BOOLEAN /\ result' \in Results
  BY DEF IInv, TypeOK, GaveUp, Results, Pc
<1>4. /\ pc' # "next" /\ (pc' \in {"decode", "write", "empty"} => folder # NoFolder)
      /\ Busy' => Busy /\ folderPos' = folderPos
  BY DEF GaveUp, InWrite, Busy, IInv, Coming
<1>5. QED
  BY <1>2, <1>3, <1>4, QuietStep

\* Write: a block goes on after the last file asked for.
LEMMA WriteBeyondKeeps ==
  ASSUME IInv, WriteBeyond
  PROVE  IInv'
<1>1. /\ pc = "write" /\ Fail("cut") /\ Quiet /\ UNCHANGED <<folderPos, block, blockBad>>
      /\ todo' = <<>>
  BY DEF WriteBeyond, Quiet, decodeVars, fileVars
<1>2. GaveUp
  BY <1>1, Fails DEF IInv
<1>3. QED
  BY <1>1, <1>2, QuietEnd

\* Write returns.
LEMMA WriteReturnKeeps ==
  ASSUME IInv, WriteReturn
  PROVE  IInv'
<1>1. pc = "write" /\ Quiet /\ UNCHANGED <<folderPos, block, blockBad>>
  BY DEF WriteReturn, Quiet, decodeVars
<1>2. UNCHANGED <<testMode, i, indices, todo, fileIsOpen, rem, askMode, stopByDataCallback,
                  coder, sink>>
  BY <1>1 DEF Quiet, requestVars, fileVars, history
<1>3. CASE writeRes # "ok"
  <2>1. PICK r \in {"abort", "fail"} : Fail(r)
    BY <1>3 DEF WriteReturn, IInv, Control
  <2>2. GaveUp
    BY <1>1, <2>1, Fails DEF IInv
  <2>3. QED
    BY <1>1, <2>2, QuietEnd
<1>4. CASE writeRes = "ok"
  <2>1. /\ pc' = "decode" /\ block = 0
        /\ UNCHANGED <<writeRes, firstRes, flushRes, thrown, result>>
    BY <1>4 DEF WriteReturn, extractVars
  <2>2. Control'
    BY <1>1, <1>2, <2>1 DEF IInv, Control, Busy, Astray
  <2>3. folder # NoFolder
    BY <1>1 DEF IInv, Coming
  <2>4. /\ folderPos' = folderPos /\ folderPos' \in Nat /\ block' \in 0 .. MaxBlock
        /\ blockBad' \in BOOLEAN /\ writeRes' \in Results /\ firstRes' \in Results
        /\ flushRes' \in OpRes /\ thrown' \in BOOLEAN /\ result' \in Results
    BY <1>1, <2>1 DEF IInv, TypeOK
  <2>5. QED
    BY <1>1, <2>1, <2>2, <2>3, <2>4, QuietStep DEF Pc, Busy
<1>5. QED
  BY <1>3, <1>4

\* The files of a folder are done.
LEMMA FlushEndKeeps ==
  ASSUME IInv, FlushEnd
  PROVE  IInv'
<1>1. pc = "flush" /\ todo = <<>> /\ Quiet /\ UNCHANGED <<folderPos, block, blockBad>>
  BY DEF FlushEnd, Quiet, decodeVars
<1>2. /\ UNCHANGED <<testMode, i, indices, todo, askMode, stopByDataCallback, coder, sink>>
      /\ stopByDataCallback \in BOOLEAN
  BY <1>1 DEF Quiet, requestVars, fileVars, history, IInv, TypeOK
<1>3. /\ flushRes \in OpRes /\ thrown \in BOOLEAN /\ result = "none"
      /\ writeRes \in Results /\ firstRes \in Results
      /\ folderPos \in Nat /\ block \in 0 .. MaxBlock /\ blockBad \in BOOLEAN
  BY <1>1 DEF IInv, TypeOK, Control
<1>4. /\ UNCHANGED <<writeRes, firstRes, flushRes, thrown>>
      /\ \/ pc' = "done" /\ result' = "fail"
         \/ pc' = "done" /\ result' = "ok" /\ stopByDataCallback
         \/ pc' = "next" /\ ~ stopByDataCallback /\ UNCHANGED result
  BY DEF FlushEnd, LoopGoesOnAfterFlush, Done, extractVars
<1>5. Control'
  BY <1>1, <1>2, <1>3, <1>4 DEF IInv, Control, Busy
<1>6. pc' \in {"done", "next"} /\ result' \in Results
  BY <1>3, <1>4 DEF Results
<1>7. QED
  BY <1>1, <1>3, <1>4, <1>5, <1>6, QuietStep DEF Pc, Busy

\* Extract returns.
LEMMA ExtractEndKeeps ==
  ASSUME IInv, ExtractEnd
  PROVE  IInv'
<1>1. pc = "next" /\ Quiet /\ UNCHANGED <<folderPos, block, blockBad>>
  BY DEF ExtractEnd, Quiet, decodeVars
<1>2. todo = <<>> /\ ~ stopByDataCallback
  BY <1>1 DEF IInv, Control, Coming, TypeOK
<1>3. UNCHANGED <<testMode, i, indices, todo, askMode, stopByDataCallback, sink>>
  BY <1>1 DEF Quiet, requestVars, fileVars, history
<1>4. /\ flushRes \in OpRes /\ thrown \in BOOLEAN
      /\ writeRes \in Results /\ firstRes \in Results
      /\ folderPos \in Nat /\ block \in 0 .. MaxBlock /\ blockBad \in BOOLEAN
  BY <1>1 DEF IInv, TypeOK
<1>5. /\ pc' = "done" /\ UNCHANGED <<writeRes, firstRes, flushRes, thrown>>
      /\ (result' = "ok" /\ i = Len(indices)) \/ result' = "abort"
  BY DEF ExtractEnd, Done
<1>6. Control'
  BY <1>2, <1>3, <1>5 DEF IInv, Control, Busy
<1>7. QED
  BY <1>1, <1>4, <1>5, <1>6, QuietStep DEF Pc, Results, Busy

\* Init is done.
LEMMA InitEndKeeps ==
  ASSUME IInv, InitEnd
  PROVE  IInv'
<1>1. pc = "init" /\ Quiet /\ UNCHANGED <<folderPos, block, blockBad>>
  BY DEF InitEnd, Quiet, decodeVars
<1>2. ~ stopByDataCallback /\ block = 0 /\ result = "none"
  BY <1>1 DEF IInv, Control, TypeOK
<1>3. UNCHANGED <<testMode, i, indices, todo, askMode, stopByDataCallback, sink>>
  BY <1>1 DEF Quiet, requestVars, fileVars, history
<1>4. /\ flushRes \in OpRes /\ thrown \in BOOLEAN /\ result \in Results
      /\ writeRes \in Results /\ firstRes \in Results
      /\ folderPos \in Nat /\ block \in 0 .. MaxBlock /\ blockBad \in BOOLEAN
  BY <1>1 DEF IInv, TypeOK
<1>5. /\ UNCHANGED <<writeRes, firstRes, flushRes, thrown>>
      /\ \/ pc' = "done" /\ result' = "fail"
         \/ pc' = "next" /\ todo = <<>> /\ UNCHANGED result
         \/ pc' = "decode" /\ folder # NoFolder /\ UNCHANGED result
  BY DEF InitEnd, Done, extractVars
<1>6. Control'
  BY <1>1, <1>2, <1>3, <1>5 DEF IInv, Control, Busy
<1>7. pc' \in {"done", "next", "decode"} /\ result' \in Results
  BY <1>4, <1>5 DEF Results
<1>8. QED
  BY <1>1, <1>4, <1>5, <1>6, <1>7, QuietStep DEF Pc, Busy

\* The decoder writes a block.
LEMMA DecodeBlockKeeps ==
  ASSUME IInv, DecodeBlock
  PROVE  IInv'
<1>1. /\ pc = "decode" /\ folderPos' = folderPos + block
      /\ block' \in 1 .. MaxBlock /\ blockBad' \in BOOLEAN
      /\ UNCHANGED <<writeRes, firstRes, flushRes, thrown, result>> /\ CallWrite
  BY DEF DecodeBlock, extractVars
<1>2. Quiet
  BY DEF DecodeBlock, Quiet
<1>3. result = "none" /\ folder # NoFolder /\ (~ Astray => block = 0)
  BY <1>1 DEF IInv, Control, Coming
<1>4. UNCHANGED <<testMode, i, indices, todo, fileIsOpen, rem, askMode, stopByDataCallback,
                  coder, sink>>
  BY <1>2 DEF Quiet, requestVars, fileVars, history
<1>5. /\ flushRes \in OpRes /\ thrown \in BOOLEAN /\ result \in Results
      /\ writeRes \in Results /\ firstRes \in Results
      /\ folderPos \in Nat /\ block \in Nat /\ MaxBlock \in Nat
  BY <1>1, FolderOutStreamAssumption DEF IInv, TypeOK
<1>6. pc' \in {"write", "empty"} /\ (pc' = "empty" => fileIsOpen' /\ rem' = 0)
  BY <1>1 DEF CallWrite
<1>7. Control'
  BY <1>1, <1>3, <1>4, <1>6 DEF IInv, Control, Busy
<1>8. folderPos' \in Nat /\ block' \in 0 .. MaxBlock /\ (~ Astray => folderPos' = folderPos)
  <2>1. folderPos + 0 = folderPos
    BY <1>5
  <2>2. ~ Astray => folderPos' = folderPos
    BY <1>1, <1>3, <2>1
  <2>3. QED
    BY <1>1, <1>5, <2>2
<1>9. QED
  BY <1>1, <1>2, <1>3, <1>5, <1>6, <1>7, <1>8, QuietStep DEF Pc, Busy

\* The decoder returns.
LEMMA DecodeEndKeeps ==
  ASSUME IInv, DecodeEnd
  PROVE  IInv'
<1>1. pc = "decode" /\ Quiet /\ UNCHANGED <<folderPos, block, blockBad>>
  BY DEF DecodeEnd, Quiet, decodeVars
<1>2. CASE /\ pc' = "flush" /\ flushRes' = "data" /\ thrown' = TRUE
           /\ UNCHANGED <<writeRes, firstRes, result>>
  <2>1. writeRes \in {"ok", "abort", "fail"} /\ firstRes \in Results /\ result = "none"
    BY <1>1 DEF IInv, Control, TypeOK
  <2>2. GaveUp
    BY <1>1, <1>2, <2>1 DEF GaveUp, OpRes, Results
  <2>3. QED
    BY <1>1, <2>2, QuietEnd
<1>3. CASE \E r \in Results \ {"none"}, after \in BOOLEAN : AfterDecode(r, after)
  <2>1. GaveUp
    BY <1>1, <1>3, DecoderReturns DEF IInv
  <2>2. QED
    BY <1>1, <2>1, QuietEnd
<1>4. QED
  <2>1. firstRes \in Results
    BY DEF IInv, TypeOK
  <2>2. \A x \in Results \ {"none"} : DecodeResults(x) \subseteq Results \ {"none"}
    BY DEF DecodeResults, Results
  <2>3. {"ok"} \subseteq Results \ {"none"}
    BY DEF Results
  <2> HIDE DEF AfterDecode
  <2>4. \/ firstRes # "none" /\ \E res \in DecodeResults(firstRes) : AfterDecode(res, FALSE)
        \/ \E res \in DecodeResults("ok") : AfterDecode(res, FALSE)
        \/ AfterDecode("ok", TRUE)
        \/ /\ pc' = "flush" /\ flushRes' = "data" /\ thrown' = TRUE
           /\ UNCHANGED <<writeRes, firstRes, result>>
    BY DEF DecodeEnd
  <2>5. QED
    BY <1>2, <1>3, <2>1, <2>2, <2>3, <2>4

-----------------------------------------------------------------------------
(* Where the current file is. *)

\* The current file is one of the archive, and not beyond the first one to come, which is
\* asked for.
LEMMA Here ==
  ASSUME IInv, todo # <<>>
  PROVE  /\ Len(todo) \in Nat \ {0} /\ Len(todo) <= i /\ i \in 1 .. Len(indices)
         /\ Head(todo) = todo[1] /\ todo[1] \in FileIndex
         /\ fileIndex \in FileIndex /\ fileIndex <= todo[1]
         /\ todo[1] <= indices[i]
         /\ AskedFor(todo[1])
<1>1. Len(todo) \in Nat \ {0} /\ todo \in Seq(FileIndex) /\ i \in Nat /\ i <= Len(indices)
  BY DEF IInv, TypeOK
<1>2. Len(todo) <= i /\ fileIndex <= todo[1] /\ todo[1] = indices[i - Len(todo) + 1]
  BY <1>1 DEF IInv, Coming
<1>3. Head(todo) = todo[1] /\ todo[1] \in FileIndex
  BY <1>1
<1>4. fileIndex \in FileIndex
  BY <1>2, <1>3, FileTypes DEF IInv, TypeOK, FileIndex
<1>5. /\ indices \in Seq(FileIndex)
      /\ \A j, k \in 1 .. Len(indices) : j < k => indices[j] < indices[k]
  BY FolderOutStreamAssumption DEF IInv, TypeOK
<1>6. PICK a \in 1 .. Len(indices) : a = i - Len(todo) + 1 /\ a <= i /\ i \in 1 .. Len(indices)
  BY <1>1, <1>2, <1>5
<1>7. indices[a] \in FileIndex /\ indices[i] \in FileIndex
  BY <1>5, <1>6
<1>8. todo[1] <= indices[i]
  <2>1. CASE a = i
    BY <1>2, <1>6, <1>7, <2>1, FileTypes
  <2>2. CASE a < i
    <3>1. indices[a] < indices[i]
      BY <1>5, <1>6, <2>2
    <3>2. QED
      BY <1>2, <1>6, <1>7, <3>1, FileTypes
  <2>3. QED
    BY <1>1, <1>6, <2>1, <2>2
<1>9. AskedFor(todo[1])
  BY <1>2, <1>6 DEF AskedFor
<1>10. QED
  BY <1>1, <1>2, <1>3, <1>4, <1>6, <1>8, <1>9

\* A file that was not opened.
LEMMA NotBegun ==
  ASSUME IInv, todo # <<>>, ~ fileIsOpen
  PROVE  /\ asked[fileIndex] = "none" /\ begun[fileIndex] = 0 /\ ended[fileIndex] = 0
         /\ written[fileIndex] = <<>> /\ delivered[fileIndex] = <<>>
         /\ opRes[fileIndex] = "none" /\ fileIndex \notin sink
<1>1. fileIndex \in FileIndex /\ ~ (fileIndex < fileIndex)
  BY Here, FileTypes
<1>2. asked[fileIndex] = "none"
  BY <1>1 DEF IInv, Brackets
<1>3. begun[fileIndex] = 0 /\ ended[fileIndex] = 0
  BY <1>1, <1>2 DEF IInv, Brackets
<1>4. QED
  BY <1>1, <1>2, <1>3 DEF IInv, Contents

\* The positions in the folder of the current file, when it has one.
LEMMA InFolder ==
  ASSUME IInv, todo # <<>>, folder # NoFolder
  PROVE  /\ FolderOf(fileIndex) = folder
         /\ First(fileIndex) = SizeOf(FolderStart(folder), fileIndex - 1)
         /\ First(fileIndex) \in Nat
<1> DEFINE s == FolderStart(folder)
           f == fileIndex
           t == todo[1]
<1>1. f \in FileIndex /\ t \in FileIndex /\ f <= t /\ Len(todo) \in Nat \ {0}
  BY Here
<1>2. FolderOf(t) = folder
  BY <1>1 DEF IInv, Coming
<1>3. s \in FileIndex /\ FolderOf(s) = folder /\ s <= f
  BY <1>1, <1>2, FolderStarts DEF IInv, Coming
<1>4. s \in Nat /\ f \in Nat /\ f \in Int
  BY <1>1, <1>3, FileTypes
<1>5. FolderOf(f) = folder
  <2> HIDE DEF s, f, t
  <2>1. QED
    BY <1>1, <1>2, <1>3, <1>4, Between
<1>6. First(f) = SizeOf(s, f - 1)
  BY <1>5 DEF First
<1>7. SizeOf(s, f - 1) \in Nat
  <2>1. f - 1 + 1 = f /\ s \in 0 .. Len(Files) /\ f \in 0 .. Len(Files)
    BY <1>1, <1>3, <1>4, FileTypes
  <2>2. SizeBefore[s] \in Nat /\ SizeBefore[f] \in Nat /\ SizeBefore[s] <= SizeBefore[f]
    BY <1>3, <2>1, SizesAdd, SizesGrow
  <2>3. QED
    BY <2>1, <2>2 DEF SizeOf
<1>8. QED
  BY <1>5, <1>6, <1>7

-----------------------------------------------------------------------------
(* Opening a file. *)

\* What opening a file changes, once its output stream was asked for.
Opened(ask, stream) ==
  LET f == fileIndex
  IN /\ fileIsOpen' = TRUE /\ rem' = File(f).size /\ badCrc' = FALSE /\ hasStream' = stream
     /\ asked' = [asked EXCEPT ![f] = ask]
     /\ sink' = IF stream THEN sink \cup {f} ELSE sink
     /\ UNCHANGED <<testMode, indices, i, fileIndex, todo, folder, coder, limit, folderPos, block,
                    blockBad, ended, opRes, delivered, written, crcBad, misplaced>>

\* How opening a file can end once it has its output stream: a callback fails, ...
OpenFailed(mode) ==
  /\ GaveUp /\ stopByDataCallback' = stopByDataCallback
  /\ \/ UNCHANGED <<askMode, begun>> /\ faulted' = faulted \cup {fileIndex}
     \/ askMode' = mode /\ begun' = Add1(begun, fileIndex) /\ faulted' = faulted

\* ... the test is stopped, ...
OpenStopped(mode) ==
  /\ mode = "test" /\ GaveUp /\ stopByDataCallback' = TRUE
  /\ askMode' = mode /\ begun' = Add1(begun, fileIndex) /\ faulted' = faulted

\* ... or the file is open.
OpenGoesOn(mode) ==
  /\ askMode' = mode /\ begun' = Add1(begun, fileIndex) /\ faulted' = faulted
  /\ UNCHANGED <<stopByDataCallback, pc, writeRes, firstRes, flushRes, thrown, result>>

\* Which ask modes and streams there are.
OpenModes(ask, mode, stream) ==
  /\ ask # "none" /\ (ask # "skip" => Head(todo) = fileIndex)
  /\ stream => ask = "extract" /\ ~ testMode
  /\ ask = "test" <=> mode = "test"
  /\ ask = "test" /\ pc # "flush" => testMode

\* How opening a file can end.
LEMMA OpenOutcomes ==
  ASSUME IInv, pc \in {"init", "write", "flush"}, OpenFile(pc = "flush")
  PROVE  \/ Quiet /\ UNCHANGED <<folderPos, block, blockBad>> /\ GaveUp
         \/ \E ask \in Modes, mode \in Modes, stream \in BOOLEAN :
              /\ Opened(ask, stream) /\ OpenModes(ask, mode, stream)
              /\ OpenFailed(mode) \/ OpenStopped(mode) \/ OpenGoesOn(mode)
<1> DEFINE ask == AskMode(pc = "flush")
           Mode(stream) == IF ask = "extract" /\ ~ stream THEN "skip" ELSE ask
           Refuses == /\ UNCHANGED <<askMode, stopByDataCallback, begun>>
                      /\ faulted' = faulted \cup {fileIndex} /\ Fail("abort")
           Halts(mode) == /\ StopHonoured(mode) /\ askMode' = mode
                          /\ begun' = Add1(begun, fileIndex) /\ faulted' = faulted
                          /\ stopByDataCallback' = TRUE /\ Fail("cut")
           GoesOn(mode) == /\ askMode' = mode /\ begun' = Add1(begun, fileIndex)
                           /\ faulted' = faulted /\ UNCHANGED stopByDataCallback
                           /\ UNCHANGED flow \/ Fail("abort")
<1>1. \/ /\ UNCHANGED <<requestVars, fileVars, stopByDataCallback, decodeVars, history>>
         /\ Fail("abort")
      \/ \E stream \in IF ask = "extract" THEN BOOLEAN ELSE {FALSE} :
           Opened(ask, stream) /\ (Refuses \/ Halts(Mode(stream)) \/ GoesOn(Mode(stream)))
  BY DEF OpenFile, Opened, requestVars, decodeVars
<1>2. /\ Fail("abort") => GaveUp
      /\ Fail("cut") /\ stopByDataCallback' = TRUE => GaveUp
  <2>1. TypeOK /\ Control /\ pc # "done"
    BY DEF IInv
  <2>2. \A r \in {"abort", "cut"} :
          Fail(r) /\ (r = "cut" => stopByDataCallback' = TRUE) => GaveUp
    BY <2>1, Fails
  <2>3. QED
    BY <2>2
<1> HIDE DEF Fail, GaveUp
<1>3. CASE UNCHANGED <<requestVars, fileVars, stopByDataCallback, decodeVars, history>>
           /\ Fail("abort")
  BY <1>2, <1>3 DEF Quiet, decodeVars
<1>4. ASSUME NEW stream \in IF ask = "extract" THEN BOOLEAN ELSE {FALSE},
             Opened(ask, stream),
             Refuses \/ Halts(Mode(stream)) \/ GoesOn(Mode(stream))
      PROVE  \E a \in Modes, mode \in Modes, s \in BOOLEAN :
               /\ Opened(a, s) /\ OpenModes(a, mode, s)
               /\ OpenFailed(mode) \/ OpenStopped(mode) \/ OpenGoesOn(mode)
  <2> DEFINE mode == Mode(stream)
  <2>1. /\ ask \in Modes /\ ask # "none" /\ (ask # "skip" => Head(todo) = fileIndex)
        /\ (ask = "extract" => ~ testMode) /\ (ask = "test" /\ pc # "flush" => testMode)
    BY DEF AskMode, AskedNext, Modes
  <2>2. mode \in Modes /\ stream \in BOOLEAN /\ OpenModes(ask, mode, stream)
    BY <1>4, <2>1 DEF Modes, OpenModes
  <2> HIDE DEF mode
  <2>3. CASE Refuses
    BY <1>2, <1>4, <2>1, <2>2, <2>3 DEF OpenFailed
  <2>4. CASE Halts(mode)
    BY <1>2, <1>4, <2>1, <2>2, <2>4 DEF OpenStopped, StopHonoured
  <2>5. CASE GoesOn(mode) /\ UNCHANGED flow
    <3>1. OpenGoesOn(mode)
      BY <2>5 DEF OpenGoesOn, flow, extractVars
    <3>2. QED
      BY <1>4, <2>1, <2>2, <3>1
  <2>6. CASE GoesOn(mode) /\ Fail("abort")
    BY <1>2, <1>4, <2>1, <2>2, <2>6 DEF OpenFailed
  <2>7. QED
    BY <1>4, <2>3, <2>4, <2>5, <2>6 DEF mode
<1>5. QED
  <2> HIDE DEF ask, Mode, Refuses, Halts, GoesOn
  <2>1. QED
    BY <1>1, <1>3, <1>4

\* A file that has its output stream: whatever its callbacks answer.
LEMMA OpenedKeeps ==
  ASSUME IInv, pc \in {"init", "write", "flush"}, ~ fileIsOpen, todo # <<>>,
         NEW ask \in Modes, NEW mode \in Modes, NEW stream \in BOOLEAN,
         Opened(ask, stream), OpenModes(ask, mode, stream),
         OpenFailed(mode) \/ OpenStopped(mode) \/ OpenGoesOn(mode)
  PROVE  IInv'
<1> DEFINE f == fileIndex
<1>1. /\ f \in FileIndex /\ f \in Nat /\ File(f).size \in Nat /\ f <= todo[1]
      /\ i \in 1 .. Len(indices) /\ Head(todo) = todo[1] /\ todo[1] <= indices[i]
      /\ AskedFor(todo[1]) /\ todo[1] \in FileIndex
  BY Here, FileTypes
<1>2. /\ asked[f] = "none" /\ begun[f] = 0 /\ ended[f] = 0
      /\ written[f] = <<>> /\ delivered[f] = <<>> /\ opRes[f] = "none" /\ f \notin sink
  BY NotBegun
<1>3. /\ fileIsOpen' = TRUE /\ rem' = File(f).size /\ badCrc' = FALSE /\ hasStream' = stream
      /\ asked' = [asked EXCEPT ![f] = ask]
      /\ sink' = IF stream THEN sink \cup {f} ELSE sink
      /\ UNCHANGED <<testMode, indices, i, fileIndex, todo, folder, coder, limit, folderPos,
                     block, blockBad, ended, opRes, delivered, written, crcBad, misplaced>>
  BY DEF Opened
<1>4. /\ ask # "none" /\ (ask # "skip" => todo[1] = f)
      /\ (stream => ask = "extract" /\ ~ testMode) /\ (ask = "test" <=> mode = "test")
      /\ (ask = "test" /\ pc # "flush" => testMode)
  BY <1>1 DEF OpenModes
<1>5. TypeOK
  BY DEF IInv
\* The three ends, in one formula.
<1>6. /\ \/ begun' = begun /\ askMode' = askMode /\ faulted' = faulted \cup {f}
         \/ begun' = [begun EXCEPT ![f] = @ + 1] /\ askMode' = mode /\ faulted' = faulted
      /\ \/ stopByDataCallback' = stopByDataCallback
         \/ stopByDataCallback' = TRUE /\ mode = "test"
      /\ \/ GaveUp
         \/ UNCHANGED <<stopByDataCallback, pc, writeRes, firstRes, flushRes, thrown, result>>
  BY DEF OpenFailed, OpenStopped, OpenGoesOn, Add1
<1> HIDE DEF f
<1>7. f = fileIndex
  BY DEF f
<1>19. /\ (stopByDataCallback => stopByDataCallback') /\ (~ Astray' => ~ Astray)
       /\ (Busy' => Busy) /\ pc' # "next"
       /\ (pc' \in {"decode", "write", "empty"} => pc \in {"decode", "write", "empty"})
  BY <1>3, <1>6 DEF Astray, Busy, GaveUp, InWrite
<1>8. TypeOK'
  <2>1. asked' \in [FileIndex -> Modes] /\ sink' \subseteq FileIndex /\ rem' \in Nat
    BY <1>1, <1>3, <1>5 DEF TypeOK
  <2>2. begun' \in [FileIndex -> Nat] /\ askMode' \in Modes
    <3>1. begun \in [FileIndex -> Nat] /\ askMode \in Modes
      BY <1>5 DEF TypeOK
    <3>2. [begun EXCEPT ![f] = @ + 1] \in [FileIndex -> Nat]
      BY <1>1, <1>2, <3>1
    <3>3. QED
      BY <1>6, <3>1, <3>2
  <2>3. /\ pc' \in Pc /\ flushRes' \in OpRes /\ thrown' \in BOOLEAN /\ result' \in Results
        /\ stopByDataCallback' \in BOOLEAN /\ writeRes' \in Results /\ firstRes' \in Results
    <3>1. stopByDataCallback' \in BOOLEAN
      BY <1>5, <1>6 DEF TypeOK
    <3>2. CASE GaveUp
      BY <3>1, <3>2 DEF GaveUp, Pc, Results
    <3>3. CASE UNCHANGED <<stopByDataCallback, pc, writeRes, firstRes, flushRes, thrown, result>>
      BY <1>5, <3>1, <3>3 DEF TypeOK
    <3>4. QED
      BY <1>6, <3>2, <3>3
  <2>4. faulted' \subseteq FileIndex
    BY <1>1, <1>5, <1>6 DEF TypeOK
  <2>5. QED
    BY <1>3, <1>5, <2>1, <2>2, <2>3, <2>4 DEF TypeOK
<1>9. Control'
  <2>1. CASE GaveUp
    <3>1. stopByDataCallback' /\ pc' # "done" => testMode
      BY <1>4, <1>6, <2>1 DEF GaveUp, IInv, Control
    <3>2. testMode => sink' = {}
      BY <1>3, <1>4 DEF IInv, Control
    <3>3. Busy' /\ askMode' = "test" => testMode
      BY <1>4, <1>6, <2>1 DEF GaveUp, InWrite, Busy, IInv, Control
    <3>4. QED
      BY <1>3, <2>1, <3>1, <3>2, <3>3 DEF GaveUp, Control, Astray
  <2>2. CASE UNCHANGED <<stopByDataCallback, pc, writeRes, firstRes, flushRes, thrown, result>>
    <3>1. testMode => sink' = {}
      BY <1>3, <1>4 DEF IInv, Control
    <3>2. Busy' /\ askMode' = "test" => testMode
      BY <1>4, <1>6, <2>2 DEF Busy, IInv, Control
    <3>3. QED
      BY <1>3, <2>2, <3>1, <3>2 DEF IInv, Control
  <2>3. QED
    BY <1>6, <2>1, <2>2
<1>10. Coming'
  BY <1>3, <1>19 DEF IInv, Coming
<1>11. Brackets'
  <2>1. \A h \in FileIndex : begun[h] \in Nat /\ ended[h] \in Nat
    BY <1>5 DEF TypeOK
  <2>2. \A h \in FileIndex : begun'[h] = begun[h] \/ (h = f /\ begun'[h] = 1)
    BY <1>1, <1>2, <1>5, <1>6 DEF TypeOK
  <2>3. \A h \in FileIndex : begun'[h] <= 1 /\ ended'[h] <= 1
    BY <1>2, <1>3, <2>1, <2>2 DEF IInv, Brackets
  <2>4. \A h \in FileIndex : asked'[h] = IF h = f THEN ask ELSE asked[h]
    BY <1>3, <1>5 DEF TypeOK
  <2>5. ASSUME NEW h \in FileIndex, asked'[h] = "none" PROVE begun'[h] = 0 /\ ended'[h] = 0
    <3>1. h # f /\ asked[h] = "none"
      BY <1>4, <2>4, <2>5
    <3>2. QED
      BY <1>3, <2>2, <3>1 DEF IInv, Brackets
  <2>6. ASSUME NEW h \in FileIndex, asked'[h] # "none"
        PROVE  i' > 0 /\ h <= indices'[i'] /\ (h < fileIndex' \/ (fileIsOpen' /\ h = fileIndex'))
    <3>1. CASE h = f
      <4>1. indices \in Seq(FileIndex)
        BY <1>5, FolderOutStreamAssumption DEF TypeOK
      <4>2. indices[i] \in FileIndex
        BY <1>1, <4>1
      <4>3. indices[i] \in Nat /\ todo[1] \in Nat
        BY <1>1, <4>2, FileTypes
      <4>4. h <= indices[i]
        BY <1>1, <1>7, <3>1, <4>3
      <4>5. i > 0
        BY <1>1, <4>1
      <4>6. QED
        BY <1>3, <1>7, <3>1, <4>4, <4>5
    <3>2. CASE h # f
      <4>1. asked[h] # "none"
        BY <2>4, <2>6, <3>2
      <4>2. i > 0 /\ h <= indices[i] /\ h < f
        BY <1>7, <3>2, <4>1 DEF IInv, Brackets
      <4>3. QED
        BY <1>3, <1>7, <4>2
    <3>3. QED
      BY <3>1, <3>2
  <2>7. ASSUME NEW h \in FileIndex \ faulted'
        PROVE  begun'[h] = ended'[h] + IF fileIsOpen' /\ h = fileIndex' THEN 1 ELSE 0
    <3>1. CASE h = f
      <4>1. begun' = [begun EXCEPT ![f] = @ + 1]
        BY <1>6, <2>7, <3>1
      <4>2. begun'[f] = 1
        BY <1>1, <1>2, <1>5, <4>1 DEF TypeOK
      <4>3. QED
        BY <1>2, <1>3, <1>7, <3>1, <4>2
    <3>2. CASE h # f
      <4>1. h \in FileIndex \ faulted /\ begun'[h] = begun[h]
        BY <1>5, <1>6, <2>7, <3>2 DEF TypeOK
      <4>2. begun[h] = ended[h] + 0
        BY <4>1 DEF IInv, Brackets
      <4>3. QED
        BY <1>3, <1>7, <3>2, <4>1, <4>2
    <3>3. QED
      BY <3>1, <3>2
  <2>8. asked'[fileIndex'] # "none" /\ ended'[fileIndex'] = 0
    BY <1>1, <1>2, <1>3, <1>4, <1>7, <2>4
  <2>9. QED
    BY <2>3, <2>5, <2>6, <2>7, <2>8 DEF Brackets
<1>12. Reports'
  <2>1. \A h \in FileIndex : asked'[h] \notin {"none", "skip"} => AskedFor(h)
    <3>1. SUFFICES ASSUME NEW h \in FileIndex, asked'[h] \notin {"none", "skip"}
                   PROVE  AskedFor(h)
      OBVIOUS
    <3>2. CASE h = f
      BY <1>1, <1>3, <1>4, <1>5, <3>1, <3>2 DEF TypeOK
    <3>3. CASE h # f
      BY <1>3, <1>5, <3>1, <3>3 DEF TypeOK, IInv, Reports
    <3>4. QED
      BY <3>2, <3>3
  <2>2. \A h : AskedFor(h)' = AskedFor(h)
    BY <1>3 DEF AskedFor
  <2>3. \A h : h \notin faulted' => h \notin faulted
    BY <1>6
  <2>4. QED
    BY <1>3, <2>1, <2>2, <2>3 DEF IInv, Reports
<1>13. Place'
  <2>1. rem' <= File(f).size /\ File(f).size - rem' = 0
    BY <1>1, <1>3
  <2>2. ASSUME Busy', folder' # NoFolder, ~ Astray'
        PROVE  folderPos' = SizeOf(FolderStart(folder'), fileIndex' - 1)
                        + (File(fileIndex').size - rem')
    <3>1. folderPos = SizeOf(FolderStart(folder), f - 1) + 0
      BY <1>3, <1>7, <1>19, <2>2 DEF IInv, Place
    <3>2. QED
      BY <1>3, <1>7, <2>1, <3>1
  <2>3. OffsetsTrue'
    BY <1>3, <1>19 DEF IInv, Place, OffsetsTrue
  <2>4. QED
    BY <1>3, <1>7, <2>1, <2>2, <2>3 DEF Place
<1>14. Contents'
  <2>1. \A h \in FileIndex : asked'[h] = IF h = f THEN ask ELSE asked[h]
    BY <1>3, <1>5 DEF TypeOK
  <2>2. ASSUME NEW h \in FileIndex, asked'[h] = "none"
        PROVE  /\ written'[h] = <<>> /\ delivered'[h] = <<>>
               /\ opRes'[h] = "none" /\ h \notin sink'
    <3>1. h # f /\ asked[h] = "none"
      BY <1>4, <2>1, <2>2
    <3>2. QED
      BY <1>3, <3>1 DEF IInv, Contents
  <2>3. Positions(First(f), File(f).size - rem') = <<>>
    <3>1. File(f).size - rem' = 0
      BY <1>1, <1>3
    <3>2. QED
      BY <3>1 DEF Positions
  <2>4. asked'[f] = ask
    BY <1>1, <2>1
  <2>5. f \notin faulted' => askMode' = mode
    BY <1>6
  <2>6. /\ written'[f] = IF hasStream' THEN <<>> ELSE <<>>
        /\ hasStream' <=> f \in sink'
        /\ opRes'[f] = "none"
        /\ hasStream' => asked'[f] = "extract"
        /\ asked'[f] = "test" /\ f \notin faulted' => askMode' = "test"
        /\ delivered'[f] = <<>>
    BY <1>2, <1>3, <1>4, <2>4, <2>5
  <2>7. fileIndex' = f
    BY <1>3, <1>7
  <2>8. QED
    BY <2>2, <2>3, <2>6, <2>7 DEF Contents
<1>15. WrittenInPlace'
  BY <1>3 DEF IInv, WrittenInPlace
<1>16. OkIsComplete'
  <2>1. SUFFICES ASSUME NEW h \in FileIndex, opRes'[h] = "ok"
                 PROVE  /\ h \in sink' => written'[h] = BytesOf(h) /\ ~ crcBad'[h]
                        /\ asked'[h] = "test" /\ ~ stopByDataCallback' /\ h \notin faulted' =>
                             delivered'[h] = BytesOf(h) /\ ~ crcBad'[h]
    BY DEF OkIsComplete
  <2>2. h # f
    BY <1>2, <1>3, <2>1
  <2>3. (h \in sink' <=> h \in sink) /\ asked'[h] = asked[h] /\ opRes[h] = "ok"
    BY <1>3, <1>5, <2>1, <2>2 DEF TypeOK
  <2>4. (~ stopByDataCallback' => ~ stopByDataCallback) /\ (h \notin faulted' => h \notin faulted)
    BY <1>6, <1>19
  <2>5. QED
    BY <1>3, <2>3, <2>4 DEF IInv, OkIsComplete
<1>17. QED
  BY <1>8, <1>9, <1>10, <1>11, <1>12, <1>13, <1>14, <1>15, <1>16 DEF IInv

\* Opening a file.
LEMMA OpenKeeps ==
  ASSUME IInv, pc \in {"init", "write", "flush"}, ~ fileIsOpen, todo # <<>>,
         OpenFile(pc = "flush")
  PROVE  IInv'
<1>1. CASE Quiet /\ UNCHANGED <<folderPos, block, blockBad>> /\ GaveUp
  BY <1>1, QuietEnd
<1>2. CASE \E ask \in Modes, mode \in Modes, stream \in BOOLEAN :
             /\ Opened(ask, stream) /\ OpenModes(ask, mode, stream)
             /\ OpenFailed(mode) \/ OpenStopped(mode) \/ OpenGoesOn(mode)
  BY <1>2, OpenedKeeps
<1>3. QED
  BY <1>1, <1>2, OpenOutcomes

-----------------------------------------------------------------------------
(* Closing a file. *)

\* The bytes of the current file, when all have come.
LEMMA WholeFile ==
  ASSUME IInv, fileIsOpen, rem = 0
  PROVE  Positions(First(fileIndex), File(fileIndex).size - rem) = BytesOf(fileIndex)
<1> DEFINE f == fileIndex
<1>1. f \in FileIndex /\ File(f).size \in Nat /\ File(f).size - rem = File(f).size
  <2>1. todo # <<>>
    BY DEF IInv, Coming
  <2>2. QED
    BY <2>1, Here, FileTypes
<1>2. CASE FolderOf(f) = NoFolder
  <2>1. File(f).size = 0
    BY <1>1, <1>2, FolderOutStreamAssumption
  <2>2. QED
    BY <1>1, <1>2, <2>1 DEF BytesOf, Positions
<1>3. CASE FolderOf(f) # NoFolder
  BY <1>1, <1>3 DEF BytesOf
<1>4. QED
  BY <1>2, <1>3

\* What closing a file with a result changes.
Closed(res) ==
  LET f == fileIndex
  IN /\ fileIsOpen' = FALSE /\ hasStream' = FALSE
     /\ todo' = TodoAfter /\ fileIndex' = f + 1
     /\ UNCHANGED <<testMode, indices, i, rem, askMode, badCrc, stopByDataCallback, folder, coder,
                    limit, folderPos, block, blockBad, begun, asked, sink, delivered, written,
                    misplaced>>
     /\ \/ UNCHANGED <<ended, opRes, crcBad>> /\ faulted' = faulted \cup {f} /\ GaveUp
        \/ /\ opRes' = [opRes EXCEPT ![f] = res]
           /\ ended' = [ended EXCEPT ![f] = @ + 1]
           /\ crcBad' = [crcBad EXCEPT ![f] = badCrc]
           /\ faulted' = faulted
           /\ UNCHANGED <<pc, writeRes, firstRes, flushRes, thrown, result>> \/ GaveUp

\* How closing a file can end.
LEMMA CloseOutcomes ==
  ASSUME IInv, pc # "done", NEW res \in OpRes, CloseFile(res)
  PROVE  Closed(res)
<1>1. TypeOK /\ Control
  BY DEF IInv
<1>2. Fail("abort") => GaveUp
  BY <1>1, Fails
<1>3. UNCHANGED flow => UNCHANGED <<pc, writeRes, firstRes, flushRes, thrown, result>>
  BY DEF flow, extractVars
<1> HIDE DEF Fail, GaveUp
<1>4. /\ fileIsOpen' = FALSE /\ hasStream' = FALSE
      /\ todo' = TodoAfter /\ fileIndex' = fileIndex + 1
      /\ UNCHANGED <<testMode, indices, i, rem, askMode, badCrc, stopByDataCallback, folder, coder,
                     limit, folderPos, block, blockBad, begun, asked, sink, delivered, written,
                     misplaced>>
  BY DEF CloseFile, requestVars, decodeVars
<1>5. \/ UNCHANGED <<ended, opRes, crcBad>> /\ faulted' = faulted \cup {fileIndex} /\ Fail("abort")
      \/ /\ opRes' = [opRes EXCEPT ![fileIndex] = res]
         /\ ended' = [ended EXCEPT ![fileIndex] = @ + 1]
         /\ crcBad' = [crcBad EXCEPT ![fileIndex] = badCrc]
         /\ faulted' = faulted
         /\ UNCHANGED flow \/ Fail("abort")
  BY DEF CloseFile, Add1
<1>6. QED
  BY <1>2, <1>3, <1>4, <1>5, Zenon DEF Closed

\* Closing a file with a result that is true.
LEMMA ClosedKeeps ==
  ASSUME IInv, pc \in {"init", "write", "flush"}, fileIsOpen, NEW res \in OpRes, Closed(res),
         res # "none",
         pc # "flush" => rem = 0,
         res = "ok" => stopByDataCallback \/ (rem = 0 /\ ~ badCrc)
  PROVE  IInv'
<1> DEFINE f == fileIndex
<1>0. todo # <<>>
  BY DEF IInv, Coming
<1>1. /\ f \in FileIndex /\ f \in Nat /\ f < Len(Files) /\ Len(Files) \in Nat
      /\ File(f).size \in Nat /\ f <= todo[1] /\ Len(todo) \in Nat \ {0} /\ Len(todo) <= i
      /\ i \in 1 .. Len(indices) /\ Head(todo) = todo[1] /\ todo[1] \in FileIndex
  BY <1>0, Here, FileTypes
<1>2. TypeOK /\ Control /\ pc \notin {"done", "empty", "decode", "next"} /\ result = "none"
  BY DEF IInv, Control
<1>3. /\ asked[f] # "none" /\ ended[f] = 0 /\ opRes[f] = "none" /\ begun[f] <= 1
      /\ f \notin faulted => begun[f] = 1
  <2>1. asked[f] # "none" /\ ended[f] = 0 /\ begun[f] <= 1 /\ opRes[f] = "none"
    BY <1>1 DEF IInv, Brackets, Contents
  <2>2. f \notin faulted => begun[f] = ended[f] + 1
    BY <1>1 DEF IInv, Brackets
  <2>3. QED
    BY <2>1, <2>2
<1>4. /\ fileIsOpen' = FALSE /\ hasStream' = FALSE /\ todo' = TodoAfter /\ fileIndex' = f + 1
      /\ UNCHANGED <<testMode, indices, i, rem, askMode, badCrc, stopByDataCallback, folder, coder,
                     limit, folderPos, block, blockBad, begun, asked, sink, delivered, written,
                     misplaced>>
  BY DEF Closed
<1>5. /\ \/ UNCHANGED <<ended, opRes, crcBad>> /\ faulted' = faulted \cup {f}
         \/ /\ opRes' = [opRes EXCEPT ![f] = res]
            /\ ended' = [ended EXCEPT ![f] = @ + 1]
            /\ crcBad' = [crcBad EXCEPT ![f] = badCrc]
            /\ faulted' = faulted
      /\ UNCHANGED <<pc, writeRes, firstRes, flushRes, thrown, result>> \/ GaveUp
  BY DEF Closed
<1> HIDE DEF f
<1>6. f = fileIndex
  BY DEF f
\* The files still to come.
<1>7. /\ todo' \in Seq(FileIndex) /\ Len(todo') \in Nat
      /\ \/ todo[1] # f /\ todo' = todo
         \/ /\ todo[1] = f /\ Len(todo') = Len(todo) - 1
            /\ \A j \in 1 .. Len(todo') : todo'[j] = todo[j + 1]
  <2>1. todo \in Seq(FileIndex)
    BY <1>2 DEF TypeOK
  <2>2. CASE todo[1] = f
    <3>1. todo' = Tail(todo)
      BY <1>0, <1>1, <1>4, <1>6, <2>2 DEF TodoAfter, AskedNext
    <3>2. QED
      BY <1>0, <1>1, <2>1, <2>2, <3>1
  <2>3. CASE todo[1] # f
    <3>1. todo' = todo
      BY <1>0, <1>1, <1>4, <1>6, <2>3 DEF TodoAfter, AskedNext
    <3>2. QED
      BY <1>1, <2>1, <2>3, <3>1
  <2>4. QED
    BY <2>2, <2>3
<1>18. /\ (~ Astray' => ~ Astray) /\ (Busy' => pc = "init" \/ pc = "write") /\ pc' # "next"
       /\ (pc' \in {"decode", "write", "empty"} => pc = "write")
  BY <1>0, <1>2, <1>4, <1>5 DEF Astray, Busy, GaveUp, InWrite
<1>8. TypeOK'
  <2>1. fileIndex' \in 0 .. Len(Files)
    BY <1>1, <1>4
  <2>2. opRes' \in [FileIndex -> OpRes] /\ crcBad' \in [FileIndex -> BOOLEAN]
    BY <1>1, <1>2, <1>5, ZenonT(40) DEF TypeOK
  <2>3. ended' \in [FileIndex -> Nat]
    BY <1>1, <1>2, <1>3, <1>5, SMTT(30) DEF TypeOK
  <2>4. /\ pc' \in Pc /\ result' \in Results /\ writeRes' \in Results /\ firstRes' \in Results
        /\ flushRes' \in OpRes /\ thrown' \in BOOLEAN /\ faulted' \subseteq FileIndex
    BY <1>1, <1>2, <1>5 DEF TypeOK, GaveUp, Pc, Results
  <2>5. QED
    BY <1>2, <1>4, <1>7, <2>1, <2>2, <2>3, <2>4 DEF TypeOK
<1>9. Control'
  <2>1. CASE GaveUp
    BY <1>2, <1>4, <2>1 DEF GaveUp, Control, Astray, InWrite, Busy
  <2>2. CASE UNCHANGED <<pc, writeRes, firstRes, flushRes, thrown, result>>
    BY <1>2, <1>4, <2>2 DEF Control, Busy
  <2>3. QED
    BY <1>5, <2>1, <2>2
<1>10. Coming'
  <2>1. Len(todo') <= i
    BY <1>1, <1>7
  <2>2. ASSUME NEW j \in 1 .. Len(todo') PROVE todo'[j] = indices[i - Len(todo') + j]
    <3>1. CASE todo[1] # f
      <4>1. todo' = todo
        BY <1>7, <3>1
      <4>2. QED
        BY <2>2, <4>1 DEF IInv, Coming
    <3>2. CASE todo[1] = f
      <4>1. Len(todo') = Len(todo) - 1 /\ todo'[j] = todo[j + 1]
        BY <1>7, <3>2
      <4>2. j + 1 \in 1 .. Len(todo) /\ i - Len(todo) + (j + 1) = i - Len(todo') + j
        BY <1>1, <4>1, <2>2
      <4>3. todo[j + 1] = indices[i - Len(todo) + (j + 1)]
        BY <4>2 DEF IInv, Coming
      <4>4. QED
        BY <4>1, <4>2, <4>3
    <3>3. QED
      BY <3>1, <3>2
  <2>3. ASSUME todo' # <<>> PROVE fileIndex' <= todo'[1]
    <3>1. Len(todo') \in Nat \ {0}
      BY <1>7, <2>3
    <3>2. CASE todo[1] # f
      <4>1. todo' = todo /\ todo[1] \in Nat
        BY <1>1, <1>7, <3>2, FileTypes
      <4>2. f + 1 <= todo[1]
        BY <1>1, <3>2, <4>1
      <4>3. QED
        BY <1>4, <4>1, <4>2
    <3>3. CASE todo[1] = f
      <4>1. Len(todo') = Len(todo) - 1 /\ todo'[1] = todo[2] /\ 2 \in 1 .. Len(todo)
        BY <1>1, <1>7, <3>1, <3>3
      <4>2. todo[1] = indices[i - Len(todo) + 1] /\ todo[2] = indices[i - Len(todo) + 2]
        BY <4>1 DEF IInv, Coming
      <4>3. PICK a \in 1 .. Len(indices), b \in 1 .. Len(indices) :
              a = i - Len(todo) + 1 /\ b = i - Len(todo) + 2 /\ a < b
        <5>1. PICK l \in Nat : l = Len(todo)
          BY <1>1
        <5>2. PICK m \in Nat : m = Len(indices)
          BY <1>2, FolderOutStreamAssumption DEF TypeOK
        <5>3. l >= 2 /\ l <= i /\ i \in 1 .. m
          BY <1>1, <4>1, <5>1, <5>2
        <5>4. i - l + 1 \in 1 .. m /\ i - l + 2 \in 1 .. m /\ i - l + 1 < i - l + 2
          BY <5>1, <5>2, <5>3
        <5>5. QED
          BY <5>1, <5>2, <5>4
      <4>4. indices \in Requests
        BY <1>2 DEF TypeOK
      <4>5. indices[a] < indices[b]
        BY <4>3, <4>4, FolderOutStreamAssumption
      <4>6. todo[1] < todo[2] /\ todo[1] \in Nat /\ todo[2] \in Nat
        <5>1. todo[2] \in FileIndex
          BY <1>2, <4>1 DEF TypeOK
        <5>2. QED
          BY <1>1, <4>2, <4>3, <4>5, <5>1, FileTypes
      <4>7. QED
        BY <1>4, <3>3, <4>1, <4>6
    <3>4. QED
      BY <3>2, <3>3
  <2>4. ASSUME todo' # <<>>, NEW j \in 1 .. Len(todo') PROVE FolderOf(todo'[j]) = folder
    <3>1. \E k \in 1 .. Len(todo) : todo'[j] = todo[k]
      <4>1. CASE todo[1] # f
        BY <1>7, <2>4, <4>1
      <4>2. CASE todo[1] = f
        <5>1. Len(todo') = Len(todo) - 1 /\ todo'[j] = todo[j + 1]
          BY <1>7, <4>2
        <5>2. j + 1 \in 1 .. Len(todo)
          BY <1>1, <2>4, <5>1
        <5>3. QED
          BY <5>1, <5>2
      <4>3. QED
        BY <4>1, <4>2
    <3>2. QED
      BY <1>0, <3>1 DEF IInv, Coming
  <2>5. folder = NoFolder => Len(todo') <= 1 /\ (todo' # <<>> => fileIndex' = todo'[1])
    <3>1. SUFFICES ASSUME folder = NoFolder PROVE Len(todo') = 0
      BY <1>7
    <3>2. Len(todo) <= 1 /\ f = todo[1]
      BY <1>0, <1>6, <3>1 DEF IInv, Coming
    <3>3. Len(todo) = 1
      <4>1. PICK l \in Nat : l = Len(todo) /\ l # 0
        BY <1>1
      <4>2. l <= 1
        BY <3>2, <4>1
      <4>3. QED
        BY <4>1, <4>2
    <3>4. QED
      BY <1>7, <3>2, <3>3
  <2>6. folder # NoFolder =>
          FolderStart(folder) \in FileIndex /\ FolderStart(folder) <= fileIndex'
    <3>1. SUFFICES ASSUME folder # NoFolder
                   PROVE  FolderStart(folder) \in FileIndex /\ FolderStart(folder) <= fileIndex'
      OBVIOUS
    <3>2. FolderStart(folder) \in FileIndex /\ FolderStart(folder) <= f
      BY <1>6, <3>1 DEF IInv, Coming
    <3>3. FolderStart(folder) \in Nat
      BY <3>2, FileTypes
    <3>4. FolderStart(folder) <= f + 1
      BY <1>1, <3>2, <3>3
    <3>5. QED
      BY <1>4, <3>2, <3>4
  <2>7. pc' \in {"decode", "write", "empty"} => folder # NoFolder
    BY <1>18 DEF IInv, Coming
  <2>8. QED
    BY <1>4, <1>18, <2>1, <2>2, <2>3, <2>4, <2>5, <2>6, <2>7 DEF IInv, Coming
<1>11. Brackets'
  <2>1. \A h \in FileIndex : begun[h] \in Nat /\ ended[h] \in Nat
    BY <1>2 DEF TypeOK
  <2>2. \A h \in FileIndex : ended'[h] = ended[h] \/ (h = f /\ ended'[h] = 1)
    BY <1>1, <1>2, <1>3, <1>5 DEF TypeOK
  <2>3. \A h \in FileIndex : begun'[h] <= 1 /\ ended'[h] <= 1
    BY <1>4, <2>1, <2>2 DEF IInv, Brackets
  <2>4. ASSUME NEW h \in FileIndex, asked'[h] = "none" PROVE begun'[h] = 0 /\ ended'[h] = 0
    <3>1. asked[h] = "none" /\ h # f
      BY <1>3, <1>4, <2>4
    <3>2. QED
      BY <1>4, <2>2, <3>1 DEF IInv, Brackets
  <2>5. \A h \in FileIndex : asked'[h] # "none" => i' > 0 /\ h <= indices'[i'] /\ h < fileIndex'
    <3>1. SUFFICES ASSUME NEW h \in FileIndex, asked[h] # "none"
                   PROVE  i > 0 /\ h <= indices[i] /\ h < f + 1
      BY <1>4
    <3>2. i > 0 /\ h <= indices[i] /\ (h < f \/ h = f)
      BY <1>6, <3>1 DEF IInv, Brackets
    <3>3. QED
      BY <1>1, <3>2, FileTypes
  <2>6. ASSUME NEW h \in FileIndex \ faulted' PROVE begun'[h] = ended'[h] + 0
    <3>1. CASE h = f
      <4>1. ended' = [ended EXCEPT ![f] = @ + 1] /\ f \notin faulted
        BY <1>5, <2>6, <3>1
      <4>2. ended'[f] = 1
        BY <1>1, <1>2, <1>3, <4>1 DEF TypeOK
      <4>3. QED
        BY <1>3, <1>4, <3>1, <4>1, <4>2
    <3>2. CASE h # f
      <4>1. h \in FileIndex \ faulted /\ ended'[h] = ended[h]
        BY <1>2, <1>5, <2>6, <3>2 DEF TypeOK
      <4>2. begun[h] = ended[h] + 0
        BY <1>6, <3>2, <4>1 DEF IInv, Brackets
      <4>3. QED
        BY <1>4, <4>1, <4>2
    <3>3. QED
      BY <3>1, <3>2
  <2>7. QED
    BY <1>4, <2>3, <2>4, <2>5, <2>6 DEF Brackets
<1>12. Reports'
  <2>1. ASSUME NEW j \in 1 .. i' - Len(todo'), indices'[j] \notin faulted'
        PROVE  ended'[indices'[j]] = 1 /\ opRes'[indices'[j]] # "none"
    <3>1. /\ indices[j] \notin faulted
          /\ \/ f \in faulted' /\ UNCHANGED <<ended, opRes>>
             \/ /\ opRes' = [opRes EXCEPT ![f] = res]
                /\ ended' = [ended EXCEPT ![f] = @ + 1]
      BY <1>4, <1>5, <2>1
    <3>2. j \in 1 .. Len(indices) /\ j <= i - Len(todo')
      BY <1>1, <1>4, <1>7, <2>1
    <3>3. indices[j] \in FileIndex
      BY <1>2, <3>2, FolderOutStreamAssumption DEF TypeOK
    <3>4. indices[j] = f \/ (ended[indices[j]] = 1 /\ opRes[indices[j]] # "none")
      <4>1. CASE j <= i - Len(todo)
        <5>1. j \in 1 .. i - Len(todo)
          BY <1>1, <3>2, <4>1
        <5>2. QED
          BY <3>1, <5>1 DEF IInv, Reports
      <4>2. CASE ~ (j <= i - Len(todo))
        <5>1. todo[1] = f /\ j = i - Len(todo) + 1 /\ 1 \in 1 .. Len(todo)
          <6>1. PICK l \in Nat : l = Len(todo) /\ l # 0 /\ l <= i
            BY <1>1
          <6>2. i \in Nat /\ j \in Nat /\ ~ (j <= i - l)
            BY <1>1, <3>2, <4>2, <6>1
          <6>3. todo[1] = f /\ Len(todo') = l - 1
            <7>1. todo[1] # f => Len(todo') = l
              BY <1>7, <6>1
            <7>2. todo[1] = f
              BY <3>2, <6>2, <7>1
            <7>3. QED
              BY <1>7, <6>1, <7>2
          <6>4. j <= i - (l - 1)
            BY <3>2, <6>3
          <6>5. j = i - l + 1 /\ 1 \in 1 .. l
            BY <6>1, <6>2, <6>4
          <6>6. QED
            BY <6>1, <6>3, <6>5
        <5>2. QED
          BY <5>1 DEF IInv, Coming
      <4>3. QED
        BY <4>1, <4>2
    <3>5. QED
      <4>1. CASE indices[j] = f
        BY <1>1, <1>2, <1>3, <1>4, <2>1, <3>1, <4>1 DEF TypeOK
      <4>2. CASE indices[j] # f
        BY <1>2, <1>4, <3>1, <3>3, <3>4, <4>2 DEF TypeOK
      <4>3. QED
        BY <4>1, <4>2
  <2>2. \A h : AskedFor(h)' = AskedFor(h)
    BY <1>4 DEF AskedFor
  <2>3. QED
    BY <1>4, <2>1, <2>2 DEF IInv, Reports
<1>13. Place'
  <2>1. ASSUME Busy', ~ Astray', folder # NoFolder
        PROVE  folderPos = SizeOf(FolderStart(folder), f)
    <3>1. Busy /\ ~ Astray /\ rem = 0
      BY <1>18, <2>1 DEF Busy
    <3>2. folderPos = SizeOf(FolderStart(folder), f - 1) + (File(f).size - 0)
      BY <1>6, <2>1, <3>1 DEF IInv, Place
    <3>3. SizeBefore[f + 1] = SizeBefore[f] + File(f).size /\ f \in 0 .. Len(Files)
          /\ f + 1 \in 0 .. Len(Files)
      BY <1>1, SizesAdd
    <3>4. FolderStart(folder) \in FileIndex
      BY <2>1 DEF IInv, Coming
    <3>5. /\ SizeBefore[f] \in Nat /\ SizeBefore[f + 1] \in Nat
          /\ SizeBefore[FolderStart(folder)] \in Nat
      BY <3>3, <3>4, SizesAdd, FileTypes
    <3>6. f - 1 + 1 = f
      BY <1>1
    <3>7. QED
      BY <1>1, <3>2, <3>3, <3>5, <3>6 DEF SizeOf
  <2>2. folderPos' = folderPos /\ folderPos \in Nat
    BY <1>2, <1>4 DEF TypeOK
  <2>3. OffsetsTrue' /\ ~ fileIsOpen'
    BY <1>4 DEF IInv, Place, OffsetsTrue
  <2>4. ASSUME Busy', folder' # NoFolder, ~ Astray'
        PROVE  folderPos' = SizeOf(FolderStart(folder'), fileIndex' - 1) + 0
    <3>1. folder' = folder /\ fileIndex' = f + 1
      BY <1>4
    <3>2. folderPos' = SizeOf(FolderStart(folder'), fileIndex' - 1)
      <4>1. folderPos = SizeOf(FolderStart(folder), f)
        BY <2>1, <2>4, <3>1
      <4>2. fileIndex' - 1 = f
        BY <1>1, <3>1
      <4>3. QED
        BY <2>2, <3>1, <4>1, <4>2, Zenon
    <3>3. QED
      BY <2>2, <3>2
  <2>5. QED
    BY <2>3, <2>4 DEF Place
<1>14. Contents'
  <2>1. SUFFICES ASSUME NEW h \in FileIndex, asked'[h] = "none"
                 PROVE  /\ written'[h] = <<>> /\ delivered'[h] = <<>>
                        /\ opRes'[h] = "none" /\ h \notin sink'
    BY <1>4 DEF Contents
  <2>2. h # f /\ asked[h] = "none"
    BY <1>3, <1>4, <2>1
  <2>3. opRes'[h] = opRes[h]
    BY <1>2, <1>5, <2>2 DEF TypeOK
  <2>4. QED
    BY <1>4, <2>2, <2>3 DEF IInv, Contents
<1>15. WrittenInPlace'
  BY <1>4 DEF IInv, WrittenInPlace
<1>16. OkIsComplete'
  <2>1. SUFFICES ASSUME NEW h \in FileIndex, opRes'[h] = "ok"
                 PROVE  /\ h \in sink => written[h] = BytesOf(h) /\ ~ crcBad'[h]
                        /\ asked[h] = "test" /\ ~ stopByDataCallback /\ h \notin faulted =>
                             delivered[h] = BytesOf(h) /\ ~ crcBad'[h]
    <3>1. \A h : h \notin faulted' => h \notin faulted
      BY <1>5
    <3>2. QED
      BY <1>4, <3>1 DEF OkIsComplete
  <2>2. CASE opRes[h] = "ok"
    <3>1. h # f
      BY <1>3, <2>2
    <3>2. crcBad'[h] = crcBad[h]
      BY <1>2, <1>5, <3>1 DEF TypeOK
    <3>3. QED
      BY <2>2, <3>2 DEF IInv, OkIsComplete
  <2>3. CASE opRes[h] # "ok"
    <3>1. /\ opRes' = [opRes EXCEPT ![f] = res] /\ crcBad' = [crcBad EXCEPT ![f] = badCrc]
      BY <1>5, <2>1, <2>3
    <3>2. h = f /\ res = "ok" /\ crcBad'[f] = badCrc
      BY <1>1, <1>2, <2>1, <2>3, <3>1 DEF TypeOK
    <3>3. /\ written[f] = IF hasStream THEN Positions(First(f), File(f).size - rem) ELSE <<>>
          /\ hasStream <=> f \in sink
          /\ asked[f] = "test" /\ f \notin faulted /\ ~ stopByDataCallback =>
               delivered[f] = Positions(First(f), File(f).size - rem)
          /\ f \in sink => ~ stopByDataCallback
      BY <1>2, <1>6 DEF IInv, Contents, Control
    <3>4. ~ stopByDataCallback =>
            ~ badCrc /\ Positions(First(f), File(f).size - rem) = BytesOf(f)
      BY <1>6, <3>2, WholeFile
    <3>5. QED
      BY <3>2, <3>3, <3>4
  <2>4. QED
    BY <2>2, <2>3
<1>17. QED
  BY <1>8, <1>9, <1>10, <1>11, <1>12, <1>13, <1>14, <1>15, <1>16 DEF IInv

\* Init and Write close a complete file and open the empty ones after it.
LEMMA ProcessFilesKeeps ==
  ASSUME IInv, ProcessFiles
  PROVE  IInv'
<1>1. pc \in {"init", "write"} /\ FilesDue
  BY DEF ProcessFiles
<1>2. CASE fileIsOpen
  <2>1. rem = 0 /\ CloseFile(CrcResult)
    BY <1>1, <1>2 DEF ProcessFiles, FilesDue
  <2>2. CrcResult \in OpRes /\ CrcResult # "none" /\ (CrcResult = "ok" => ~ badCrc)
    BY DEF CrcResult, OpRes
  <2>3. Closed(CrcResult)
    BY <1>1, <2>1, <2>2, CloseOutcomes
  <2> HIDE DEF CrcResult
  <2>4. QED
    BY <1>1, <1>2, <2>1, <2>2, <2>3, ClosedKeeps
<1>3. CASE ~ fileIsOpen
  <2>1. todo # <<>> /\ OpenFile(FALSE)
    BY <1>1, <1>3 DEF ProcessFiles, FilesDue, NextIsEmpty
  <2>2. (pc = "flush") = FALSE
    BY <1>1
  <2>3. OpenFile(pc = "flush")
    BY <2>1, <2>2
  <2>4. QED
    BY <1>1, <1>3, <2>1, <2>3, OpenKeeps
<1>4. QED
  BY <1>2, <1>3

\* Write goes on in the next file.
LEMMA WriteOpenKeeps ==
  ASSUME IInv, WriteOpen
  PROVE  IInv'
<1>1. pc = "write" /\ ~ fileIsOpen /\ todo # <<>> /\ OpenFile(FALSE)
  BY DEF WriteOpen
<1>2. (pc = "flush") = FALSE
  BY <1>1
<1>3. OpenFile(pc = "flush")
  BY <1>1, <1>2
<1>4. QED
  BY <1>1, <1>3, OpenKeeps

\* FlushCorrupted gives the files left their result.
LEMMA FlushKeeps ==
  ASSUME IInv, Flush
  PROVE  IInv'
<1>1. pc = "flush" /\ todo # <<>>
  BY DEF Flush
<1>2. CASE fileIsOpen
  <2>1. CloseFile(flushRes)
    BY <1>2 DEF Flush
  <2>2. flushRes \in OpRes /\ flushRes # "none" /\ (flushRes = "ok" => stopByDataCallback)
    BY <1>1 DEF IInv, TypeOK, Control
  <2>3. Closed(flushRes)
    BY <1>1, <2>1, <2>2, CloseOutcomes
  <2>4. PICK res \in OpRes : res = flushRes
    BY <2>2
  <2>5. QED
    BY <1>1, <1>2, <2>2, <2>3, <2>4, ClosedKeeps
<1>3. CASE ~ fileIsOpen
  <2>1. OpenFile(TRUE) /\ (pc = "flush") = TRUE
    BY <1>1, <1>3 DEF Flush
  <2>2. OpenFile(pc = "flush")
    BY <2>1
  <2>3. QED
    BY <1>1, <1>3, <2>2, OpenKeeps
<1>4. QED
  BY <1>2, <1>3

-----------------------------------------------------------------------------
(* Writing. *)

\* How much of the block goes into the open file.
LEMMA CurBounds ==
  ASSUME block \in Nat, rem \in Nat
  PROVE  Cur \in Nat /\ Cur <= block /\ Cur <= rem
<1>1. \E x \in {block, rem} : \A y \in {block, rem} : x <= y
  <2>1. CASE block <= rem
    BY <2>1
  <2>2. CASE rem <= block
    BY <2>2
  <2>3. QED
    BY <2>1, <2>2
<1>2. Cur \in {block, rem} /\ \A y \in {block, rem} : Cur <= y
  BY <1>1 DEF Cur, Min
<1>3. QED
  BY <1>2

\* A piece of the block that OnData and the output stream are told of.
LEMMA WriteDataKeeps ==
  ASSUME IInv, WriteData
  PROVE  IInv'
<1> DEFINE f == fileIndex
           cur == Cur
           tell == /\ delivered' = IF Wanted
                                     THEN [delivered EXCEPT ![f] = @ \o Positions(folderPos, cur)]
                                     ELSE delivered
                   /\ misplaced' = (misplaced \/ (Wanted /\ folderPos # First(f) + OffsetInFile))
           refused == /\ UNCHANGED <<fileVars, stopByDataCallback, decodeVars, history>>
                      /\ Fail("abort") /\ UNCHANGED requestVars
           stopped == /\ Wanted /\ StopHonoured(askMode) /\ tell
                      /\ stopByDataCallback' = TRUE /\ Fail("cut")
                      /\ UNCHANGED <<fileVars, decodeVars, begun, ended, asked, sink, opRes,
                                     written, crcBad, faulted, requestVars>>
           taking(taken) ==
             /\ taken \in 0 .. cur /\ (~ hasStream => taken = cur) /\ tell
             /\ written' = IF hasStream
                             THEN [written EXCEPT ![f] = @ \o Positions(folderPos, taken)]
                             ELSE written
             /\ badCrc' = (badCrc \/ (blockBad /\ File(f).crcDefined))
             /\ block' = block - taken
             /\ rem' = rem - taken
             /\ folderPos' = folderPos + taken
             /\ writeRes' \in {"ok", "abort", "fail"} /\ pc' = "write"
             /\ UNCHANGED <<fileIndex, todo, fileIsOpen, askMode, hasStream,
                            stopByDataCallback, folder, coder, limit, blockBad, firstRes,
                            extractVars, begun, ended, asked, sink, opRes, crcBad, faulted,
                            requestVars>>
<1>1. pc \in {"write", "empty"} /\ fileIsOpen
  BY DEF WriteData, IInv, Control
<1>2. refused \/ stopped \/ \E taken \in 0 .. cur : taking(taken)
  <2>1. Cur \in Nat
    BY FolderOutStreamAssumption, CurBounds DEF IInv, TypeOK
  <2>2. \A taken \in 0 .. cur : ~ (taken < cur) => taken = cur
    BY <2>1
  <2> HIDE DEF Fail, Cur
  <2>3. CASE refused
    BY <2>3
  <2>4. CASE stopped
    BY <2>4
  <2>5. CASE ~ refused /\ ~ stopped
    <3>1. PICK res \in {"ok", "abort", "fail"}, taken \in 0 .. cur :
            /\ taken < cur => hasStream
            /\ tell
            /\ written' = IF hasStream
                            THEN [written EXCEPT ![f] = @ \o Positions(folderPos, taken)]
                            ELSE written
            /\ badCrc' = (badCrc \/ (blockBad /\ File(f).crcDefined))
            /\ block' = block - taken
            /\ rem' = rem - taken
            /\ folderPos' = folderPos + taken
            /\ writeRes' = res
            /\ pc' = "write"
            /\ UNCHANGED <<stopByDataCallback, firstRes, extractVars>>
      BY <2>5, Zenon DEF WriteData, fileVars, decodeVars, history
    <3>2. taking(taken)
      BY <2>2, <3>1 DEF WriteData
    <3>3. QED
      BY <3>2
  <2>6. QED
    BY <2>3, <2>4, <2>5
<1> HIDE DEF refused, stopped, taking
<1>3. /\ todo # <<>> /\ folder # NoFolder /\ TypeOK /\ result = "none"
      /\ stopByDataCallback => testMode /\ sink = {} /\ coder # "returns"
      /\ askMode = "test" => testMode
  BY <1>1 DEF IInv, Control, Coming, Busy
<1>4. /\ f \in FileIndex /\ FolderOf(f) = folder /\ First(f) \in Nat
      /\ First(f) = SizeOf(FolderStart(folder), f - 1)
      /\ File(f).size \in Nat
  BY <1>3, Here, InFolder, FileTypes
<1>5. /\ block \in Nat /\ block <= MaxBlock /\ rem \in Nat /\ rem <= File(f).size /\ folderPos \in Nat
      /\ cur \in Nat /\ cur <= block /\ cur <= rem
  <2>1. block \in Nat /\ block <= MaxBlock /\ rem \in Nat /\ folderPos \in Nat
    BY <1>3, FolderOutStreamAssumption DEF TypeOK
  <2>2. rem <= File(f).size
    BY <1>1 DEF IInv, Place
  <2>3. QED
    BY <2>1, <2>2, CurBounds
<1>6. PICK q \in Nat : q = File(f).size - rem
  BY <1>4, <1>5
<1>7. ~ stopByDataCallback => folderPos = First(f) + q
  BY <1>1, <1>3, <1>4, <1>6 DEF IInv, Place, Busy, Astray
<1>8. asked[f] # "none" /\ opRes[f] = "none"
  BY <1>1 DEF IInv, Brackets, Contents
<1>9. /\ written[f] = IF hasStream THEN Positions(First(f), q) ELSE <<>>
      /\ hasStream <=> f \in sink
      /\ hasStream => asked[f] = "extract" /\ ~ stopByDataCallback
      /\ asked[f] = "test" /\ f \notin faulted =>
           askMode = "test" /\ (~ stopByDataCallback => delivered[f] = Positions(First(f), q))
  BY <1>1, <1>3, <1>6 DEF IInv, Contents
<1>10. BytesOf(f) = Positions(First(f), File(f).size)
  BY <1>3, <1>4 DEF BytesOf
\* What OnData is told.
<1>11. ASSUME tell
       PROVE  /\ misplaced' => stopByDataCallback /\ coder = "goesOn"
              /\ misplaced' \in BOOLEAN /\ delivered' \in [FileIndex -> Seq(Nat)]
              /\ \A h \in FileIndex : h # f => delivered'[h] = delivered[h]
              /\ Wanted => delivered'[f] = delivered[f] \o Positions(folderPos, cur)
  <2>1. ~ Astray => folderPos = First(f) + OffsetInFile
    BY <1>1, <1>3, <1>4 DEF OffsetInFile, IInv, Place, Busy
  <2>2. Positions(folderPos, cur) \in Seq(Nat)
    BY <1>5, PositionsFollow
  <2>3. delivered \in [FileIndex -> Seq(Nat)] /\ delivered[f] \in Seq(Nat)
    BY <1>3, <1>4 DEF TypeOK
  <2>4. delivered[f] \o Positions(folderPos, cur) \in Seq(Nat)
    BY <2>2, <2>3, ConcatProperties
  <2>5. misplaced' => stopByDataCallback /\ coder = "goesOn"
    <3>1. Astray => stopByDataCallback /\ coder = "goesOn"
      BY <1>3 DEF Astray
    <3>2. misplaced => stopByDataCallback /\ coder = "goesOn"
      BY DEF IInv, Place, OffsetsTrue
    <3>3. misplaced' => misplaced \/ folderPos # First(f) + OffsetInFile
      BY <1>11
    <3>4. QED
      BY <2>1, <3>1, <3>2, <3>3
  <2>6. misplaced' \in BOOLEAN
    BY <1>11
  <2>7. QED
    BY <1>4, <1>11, <2>3, <2>4, <2>5, <2>6
<1> HIDE DEF tell, f, cur
<1>12. f = fileIndex
  BY DEF f
<1>16. TypeOK /\ Control /\ pc # "done"
  BY <1>1 DEF IInv
<1>13. CASE refused
  <2>1. Quiet /\ UNCHANGED <<folderPos, block, blockBad>> /\ Fail("abort")
    BY <1>13 DEF refused, Quiet, decodeVars
  <2>2. GaveUp
    BY <1>16, <2>1, Fails
  <2>3. QED
    BY <2>1, <2>2, QuietEnd
<1>14. CASE stopped
  <2>1. /\ askMode = "test" /\ tell /\ stopByDataCallback' = TRUE /\ Fail("cut")
        /\ UNCHANGED <<testMode, indices, i, fileIndex, todo, fileIsOpen, rem, askMode, badCrc,
                       hasStream, folder, coder, limit, folderPos, block, blockBad, begun, ended,
                       asked, sink, opRes, written, crcBad, faulted>>
    BY <1>14 DEF stopped, StopHonoured, fileVars, decodeVars, requestVars
  <2>2. GaveUp
    BY <1>16, <2>1, Fails
  <2>3. testMode
    BY <1>3, <2>1
  <2>4. TypeOK'
    BY <1>3, <1>11, <2>1, <2>2 DEF TypeOK, GaveUp, Pc, OpRes, Results
  <2>5. Control' /\ Coming'
    BY <1>16, <2>1, <2>2, <2>3 DEF IInv, Control, Coming, GaveUp, Astray, InWrite, Busy
  <2>6. Place'
    <3>1. (Busy' => Busy) /\ (~ Astray' => ~ Astray)
      BY <2>1, <2>2 DEF Busy, Astray, GaveUp, InWrite
    <3>2. OffsetsTrue'
      BY <1>11, <2>1 DEF OffsetsTrue
    <3>3. QED
      BY <2>1, <3>1, <3>2 DEF IInv, Place
  <2>7. Brackets' /\ Reports'
    BY <2>1 DEF IInv, Brackets, Reports, AskedFor
  <2>8. Contents'
    <3>1. ASSUME NEW h \in FileIndex, asked[h] = "none"
          PROVE  written[h] = <<>> /\ delivered'[h] = <<>> /\ opRes[h] = "none" /\ h \notin sink
      <4>1. h # f
        BY <1>8, <3>1
      <4>2. QED
        BY <1>11, <2>1, <3>1, <4>1 DEF IInv, Contents
    <3>2. QED
      BY <1>6, <1>8, <1>9, <1>12, <2>1, <3>1 DEF Contents
  <2>9. WrittenInPlace' /\ OkIsComplete'
    BY <2>1 DEF IInv, WrittenInPlace, OkIsComplete
  <2>10. QED
    BY <2>4, <2>5, <2>6, <2>7, <2>8, <2>9 DEF IInv
<1>15. ASSUME NEW taken \in 0 .. cur, taking(taken)
       PROVE  IInv'
  <2>1. /\ (~ hasStream => taken = cur) /\ tell
        /\ written' = IF hasStream
                        THEN [written EXCEPT ![f] = @ \o Positions(folderPos, taken)]
                        ELSE written
        /\ badCrc' \in BOOLEAN
        /\ block' = block - taken /\ rem' = rem - taken /\ folderPos' = folderPos + taken
        /\ writeRes' \in {"ok", "abort", "fail"} /\ pc' = "write"
        /\ UNCHANGED <<testMode, indices, i, fileIndex, todo, fileIsOpen, askMode, hasStream,
                       stopByDataCallback, folder, coder, limit, blockBad, firstRes, flushRes,
                       thrown, result, begun, ended, asked, sink, opRes, crcBad, faulted>>
    BY <1>15 DEF taking, extractVars, requestVars
  <2>2. /\ taken \in Nat /\ block' \in 0 .. MaxBlock /\ rem' \in Nat /\ rem' <= File(f).size
        /\ folderPos' \in Nat /\ File(f).size - rem' = q + taken /\ q + taken \in Nat
        /\ q + taken <= File(f).size
    <3>1. PICK s \in Nat : s = File(f).size
      BY <1>4
    <3>2. PICK c \in Nat : c = cur
      BY <1>5
    <3>3. /\ taken \in Nat /\ taken <= block /\ taken <= rem /\ rem <= s /\ q = s - rem
          /\ MaxBlock \in Nat
      BY <1>5, <1>6, <3>1, <3>2, FolderOutStreamAssumption
    <3>4. block - taken \in 0 .. MaxBlock /\ rem - taken \in Nat /\ rem - taken <= s
          /\ folderPos + taken \in Nat
      BY <1>5, <3>3
    <3>5. s - (rem - taken) = q + taken /\ q + taken \in Nat /\ q + taken <= s
      BY <1>5, <3>3
    <3>6. QED
      BY <2>1, <3>1, <3>3, <3>4, <3>5
  <2>3. ~ stopByDataCallback =>
          Positions(First(f), q) \o Positions(folderPos, taken) = Positions(First(f), q + taken)
    <3>1. First(f) \in Nat /\ q \in Nat /\ taken \in Nat
      BY <1>4, <1>6, <2>2
    <3>2. Positions(First(f), q) \o Positions(First(f) + q, taken) = Positions(First(f), q + taken)
      BY <3>1, PositionsFollow
    <3>3. QED
      BY <1>7, <3>2
  <2>4. /\ written' \in [FileIndex -> Seq(Nat)]
        /\ \A h \in FileIndex : h # f => written'[h] = written[h]
        /\ written'[f] = IF hasStream THEN Positions(First(f), q + taken) ELSE <<>>
    <3>1. written \in [FileIndex -> Seq(Nat)]
      BY <1>3 DEF TypeOK
    <3>2. Positions(First(f), q + taken) \in Seq(Nat)
      BY <1>4, <2>2, PositionsFollow
    <3>3. CASE hasStream
      <4>1. written' = [written EXCEPT ![f] = Positions(First(f), q + taken)]
        BY <1>9, <2>1, <2>3, <3>3
      <4>2. QED
        BY <1>4, <3>1, <3>2, <3>3, <4>1
    <3>4. CASE ~ hasStream
      BY <1>9, <2>1, <3>1, <3>4
    <3>5. QED
      BY <3>3, <3>4
  <2>5. (Busy' <=> Busy) /\ (Astray' <=> Astray)
    BY <1>1, <2>1 DEF Busy, Astray
  <2>6. TypeOK'
    BY <1>3, <1>11, <2>1, <2>2, <2>4, ZenonT(40) DEF TypeOK, Results, Pc
  <2>7. Control' /\ Coming'
    BY <1>1, <2>1, <2>5 DEF IInv, Control, Coming
  <2>8. Place'
    <3>1. ASSUME ~ Astray
          PROVE  folderPos' = SizeOf(FolderStart(folder), f - 1) + (File(f).size - rem')
      <4>1. folderPos = First(f) + q
        BY <1>1, <1>3, <1>4, <1>6, <1>12, <3>1 DEF IInv, Place, Busy
      <4>2. QED
        BY <1>4, <1>6, <2>1, <2>2, <4>1
    <3>2. OffsetsTrue' /\ rem' <= File(f).size
      BY <1>11, <2>1, <2>2 DEF OffsetsTrue
    <3>3. fileIndex' = f /\ folder' = folder /\ fileIsOpen' = fileIsOpen
      BY <1>12, <2>1
    <3>4. QED
      BY <1>1, <2>5, <3>1, <3>2, <3>3 DEF Place
  <2>9. Brackets'
    BY <2>1 DEF IInv, Brackets
  <2>10. Reports'
    BY <2>1 DEF IInv, Reports, AskedFor
  <2>11. Contents'
    <3>1. ASSUME NEW h \in FileIndex, asked[h] = "none"
          PROVE  written'[h] = <<>> /\ delivered'[h] = <<>> /\ opRes[h] = "none" /\ h \notin sink
      <4>1. h # f
        BY <1>8, <3>1
      <4>2. QED
        BY <1>11, <2>1, <2>4, <3>1, <4>1 DEF IInv, Contents
    <3>2. asked[f] = "test" /\ f \notin faulted /\ ~ stopByDataCallback =>
            delivered'[f] = Positions(First(f), q + taken)
      <4>1. SUFFICES ASSUME asked[f] = "test", f \notin faulted, ~ stopByDataCallback
                     PROVE  delivered'[f] = Positions(First(f), q + taken)
        OBVIOUS
      <4>2. ~ hasStream /\ Wanted /\ taken = cur
        BY <1>9, <2>1, <4>1 DEF Wanted
      <4>3. QED
        BY <1>9, <1>11, <2>1, <2>3, <4>1, <4>2
    <3>3. /\ written'[f] = IF hasStream THEN Positions(First(f), File(f).size - rem') ELSE <<>>
          /\ asked[f] = "test" /\ f \notin faulted /\ ~ stopByDataCallback =>
               delivered'[f] = Positions(First(f), File(f).size - rem')
      BY <2>2, <2>4, <3>2
    <3>4. QED
      BY <1>8, <1>9, <1>12, <2>1, <3>1, <3>3 DEF Contents
  <2>12. WrittenInPlace'
    <3>1. SUFFICES ASSUME NEW h \in FileIndex PROVE IsPrefix(written'[h], BytesOf(h))
      BY DEF WrittenInPlace
    <3>2. CASE h # f
      BY <2>4, <3>1, <3>2 DEF IInv, WrittenInPlace
    <3>3. CASE h = f /\ hasStream
      <4>1. IsPrefix(Positions(First(f), q + taken), Positions(First(f), File(f).size))
        BY <1>4, <2>2, PositionsFollow
      <4>2. QED
        BY <1>10, <2>4, <3>3, <4>1
    <3>4. CASE h = f /\ ~ hasStream
      BY <1>4, <1>9, <2>4, <3>4 DEF IInv, WrittenInPlace
    <3>5. QED
      BY <3>2, <3>3, <3>4
  <2>13. OkIsComplete'
    <3>1. SUFFICES ASSUME NEW h \in FileIndex, opRes[h] = "ok"
                   PROVE  /\ h \in sink => written'[h] = BytesOf(h) /\ ~ crcBad[h]
                          /\ asked[h] = "test" /\ ~ stopByDataCallback /\ h \notin faulted =>
                               delivered'[h] = BytesOf(h) /\ ~ crcBad[h]
      BY <2>1 DEF OkIsComplete
    <3>2. h # f
      BY <1>8, <3>1
    <3>3. QED
      BY <1>11, <2>1, <2>4, <3>1, <3>2 DEF IInv, OkIsComplete
  <2>14. QED
    BY <2>6, <2>7, <2>8, <2>9, <2>10, <2>11, <2>12, <2>13 DEF IInv
<1>17. QED
  BY <1>2, <1>13, <1>14, <1>15

-----------------------------------------------------------------------------
(* The next folder. *)

\* Extract comes to the next files of the request.
LEMMA NextFolderKeeps ==
  ASSUME IInv, NextFolder
  PROVE  IInv'
<1>1. TypeOK /\ pc = "next" /\ todo = <<>> /\ ~ fileIsOpen /\ ~ stopByDataCallback
      /\ result = "none" /\ i \in Nat /\ i < Len(indices) /\ indices \in Requests
  BY DEF NextFolder, IInv, TypeOK, Control, Coming
<1>2. indices \in Seq(FileIndex)
  BY <1>1, FolderOutStreamAssumption
<1>0. \A s \in Seq(FileIndex) :
        /\ Len(s) # 0 => s # <<>> /\ Head(s) = s[1]
        /\ \A j \in 1 .. Len(s) : s[j] \in FileIndex
  OBVIOUS
<1>3. PICK m \in Nat : m = Len(indices)
  BY <1>2
<1>4. \A j \in 1 .. m : indices[j] \in FileIndex /\ indices[j] \in Nat
  BY <1>2, <1>3, FileTypes
<1>5. \A j, k \in 1 .. m : j < k => indices[j] < indices[k]
  BY <1>1, <1>3, FolderOutStreamAssumption
<1>6. PICK left \in Seq(FileIndex) :
        /\ left = SubSeq(indices, i + 1, Len(indices))
        /\ Len(left) = m - i /\ \A j \in 1 .. Len(left) : left[j] = indices[i + j]
  <2>1. i \in 0 .. Len(indices)
    BY <1>1, <1>3
  <2>2. QED
    BY <1>1, <1>3, <2>1, Parts
<1>7. left # <<>> /\ Head(left) = left[1] /\ left[1] = indices[i + 1]
  <2>1. Len(left) \in Nat /\ Len(left) # 0 /\ i + 1 \in Nat
    BY <1>1, <1>3, <1>6
  <2>2. 1 \in 1 .. Len(left)
    BY <2>1
  <2>3. left # <<>> /\ Head(left) = left[1]
    BY <1>0, <2>1
  <2>4. QED
    BY <1>6, <2>2, <2>3
<1>8. PICK k \in 1 .. Len(left) : k = NumSolidFiles(left)
  BY <1>7, SolidFiles
<1>9. k \in Nat /\ k # 0 /\ i + k <= m
  BY <1>1, <1>3, <1>6, <1>8
<1>10. PICK g : g = FolderOf(left[1])
  OBVIOUS
<1>11. /\ \A j \in 1 .. k : FolderOf(left[j]) = g
       /\ k < Len(left) => FolderOf(left[k + 1]) # g \/ g = NoFolder
       /\ g = NoFolder => k = 1
  BY <1>7, <1>8, <1>10, SolidFiles
<1>12. left[1] \in FileIndex /\ left[1] \in Nat /\ g \in Nat \cup {NoFolder}
  BY <1>1, <1>3, <1>6, <1>7, <1>10, FileTypes
<1>13. PICK first : first = IF g = NoFolder THEN left[1] ELSE FolderStart(g)
  OBVIOUS
<1>14. first \in FileIndex /\ FolderOf(first) = g /\ first <= left[1] /\ first \in Nat
  BY <1>10, <1>12, <1>13, FolderStarts, FileTypes
<1>15. /\ folder' = g /\ fileIndex' = first /\ todo' = SubSeq(left, 1, k) /\ i' = i + k
       /\ limit' = SizeOf(first, left[k])
  BY <1>6, <1>7, <1>8, <1>10, <1>13 DEF NextFolder
<1>16. /\ fileIsOpen' = FALSE /\ askMode' = "skip" /\ stopByDataCallback' = FALSE
       /\ rem' = 0 /\ badCrc' = FALSE /\ hasStream' = FALSE
       /\ folderPos' = 0 /\ block' = 0 /\ blockBad' = FALSE /\ writeRes' = "ok"
       /\ firstRes' = "none" /\ pc' = "init" /\ coder' \in CoderKinds
       /\ UNCHANGED <<testMode, indices, flushRes, thrown, result, begun, ended, asked, sink,
                      opRes, delivered, written, crcBad, misplaced, faulted>>
  <2>1. {"returns"} \subseteq CoderKinds /\ Coders \subseteq CoderKinds
    BY FolderOutStreamAssumption DEF CoderKinds
  <2>2. coder' \in {"returns"} \/ coder' \in Coders
    BY DEF NextFolder
  <2>3. QED
    BY <2>1, <2>2 DEF NextFolder, history, extractVars
<1>17. /\ todo' \in Seq(FileIndex) /\ Len(todo') = k
       /\ \A j \in 1 .. k : todo'[j] = left[j] /\ todo'[j] = indices[i + j]
  <2>1. todo' = SubSeq(left, 1, k)
    BY <1>15
  <2>2. PICK l \in Nat : l = Len(left) /\ k <= l
    BY <1>6, <1>8
  <2>3. \A j \in 1 .. k : j \in 1 .. l /\ left[j] \in FileIndex
    BY <1>0, <1>9, <2>2
  <2>4. /\ SubSeq(left, 1, k) \in Seq(FileIndex) /\ Len(SubSeq(left, 1, k)) = k
        /\ \A j \in 1 .. k : SubSeq(left, 1, k)[j] = left[j]
    BY <1>6, <1>9, <2>2, <2>3
  <2>5. \A j \in 1 .. k : left[j] = indices[i + j]
    BY <1>6, <2>2, <2>3
  <2>6. QED
    BY <2>1, <2>4, <2>5, Zenon
<1>18. TypeOK'
  <2>1. i' \in 0 .. Len(indices') /\ indices' \in Requests
    BY <1>1, <1>3, <1>9, <1>15, <1>16
  <2>2. limit' \in Nat
    <3>1. k \in 1 .. k
      BY <1>9
    <3>2. left[k] \in FileIndex /\ left[k] \in Nat
      <4>1. left[k] \in FileIndex
        BY <1>0, <1>8
      <4>2. QED
        BY <4>1, FileTypes
    <3>3. left[1] <= left[k]
      <4>1. CASE k = 1
        BY <1>12, <4>1
      <4>2. CASE k # 1
        <5>1. i + 1 \in 1 .. m /\ i + k \in 1 .. m /\ i + 1 < i + k
          BY <1>1, <1>9, <4>2
        <5>2. left[k] = indices[i + k]
          BY <1>6, <1>8
        <5>3. QED
          BY <1>5, <1>7, <1>12, <3>2, <5>1, <5>2
      <4>3. QED
        BY <4>1, <4>2
    <3>4. first \in 0 .. Len(Files) /\ left[k] + 1 \in 0 .. Len(Files) /\ first <= left[k] + 1
      BY <1>12, <1>14, <3>2, <3>3, FileTypes
    <3>5. SizeBefore[first] <= SizeBefore[left[k] + 1]
      BY <3>4, SizesGrow
    <3>6. SizeBefore[first] \in Nat /\ SizeBefore[left[k] + 1] \in Nat
      BY <3>4, SizesAdd
    <3>7. QED
      BY <1>15, <3>5, <3>6 DEF SizeOf
  <2>3. fileIndex' \in 0 .. Len(Files)
    BY <1>14, <1>15, FileTypes
  <2>4. block' \in 0 .. MaxBlock
    BY <1>16, FolderOutStreamAssumption
  <2>5. /\ fileIsOpen' \in BOOLEAN /\ rem' \in Nat /\ askMode' \in Modes /\ badCrc' \in BOOLEAN
        /\ hasStream' \in BOOLEAN /\ stopByDataCallback' \in BOOLEAN /\ folderPos' \in Nat
        /\ blockBad' \in BOOLEAN /\ writeRes' \in Results /\ firstRes' \in Results /\ pc' \in Pc
    BY <1>16 DEF Modes, Results, Pc
  <2>6. folder' \in Nat \cup {NoFolder}
    BY <1>12, <1>15
  <2>7. QED
    BY <1>1, <1>16, <1>17, <2>1, <2>2, <2>3, <2>4, <2>5, <2>6 DEF TypeOK
<1>19. Control'
  BY <1>1, <1>16 DEF IInv, Control
<1>20. Coming'
  <2>1. Len(todo') <= i'
    BY <1>1, <1>9, <1>15, <1>17
  <2>2. ASSUME NEW j \in 1 .. Len(todo') PROVE todo'[j] = indices'[i' - Len(todo') + j]
    <3>1. i' - Len(todo') + j = i + j
      BY <1>1, <1>9, <1>15, <1>17, <2>2
    <3>2. QED
      BY <1>16, <1>17, <2>2, <3>1
  <2>3. 1 \in 1 .. k
    BY <1>9
  <2>4. todo' # <<>> => fileIndex' <= todo'[1]
    BY <1>14, <1>15, <1>17, <2>3
  <2>5. \A j \in 1 .. Len(todo') : FolderOf(todo'[j]) = folder'
    BY <1>11, <1>15, <1>17
  <2>6. folder' = NoFolder => Len(todo') <= 1 /\ (todo' # <<>> => fileIndex' = todo'[1])
    BY <1>11, <1>13, <1>15, <1>17, <2>3
  <2>7. folder' # NoFolder => FolderStart(folder') \in FileIndex
                              /\ FolderStart(folder') <= fileIndex'
    <3>1. SUFFICES ASSUME g # NoFolder
                   PROVE  FolderStart(g) \in FileIndex /\ FolderStart(g) <= first
      BY <1>15
    <3>2. QED
      BY <1>13, <1>14, <3>1
  <2>8. i' < Len(indices') => \/ FolderOf(indices'[i' + 1]) # FolderOf(indices'[i'])
                              \/ FolderOf(indices'[i']) = NoFolder
    <3>1. SUFFICES ASSUME i + k < m
                   PROVE  \/ FolderOf(indices[i + k + 1]) # FolderOf(indices[i + k])
                          \/ FolderOf(indices[i + k]) = NoFolder
      BY <1>3, <1>15, <1>16
    <3>2. k < Len(left) /\ k + 1 \in 1 .. Len(left) /\ i + (k + 1) = i + k + 1
      <4>1. PICK l \in Nat : l = Len(left) /\ l = m - i
        BY <1>6
      <4>2. k < l /\ k + 1 \in 1 .. l /\ i + (k + 1) = i + k + 1
        BY <1>1, <1>9, <3>1, <4>1
      <4>3. QED
        BY <4>1, <4>2
    <3>3. left[k] = indices[i + k] /\ left[k + 1] = indices[i + k + 1]
      BY <1>6, <1>8, <3>2
    <3>4. FolderOf(left[k]) = g
      BY <1>9, <1>11
    <3>5. QED
      BY <1>11, <3>2, <3>3, <3>4
  <2>9. QED
    BY <1>16, <2>1, <2>2, <2>4, <2>5, <2>6, <2>7, <2>8 DEF Coming
\* What was opened belongs to folders before this one.
<1>21. ASSUME NEW h \in FileIndex, asked[h] # "none"
       PROVE  i' > 0 /\ h <= indices[i'] /\ h < first
  <2>1. i > 0 /\ h <= indices[i] /\ h \in Nat
    BY <1>21, FileTypes DEF IInv, Brackets
  <2>2. i \in 1 .. m /\ i + k \in 1 .. m /\ i + 1 \in 1 .. m /\ i < i + k /\ i < i + 1
    BY <1>1, <1>3, <1>9, <2>1
  <2>3. indices[i] < indices[i + k] /\ indices[i] < indices[i + 1]
    BY <1>5, <2>2
  <2>4. indices[i] \in FileIndex /\ indices[i] \in Nat /\ indices[i + k] \in Nat
    BY <1>4, <2>2
  <2>5. indices[i] < first
    <3>1. CASE g = NoFolder
      BY <1>7, <1>13, <2>3, <3>1
    <3>2. CASE g # NoFolder
      <4>1. SUFFICES ASSUME first <= indices[i] PROVE FALSE
        BY <1>14, <2>4
      <4>2. indices[i] <= left[1]
        BY <1>7, <1>12, <2>3, <2>4
      <4>3. FolderOf(indices[i]) = g
        <5>1. FolderOf(first) = FolderOf(left[1]) /\ FolderOf(first) # NoFolder
          BY <1>10, <1>14, <3>2
        <5>2. PICK z \in Int : z = indices[i]
          BY <2>4
        <5>3. FolderOf(z) = FolderOf(left[1])
          BY <1>12, <1>14, <4>1, <4>2, <5>1, <5>2, Between
        <5>4. QED
          BY <1>10, <5>2, <5>3
      <4>4. \/ FolderOf(indices[i + 1]) # FolderOf(indices[i])
            \/ FolderOf(indices[i]) = NoFolder
        BY <1>1, <2>1 DEF IInv, Coming
      <4>5. QED
        BY <1>7, <1>10, <3>2, <4>3, <4>4
    <3>3. QED
      BY <3>1, <3>2
  <2>6. h <= indices[i + k] /\ h < first
    BY <1>14, <2>1, <2>3, <2>4, <2>5
  <2>7. QED
    BY <1>15, <2>1, <2>2, <2>6
<1>22. Brackets'
  <2>1. \A h \in FileIndex \ faulted : begun[h] = ended[h] + 0
    BY <1>1 DEF IInv, Brackets
  <2>2. \A h \in FileIndex : /\ begun[h] <= 1 /\ ended[h] <= 1
                             /\ asked[h] = "none" => begun[h] = 0 /\ ended[h] = 0
    BY DEF IInv, Brackets
  <2>3. QED
    BY <1>15, <1>16, <1>21, <2>1, <2>2 DEF Brackets
<1>23. Reports'
  <2>1. i' - Len(todo') = i /\ i - Len(todo) = i
    BY <1>1, <1>9, <1>15, <1>17
  <2>2. \A j \in 1 .. i : indices[j] \notin faulted =>
                           ended[indices[j]] = 1 /\ opRes[indices[j]] # "none"
    BY <1>1, <2>1 DEF IInv, Reports
  <2>3. \A h : AskedFor(h)' = AskedFor(h)
    BY <1>16 DEF AskedFor
  <2>4. QED
    BY <1>16, <2>1, <2>2, <2>3 DEF IInv, Reports
<1>24. Place'
  <2>1. folder' # NoFolder => folderPos' = SizeOf(FolderStart(folder'), fileIndex' - 1) + 0
    <3>1. SUFFICES ASSUME g # NoFolder PROVE 0 = SizeOf(first, first - 1) + 0
      BY <1>13, <1>15, <1>16
    <3>2. first - 1 + 1 = first /\ first \in 0 .. Len(Files)
      BY <1>14, FileTypes
    <3>3. SizeBefore[first] \in Nat
      BY <3>2, SizesAdd
    <3>4. QED
      BY <3>2, <3>3 DEF SizeOf
  <2>2. OffsetsTrue'
    BY <1>1, <1>16 DEF IInv, Place, OffsetsTrue
  <2>3. QED
    BY <1>16, <2>1, <2>2 DEF Place
<1>25. Contents'
  BY <1>1, <1>16 DEF IInv, Contents
<1>26. WrittenInPlace' /\ OkIsComplete'
  BY <1>1, <1>16 DEF IInv, WrittenInPlace, OkIsComplete
<1>27. QED
  BY <1>18, <1>19, <1>20, <1>22, <1>23, <1>24, <1>25, <1>26 DEF IInv

-----------------------------------------------------------------------------
(* The theorems. *)

\* The invariant holds before the first folder.
LEMMA InitHolds == Init => IInv
<1> SUFFICES ASSUME Init PROVE IInv
  OBVIOUS
<1>1. indices \in Requests /\ indices \in Seq(FileIndex)
  BY FolderOutStreamAssumption DEF Init
<1>2. /\ i = 0 /\ fileIndex = 0 /\ todo = <<>> /\ fileIsOpen = FALSE /\ folder = NoFolder
      /\ faulted = {} /\ coder = "returns" /\ firstRes = "none"
      /\ pc = "next" /\ result = "none" /\ sink = {} /\ misplaced = FALSE
      /\ stopByDataCallback = FALSE /\ writeRes = "ok" /\ flushRes = "none"
      /\ begun = [f \in FileIndex |-> 0] /\ ended = [f \in FileIndex |-> 0]
      /\ asked = [f \in FileIndex |-> "none"] /\ opRes = [f \in FileIndex |-> "none"]
      /\ delivered = [f \in FileIndex |-> <<>>] /\ written = [f \in FileIndex |-> <<>>]
  BY DEF Init
<1>3. TypeOK
  <2>1. i \in 0 .. Len(indices) /\ fileIndex \in 0 .. Len(Files) /\ block \in 0 .. MaxBlock
    BY <1>1, FolderOutStreamAssumption, FileTypes DEF Init
  <2>2. todo \in Seq(FileIndex)
    BY <1>2
  <2>3. delivered \in [FileIndex -> Seq(Nat)] /\ written \in [FileIndex -> Seq(Nat)]
    <3>1. <<>> \in Seq(Nat)
      OBVIOUS
    <3>2. QED
      BY <1>2, <3>1
  <2>4. /\ begun \in [FileIndex -> Nat] /\ ended \in [FileIndex -> Nat]
        /\ asked \in [FileIndex -> Modes] /\ opRes \in [FileIndex -> OpRes]
        /\ crcBad \in [FileIndex -> BOOLEAN]
    BY DEF Init, Modes, OpRes
  <2>5. QED
    BY <2>1, <2>2, <2>3, <2>4 DEF Init, TypeOK, Modes, Results, Pc, OpRes, CoderKinds
<1>4. Control
  BY <1>2 DEF Control, Busy
<1>5. Coming
  BY <1>2 DEF Coming
<1>6. Brackets /\ Reports
  BY <1>2 DEF Brackets, Reports
<1>7. Place /\ Contents
  BY <1>2 DEF Place, Contents, OffsetsTrue, Busy
<1>8. WrittenInPlace
  <2>1. ASSUME NEW f \in FileIndex PROVE IsPrefix(<<>>, BytesOf(f))
    <3>1. PICK q, p : q \in Nat /\ BytesOf(f) = Positions(p, q)
      <4>1. CASE FolderOf(f) = NoFolder
        <5>1. BytesOf(f) = Positions(0, 0)
          BY <4>1 DEF BytesOf, Positions
        <5>2. QED
          BY <5>1
      <4>2. CASE FolderOf(f) # NoFolder
        BY <4>2, FileTypes DEF BytesOf
      <4>3. QED
        BY <4>1, <4>2
    <3>2. PICK t : t = Positions(p, q)
      OBVIOUS
    <3>3. Len(t) = q
      BY <3>1, <3>2 DEF Positions
    <3>4. IsPrefix(<<>>, t)
      BY <3>3 DEF IsPrefix
    <3>5. QED
      BY <3>1, <3>2, <3>4
  <2>2. QED
    BY <1>2, <2>1 DEF WrittenInPlace
<1>9. OkIsComplete
  BY <1>2 DEF OkIsComplete
<1>10. QED
  BY <1>3, <1>4, <1>5, <1>6, <1>7, <1>8, <1>9 DEF IInv

\* Nothing happens to the invariant when nothing happens.
LEMMA StutterKeeps == ASSUME IInv, UNCHANGED vars PROVE IInv'
<1>1. UNCHANGED <<testMode, indices, i, fileIndex, todo, fileIsOpen, rem, askMode, badCrc,
                  hasStream, stopByDataCallback, folder, coder, limit, folderPos, block, blockBad,
                  writeRes, firstRes, pc, flushRes, thrown, result, begun, ended, asked, sink, opRes,
                  delivered, written, crcBad, misplaced, faulted>>
  BY DEF vars, requestVars, fileVars, decodeVars, flow, extractVars, history
<1>2. (Busy' <=> Busy) /\ (Astray' <=> Astray)
  BY <1>1 DEF Busy, Astray
<1>3. TypeOK' /\ Control' /\ Coming'
  BY <1>1, <1>2 DEF IInv, TypeOK, Control, Coming
<1>4. Brackets' /\ Reports' /\ Place'
  BY <1>1, <1>2 DEF IInv, Brackets, Reports, AskedFor, Place, OffsetsTrue
<1>5. Contents' /\ WrittenInPlace' /\ OkIsComplete'
  BY <1>1 DEF IInv, Contents, WrittenInPlace, OkIsComplete
<1>6. QED
  BY <1>3, <1>4, <1>5 DEF IInv

\* The invariant is kept by every step.
LEMMA NextHolds == ASSUME IInv, [Next]_vars PROVE IInv'
<1>1. CASE ProcessFiles
  BY <1>1, ProcessFilesKeeps
<1>2. CASE WriteBeyond
  BY <1>2, WriteBeyondKeeps
<1>3. CASE WriteOpen
  BY <1>3, WriteOpenKeeps
<1>4. CASE WriteData
  BY <1>4, WriteDataKeeps
<1>5. CASE WriteReturn
  BY <1>5, WriteReturnKeeps
<1>6. CASE Flush
  BY <1>6, FlushKeeps
<1>7. CASE FlushEnd
  BY <1>7, FlushEndKeeps
<1>8. CASE NextFolder
  BY <1>8, NextFolderKeeps
<1>9. CASE ExtractEnd
  BY <1>9, ExtractEndKeeps
<1>10. CASE InitEnd
  BY <1>10, InitEndKeeps
<1>11. CASE DecodeBlock
  BY <1>11, DecodeBlockKeeps
<1>12. CASE DecodeEnd
  BY <1>12, DecodeEndKeeps
<1>13. CASE Terminating \/ UNCHANGED vars
  BY <1>13, StutterKeeps DEF Terminating
<1>14. QED
  BY <1>1, <1>2, <1>3, <1>4, <1>5, <1>6, <1>7, <1>8, <1>9, <1>10, <1>11, <1>12, <1>13 DEF Next

\* The invariant always holds.
THEOREM Invariance == Spec => []IInv
<1>1. Init => IInv
  BY InitHolds
<1>2. IInv /\ [Next]_vars => IInv'
  BY NextHolds
<1>3. QED
  BY <1>1, <1>2, PTL DEF Spec

\* Every variable has its type (7zExtract.cpp:20-492).
THEOREM TypeCorrect == Spec => []TypeOK
<1>1. IInv => TypeOK
  BY DEF IInv
<1>2. QED
  BY <1>1, Invariance, PTL

\* Every file asked for has its begin, its end and its result, and no other file
\* has, whatever coder wrote the files, except that a file whose own OnFileBegin or
\* SetOperationResult failed may miss its other half (7zExtract.cpp:81-159, 239-253,
\* 354-491).
THEOREM EveryFileIsReported == Spec => []Reported
<1>1. IInv => Reported
  <2> SUFFICES ASSUME IInv PROVE Reported
    OBVIOUS
  <2>1. \A f \in FileIndex : begun[f] \in Nat /\ ended[f] \in Nat
    BY DEF IInv, TypeOK
  <2>2. \A f \in FileIndex \ faulted :
          begun[f] = ended[f] + IF fileIsOpen /\ f = fileIndex THEN 1 ELSE 0
    BY DEF IInv, Brackets
  <2>3. ASSUME NEW f \in FileIndex \ faulted
        PROVE  /\ ended[f] <= begun[f]
               /\ begun[f] > ended[f] => fileIsOpen /\ f = fileIndex
               /\ result = "ok" => begun[f] = ended[f]
    <3>1. result = "ok" => ~ fileIsOpen
      BY DEF IInv, Control, Coming
    <3>2. CASE fileIsOpen /\ f = fileIndex
      <4>1. begun[f] = ended[f] + 1
        BY <2>2, <3>2
      <4>2. QED
        BY <2>1, <3>1, <3>2, <4>1
    <3>3. CASE ~ (fileIsOpen /\ f = fileIndex)
      <4>1. begun[f] = ended[f] + 0
        BY <2>2, <3>3
      <4>2. QED
        BY <2>1, <4>1
    <3>4. QED
      BY <3>2, <3>3
  <2>4. Bracketed
    BY <2>3 DEF Bracketed, IInv, Brackets
  <2>5. \A f \in FileIndex : ~ AskedFor(f) => asked[f] \in {"none", "skip"}
    BY DEF IInv, Reports
  <2>6. ASSUME result = "ok", ~ stopByDataCallback, NEW f \in FileIndex \ faulted, AskedFor(f)
        PROVE  ended[f] = 1 /\ opRes[f] # "none"
    <3>1. PICK j \in 1 .. Len(indices) : indices[j] = f
      BY <2>6 DEF AskedFor
    <3>2. todo = <<>> /\ i = Len(indices)
      BY <2>6 DEF IInv, Control
    <3>3. i - Len(todo) = Len(indices)
      <4>1. i \in Nat
        BY DEF IInv, TypeOK
      <4>2. QED
        BY <3>2, <4>1
    <3>4. QED
      BY <3>1, <3>3 DEF IInv, Reports
  <2>7. AllReported
    BY <2>5, <2>6 DEF AllReported
  <2>8. QED
    BY <2>4, <2>7 DEF Reported
<1>2. QED
  BY <1>1, Invariance, PTL

\* The output streams and OnData get the bytes of a file where they belong, and no others
\* (7zExtract.cpp:176-218).
THEOREM BytesAreInPlace == Spec => []DataInPlace
<1>1. IInv => DataInPlace
  BY DEF IInv, Place, DataInPlace
<1>2. QED
  BY <1>1, Invariance, PTL

\* kOK is said only of a file that is whole and whose CRC is right
\* (7zExtract.cpp:153-159, 199-212, 445-483).
THEOREM OkIsTrue == Spec => []OkIsComplete
<1>1. IInv => OkIsComplete
  BY DEF IInv
<1>2. QED
  BY <1>1, Invariance, PTL

\* A stop is not forgotten: no other folder is begun, no file gets an output stream
\* and nothing is written any more, even when a coder that flushes or goes on calls
\* Write again; with any other coder nothing is delivered or decoded, either
\* (7zExtract.cpp:116-121, 192-196, 445-449).
THEOREM StopEndsAll == Spec => StopIsFinal
<1>1. ASSUME IInv, IInv', [Next]_vars
      PROVE  [stopByDataCallback =>
                /\ stopByDataCallback' /\ pc' \notin {"next", "init"}
                /\ UNCHANGED <<i, folder, sink, written>>
                /\ coder = "returns" => UNCHANGED delivered /\ pc' \in {"flush", "done"}]_vars
  <2> DEFINE Kept == /\ UNCHANGED <<stopByDataCallback, i, folder, sink, written>>
                     /\ coder = "returns" => UNCHANGED delivered /\ pc' \in {"flush", "done"}
  <2>1. SUFFICES ASSUME stopByDataCallback, Next PROVE stopByDataCallback' /\ Kept
    <3>1. stopByDataCallback' => pc' \notin {"next", "init"}
      BY <1>1 DEF IInv, Control
    <3>2. QED
      BY <1>1, <3>1
  <2>2. /\ pc \notin {"next", "init"} /\ (pc # "done" => testMode /\ sink = {})
        /\ coder = "returns" => pc \in {"flush", "done"}
    BY <1>1, <2>1 DEF IInv, Control, TypeOK, Pc
  <2>3. CASE /\ Quiet /\ pc \in {"decode", "write"}
    BY <2>1, <2>2, <2>3 DEF Quiet, requestVars, history
  <2>4. CASE pc \in {"write", "flush"} /\ fileIsOpen
             /\ \E res \in OpRes : CloseFile(res)
    <3>1. PICK res \in OpRes : Closed(res)
      BY <1>1, <2>4, CloseOutcomes
    <3>2. coder = "returns" => pc' \in {"flush", "done"}
      BY <2>2, <3>1 DEF Closed, GaveUp, InWrite
    <3>3. QED
      BY <2>1, <3>1, <3>2 DEF Closed
  <2>5. CASE pc \in {"write", "flush"} /\ OpenFile(pc = "flush")
    <3>1. CASE Quiet /\ GaveUp
      BY <2>1, <2>2, <3>1 DEF Quiet, GaveUp, InWrite, requestVars, history
    <3>2. ASSUME NEW ask \in Modes, NEW mode \in Modes, NEW stream \in BOOLEAN,
                 Opened(ask, stream), OpenModes(ask, mode, stream),
                 OpenFailed(mode) \/ OpenStopped(mode) \/ OpenGoesOn(mode)
          PROVE  stopByDataCallback' /\ Kept
      <4>1. stopByDataCallback' = stopByDataCallback
        BY <2>1, <3>2 DEF OpenFailed, OpenStopped, OpenGoesOn
      <4>2. ~ stream
        BY <2>2, <2>5, <3>2 DEF OpenModes
      <4>3. coder = "returns" => pc' \in {"flush", "done"}
        BY <2>2, <3>2 DEF OpenFailed, OpenStopped, OpenGoesOn, GaveUp, InWrite
      <4>4. QED
        BY <2>1, <3>2, <4>1, <4>2, <4>3 DEF Opened
    <3>3. QED
      BY <1>1, <2>5, <3>1, <3>2, OpenOutcomes
  <2>6. CASE WriteData
    <3>1. pc \in {"write", "empty"} /\ fileIsOpen
      BY <1>1, <2>6 DEF WriteData, IInv, Control
    <3>2. fileIndex \in FileIndex
      BY <1>1, <3>1, Here DEF IInv, Coming
    <3>3. ~ hasStream
      BY <1>1, <2>2, <3>1 DEF IInv, Contents
    <3>4. coder # "returns"
      BY <2>2, <3>1
    <3>5. stopByDataCallback' = stopByDataCallback /\ UNCHANGED <<i, folder, sink>>
      BY <2>1, <2>6 DEF WriteData, requestVars
    <3>6. written' = written
      BY <2>6, <3>3 DEF WriteData
    <3>7. QED
      BY <2>1, <3>4, <3>5, <3>6
  <2>7. CASE FlushEnd \/ Terminating
    BY <2>1, <2>2, <2>7 DEF FlushEnd, LoopGoesOnAfterFlush, Done, Terminating, vars, requestVars,
                            decodeVars, history, flow
  <2>8. QED
    <3>1. CASE ProcessFiles
      <4>1. pc = "write" /\ FALSE = (pc = "flush")
        BY <2>2, <3>1 DEF ProcessFiles
      <4>2. CrcResult \in OpRes
        BY DEF CrcResult, OpRes
      <4>3. QED
        BY <2>4, <2>5, <3>1, <4>1, <4>2 DEF ProcessFiles
    <3>2. CASE Flush
      <4>1. pc = "flush" /\ TRUE = (pc = "flush") /\ flushRes \in OpRes
        BY <1>1, <3>2 DEF Flush, IInv, TypeOK
      <4>2. QED
        BY <2>4, <2>5, <3>2, <4>1 DEF Flush
    <3>3. CASE WriteOpen
      <4>1. pc = "write" /\ FALSE = (pc = "flush")
        BY <3>3 DEF WriteOpen
      <4>2. QED
        BY <2>5, <3>3, <4>1 DEF WriteOpen
    <3>4. CASE WriteBeyond \/ WriteReturn \/ DecodeBlock \/ DecodeEnd
      <4>1. Quiet /\ pc \in {"decode", "write"}
        BY <3>4 DEF WriteBeyond, WriteReturn, DecodeBlock, DecodeEnd, Quiet, decodeVars
      <4>2. QED
        BY <2>3, <4>1
    <3>5. ~ NextFolder /\ ~ ExtractEnd /\ ~ InitEnd
      BY <2>2 DEF NextFolder, ExtractEnd, InitEnd
    <3>6. QED
      BY <2>1, <2>6, <2>7, <3>1, <3>2, <3>3, <3>4, <3>5 DEF Next
<1>2. QED
  BY <1>1, Invariance, PTL DEF Spec, StopIsFinal

-----------------------------------------------------------------------------
(* EntryReader.  EntryInv is about control and counts; DInv adds what the  *)
(* bytes in the queue and in the caller's buffer are.  The queue is        *)
(* described by where each of its chunks begins, not by the sum of their   *)
(* sizes.                                                                  *)

Consumed == {"seek", "fill", "pull", "copy"}

\* Types, but for those that Others adds: that buffered is never negative follows
\* from what is in the queue.
Types ==
  /\ pos \in Nat /\ chunks \in Seq(Seq(Nat)) /\ frontOffset \in Nat /\ buffered \in Int
  /\ running \in BOOLEAN /\ done \in BOOLEAN /\ failed \in BOOLEAN /\ abort \in BOOLEAN
  /\ length \in Nat /\ wpc \in WorkerPc /\ decoded \in Nat /\ n \in 0..MaxChunk
  /\ rc \in {0, -1, -6}
  /\ cpc \in ConsumerPc /\ op \in Ops /\ offset \in Nat /\ size \in Nat
  /\ want \in Nat /\ got \in Seq(Int)

\* Whose the worker is.
Owned ==
  /\ running <=> wpc # "none"
  /\ cpc \in {"join", "copy"} => running
  /\ cpc = "closed" => ~ running
  /\ op = "close" => cpc \in {"stop", "join", "closed"}
  /\ cpc = "closed" => op = "close"

\* What the reader's flags say of the worker.
Flags ==
  /\ running /\ done => wpc = "ended"
  /\ wpc = "ended" => done
  /\ running /\ abort => cpc = "join"
  /\ wpc \in {"end", "ended"} /\ rc = 0 => decoded = length
  /\ wpc \in {"end", "ended"} /\ rc = -6 => abort
  /\ wpc = "ended" /\ ~ abort => (failed <=> rc # 0)

\* How the bytes decoded, queued and consumed relate.
Ahead ==
  /\ running => decoded = pos + buffered
  /\ buffered < Capacity + MaxChunk
  /\ frontOffset = 0 \/ (chunks # <<>> /\ frontOffset <= Len(Head(chunks)))

\* A read_at never goes past the range it was asked for.
InRange ==
  /\ ~ running => pos = 0 \/ op = "close"
  /\ op = "read_at" /\ cpc \in Consumed \cup {"stop", "join"} => offset + size <= Size
  /\ op = "read_at" /\ cpc \in {"stop", "join"} => got = <<>>
  /\ op = "read_at" /\ cpc \in Consumed => pos <= offset + Len(got)
  /\ op = "read_at" /\ cpc \in {"pull", "copy"} =>
       /\ pos + want <= Size
       /\ pos < offset => want <= offset - pos
  /\ op = "read_at" /\ cpc = "fill" => pos >= offset
  /\ cpc = "pull" => want > 0

\* What a returned call knows.
EntryReports ==
  /\ cpc # "idle" => answer = "none"
  /\ answer \in {"end", "early", "error"} => wpc = "ended" /\ ~ abort
  /\ EndsAreReal

EntryInv == Types /\ Owned /\ Flags /\ Ahead /\ InRange /\ EntryReports

\* One past the last byte of chunk u of the queue.
EndOf(u) == chunks[u][1] + Len(chunks[u])

\* What is in the queue: chunks that are not empty, each with the bytes after those of the
\* one before it, from the consumer's position to what is decoded.
Queued ==
  /\ \A u \in 1 .. Len(chunks) :
       Len(chunks[u]) > 0 /\ chunks[u] = Bytes(chunks[u][1], Len(chunks[u]))
  /\ running =>
       /\ chunks = <<>> => pos = decoded
       /\ chunks # <<>> => /\ pos = chunks[1][1] + frontOffset
                           /\ frontOffset < Len(chunks[1])
                           /\ EndOf(Len(chunks)) = decoded
       /\ \A u \in 1 .. Len(chunks) : EndOf(u) <= decoded
       /\ \A u \in 1 .. Len(chunks) - 1 : chunks[u + 1][1] = EndOf(u)

\* How far a call has come: what it gave so far are the bytes from its offset to the
\* consumer's position, and want is what is left of it.
Given ==
  /\ op # "close" => got = Bytes(offset, Len(got))
  /\ op = "close" => got = <<>>
  /\ op = "read" => cpc \in {"idle", "pull", "copy"}
  /\ op = "read" /\ cpc \in {"pull", "copy"} =>
       /\ pos = offset + Len(got)
       /\ Len(got) + want = size /\ size > 0
       /\ cpc = "copy" => got # <<>> \/ chunks # <<>>
  /\ op = "read_at" /\ cpc \in Consumed =>
       /\ Len(got) <= size
       /\ IF pos < offset THEN got = <<>> ELSE pos = offset + Len(got)
       /\ cpc \in {"pull", "copy"} /\ pos >= offset => Len(got) + want <= size
  /\ ReadsComplete

\* The types left out above.
Others ==
  /\ buffered >= 0 /\ length \in Lengths /\ asleep \subseteq {"worker", "consumer"}
  /\ answer \in {"none", "ok", "end", "error", "early", "past"}
  /\ wpc = "deliver" => n > 0

DInv == EntryInv /\ Queued /\ Given /\ Others

-----------------------------------------------------------------------------
(* Lemmas about the data. *)

\* The smaller of two integers.
LEMMA MinOfTwo ==
  ASSUME NEW a \in Int, NEW b \in Int
  PROVE  /\ Min({a, b}) \in {a, b}
         /\ Min({a, b}) <= a /\ Min({a, b}) <= b
<1>1. \E x \in {a, b} : \A y \in {a, b} : x <= y
  <2>1. CASE a <= b BY <2>1
  <2>2. CASE ~ a <= b BY <2>2
  <2> QED BY <2>1, <2>2
<1> QED BY <1>1 DEF Min

\* Adding to a sequence that is not empty leaves its head alone.
LEMMA AppendHead ==
  ASSUME NEW S, NEW s \in Seq(S), NEW x \in S
  PROVE  /\ Append(s, x) \in Seq(S)
         /\ Append(s, x) # <<>>
         /\ s # <<>> => Head(Append(s, x)) = Head(s)
BY SMTT(30)

\* A part of a sequence.
LEMMA SubSeqOf ==
  ASSUME NEW s \in Seq(Nat), NEW a \in Nat, NEW k \in Nat, a + k <= Len(s)
  PROVE  SubSeq(s, a + 1, a + k) \in Seq(Nat) /\ Len(SubSeq(s, a + 1, a + k)) = k
OBVIOUS

\* Sequences of naturals are sequences of integers.
LEMMA SeqOfInt == ASSUME NEW s \in Seq(Nat) PROVE s \in Seq(Int)
OBVIOUS

-----------------------------------------------------------------------------
(* Every action preserves the invariant. *)

\* The invariant holds of the new reader.
LEMMA EntryInitInv == EntryInit => EntryInv
<1> SUFFICES ASSUME EntryInit PROVE EntryInv OBVIOUS
<1> USE EntryReaderAssumption DEF EntryInit
<1>1. Types
  <2>1. length \in Nat OBVIOUS
  <2>2. chunks \in Seq(Seq(Nat)) /\ got \in Seq(Int) OBVIOUS
  <2>3. n \in 0..MaxChunk OBVIOUS
  <2>4. pos \in Nat /\ frontOffset \in Nat /\ buffered \in Int /\ decoded \in Nat
    OBVIOUS
  <2>5. running \in BOOLEAN /\ done \in BOOLEAN /\ failed \in BOOLEAN /\ abort \in BOOLEAN
    OBVIOUS
  <2>6. offset \in Nat /\ size \in Nat /\ want \in Nat /\ rc \in {0, -1, -6} OBVIOUS
  <2> QED BY <2>1, <2>2, <2>3, <2>4, <2>5, <2>6 DEF Types, WorkerPc, ConsumerPc, Ops
<1>2. Owned BY DEF Owned
<1>3. Flags BY DEF Flags
<1>4. Ahead BY DEF Ahead
<1>5. InRange BY DEF InRange, Consumed
<1>6. EntryReports BY DEF EntryReports, EndsAreReal
<1> QED BY <1>1, <1>2, <1>3, <1>4, <1>5, <1>6 DEF EntryInv

\* Decode preserves the invariant.
LEMMA DecodeInv == EntryInv /\ Decode => EntryInv'
<1> SUFFICES ASSUME EntryInv, Decode PROVE EntryInv' OBVIOUS
<1> USE EntryReaderAssumption DEF EntryInv, Decode, readerVars, queueVars, callVars
<1>1. Types' BY DEF Types, WorkerPc, ConsumerPc, Ops, Bytes
<1>2. Owned' BY DEF Types, Owned
<1>3. Flags' BY DEF Types, Owned, Flags
<1>4. Ahead' BY DEF Types, Ahead, Owned
<1>5. InRange' BY DEF Types, Owned, InRange, Consumed
<1>6. EntryReports' BY DEF EntryReports, EndsAreReal
<1> QED BY <1>1, <1>2, <1>3, <1>4, <1>5, <1>6

\* OnData preserves the invariant.
LEMMA OnDataInv == EntryInv /\ OnData => EntryInv'
<1> SUFFICES ASSUME EntryInv, OnData PROVE EntryInv' OBVIOUS
<1> USE EntryReaderAssumption DEF EntryInv, OnData, Room, NotifyAll, Sleep, callVars, Locked
<1>0. chunks' = chunks \/ chunks' = Append(chunks, Bytes(decoded, n)) OBVIOUS
<1>a. Bytes(decoded, n) \in Seq(Nat) BY DEF Types, Bytes
<1>1. Types'
  <2>1. chunks' \in Seq(Seq(Nat)) BY <1>0, <1>a, AppendHead DEF Types
  <2>2. buffered' \in Int /\ decoded' \in Nat BY DEF Types
  <2>3. wpc' \in WorkerPc /\ rc' \in {0, -1, -6} BY DEF Types, WorkerPc
  <2> QED BY <2>1, <2>2, <2>3 DEF Types
<1>2. Owned' BY DEF Types, Owned
<1>3. Flags' BY DEF Types, Owned, Flags
<1>4. Ahead'
  <2>0. chunks \in Seq(Seq(Nat)) BY DEF Types
  <2>1. chunks # <<>> => chunks' # <<>> /\ Head(chunks') = Head(chunks)
    <3>1. CASE chunks' = chunks BY <3>1
    <3>2. CASE chunks' = Append(chunks, Bytes(decoded, n))
      BY <2>0, <1>a, <3>2, AppendHead
    <3> QED BY <1>0, <3>1, <3>2
  <2>2. running' => decoded' = pos' + buffered' BY DEF Types, Ahead
  <2>3. buffered' < Capacity + MaxChunk BY DEF Types, Ahead
  <2> QED BY <2>1, <2>2, <2>3 DEF Ahead
<1>5. InRange' BY DEF Types, Owned, InRange, Consumed
<1>6. EntryReports' BY DEF EntryReports, EndsAreReal
<1> QED BY <1>1, <1>2, <1>3, <1>4, <1>5, <1>6

\* WorkerEnd preserves the invariant.
LEMMA WorkerEndInv == EntryInv /\ WorkerEnd => EntryInv'
<1> SUFFICES ASSUME EntryInv, WorkerEnd PROVE EntryInv' OBVIOUS
<1> USE EntryReaderAssumption DEF EntryInv, WorkerEnd, FailedBy, NotifyAll, callVars, Locked
<1>1. Types' BY DEF Types, WorkerPc, ConsumerPc, Ops, Bytes
<1>2. Owned' BY DEF Types, Owned
<1>3. Flags' BY DEF Types, Owned, Flags
<1>4. Ahead' BY DEF Types, Ahead, Owned
<1>5. InRange' BY DEF Types, Owned, InRange, Consumed
<1>6. EntryReports' BY DEF EntryReports, EndsAreReal
<1> QED BY <1>1, <1>2, <1>3, <1>4, <1>5, <1>6

\* CallRead preserves the invariant.
LEMMA CallReadInv == EntryInv /\ CallRead => EntryInv'
<1> SUFFICES ASSUME EntryInv, CallRead PROVE EntryInv' OBVIOUS
<1> USE EntryReaderAssumption DEF EntryInv, CallRead, Return, readerVars, queueVars, workerVars
<1>1. Types'
  <2>1. cpc' \in ConsumerPc /\ op' \in Ops BY DEF Types, ConsumerPc, Ops
  <2>2. size' \in Nat /\ want' \in Nat /\ offset' \in Nat BY DEF Types
  <2>3. got' \in Seq(Int) OBVIOUS
  <2> QED BY <2>1, <2>2, <2>3 DEF Types
<1>2. Owned' BY DEF Types, Owned
<1>3. Flags' BY DEF Types, Owned, Flags
<1>4. Ahead' BY DEF Types, Ahead, Owned
<1>5. InRange' BY DEF Types, Owned, InRange, Consumed
<1>6. EntryReports' BY DEF EntryReports, EndsAreReal
<1> QED BY <1>1, <1>2, <1>3, <1>4, <1>5, <1>6

\* CallReadAt preserves the invariant.
LEMMA CallReadAtInv == EntryInv /\ CallReadAt => EntryInv'
<1> SUFFICES ASSUME EntryInv, CallReadAt PROVE EntryInv' OBVIOUS
<1> USE EntryReaderAssumption DEF EntryInv, CallReadAt, Return, readerVars, queueVars, workerVars
<1>1. Types' BY DEF Types, WorkerPc, ConsumerPc, Ops, Bytes
<1>2. Owned' BY DEF Types, Owned
<1>3. Flags' BY DEF Types, Owned, Flags
<1>4. Ahead' BY DEF Types, Ahead, Owned
<1>5. InRange' BY DEF Types, Owned, InRange, Consumed
<1>6. EntryReports' BY DEF EntryReports, EndsAreReal
<1> QED BY <1>1, <1>2, <1>3, <1>4, <1>5, <1>6

\* CallClose preserves the invariant.
LEMMA CallCloseInv == EntryInv /\ CallClose => EntryInv'
<1> SUFFICES ASSUME EntryInv, CallClose PROVE EntryInv' OBVIOUS
<1> USE EntryReaderAssumption DEF EntryInv, CallClose, readerVars, queueVars, workerVars
<1>1. Types' BY DEF Types, WorkerPc, ConsumerPc, Ops, Bytes
<1>2. Owned' BY DEF Types, Owned
<1>3. Flags' BY DEF Types, Owned, Flags
<1>4. Ahead' BY DEF Types, Ahead, Owned
<1>5. InRange' BY DEF Types, Owned, InRange, Consumed
<1>6. EntryReports' BY DEF EntryReports, EndsAreReal
<1> QED BY <1>1, <1>2, <1>3, <1>4, <1>5, <1>6

\* Stop preserves the invariant.
LEMMA StopInv == EntryInv /\ Stop => EntryInv'
<1> SUFFICES ASSUME EntryInv, Stop PROVE EntryInv' OBVIOUS
<1> USE EntryReaderAssumption DEF EntryInv, Stop, MustJoin, Stopped, NotifyAll, workerVars, callVars
<1>1. Types'
  <2>1. cpc' \in ConsumerPc /\ wpc' \in WorkerPc BY DEF Types, ConsumerPc, WorkerPc
  <2>2. pos' \in Nat BY DEF Types
  <2>3. abort' = abort \/ abort' = TRUE OBVIOUS
  <2>4. abort' \in BOOLEAN BY <2>3 DEF Types
  <2>5. running' = running \/ running' = FALSE OBVIOUS
  <2>6. running' \in BOOLEAN BY <2>5 DEF Types
  <2> QED BY <2>1, <2>2, <2>4, <2>6 DEF Types
<1>2. Owned' BY DEF Types, Owned
<1>3. Flags' BY DEF Types, Owned, Flags
<1>4. Ahead' BY DEF Types, Ahead, Owned
<1>5. InRange' BY DEF Types, Owned, InRange, Consumed
<1>6. EntryReports' BY DEF EntryReports, EndsAreReal
<1> QED BY <1>1, <1>2, <1>3, <1>4, <1>5, <1>6

\* Join preserves the invariant.
LEMMA JoinInv == EntryInv /\ Join => EntryInv'
<1> SUFFICES ASSUME EntryInv, Join PROVE EntryInv' OBVIOUS
<1> USE EntryReaderAssumption DEF EntryInv, Join, Stopped, callVars
<1>1. Types'
  <2>1. cpc' \in ConsumerPc /\ wpc' \in WorkerPc BY DEF Types, ConsumerPc, WorkerPc
  <2>2. pos' \in Nat BY DEF Types
  <2>3. abort' = abort \/ abort' = TRUE OBVIOUS
  <2>4. abort' \in BOOLEAN BY <2>3 DEF Types
  <2>5. running' = running \/ running' = FALSE OBVIOUS
  <2>6. running' \in BOOLEAN BY <2>5 DEF Types
  <2> QED BY <2>1, <2>2, <2>4, <2>6 DEF Types
<1>2. Owned' BY DEF Types, Owned
<1>3. Flags' BY DEF Types, Owned, Flags
<1>4. Ahead' BY DEF Types, Ahead, Owned
<1>5. InRange' BY DEF Types, Owned, InRange, Consumed
<1>6. EntryReports' BY DEF EntryReports, EndsAreReal
<1> QED BY <1>1, <1>2, <1>3, <1>4, <1>5, <1>6

\* Seek preserves the invariant.
LEMMA SeekInv == EntryInv /\ Seek => EntryInv'
<1> SUFFICES ASSUME EntryInv, Seek PROVE EntryInv' OBVIOUS
<1> USE EntryReaderAssumption DEF EntryInv, Seek, readerVars, queueVars, workerVars, callVars
<1> DEFINE m == Min({Scratch, offset - pos})
<1>0. pos < offset => m \in Nat /\ m > 0 /\ m <= offset - pos
  <2>1. Scratch \in Int /\ Scratch > 0 /\ offset - pos \in Int BY DEF Types
  <2>2. m \in {Scratch, offset - pos} /\ m <= offset - pos BY <2>1, MinOfTwo
  <2> QED BY <2>1, <2>2 DEF Types
<1>1. Types' BY <1>0 DEF Types, ConsumerPc
<1>2. Owned' BY DEF Types, Owned
<1>3. Flags' BY DEF Types, Owned, Flags
<1>4. Ahead' BY DEF Types, Ahead, Owned
<1>5. InRange' BY <1>0 DEF Types, Owned, InRange, Consumed
<1>6. EntryReports' BY DEF EntryReports, EndsAreReal
<1> QED BY <1>1, <1>2, <1>3, <1>4, <1>5, <1>6

\* Fill preserves the invariant.
LEMMA FillInv == EntryInv /\ Fill => EntryInv'
<1> SUFFICES ASSUME EntryInv, Fill PROVE EntryInv' OBVIOUS
<1> USE EntryReaderAssumption DEF EntryInv, Fill, Unfilled, Return, readerVars, queueVars, workerVars, callVars
<1>1. Types' BY DEF Types, WorkerPc, ConsumerPc, Ops, Bytes
<1>2. Owned' BY DEF Types, Owned
<1>3. Flags' BY DEF Types, Owned, Flags
<1>4. Ahead' BY DEF Types, Ahead, Owned
<1>5. InRange'
  <2>1. Len(got) \in Nat BY DEF Types
  <2>2. CASE Len(got) < size
    <3>1. /\ cpc' = "pull" /\ want' = size - Len(got)
          /\ UNCHANGED <<pos, running, op, offset, size, got>>
      BY <2>2
    <3>2. op = "read_at" =>
            /\ offset + size <= Size /\ pos <= offset + Len(got)
            /\ ~ running => pos = 0 \/ op = "close"
      BY DEF InRange, Consumed
    <3>3. op = "read_at" => pos + want' <= Size
      BY <2>1, <3>1, <3>2 DEF Types
    <3>4. want' > 0 BY <2>1, <2>2, <3>1 DEF Types
    <3>5. op = "read_at" => ~ pos < offset BY DEF InRange, Types
    <3> QED BY <3>1, <3>2, <3>3, <3>4, <3>5 DEF InRange, Consumed
  <2>3. CASE ~ Len(got) < size BY <2>1, <2>3 DEF Types, Owned, InRange, Consumed
  <2> QED BY <2>2, <2>3
<1>6. EntryReports' BY DEF EntryReports, EndsAreReal
<1> QED BY <1>1, <1>2, <1>3, <1>4, <1>5, <1>6

\* Start preserves the invariant.
LEMMA StartInv == EntryInv /\ Start => EntryInv'
<1> SUFFICES ASSUME EntryInv, Start PROVE EntryInv' OBVIOUS
<1> USE EntryReaderAssumption DEF EntryInv, Start, StartQueue, callVars
<1>1. Types'
  <2>1. wpc' \in WorkerPc BY DEF WorkerPc
  <2>2. chunks' \in Seq(Seq(Nat)) OBVIOUS
  <2>3. n' \in 0..MaxChunk OBVIOUS
  <2>4. /\ done' \in BOOLEAN /\ failed' \in BOOLEAN /\ abort' \in BOOLEAN
        /\ running' \in BOOLEAN
    OBVIOUS
  <2> QED BY <2>1, <2>2, <2>3, <2>4 DEF Types
<1>2. Owned' BY DEF Types, Owned
<1>3. Flags' BY DEF Types, Owned, Flags
<1>4. Ahead' BY DEF Types, Ahead, Owned
<1>5. InRange' BY DEF Types, Owned, InRange, Consumed
<1>6. EntryReports' BY DEF EntryReports, EndsAreReal
<1> QED BY <1>1, <1>2, <1>3, <1>4, <1>5, <1>6

\* Pull preserves the invariant.
LEMMA PullInv == EntryInv /\ Pull => EntryInv'
<1> SUFFICES ASSUME EntryInv, Pull PROVE EntryInv' OBVIOUS
<1> USE EntryReaderAssumption DEF EntryInv, Pull, PullReady, EndOfQueue, Return, Sleep, queueVars, workerVars, callVars
<1>1. Types' BY DEF Types, WorkerPc, ConsumerPc, Ops, Bytes
<1>2. Owned' BY DEF Types, Owned
<1>3. Flags' BY DEF Types, Owned, Flags
<1>4. Ahead' BY DEF Types, Ahead, Owned
<1>5. InRange' BY DEF Types, Owned, InRange, Consumed
<1>6. EntryReports'
  <2>1. /\ answer' = answer \/ answer' \in {"end", "early", "error"}
        /\ cpc' # "idle" => answer' = answer
    OBVIOUS
  <2>2. answer = "none" BY DEF EntryReports
  <2>3. CASE answer' \in {"end", "early", "error"}
    <3>1. done /\ buffered = 0 BY <2>2, <2>3
    <3>2. wpc = "ended" /\ ~ abort BY <3>1 DEF Owned, Flags
    <3>3. decoded = pos BY <3>1 DEF Ahead, Types
    <3>4. failed <=> rc # 0 BY <3>2 DEF Flags
    <3>5. answer' = "error" => rc = -1 BY <2>2, <3>2, <3>4 DEF Types, Flags
    <3>6. answer' \in {"end", "early"} => rc = 0 /\ pos = length
      BY <2>2, <3>2, <3>3, <3>4 DEF Flags
    <3>7. answer' = "early" => op = "read_at" BY <2>2 DEF Owned, Types, Ops
    <3>8. answer' = "early" => pos < Size BY <3>7 DEF InRange, Types
    <3>9. cpc' = "idle" BY <2>2, <2>3
    <3> QED BY <3>2, <3>5, <3>6, <3>8, <3>9 DEF EntryReports, EndsAreReal
  <2> QED BY <2>1, <2>2, <2>3 DEF EntryReports, EndsAreReal
<1> QED BY <1>1, <1>2, <1>3, <1>4, <1>5, <1>6

\* Copy preserves the invariant.
LEMMA CopyInv == EntryInv /\ Copy => EntryInv'
<1> SUFFICES ASSUME EntryInv, Copy PROVE EntryInv' OBVIOUS
<1> DEFINE front == Head(chunks)
           take == Take(front)
<1>0. /\ take \in Nat /\ take <= want /\ frontOffset + take <= Len(front)
      /\ front \in Seq(Nat)
  <2>1. chunks \in Seq(Seq(Nat)) /\ chunks # <<>> BY DEF EntryInv, Types, Copy
  <2>2. front \in Seq(Nat) BY <2>1
  <2>3. Len(front) \in Nat BY <2>2
  <2>4. frontOffset \in Nat /\ frontOffset <= Len(front) BY <2>3 DEF EntryInv, Types, Ahead
  <2>5. want \in Nat BY DEF EntryInv, Types
  <2>6. /\ take \in {want, Len(front) - frontOffset}
        /\ take <= want /\ take <= Len(front) - frontOffset
    <3> HIDE DEF front
    <3>1. Len(front) - frontOffset \in Int /\ want \in Int BY <2>3, <2>4, <2>5
    <3> QED BY <3>1, MinOfTwo DEF Take
  <2> HIDE DEF take, front
  <2> QED BY <2>2, <2>3, <2>4, <2>5, <2>6
<1>a. /\ cpc = "copy" /\ cpc' = cpc /\ chunks # <<>>
      /\ want' = want - take /\ pos' = pos + take /\ buffered' = buffered - take
      /\ got' = got \/ (~ (op = "read_at" /\ pos < offset)
                       /\ got' = got \o SubSeq(front, frontOffset + 1, frontOffset + take))
      /\ op = "read_at" /\ pos < offset => got' = got
      /\ ~ (op = "read_at" /\ pos < offset) =>
           got' = got \o SubSeq(front, frontOffset + 1, frontOffset + take)
      /\ \/ chunks' = Tail(chunks) /\ frontOffset' = 0
         \/ chunks' = chunks /\ frontOffset' = frontOffset + take
  BY DEF Copy, FrontAfter
<1>b. UNCHANGED <<running, done, failed, abort, asleep, workerVars, callVars, cpc, answer>>
  BY DEF Copy
<1> DEFINE part == SubSeq(front, frontOffset + 1, frontOffset + take)
<1>c. part \in Seq(Int) /\ Len(part) = take
  <2>1. frontOffset \in Nat BY DEF EntryInv, Types
  <2> HIDE DEF front, take
  <2>2. part \in Seq(Nat) /\ Len(part) = take
    BY <1>0, <2>1, SubSeqOf
  <2> QED BY <2>2, SeqOfInt
<1>d. got' \in Seq(Int) /\ (~ (op = "read_at" /\ pos < offset) => Len(got') = Len(got) + take)
  <2>1. got \in Seq(Int) BY DEF EntryInv, Types
  <2> HIDE DEF part, take, front
  <2>2. got \o part \in Seq(Int) /\ Len(got \o part) = Len(got) + take
    BY <1>c, <2>1
  <2> QED BY <1>a, <2>1, <2>2 DEF part
<1> HIDE DEF part, take, front
<1>1. Types'
  <2>1. chunks' \in Seq(Seq(Nat))
    <3>1. chunks \in Seq(Seq(Nat)) /\ chunks # <<>> BY <1>a DEF EntryInv, Types
    <3>2. Tail(chunks) \in Seq(Seq(Nat)) BY <3>1
    <3> QED BY <1>a, <3>1, <3>2
  <2>2. want' \in Nat /\ pos' \in Nat /\ buffered' \in Int /\ frontOffset' \in Nat
    BY <1>0, <1>a DEF EntryInv, Types
  <2> QED BY <1>b, <1>d, <2>1, <2>2 DEF EntryInv, Types, workerVars, callVars
<1>2. Owned' BY <1>a, <1>b DEF EntryInv, Owned, workerVars, callVars
<1>3. Flags' BY <1>a, <1>b DEF EntryInv, Flags, workerVars
<1>4. Ahead'
  <2>1. running' => decoded' = pos' + buffered'
    BY <1>0, <1>a, <1>b DEF EntryInv, Types, Ahead, workerVars
  <2>2. buffered' < Capacity + MaxChunk
    BY <1>0, <1>a, EntryReaderAssumption DEF EntryInv, Types, Ahead
  <2>3. frontOffset' = 0 \/ (chunks' # <<>> /\ frontOffset' <= Len(Head(chunks')))
    BY <1>0, <1>a DEF front
  <2> QED BY <2>1, <2>2, <2>3 DEF Ahead
<1>5. InRange'
  <2>1. running BY <1>a DEF EntryInv, Owned
  <2>2. op' = op /\ offset' = offset /\ size' = size /\ running' = running
    BY <1>b DEF callVars
  <2>3. CASE op # "read_at" BY <1>a, <2>1, <2>2, <2>3 DEF InRange, Consumed
  <2>4. CASE op = "read_at"
    <3>1. /\ offset + size <= Size /\ pos <= offset + Len(got) /\ pos + want <= Size
          /\ pos < offset => want <= offset - pos
      BY <1>a, <2>4 DEF EntryInv, InRange, Consumed
    <3>2. pos' <= offset + Len(got')
      <4>1. CASE pos < offset BY <1>0, <1>a, <1>d, <2>4, <3>1, <4>1 DEF EntryInv, Types
      <4>2. CASE ~ pos < offset BY <1>0, <1>a, <1>d, <3>1, <4>2 DEF EntryInv, Types
      <4> QED BY <4>1, <4>2
    <3>3. pos' + want' <= Size /\ (pos' < offset => want' <= offset - pos')
      BY <1>0, <1>a, <3>1 DEF EntryInv, Types
    <3> QED BY <1>a, <2>1, <2>2, <3>1, <3>2, <3>3 DEF InRange, Consumed
  <2> QED BY <2>3, <2>4
<1>6. EntryReports'
  BY <1>a, <1>b DEF EntryInv, EntryReports, EndsAreReal, workerVars
<1> QED BY <1>1, <1>2, <1>3, <1>4, <1>5, <1>6 DEF EntryInv

\* CopyEnd preserves the invariant.
LEMMA CopyEndInv == EntryInv /\ CopyEnd => EntryInv'
<1> SUFFICES ASSUME EntryInv, CopyEnd PROVE EntryInv' OBVIOUS
<1> USE EntryReaderAssumption DEF EntryInv, CopyEnd, Drained, NotifyAll, Return, queueVars, workerVars, callVars
<1>1. Types' BY DEF Types, WorkerPc, ConsumerPc, Ops, Bytes
<1>2. Owned' BY DEF Types, Owned
<1>3. Flags' BY DEF Types, Owned, Flags
<1>4. Ahead' BY DEF Types, Ahead, Owned
<1>5. InRange' BY DEF Types, Owned, InRange, Consumed
<1>6. EntryReports' BY DEF EntryReports, EndsAreReal
<1> QED BY <1>1, <1>2, <1>3, <1>4, <1>5, <1>6
\* A step that changes nothing preserves the invariant.
LEMMA StutterInv == EntryInv /\ UNCHANGED entryVars => EntryInv'
BY DEF entryVars, readerVars, queueVars, workerVars, callVars, EntryInv, Types, Owned, Flags,
       Ahead, InRange, EntryReports, EndsAreReal

\* Every step preserves the invariant.
LEMMA NextInv == EntryInv /\ [EntryNext]_entryVars => EntryInv'
BY DecodeInv, OnDataInv, WorkerEndInv, CallReadInv, CallReadAtInv, CallCloseInv,
   StopInv, JoinInv, SeekInv, FillInv, StartInv, PullInv, CopyInv, CopyEndInv, StutterInv
   DEF EntryNext, Worker, Consumer, Call, EntryTerminating

-----------------------------------------------------------------------------
(* The bytes in the queue and in the caller's buffer. *)

\* A sequence without elements is the empty one.
LEMMA NoElements == ASSUME NEW S, NEW s \in Seq(S), Len(s) = 0 PROVE s = <<>>
OBVIOUS

\* What remains of a sequence without its head.
LEMMA TailElements ==
  ASSUME NEW S, NEW s \in Seq(S), NEW m \in Nat, m = Len(s), m > 0
  PROVE  /\ Tail(s) \in Seq(S) /\ Len(Tail(s)) = m - 1 /\ (Tail(s) = <<>> <=> m = 1)
         /\ \A u \in 1 .. m - 1 : Tail(s)[u] = s[u + 1]
<1>1. s # <<>>
  OBVIOUS
<1>2. Tail(s) \in Seq(S) /\ Len(Tail(s)) = m - 1
  BY <1>1
<1>3. \A u \in 1 .. m - 1 : Tail(s)[u] = s[u + 1]
  BY <1>1
<1>4. Tail(s) = <<>> <=> m = 1
  BY <1>2
<1> QED BY <1>2, <1>3, <1>4

\* The bytes from first, taken apart and put together.
LEMMA BytesParts ==
  ASSUME NEW first \in Nat, NEW count \in Nat
  PROVE  /\ Bytes(first, count) \in Seq(Nat) /\ Len(Bytes(first, count)) = count
         /\ count > 0 => Bytes(first, count)[1] = first
BY DEF Bytes

\* A part of consecutive bytes.
LEMMA BytesPart ==
  ASSUME NEW first \in Nat, NEW count \in Nat, NEW a \in Nat, NEW k \in Nat, a + k <= count
  PROVE  SubSeq(Bytes(first, count), a + 1, a + k) = Bytes(first + a, k)
<1> DEFINE s == SubSeq(Bytes(first, count), a + 1, a + k)
<1>1. s \in Seq(Nat) /\ Len(s) = k /\ \A u \in 1 .. k : s[u] = first + a + u - 1
  BY DEF Bytes
<1>2. /\ Bytes(first + a, k) \in Seq(Nat) /\ Len(Bytes(first + a, k)) = k
      /\ \A u \in 1 .. k : Bytes(first + a, k)[u] = first + a + u - 1
  BY DEF Bytes
<1> HIDE DEF s
<1>3. s = Bytes(first + a, k)
  BY <1>1, <1>2
<1> QED BY <1>3 DEF s

\* Consecutive bytes followed by the next ones.
LEMMA BytesJoined ==
  ASSUME NEW first \in Nat, NEW j \in Nat, NEW k \in Nat
  PROVE  Bytes(first, j) \o Bytes(first + j, k) = Bytes(first, j + k)
<1> DEFINE s == Bytes(first, j) \o Bytes(first + j, k)
<1>1. /\ Bytes(first, j) \in Seq(Nat) /\ Len(Bytes(first, j)) = j
      /\ Bytes(first + j, k) \in Seq(Nat) /\ Len(Bytes(first + j, k)) = k
  BY DEF Bytes
<1>2. s \in Seq(Nat) /\ Len(s) = j + k
  BY <1>1
<1>3. ASSUME NEW u \in 1 .. j + k PROVE s[u] = first + u - 1
  <2>1. CASE u <= j
    BY <1>1, <2>1 DEF Bytes
  <2>2. CASE u > j
    <3>1. PICK d \in 1 .. k : u = j + d
      <4>1. u - j \in 1 .. k /\ u = j + (u - j)
        BY <2>2
      <4> QED BY <4>1
    <3>2. s[u] = Bytes(first + j, k)[d]
      <4>1. u > Len(Bytes(first, j)) /\ u - Len(Bytes(first, j)) = d
        BY <1>1, <2>2, <3>1
      <4> QED BY <1>1, <4>1
    <3>3. Bytes(first + j, k)[d] = first + j + d - 1
      BY <3>1 DEF Bytes
    <3>4. first + u - 1 = first + j + d - 1
      BY <3>1
    <3> QED BY <3>2, <3>3, <3>4
  <2>3. u <= j \/ u > j
    OBVIOUS
  <2> QED BY <2>1, <2>2, <2>3
<1>4. /\ Bytes(first, j + k) \in Seq(Nat) /\ Len(Bytes(first, j + k)) = j + k
      /\ \A u \in 1 .. j + k : Bytes(first, j + k)[u] = first + u - 1
  BY DEF Bytes
<1> HIDE DEF s
<1>5. s = Bytes(first, j + k)
  BY <1>2, <1>3, <1>4
<1> QED BY <1>5 DEF s

\* The parts of the queue that steps which leave it alone leave true.
LEMMA QueueKept ==
  ASSUME Queued, UNCHANGED <<chunks, frontOffset, pos, decoded, running>>
  PROVE  Queued'
BY DEF Queued, EndOf

\* A chunk is added behind the others.
LEMMA OnDataQueue == DInv /\ OnData => Queued'
<1> SUFFICES ASSUME DInv, OnData PROVE Queued' OBVIOUS
<1>1. CASE UNCHANGED <<chunks, decoded>>
  BY <1>1, QueueKept DEF OnData, DInv
<1>2. CASE chunks' = Append(chunks, Bytes(decoded, n)) /\ decoded' = decoded + n
  <2>0. /\ n \in Nat /\ n > 0 /\ decoded \in Nat /\ chunks \in Seq(Seq(Nat)) /\ running
        /\ UNCHANGED <<frontOffset, pos, running>> /\ pos \in Nat
    BY EntryReaderAssumption DEF OnData, DInv, Others, EntryInv, Types, Owned
  <2>1. PICK b : b = Bytes(decoded, n)
    OBVIOUS
  <2>2. b \in Seq(Nat) /\ Len(b) = n /\ b[1] = decoded /\ b = Bytes(b[1], Len(b))
    BY <2>0, <2>1, BytesParts
  <2>3. PICK m \in Nat : m = Len(chunks)
    BY <2>0
  <2>4. /\ Len(chunks') = m + 1 /\ chunks' # <<>> /\ chunks'[m + 1] = b
        /\ \A u \in 1 .. m : chunks'[u] = chunks[u]
    <3>1. chunks' = Append(chunks, b)
      BY <1>2, <2>1
    <3>2. chunks \in Seq(Seq(Nat)) /\ b \in Seq(Nat)
      BY <2>0, <2>2
    <3> QED BY <2>3, <3>1, <3>2
  <2>5. /\ \A u \in 1 .. m : Len(chunks[u]) > 0 /\ chunks[u] = Bytes(chunks[u][1], Len(chunks[u]))
        /\ m = 0 => pos = decoded
        /\ m > 0 => /\ pos = chunks[1][1] + frontOffset /\ frontOffset < Len(chunks[1])
                    /\ chunks[m][1] + Len(chunks[m]) = decoded
        /\ \A u \in 1 .. m : chunks[u][1] + Len(chunks[u]) <= decoded
        /\ \A u \in 1 .. m - 1 : chunks[u + 1][1] = chunks[u][1] + Len(chunks[u])
    <3>1. Queued /\ running /\ (m = 0 <=> chunks = <<>>) /\ Len(chunks) = m
      BY <2>0, <2>3 DEF DInv
    <3>2. \A u \in 1 .. m : Len(chunks[u]) > 0 /\ chunks[u] = Bytes(chunks[u][1], Len(chunks[u]))
      BY <3>1, Zenon DEF Queued
    <3>3. \A u \in 1 .. m - 1 : chunks[u + 1][1] = EndOf(u)
      BY <3>1, Zenon DEF Queued
    <3>4. \A u \in 1 .. m : EndOf(u) <= decoded
      BY <3>1, Zenon DEF Queued
    <3>5. /\ m = 0 => pos = decoded
          /\ m > 0 => /\ pos = chunks[1][1] + frontOffset /\ frontOffset < Len(chunks[1])
                      /\ EndOf(m) = decoded
      <4>1. m > 0 => chunks # <<>>
        BY <3>1
      <4> QED BY <3>1, <4>1, Zenon DEF Queued
    <3> QED BY <3>2, <3>3, <3>4, <3>5 DEF EndOf
  <2>6. \A u \in 1 .. m : chunks[u][1] + Len(chunks[u]) \in Nat
    <3>1. ASSUME NEW u \in 1 .. m PROVE chunks[u][1] + Len(chunks[u]) \in Nat
      <4>1. chunks[u] \in Seq(Nat)
        BY <2>0, <2>3
      <4>2. chunks[u][1] \in Nat /\ Len(chunks[u]) \in Nat
        BY <2>5, <4>1
      <4> QED BY <4>2
    <3> QED BY <3>1
  <2>7. \A u \in 1 .. m + 1 :
          Len(chunks'[u]) > 0 /\ chunks'[u] = Bytes(chunks'[u][1], Len(chunks'[u]))
    <3>1. ASSUME NEW u \in 1 .. m
          PROVE  Len(chunks'[u]) > 0 /\ chunks'[u] = Bytes(chunks'[u][1], Len(chunks'[u]))
      BY <2>4, <2>5, <3>1
    <3>2. Len(b) > 0 /\ b = Bytes(b[1], Len(b))
      BY <2>0, <2>2
    <3> QED BY <2>4, <3>1, <3>2
  <2>8. /\ pos = chunks'[1][1] + frontOffset /\ frontOffset < Len(chunks'[1])
        /\ chunks'[m + 1][1] + Len(chunks'[m + 1]) = decoded'
    <3>1. CASE m = 0
      <4>1. frontOffset = 0
        <5>1. chunks = <<>>
          BY <2>0, <2>3, <3>1, NoElements
        <5> QED BY <5>1 DEF DInv, EntryInv, Ahead
      <4> QED BY <1>2, <2>0, <2>2, <2>4, <2>5, <3>1, <4>1
    <3>2. CASE m > 0
      BY <1>2, <2>2, <2>4, <2>5, <3>2
    <3> QED BY <3>1, <3>2
  <2>9. \A u \in 1 .. m + 1 : chunks'[u][1] + Len(chunks'[u]) <= decoded'
    <3>1. ASSUME NEW u \in 1 .. m PROVE chunks'[u][1] + Len(chunks'[u]) <= decoded'
      <4>1. chunks'[u] = chunks[u]
        BY <2>4
      <4>2. PICK e \in Nat : e = chunks[u][1] + Len(chunks[u])
        BY <2>6
      <4>3. e <= decoded
        BY <2>5, <4>2
      <4>4. e <= decoded'
        BY <1>2, <2>0, <4>3
      <4> QED BY <4>1, <4>2, <4>4
    <3>2. chunks'[m + 1][1] + Len(chunks'[m + 1]) <= decoded'
      BY <1>2, <2>0, <2>2, <2>4
    <3> QED BY <3>1, <3>2
  <2>10. \A u \in 1 .. m : chunks'[u + 1][1] = chunks'[u][1] + Len(chunks'[u])
    <3>1. ASSUME NEW u \in 1 .. m - 1 PROVE chunks'[u + 1][1] = chunks'[u][1] + Len(chunks'[u])
      BY <2>4, <2>5, <3>1
    <3>2. m > 0 => chunks'[m + 1][1] = chunks'[m][1] + Len(chunks'[m])
      BY <2>2, <2>4, <2>5
    <3> QED BY <3>1, <3>2
  <2>11. /\ Len(chunks') = m + 1 /\ chunks' # <<>>
         /\ \A u \in 1 .. Len(chunks') : EndOf(u)' = chunks'[u][1] + Len(chunks'[u])
    BY <2>4 DEF EndOf
  <2>12. EndOf(Len(chunks))' = decoded'
    BY <2>3, <2>8, <2>11
  <2>13. \A u \in 1 .. Len(chunks') : EndOf(u)' <= decoded'
    BY <2>9, <2>11
  <2>14. \A u \in 1 .. Len(chunks') - 1 : chunks'[u + 1][1] = EndOf(u)'
    <3>1. ASSUME NEW u \in 1 .. Len(chunks') - 1 PROVE chunks'[u + 1][1] = EndOf(u)'
      <4>1. u \in 1 .. m /\ u \in 1 .. Len(chunks')
        BY <2>11
      <4> QED BY <2>10, <2>11, <4>1
    <3> QED BY <3>1
  <2>15. pos' = pos /\ frontOffset' = frontOffset
    BY <2>0
  <2> QED BY <2>7, <2>8, <2>11, <2>12, <2>13, <2>14, <2>15, Zenon DEF Queued
<1> QED BY <1>1, <1>2 DEF OnData

\* What a round of the copy loop takes: something, and from the consumer's position on.
LEMMA CopyTakes ==
  ASSUME DInv, Copy
  PROVE  LET take == Take(Head(chunks))
         IN /\ take \in Nat /\ take > 0 /\ take <= want
            /\ frontOffset + take <= Len(Head(chunks))
            /\ SubSeq(Head(chunks), frontOffset + 1, frontOffset + take) = Bytes(pos, take)
<1>1. /\ chunks \in Seq(Seq(Nat)) /\ chunks # <<>> /\ running /\ frontOffset \in Nat
      /\ want \in Nat /\ want > 0
  BY DEF Copy, DInv, EntryInv, Types, Owned
<1>2. PICK f : f = Head(chunks)
  OBVIOUS
<1>3. f = chunks[1] /\ f \in Seq(Nat) /\ 1 \in 1 .. Len(chunks)
  BY <1>1, <1>2
<1>4. /\ Len(f) > 0 /\ f = Bytes(f[1], Len(f)) /\ pos = f[1] + frontOffset
      /\ frontOffset < Len(f)
  BY <1>1, <1>3 DEF DInv, Queued
<1>5. PICK l \in Nat : l = Len(f)
  BY <1>3
<1>6. PICK a \in Nat : a = f[1]
  BY <1>3, <1>4
<1>7. PICK k : k = Take(f)
  OBVIOUS
<1>8. k \in {want, l - frontOffset} /\ k <= want /\ k <= l - frontOffset
  <2>1. want \in Int /\ l - frontOffset \in Int
    BY <1>1, <1>5
  <2>2. k = Min({want, l - frontOffset})
    BY <1>5, <1>7 DEF Take
  <2> QED BY <2>1, <2>2, MinOfTwo
<1>9. k \in Nat /\ k > 0 /\ frontOffset + k <= l
  BY <1>1, <1>4, <1>5, <1>8
<1>10. SubSeq(Bytes(a, l), frontOffset + 1, frontOffset + k) = Bytes(a + frontOffset, k)
  <2>1. PICK o \in Nat : o = frontOffset /\ k \in Nat /\ o + k <= l
    BY <1>1, <1>9
  <2>2. SubSeq(Bytes(a, l), o + 1, o + k) = Bytes(a + o, k)
    BY <2>1, BytesPart
  <2> QED BY <2>1, <2>2
<1>11. SubSeq(f, frontOffset + 1, frontOffset + k) = Bytes(pos, k)
  BY <1>4, <1>5, <1>6, <1>10
<1> QED BY <1>2, <1>5, <1>7, <1>8, <1>9, <1>11

\* The front of the queue goes on with the consumer's position.
LEMMA CopyQueue == DInv /\ Copy => Queued'
<1> SUFFICES ASSUME DInv, Copy PROVE Queued' OBVIOUS
<1>1. /\ chunks \in Seq(Seq(Nat)) /\ chunks # <<>> /\ running /\ frontOffset \in Nat
      /\ pos \in Nat /\ decoded \in Nat /\ UNCHANGED <<running, decoded>>
  BY DEF Copy, workerVars, DInv, EntryInv, Types, Owned
<1>2. PICK f : f = Head(chunks)
  OBVIOUS
<1>3. PICK k : k = Take(f)
  OBVIOUS
<1>4. k \in Nat /\ k > 0 /\ frontOffset + k <= Len(f)
  BY <1>2, <1>3, CopyTakes
<1>5. /\ pos' = pos + k
      /\ IF frontOffset + k = Len(f) THEN chunks' = Tail(chunks) /\ frontOffset' = 0
         ELSE chunks' = chunks /\ frontOffset' = frontOffset + k
  BY <1>2, <1>3 DEF Copy, FrontAfter
<1>6. PICK m \in Nat : m = Len(chunks)
  BY <1>1
<1>7. m > 0 /\ f = chunks[1] /\ f \in Seq(Nat) /\ Len(f) \in Nat
  BY <1>1, <1>2, <1>6
<1>8. /\ \A u \in 1 .. m : Len(chunks[u]) > 0 /\ chunks[u] = Bytes(chunks[u][1], Len(chunks[u]))
      /\ pos = chunks[1][1] + frontOffset /\ frontOffset < Len(chunks[1])
      /\ chunks[m][1] + Len(chunks[m]) = decoded
      /\ \A u \in 1 .. m : chunks[u][1] + Len(chunks[u]) <= decoded
      /\ \A u \in 1 .. m - 1 : chunks[u + 1][1] = chunks[u][1] + Len(chunks[u])
  BY <1>1, <1>6 DEF DInv, Queued, EndOf
<1>9. PICK a \in Nat : a = f[1]
  BY <1>7, <1>8
<1>12. PICK l \in Nat : l = Len(f)
  BY <1>7
<1>13. pos = a + frontOffset /\ frontOffset < l /\ frontOffset + k <= l
  BY <1>4, <1>7, <1>8, <1>9, <1>12
<1>10. CASE frontOffset + k # Len(f)
  <2>1. chunks' = chunks /\ frontOffset' = frontOffset + k
    BY <1>5, <1>10
  <2>2. pos' = chunks[1][1] + frontOffset' /\ frontOffset' < Len(chunks[1])
    <3>1. frontOffset + k < l /\ pos + k = a + (frontOffset + k)
      BY <1>1, <1>4, <1>10, <1>12, <1>13
    <3> QED BY <1>5, <1>7, <1>9, <1>12, <2>1, <3>1
  <2> QED BY <1>1, <1>6, <1>8, <2>1, <2>2 DEF Queued, EndOf
<1>11. CASE frontOffset + k = Len(f)
  <2>1. chunks' = Tail(chunks) /\ frontOffset' = 0
    BY <1>5, <1>11
  <2>2. /\ Len(chunks') = m - 1 /\ (chunks' = <<>> <=> m = 1)
        /\ \A u \in 1 .. m - 1 : chunks'[u] = chunks[u + 1]
    BY <1>1, <1>6, <1>7, <2>1, TailElements
  <2>3. pos' = chunks[1][1] + Len(chunks[1])
    <3>1. pos + k = a + l
      BY <1>1, <1>4, <1>11, <1>12, <1>13, SMTT(30)
    <3> QED BY <1>5, <1>7, <1>9, <1>12, <3>1
  <2>4. \A u \in 1 .. m - 1 :
          /\ Len(chunks'[u]) > 0 /\ chunks'[u] = Bytes(chunks'[u][1], Len(chunks'[u]))
          /\ chunks'[u][1] + Len(chunks'[u]) <= decoded
    <3>1. ASSUME NEW u \in 1 .. m - 1
          PROVE  /\ Len(chunks'[u]) > 0 /\ chunks'[u] = Bytes(chunks'[u][1], Len(chunks'[u]))
                 /\ chunks'[u][1] + Len(chunks'[u]) <= decoded
      <4>1. PICK h \in 1 .. m : h = u + 1
        OBVIOUS
      <4>2. chunks'[u] = chunks[h]
        BY <2>2, <4>1
      <4> QED BY <1>8, <4>2
    <3> QED BY <3>1
  <2>5. \A u \in 1 .. m - 2 : chunks'[u + 1][1] = chunks'[u][1] + Len(chunks'[u])
    <3>1. ASSUME NEW u \in 1 .. m - 2
          PROVE  chunks'[u + 1][1] = chunks'[u][1] + Len(chunks'[u])
      <4>1. PICK h \in 1 .. m - 1 : h = u + 1
        OBVIOUS
      <4>2. chunks'[u] = chunks[h] /\ chunks'[h] = chunks[h + 1]
        BY <2>2, <4>1
      <4>3. chunks[h + 1][1] = chunks[h][1] + Len(chunks[h])
        BY <1>8
      <4> QED BY <4>1, <4>2, <4>3
    <3> QED BY <3>1
  <2>6. CASE m = 1
    <3>1. pos' = decoded' /\ chunks' = <<>> /\ Len(chunks') = 0
      BY <1>1, <1>8, <2>2, <2>3, <2>6
    <3> QED BY <3>1 DEF Queued
  <2>7. CASE m > 1
    <3>1. pos' = chunks'[1][1] + frontOffset'
      <4>1. chunks[2][1] = chunks[1][1] + Len(chunks[1]) /\ chunks'[1] = chunks[2]
        <5>1. 1 \in 1 .. m - 1 /\ 1 + 1 = 2
          BY <2>7
        <5>2. chunks[1 + 1][1] = chunks[1][1] + Len(chunks[1]) /\ chunks'[1] = chunks[1 + 1]
          BY <1>8, <2>2, <5>1
        <5> QED BY <5>1, <5>2
      <4>2. chunks[1][1] + Len(chunks[1]) \in Nat
        BY <1>7, <1>9
      <4>3. pos' = chunks'[1][1] /\ chunks'[1][1] \in Nat
        BY <2>3, <4>1, <4>2
      <4>4. PICK w \in Nat : w = chunks'[1][1]
        BY <4>3
      <4>5. w = w + frontOffset'
        BY <2>1
      <4> QED BY <4>3, <4>4, <4>5
    <3>2. frontOffset' < Len(chunks'[1])
      <4>1. 1 \in 1 .. m - 1
        BY <2>7
      <4> QED BY <2>1, <2>4, <4>1
    <3>3. chunks'[m - 1][1] + Len(chunks'[m - 1]) = decoded
      <4>1. chunks'[m - 1] = chunks[m]
        BY <2>2, <2>7
      <4> QED BY <1>8, <4>1
    <3>4. chunks' # <<>>
      BY <2>2, <2>7
    <3>5. Len(chunks') = m - 1 /\ Len(chunks') - 1 = m - 2
      BY <2>2
    <3> QED BY <1>1, <2>4, <2>5, <3>1, <3>2, <3>3, <3>4, <3>5 DEF Queued, EndOf
  <2> QED BY <1>7, <2>6, <2>7
<1> QED BY <1>10, <1>11

\* Every step keeps the queue in order.
LEMMA QueueInv == DInv /\ [EntryNext]_entryVars => Queued'
<1> SUFFICES ASSUME DInv, [EntryNext]_entryVars PROVE Queued' OBVIOUS
<1>0. Queued
  BY DEF DInv
<1>1. CASE OnData
  BY <1>1, OnDataQueue
<1>2. CASE Copy
  BY <1>2, CopyQueue
<1>3. CASE Start
  <2>1. chunks' = <<>> /\ pos' = decoded'
    BY <1>3 DEF Start, StartQueue
  <2> QED BY <2>1 DEF Queued
<1>4. CASE Join
  <2>1. chunks' = chunks /\ running' = FALSE
    BY <1>4 DEF Join
  <2> QED BY <1>0, <2>1 DEF Queued
<1>5. CASE Stop
  <2>1. chunks' = chunks /\ running' = running /\ frontOffset' = frontOffset
        /\ decoded' = decoded /\ (running => pos' = pos)
    BY <1>5 DEF Stop, MustJoin, workerVars
  <2> QED BY <1>0, <2>1 DEF Queued, EndOf
<1>6. CASE \/ Decode \/ WorkerEnd \/ Seek \/ Fill \/ Pull \/ CopyEnd \/ Call \/ EntryTerminating
           \/ UNCHANGED entryVars
  <2>1. UNCHANGED <<chunks, frontOffset, pos, decoded, running>>
    BY <1>6 DEF Decode, WorkerEnd, Seek, Fill, Pull, CopyEnd, Call, CallRead, CallReadAt,
                CallClose, EntryTerminating, entryVars, readerVars, queueVars, workerVars
  <2> QED BY <1>0, <2>1, QueueKept
<1> QED BY <1>1, <1>2, <1>3, <1>4, <1>5, <1>6 DEF EntryNext, Worker, Consumer

\* A call that did not return "ok" has nothing to say of completeness, and one under way
\* has not returned.
LEMMA NotOk == EntryInv /\ cpc # "idle" => answer = "none" /\ ReadsComplete
BY DEF EntryInv, EntryReports, ReadsComplete

\* Steps of the worker and the ends of calls leave what was given alone.
LEMMA GivenKept ==
  ASSUME DInv, UNCHANGED <<op, got, offset, size, want, pos, cpc, answer>>,
         chunks # <<>> => chunks' # <<>>
  PROVE  Given'
BY DEF DInv, Given, ReadsComplete

\* The worker only adds to the queue.
LEMMA WorkerGiven == DInv /\ Worker => Given'
<1> SUFFICES ASSUME DInv, Worker PROVE Given' OBVIOUS
<1>1. UNCHANGED <<op, got, offset, size, want, pos, cpc, answer>>
  BY DEF Worker, Decode, OnData, WorkerEnd, readerVars, queueVars, callVars
<1>2. chunks # <<>> => chunks' # <<>>
  <2>1. chunks' = chunks \/ chunks' = Append(chunks, Bytes(decoded, n))
    BY DEF Worker, Decode, OnData, WorkerEnd, readerVars, queueVars
  <2>2. chunks \in Seq(Seq(Nat)) /\ decoded \in Nat /\ n \in Nat
    BY EntryReaderAssumption DEF DInv, EntryInv, Types
  <2>3. Append(chunks, Bytes(decoded, n)) # <<>>
    BY <2>2, BytesParts, AppendHead
  <2> QED BY <2>1, <2>3
<1> QED BY <1>1, <1>2, GivenKept

\* A call begins with nothing.
LEMMA CallGiven == DInv /\ Call => Given'
<1> SUFFICES ASSUME DInv, Call PROVE Given' OBVIOUS
<1> USE DEF DInv, EntryInv, Types, Given, ReadsComplete, Bytes, Return, Consumed
<1>1. CASE CallRead
  <2>1. PICK k \in 0 .. MaxRead :
          /\ op' = "read" /\ offset' = pos /\ size' = k /\ want' = k /\ got' = <<>>
          /\ IF k = 0 THEN cpc' = "idle" /\ answer' = "ok" ELSE cpc' = "pull" /\ answer' = "none"
    BY <1>1 DEF CallRead
  <2>2. pos' = pos /\ k \in Nat
    BY <1>1, EntryReaderAssumption DEF CallRead, readerVars, queueVars
  <2>3. Len(got') = 0 /\ got' = Bytes(offset', 0)
    BY <2>1
  <2>4. ReadsComplete'
    BY <2>1, <2>2
  <2>5. pos' = offset' + Len(got') /\ Len(got') + want' = size'
    BY <2>1, <2>2, <2>3
  <2> QED BY <2>1, <2>2, <2>3, <2>4, <2>5
<1>2. CASE CallReadAt
  <2>1. PICK o \in 0 .. Size + 1, k \in 0 .. MaxRead :
          /\ op' = "read_at" /\ offset' = o /\ size' = k /\ got' = <<>>
          /\ \/ cpc' = "idle" /\ answer' = "past"
             \/ cpc' = "stop" /\ answer' = "none"
             \/ cpc' = "seek" /\ answer' = "none" /\ ~ o < pos
    BY <1>2 DEF CallReadAt
  <2>2. pos' = pos /\ o \in Nat /\ k \in Nat
    BY <1>2, EntryReaderAssumption DEF CallReadAt, readerVars, queueVars
  <2>3. Len(got') = 0 /\ got' = Bytes(offset', 0)
    BY <2>1
  <2>4. ReadsComplete'
    BY <2>1
  <2>5. cpc' = "seek" => (pos' < offset' \/ pos' = offset' + 0)
    BY <2>1, <2>2
  <2> QED BY <2>1, <2>2, <2>3, <2>4, <2>5
<1>3. CASE CallClose
  BY <1>3 DEF CallClose
<1> QED BY <1>1, <1>2, <1>3 DEF Call

\* Decoding begins again at the first byte.
LEMMA RestartGiven == DInv /\ (Stop \/ Join \/ Start) => Given'
<1> SUFFICES ASSUME DInv, Stop \/ Join \/ Start PROVE Given' OBVIOUS
<1>0. /\ pos \in Nat /\ offset \in Nat /\ size \in Nat /\ got \in Seq(Int) /\ op \in Ops
      /\ cpc # "idle" /\ Given /\ ReadsComplete
  BY NotOk DEF Stop, Join, Start, DInv, EntryInv, Types
<1>1. CASE Stop \/ Join
  <2>1. /\ UNCHANGED <<op, got, offset, size, want, answer>>
        /\ \/ cpc' = "join"
           \/ cpc' = "closed" /\ op = "close"
           \/ cpc' = "seek" /\ op # "close" /\ pos' = 0
    BY <1>1 DEF Stop, Join, Stopped, callVars
  <2>2. cpc \in {"stop", "join"}
    BY <1>1 DEF Stop, Join
  <2>3. op # "read"
    BY <1>0, <2>2 DEF Given
  <2>4. op = "read_at" => got = <<>> /\ Len(got) = 0
    BY <2>2 DEF DInv, EntryInv, InRange
  <2>5. cpc' = "seek" => pos' < offset' \/ pos' = offset' + 0
    BY <1>0, <2>1
  <2> QED BY <1>0, <2>1, <2>3, <2>4, <2>5 DEF Given, ReadsComplete, Consumed
<1>2. CASE Start
  <2>1. UNCHANGED <<op, got, offset, size, want, cpc, answer>> /\ cpc = "pull" /\ pos' = 0
        /\ ~ running
    BY <1>2 DEF Start, callVars
  <2>2. op = "close" \/ pos = 0
    BY <2>1 DEF DInv, EntryInv, InRange
  <2>3. op # "close"
    BY <2>1 DEF DInv, EntryInv, Owned
  <2>4. pos' = pos
    BY <2>1, <2>2, <2>3
  <2> QED BY <1>0, <2>1, <2>4 DEF Given, ReadsComplete
<1> QED BY <1>1, <1>2

\* The loops of read_at ask for what is left.
LEMMA LoopGiven == DInv /\ (Seek \/ Fill) => Given'
<1> SUFFICES ASSUME DInv, Seek \/ Fill PROVE Given' OBVIOUS
<1>0. /\ pos \in Nat /\ offset \in Nat /\ size \in Nat /\ want \in Nat /\ got \in Seq(Int)
      /\ op \in Ops /\ cpc \in {"seek", "fill"} /\ Given /\ ReadsComplete /\ answer = "none"
  BY NotOk DEF Seek, Fill, DInv, EntryInv, Types
<1>1. op = "read_at"
  BY <1>0 DEF DInv, EntryInv, Owned, Given, Ops
<1>2. PICK g \in Nat : g = Len(got)
  BY <1>0
<1>3. /\ g <= size /\ got = Bytes(offset, g)
      /\ IF pos < offset THEN got = <<>> ELSE pos = offset + g
  BY <1>0, <1>1, <1>2 DEF Given, Consumed
<1>4. CASE Seek
  <2>1. /\ UNCHANGED <<op, got, offset, size, answer, pos>>
        /\ IF pos < offset THEN cpc' = "pull" ELSE cpc' = "fill"
    BY <1>4 DEF Seek, readerVars, queueVars, callVars
  <2>2. ReadsComplete'
    BY <1>0, <2>1 DEF ReadsComplete
  <2> QED BY <1>0, <1>1, <1>2, <1>3, <2>1, <2>2 DEF Given, Consumed
<1>5. CASE Fill /\ g < size
  <2>1. /\ UNCHANGED <<op, got, offset, size, answer, pos>>
        /\ cpc' = "pull" /\ want' = size - g
    BY <1>2, <1>5 DEF Fill, Unfilled, readerVars, queueVars, callVars
  <2>2. ReadsComplete'
    BY <1>0, <2>1 DEF ReadsComplete
  <2>3. g + want' <= size'
    BY <1>0, <2>1
  <2> QED BY <1>0, <1>1, <1>2, <1>3, <2>1, <2>2, <2>3 DEF Given, Consumed
<1>6. CASE Fill /\ ~ g < size
  <2>1. UNCHANGED <<op, got, offset, size, pos>> /\ cpc' = "idle" /\ answer' = "ok"
    BY <1>2, <1>6 DEF Fill, Unfilled, Return, readerVars, queueVars, callVars
  <2>2. g = size
    BY <1>0, <1>3, <1>6
  <2>3. ReadsComplete'
    BY <1>1, <1>2, <2>1, <2>2 DEF ReadsComplete
  <2> QED BY <1>0, <1>1, <1>2, <1>3, <2>1, <2>3 DEF Given, Consumed
<1> QED BY <1>4, <1>5, <1>6

\* Pull goes to copying only when there is something in the queue.
LEMMA PullGiven == DInv /\ Pull => Given'
<1> SUFFICES ASSUME DInv, Pull PROVE Given' OBVIOUS
<1>0. UNCHANGED <<op, got, offset, size, want, pos, chunks>> /\ cpc = "pull" /\ Given
  BY DEF Pull, queueVars, callVars, DInv
<1>1. CASE cpc' = "idle" /\ answer' # "ok"
  BY <1>0, <1>1 DEF Given, Consumed, ReadsComplete
<1>2. CASE cpc' = "copy" /\ answer' = answer /\ buffered # 0
  <2>1. running /\ decoded = pos + buffered /\ pos \in Nat /\ buffered \in Int
    BY <1>2 DEF Pull, DInv, EntryInv, Ahead, Types
  <2>2. pos # decoded
    BY <1>2, <2>1
  <2>3. chunks # <<>>
    BY <2>1, <2>2 DEF DInv, Queued
  <2> QED BY <1>0, <1>2, <2>3 DEF Given, Consumed, ReadsComplete
<1>3. CASE cpc' = cpc /\ answer' = answer
  BY <1>0, <1>3 DEF Given, Consumed, ReadsComplete
<1> QED BY <1>1, <1>2, <1>3 DEF Pull, EndOfQueue, Return

\* A round of the copy loop gives the bytes from the consumer's position on.
LEMMA CopyGiven == DInv /\ Copy => Given'
<1> SUFFICES ASSUME DInv, Copy PROVE Given' OBVIOUS
<1>0. /\ pos \in Nat /\ offset \in Nat /\ size \in Nat /\ want \in Nat /\ got \in Seq(Int)
      /\ op \in Ops /\ cpc = "copy" /\ Given /\ answer = "none"
      /\ UNCHANGED <<op, offset, size, cpc, answer>>
  BY NotOk DEF Copy, DInv, EntryInv, Types, callVars
<1>1. PICK f, k : f = Head(chunks) /\ k = Take(f)
  OBVIOUS
<1>2. /\ k \in Nat /\ k > 0 /\ k <= want
      /\ SubSeq(f, frontOffset + 1, frontOffset + k) = Bytes(pos, k)
  BY <1>1, CopyTakes
<1>3. /\ want' = want - k /\ pos' = pos + k
      /\ got' = IF op = "read_at" /\ pos < offset THEN got ELSE got \o Bytes(pos, k)
  BY <1>1, <1>2 DEF Copy
<1>4. PICK g \in Nat : g = Len(got)
  BY <1>0
<1>5. op # "close" /\ got = Bytes(offset, g)
  BY <1>0, <1>4 DEF DInv, EntryInv, Owned, Given
<1>6. ReadsComplete'
  BY <1>0 DEF ReadsComplete
<1>7. CASE op = "read_at" /\ pos < offset
  <2>1. want <= offset - pos /\ got = <<>> /\ g = 0 /\ got' = got
    BY <1>0, <1>3, <1>4, <1>7 DEF DInv, EntryInv, InRange, Given, Consumed
  <2>2. /\ pos' < offset \/ pos' = offset + 0
        /\ pos' >= offset => 0 + want' <= size
    BY <1>0, <1>2, <1>3, <2>1
  <2> QED BY <1>0, <1>4, <1>5, <1>6, <1>7, <2>1, <2>2 DEF Given, Consumed
<1>8. CASE ~ (op = "read_at" /\ pos < offset)
  <2>1. pos = offset + g
    BY <1>0, <1>4, <1>5, <1>8 DEF Given, Consumed, Ops
  <2>2. got' = Bytes(offset, g + k)
    BY <1>0, <1>2, <1>3, <1>5, <1>8, <2>1, BytesJoined, ZenonT(40)
  <2>3. Len(got') = g + k
    BY <1>0, <1>2, <2>2, BytesParts
  <2>4. pos' = offset + Len(got') /\ ~ pos' < offset
    <3>1. pos + k = offset + (g + k) /\ pos + k >= offset
      BY <1>0, <1>2, <2>1
    <3>2. PICK h \in Nat : h = g + k
      BY <1>2
    <3>3. pos' = offset + h /\ Len(got') = h /\ ~ offset + h < offset
      BY <1>0, <1>3, <2>3, <3>1, <3>2
    <3> QED BY <3>3
  <2>5. got' = Bytes(offset, Len(got')) /\ got' # <<>>
    BY <1>2, <2>2, <2>3
  <2>6. CASE op = "read"
    <3>1. g + want = size /\ size > 0
      BY <1>0, <1>4, <2>6 DEF Given
    <3>2. Len(got') + want' = size
      <4>1. (g + k) + (want - k) = size
        BY <1>0, <1>2, <3>1
      <4> QED BY <1>3, <2>3, <4>1
    <3> QED BY <1>0, <1>6, <2>4, <2>5, <2>6, <3>1, <3>2 DEF Given
  <2>7. CASE op = "read_at"
    <3>1. g + want <= size
      BY <1>0, <1>4, <1>8, <2>7 DEF Given, Consumed
    <3>2. Len(got') + want' <= size /\ Len(got') <= size
      BY <1>0, <1>2, <1>3, <2>3, <3>1
    <3> QED BY <1>0, <1>6, <2>4, <2>5, <2>7, <3>2 DEF Given, Consumed
  <2> QED BY <1>0, <1>5, <2>6, <2>7 DEF Ops
<1> QED BY <1>7, <1>8

\* A read that comes to the end of its loop has given something.
LEMMA CopyEndGiven == DInv /\ CopyEnd => Given'
<1> SUFFICES ASSUME DInv, CopyEnd PROVE Given' OBVIOUS
<1>0. /\ UNCHANGED <<op, got, offset, size, want, pos>> /\ cpc = "copy" /\ Given
      /\ want = 0 \/ chunks = <<>>
      /\ want \in Nat /\ size \in Nat /\ got \in Seq(Int) /\ op \in Ops /\ answer = "none"
  BY NotOk DEF CopyEnd, queueVars, callVars, DInv, EntryInv, Types
<1>1. CASE op = "read"
  <2>1. cpc' = "idle" /\ answer' = "ok"
    BY <1>1 DEF CopyEnd, Return
  <2>2. PICK g \in Nat : g = Len(got)
    BY <1>0
  <2>3. g + want = size /\ size > 0 /\ (got # <<>> \/ chunks # <<>>)
    BY <1>0, <1>1, <2>2 DEF Given
  <2>4. got # <<>> => g > 0
    BY <1>0, <2>2, NoElements
  <2>5. g \in 1 .. size
    BY <1>0, <2>3, <2>4
  <2>6. ReadsComplete'
    BY <1>0, <1>1, <2>2, <2>5 DEF ReadsComplete
  <2> QED BY <1>0, <1>1, <2>1, <2>6 DEF Given
<1>2. CASE op # "read"
  <2>1. cpc' = "seek" /\ answer' = answer
    BY <1>2 DEF CopyEnd
  <2> QED BY <1>0, <1>2, <2>1 DEF Given, Consumed, ReadsComplete
<1> QED BY <1>1, <1>2

\* Every step keeps what was given right.
LEMMA GivenInv == DInv /\ [EntryNext]_entryVars => Given'
<1>1. DInv /\ (EntryTerminating \/ UNCHANGED entryVars) => Given'
  BY GivenKept DEF EntryTerminating, entryVars, readerVars, queueVars, callVars
<1> QED BY <1>1, WorkerGiven, CallGiven, RestartGiven, LoopGiven, PullGiven, CopyGiven,
           CopyEndGiven DEF EntryNext, Consumer

\* Every step keeps the invariant.
LEMMA NextDInv == DInv /\ [EntryNext]_entryVars => DInv'
<1> SUFFICES ASSUME DInv, [EntryNext]_entryVars PROVE DInv' OBVIOUS
<1>1. EntryInv' /\ Queued' /\ Given'
  BY NextInv, QueueInv, GivenInv DEF DInv
<1>2. buffered' >= 0
  <2>1. CASE buffered' = buffered
    BY <2>1 DEF DInv, Others
  <2>2. CASE buffered' # buffered
    <3>1. OnData \/ Copy \/ Start
      BY <2>2 DEF EntryNext, Worker, Consumer, Call, Decode, WorkerEnd, CallRead, CallReadAt,
                  CallClose, Stop, Join, Seek, Fill, Pull, CopyEnd, EntryTerminating, entryVars,
                  readerVars, queueVars
    <3>2. running'
      BY <3>1 DEF OnData, Copy, Start, DInv, EntryInv, Owned
    <3>3. /\ decoded' \in Nat /\ pos' \in Nat /\ buffered' \in Int
          /\ decoded' = pos' + buffered' /\ chunks' \in Seq(Seq(Nat)) /\ frontOffset' \in Nat
      BY <1>1, <3>2 DEF EntryInv, Types, Ahead
    <3>4. PICK p \in Nat, e \in Nat, o \in Nat, b \in Int :
            p = pos' /\ e = decoded' /\ o = frontOffset' /\ b = buffered' /\ e = p + b
      BY <3>3
    <3>5. p <= e
      <4>1. CASE chunks' = <<>>
        <5>1. p = e
          BY <1>1, <3>2, <3>4, <4>1 DEF Queued
        <5> QED BY <5>1
      <4>2. CASE chunks' # <<>>
        <5>1. PICK f \in Seq(Nat) : f = chunks'[1] /\ 1 \in 1 .. Len(chunks')
          BY <3>3, <4>2
        <5>2. /\ Len(f) > 0 /\ pos' = f[1] + frontOffset' /\ frontOffset' < Len(f)
              /\ f[1] + Len(f) <= decoded'
          BY <1>1, <3>2, <4>2, <5>1 DEF Queued, EndOf
        <5>3. PICK a \in Nat, l \in Nat : a = f[1] /\ l = Len(f)
          BY <5>1, <5>2
        <5>4. p = a + o /\ o < l /\ a + l <= e
          BY <3>4, <5>2, <5>3
        <5> QED BY <5>4
      <4> QED BY <4>1, <4>2
    <3>6. b >= 0
      <4>1. e = p + b
        BY <3>4
      <4> QED BY <3>5, <4>1
    <3> QED BY <3>4, <3>6
  <2> QED BY <2>1, <2>2
<1>3. length' \in Lengths
  BY DEF DInv, Others, EntryNext, Worker, Consumer, Call, Decode, OnData, WorkerEnd, CallRead,
         CallReadAt, CallClose, Stop, Join, Seek, Fill, Start, Pull, Copy, CopyEnd,
         EntryTerminating, entryVars, workerVars
<1>4. asleep' \subseteq {"worker", "consumer"}
  BY DEF DInv, Others, EntryNext, Worker, Consumer, Call, Decode, OnData, WorkerEnd, CallRead,
         CallReadAt, CallClose, Stop, Join, Seek, Fill, Start, Pull, Copy, CopyEnd,
         EntryTerminating, entryVars, readerVars, NotifyAll, Sleep, Drained
<1>5. answer' \in {"none", "ok", "end", "error", "early", "past"}
  BY DEF DInv, Others, EntryNext, Worker, Consumer, Call, Decode, OnData, WorkerEnd, CallRead,
         CallReadAt, CallClose, Stop, Join, Seek, Fill, Start, Pull, Copy, CopyEnd,
         EntryTerminating, entryVars, Return
<1>6. wpc' = "deliver" => n' > 0
  <2>1. CASE Decode
    BY <2>1 DEF Decode
  <2>2. CASE OnData \/ WorkerEnd \/ Join \/ Start
    BY <2>2 DEF OnData, WorkerEnd, Join, Start, DInv, Others
  <2>3. CASE ~ (Decode \/ OnData \/ WorkerEnd \/ Join \/ Start)
    <3>1. UNCHANGED <<wpc, n>>
      BY <2>3 DEF EntryNext, Worker, Consumer, Call, CallRead, CallReadAt, CallClose, Stop, Seek,
                  Fill, Pull, Copy, CopyEnd, EntryTerminating, entryVars, workerVars
    <3> QED BY <3>1 DEF DInv, Others
  <2> QED BY <2>1, <2>2, <2>3
<1> QED BY <1>1, <1>2, <1>3, <1>4, <1>5, <1>6 DEF DInv, Others

\* The data invariant holds of the new reader.
LEMMA InitDInv == EntryInit => DInv
<1> SUFFICES ASSUME EntryInit PROVE DInv OBVIOUS
<1>1. Queued
  BY DEF EntryInit, Queued
<1>2. Given
  <2>1. got = <<>> /\ offset = 0 /\ op = "read" /\ cpc = "idle" /\ answer = "none"
    BY DEF EntryInit
  <2>2. got = Bytes(offset, Len(got))
    BY <2>1 DEF Bytes
  <2> QED BY <2>1, <2>2 DEF Given, ReadsComplete
<1>3. Others
  BY DEF EntryInit, Others
<1> QED BY EntryInitInv, <1>1, <1>2, <1>3 DEF DInv

-----------------------------------------------------------------------------

\* The invariant holds in every reachable state.
THEOREM EntryInvariance == EntrySpec => []EntryInv
<1> QED BY EntryInitInv, NextInv, PTL DEF EntrySpec

\* For all sizes: a worker exists exactly while the reader says so, and none
\* survives close (sevenzip_lib.cpp:1180-1191, 1310-1317).
THEOREM WorkerIsOwned == EntrySpec => []WorkerOwned
<1>1. EntryInv => WorkerOwned BY DEF EntryInv, Types, Owned, WorkerOwned
<1> QED BY EntryInvariance, <1>1, PTL

\* For all sizes: the decoder runs ahead of the consumer by less than one chunk
\* over the capacity (sevenzip_lib.cpp:1151-1156).
THEOREM QueueIsBounded == EntrySpec => []Bounded
<1>1. EntryInv => Bounded BY DEF EntryInv, Ahead, Bounded
<1> QED BY EntryInvariance, <1>1, PTL

\* For all sizes: a reported end is the end of the data and a reported error is
\* the decoder's, whatever restarts came before (sevenzip_lib.cpp:1173-1175,
\* 1199-1208, 1283-1289).
THEOREM ReportsAreReal == EntrySpec => []EndsAreReal
<1>1. EntryInv => EndsAreReal BY DEF EntryInv, EntryReports
<1> QED BY EntryInvariance, <1>1, PTL

\* The data invariant holds in every reachable state, too.
THEOREM DataInvariance == EntrySpec => []DInv
<1> QED BY InitDInv, NextDInv, PTL DEF EntrySpec

\* For all sizes: every variable has its type; buffered, an unsigned number, never goes
\* below zero (sevenzip_lib.cpp:1213-1225).
THEOREM EntryTypeCorrect == EntrySpec => []EntryTypeOK
<1>1. DInv => EntryTypeOK
  <2> SUFFICES ASSUME DInv PROVE EntryTypeOK OBVIOUS
  <2>1. got \in Seq(Nat)
    <3>1. CASE op = "close"
      BY <3>1 DEF DInv, Given
    <3>2. CASE op # "close"
      <4>1. PICK g \in Nat : g = Len(got)
        BY DEF DInv, EntryInv, Types
      <4>2. offset \in Nat /\ got = Bytes(offset, g)
        BY <3>2, <4>1 DEF DInv, EntryInv, Types, Given
      <4> QED BY <4>1, <4>2, BytesParts
    <3> QED BY <3>1, <3>2
  <2>2. buffered \in Nat
    BY DEF DInv, EntryInv, Types, Others
  <2> QED BY <2>1, <2>2 DEF DInv, EntryInv, Types, Others, EntryTypeOK
<1> QED BY DataInvariance, <1>1, PTL

\* For all sizes: what a call gives are the bytes of the entry at its offset, all of them
\* for read_at and at least one for read, however the decoder cuts them into chunks and
\* however often it was restarted (sevenzip_lib.cpp:1213-1231, 1255-1306).
THEOREM BytesAreRight == EntrySpec => []ReadsRight
<1>1. DInv => ReadsRight
  BY DEF DInv, Given, ReadsRight, ReadsExact, ReadsComplete
<1> QED BY DataInvariance, <1>1, PTL

\* For all sizes: the answers of a reader are true, in data and in ends and errors
\* (sevenzip_lib.cpp:1173-1231, 1255-1306).
THEOREM AnswersAreRight == EntrySpec => []AnswersRight
BY BytesAreRight, ReportsAreReal, PTL DEF AnswersRight

\* For all sizes: the worker is joined exactly when there is one, and is never far ahead
\* (sevenzip_lib.cpp:1151-1191, 1310-1317).
THEOREM WorkerIsInHand == EntrySpec => []WorkerInHand
BY WorkerIsOwned, QueueIsBounded, PTL DEF WorkerInHand
=============================================================================
