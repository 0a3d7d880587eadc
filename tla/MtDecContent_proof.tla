------------------------- MODULE MtDecContent_proof ------------------------
(* More about MtDec, for every number of threads, every stream and every     *)
(* failure, from the Rights and the Sizes of MtDec_proof: what is read, held *)
(* and decoded is what the stream has at that place (Content), so nothing is *)
(* lost when one thread takes over, and the whole is a decoder of the        *)
(* stream.                                                                   *)
EXTENDS MtDec_proof

-----------------------------------------------------------------------------
(* What is read, held and decoded is what the stream has there: units, and *)
(* where in the stream decoding may begin, go on and end.                  *)

\* The first n of w are the units behind p.
Holds(w, p, n) == n <= Len(w) /\ \A i \in 1 .. n : w[i] = p + i

\* The first k units decode.
Sound(inp, k) ==
  /\ k \in Nat /\ k <= Len(inp.kind) /\ k <= inp.outSize
  /\ \A u \in 1 .. k : inp.kind[u] \in {"head", "body"}
  /\ k > 0 => inp.kind[1] = "head"

\* Decoding cannot go on behind k.
Stuck(inp, k) ==
  /\ k < Len(inp.kind)
  /\ \/ k < inp.outSize /\ (\/ inp.kind[k + 1] \in {"bad", "alien"}
                            \/ k = 0 /\ inp.kind[1] \notin {"head", "end"})
     \/ inp.finish /\ k = inp.outSize /\ inp.kind[k + 1] # "end"

\* With k units of output and ip of input nothing is left to do.
Complete(inp, k, ip) ==
  /\ Sound(inp, k)
  /\ \/ k < Len(inp.kind) /\ inp.kind[k + 1] = "end" /\ ip = k + 1
     \/ ~ inp.finish /\ k = inp.outSize
     \/ Stuck(inp, k) /\ ip = k
     \/ k = Len(inp.kind) /\ ip = k

\* Or something failed.
Settled(inp, k, ip, fl) == fl # {} \/ Complete(inp, k, ip)

\* A block may begin behind p.
Begins(inp, p) == p = 0 \/ (p < Len(inp.kind) /\ inp.kind[p + 1] = "head")

\* The n units behind p are chunks.
Chunks(inp, p, n) ==
  /\ p + n <= Len(inp.kind) /\ p + n <= inp.outSize
  /\ \A u \in p + 1 .. p + n : inp.kind[u] \notin {"end", "alien"}

\* Decoding ends in the n units behind p.
Ends(inp, p, n) ==
  \/ \E u \in p + 1 .. p + n : u <= Len(inp.kind) /\ inp.kind[u] \in {"end", "alien"}
  \/ ~ inp.finish /\ p + n >= inp.outSize

-----------------------------------------------------------------------------
(* The links of a thread's buffer hold a block. *)

\* Positions in the stream, of links or of blocks.
Places == [Nat -> Nat]

\* The size units behind p are in n full links; the j-th begins behind p + o[j].
LinksAt(L, p, first, size, n, o) ==
  /\ o[1] = 0 /\ o[2] = first /\ o[n + 1] = size
  /\ \A i, j \in 1 .. n + 1 : i <= j => o[i] <= o[j]
  /\ \A j \in 1 .. n : /\ o[j + 1] = o[j] + Len(L[j]) /\ Holds(L[j], p + o[j], Len(L[j]))
                       /\ j >= 2 => Len(L[j]) = InBufSize

FullLinks(L, p, first, size, n) ==
  n \in 1 .. Len(L) /\ \E o \in Places : LinksAt(L, p, first, size, n, o)

\* The size units behind p are in n links, the last of which may hold more.
LinksOf(L, p, first, size, n) ==
  IF n = 1 THEN size = first /\ Holds(L[1], p, size)
  ELSE \E s \in 0 .. size : /\ FullLinks(L, p, first, s, n - 1)
                            /\ size - s <= InBufSize /\ Holds(L[n], p + s, size - s)

Linked(L, p, first, size) == \E n \in 1 .. Len(L) : LinksOf(L, p, first, size, n)

-----------------------------------------------------------------------------
(* What there is of a block, from the right to read to the write. *)

\* What the reader has of the stream.
Dry == pos = Len(input.kind) \/ readRes = "read"
rd == [pos |-> pos, cross |-> cross, parsed |-> outParsed, dry |-> Dry]

\* The cross block begins behind q.
CrossAt(r, q) == q + Len(r.cross) <= r.pos /\ Holds(r.cross, q, Len(r.cross))

FreshAt(inp, r, p) == Begins(inp, p) \/ (r.cross = <<>> /\ r.pos = p /\ r.dry)

\* The next block begins behind p.
AtStart(inp, r, p) ==
  /\ p <= inp.outSize /\ CrossAt(r, p) /\ p + Len(r.cross) = r.pos /\ FreshAt(inp, r, p)
  /\ r.parsed = p \/ (r.parsed <= p /\ r.cross = <<>> /\ r.dry)

\* n units of the block behind p were parsed and it goes on.
MoreAt(inp, r, p, l, c, n) ==
  /\ c.status = "more" /\ c.inPre = n /\ c.outPre = n
  /\ n >= 1 /\ Chunks(inp, p, n) /\ r.parsed = p /\ Begins(inp, p)
  /\ l.needWrite /\ l.first >= 1

ReadAt(inp, r, p, l, c, L) ==
  IF l.links = 0
    THEN AtStart(inp, r, p) /\ l.size = 0 /\ l.first = 0 /\ (l.finish => r.dry) /\ ~ l.needWrite
    ELSE /\ ~ l.finish /\ r.cross = <<>> /\ p + l.size = r.pos /\ MoreAt(inp, r, p, l, c, l.size)
         /\ FullLinks(L, p, l.first, l.size, l.links)

ParseAt(inp, r, p, l, c, L) ==
  LET g == Len(l.got)
  IN /\ p + l.size = r.pos /\ g <= l.size /\ Holds(l.got, p + (l.size - g), g)
     /\ l.links < Len(L) /\ L[l.links + 1] = l.got
     /\ l.crossed => l.links = 0 /\ r.cross = l.got /\ g >= 1
     /\ ~ l.crossed => r.cross = <<>>
     /\ l.finish => r.dry
     /\ ~ l.finish => l.crossed \/ g = InBufSize
     /\ l.links > 0 => g <= InBufSize
     /\ IF l.links = 0
          THEN /\ l.size = g /\ l.first = g /\ (Begins(inp, p) \/ g = 0) /\ p <= inp.outSize
               /\ r.parsed = p \/ (r.parsed <= p /\ g = 0)
               /\ ~ l.needWrite
          ELSE /\ MoreAt(inp, r, p, l, c, l.size - g)
               /\ FullLinks(L, p, l.first, l.size - g, l.links)

LinkedAt(inp, p, l, L) ==
  l.size # 0 => Begins(inp, p) /\ l.first >= 1 /\ Linked(L, p, l.first, l.size)

\* There was no memory for the block, or it is too large: it is as it was read.
WholeAt(inp, r, p, l, L) ==
  /\ l.alloc \/ l.over
  /\ p <= inp.outSize /\ CrossAt(r, p + l.size) /\ p + l.size + Len(r.cross) = r.pos
  /\ LinkedAt(inp, p, l, L) /\ (l.size = 0 => FreshAt(inp, r, p))

Parsed(inp, p, l, c) ==
  /\ Chunks(inp, p, c.outPre) /\ l.size = c.inPre
  /\ c.status \in {"more", "new", "mark", "notSpecified", "notFinished"}
  /\ c.status \in {"more", "new", "notFinished"} => c.inPre = c.outPre
  /\ c.status = "new" => c.inPre >= 1 /\ Begins(inp, p + c.inPre)
  /\ c.status \in {"mark", "notSpecified"} =>
       /\ c.inPre = c.outPre + 1 /\ p + c.inPre <= Len(inp.kind)
       /\ inp.kind[p + c.inPre] = IF c.status = "mark" THEN "end" ELSE "alien"
  /\ c.status = "notFinished" => ~ inp.finish /\ p + c.outPre = inp.outSize

ParsedAt(inp, r, p, l, c, L) ==
  LET q == p + l.size
  IN /\ ~ l.alloc /\ ~ l.over /\ l.needWrite
     /\ Parsed(inp, p, l, c) /\ LinkedAt(inp, p, l, L) /\ CrossAt(r, q)
     /\ c.status = "more" => r.cross = <<>> /\ q = r.pos /\ r.dry /\ r.parsed <= q
     /\ c.status = "new"  => q + Len(r.cross) = r.pos /\ r.cross # <<>> /\ r.parsed = q

HandAt(inp, r, p, l, c, L) ==
  \/ l.stop
  \/ l.finish /\ WholeAt(inp, r, p, l, L)
  \/ l.needCode /\ ParsedAt(inp, r, p, l, c, L) /\ (l.finish <=> c.status # "new")

\* The block after which the ring ends or begins again.
LastAt(inp, r, p, l, c, L) ==
  \/ l.stop
  \/ WholeAt(inp, r, p, l, L)
  \/ /\ ParsedAt(inp, r, p, l, c, L)
     /\ l.needCode \/ l.thread \/ l.code \in {"data", "memory"}
     /\ l.thread => c.status = "new"
     /\ c.status = "new" => l.thread \/ l.code # "ok"
     /\ l.code = "memory" => c.inPre # 0
     /\ ~ l.needCode /\ l.code = "data" => c.inPre = 0

\* A block that another one follows.
MiddleAt(inp, r, p, l, c, L) ==
  /\ l.needCode /\ l.needWrite /\ ~ l.alloc /\ ~ l.over /\ ~ l.thread
  /\ l.code \in {"ok", "data"} /\ c.status = "new"
  /\ Parsed(inp, p, l, c) /\ LinkedAt(inp, p, l, L) /\ p + l.size <= r.pos

CodedAt(inp, p, l, c) ==
  LET m == Len(c.data)
  IN /\ l.code \in {"ok", "data"}
     /\ m \in Nat /\ c.data = Units(p, m)
     /\ \A u \in p + 1 .. p + m : inp.kind[u] \in {"head", "body"}
     /\ p = 0 /\ m > 0 => inp.kind[1] = "head"
     /\ l.code = "ok" => m = c.outPre /\ c.used = IF c.status = "notSpecified" THEN m ELSE c.inPre
     /\ l.code = "data" =>
          /\ m < c.outPre /\ c.used = m
          /\ inp.kind[p + m + 1] = "bad" \/ (p = 0 /\ m = 0 /\ inp.kind[1] # "head")

\* What there is of the block of a thread at a place: block b begins behind Q[b].
LaidAt(inp, r, Q, bi, ip, at, l, c, L, reads, writes) ==
  LET p == Q[l.block]
  IN /\ writes \/ at = "write" => ip = IF IsBusy(at) THEN p ELSE Q[bi]
     /\ reads => AtStart(inp, r, Q[bi])
     /\ at = "read" => ReadAt(inp, r, p, l, c, L)
     /\ at = "parse" => ParseAt(inp, r, p, l, c, L)
     /\ at = "hand" => HandAt(inp, r, p, l, c, L)
     /\ IsWork(at) /\ l.finish => LastAt(inp, r, p, l, c, L)
     /\ IsWork(at) /\ ~ l.finish => MiddleAt(inp, r, p, l, c, L) /\ Q[l.block + 1] = p + l.size
     /\ at \in {"waitWrite", "write"} /\ l.needCode /\ ~ l.stop /\ ~ l.alloc => CodedAt(inp, p, l, c)

Laid(Q) ==
  \A t \in Thread :
    LaidAt(input, rd, Q, blockIndex, inProcessed, pc[t], loc[t], coder[t], inBuf[t], canRead[t], canWrite[t])

\* While nothing has failed the blocks lie one after the other.
Layout ==
  main = "mt" /\ ~ Told /\ ~ Over => inProcessed = Len(out) /\ \E Q \in Places : Laid(Q)

-----------------------------------------------------------------------------
(* The inductive invariant. *)

\* What a thread writes.
WriteAt(inp, k, ip, interrupted, fl, l, c) ==
  LET m == Len(c.data)
  IN /\ l.needWrite /\ m \in Nat /\ c.data = Units(k, m) /\ Sound(inp, k + m)
     /\ \/ l.code = "ok" /\ c.status \in {"more", "new"} /\ c.used = m /\ ~ interrupted
        \/ /\ Settled(inp, k + m, ip + c.used, fl)
           /\ l.code = "ok" => c.status \notin {"more", "new"}

Writes ==
  \A t \in Thread : pc[t] = "write" /\ loc[t].write =>
    ~ Flags /\ WriteAt(input, Len(out), inProcessed, wasInterrupted, failed, loc[t], coder[t])

\* What a thread has noted of its block at a place.
NoteAt(at, l, c, interrupted) ==
  /\ at \notin {"waitWrite", "write"} \/ ~ l.needCode => c.data = <<>> /\ c.used = 0
  /\ at \in {"read", "parse"} => ~ l.needCode
  /\ at = "hand" /\ l.needCode => l.needWrite
  /\ at = "code" => l.needCode
  /\ IsWork(at) => /\ l.needCode => l.needWrite /\ l.code # "memory"
                   /\ l.code # "ok" => l.needWrite
  /\ at # "write" => ~ l.write
  /\ at = "hand" \/ IsWork(at) => (l.over => ~ l.needCode)
  /\ at = "hand" /\ ~ l.needCode => l.stop \/ l.alloc \/ l.over
  /\ IsWork(at) /\ ~ l.needCode => l.code # "ok" \/ l.stop \/ l.alloc \/ l.over \/ l.thread
  /\ at = "write" /\ (l.code # "ok" \/ l.alloc \/ l.over \/ l.thread) => interrupted

Notes == \A t \in Thread : NoteAt(pc[t], loc[t], coder[t], wasInterrupted)

\* What is kept for the single thread, and the cross block behind it.
KeptAt(inp, r, ip, L, first, size) ==
  /\ size # 0 => Linked(L, ip, first, size)
  /\ CrossAt(r, ip + size)
  /\ ip + size + Len(r.cross) = r.pos \/ Ends(inp, ip, size)

FirstAt(inp, r, ip, size) == IF size = 0 THEN FreshAt(inp, r, ip) ELSE Begins(inp, ip)

\* The ring stops so that one thread can go on.
Flagged ==
  main = "mt" /\ Flags /\ progressRes = "ok" =>
    /\ inProcessed = Len(out)
    /\ \A t \in Thread : IsBusy(pc[t]) =>
         /\ KeptAt(input, rd, inProcessed, inBuf[t], loc[t].first, loc[t].size)
         /\ FirstAt(input, rd, inProcessed, loc[t].size)
         /\ loc[t].size # 0 => loc[t].first >= 1
    /\ (\A t \in Thread : ~ IsBusy(pc[t])) =>
         LET t == filledStart
             size == IF numFilled = 1 THEN filledSize[t] ELSE 0
         IN /\ KeptAt(input, rd, inProcessed, inBuf[t], filledFirst[t], size)
            /\ FirstAt(input, rd, inProcessed, size)
            /\ numFilled = 1 => size # 0 /\ filledFirst[t] >= 1 /\ t < numStarted

\* The ring stops for good.
Stopped ==
  main = "mt" /\ ~ Flags /\ (wasInterrupted \/ Over) =>
    \/ Settled(input, Len(out), inProcessed, failed)
    \/ \E t \in Thread : pc[t] = "write" /\ loc[t].write

\* What failed, and who knows of it.
Failures ==
  /\ failed \subseteq {"read", "write", "progress", "last"}
  /\ main # "start" => /\ readRes = "read" <=> "read" \in failed
                       /\ readRes = "read" => readWasFinished
                       /\ readWasFinished => Dry
  /\ main = "mt" /\ progressRes # "ok" => "progress" \in failed
  /\ main \in {"mt", "st"} => "last" \notin failed
  /\ main = "start" => failed = {} /\ out = <<>>
  /\ result = "none" <=> main # "done"
  /\ main = "mt" => fresh

FirstOf(first, size) == IF first # 0 THEN first ELSE Min({InBufSize, size})

\* One thread goes on.
Single ==
  main = "st" =>
    /\ inProcessed = Len(out) /\ (fresh \/ inProcessed > 0)
    /\ ~ tMode =>
         /\ fresh => Begins(input, inProcessed) \/ (inProcessed = pos /\ Dry)
         /\ inProcessed = pos \/ Ends(input, inProcessed, 0)
    /\ tMode =>
         LET t == filledStart
             size == IF numFilled = 1 THEN filledSize[t] ELSE 0
         IN /\ KeptAt(input, rd, inProcessed, inBuf[t], FirstOf(filledFirst[t], size), size)
            /\ fresh => FirstAt(input, rd, inProcessed, size)
            /\ numFilled = 1 => size # 0 /\ t < numStarted

\* The decoders have returned.
Outcome ==
  main = "result" =>
    /\ Settled(input, Len(out), inProcessed, failed)
    /\ sres \in {"data", "eof"} => failed # {} \/ Verdict(input.kind, input.outSize, input.finish) # "good"
    /\ sres \notin {"ok", "data", "eof"} => failed # {}
    /\ "last" \in failed => sres \notin {"ok", "eof"}

DataTypes ==
  inBuf \in [Thread -> Seq(Seq(Nat))] /\ out \in Seq(Nat)

Output == out = Units(0, Len(out)) /\ Sound(input, Len(out))

Content ==
  /\ DataTypes /\ Output /\ Failures /\ Notes /\ Writes
  /\ Layout /\ Flagged /\ Stopped /\ Single /\ Outcome

-----------------------------------------------------------------------------
(* Sequences of units, and the links of a buffer put together. *)

\* What a read of n units behind a returns (MtDec.c:352-365).
LEMMA UnitsAre ==
  ASSUME NEW a \in Nat, NEW n \in Nat
  PROVE  /\ Units(a, n) \in Seq(Nat) /\ Len(Units(a, n)) = n
         /\ \A i \in 1 .. n : Units(a, n)[i] = a + i
<1>1. Units(a, n) = [i \in 1 .. n |-> a + i]
  BY DEF Units
<1>2. \A i \in 1 .. n : a + i \in Nat
  OBVIOUS
<1> QED
  BY <1>1, <1>2

\* Two sequences of consecutive units joined.
LEMMA JoinedAre ==
  ASSUME NEW a \in Nat, NEW n \in Nat, NEW m \in Nat,
         NEW x \in Seq(Nat), NEW y \in Seq(Nat), NEW z \in Seq(Nat),
         Len(x) = n, Len(y) = m, Len(z) = n + m,
         \A i \in 1 .. n : x[i] = a + i, \A i \in 1 .. m : y[i] = a + n + i,
         \A i \in 1 .. n + m : z[i] = a + i
  PROVE  x \o y = z
<1> DEFINE w == x \o y
<1>1. /\ w \in Seq(Nat) /\ Len(w) = n + m
      /\ \A i \in 1 .. n + m : w[i] = IF i <= n THEN x[i] ELSE y[i - n]
  BY ConcatProperties, ZenonT(40)
<1> HIDE DEF w
<1>2. ASSUME NEW i \in 1 .. n + m
      PROVE  w[i] = z[i]
  <2>1. CASE i <= n
    <3>1. w[i] = x[i] /\ i \in 1 .. n
      BY <1>1, <2>1
    <3> QED
      BY <3>1
  <2>2. CASE i > n
    <3>1. w[i] = y[i - n] /\ i - n \in 1 .. m
      BY <1>1, <2>2
    <3>2. y[i - n] = a + n + (i - n)
      BY <3>1
    <3> QED
      BY <3>1, <3>2
  <2> QED
    BY <2>1, <2>2
<1>3. w = z
  BY <1>1, <1>2
<1> QED
  BY <1>3 DEF w

\* Two reads one after the other are one read.
LEMMA UnitsJoin ==
  ASSUME NEW a \in Nat, NEW n \in Nat, NEW m \in Nat
  PROVE  Units(a, n) \o Units(a + n, m) = Units(a, n + m)
<1> DEFINE x == Units(a, n)
           y == Units(a + n, m)
           z == Units(a, n + m)
<1>1. x \in Seq(Nat) /\ Len(x) = n /\ \A i \in 1 .. n : x[i] = a + i
  BY UnitsAre
<1>2. a + n \in Nat /\ n + m \in Nat
  OBVIOUS
<1>3. y \in Seq(Nat) /\ Len(y) = m /\ \A i \in 1 .. m : y[i] = a + n + i
  BY <1>2, UnitsAre
<1>4. z \in Seq(Nat) /\ Len(z) = n + m /\ \A i \in 1 .. n + m : z[i] = a + i
  BY <1>2, UnitsAre
<1> HIDE DEF x, y, z
<1>5. x \o y = z
  BY <1>1, <1>3, <1>4, JoinedAre
<1> QED
  BY <1>5 DEF x, y, z

\* Two sequences of the n units behind a are the same.
LEMMA UnitsEqual ==
  ASSUME NEW a, NEW n, NEW x \in Seq(Nat), NEW y \in Seq(Nat), Len(x) = n, Len(y) = n,
         \A i \in 1 .. n : x[i] = a + i, \A i \in 1 .. n : y[i] = a + i
  PROVE  x = y
<1>1. \A i \in 1 .. n : x[i] = y[i]
  OBVIOUS
<1> QED
  BY <1>1

\* A sequence that holds the n units behind a begins with them.
LEMMA HoldsIs ==
  ASSUME NEW w \in Seq(Nat), NEW a \in Nat, NEW n \in Nat, Holds(w, a, n)
  PROVE  SubSeq(w, 1, n) = Units(a, n) /\ (n = Len(w) => w = Units(a, n))
<1>1. n <= Len(w) /\ \A i \in 1 .. n : w[i] = a + i
  BY DEF Holds
<1>2. /\ Units(a, n) \in Seq(Nat) /\ Len(Units(a, n)) = n
      /\ \A i \in 1 .. n : Units(a, n)[i] = a + i
  BY UnitsAre
<1> DEFINE s == SubSeq(w, 1, n)
           v == Units(a, n)
<1>3. s \in Seq(Nat) /\ Len(s) = n /\ \A i \in 1 .. n : s[i] = w[i]
  BY <1>1
<1> HIDE DEF s, v
<1>4. v \in Seq(Nat) /\ Len(v) = n /\ \A i \in 1 .. n : v[i] = a + i
  BY <1>2 DEF v
<1>5. s = v
  <2>1. \A i \in 1 .. n : s[i] = a + i
    BY <1>1, <1>3, Zenon
  <2> QED
    BY <2>1, <1>3, <1>4, UnitsEqual
<1>6. ASSUME n = Len(w)
      PROVE  w = v
  <2>1. Len(w) = n /\ \A i \in 1 .. n : w[i] = a + i
    BY <1>6, <1>1
  <2> QED
    BY <2>1, <1>4, UnitsEqual
<1> QED
  BY <1>5, <1>6 DEF s, v

LEMMA HoldsAll ==
  ASSUME NEW w \in Seq(Nat), NEW a \in Nat, NEW n \in Nat, Holds(w, a, n), Len(w) = n
  PROVE  w = Units(a, n)
BY HoldsIs

\* The first units of a read.
LEMMA UnitsHold ==
  ASSUME NEW a \in Nat, NEW n \in Nat, NEW m \in 0 .. n
  PROVE  Holds(Units(a, n), a, m) /\ SubSeq(Units(a, n), 1, m) = Units(a, m)
<1>1. /\ Units(a, n) \in Seq(Nat) /\ Len(Units(a, n)) = n
      /\ \A i \in 1 .. n : Units(a, n)[i] = a + i
  BY UnitsAre
<1>2. Holds(Units(a, n), a, m)
  BY <1>1 DEF Holds
<1>3. m \in Nat
  OBVIOUS
<1> QED
  BY <1>1, <1>2, <1>3, HoldsIs

\* g[k] is the first k links of s, one after the other.
Flat(s, m, g) ==
  /\ g \in [1 .. m -> Seq(Nat)]
  /\ \A k \in 1 .. m : g[k] = IF k = 1 THEN s[k] ELSE g[k - 1] \o s[k]

\* The links of a buffer can be put together one by one.
LEMMA FlatExists ==
  ASSUME NEW s \in Seq(Seq(Nat)), NEW m \in 0 .. Len(s)
  PROVE  \E g : Flat(s, m, g)
<1> DEFINE S == {k \in 0 .. m : ~ \E g : Flat(s, k, g)}
<1>1. CASE S = {}
  <2>1. m \in 0 .. m
    OBVIOUS
  <2>2. m \notin S
    <3> HIDE DEF S
    <3> QED
      BY <1>1
  <2> QED
    BY <2>1, <2>2
<1>2. CASE S # {}
  <2>1. PICK k \in S : \A n \in S : k <= n
    <3>1. S \subseteq Nat
      OBVIOUS
    <3> HIDE DEF S
    <3> QED
      BY <3>1, <1>2, Least
  <2>2. k \in 0 .. m /\ ~ \E g : Flat(s, k, g)
    BY <2>1
  <2>3. CASE k = 0
    <3> DEFINE e == [i \in 1 .. 0 |-> s[i]]
    <3>1. Flat(s, 0, e)
      BY DEF Flat
    <3> QED
      BY <3>1, <2>2, <2>3
  <2>4. CASE k # 0
    <3>1. k - 1 \in 0 .. m /\ k - 1 \notin S
      BY <2>1, <2>2, <2>4
    <3>2. PICK g : Flat(s, k - 1, g)
      BY <3>1
    <3>3. s[k] \in Seq(Nat) /\ k \in 1 .. Len(s)
      BY <2>2, <2>4
    <3> DEFINE h == [i \in 1 .. k |-> IF i < k THEN g[i] ELSE IF k = 1 THEN s[k] ELSE g[k - 1] \o s[k]]
    <3>4. g \in [1 .. k - 1 -> Seq(Nat)]
      BY <3>2 DEF Flat
    <3>5. \A i \in 1 .. k - 1 : g[i] = IF i = 1 THEN s[i] ELSE g[i - 1] \o s[i]
      BY <3>2 DEF Flat
    <3>6. k > 1 => g[k - 1] \o s[k] \in Seq(Nat)
      <4>1. ASSUME k > 1
            PROVE  g[k - 1] \in Seq(Nat)
        BY <4>1, <3>4, <2>2
      <4> QED
        BY <4>1, <3>3
    <3>7. h \in [1 .. k -> Seq(Nat)]
      BY <3>3, <3>4, <3>6, <2>2, <2>4
    <3>8. ASSUME NEW i \in 1 .. k
          PROVE  h[i] = IF i = 1 THEN s[i] ELSE h[i - 1] \o s[i]
      <4>1. CASE i < k
        <5>1. h[i] = g[i] /\ (i # 1 => h[i - 1] = g[i - 1])
          BY <4>1, <2>2
        <5> QED
          BY <5>1, <3>5, <4>1, <2>2
      <4>2. CASE i = k
        <5>1. i # 1 => h[i - 1] = g[i - 1]
          BY <4>2, <2>2
        <5> QED
          BY <5>1, <4>2
      <4> QED
        BY <4>1, <4>2, <2>2
    <3> HIDE DEF h
    <3>9. Flat(s, k, h)
      BY <3>7, <3>8 DEF Flat
    <3> QED
      BY <3>9, <2>2
  <2> QED
    BY <2>3, <2>4
<1> QED
  BY <1>1, <1>2

\* FlattenSeq puts the links together.
LEMMA FlatIs ==
  ASSUME NEW s \in Seq(Seq(Nat)), s # <<>>
  PROVE  \E g : Flat(s, Len(s), g) /\ FlattenSeq(s) = g[Len(s)]
<1> DEFINE n == Len(s)
           H(f) == [i \in 1 .. n |-> IF i = 1 THEN s[i] ELSE f[i - 1] \o s[i]]
           fl == CHOOSE f : f = H(f)
<1>1. n \in Nat /\ n >= 1
  OBVIOUS
<1>2. FlattenSeq(s) = fl[n]
  BY <1>1 DEF FlattenSeq
<1>3. PICK g : Flat(s, n, g)
  <2>1. n \in 0 .. n
    BY <1>1
  <2> QED
    BY <2>1, FlatExists
<1>4. g \in [1 .. n -> Seq(Nat)] /\ g = H(g)
  BY <1>3, ZenonT(40) DEF Flat
<1>5. fl = H(fl)
  BY <1>4, ZenonT(40)
<1> HIDE DEF fl
<1>6. DOMAIN fl = 1 .. n /\ \A i \in 1 .. n : fl[i] = IF i = 1 THEN s[i] ELSE fl[i - 1] \o s[i]
  BY <1>5
<1>7. DOMAIN g = 1 .. n /\ \A i \in 1 .. n : g[i] = IF i = 1 THEN s[i] ELSE g[i - 1] \o s[i]
  BY <1>4
<1> HIDE DEF n, H
<1> DEFINE S == {i \in 1 .. n : fl[i] # g[i]}
<1>8. S = {}
  <2> SUFFICES ASSUME S # {}
               PROVE  FALSE
    OBVIOUS
  <2>1. PICK k \in S : \A i \in S : k <= i
    <3>1. S \subseteq Nat
      BY <1>1
    <3> HIDE DEF S
    <3> QED
      BY <3>1, Least
  <2>2. k \in 1 .. n /\ fl[k] # g[k]
    BY <2>1
  <2>3. k # 1
    BY <2>2, <1>6, <1>7
  <2>4. k - 1 \in 1 .. n /\ k - 1 \notin S
    BY <2>1, <2>2, <2>3, <1>1
  <2>5. fl[k - 1] = g[k - 1]
    BY <2>4
  <2> QED
    BY <2>2, <2>3, <2>5, <1>6, <1>7
<1>9. fl = g
  <2>1. \A i \in 1 .. n : fl[i] = g[i]
    BY <1>8
  <2>2. fl = [i \in 1 .. n |-> fl[i]] /\ g = [i \in 1 .. n |-> g[i]]
    BY <1>4, <1>5, <1>6, <1>7 DEF H
  <2> QED
    BY <2>1, <2>2
<1> QED
  BY <1>2, <1>3, <1>9 DEF n

-----------------------------------------------------------------------------
(* What the links of a buffer hold together. *)

\* The links of a thread's buffer.
Links == Seq(Seq(Nat))

\* What follows on a sequence leaves its beginning, and goes on with it
\* (MtDec.c:620-655).
LEMMA HoldsMore ==
  ASSUME NEW a \in Seq(Nat), NEW b \in Seq(Nat), NEW q \in Nat, NEW j \in Nat
  PROVE  /\ Holds(a, q, j) => Holds(a \o b, q, j)
         /\ Holds(a, q, Len(a)) /\ Holds(b, q + Len(a), j) => Holds(a \o b, q, Len(a) + j)
<1> DEFINE w == a \o b
<1>1. /\ w \in Seq(Nat) /\ Len(w) = Len(a) + Len(b)
      /\ \A i \in 1 .. Len(a) + Len(b) : w[i] = IF i <= Len(a) THEN a[i] ELSE b[i - Len(a)]
  BY ConcatProperties
<1> HIDE DEF w
<1>2. PICK n, m \in Nat : n = Len(a) /\ m = Len(b)
  OBVIOUS
<1>3. /\ Len(w) = n + m
      /\ \A i \in 1 .. n + m : w[i] = IF i <= n THEN a[i] ELSE b[i - n]
  BY <1>1, <1>2
<1>4. ASSUME Holds(a, q, j)
      PROVE  Holds(w, q, j)
  <2>1. j <= n /\ \A i \in 1 .. j : a[i] = q + i
    BY <1>4, <1>2 DEF Holds
  <2>2. \A i \in 1 .. j : w[i] = q + i
    BY <2>1, <1>3
  <2> QED
    BY <2>1, <2>2, <1>3 DEF Holds
<1>5. ASSUME Holds(a, q, n), Holds(b, q + n, j)
      PROVE  Holds(w, q, n + j)
  <2>1. \A i \in 1 .. n : a[i] = q + i
    BY <1>5 DEF Holds
  <2>2. j <= m /\ \A i \in 1 .. j : b[i] = q + n + i
    BY <1>5, <1>2 DEF Holds
  <2>3. ASSUME NEW i \in 1 .. n + j
        PROVE  w[i] = q + i
    <3>1. CASE i <= n
      BY <3>1, <2>1, <2>2, <1>3
    <3>2. CASE i > n
      <4>1. i - n \in 1 .. j /\ i \in 1 .. n + m
        BY <3>2, <2>2
      <4>2. b[i - n] = q + n + (i - n)
        BY <4>1, <2>2
      <4>3. w[i] = b[i - n]
        BY <4>1, <3>2, <1>3
      <4> QED
        BY <4>2, <4>3
    <3> QED
      BY <3>1, <3>2
  <2> QED
    BY <2>2, <2>3, <1>3 DEF Holds
<1> QED
  BY <1>2, <1>4, <1>5 DEF w

\* The links put together are a sequence of units.
LEMMA FlatType ==
  ASSUME NEW s \in Links
  PROVE  FlattenSeq(s) \in Seq(Nat)
<1>1. CASE s = <<>>
  <2>1. FlattenSeq(s) = s /\ Len(s) = 0
    BY <1>1 DEF FlattenSeq
  <2> QED
    BY <2>1, <1>1
<1>2. CASE s # <<>>
  <2>1. s \in Seq(Seq(Nat)) /\ Len(s) \in 1 .. Len(s)
    BY <1>2 DEF Links
  <2>2. PICK g : Flat(s, Len(s), g) /\ FlattenSeq(s) = g[Len(s)]
    BY <2>1, <1>2, FlatIs
  <2> QED
    BY <2>1, <2>2 DEF Flat
<1> QED
  BY <1>1, <1>2

\* The size units behind q are in the first k + 1 links; all but the last of
\* these are full.
Row(L, q, k, size, o) ==
  /\ o \in [Nat -> Nat] /\ o[1] = 0 /\ o[k + 1] <= size /\ k < Len(L)
  /\ \A j \in 1 .. k : o[j + 1] = o[j] + Len(L[j]) /\ Holds(L[j], q + o[j], Len(L[j]))
  /\ Holds(L[k + 1], q + o[k + 1], size - o[k + 1])

\* Links in a row, put together, hold what they hold (MtDec.c:620-655).
LEMMA FlatHolds ==
  ASSUME NEW L \in Links, NEW q \in Nat, NEW k \in Nat, NEW size \in Nat, NEW o, Row(L, q, k, size, o)
  PROVE  Holds(FlattenSeq(L), q, size)
<1>1. PICK n \in Nat : n = Len(L) /\ k < n
  <2>1. Len(L) \in Nat /\ k < Len(L)
    BY DEF Row, Links
  <2> QED
    BY <2>1
<1>2. L \in Seq(Seq(Nat)) /\ L # <<>>
  BY <1>1 DEF Links
<1>3. PICK g : Flat(L, n, g) /\ FlattenSeq(L) = g[n]
  BY <1>1, <1>2, FlatIs
<1>4. /\ g \in [1 .. n -> Seq(Nat)]
      /\ \A j \in 1 .. n : g[j] = IF j = 1 THEN L[j] ELSE g[j - 1] \o L[j]
  BY <1>3 DEF Flat
<1>5. \A j \in 1 .. n : L[j] \in Seq(Nat)
  BY <1>1, <1>2
<1>6. /\ o \in [Nat -> Nat] /\ o[1] = 0 /\ o[k + 1] <= size
      /\ \A j \in 1 .. k : o[j + 1] = o[j] + Len(L[j]) /\ Holds(L[j], q + o[j], Len(L[j]))
      /\ Holds(L[k + 1], q + o[k + 1], size - o[k + 1])
  BY DEF Row
<1>9. \A i \in Nat : o[i] \in Nat
  <2>1. o \in [Nat -> Nat]
    BY DEF Row
  <2> QED
    BY <2>1
\* The full links.
<1> DEFINE Full(j) == Len(g[j]) = o[j + 1] /\ Holds(g[j], q, o[j + 1])
           S == {j \in 1 .. k : ~ Full(j)}
<1>7. S = {}
  <2> SUFFICES ASSUME S # {}
               PROVE  FALSE
    OBVIOUS
  <2>1. PICK j \in S : \A i \in S : j <= i
    <3>1. S \subseteq Nat
      OBVIOUS
    <3> HIDE DEF S
    <3> QED
      BY <3>1, Least
  <2>2. j \in 1 .. k /\ ~ Full(j) /\ j \in 1 .. n
    BY <2>1, <1>1
  <2>3. o[j + 1] = o[j] + Len(L[j]) /\ Holds(L[j], q + o[j], Len(L[j]))
    BY <2>2, <1>6
  <2>4. L[j] \in Seq(Nat)
    BY <2>2, <1>5
  <2>5. PICK a, d \in Nat : a = o[j] /\ d = Len(L[j]) /\ o[j + 1] = a + d /\ Holds(L[j], q + a, d)
    <3>1. j \in Nat /\ Len(L[j]) \in Nat
      BY <2>2, <2>4
    <3>2. o[j] \in Nat
      BY <3>1, <1>9
    <3> QED
      BY <3>1, <3>2, <2>3
  <2>6. CASE j = 1
    <3>1. g[j] = L[j] /\ a = 0
      BY <2>6, <2>2, <2>5, <1>4, <1>6
    <3> QED
      BY <3>1, <2>2, <2>5
  <2>7. CASE j # 1
    <3>1. j - 1 \in 1 .. k /\ j - 1 \notin S /\ j - 1 \in 1 .. n
      BY <2>1, <2>2, <2>7
    <3>2. Full(j - 1)
      BY <3>1
    <3>3. (j - 1) + 1 = j
      BY <2>2
    <3>4. Len(g[j - 1]) = a /\ Holds(g[j - 1], q, a)
      BY <3>2, <3>3, <2>5
    <3>5. g[j] = g[j - 1] \o L[j]
      BY <2>2, <2>7, <1>4
    <3>6. g[j - 1] \in Seq(Nat)
      BY <3>1, <1>4
    <3>7. Holds(g[j], q, a + d)
      BY <3>4, <3>5, <3>6, <2>4, <2>5, HoldsMore
    <3>8. Len(g[j]) = a + d
      <4>1. Len(g[j - 1] \o L[j]) = Len(g[j - 1]) + Len(L[j])
        BY <3>6, <2>4, ConcatProperties
      <4> QED
        BY <4>1, <3>4, <3>5, <2>5
    <3> QED
      BY <3>7, <3>8, <2>2, <2>5
  <2> QED
    BY <2>6, <2>7
\* The link in which the size units end, and those behind it.
<1> DEFINE B == {j \in k + 1 .. n : ~ Holds(g[j], q, size)}
<1>8. B = {}
  <2> SUFFICES ASSUME B # {}
               PROVE  FALSE
    OBVIOUS
  <2>1. PICK j \in B : \A i \in B : j <= i
    <3>1. B \subseteq Nat
      OBVIOUS
    <3> HIDE DEF B
    <3> QED
      BY <3>1, Least
  <2>2. j \in k + 1 .. n /\ ~ Holds(g[j], q, size) /\ j \in 1 .. n
    BY <2>1, <1>1
  <2>3. L[j] \in Seq(Nat)
    BY <2>2, <1>5
  <2>4. CASE j = 1
    <3>1. k = 0 /\ g[j] = L[j] /\ o[k + 1] = 0
      <4>1. k = 0
        BY <2>4, <2>2
      <4>2. g[1] = L[1] /\ o[1] = 0
        BY <2>4, <2>2, <1>4, <1>6
      <4> QED
        BY <4>1, <4>2, <2>4
    <3>2. Holds(L[1], q + 0, size - 0)
      BY <3>1, <1>6
    <3> QED
      BY <3>1, <3>2, <2>2, <2>4
  <2>5. CASE j # 1
    <3>1. j - 1 \in 1 .. n /\ g[j] = g[j - 1] \o L[j]
      <4>1. g[j] = IF j = 1 THEN L[j] ELSE g[j - 1] \o L[j]
        BY <2>2, <1>4
      <4>2. j - 1 \in 1 .. n
        BY <2>2, <2>5, <1>1
      <4> QED
        BY <4>1, <4>2, <2>5
    <3>2. g[j - 1] \in Seq(Nat)
      BY <3>1, <1>4
    <3>3. CASE j = k + 1
      <4>1. k \in 1 .. k /\ k \notin S /\ j - 1 = k
        BY <3>3, <2>5, <1>7
      <4>2. Full(k)
        BY <4>1
      <4>3. PICK a, d \in Nat : a = o[k + 1] /\ size = a + d /\ d = size - a
        <5>1. o[k + 1] \in Nat
          BY <1>9
        <5> QED
          BY <5>1, <1>6
      <4>4. Len(g[j - 1]) = a /\ Holds(g[j - 1], q, a)
        BY <4>1, <4>2, <4>3
      <4>5. Holds(L[j], q + a, d)
        BY <4>3, <3>3, <1>6
      <4>6. Holds(g[j], q, a + d)
        BY <4>4, <4>5, <3>1, <3>2, <2>3, HoldsMore
      <4> QED
        BY <4>6, <4>3, <2>2
    <3>4. CASE j # k + 1
      <4>1. j - 1 \in k + 1 .. n /\ j - 1 \notin B
        BY <3>4, <2>1, <2>2
      <4>2. Holds(g[j - 1], q, size)
        BY <4>1
      <4>3. Holds(g[j], q, size)
        BY <4>2, <3>1, <3>2, <2>3, HoldsMore
      <4> QED
        BY <4>3, <2>2
    <3> QED
      BY <3>3, <3>4
  <2> QED
    BY <2>4, <2>5
<1> QED
  <2>1. n \in k + 1 .. n
    BY <1>1
  <2> QED
    BY <2>1, <1>3, <1>8

-----------------------------------------------------------------------------
(* The links of a block: how they are filled one after the other.          *)

InBufIs == InBufSize \in Nat \ {0}

\* The j-th link is the g units behind p.
LinkIs(L, j, p, g) == j \in 1 .. Len(L) /\ Len(L[j]) = g /\ Holds(L[j], p, g)

\* The first n links are those of L.
SameLinks(K, L, n) == n <= Len(K) /\ \A j \in 1 .. n : K[j] = L[j]

\* Where the full links of a block lie (MtDec.c:300-395).
LEMMA FullIs ==
  ASSUME NEW L \in Links, NEW p \in Nat, NEW first \in Nat, NEW size \in Nat, NEW n \in Nat,
         FullLinks(L, p, first, size, n)
  PROVE  /\ n \in 1 .. Len(L)
         /\ \E o : o \in [Nat -> Nat] /\ LinksAt(L, p, first, size, n, o)
BY DEF FullLinks, Places

\* The facts of LinksAt one by one.
LEMMA LinksAre ==
  ASSUME NEW L, NEW p, NEW first, NEW size, NEW n, NEW o, LinksAt(L, p, first, size, n, o)
  PROVE  /\ o[1] = 0 /\ o[2] = first /\ o[n + 1] = size
         /\ \A i, j \in 1 .. n + 1 : i <= j => o[i] <= o[j]
         /\ \A j \in 1 .. n : o[j + 1] = o[j] + Len(L[j])
         /\ \A j \in 1 .. n : Holds(L[j], p + o[j], Len(L[j]))
         /\ \A j \in 1 .. n : j >= 2 => Len(L[j]) = InBufSize
BY DEF LinksAt

\* The first link of a block is as long as it was read.
LEMMA FirstFull ==
  ASSUME NEW L \in Links, NEW p \in Nat, NEW g \in Nat, LinkIs(L, 1, p, g)
  PROVE  FullLinks(L, p, g, g, 1)
<1> DEFINE o == [i \in Nat |-> IF i <= 1 THEN 0 ELSE g]
<1>1. o \in Places
  BY DEF Places
<1>2. o[1] = 0 /\ o[2] = g /\ o[1 + 1] = g
  OBVIOUS
<1>3. \A i, j \in 1 .. 1 + 1 : i <= j => o[i] <= o[j]
  OBVIOUS
<1> HIDE DEF o
<1>4. 1 \in 1 .. Len(L) /\ Len(L[1]) = g /\ Holds(L[1], p, g)
  BY DEF LinkIs
<1>5. \A j \in 1 .. 1 : /\ o[j + 1] = o[j] + Len(L[j]) /\ Holds(L[j], p + o[j], Len(L[j]))
                        /\ j >= 2 => Len(L[j]) = InBufSize
  <2> SUFFICES /\ o[1 + 1] = o[1] + Len(L[1]) /\ Holds(L[1], p + o[1], Len(L[1]))
    OBVIOUS
  <2>1. p + o[1] = p
    BY <1>2
  <2> QED
    BY <2>1, <1>2, <1>4
<1>6. LinksAt(L, p, g, g, 1, o)
  BY <1>2, <1>3, <1>5 DEF LinksAt
<1> QED
  BY <1>1, <1>4, <1>6 DEF FullLinks

\* Full links stay where they are when links behind them change.
LEMMA LinksSame ==
  ASSUME NEW L \in Links, NEW K \in Links, NEW p \in Nat, NEW first \in Nat, NEW size \in Nat, NEW n \in Nat,
         FullLinks(L, p, first, size, n), SameLinks(K, L, n)
  PROVE  FullLinks(K, p, first, size, n)
<1>1. n \in 1 .. Len(L)
  BY FullIs
<1>2. PICK o : o \in [Nat -> Nat] /\ LinksAt(L, p, first, size, n, o)
  BY FullIs
<1>3. n <= Len(K) /\ \A j \in 1 .. n : K[j] = L[j]
  BY DEF SameLinks
<1>4. LinksAt(K, p, first, size, n, o)
  BY <1>2, <1>3 DEF LinksAt
<1>5. n \in 1 .. Len(K)
  BY <1>1, <1>3 DEF Links
<1> QED
  BY <1>2, <1>4, <1>5 DEF FullLinks, Places

\* One more full link (MtDec.c:300-395).
LEMMA LinksMore ==
  ASSUME NEW L \in Links, NEW p \in Nat, NEW first \in Nat, NEW size \in Nat, NEW n \in Nat,
         FullLinks(L, p, first, size, n), InBufIs, LinkIs(L, n + 1, p + size, InBufSize)
  PROVE  FullLinks(L, p, first, size + InBufSize, n + 1)
<1>1. n \in 1 .. Len(L)
  BY FullIs
<1>2. PICK o : o \in [Nat -> Nat] /\ LinksAt(L, p, first, size, n, o)
  BY FullIs
<1>3. PICK m \in Nat : m = size + InBufSize /\ InBufSize \in Nat
  BY DEF InBufIs
<1>4. n + 1 \in 1 .. Len(L) /\ Len(L[n + 1]) = InBufSize /\ Holds(L[n + 1], p + size, InBufSize)
  BY DEF LinkIs
<1>5. PICK r : r = [o EXCEPT ![n + 2] = m]
  OBVIOUS
<1>6. r \in [Nat -> Nat] /\ r[n + 2] = m /\ \A i \in Nat : i # n + 2 => r[i] = o[i]
  BY <1>2, <1>5
<1>7. /\ o[1] = 0 /\ o[2] = first /\ o[n + 1] = size
      /\ \A i, j \in 1 .. n + 1 : i <= j => o[i] <= o[j]
      /\ \A j \in 1 .. n : /\ o[j + 1] = o[j] + Len(L[j]) /\ Holds(L[j], p + o[j], Len(L[j]))
                           /\ j >= 2 => Len(L[j]) = InBufSize
  BY <1>2 DEF LinksAt
<1>9. \A i \in 1 .. n + 1 : r[i] = o[i] /\ o[i] \in Nat
  BY <1>2, <1>6
<1>8. r[1] = 0 /\ r[2] = first /\ r[n + 1] = size /\ r[(n + 1) + 1] = m
  <2>1. 1 \in 1 .. n + 1 /\ 2 \in 1 .. n + 1 /\ n + 1 \in 1 .. n + 1 /\ (n + 1) + 1 = n + 2
    BY <1>1
  <2>2. r[1] = o[1] /\ r[2] = o[2] /\ r[n + 1] = o[n + 1]
    BY <2>1, <1>9
  <2> QED
    BY <2>1, <2>2, <1>6, <1>7
<1>10. ASSUME NEW i \in 1 .. (n + 1) + 1, NEW j \in 1 .. (n + 1) + 1, i <= j
       PROVE  r[i] <= r[j]
  <2>1. CASE j <= n + 1
    BY <2>1, <1>7, <1>9, <1>10
  <2>2. CASE j = n + 2 /\ i <= n + 1
    <3>1. o[i] <= o[n + 1] /\ r[i] = o[i] /\ o[i] \in Nat
      BY <2>2, <1>7, <1>9
    <3>2. r[j] = m
      BY <2>2, <1>6
    <3> QED
      BY <3>1, <3>2, <1>3, <1>7
  <2>3. CASE j = n + 2 /\ i = n + 2
    BY <2>3, <1>6
  <2> QED
    BY <2>1, <2>2, <2>3, <1>10
<1>11. ASSUME NEW j \in 1 .. n + 1
       PROVE  /\ r[j + 1] = r[j] + Len(L[j]) /\ Holds(L[j], p + r[j], Len(L[j]))
              /\ j >= 2 => Len(L[j]) = InBufSize
  <2>1. CASE j <= n
    <3>1. j \in 1 .. n /\ r[j] = o[j] /\ r[j + 1] = o[j + 1]
      BY <2>1, <1>9
    <3> QED
      BY <3>1, <1>7
  <2>2. CASE j = n + 1
    BY <2>2, <1>3, <1>4, <1>8
  <2> QED
    BY <2>1, <2>2
<1>12. LinksAt(L, p, first, m, n + 1, r)
  BY <1>8, <1>10, <1>11 DEF LinksAt
<1> QED
  BY <1>3, <1>4, <1>6, <1>12 DEF FullLinks, Places

\* Full links hold a block.
LEMMA FullIsLinked ==
  ASSUME NEW L \in Links, NEW p \in Nat, NEW first \in Nat, NEW size \in Nat, NEW n \in Nat,
         FullLinks(L, p, first, size, n), InBufIs
  PROVE  Linked(L, p, first, size)
<1>1. n \in 1 .. Len(L)
  BY FullIs
<1>2. PICK o : o \in [Nat -> Nat] /\ LinksAt(L, p, first, size, n, o)
  BY FullIs
<1>3. /\ o[1] = 0 /\ o[2] = first /\ o[n + 1] = size
      /\ \A i, j \in 1 .. n + 1 : i <= j => o[i] <= o[j]
      /\ \A j \in 1 .. n : /\ o[j + 1] = o[j] + Len(L[j]) /\ Holds(L[j], p + o[j], Len(L[j]))
                           /\ j >= 2 => Len(L[j]) = InBufSize
  BY <1>2 DEF LinksAt
<1>4. L[n] \in Seq(Nat) /\ Len(L[n]) \in Nat
  BY <1>1 DEF Links
<1>5. CASE n = 1
  <2>1. o[1 + 1] = o[1] + Len(L[1]) /\ Holds(L[1], p + o[1], Len(L[1]))
    BY <1>3, <1>5
  <2>2. size = first /\ Len(L[1]) = size /\ p + o[1] = p
    BY <2>1, <1>3, <1>4, <1>5
  <2>3. LinksOf(L, p, first, size, 1)
    BY <2>1, <2>2 DEF LinksOf
  <2> QED
    BY <2>3, <1>1, <1>5 DEF Linked
<1>6. CASE n # 1
  <2>1. PICK s \in Nat : s = o[n]
    BY <1>1, <1>2
  <2>2. /\ size = s + Len(L[n]) /\ Holds(L[n], p + s, Len(L[n])) /\ Len(L[n]) = InBufSize
    BY <2>1, <1>1, <1>3, <1>6
  <2>3. s \in 0 .. size /\ size - s = InBufSize /\ size - s <= InBufSize /\ Holds(L[n], p + s, size - s)
    BY <2>1, <2>2, <1>4 DEF InBufIs
  <2>4. n - 1 \in 1 .. Len(L) /\ (n - 1) + 1 = n
    BY <1>1, <1>6
  <2>5. LinksAt(L, p, first, s, n - 1, o)
    <3>1. \A j \in 1 .. n - 1 : j \in 1 .. n
      BY <1>1
    <3>2. \A j \in 1 .. (n - 1) + 1 : j \in 1 .. n + 1
      BY <1>1
    <3>3. o[(n - 1) + 1] = s
      BY <2>1, <2>4
    <3>4. \A i, j \in 1 .. (n - 1) + 1 : i <= j => o[i] <= o[j]
      BY <3>2, <1>3
    <3>5. \A j \in 1 .. n - 1 : /\ o[j + 1] = o[j] + Len(L[j]) /\ Holds(L[j], p + o[j], Len(L[j]))
                                /\ j >= 2 => Len(L[j]) = InBufSize
      BY <3>1, <1>3
    <3> QED
      BY <3>3, <3>4, <3>5, <1>3 DEF LinksAt
  <2>6. FullLinks(L, p, first, s, n - 1)
    BY <2>4, <2>5, <1>2 DEF FullLinks, Places
  <2>7. LinksOf(L, p, first, size, n)
    BY <2>3, <2>6, <1>6 DEF LinksOf
  <2> QED
    BY <2>7, <1>1 DEF Linked
<1> QED
  BY <1>5, <1>6

\* A block is in one link, or in full links and what follows on them.
LEMMA LinkedIs ==
  ASSUME NEW L \in Links, NEW p \in Nat, NEW first \in Nat, NEW size \in Nat,
         Linked(L, p, first, size)
  PROVE  \/ Len(L) >= 1 /\ size = first /\ Holds(L[1], p, size)
         \/ \E n \in Nat, s \in 0 .. size :
              /\ n >= 1 /\ n < Len(L) /\ FullLinks(L, p, first, s, n)
              /\ size - s <= InBufSize /\ Holds(L[n + 1], p + s, size - s)
<1>1. PICK m \in 1 .. Len(L) : LinksOf(L, p, first, size, m)
  BY DEF Linked
<1>2. Len(L) \in Nat
  BY DEF Links
<1>3. CASE m = 1
  BY <1>1, <1>2, <1>3 DEF LinksOf
<1>4. CASE m # 1
  <2>1. PICK s \in 0 .. size : /\ FullLinks(L, p, first, s, m - 1)
                               /\ size - s <= InBufSize /\ Holds(L[m], p + s, size - s)
    BY <1>1, <1>4 DEF LinksOf
  <2>2. m - 1 \in Nat /\ m - 1 >= 1 /\ m - 1 < Len(L) /\ (m - 1) + 1 = m
    BY <1>1, <1>2, <1>4
  <2> QED
    BY <2>1, <2>2
<1> QED
  BY <1>3, <1>4

\* The first of the full links holds the first units of the block.
LEMMA FirstOfFull ==
  ASSUME NEW L \in Links, NEW p \in Nat, NEW first \in Nat, NEW size \in Nat, NEW n \in Nat,
         FullLinks(L, p, first, size, n)
  PROVE  Len(L) >= 1 /\ Len(L[1]) = first /\ Holds(L[1], p, first) /\ first <= size
<1>1. n \in 1 .. Len(L)
  BY FullIs
<1>2. PICK o : o \in [Nat -> Nat] /\ LinksAt(L, p, first, size, n, o)
  BY FullIs
<1>3. /\ o[1] = 0 /\ o[2] = first /\ o[n + 1] = size
      /\ \A i, j \in 1 .. n + 1 : i <= j => o[i] <= o[j]
      /\ \A j \in 1 .. n : o[j + 1] = o[j] + Len(L[j]) /\ Holds(L[j], p + o[j], Len(L[j]))
  BY <1>2 DEF LinksAt
<1>4. 1 \in 1 .. Len(L) /\ 1 \in 1 .. n /\ Len(L[1]) \in Nat
  BY <1>1 DEF Links
<1>5. o[1 + 1] = o[1] + Len(L[1]) /\ Holds(L[1], p + o[1], Len(L[1]))
  BY <1>3, <1>4
<1>6. first = Len(L[1]) /\ p + o[1] = p
  BY <1>3, <1>4, <1>5
<1>7. 2 \in 1 .. n + 1 /\ n + 1 \in 1 .. n + 1 /\ 2 <= n + 1
  BY <1>1
<1>8. first <= size
  BY <1>3, <1>7
<1> QED
  BY <1>4, <1>5, <1>6, <1>8

\* The links behind the first one hold what follows (MtDec.c:903-922).
LEMMA FullTail ==
  ASSUME NEW L \in Links, NEW p \in Nat, NEW first \in Nat, NEW size \in Nat, NEW n \in Nat,
         FullLinks(L, p, first, size, n), n >= 2, InBufIs
  PROVE  FullLinks(Tail(L), p + first, InBufSize, size - first, n - 1)
<1>1. n \in 1 .. Len(L)
  BY FullIs
<1>2. PICK o : o \in [Nat -> Nat] /\ LinksAt(L, p, first, size, n, o)
  BY FullIs
<1>3. /\ o[1] = 0 /\ o[2] = first /\ o[n + 1] = size
      /\ \A i, j \in 1 .. n + 1 : i <= j => o[i] <= o[j]
      /\ \A j \in 1 .. n : /\ o[j + 1] = o[j] + Len(L[j]) /\ Holds(L[j], p + o[j], Len(L[j]))
                           /\ j >= 2 => Len(L[j]) = InBufSize
  BY <1>2 DEF LinksAt
<1>4. L \in Seq(Seq(Nat)) /\ L # <<>>
  BY <1>1 DEF Links
<1> DEFINE T == Tail(L)
<1>5. T \in Seq(Seq(Nat)) /\ Len(T) = Len(L) - 1 /\ \A j \in 1 .. Len(T) : T[j] = L[j + 1]
  BY <1>4, HeadTailProperties
<1>6. \A j \in 1 .. n - 1 : T[j] = L[j + 1] /\ j + 1 \in 1 .. n /\ j + 1 >= 2
  BY <1>1, <1>5
<1> HIDE DEF T
<1>7. ASSUME NEW i \in 2 .. n + 1
      PROVE  o[i] \in Nat /\ first <= o[i]
  <2>1. i \in Nat /\ i \in 1 .. n + 1 /\ 2 \in 1 .. n + 1 /\ 2 <= i
    BY <1>1
  <2>2. o[2] <= o[i]
    BY <2>1, <1>3
  <2>3. o[i] \in Nat
    BY <2>1, <1>2
  <2> QED
    BY <2>2, <2>3, <1>3
<1> DEFINE r == [i \in Nat |-> IF i \in 1 .. n THEN o[i + 1] - first ELSE 0]
<1>8. r \in [Nat -> Nat]
  BY <1>1, <1>7
<1>9. \A i \in 1 .. n : r[i] = o[i + 1] - first /\ i + 1 \in 2 .. n + 1
  BY <1>1
<1> HIDE DEF r
<1>10. r[1] = 0 /\ r[2] = InBufSize /\ r[(n - 1) + 1] = size - first
  <2>1. 1 \in 1 .. n /\ 2 \in 1 .. n /\ (n - 1) + 1 = n /\ n \in 1 .. n
    BY <1>1
  <2>2. o[2 + 1] = o[2] + InBufSize
    BY <2>1, <1>3
  <2>3. r[1] = o[1 + 1] - first /\ r[2] = o[2 + 1] - first /\ r[n] = o[n + 1] - first
    BY <2>1, <1>9
  <2> QED
    BY <2>1, <2>2, <2>3, <1>3 DEF InBufIs
<1>11. ASSUME NEW i \in 1 .. (n - 1) + 1, NEW j \in 1 .. (n - 1) + 1, i <= j
       PROVE  r[i] <= r[j]
  <2>1. i \in 1 .. n /\ j \in 1 .. n
    OBVIOUS
  <2>2. r[i] = o[i + 1] - first /\ r[j] = o[j + 1] - first
    BY <2>1, <1>9
  <2>3. i + 1 \in 1 .. n + 1 /\ j + 1 \in 1 .. n + 1 /\ i + 1 <= j + 1
    BY <2>1, <1>11
  <2>4. o[i + 1] <= o[j + 1]
    BY <2>3, <1>3
  <2>5. o[i + 1] \in Nat /\ o[j + 1] \in Nat
    BY <2>3, <1>2
  <2> QED
    BY <2>2, <2>4, <2>5
<1>12. ASSUME NEW j \in 1 .. n - 1
       PROVE  /\ r[j + 1] = r[j] + Len(T[j]) /\ Holds(T[j], (p + first) + r[j], Len(T[j]))
              /\ j >= 2 => Len(T[j]) = InBufSize
  <2>1. T[j] = L[j + 1] /\ j + 1 \in 1 .. n /\ j + 1 >= 2 /\ j \in 1 .. n
    BY <1>6
  <2>2. PICK i : i = j + 1 /\ i \in 1 .. n /\ i >= 2
    BY <2>1
  <2>3. o[i + 1] = o[i] + Len(L[i]) /\ Holds(L[i], p + o[i], Len(L[i])) /\ Len(L[i]) = InBufSize
    BY <2>2, <1>3
  <2>4. r[j] = o[i] - first /\ r[i] = o[i + 1] - first
    BY <2>1, <2>2, <1>9
  <2>5. o[i] \in Nat
    BY <2>2, <1>2
  <2>6. (p + first) + r[j] = p + o[i] /\ r[i] = r[j] + Len(L[i])
    BY <2>3, <2>4, <2>5 DEF InBufIs
  <2> QED
    BY <2>1, <2>2, <2>3, <2>6
<1>13. LinksAt(T, p + first, InBufSize, size - first, n - 1, r)
  BY <1>10, <1>11, <1>12 DEF LinksAt
<1>14. n - 1 \in 1 .. Len(T)
  BY <1>1, <1>5
<1> QED
  BY <1>8, <1>13, <1>14 DEF FullLinks, Places, T

-----------------------------------------------------------------------------
(* What a block's links give to the decoder, link by link or as a whole.   *)

\* The first link of a block holds its first units.
LEMMA LinkedFirst ==
  ASSUME NEW L \in Links, NEW p \in Nat, NEW first \in Nat, NEW size \in Nat,
         Linked(L, p, first, size)
  PROVE  Len(L) >= 1 /\ first <= size /\ Holds(L[1], p, first)
<1>1. CASE Len(L) >= 1 /\ size = first /\ Holds(L[1], p, size)
  BY <1>1
<1>2. CASE \E n \in Nat, s \in 0 .. size :
             /\ n >= 1 /\ n < Len(L) /\ FullLinks(L, p, first, s, n)
             /\ size - s <= InBufSize /\ Holds(L[n + 1], p + s, size - s)
  <2>1. PICK n \in Nat, s \in 0 .. size : FullLinks(L, p, first, s, n)
    BY <1>2
  <2>2. s \in Nat /\ s <= size
    OBVIOUS
  <2>3. Len(L) >= 1 /\ Len(L[1]) = first /\ Holds(L[1], p, first) /\ first <= s
    BY <2>1, <2>2, FirstOfFull
  <2> QED
    BY <2>2, <2>3
<1> QED
  BY <1>1, <1>2, LinkedIs

\* One full link is all of the block so far.
LEMMA FullOne ==
  ASSUME NEW L \in Links, NEW p \in Nat, NEW first \in Nat, NEW size \in Nat,
         FullLinks(L, p, first, size, 1)
  PROVE  size = first
<1>1. PICK o : o \in [Nat -> Nat] /\ LinksAt(L, p, first, size, 1, o)
  BY FullIs
<1>2. o[2] = first /\ o[1 + 1] = size
  BY <1>1 DEF LinksAt
<1> QED
  BY <1>2

TailIs(L, T) == T \in Links /\ Len(T) = Len(L) - 1 /\ \A j \in 1 .. Len(L) - 1 : T[j] = L[j + 1]

\* The links without the first one.
LEMMA TailOf ==
  ASSUME NEW L \in Links, L # <<>>
  PROVE  TailIs(L, Tail(L))
<1>1. L \in Seq(Seq(Nat))
  BY DEF Links
<1>2. /\ Tail(L) \in Seq(Seq(Nat)) /\ Len(Tail(L)) = Len(L) - 1
      /\ \A j \in 1 .. Len(Tail(L)) : Tail(L)[j] = L[j + 1]
  BY <1>1, HeadTailProperties
<1> QED
  BY <1>2 DEF TailIs, Links

\* Without its first link a block is what follows on that link
\* (MtDec.c:903-922).
LEMMA LinkedTail ==
  ASSUME NEW L \in Links, NEW p \in Nat, NEW first \in Nat, NEW size \in Nat,
         Linked(L, p, first, size), first < size, InBufIs
  PROVE  Linked(Tail(L), p + first, Min({InBufSize, size - first}), size - first)
<1>1. InBufSize \in Nat /\ InBufSize >= 1
  BY DEF InBufIs
<1>2. ~ (size = first)
  OBVIOUS
<1>3. PICK n \in Nat, s \in 0 .. size :
             /\ n >= 1 /\ n < Len(L) /\ FullLinks(L, p, first, s, n)
             /\ size - s <= InBufSize /\ Holds(L[n + 1], p + s, size - s)
  BY <1>2, LinkedIs
<1>4. L # <<>> /\ Len(L) \in Nat
  BY <1>3 DEF Links
<1> DEFINE T == Tail(L)
<1>5. TailIs(L, T)
  BY <1>4, TailOf
<1>6. T \in Links /\ Len(T) = Len(L) - 1 /\ \A j \in 1 .. Len(L) - 1 : T[j] = L[j + 1]
  BY <1>5 DEF TailIs
<1> HIDE DEF T
<1>7. T[n] = L[n + 1] /\ n \in 1 .. Len(T)
  BY <1>3, <1>4, <1>6
<1>8. s \in Nat /\ s <= size
  OBVIOUS
<1>9. CASE n = 1
  <2>1. s = first
    BY <1>3, <1>8, <1>9, FullOne
  <2>2. Min({InBufSize, size - first}) = size - first
    BY <1>1, <1>3, <2>1, MinOfTwo
  <2>3. Holds(T[1], p + first, size - first)
    BY <2>1, <1>3, <1>7, <1>9
  <2>4. LinksOf(T, p + first, size - first, size - first, 1)
    BY <2>3 DEF LinksOf
  <2>5. Linked(T, p + first, size - first, size - first)
    BY <2>4, <1>7, <1>9 DEF Linked
  <2> QED
    BY <2>2, <2>5 DEF T
<1>10. CASE n # 1
  <2>1. n >= 2
    BY <1>3, <1>10
  <2>2. FullLinks(T, p + first, InBufSize, s - first, n - 1)
    BY <2>1, <1>3, <1>8, FullTail DEF T
  <2>3. first <= s
    BY <1>3, <1>8, FirstOfFull
  <2>4. /\ p + first \in Nat /\ s - first \in Nat /\ n - 1 \in Nat /\ size - first \in Nat
        /\ s - first \in 0 .. size - first
    BY <2>1, <2>3, <1>8
  <2>5. InBufSize <= s - first
    BY <2>2, <2>4, <1>1, <1>6, FirstOfFull
  <2>6. Min({InBufSize, size - first}) = InBufSize
    BY <2>4, <2>5, <1>1, <1>8, MinOfTwo
  <2>7. /\ (size - first) - (s - first) = size - s
        /\ (p + first) + (s - first) = p + s
    BY <1>8
  <2>8. /\ (size - first) - (s - first) <= InBufSize
        /\ Holds(T[n], (p + first) + (s - first), (size - first) - (s - first))
    BY <2>7, <1>3, <1>7
  <2>9. LinksOf(T, p + first, InBufSize, size - first, n)
    BY <2>2, <2>4, <2>8, <1>10 DEF LinksOf
  <2>10. Linked(T, p + first, InBufSize, size - first)
    BY <2>9, <1>7 DEF Linked
  <2> QED
    BY <2>6, <2>10 DEF T
<1> QED
  BY <1>9, <1>10

\* Full links and a link that may hold more than is left hold a block.
LEMMA MoreIsLinked ==
  ASSUME NEW L \in Links, NEW p \in Nat, NEW first \in Nat, NEW s \in Nat, NEW n \in Nat, NEW d \in Nat,
         FullLinks(L, p, first, s, n), n + 1 \in 1 .. Len(L), d <= InBufSize,
         Holds(L[n + 1], p + s, d)
  PROVE  Linked(L, p, first, s + d)
<1>1. n \in 1 .. Len(L)
  BY FullIs
<1>2. (n + 1) - 1 = n /\ n + 1 # 1 /\ s \in 0 .. s + d /\ (s + d) - s = d
  BY <1>1
<1>3. LinksOf(L, p, first, s + d, n + 1)
  <2>1. /\ FullLinks(L, p, first, s, (n + 1) - 1)
        /\ (s + d) - s <= InBufSize /\ Holds(L[n + 1], p + s, (s + d) - s)
    BY <1>2
  <2> QED
    BY <2>1, <1>2 DEF LinksOf
<1> QED
  BY <1>3 DEF Linked

\* The links of a block lie in a row.
LEMMA LinkedRow ==
  ASSUME NEW L \in Links, NEW p \in Nat, NEW first \in Nat, NEW size \in Nat,
         Linked(L, p, first, size)
  PROVE  Holds(FlattenSeq(L), p, size)
<1>1. CASE Len(L) >= 1 /\ size = first /\ Holds(L[1], p, size)
  <2> DEFINE o == [i \in Nat |-> 0]
  <2>1. o \in [Nat -> Nat] /\ o[1] = 0 /\ o[0 + 1] = 0
    OBVIOUS
  <2> HIDE DEF o
  <2>2. Holds(L[0 + 1], p + o[0 + 1], size - o[0 + 1])
    BY <2>1, <1>1
  <2>3. Row(L, p, 0, size, o)
    BY <2>1, <2>2, <1>1, SMTT(30) DEF Row
  <2> QED
    BY <2>3, FlatHolds
<1>2. CASE \E n \in Nat, s \in 0 .. size :
             /\ n >= 1 /\ n < Len(L) /\ FullLinks(L, p, first, s, n)
             /\ size - s <= InBufSize /\ Holds(L[n + 1], p + s, size - s)
  <2>1. PICK n \in Nat, s \in 0 .. size :
             /\ n >= 1 /\ n < Len(L) /\ FullLinks(L, p, first, s, n)
             /\ Holds(L[n + 1], p + s, size - s)
    BY <1>2
  <2>2. s \in Nat /\ s <= size
    OBVIOUS
  <2>3. PICK o : o \in [Nat -> Nat] /\ LinksAt(L, p, first, s, n, o)
    BY <2>1, <2>2, FullIs
  <2>4. /\ o[1] = 0 /\ o[n + 1] = s
        /\ \A j \in 1 .. n : o[j + 1] = o[j] + Len(L[j]) /\ Holds(L[j], p + o[j], Len(L[j]))
    BY <2>3 DEF LinksAt
  <2>5. Row(L, p, n, size, o)
    BY <2>1, <2>2, <2>3, <2>4 DEF Row
  <2> QED
    BY <2>5, FlatHolds
<1> QED
  BY <1>1, <1>2, LinkedIs

\* What is decoded of a block are its units (MtDec.c:620-655).
LEMMA DataIs ==
  ASSUME NEW L \in Links, NEW p \in Nat, NEW first \in Nat, NEW f \in Nat, NEW size \in Nat,
         Linked(L, p, f, size), first = f \/ first = 0, size # 0, InBufIs
  PROVE  Data(L, first, size) = Units(p, size)
<1>1. Len(L) >= 1 /\ f <= size /\ Holds(L[1], p, f)
  BY LinkedFirst
<1>2. L # <<>> /\ L[1] \in Seq(Nat) /\ Head(L) = L[1] /\ Len(L[1]) \in Nat
  BY <1>1 DEF Links
<1> DEFINE T == Tail(L)
           X == IF first = 0 THEN Head(L) ELSE SubSeq(Head(L), 1, first)
<1>3. Data(L, first, size) = SubSeq(X \o FlattenSeq(T), 1, size)
  BY DEF Data
<1>4. T \in Links
  BY <1>2, TailOf DEF TailIs
<1>5. FlattenSeq(T) \in Seq(Nat)
  BY <1>4, FlatType
<1>6. size = f \/ Len(L[1]) = f
  <2>1. CASE \E n \in Nat, s \in 0 .. size :
               /\ n >= 1 /\ n < Len(L) /\ FullLinks(L, p, f, s, n)
               /\ size - s <= InBufSize /\ Holds(L[n + 1], p + s, size - s)
    <3>1. PICK n \in Nat, s \in 0 .. size : FullLinks(L, p, f, s, n)
      BY <2>1
    <3>2. s \in Nat
      OBVIOUS
    <3> QED
      BY <3>1, <3>2, FirstOfFull
  <2> QED
    BY <2>1, LinkedIs
<1>7. X \in Seq(Nat) /\ Holds(X, p, f) /\ (size # f => Len(X) = f)
  <2>1. CASE first = 0
    BY <2>1, <1>1, <1>2, <1>6
  <2>2. CASE first # 0
    <3>1. first = f /\ f <= Len(L[1])
      BY <2>2, <1>1 DEF Holds
    <3>2. SubSeq(L[1], 1, f) = Units(p, f)
      BY <1>1, <1>2, HoldsIs
    <3>3. X = Units(p, f)
      BY <2>2, <3>1, <3>2, <1>2
    <3>4. f \in 0 .. f
      OBVIOUS
    <3>5. Units(p, f) \in Seq(Nat) /\ Len(Units(p, f)) = f /\ Holds(Units(p, f), p, f)
      BY <3>4, UnitsAre, UnitsHold
    <3> HIDE DEF X
    <3> QED
      BY <3>3, <3>5
  <2> QED
    BY <2>1, <2>2
<1> HIDE DEF X
<1> DEFINE F == FlattenSeq(T)
<1>8. Holds(X \o F, p, size)
  <2>1. CASE size = f
    BY <2>1, <1>5, <1>7, HoldsMore
  <2>2. CASE size # f
    <3>1. f < size /\ size - f \in Nat /\ p + f \in Nat /\ f + (size - f) = size
      BY <2>2, <1>1
    <3>2. Linked(T, p + f, Min({InBufSize, size - f}), size - f)
      BY <3>1, LinkedTail
    <3>3. Min({InBufSize, size - f}) \in Nat
      BY <3>1, MinOfTwo DEF InBufIs
    <3>4. Holds(F, p + f, size - f)
      BY <3>1, <3>2, <3>3, <1>4, LinkedRow
    <3>5. Len(X) = f
      BY <2>2, <1>7
    <3> HIDE DEF F, T
    <3>6. F \in Seq(Nat)
      BY <1>5 DEF F
    <3>7. Holds(X \o F, p, Len(X) + (size - f))
      BY <3>1, <3>4, <3>5, <3>6, <1>7, HoldsMore
    <3> QED
      BY <3>1, <3>5, <3>7
  <2> QED
    BY <2>1, <2>2
<1>9. X \o F \in Seq(Nat)
  BY <1>5, <1>7, ConcatProperties
<1> HIDE DEF F, T
<1>10. SubSeq(X \o F, 1, size) = Units(p, size)
  BY <1>8, <1>9, HoldsIs
<1> QED
  BY <1>3, <1>10 DEF F

-----------------------------------------------------------------------------
(* What decoding and parsing give for the units that follow on a place.    *)

\* Decoding the n units behind q gives the first m of them, and says why it
\* stopped there.
DecodedTo(kind, q, n, fr, room, mark, d, m) ==
  /\ m \in 0 .. n /\ m <= room /\ d.out = Units(q, m)
  /\ \A u \in q + 1 .. q + m : kind[u] \in {"head", "body"}
  /\ fr /\ m > 0 => kind[q + 1] = "head"
  /\ d.status \in {"full", "more", "mark", "error"}
  /\ d.used = IF d.status = "mark" THEN m + 1 ELSE m
  /\ d.status = "full" => ~ mark /\ m = room
  /\ d.status # "full" => mark \/ m < room
  /\ d.status = "more" => m = n
  /\ d.status \in {"mark", "error"} => m < n
  /\ d.status = "mark" => kind[q + m + 1] = "end"
  /\ d.status = "error" =>
       /\ kind[q + m + 1] # "end"
       /\ \/ kind[q + m + 1] \in {"bad", "alien"} \/ m = room
          \/ fr /\ m = 0 /\ kind[q + 1] # "head"

DecodeHyp(kind, q, n) == kind \in Seq(Kinds) /\ q + n <= Len(kind)

\* The n units behind q have kinds.
LEMMA KindsAt ==
  ASSUME NEW kind, NEW q \in Nat, NEW n \in Nat, DecodeHyp(kind, q, n), NEW i \in 1 .. n
  PROVE  kind[q + i] \in Kinds
<1>1. kind \in Seq(Kinds) /\ q + i \in 1 .. Len(kind)
  BY DEF DecodeHyp
<1> QED
  BY <1>1

\* Decode of the units that follow on q (Lzma2Dec.c:178-303).
LEMMA DecodeIs ==
  ASSUME NEW kind, NEW q \in Nat, NEW n \in Nat, DecodeHyp(kind, q, n),
         NEW fr \in BOOLEAN, NEW room \in Nat, NEW mark \in BOOLEAN
  PROVE  \E m \in 0 .. n :
           DecodedTo(kind, q, n, fr, room, mark, Decode(kind, Units(q, n), fr, room, mark), m)
<1> DEFINE w == Units(q, n)
           S == {Len(w) + 1}
                  \cup {i \in 1 .. Len(w) : kind[w[i]] \in {"end", "alien", "bad"}}
                  \cup {i \in 1 .. Len(w) : i > room}
                  \cup {i \in 1 .. Len(w) : i = 1 /\ fr /\ kind[w[i]] # "head"}
           d == Decode(kind, w, fr, room, mark)
<1>1. w \in Seq(Nat) /\ Len(w) = n /\ \A i \in 1 .. n : w[i] = q + i
  BY UnitsAre
<1> HIDE DEF w
<1>2. /\ n + 1 \in S /\ \A i \in S : i \in 1 .. n + 1
      /\ \A i \in 1 .. n : kind[w[i]] \in {"end", "alien", "bad"} => i \in S
      /\ \A i \in 1 .. n : i > room => i \in S
      /\ \A i \in 1 .. n : i = 1 /\ fr /\ kind[w[i]] # "head" => i \in S
      /\ \A i \in S : i # n + 1 => \/ kind[w[i]] \in {"end", "alien", "bad"} \/ i > room
                                   \/ i = 1 /\ fr /\ kind[w[i]] # "head"
  BY <1>1
<1>3. S \subseteq Nat /\ S # {}
  BY <1>2
<1>4. PICK stop : stop = Min(S)
  OBVIOUS
<1>5. LET status == IF stop > room /\ ~ mark     THEN "full"
                ELSE IF stop > Len(w)         THEN "more"
                ELSE IF kind[w[stop]] = "end" THEN "mark"
                ELSE "error"
      IN d = [out    |-> SubSeq(w, 1, stop - 1),
              used   |-> IF status = "mark" THEN stop ELSE stop - 1,
              status |-> status]
  BY <1>4 DEF Decode
<1> HIDE DEF S, d
<1>6. stop \in S /\ \A i \in S : stop <= i
  BY <1>3, <1>4, MinIsLeast, Zenon
<1>7. PICK m \in 0 .. n : stop = m + 1 /\ m = stop - 1
  BY <1>2, <1>6
<1>8. SubSeq(w, 1, m) = Units(q, m)
  <2>1. m \in 0 .. n
    OBVIOUS
  <2> QED
    BY <2>1, UnitsHold DEF w
<1>9. m <= room
  BY <1>2, <1>6, <1>7
<1>10. ASSUME NEW u \in q + 1 .. q + m
       PROVE  kind[u] \in {"head", "body"}
  <2>1. PICK i \in 1 .. n : i < stop /\ u = q + i
    <3>1. u - q \in 1 .. n /\ u - q < stop /\ u = q + (u - q)
      BY <1>7
    <3> QED
      BY <3>1
  <2>2. i \notin S /\ w[i] = u
    BY <2>1, <1>1, <1>6, <1>7
  <2>3. kind[u] \notin {"end", "alien", "bad"}
    BY <2>1, <2>2, <1>2
  <2>4. kind[q + i] \in Kinds
    BY <2>1, KindsAt
  <2> QED
    BY <2>1, <2>3, <2>4 DEF Kinds
<1>11. ASSUME fr, m > 0
       PROVE  kind[q + 1] = "head"
  <2>1. 1 \in 1 .. n /\ 1 \notin S /\ w[1] = q + 1
    BY <1>1, <1>6, <1>7, <1>11
  <2> QED
    BY <2>1, <1>2, <1>11
<1>12. /\ d.out = Units(q, m)
       /\ d.status = IF stop > room /\ ~ mark  THEN "full"
                ELSE IF stop > n              THEN "more"
                ELSE IF kind[w[stop]] = "end" THEN "mark"
                ELSE "error"
       /\ d.used = IF d.status = "mark" THEN stop ELSE stop - 1
  BY <1>1, <1>5, <1>7, <1>8
<1>13. m < n => w[stop] = q + m + 1
  BY <1>1, <1>7
<1>14. stop \in S /\ stop # n + 1 =>
         \/ kind[w[stop]] \in {"end", "alien", "bad"} \/ stop > room
         \/ stop = 1 /\ fr /\ kind[w[stop]] # "head"
  BY <1>2
<1>15. ASSUME d.status = "error"
       PROVE  /\ m < n /\ kind[q + m + 1] # "end"
              /\ \/ kind[q + m + 1] \in {"bad", "alien"} \/ m = room
                 \/ fr /\ m = 0 /\ kind[q + 1] # "head"
  <2>1. m < n /\ kind[w[stop]] # "end"
    BY <1>12, <1>7, <1>15
  <2>2. stop > room => m = room
    BY <1>7, <1>9
  <2>3. stop = 1 => m = 0 /\ q + m + 1 = q + 1
    BY <1>7
  <2> QED
    BY <2>1, <2>2, <2>3, <1>6, <1>7, <1>13, <1>14
<1>16. d.status \in {"full", "more", "mark", "error"}
  BY <1>12
<1>17. d.used = IF d.status = "mark" THEN m + 1 ELSE m
  BY <1>7, <1>12
<1>18. (d.status = "full" => ~ mark /\ m = room) /\ (d.status # "full" => mark \/ m < room)
  BY <1>7, <1>9, <1>12
<1>19. (d.status = "more" => m = n) /\ (d.status = "mark" => m < n /\ kind[q + m + 1] = "end")
  BY <1>7, <1>12, <1>13
<1>20. DecodedTo(kind, q, n, fr, room, mark, d, m)
  BY <1>9, <1>10, <1>11, <1>12, <1>15, <1>16, <1>17, <1>18, <1>19 DEF DecodedTo
<1> QED
  BY <1>20 DEF d, w

\* Parsing the n units behind q takes the first z of them; k of them are
\* chunks of the block.
ParsedAs(kind, q, n, from, limit, partial, r, z) ==
  LET k == IF r.status \in {"mark", "notSpecified"} THEN z - 1 ELSE z
  IN /\ z \in 0 .. n /\ k \in 0 .. n /\ r.size = z
     /\ r.status \in {"more", "new", "mark", "notSpecified", "notFinished", "overflow"}
     /\ r.status # "overflow" => /\ r.out = from + k
                                 /\ \A u \in q + 1 .. q + k : kind[u] \notin {"end", "alien"}
                                 /\ k > 0 => from + k <= limit
     /\ r.status = "more" => z = n
     /\ r.status = "new" => z < n /\ from + z >= 1 /\ kind[q + z + 1] = "head"
     /\ r.status \in {"mark", "notSpecified"} => z >= 1
     /\ r.status = "mark" => kind[q + z] = "end"
     /\ r.status = "notSpecified" => kind[q + z] = "alien"
     /\ r.status = "notFinished" => partial /\ from + z >= limit
     /\ r.status = "overflow" => n >= 1

\* Parse of the units that follow on q (Lzma2DecMt.c:237-412).
LEMMA ParseIs ==
  ASSUME NEW kind, NEW q \in Nat, NEW n \in Nat, DecodeHyp(kind, q, n),
         NEW from \in Nat, NEW limit \in Nat, NEW partial \in BOOLEAN,
         NEW r \in Parse(kind, Units(q, n), from, limit, partial)
  PROVE  \E z \in 0 .. n : ParsedAs(kind, q, n, from, limit, partial, r, z)
<1> DEFINE w == Units(q, n)
           S == {Len(w) + 1} \cup {i \in 1 .. Len(w) : kind[w[i]] \in {"end", "alien"}}
                             \cup {i \in 1 .. Len(w) : from + i > limit}
<1>1. w \in Seq(Nat) /\ Len(w) = n /\ \A i \in 1 .. n : w[i] = q + i
  BY UnitsAre
<1> HIDE DEF w
<1>2. /\ n + 1 \in S /\ \A i \in S : i \in 1 .. n + 1
      /\ \A i \in 1 .. n : kind[w[i]] \in {"end", "alien"} => i \in S
      /\ \A i \in 1 .. n : from + i > limit => i \in S
      /\ \A i \in S : i # n + 1 => kind[w[i]] \in {"end", "alien"} \/ from + i > limit
  BY <1>1
<1>3. S \subseteq Nat /\ S # {}
  BY <1>2
<1>4. PICK stop : stop = StopAt(kind, w, from, limit)
  OBVIOUS
<1>5. stop = Min(S)
  BY <1>4 DEF StopAt
<1> HIDE DEF S
<1>6. stop \in S /\ \A i \in S : stop <= i
  BY <1>3, <1>5, MinIsLeast, Zenon
<1>7. stop \in 1 .. n + 1
  BY <1>2, <1>6
<1>8. ASSUME NEW k \in 0 .. n, k < stop
      PROVE  /\ \A u \in q + 1 .. q + k : kind[u] \notin {"end", "alien"}
             /\ k > 0 => from + k <= limit
  <2>1. ASSUME NEW u \in q + 1 .. q + k
        PROVE  kind[u] \notin {"end", "alien"}
    <3>1. PICK i \in 1 .. n : i < stop /\ u = q + i
      <4>1. u - q \in 1 .. n /\ u - q < stop /\ u = q + (u - q)
        BY <1>7, <1>8
      <4> QED
        BY <4>1
    <3>2. i \notin S /\ w[i] = u
      BY <3>1, <1>1, <1>6, <1>7
    <3> QED
      BY <3>1, <3>2, <1>2
  <2>2. ASSUME k > 0
        PROVE  from + k <= limit
    <3>1. k \in 1 .. n /\ k \notin S
      BY <2>2, <1>6, <1>7, <1>8
    <3> QED
      BY <3>1, <1>2
  <2> QED
    BY <2>1, <2>2
<1>9. PICK st : st = StopStatus(kind, w, from, limit, partial)
  OBVIOUS
<1>10. st = IF from + stop > limit /\ partial THEN "notFinished"
            ELSE IF stop > n              THEN "more"
            ELSE IF kind[w[stop]] = "end" THEN "mark"
            ELSE IF from + stop > limit   THEN "overflow"
            ELSE "notSpecified"
  BY <1>1, <1>4, <1>9 DEF StopStatus
<1> DEFINE last == IF st = "overflow" THEN stop ELSE stop - 1
           heads == {i \in 1 .. last : kind[w[i]] = "head" /\ from + i > 1}
           used == IF st \in {"mark", "notSpecified"} THEN stop ELSE stop - 1
<1>11. r \in {[status |-> "new", size |-> i - 1, out |-> from + i - 1] : i \in heads}
             \cup (IF heads = {} \/ st \in {"mark", "notSpecified"}
                     THEN {[status |-> st, size |-> used, out |-> from + stop - 1]} ELSE {})
  BY <1>4, <1>9 DEF Parse, w
<1>12. last \in 0 .. n
  BY <1>7, <1>10
<1>13. CASE \E i \in heads : r = [status |-> "new", size |-> i - 1, out |-> from + i - 1]
  <2>1. PICK i \in heads : r = [status |-> "new", size |-> i - 1, out |-> from + i - 1]
    BY <1>13
  <2>2. i \in 1 .. last /\ kind[w[i]] = "head" /\ from + i > 1
    OBVIOUS
  <2>3. i \in 1 .. n /\ i <= stop
    BY <2>2, <1>7, <1>12
  <2>4. PICK z \in 0 .. n : z = i - 1 /\ z < n /\ z < stop /\ i = z + 1
    <3>1. i - 1 \in 0 .. n /\ i - 1 < n /\ i - 1 < stop /\ i = (i - 1) + 1
      BY <2>3, <1>7
    <3> HIDE DEF heads
    <3> QED
      BY <3>1
  <2>5. kind[q + z + 1] = "head" /\ from + z >= 1
    BY <2>2, <2>3, <2>4, <1>1
  <2>6. r.status = "new" /\ r.size = z /\ r.out = from + z
    BY <2>1, <2>4
  <2>7. /\ \A u \in q + 1 .. q + z : kind[u] \notin {"end", "alien"}
        /\ z > 0 => from + z <= limit
    BY <2>4, <1>8
  <2>8. ParsedAs(kind, q, n, from, limit, partial, r, z)
    BY <2>4, <2>5, <2>6, <2>7 DEF ParsedAs
  <2> QED
    BY <2>4, <2>8
<1>14. CASE r = [status |-> st, size |-> used, out |-> from + stop - 1]
  <2>1. r.status = st /\ r.size = used /\ r.out = from + stop - 1
    BY <1>14
  <2>2. st \in {"more", "mark", "notSpecified", "notFinished", "overflow"}
    BY <1>10
  <2>3. stop - 1 \in 0 .. n /\ stop - 1 < stop /\ from + stop - 1 = from + (stop - 1)
    BY <1>7
  <2>4. st \in {"mark", "notSpecified", "overflow"} => stop \in 1 .. n
    BY <1>7, <1>10
  <2>5. used \in 0 .. n /\ used = IF st \in {"mark", "notSpecified"} THEN stop ELSE stop - 1
    BY <2>3, <2>4
  <2>6. st = "mark" => kind[q + stop] = "end"
    BY <2>4, <1>1, <1>10
  <2>7. st = "notSpecified" => kind[q + stop] = "alien"
    <3>1. ASSUME st = "notSpecified"
          PROVE  kind[q + stop] = "alien"
      <4>1. stop \in 1 .. n /\ stop # n + 1 /\ w[stop] = q + stop
        BY <3>1, <2>4, <1>1
      <4>2. kind[w[stop]] # "end" /\ ~ (from + stop > limit)
        BY <3>1, <1>10
      <4> QED
        BY <4>1, <4>2, <1>2, <1>6
    <3> QED
      BY <3>1
  <2>8. st = "notFinished" => partial /\ from + (stop - 1) >= limit
    BY <1>7, <1>10
  <2>9. st = "more" => stop - 1 = n
    BY <1>7, <1>10
  <2>10. /\ \A u \in q + 1 .. q + (stop - 1) : kind[u] \notin {"end", "alien"}
         /\ stop - 1 > 0 => from + (stop - 1) <= limit
    BY <2>3, <1>8
  <2>11. PICK z : z = used
    OBVIOUS
  <2>12. PICK k : k = stop - 1
    OBVIOUS
  <2> HIDE DEF used
  <2>13. k = (IF r.status \in {"mark", "notSpecified"} THEN z - 1 ELSE z) /\ k \in 0 .. n /\ z \in 0 .. n
    BY <2>1, <2>3, <2>5, <2>11, <2>12
  <2>14. ParsedAs(kind, q, n, from, limit, partial, r, z)
    <3>1. /\ r.size = z /\ r.status \in {"more", "new", "mark", "notSpecified", "notFinished", "overflow"}
          /\ r.out = from + k /\ r.status # "new"
      BY <2>1, <2>2, <2>3, <2>11, <2>12
    <3>2. /\ r.status = "more" => z = n
          /\ r.status \in {"mark", "notSpecified"} => z >= 1
          /\ r.status = "mark" => kind[q + z] = "end"
          /\ r.status = "notSpecified" => kind[q + z] = "alien"
          /\ r.status = "notFinished" => partial /\ from + z >= limit
          /\ r.status = "overflow" => n >= 1
      BY <2>1, <2>4, <2>5, <2>6, <2>7, <2>8, <2>9, <2>11
    <3> QED
      BY <3>1, <3>2, <2>10, <2>12, <2>13 DEF ParsedAs
  <2> QED
    BY <2>13, <2>14
<1> QED
  BY <1>11, <1>13, <1>14

-----------------------------------------------------------------------------
(* A link is filled: from the stream, or from the cross block.             *)

\* The links after the link number i (from 0) was filled with w.
Put(L, i, w) == IF i < Len(L) THEN SetLink(L, i + 1, w) ELSE Append(L, w)

\* The new link is where it belongs and those before it stay.
LEMMA PutIs ==
  ASSUME NEW L \in Links, NEW i \in Nat, NEW w \in Seq(Nat)
  PROVE  /\ Put(L, i, w) \in Links
         /\ i <= Len(L) => /\ i < Len(Put(L, i, w)) /\ Put(L, i, w)[i + 1] = w
                           /\ SameLinks(Put(L, i, w), L, i)
<1>1. L \in Seq(Seq(Nat)) /\ Len(L) \in Nat
  BY DEF Links
<1>2. CASE i < Len(L)
  <2>1. i + 1 \in 1 .. Len(L) /\ Put(L, i, w) = [L EXCEPT ![i + 1] = w]
    BY <1>1, <1>2 DEF Put, SetLink
  <2> DEFINE K == [L EXCEPT ![i + 1] = w]
  <2>2. /\ K \in Seq(Seq(Nat)) /\ Len(K) = Len(L)
        /\ \A j \in 1 .. Len(L) : K[j] = IF j = i + 1 THEN w ELSE L[j]
    BY <2>1, <1>1, ExceptSeq
  <2> HIDE DEF K
  <2>3. i < Len(K) /\ K[i + 1] = w /\ \A j \in 1 .. i : K[j] = L[j]
    BY <2>1, <2>2, <1>1, <1>2
  <2>4. SameLinks(K, L, i)
    BY <2>3, <2>2, <1>1 DEF SameLinks
  <2> QED
    BY <2>1, <2>2, <2>3, <2>4 DEF K, Links
<1>3. CASE ~ (i < Len(L))
  <2>1. Put(L, i, w) = Append(L, w)
    BY <1>3 DEF Put
  <2> DEFINE K == Append(L, w)
  <2>2. /\ K \in Seq(Seq(Nat)) /\ Len(K) = Len(L) + 1 /\ K[Len(L) + 1] = w
        /\ \A j \in 1 .. Len(L) : K[j] = L[j]
    BY <1>1
  <2> HIDE DEF K
  <2>3. ASSUME i <= Len(L)
        PROVE  i < Len(K) /\ K[i + 1] = w /\ SameLinks(K, L, i)
    <3>1. i = Len(L)
      BY <2>3, <1>1, <1>3
    <3> QED
      BY <3>1, <2>2, <1>1 DEF SameLinks
  <2> QED
    BY <2>1, <2>2, <2>3 DEF K, Links
<1> QED
  BY <1>2, <1>3

\* The locals when a link of n units was read after those of l.
ReadsLink(l, k, n, w, fin) ==
  /\ k.links = l.links /\ k.got = w /\ k.crossed = FALSE /\ k.size = l.size + n
  /\ k.first = (IF l.links = 0 THEN n ELSE l.first) /\ k.finish = fin
  /\ k.needWrite = l.needWrite

\* A link read from the stream goes on where the block has been read to
\* (MtDec.c:352-395).
LEMMA ReadIsParsed ==
  ASSUME NEW inp, NEW r, NEW p \in Nat, NEW l, NEW c, NEW L \in Links, NEW k, NEW n \in Nat,
         NEW fin \in BOOLEAN, NEW s,
         IsLocal(l), ReadAt(inp, r, p, l, c, L), ReadsLink(l, k, n, Units(r.pos, n), fin),
         l.links > 0 \/ r.cross = <<>>, r.pos \in Nat, r.dry => n = 0, InBufIs,
         s.pos = r.pos + n, s.cross = r.cross, s.parsed = r.parsed,
         fin => s.dry, ~ fin => n = InBufSize, n <= InBufSize
  PROVE  ParseAt(inp, s, p, k, c, Put(L, l.links, Units(r.pos, n)))
<1> DEFINE w == Units(r.pos, n)
           K == Put(L, l.links, w)
<1>1. w \in Seq(Nat) /\ Len(w) = n /\ Holds(w, r.pos, n)
  <2>1. n \in 0 .. n
    OBVIOUS
  <2> QED
    BY <2>1, UnitsAre, UnitsHold
<1>2. /\ k.links = l.links /\ k.got = w /\ k.crossed = FALSE /\ k.size = l.size + n
      /\ k.first = (IF l.links = 0 THEN n ELSE l.first) /\ k.finish = fin
      /\ k.needWrite = l.needWrite
  BY DEF ReadsLink
<1> HIDE DEF w
<1>3. l.links \in Nat /\ l.size \in Nat /\ l.first \in Nat
  BY DEF IsLocal
<1>4. K \in Links /\ (l.links <= Len(L) => l.links < Len(K) /\ K[l.links + 1] = w /\ SameLinks(K, L, l.links))
  BY <1>1, <1>3, PutIs
<1> HIDE DEF K
<1>5. CASE l.links = 0
  <2>1. AtStart(inp, r, p) /\ l.size = 0 /\ ~ l.needWrite /\ r.cross = <<>>
    BY <1>5 DEF ReadAt
  <2>2. /\ p <= inp.outSize /\ p + Len(r.cross) = r.pos
        /\ Begins(inp, p) \/ r.dry
        /\ r.parsed = p \/ (r.parsed <= p /\ r.dry)
    BY <2>1 DEF AtStart, FreshAt
  <2>3. Len(r.cross) = 0 /\ 0 <= Len(L)
    BY <2>1 DEF Links
  <2>4. p = r.pos
    BY <2>2, <2>3
  <2>5. 0 < Len(K) /\ K[0 + 1] = w
    BY <2>3, <1>4, <1>5
  <2>6. k.size = n /\ k.first = n /\ k.links = 0 /\ Len(k.got) = n
    BY <2>1, <1>1, <1>2, <1>5
  <2>7. p + k.size = s.pos /\ p + (k.size - n) = p
    BY <2>4, <2>6
  <2>8. Holds(k.got, p + (k.size - n), n)
    BY <2>4, <2>7, <1>1, <1>2
  <2>9. /\ Begins(inp, p) \/ n = 0
        /\ s.parsed = p \/ (s.parsed <= p /\ n = 0)
    BY <2>2
  <2>10. (k.finish => s.dry) /\ (~ k.finish => Len(k.got) = InBufSize) /\ k.crossed = FALSE
    BY <1>2, <2>6
  <2>11. /\ p + k.size = s.pos /\ Len(k.got) <= k.size
         /\ Holds(k.got, p + (k.size - Len(k.got)), Len(k.got))
         /\ k.links < Len(K) /\ K[k.links + 1] = k.got /\ s.cross = <<>>
    BY <2>1, <2>5, <2>6, <2>7, <2>8, <1>2
  <2>12. /\ k.links = 0 /\ ~ (k.links > 0) /\ k.size = Len(k.got) /\ k.first = Len(k.got)
         /\ Begins(inp, p) \/ Len(k.got) = 0
         /\ s.parsed = p \/ (s.parsed <= p /\ Len(k.got) = 0)
    BY <2>6, <2>9
  <2>13. p <= inp.outSize /\ ~ k.needWrite
    BY <2>1, <2>2, <1>2
  <2>14. ParseAt(inp, s, p, k, c, K)
    BY <2>10, <2>11, <2>12, <2>13, Zenon DEF ParseAt
  <2> QED
    BY <2>14 DEF K, w
<1>6. CASE l.links # 0
  <2>1. /\ r.cross = <<>> /\ p + l.size = r.pos /\ MoreAt(inp, r, p, l, c, l.size)
        /\ FullLinks(L, p, l.first, l.size, l.links)
    BY <1>6 DEF ReadAt
  <2>2. l.links \in 1 .. Len(L)
    BY <2>1, <1>3, FullIs
  <2>3. l.links < Len(K) /\ K[l.links + 1] = w /\ SameLinks(K, L, l.links)
    BY <2>2, <1>4
  <2>4. FullLinks(K, p, l.first, l.size, l.links)
    BY <2>1, <2>3, <1>3, <1>4, LinksSame
  <2>5. k.size - n = l.size /\ k.first = l.first /\ Len(k.got) = n /\ n <= k.size
    BY <1>1, <1>2, <1>3, <1>6
  <2>6. MoreAt(inp, s, p, k, c, k.size - n)
    BY <2>1, <2>5, <1>2 DEF MoreAt
  <2>7. p + k.size = s.pos /\ Holds(k.got, p + (k.size - n), n)
    BY <2>1, <2>5, <1>1, <1>2, <1>3
  <2>8. FullLinks(K, p, k.first, k.size - n, k.links)
    BY <2>4, <2>5, <1>2
  <2>9. (k.finish => s.dry) /\ (~ k.finish => Len(k.got) = InBufSize) /\ k.crossed = FALSE
    BY <1>2, <2>5
  <2>10. /\ p + k.size = s.pos /\ Len(k.got) <= k.size
         /\ Holds(k.got, p + (k.size - Len(k.got)), Len(k.got))
         /\ k.links < Len(K) /\ K[k.links + 1] = k.got /\ s.cross = <<>>
    BY <2>1, <2>3, <2>5, <2>7, <1>2
  <2>11. /\ k.links # 0 /\ Len(k.got) <= InBufSize
         /\ MoreAt(inp, s, p, k, c, k.size - Len(k.got))
         /\ FullLinks(K, p, k.first, k.size - Len(k.got), k.links)
    BY <2>5, <2>6, <2>8, <1>2, <1>6
  <2>12. ParseAt(inp, s, p, k, c, K)
    BY <2>9, <2>10, <2>11, Zenon DEF ParseAt
  <2> QED
    BY <2>12 DEF K, w
<1> QED
  BY <1>5, <1>6

\* The first link takes the cross block, which begins where the block does
\* (MtDec.c:333-350).
LEMMA CrossIsParsed ==
  ASSUME NEW inp, NEW r, NEW p \in Nat, NEW l, NEW c, NEW L \in Links, NEW k,
         IsLocal(l), ReadAt(inp, r, p, l, c, L), l.links = 0, r.cross # <<>>, r.cross \in Seq(Nat),
         r.pos \in Nat,
         k.links = l.links, k.got = r.cross, k.crossed = TRUE, k.size = Len(r.cross),
         k.first = Len(r.cross), k.finish = l.finish, k.needWrite = l.needWrite
  PROVE  ParseAt(inp, r, p, k, c, Put(L, l.links, r.cross))
<1> DEFINE K == Put(L, l.links, r.cross)
<1>1. AtStart(inp, r, p) /\ (l.finish => r.dry) /\ ~ l.needWrite
  BY DEF ReadAt
<1>2. PICK g \in Nat : g = Len(r.cross) /\ g >= 1
  OBVIOUS
<1>3. /\ p <= inp.outSize /\ p + g = r.pos /\ Begins(inp, p) /\ Holds(r.cross, p, g)
      /\ r.parsed = p
  BY <1>1, <1>2 DEF AtStart, CrossAt, FreshAt
<1>4. 0 \in Nat /\ 0 <= Len(L)
  BY DEF Links
<1>5. 0 < Len(K) /\ K[0 + 1] = r.cross
  BY <1>4, PutIs
<1> HIDE DEF K
<1>6. k.size = g /\ k.first = g /\ Len(k.got) = g /\ k.links = 0
  BY <1>2
<1>7. p + k.size = r.pos /\ Holds(k.got, p + (k.size - g), g)
  BY <1>3, <1>6
<1>8. ParseAt(inp, r, p, k, c, K)
  BY <1>1, <1>2, <1>3, <1>5, <1>6, <1>7 DEF ParseAt
<1> QED
  BY <1>8 DEF K

-----------------------------------------------------------------------------
(* A link is parsed: what there is before.                                 *)

\* e units of the block behind p were parsed, and the link to be parsed holds
\* the g units that follow.
Parses(inp, r, p, l, c, L, e, g) ==
  /\ e \in Nat /\ g \in Nat /\ l.size = e + g /\ Len(l.got) = g /\ l.got = Units(p + e, g)
  /\ p + (e + g) = r.pos /\ p + e <= inp.outSize /\ Chunks(inp, p, e) /\ r.parsed <= p
  /\ e + g > 0 => Begins(inp, p) /\ r.parsed = p
  /\ l.links = 0 => e = 0 /\ l.first = g
  /\ l.links # 0 => /\ e >= 1 /\ l.first >= 1 /\ ~ l.crossed /\ FullLinks(L, p, l.first, e, l.links)
                    /\ c.inPre = e /\ c.outPre = e /\ g <= InBufSize
  /\ l.links + 1 \in 1 .. Len(L) /\ L[l.links + 1] = l.got
  /\ l.crossed => g >= 1
  /\ ~ l.finish => g >= 1 /\ (l.links # 0 => g = InBufSize)
  /\ l.finish => r.dry

\* What is to be parsed follows on what was parsed (MtDec.c:397-420).
LEMMA ParseBegins ==
  ASSUME NEW inp, NEW r, NEW p \in Nat, NEW l, NEW c, NEW L \in Links,
         IsLocal(l), ParseAt(inp, r, p, l, c, L), InBufIs,
         r.pos <= Len(inp.kind), r.pos \in Nat, inp.kind \in Seq(Kinds), r.parsed \in Nat
  PROVE  \E e, g : Parses(inp, r, p, l, c, L, e, g)
<1>1. /\ l.links \in Nat /\ l.size \in Nat /\ l.first \in Nat /\ l.got \in Seq(Nat)
      /\ l.crossed \in BOOLEAN
  BY DEF IsLocal
<1>2. PICK g \in Nat : g = Len(l.got)
  BY <1>1
<1>3. /\ p + l.size = r.pos /\ g <= l.size /\ Holds(l.got, p + (l.size - g), g)
      /\ l.links < Len(L) /\ L[l.links + 1] = l.got
      /\ l.crossed => l.links = 0 /\ g >= 1
      /\ l.finish => r.dry
      /\ ~ l.finish => l.crossed \/ g = InBufSize
      /\ l.links > 0 => g <= InBufSize
  BY <1>2 DEF ParseAt
<1>4. l.links = 0 => /\ l.size = g /\ l.first = g /\ (Begins(inp, p) \/ g = 0) /\ p <= inp.outSize
                     /\ r.parsed = p \/ (r.parsed <= p /\ g = 0)
  BY <1>2 DEF ParseAt
<1>5. l.links # 0 => /\ MoreAt(inp, r, p, l, c, l.size - g)
                     /\ FullLinks(L, p, l.first, l.size - g, l.links)
  BY <1>2 DEF ParseAt
<1>6. PICK e \in Nat : e = l.size - g /\ l.size = e + g
  BY <1>1, <1>3
<1>7. InBufSize \in Nat /\ InBufSize >= 1
  BY DEF InBufIs
<1>8. l.links + 1 \in 1 .. Len(L)
  <2>1. Len(L) \in Nat
    BY DEF Links
  <2>2. l.links \in Nat /\ l.links < Len(L)
    BY <1>1, <1>3, Zenon
  <2> QED
    BY <2>1, <2>2
<1>9. p + e \in Nat /\ l.got = Units(p + e, g)
  <2>1. Holds(l.got, p + e, g) /\ p + e \in Nat
    BY <1>3, <1>6
  <2>2. l.got \in Seq(Nat) /\ g \in Nat /\ Len(l.got) = g
    BY <1>1, <1>2
  <2>3. l.got = Units(p + e, g)
    BY <2>1, <2>2, HoldsAll, Zenon
  <2> QED
    BY <2>1, <2>3
<1>10. ~ l.finish => g >= 1 /\ (l.links # 0 => g = InBufSize)
  BY <1>3, <1>7
<1>11. CASE l.links = 0
  <2>1. e = 0
    BY <1>4, <1>6, <1>11
  <2>2. p + 0 <= Len(inp.kind) /\ p + 0 <= inp.outSize
    <3>1. p + (0 + g) = r.pos /\ Len(inp.kind) \in Nat
      BY <2>1, <1>3, <1>6
    <3>2. p <= inp.outSize
      BY <1>4, <1>11
    <3> QED
      BY <3>1, <3>2
  <2>3. Chunks(inp, p, e)
    <3>1. \A u \in p + 1 .. p + 0 : inp.kind[u] \notin {"end", "alien"}
      OBVIOUS
    <3> QED
      BY <3>1, <2>1, <2>2 DEF Chunks
  <2>4. r.parsed <= p /\ (e + g > 0 => Begins(inp, p) /\ r.parsed = p)
    BY <2>1, <1>4, <1>11
  <2> QED
    BY <2>1, <2>2, <2>3, <2>4, <1>2, <1>3, <1>4, <1>6, <1>8, <1>9, <1>10, <1>11 DEF Parses
<1>12. CASE l.links # 0
  <2>1. /\ c.inPre = e /\ c.outPre = e /\ e >= 1 /\ Chunks(inp, p, e) /\ r.parsed = p /\ Begins(inp, p)
        /\ l.first >= 1 /\ FullLinks(L, p, l.first, e, l.links)
    BY <1>5, <1>6, <1>12 DEF MoreAt
  <2>2. p + e <= inp.outSize
    BY <2>1 DEF Chunks
  <2>3. ~ l.crossed /\ g <= InBufSize
    BY <1>1, <1>3, <1>12
  <2> QED
    BY <2>1, <2>2, <2>3, <1>2, <1>3, <1>6, <1>8, <1>9, <1>10, <1>12 DEF Parses
<1> QED
  BY <1>11, <1>12

\* What is left of the links in K, and how much of it is in the first one,
\* when z units of the link are the block's.
CutAt(l, L, K, p, z, f) ==
  /\ K \in Links /\ f \in Nat
  /\ l.links = 0 => f = z /\ Len(K) >= 1 /\ Holds(K[1], p, z)
  /\ l.links # 0 => f = l.first /\ K = L

\* The links hold what was parsed (MtDec.c:397-520).
LEMMA ParsedLinks ==
  ASSUME NEW inp, NEW r, NEW p \in Nat, NEW l, NEW c, NEW L \in Links, NEW e, NEW g,
         IsLocal(l), Parses(inp, r, p, l, c, L, e, g), InBufIs,
         NEW z \in Nat, z <= g, NEW K, NEW f, CutAt(l, L, K, p, z, f)
  PROVE  e + z # 0 => Begins(inp, p) /\ f >= 1 /\ Linked(K, p, f, e + z)
<1> SUFFICES ASSUME e + z # 0
             PROVE  Begins(inp, p) /\ f >= 1 /\ Linked(K, p, f, e + z)
  OBVIOUS
<1>1. /\ e \in Nat /\ g \in Nat /\ l.got = Units(p + e, g)
      /\ e + g > 0 => Begins(inp, p)
      /\ l.links = 0 => e = 0
      /\ l.links # 0 => l.first >= 1 /\ FullLinks(L, p, l.first, e, l.links) /\ g <= InBufSize
      /\ l.links + 1 \in 1 .. Len(L) /\ L[l.links + 1] = l.got
  BY DEF Parses
<1>2. l.links \in Nat /\ l.first \in Nat
  BY DEF IsLocal
<1>3. Begins(inp, p)
  BY <1>1
<1>4. CASE l.links = 0
  <2>1. f = z /\ Len(K) >= 1 /\ Holds(K[1], p, z) /\ e = 0 /\ K \in Links
    BY <1>1, <1>4 DEF CutAt
  <2>2. LinksOf(K, p, z, z, 1) /\ 1 \in 1 .. Len(K) /\ e + z = z
    BY <2>1 DEF LinksOf, Links
  <2> QED
    BY <2>1, <2>2, <1>3 DEF Linked
<1>5. CASE l.links # 0
  <2>1. f = l.first /\ K = L
    BY <1>5 DEF CutAt
  <2>2. Holds(L[l.links + 1], p + e, z)
    <3>1. z \in 0 .. g /\ p + e \in Nat
      BY <1>1
    <3> QED
      BY <3>1, <1>1, UnitsHold
  <2>3. z <= InBufSize
    BY <1>1, <1>5 DEF InBufIs
  <2>4. Linked(L, p, l.first, e + z)
    BY <2>2, <2>3, <1>1, <1>2, <1>5, MoreIsLinked
  <2> QED
    BY <2>1, <2>4, <1>1, <1>3, <1>5
<1> QED
  BY <1>4, <1>5

\* Chunks follow on chunks.
LEMMA MoreChunks ==
  ASSUME NEW inp, NEW p \in Nat, NEW e \in Nat, NEW k \in Nat, Chunks(inp, p, e),
         NEW n \in Nat, n = Len(inp.kind), p + e + k <= n,
         k > 0 => p + e + k <= inp.outSize,
         \A u \in p + e + 1 .. p + e + k : inp.kind[u] \notin {"end", "alien"}
  PROVE  Chunks(inp, p, e + k)
<1>1. p + e <= inp.outSize /\ \A u \in p + 1 .. p + e : inp.kind[u] \notin {"end", "alien"}
  BY DEF Chunks
<1>2. p + (e + k) = p + e + k
  OBVIOUS
<1>3. p + (e + k) <= inp.outSize
  <2>1. CASE k = 0
    BY <2>1, <1>1
  <2>2. CASE k > 0
    BY <2>2, <1>2
  <2> QED
    BY <2>1, <2>2
<1>4. ASSUME NEW u \in p + 1 .. p + (e + k)
      PROVE  inp.kind[u] \notin {"end", "alien"}
  <2>1. u \in p + 1 .. p + e \/ u \in p + e + 1 .. p + e + k
    OBVIOUS
  <2> QED
    BY <2>1, <1>1
<1> QED
  BY <1>2, <1>3, <1>4 DEF Chunks

-----------------------------------------------------------------------------
(* A link is parsed: what becomes of it.                                   *)

Later(status) == status \in {"mark", "notSpecified", "notFinished"}

\* The locals l become k, the reader r becomes s, the links L become K and the
\* coder d, when res is what Parse says of the g units of the link after e
\* units of the block; noCross when there is no memory for the cross block.
ParsesTo(l, k, r, s, L, K, d, res, e, g, noCross) ==
  LET cuts  == res.size < g
      after == SubSeq(l.got, res.size + 1, g)
      over  == res.status = "overflow"
      spare == res.status = "new" /\ cuts
  IN /\ noCross => spare /\ ~ l.crossed
     /\ d.status = res.status /\ d.inPre = e + res.size
     /\ d.outPre = (IF over THEN e ELSE res.out)
     /\ s.parsed = (IF res.status \in {"more", "overflow"} THEN r.parsed ELSE r.parsed + res.out)
     /\ s.cross = (IF (spare /\ ~ noCross) \/ (l.crossed /\ cuts /\ ~ over) THEN after ELSE <<>>)
     /\ s.pos = r.pos /\ s.dry = r.dry
     /\ K = (IF l.crossed /\ ~ over THEN SetLink(L, 1, SubSeq(l.got, 1, res.size)) ELSE L)
     /\ k.needWrite /\ k.links = l.links + 1
     /\ k.over <=> over
     /\ k.alloc <=> noCross
     /\ k.needCode <=> ~ over /\ (res.status # "more" \/ l.finish)
     /\ k.finish <=> over \/ noCross \/ Later(res.status) \/ (l.finish /\ ~ spare)
     /\ k.size = (IF over \/ noCross THEN l.size ELSE l.size - (g - res.size))
     /\ k.first = (IF l.links = 0 /\ ~ over /\ ~ noCross THEN res.size ELSE l.first)

\* A block for which there is no memory, or which is too large, is kept as it
\* was read (MtDec.c:430-500).
LEMMA ParseWhole ==
  ASSUME NEW inp, NEW r, NEW p \in Nat, NEW l, NEW c, NEW L \in Links, NEW e, NEW g,
         IsLocal(l), Parses(inp, r, p, l, c, L, e, g), InBufIs, g >= 1, NEW s, NEW k,
         inp.outSize \in Nat, s.cross = <<>>, s.pos = r.pos,
         k.size = l.size, k.first = l.first, k.alloc \/ k.over
  PROVE  WholeAt(inp, s, p, k, L)
<1>1. /\ e \in Nat /\ g \in Nat /\ l.size = e + g /\ l.got = Units(p + e, g)
      /\ p + (e + g) = r.pos /\ p + e <= inp.outSize
      /\ l.links = 0 => e = 0 /\ l.first = g
      /\ l.links + 1 \in 1 .. Len(L) /\ L[l.links + 1] = l.got
  BY DEF Parses
<1>2. l.links \in Nat /\ l.first \in Nat
  BY DEF IsLocal
<1>3. CutAt(l, L, L, p, g, l.first)
  <2>1. ASSUME l.links = 0
        PROVE  l.first = g /\ Len(L) >= 1 /\ Holds(L[1], p, g)
    <3>1. l.first = g /\ 1 \in 1 .. Len(L) /\ L[1] = Units(p, g)
      BY <2>1, <1>1
    <3>2. g \in 0 .. g
      BY <1>1
    <3>3. Holds(Units(p, g), p, g)
      BY <3>2, <1>1, UnitsHold
    <3> QED
      BY <3>1, <3>3 DEF Links
  <2> QED
    BY <2>1, <1>2 DEF CutAt
<1>4. e + g # 0 => Begins(inp, p) /\ l.first >= 1 /\ Linked(L, p, l.first, e + g)
  BY <1>1, <1>3, ParsedLinks
<1>5. e + g # 0
  BY <1>1
<1>6. LinkedAt(inp, p, k, L)
  BY <1>1, <1>4, <1>5 DEF LinkedAt
<1>7. Len(s.cross) = 0 /\ s.cross = <<>>
  OBVIOUS
<1>8. CrossAt(s, p + k.size)
  <2>1. p + k.size + 0 <= s.pos
    BY <1>1
  <2>2. Holds(s.cross, p + k.size, 0)
    BY <1>7 DEF Holds
  <2> QED
    BY <2>1, <2>2, <1>7 DEF CrossAt
<1>9. p + k.size + Len(s.cross) = s.pos /\ k.size # 0 /\ p <= inp.outSize
  BY <1>1, <1>5, <1>7
<1> QED
  BY <1>6, <1>8, <1>9 DEF WholeAt

\* The units of a read behind the first z.
UnitsFrom(a, n, z) == SubSeq(Units(a, n), z + 1, n)

LEMMA UnitsRest ==
  ASSUME NEW a \in Nat, NEW n \in Nat, NEW z \in 0 .. n
  PROVE  /\ UnitsFrom(a, n, z) \in Seq(Nat) /\ Len(UnitsFrom(a, n, z)) = n - z
         /\ Holds(UnitsFrom(a, n, z), a + z, n - z) /\ (z < n => UnitsFrom(a, n, z) # <<>>)
<1> DEFINE v == Units(a, n)
           w == SubSeq(v, z + 1, n)
<1>1. v \in Seq(Nat) /\ Len(v) = n /\ \A i \in 1 .. n : v[i] = a + i
  BY UnitsAre
<1> HIDE DEF v
<1>2. \A i \in z + 1 .. n : v[i] \in Nat
  BY <1>1
<1>3. /\ w \in Seq(Nat) /\ Len(w) = IF z + 1 <= n THEN n - (z + 1) + 1 ELSE 0
      /\ \A i \in 1 .. n - (z + 1) + 1 : w[i] = v[(z + 1) + i - 1]
  <2>1. z + 1 \in Int /\ n \in Int
    OBVIOUS
  <2> QED
    BY <2>1, <1>2, SubSeqProperties
<1> HIDE DEF w
<1>4. Len(w) = n - z
  BY <1>3
<1>5. ASSUME NEW i \in 1 .. n - z
      PROVE  w[i] = a + z + i
  <2>1. i \in 1 .. n - (z + 1) + 1 /\ (z + 1) + i - 1 \in 1 .. n /\ (z + 1) + i - 1 = z + i
    OBVIOUS
  <2>2. w[i] = v[z + i] /\ z + i \in 1 .. n
    BY <2>1, <1>3
  <2>3. v[z + i] = a + (z + i)
    BY <2>2, <1>1
  <2> QED
    BY <2>2, <2>3
<1>6. Holds(w, a + z, n - z)
  BY <1>4, <1>5 DEF Holds
<1>7. z < n => w # <<>>
  BY <1>4
<1> QED
  BY <1>3, <1>4, <1>6, <1>7, Zenon DEF w, v, UnitsFrom

\* What a cut leaves: z units of the link are the block's, the others go to
\* the cross block if another block begins with them.
CutsTo(inp, r, p, l, L, s, k, K, d, res, e, g, z) ==
  /\ K \in Links /\ k.size = e + z /\ d.inPre = e + z /\ LinkedAt(inp, p, k, K)
  /\ k.links \in 1 .. Len(K)
  /\ z < g \/ (K[k.links] = l.got /\ (l.links # 0 => K = L))
  /\ s.cross # <<>> => p + (e + z) + Len(s.cross) = r.pos
  /\ p + (e + z) <= r.pos /\ CrossAt(s, p + (e + z))
  /\ z < g /\ res.status = "new" => s.cross # <<>>

\* Where a block is cut (MtDec.c:430-520).
LEMMA ParseCuts ==
  ASSUME NEW inp, NEW r, NEW p \in Nat, NEW l, NEW c, NEW L \in Links, NEW e, NEW g,
         IsLocal(l), Parses(inp, r, p, l, c, L, e, g), InBufIs,
         NEW k, NEW s, NEW K, NEW d, NEW res,
         ParsesTo(l, k, r, s, L, K, d, res, e, g, FALSE), res.status # "overflow",
         NEW z \in Nat, z <= g, res.size = z
  PROVE  CutsTo(inp, r, p, l, L, s, k, K, d, res, e, g, z)
<1>1. /\ e \in Nat /\ g \in Nat /\ l.size = e + g /\ l.got = Units(p + e, g)
      /\ p + (e + g) = r.pos
      /\ l.links = 0 => e = 0 /\ l.first = g
      /\ l.links # 0 => ~ l.crossed
      /\ l.links + 1 \in 1 .. Len(L) /\ L[l.links + 1] = l.got
  BY DEF Parses
<1>2. /\ s.cross = (IF (res.status = "new" /\ z < g) \/ (l.crossed /\ z < g)
                     THEN SubSeq(l.got, z + 1, g) ELSE <<>>)
      /\ s.pos = r.pos /\ d.inPre = e + z
      /\ K = (IF l.crossed THEN SetLink(L, 1, SubSeq(l.got, 1, z)) ELSE L)
      /\ k.links = l.links + 1 /\ k.size = l.size - (g - z)
      /\ k.first = (IF l.links = 0 THEN z ELSE l.first)
  BY DEF ParsesTo
<1>3. l.links \in Nat /\ l.first \in Nat /\ l.crossed \in BOOLEAN
  BY DEF IsLocal
<1>4. k.size = e + z /\ z \in 0 .. g /\ p + e \in Nat /\ g <= g
  BY <1>1, <1>2
<1>5. PICK h \in Seq(Nat) : h = SubSeq(Units(p + e, g), 1, z) /\ h = Units(p + e, z)
  BY <1>1, <1>4, UnitsHold, UnitsAre
<1>6. Holds(h, p + e, z) /\ Len(h) = z /\ (z = g => h = l.got)
  <2>1. z \in 0 .. z
    OBVIOUS
  <2>2. Holds(Units(p + e, z), p + e, z)
    BY <2>1, <1>4, UnitsHold
  <2>3. Len(Units(p + e, z)) = z
    BY <1>4, UnitsAre
  <2> QED
    BY <2>2, <2>3, <1>1, <1>5
<1>7. /\ K \in Links /\ l.links + 1 \in 1 .. Len(K)
      /\ l.links = 0 => Holds(K[1], p, z)
      /\ l.links # 0 => K = L
      /\ z = g => K[l.links + 1] = l.got
  <2>1. CASE ~ l.crossed
    <3>1. K = L
      BY <2>1, <1>2
    <3>2. l.links = 0 => L[1] = Units(p, g)
      BY <1>1
    <3>3. z \in 0 .. g
      BY <1>4
    <3>4. Holds(Units(p, g), p, z)
      BY <3>3, <1>1, UnitsHold
    <3> QED
      BY <3>1, <3>2, <3>4, <1>1
  <2>2. CASE l.crossed
    <3>1. l.links = 0 /\ K = [L EXCEPT ![1] = h] /\ 1 \in 1 .. Len(L) /\ e = 0
      BY <2>2, <1>1, <1>2, <1>5 DEF SetLink
    <3>2. L \in Seq(Seq(Nat)) /\ h \in Seq(Nat)
      BY DEF Links
    <3>3. K \in Seq(Seq(Nat)) /\ Len(K) = Len(L) /\ K[1] = h
      BY <3>1, <3>2, ExceptSeq
    <3> QED
      BY <3>1, <3>3, <1>6 DEF Links
  <2> QED
    BY <2>1, <2>2, <1>3
<1>8. CutAt(l, L, K, p, z, k.first)
  <2>1. Len(K) >= 1
    BY <1>3, <1>7 DEF Links
  <2> QED
    BY <2>1, <1>2, <1>3, <1>7 DEF CutAt
<1>9. e + z # 0 => Begins(inp, p) /\ k.first >= 1 /\ Linked(K, p, k.first, e + z)
  BY <1>8, ParsedLinks
<1>10. LinkedAt(inp, p, k, K)
  BY <1>4, <1>9 DEF LinkedAt
<1>q. p + e \in Nat /\ g \in Nat /\ z \in 0 .. g
  BY <1>1, <1>4
<1>r. PICK w : w = UnitsFrom(p + e, g, z)
  OBVIOUS
<1>11. w \in Seq(Nat) /\ Len(w) = g - z /\ Holds(w, p + e + z, g - z) /\ (z < g => w # <<>>)
  BY <1>q, <1>r, UnitsRest, Zenon
<1>w. w = SubSeq(l.got, z + 1, g)
  BY <1>1, <1>r, Zenon DEF UnitsFrom
<1>12. s.cross = w \/ s.cross = <<>>
  BY <1>2, <1>w, Zenon
<1>13. z < g /\ res.status = "new" => s.cross = w
  BY <1>2, <1>w, Zenon
<1>14. /\ s.cross # <<>> => p + (e + z) + Len(s.cross) = r.pos
       /\ p + (e + z) <= r.pos
  <2>1. p + (e + z) + (g - z) = p + (e + g) /\ p + (e + z) <= p + (e + g)
    BY <1>1, <1>4
  <2>2. s.cross # <<>> => Len(s.cross) = g - z
    BY <1>11, <1>12
  <2> QED
    BY <2>1, <2>2, <1>1
<1>15. CrossAt(s, p + (e + z))
  <2>1. CASE s.cross = <<>>
    <3>1. Len(s.cross) = 0
      BY <2>1
    <3>2. Holds(s.cross, p + (e + z), 0)
      BY <3>1 DEF Holds
    <3> QED
      BY <3>1, <3>2, <1>1, <1>2, <1>14 DEF CrossAt
  <2>2. CASE s.cross = w
    <3>1. p + (e + z) = p + e + z /\ p + (e + z) + (g - z) = p + (e + g)
      BY <1>1, <1>4
    <3>2. p + (e + z) + Len(w) = s.pos
      BY <3>1, <1>1, <1>2, <1>11, Zenon
    <3>3. s.pos \in Nat
      BY <3>1, <1>1, <1>2
    <3> QED
      BY <3>1, <3>2, <3>3, <2>2, <1>11 DEF CrossAt
  <2> QED
    BY <2>1, <2>2, <1>12
<1>16. k.links \in 1 .. Len(K) /\ (z < g \/ (K[k.links] = l.got /\ (l.links # 0 => K = L)))
  BY <1>1, <1>2, <1>4, <1>7
<1>17. z < g /\ res.status = "new" => s.cross # <<>>
  BY <1>11, <1>13
<1> QED
  BY <1>2, <1>4, <1>7, <1>10, <1>14, <1>15, <1>16, <1>17, Zenon DEF CutsTo

-----------------------------------------------------------------------------
(* What Parse finds in the stream.                                         *)

StreamIs(inp, r) ==
  /\ inp.kind \in Seq(Kinds) /\ inp.outSize \in Nat /\ inp.finish \in BOOLEAN
  /\ r.pos \in Nat /\ r.pos <= Len(inp.kind) /\ r.parsed \in Nat /\ r.cross \in Seq(Nat)

\* The limit of a block, for any input and reader.
RoomOf(inp, r)    == inp.outSize - r.parsed
LimitOf(inp, r)   == Min({OutBlockMax, RoomOf(inp, r)})
PartialOf(inp, r) == OutBlockMax >= RoomOf(inp, r) /\ ~ inp.finish

\* z more units are the block's, k of them chunks.
Found(inp, p, e, res, z, k) ==
  /\ k = (IF res.status \in {"mark", "notSpecified"} THEN z - 1 ELSE z)
  /\ res.size = z /\ res.out = e + k /\ k \in Nat /\ Chunks(inp, p, e + k)
  /\ res.status \in {"more", "new", "mark", "notSpecified", "notFinished"}
  /\ res.status = "new" => e + z >= 1 /\ Begins(inp, p + (e + z))
  /\ res.status \in {"mark", "notSpecified"} =>
       z >= 1 /\ inp.kind[p + (e + z)] = IF res.status = "mark" THEN "end" ELSE "alien"
  /\ res.status = "notFinished" => ~ inp.finish /\ p + (e + z) = inp.outSize

\* Parse cuts the block at a chunk, at the end, or where no more is wanted
\* (Lzma2DecMt.c:237-412).
LEMMA ParseFinds ==
  ASSUME NEW inp, NEW r, NEW p \in Nat, NEW l, NEW c, NEW L \in Links, NEW e, NEW g,
         Parses(inp, r, p, l, c, L, e, g), StreamIs(inp, r),
         NEW res \in Parse(inp.kind, l.got, e, LimitOf(inp, r), PartialOf(inp, r))
  PROVE  \E z \in 0 .. g : /\ res.size = z /\ (res.status = "more" => z = g)
                           /\ (res.status = "new" => z < g) /\ (res.status = "overflow" => g >= 1)
                           /\ res.status # "overflow" => \E k : Found(inp, p, e, res, z, k)
<1>1. /\ e \in Nat /\ g \in Nat /\ l.got = Units(p + e, g)
      /\ p + (e + g) = r.pos /\ p + e <= inp.outSize /\ Chunks(inp, p, e) /\ r.parsed <= p
      /\ e + g > 0 => r.parsed = p
  BY DEF Parses
<1>2. /\ inp.kind \in Seq(Kinds) /\ inp.outSize \in Nat /\ inp.finish \in BOOLEAN
      /\ r.pos <= Len(inp.kind) /\ r.parsed \in Nat
  BY DEF StreamIs
<1>3. PICK n, o, q, b, ps \in Nat : /\ n = Len(inp.kind) /\ o = inp.outSize /\ q = p + e /\ b = OutBlockMax
                                   /\ ps = r.parsed
  <2>1. Len(inp.kind) \in Nat /\ OutBlockMax \in Nat /\ p + e \in Nat
    BY <1>1, <1>2, MtDecAssumption
  <2> QED
    BY <2>1, <1>2
<1>4. PICK room \in Nat : room = o - ps /\ room = RoomOf(inp, r)
  <2>1. o - ps \in Nat
    BY <1>1, <1>3
  <2> QED
    BY <2>1, <1>3 DEF RoomOf
<1>5. PICK limit \in Nat : limit = LimitOf(inp, r) /\ limit <= room /\ (b >= room => limit = room)
  <2>1. Min({b, room}) = IF b <= room THEN b ELSE room
    BY MinOfTwo
  <2>2. LimitOf(inp, r) = Min({b, room})
    BY <1>3, <1>4, Zenon DEF LimitOf
  <2>3. PICK x : x = LimitOf(inp, r)
    OBVIOUS
  <2>4. x = IF b <= room THEN b ELSE room
    BY <2>1, <2>2, <2>3, Zenon
  <2>5. x \in Nat /\ x <= room /\ (b >= room => x = room)
    BY <2>4
  <2> QED
    BY <2>3, <2>5
<1>6. PICK part \in BOOLEAN : part = PartialOf(inp, r) /\ (part => b >= room /\ ~ inp.finish)
  BY <1>2, <1>3, <1>4 DEF PartialOf
<1>7. DecodeHyp(inp.kind, q, g)
  BY <1>1, <1>2, <1>3 DEF DecodeHyp
<1>8. res \in Parse(inp.kind, Units(q, g), e, limit, part)
  BY <1>1, <1>3, <1>5, <1>6
<1>9. PICK z \in 0 .. g : ParsedAs(inp.kind, q, g, e, limit, part, res, z)
  BY <1>1, <1>3, <1>7, <1>8, ParseIs
<1>10. PICK k \in 0 .. g : k = IF res.status \in {"mark", "notSpecified"} THEN z - 1 ELSE z
  BY <1>9 DEF ParsedAs
<1>11. /\ res.size = z
       /\ res.status \in {"more", "new", "mark", "notSpecified", "notFinished", "overflow"}
       /\ res.status # "overflow" => /\ res.out = e + k
                                     /\ \A u \in q + 1 .. q + k : inp.kind[u] \notin {"end", "alien"}
                                     /\ k > 0 => e + k <= limit
       /\ res.status = "more" => z = g
       /\ res.status = "new" => z < g /\ e + z >= 1 /\ inp.kind[q + z + 1] = "head"
       /\ res.status \in {"mark", "notSpecified"} => z >= 1
       /\ res.status = "mark" => inp.kind[q + z] = "end"
       /\ res.status = "notSpecified" => inp.kind[q + z] = "alien"
       /\ res.status = "notFinished" => part /\ e + z >= limit
       /\ res.status = "overflow" => g >= 1
  BY <1>9, <1>10 DEF ParsedAs
<1>12. ASSUME res.status # "overflow"
       PROVE  Found(inp, p, e, res, z, k)
  <2>1. k > 0 => p + e + k <= o
    <3>1. ASSUME k > 0
          PROVE  p + e + k <= o
      <4>1. ps = p
        BY <3>1, <1>1, <1>3
      <4>2. e + k <= room
        BY <3>1, <1>5, <1>11, <1>12, <1>1
      <4> QED
        BY <4>1, <4>2, <1>1, <1>4
    <3> QED
      BY <3>1
  <2>2. p + e + k <= n
    BY <1>1, <1>2, <1>3
  <2>3. Chunks(inp, p, e + k)
    <3>1. \A u \in p + e + 1 .. p + e + k : inp.kind[u] \notin {"end", "alien"}
      BY <1>3, <1>11, <1>12
    <3>2. e \in Nat /\ k \in Nat
      BY <1>1
    <3> QED
      BY <2>1, <2>2, <3>1, <3>2, <1>1, <1>3, MoreChunks
  <2>4. ASSUME res.status = "new"
        PROVE  e + z >= 1 /\ Begins(inp, p + (e + z))
    <3>1. p + (e + z) = q + z /\ p + (e + z) < Len(inp.kind)
      BY <2>4, <1>1, <1>2, <1>3, <1>11
    <3> QED
      BY <3>1, <2>4, <1>11 DEF Begins
  <2>5. res.status \in {"mark", "notSpecified"} =>
          z >= 1 /\ inp.kind[p + (e + z)] = IF res.status = "mark" THEN "end" ELSE "alien"
    <3>1. p + (e + z) = q + z
      BY <1>1, <1>3
    <3> QED
      BY <3>1, <1>11
  <2>6. ASSUME res.status = "notFinished"
        PROVE  ~ inp.finish /\ p + (e + z) = inp.outSize
    <3>1. ~ inp.finish /\ e + z >= room /\ k = z
      BY <2>6, <1>5, <1>6, <1>10, <1>11
    <3>2. p + (e + z) = o
      <4>1. CASE e + g > 0
        <5>1. ps = p /\ p + (e + z) >= o
          BY <4>1, <3>1, <1>1, <1>3, <1>4
        <5>2. p + (e + z) <= o
          <6>1. p + (e + k) <= o
            BY <2>3, <1>3 DEF Chunks
          <6> QED
            BY <6>1, <3>1
        <5> QED
          BY <5>1, <5>2, <1>1
      <4>2. CASE ~ (e + g > 0)
        <5>1. e = 0 /\ g = 0 /\ z = 0
          BY <4>2, <1>1
        <5> QED
          BY <5>1, <3>1, <1>1, <1>3, <1>4
      <4> QED
        BY <4>1, <4>2
    <3> QED
      BY <3>1, <3>2, <1>3
  <2> QED
    BY <2>3, <2>4, <2>5, <2>6, <1>10, <1>11, <1>12 DEF Found
<1> QED
  BY <1>11, <1>12

\* A parsed block is ready for the decoder (MtDec.c:397-520).
LEMMA ParseToHand ==
  ASSUME NEW inp, NEW r, NEW p \in Nat, NEW l, NEW c, NEW L \in Links, NEW e, NEW g,
         IsLocal(l), Parses(inp, r, p, l, c, L, e, g), InBufIs,
         NEW k, NEW s, NEW K, NEW d, NEW res,
         ParsesTo(l, k, r, s, L, K, d, res, e, g, FALSE), res.status # "overflow",
         StreamIs(inp, r), NEW z \in 0 .. g, NEW m, Found(inp, p, e, res, z, m),
         res.status = "more" => z = g, res.status = "new" => z < g,
         res.status # "more" \/ l.finish
  PROVE  HandAt(inp, s, p, k, d, K)
<1>1. /\ e \in Nat /\ g \in Nat /\ l.size = e + g
      /\ p + (e + g) = r.pos /\ r.parsed <= p
      /\ e + g > 0 => r.parsed = p
      /\ l.finish => r.dry
  BY DEF Parses
<1>2. /\ m = (IF res.status \in {"mark", "notSpecified"} THEN z - 1 ELSE z)
      /\ res.size = z /\ res.out = e + m /\ m \in Nat /\ Chunks(inp, p, e + m)
      /\ res.status \in {"more", "new", "mark", "notSpecified", "notFinished"}
      /\ res.status = "new" => e + z >= 1 /\ Begins(inp, p + (e + z))
      /\ res.status \in {"mark", "notSpecified"} =>
           z >= 1 /\ inp.kind[p + (e + z)] = IF res.status = "mark" THEN "end" ELSE "alien"
      /\ res.status = "notFinished" => ~ inp.finish /\ p + (e + z) = inp.outSize
  BY DEF Found
<1>3. /\ d.status = res.status /\ d.inPre = e + z /\ d.outPre = e + m
      /\ s.parsed = (IF res.status = "more" THEN r.parsed ELSE r.parsed + (e + m))
      /\ res.status = "more" => s.cross = <<>>
      /\ s.pos = r.pos /\ s.dry = r.dry
  BY <1>2 DEF ParsesTo
<1>4. k.needWrite /\ ~ k.over /\ ~ k.alloc /\ k.needCode
  BY DEF ParsesTo
<1>5. k.finish <=> res.status # "new"
  <2>1. k.finish <=> Later(res.status) \/ (l.finish /\ ~ (res.status = "new" /\ z < g))
    BY <1>2 DEF ParsesTo
  <2>2. CASE res.status = "new"
    BY <2>1, <2>2 DEF Later
  <2>3. CASE res.status = "more"
    BY <2>1, <2>3 DEF Later
  <2>4. CASE res.status \in {"mark", "notSpecified", "notFinished"}
    BY <2>1, <2>4 DEF Later
  <2> QED
    BY <2>2, <2>3, <2>4, <1>2
<1>6. z \in Nat /\ z <= g
  BY <1>1
<1>7. CutsTo(inp, r, p, l, L, s, k, K, d, res, e, g, z)
  BY <1>2, <1>6, ParseCuts
<1>8. /\ k.size = e + z /\ LinkedAt(inp, p, k, K)
      /\ s.cross # <<>> => p + (e + z) + Len(s.cross) = r.pos
      /\ p + (e + z) <= r.pos /\ CrossAt(s, p + (e + z))
      /\ z < g /\ res.status = "new" => s.cross # <<>>
  BY <1>7 DEF CutsTo
<1>9. r.pos <= Len(inp.kind) /\ r.pos \in Nat /\ inp.kind \in Seq(Kinds) /\ r.parsed \in Nat
  BY DEF StreamIs
<1>10. Parsed(inp, p, k, d)
  <2>1. d.status \in {"more", "new", "notFinished"} => m = z
    BY <1>2, <1>3
  <2>2. d.status \in {"mark", "notSpecified"} => /\ d.inPre = d.outPre + 1 /\ p + d.inPre <= Len(inp.kind)
                                                 /\ inp.kind[p + d.inPre] = IF d.status = "mark" THEN "end" ELSE "alien"
    <3>1. p + (e + z) <= Len(inp.kind)
      BY <1>1, <1>6, <1>8, <1>9
    <3>2. d.status \in {"mark", "notSpecified"} => e + z = (e + m) + 1
      BY <1>1, <1>2, <1>3, <1>6
    <3> QED
      BY <3>1, <3>2, <1>2, <1>3
  <2>3. d.status = "new" => d.inPre >= 1 /\ Begins(inp, p + d.inPre)
    BY <1>2, <1>3
  <2>4. d.status = "notFinished" => ~ inp.finish /\ p + d.outPre = inp.outSize
    BY <2>1, <1>2, <1>3
  <2> QED
    BY <2>1, <2>2, <2>3, <2>4, <1>2, <1>3, <1>8 DEF Parsed
<1>11. ASSUME d.status = "more"
       PROVE  s.cross = <<>> /\ p + k.size = s.pos /\ s.dry /\ s.parsed <= p + k.size
  <2>1. z = g /\ l.finish /\ s.parsed = r.parsed
    BY <1>3, <1>11
  <2>2. p + k.size = s.pos /\ r.parsed <= p + k.size
    BY <2>1, <1>1, <1>3, <1>8, <1>9
  <2> QED
    BY <2>1, <2>2, <1>1, <1>3, <1>11
<1>12. ASSUME d.status = "new"
       PROVE  p + k.size + Len(s.cross) = s.pos /\ s.cross # <<>> /\ s.parsed = p + k.size
  <2>1. z < g /\ s.parsed = r.parsed + (e + m) /\ m = z
    BY <1>2, <1>3, <1>12
  <2>2. r.parsed = p
    BY <2>1, <1>1, <1>6
  <2>3. s.cross # <<>>
    BY <2>1, <1>3, <1>8, <1>12
  <2> QED
    BY <2>1, <2>2, <2>3, <1>3, <1>8
<1>13. ParsedAt(inp, s, p, k, d, K)
  BY <1>4, <1>8, <1>10, <1>11, <1>12 DEF ParsedAt
<1> QED
  BY <1>3, <1>4, <1>5, <1>13 DEF HandAt

\* All of the link is the block's, and it goes on.
AllOf(res, z, g) == res.status = "more" /\ z = g

\* A block that goes on is read on (MtDec.c:505-520).
LEMMA ParseToRead ==
  ASSUME NEW inp, NEW r, NEW p \in Nat, NEW l, NEW c, NEW L \in Links, NEW e, NEW g,
         IsLocal(l), Parses(inp, r, p, l, c, L, e, g), InBufIs,
         NEW k, NEW s, NEW K, NEW d, NEW res,
         ParsesTo(l, k, r, s, L, K, d, res, e, g, FALSE),
         StreamIs(inp, r), NEW z \in 0 .. g, NEW m, Found(inp, p, e, res, z, m),
         AllOf(res, z, g), ~ l.finish
  PROVE  ReadAt(inp, s, p, k, d, K)
<1>0. res.status = "more" /\ z = g
  BY DEF AllOf
<1>1. /\ e \in Nat /\ g \in Nat /\ l.size = e + g /\ l.got = Units(p + e, g)
      /\ p + (e + g) = r.pos
      /\ e + g > 0 => Begins(inp, p) /\ r.parsed = p
      /\ l.links = 0 => e = 0
      /\ l.links # 0 => l.first >= 1 /\ FullLinks(L, p, l.first, e, l.links)
      /\ g >= 1 /\ (l.links # 0 => g = InBufSize)
      /\ l.links + 1 \in 1 .. Len(L) /\ L[l.links + 1] = l.got
  BY DEF Parses
<1>2. m = g /\ res.size = g /\ res.out = e + g /\ Chunks(inp, p, e + g)
  BY <1>0 DEF Found
<1>3. /\ d.status = "more" /\ d.inPre = e + g /\ d.outPre = e + g
      /\ s.parsed = r.parsed /\ s.cross = <<>> /\ s.pos = r.pos
      /\ k.needWrite /\ k.links = l.links + 1
      /\ k.first = (IF l.links = 0 THEN g ELSE l.first)
  BY <1>0, <1>1, <1>2 DEF ParsesTo
<1>4. ~ k.finish
  <2>1. k.finish <=> Later(res.status) \/ (l.finish /\ ~ (res.status = "new" /\ res.size < g))
    BY <1>0 DEF ParsesTo
  <2> QED
    BY <2>1, <1>0 DEF Later
<1>5. l.links \in Nat /\ l.first \in Nat
  BY DEF IsLocal
<1>6. g \in Nat /\ g <= g /\ res.status # "overflow"
  BY <1>0, <1>1
<1>7. CutsTo(inp, r, p, l, L, s, k, K, d, res, e, g, g)
  BY <1>2, <1>6, ParseCuts
<1>8. /\ K \in Links /\ k.size = e + g /\ k.links \in 1 .. Len(K)
      /\ K[k.links] = l.got /\ (l.links # 0 => K = L)
  BY <1>1, <1>7 DEF CutsTo
<1>9. e + g >= 1 /\ k.first >= 1 /\ Begins(inp, p) /\ s.parsed = p
  BY <1>1, <1>3
<1>10. MoreAt(inp, s, p, k, d, k.size)
  BY <1>2, <1>3, <1>8, <1>9 DEF MoreAt
<1>11. p + e \in Nat /\ Holds(l.got, p + e, g) /\ Len(l.got) = g
  <2>1. p + e \in Nat /\ g \in 0 .. g
    BY <1>1
  <2> QED
    BY <2>1, <1>1, UnitsHold, UnitsAre
<1>12. FullLinks(K, p, k.first, k.size, k.links)
  <2>1. CASE l.links = 0
    <3>1. LinkIs(K, 1, p, g)
      <4>1. e = 0 /\ k.links = 1 /\ p + e = p
        BY <2>1, <1>1, <1>3
      <4> QED
        BY <4>1, <1>8, <1>11 DEF LinkIs
    <3>2. FullLinks(K, p, g, g, 1)
      BY <3>1, <1>1, <1>8, FirstFull
    <3> QED
      BY <3>2, <2>1, <1>1, <1>3, <1>8
  <2>2. CASE l.links # 0
    <3>1. LinkIs(L, l.links + 1, p + e, InBufSize)
      BY <2>2, <1>1, <1>11 DEF LinkIs
    <3>2. FullLinks(L, p, l.first, e + InBufSize, l.links + 1)
      BY <3>1, <2>2, <1>1, <1>5, LinksMore
    <3> QED
      BY <3>2, <2>2, <1>1, <1>3, <1>8
  <2> QED
    BY <2>1, <2>2
<1>13. p + k.size = s.pos /\ k.links # 0
  BY <1>1, <1>3, <1>5, <1>8
<1> QED
  BY <1>3, <1>4, <1>10, <1>12, <1>13 DEF ReadAt

\* What parsing leaves of a link, in every case.
LEMMA ParseLaid ==
  ASSUME NEW inp, NEW r, NEW p \in Nat, NEW l, NEW c, NEW L \in Links, NEW e, NEW g,
         IsLocal(l), Parses(inp, r, p, l, c, L, e, g), InBufIs,
         NEW k, NEW s, NEW K, NEW d, NEW noCross \in BOOLEAN,
         StreamIs(inp, r), NEW res \in Parse(inp.kind, l.got, e, LimitOf(inp, r), PartialOf(inp, r)),
         ParsesTo(l, k, r, s, L, K, d, res, e, g, noCross)
  PROVE  IF res.status # "more" \/ l.finish THEN HandAt(inp, s, p, k, d, K)
         ELSE ReadAt(inp, s, p, k, d, K)
<1>1. PICK z \in 0 .. g : /\ res.size = z /\ (res.status = "more" => z = g)
                          /\ (res.status = "new" => z < g) /\ (res.status = "overflow" => g >= 1)
                          /\ res.status # "overflow" => \E m : Found(inp, p, e, res, z, m)
  BY ParseFinds
<1>2. CASE noCross = TRUE \/ res.status = "overflow"
  <2>1. res.status # "more" /\ g >= 1
    <3>1. noCross = TRUE => res.status = "new"
      BY DEF ParsesTo
    <3>2. g \in Nat
      BY DEF Parses
    <3> QED
      BY <3>1, <3>2, <1>1, <1>2
  <2>2. /\ s.cross = <<>> /\ s.pos = r.pos /\ K = L /\ k.size = l.size /\ k.first = l.first
        /\ k.alloc \/ k.over
        /\ k.finish
    <3>1. CASE res.status = "overflow"
      BY <3>1 DEF ParsesTo
    <3>2. CASE noCross = TRUE
      <4>1. res.status = "new" /\ ~ l.crossed
        BY <3>2 DEF ParsesTo
      <4> QED
        BY <3>2, <4>1 DEF ParsesTo
    <3> QED
      BY <3>1, <3>2, <1>2
  <2>3. inp.outSize \in Nat
    BY DEF StreamIs
  <2>4. WholeAt(inp, s, p, k, K)
    BY <2>1, <2>2, <2>3, ParseWhole
  <2> QED
    BY <2>1, <2>2, <2>4 DEF HandAt
<1>3. CASE noCross = FALSE /\ res.status # "overflow"
  <2>1. ParsesTo(l, k, r, s, L, K, d, res, e, g, FALSE)
    BY <1>3
  <2>2. PICK m : Found(inp, p, e, res, z, m)
    BY <1>1, <1>3
  <2>3. CASE res.status # "more" \/ l.finish
    <3>1. HandAt(inp, s, p, k, d, K)
      BY <2>1, <2>2, <2>3, <1>1, <1>3, ParseToHand
    <3> QED
      BY <3>1, <2>3
  <2>4. CASE ~ (res.status # "more" \/ l.finish)
    <3>1. AllOf(res, z, g) /\ ~ l.finish
      BY <2>4, <1>1 DEF AllOf
    <3>2. ReadAt(inp, s, p, k, d, K)
      BY <3>1, <2>1, <2>2, ParseToRead
    <3> QED
      BY <3>2, <2>4
  <2> QED
    BY <2>3, <2>4
<1> QED
  BY <1>2, <1>3

-----------------------------------------------------------------------------
(* What a single thread makes of the whole stream.                         *)

InputIs(inp) == inp.kind \in Seq(Kinds) /\ inp.outSize \in Nat /\ inp.finish \in BOOLEAN
IdealOf(inp) == Ideal(inp.kind, inp.outSize, inp.finish)
VerdictOf(inp) == Verdict(inp.kind, inp.outSize, inp.finish)
IdealTo(inp, m) ==
  DecodedTo(inp.kind, 0, Len(inp.kind), TRUE, inp.outSize, inp.finish, IdealOf(inp), m)

\* DecodeIs for any piece of a stream.
LEMMA DecodeAny ==
  \A kind, q, k, f, room, mark :
    q \in Nat /\ k \in Nat /\ DecodeHyp(kind, q, k) /\ f \in BOOLEAN /\ room \in Nat /\ mark \in BOOLEAN =>
      \E m \in 0 .. k : DecodedTo(kind, q, k, f, room, mark, Decode(kind, Units(q, k), f, room, mark), m)
BY DecodeIs

\* Decoding the whole stream stops behind some unit (Lzma2DecMt.c:637-797).
LEMMA IdealIs ==
  ASSUME NEW inp, InputIs(inp)
  PROVE  \E m \in 0 .. Len(inp.kind) : IdealTo(inp, m)
<1>1. inp.kind \in Seq(Kinds) /\ inp.outSize \in Nat /\ inp.finish \in BOOLEAN
  BY DEF InputIs
<1>2. Len(inp.kind) \in Nat
  BY <1>1
<1>3. [u \in 1 .. Len(inp.kind) |-> u] = Units(0, Len(inp.kind))
  BY <1>2 DEF Units
<1>4. DecodeHyp(inp.kind, 0, Len(inp.kind))
  BY <1>1, <1>2 DEF DecodeHyp
<1>5. IdealOf(inp) = Decode(inp.kind, Units(0, Len(inp.kind)), TRUE, inp.outSize, inp.finish)
  BY <1>3 DEF IdealOf, Ideal
<1>6. 0 \in Nat /\ TRUE \in BOOLEAN
  OBVIOUS
<1>7. \E m \in 0 .. Len(inp.kind) :
        DecodedTo(inp.kind, 0, Len(inp.kind), TRUE, inp.outSize, inp.finish,
                  Decode(inp.kind, Units(0, Len(inp.kind)), TRUE, inp.outSize, inp.finish), m)
  <2> DEFINE kind == inp.kind
             n == Len(inp.kind)
             o == inp.outSize
             f == inp.finish
  <2>1. n \in Nat /\ o \in Nat /\ f \in BOOLEAN /\ DecodeHyp(kind, 0, n)
    BY <1>1, <1>2, <1>4
  <2> HIDE DEF kind, n, o, f
  <2>2. \E m \in 0 .. n :
          DecodedTo(kind, 0, n, TRUE, o, f, Decode(kind, Units(0, n), TRUE, o, f), m)
    BY <1>6, <2>1, DecodeAny, Zenon
  <2> QED
    BY <2>2 DEF kind, n, o, f
<1> QED
  BY <1>5, <1>7 DEF IdealTo

\* What is known of the place where it stops.
LEMMA IdealFacts ==
  ASSUME NEW inp, InputIs(inp), NEW m, IdealTo(inp, m)
  PROVE  \E n, o \in Nat :
           /\ n = Len(inp.kind) /\ o = inp.outSize /\ m \in Nat /\ m <= n /\ m <= o
           /\ IdealOf(inp).out = Units(0, m)
           /\ \A u \in 1 .. m : inp.kind[u] \in {"head", "body"}
           /\ m > 0 => inp.kind[1] = "head"
           /\ IdealOf(inp).status \in {"full", "more", "mark", "error"}
           /\ IdealOf(inp).used = (IF IdealOf(inp).status = "mark" THEN m + 1 ELSE m)
           /\ IdealOf(inp).status = "full" => ~ inp.finish /\ m = o
           /\ IdealOf(inp).status # "full" => inp.finish \/ m < o
           /\ IdealOf(inp).status = "more" => m = n
           /\ IdealOf(inp).status \in {"mark", "error"} => m < n
           /\ IdealOf(inp).status = "mark" => inp.kind[m + 1] = "end"
           /\ IdealOf(inp).status = "error" =>
                /\ inp.kind[m + 1] # "end"
                /\ inp.kind[m + 1] \in {"bad", "alien"} \/ m = o \/ (m = 0 /\ inp.kind[1] # "head")
<1>1. PICK n \in Nat : n = Len(inp.kind)
  BY DEF InputIs
<1>2. PICK o \in Nat : o = inp.outSize
  BY DEF InputIs
<1>3. DecodedTo(inp.kind, 0, n, TRUE, o, inp.finish, IdealOf(inp), m)
  BY <1>1, <1>2 DEF IdealTo
<1>4. m \in 0 .. n
  BY <1>3 DEF DecodedTo
<1>5. m \in Nat /\ m <= n /\ 0 + m = m /\ 0 + 1 = 1 /\ 0 + m + 1 = m + 1
  BY <1>4
<1>6. /\ m <= o
      /\ IdealOf(inp).out = Units(0, m)
      /\ \A u \in 1 .. m : inp.kind[u] \in {"head", "body"}
      /\ m > 0 => inp.kind[1] = "head"
      /\ IdealOf(inp).status \in {"full", "more", "mark", "error"}
      /\ IdealOf(inp).used = (IF IdealOf(inp).status = "mark" THEN m + 1 ELSE m)
      /\ IdealOf(inp).status = "full" => ~ inp.finish /\ m = o
      /\ IdealOf(inp).status # "full" => inp.finish \/ m < o
      /\ IdealOf(inp).status = "more" => m = n
      /\ IdealOf(inp).status \in {"mark", "error"} => m < n
      /\ IdealOf(inp).status = "mark" => inp.kind[m + 1] = "end"
      /\ IdealOf(inp).status = "error" =>
           /\ inp.kind[m + 1] # "end"
           /\ inp.kind[m + 1] \in {"bad", "alien"} \/ m = o \/ (m = 0 /\ inp.kind[1] # "head")
  BY <1>3, <1>5 DEF DecodedTo
<1> QED
  BY <1>1, <1>2, <1>5, <1>6

\* No decoder gets further (Lzma2Dec.c:178-303).
LEMMA IdealSound ==
  ASSUME NEW inp, InputIs(inp), NEW m, IdealTo(inp, m), NEW k, Sound(inp, k)
  PROVE  k \in Nat /\ k <= m
<1>1. PICK n, o \in Nat :
           /\ n = Len(inp.kind) /\ o = inp.outSize /\ m \in Nat /\ m <= n /\ m <= o
           /\ IdealOf(inp).status \in {"full", "more", "mark", "error"}
           /\ IdealOf(inp).status = "full" => ~ inp.finish /\ m = o
           /\ IdealOf(inp).status = "more" => m = n
           /\ IdealOf(inp).status \in {"mark", "error"} => m < n
           /\ IdealOf(inp).status = "mark" => inp.kind[m + 1] = "end"
           /\ IdealOf(inp).status = "error" =>
                /\ inp.kind[m + 1] # "end"
                /\ inp.kind[m + 1] \in {"bad", "alien"} \/ m = o \/ (m = 0 /\ inp.kind[1] # "head")
  BY IdealFacts
<1>2. /\ k \in Nat /\ k <= n /\ k <= o
      /\ \A u \in 1 .. k : inp.kind[u] \in {"head", "body"}
      /\ k > 0 => inp.kind[1] = "head"
  BY <1>1 DEF Sound
<1>3. k > m => inp.kind[m + 1] \in {"head", "body"}
  BY <1>1, <1>2
<1> QED
  BY <1>1, <1>2, <1>3

\* A decoder with nothing left to do got as far.
LEMMA IdealComplete ==
  ASSUME NEW inp, InputIs(inp), NEW m, IdealTo(inp, m), NEW k, NEW ip, Complete(inp, k, ip)
  PROVE  m = k
<1>1. PICK n, o \in Nat :
           /\ n = Len(inp.kind) /\ o = inp.outSize /\ m \in Nat /\ m <= n /\ m <= o
           /\ \A u \in 1 .. m : inp.kind[u] \in {"head", "body"}
           /\ m > 0 => inp.kind[1] = "head"
  BY IdealFacts
<1>2. Sound(inp, k)
  BY DEF Complete
<1>3. k \in Nat /\ k <= m
  BY <1>2, IdealSound
<1>4. k < m => inp.kind[k + 1] \in {"head", "body"}
  BY <1>1, <1>3
<1>5. k < m => k < n /\ k < o /\ (k = 0 => inp.kind[1] = "head")
  BY <1>1, <1>3
<1>6. ASSUME k < m
      PROVE  FALSE
  <2>1. ~ Stuck(inp, k)
    BY <1>1, <1>3, <1>4, <1>5, <1>6 DEF Stuck
  <2> QED
    BY <2>1, <1>1, <1>3, <1>4, <1>5, <1>6 DEF Complete
<1> QED
  BY <1>1, <1>3, <1>6

\* What the verdict says of the place where decoding stops
\* (Lzma2Decoder.cpp:84-170).
LEMMA VerdictIs ==
  ASSUME NEW inp, InputIs(inp), NEW m, IdealTo(inp, m)
  PROVE  /\ VerdictOf(inp) \in {"good", "unmarked", "bad"}
         /\ VerdictOf(inp) = "good" =>
              \/ inp.finish /\ m + 1 = Len(inp.kind) /\ m = inp.outSize /\ inp.kind[m + 1] = "end"
              \/ ~ inp.finish /\ IdealOf(inp).status \in {"mark", "full"}
         /\ /\ inp.finish /\ m = inp.outSize
            /\ m = Len(inp.kind) \/ (m + 1 = Len(inp.kind) /\ inp.kind[m + 1] = "end")
            => VerdictOf(inp) # "bad"
<1>1. PICK n, o \in Nat :
           /\ n = Len(inp.kind) /\ o = inp.outSize /\ m \in Nat /\ m <= n /\ m <= o
           /\ IdealOf(inp).out = Units(0, m)
           /\ IdealOf(inp).status \in {"full", "more", "mark", "error"}
           /\ IdealOf(inp).used = (IF IdealOf(inp).status = "mark" THEN m + 1 ELSE m)
           /\ IdealOf(inp).status = "full" => ~ inp.finish /\ m = o
           /\ IdealOf(inp).status = "more" => m = n
           /\ IdealOf(inp).status \in {"mark", "error"} => m < n
           /\ IdealOf(inp).status = "mark" => inp.kind[m + 1] = "end"
           /\ IdealOf(inp).status = "error" => inp.kind[m + 1] # "end"
  BY IdealFacts
<1> DEFINE st == IdealOf(inp).status
<1>2. Len(IdealOf(inp).out) = m
  <2>1. 0 \in Nat
    OBVIOUS
  <2> QED
    BY <1>1, <2>1, UnitsAre
<1>3. VerdictOf(inp) =
        LET whole == IdealOf(inp).used = n /\ m = o
        IN CASE inp.finish /\ whole /\ st = "mark"     -> "good"
             [] inp.finish /\ whole /\ st = "more"     -> "unmarked"
             [] ~ inp.finish /\ st \in {"mark", "full"} -> "good"
             [] OTHER                                  -> "bad"
  BY <1>1, <1>2 DEF VerdictOf, Verdict, IdealOf
<1>4. inp.finish \in BOOLEAN
  BY DEF InputIs
<1>5. CASE inp.finish /\ IdealOf(inp).used = n /\ m = o /\ st = "mark"
  <2>1. VerdictOf(inp) = "good"
    BY <1>3, <1>5
  <2> QED
    BY <2>1, <1>1, <1>5
<1>6. CASE inp.finish /\ IdealOf(inp).used = n /\ m = o /\ st = "more"
  <2>1. VerdictOf(inp) = "unmarked"
    BY <1>3, <1>6
  <2> QED
    BY <2>1, <1>1, <1>6
<1>7. CASE ~ inp.finish /\ st \in {"mark", "full"}
  <2>1. VerdictOf(inp) = "good"
    BY <1>3, <1>7
  <2> QED
    BY <2>1, <1>1, <1>7
<1>8. CASE /\ ~ (inp.finish /\ IdealOf(inp).used = n /\ m = o /\ st \in {"mark", "more"})
           /\ ~ (~ inp.finish /\ st \in {"mark", "full"})
  <2>1. VerdictOf(inp) = "bad"
    BY <1>3, <1>8
  <2> QED
    BY <2>1, <1>1, <1>8
<1> QED
  BY <1>5, <1>6, <1>7, <1>8

\* Less than what decodes does so too.
LEMMA SoundLess ==
  ASSUME NEW inp, InputIs(inp), NEW k, NEW j \in Nat, Sound(inp, k), j <= k
  PROVE  Sound(inp, j)
<1>1. PICK n \in Nat : n = Len(inp.kind)
  BY DEF InputIs
<1> QED
  BY <1>1 DEF Sound, InputIs

\* And so do more chunks behind it.
LEMMA SoundMore ==
  ASSUME NEW inp, InputIs(inp), NEW k, NEW m \in Nat, Sound(inp, k),
         k + m <= Len(inp.kind), k + m <= inp.outSize,
         \A u \in k + 1 .. k + m : inp.kind[u] \in {"head", "body"},
         k = 0 /\ m > 0 => inp.kind[1] = "head"
  PROVE  Sound(inp, k + m)
<1>1. /\ k \in Nat /\ \A u \in 1 .. k : inp.kind[u] \in {"head", "body"}
      /\ k > 0 => inp.kind[1] = "head"
  BY DEF Sound
<1>2. \A u \in 1 .. k + m : inp.kind[u] \in {"head", "body"}
  BY <1>1
<1> QED
  BY <1>1, <1>2 DEF Sound

-----------------------------------------------------------------------------
(* Steps of the ring that neither write nor end anything.                  *)

\* What such a step of t leaves: the other threads, or one of them is started.
Calm(t) ==
  /\ main = "mt" /\ main' = "mt" /\ pc[t] # "write" /\ pc'[t] # "write"
  /\ \A u \in Thread \ {t} :
       /\ loc'[u] = loc[u] /\ coder'[u] = coder[u] /\ inBuf'[u] = inBuf[u]
       /\ pc'[u] = pc[u] \/ (~ IsBusy(pc[u]) /\ pc'[u] = "waitRead")
  /\ failed \subseteq failed' /\ (Over' <=> Over)
  /\ input' = input /\ result' = result /\ out' = out /\ fresh' = fresh
  /\ inProcessed' = inProcessed /\ wasInterrupted' = wasInterrupted /\ Flags' = Flags

\* What has failed stays failed.
LEMMA SettledMore ==
  ASSUME NEW inp, NEW k, NEW ip, NEW f, NEW g, f \subseteq g, Settled(inp, k, ip, f)
  PROVE  Settled(inp, k, ip, g)
BY DEF Settled

LEMMA WriteAtMore ==
  ASSUME NEW inp, NEW k, NEW ip, NEW b, NEW f, NEW g, NEW l, NEW c, f \subseteq g,
         WriteAt(inp, k, ip, b, f, l, c)
  PROVE  WriteAt(inp, k, ip, b, g, l, c)
BY SettledMore DEF WriteAt

\* A thread that has no block notes nothing (MtDec.c:253-262).
LEMMA NoteIdle ==
  ASSUME NEW at, NEW to, NEW l, NEW c, NEW b, NEW d, ~ IsBusy(at), ~ IsBusy(to), NoteAt(at, l, c, b)
  PROVE  NoteAt(to, l, c, d)
<1>1. /\ at \notin {"read", "parse", "hand", "code", "waitWrite", "write"} /\ ~ IsWork(at)
      /\ to \notin {"read", "parse", "hand", "code", "waitWrite", "write"} /\ ~ IsWork(to)
  BY DEF IsBusy, IsWork
<1> QED
  BY <1>1 DEF NoteAt

\* Such a step keeps what is known of the output, the writers and the caller
\* (MtDec.c:250-660).
LEMMA CalmContent ==
  ASSUME Content, NEW t \in Thread, Calm(t), NoteAt(pc'[t], loc'[t], coder'[t], wasInterrupted')
  PROVE  Output' /\ Writes' /\ Stopped' /\ Notes' /\ Single' /\ Outcome'
<1>1. /\ main = "mt" /\ main' = "mt" /\ pc[t] # "write" /\ pc'[t] # "write"
      /\ failed \subseteq failed' /\ (Over' <=> Over)
      /\ input' = input /\ out' = out
      /\ inProcessed' = inProcessed /\ wasInterrupted' = wasInterrupted /\ Flags' = Flags
  BY DEF Calm
<1>2. ASSUME NEW u \in Thread, u # t
      PROVE  /\ loc'[u] = loc[u] /\ coder'[u] = coder[u] /\ inBuf'[u] = inBuf[u]
             /\ pc'[u] = pc[u] \/ (~ IsBusy(pc[u]) /\ pc'[u] = "waitRead")
  BY <1>2 DEF Calm
<1>3. Output'
  BY <1>1 DEF Content, Output
<1>4. Writes'
  <2> SUFFICES ASSUME NEW u \in Thread, pc'[u] = "write", loc'[u].write
               PROVE  ~ Flags' /\ WriteAt(input', Len(out'), inProcessed', wasInterrupted', failed', loc'[u], coder'[u])
    BY DEF Writes
  <2>1. u # t
    BY <1>1
  <2>2. loc'[u] = loc[u] /\ coder'[u] = coder[u] /\ pc[u] = "write"
    BY <2>1, <1>2
  <2>3. ~ Flags /\ WriteAt(input, Len(out), inProcessed, wasInterrupted, failed, loc[u], coder[u])
    BY <2>2 DEF Content, Writes
  <2>4. WriteAt(input, Len(out), inProcessed, wasInterrupted, failed', loc[u], coder[u])
    BY <2>3, <1>1, WriteAtMore
  <2> QED
    BY <2>2, <2>3, <2>4, <1>1
<1>5. Stopped'
  <2> SUFFICES ASSUME ~ Flags', wasInterrupted' \/ Over'
               PROVE  \/ Settled(input', Len(out'), inProcessed', failed')
                      \/ \E u \in Thread : pc'[u] = "write" /\ loc'[u].write
    BY DEF Stopped
  <2>1. \/ Settled(input, Len(out), inProcessed, failed)
        \/ \E u \in Thread : pc[u] = "write" /\ loc[u].write
    BY <1>1 DEF Content, Stopped
  <2>2. CASE Settled(input, Len(out), inProcessed, failed)
    BY <2>2, <1>1, SettledMore
  <2>3. ASSUME NEW u \in Thread, pc[u] = "write", loc[u].write
        PROVE  pc'[u] = "write" /\ loc'[u].write
    <3>1. u # t /\ IsBusy(pc[u])
      BY <2>3, <1>1 DEF IsBusy
    <3> QED
      BY <3>1, <2>3, <1>2
  <2> QED
    BY <2>1, <2>2, <2>3
<1>6. Notes'
  <2> SUFFICES ASSUME NEW u \in Thread
               PROVE  NoteAt(pc'[u], loc'[u], coder'[u], wasInterrupted')
    BY DEF Notes
  <2>1. NoteAt(pc[u], loc[u], coder[u], wasInterrupted)
    BY DEF Content, Notes
  <2>2. CASE u = t
    BY <2>2
  <2>3. CASE u # t /\ pc'[u] = pc[u]
    BY <2>1, <2>3, <1>1, <1>2
  <2>4. CASE u # t /\ pc'[u] # pc[u]
    <3>1. ~ IsBusy(pc[u]) /\ pc'[u] = "waitRead" /\ loc'[u] = loc[u] /\ coder'[u] = coder[u]
      BY <2>4, <1>2
    <3>2. ~ IsBusy("waitRead")
      BY DEF IsBusy
    <3>3. NoteAt("waitRead", loc[u], coder[u], wasInterrupted)
      BY <2>1, <3>1, <3>2, NoteIdle
    <3> QED
      BY <3>1, <3>3, <1>1
  <2> QED
    BY <2>2, <2>3, <2>4
<1>7. Single' /\ Outcome'
  BY <1>1 DEF Single, Outcome
<1> QED
  BY <1>3, <1>4, <1>5, <1>6, <1>7

\* While one thread hands over, no other works (Lzma2DecMt.c:918-950).
LEMMA CalmFlagged ==
  ASSUME Sizes, NEW t \in Thread, Calm(t), IsBusy(pc[t]), progressRes # "ok" => progressRes' # "ok"
  PROVE  Flagged'
<1>1. main = "mt" /\ pc[t] # "write" /\ Flags' = Flags
  BY DEF Calm
<1>2. ~ (Flags /\ progressRes = "ok")
  BY <1>1 DEF Sizes, Handover
<1>3. ~ (Flags' /\ progressRes' = "ok")
  BY <1>1, <1>2
<1> QED
  BY <1>3 DEF Flagged

\* A thread that does not read has what it had when more has been read
\* (MtDec.c:300-395).
LEMMA LaidLater ==
  ASSUME NEW inp, NEW r, NEW s, r.pos \in Nat, s.pos \in Nat, r.pos <= s.pos, inp.kind \in Seq(Kinds),
         NEW Q \in Places, NEW R \in Places, NEW bi, NEW bj, NEW ip, NEW at, NEW l, NEW c, NEW L, NEW writes,
         l.block \in Nat, l.size \in Nat,
         at \notin {"read", "parse", "hand"}, ~ (l.finish /\ IsWork(at)),
         LaidAt(inp, r, Q, bi, ip, at, l, c, L, FALSE, writes),
         R[l.block] = Q[l.block], IsWork(at) => R[l.block + 1] = Q[l.block + 1],
         writes \/ at = "write" => IsBusy(at)
  PROVE  LaidAt(inp, s, R, bj, ip, at, l, c, L, FALSE, writes)
<1> DEFINE p == Q[l.block]
<1>1. p \in Nat
  BY DEF Places
<1> HIDE DEF p
<1>2. /\ writes \/ at = "write" => ip = p
      /\ IsWork(at) => MiddleAt(inp, r, p, l, c, L) /\ Q[l.block + 1] = p + l.size
      /\ at \in {"waitWrite", "write"} /\ l.needCode /\ ~ l.stop /\ ~ l.alloc => CodedAt(inp, p, l, c)
  BY DEF LaidAt, p
<1>3. ASSUME MiddleAt(inp, r, p, l, c, L)
      PROVE  MiddleAt(inp, s, p, l, c, L)
  <2>1. p + l.size <= r.pos
    BY <1>3 DEF MiddleAt
  <2>2. p + l.size <= s.pos
    BY <2>1, <1>1
  <2> QED
    BY <2>2, <1>3 DEF MiddleAt
<1>4. R[l.block] = p
  BY DEF p
<1>5. /\ writes \/ at = "write" => ip = IF IsBusy(at) THEN R[l.block] ELSE R[bj]
      /\ IsWork(at) => MiddleAt(inp, s, R[l.block], l, c, L) /\ R[l.block + 1] = R[l.block] + l.size
      /\ at \in {"waitWrite", "write"} /\ l.needCode /\ ~ l.stop /\ ~ l.alloc => CodedAt(inp, R[l.block], l, c)
  BY <1>2, <1>3, <1>4
<1> QED
  BY <1>5 DEF LaidAt

-----------------------------------------------------------------------------
(* How a step of the ring changes what there is of the blocks.             *)

LaidNow(Q, u) ==
  LaidAt(input, rd, Q, blockIndex, inProcessed, pc[u], loc[u], coder[u], inBuf[u], canRead[u], canWrite[u])

\* The blocks lie one after the other if they did before (MtDec.c:250-796).
LEMMA LayoutStep ==
  ASSUME Content, main = "mt", Told => Told', Over => Over', inProcessed' = inProcessed, out' = out,
         \A Q \in Places : Laid(Q) /\ ~ Told' /\ ~ Over' =>
           \E R \in Places : \A u \in Thread : LaidNow(R, u)'
  PROVE  Layout'
<1> SUFFICES ASSUME ~ Told', ~ Over'
             PROVE  inProcessed' = Len(out') /\ \E R \in Places : \A u \in Thread : LaidNow(R, u)'
  BY Zenon DEF Layout, Laid, LaidNow
<1>1. ~ Told /\ ~ Over
  OBVIOUS
<1>2. inProcessed = Len(out) /\ \E Q \in Places : Laid(Q)
  BY <1>1, Zenon DEF Content, Layout
<1>3. PICK Q \in Places : Laid(Q)
  BY <1>2, Zenon
<1>4. \E R \in Places : \A u \in Thread : LaidNow(R, u)'
  BY <1>3, Zenon
<1>5. inProcessed' = Len(out')
  BY <1>2
<1> QED
  BY <1>4, <1>5, Zenon

\* Beside the thread that reads the others are at work on whole blocks or wait
\* (MtDec.c:262-281, 581).
LEMMA OthersDoNotRead ==
  ASSUME Rights, Sizes, NEW t \in Thread, Reading(t), NEW u \in Thread \ {t}
  PROVE  /\ canRead[u] = FALSE /\ pc[u] \notin {"read", "parse", "hand"}
         /\ ~ (loc[u].finish /\ IsWork(pc[u]))
         /\ (canWrite[u] \/ pc[u] = "write" => IsBusy(pc[u]))
         /\ loc[u].block \in Nat /\ loc[u].size \in Nat /\ canWrite[u] \in BOOLEAN
<1>1. u \in Thread /\ u # t
  OBVIOUS
<1>2. ~ Reading(u)
  BY <1>1 DEF Rights, OneReads
<1>3. canRead[u] \in BOOLEAN /\ canWrite[u] \in BOOLEAN /\ loc[u].block \in Nat
  BY <1>1 DEF Rights, RingTypes
<1>4. loc[u].size \in Nat
  BY <1>1 DEF Sizes, ThreadTypes, IsLocal
<1>5. ~ canRead[u] /\ pc[u] \notin {"read", "parse", "hand"} /\ ~ (loc[u].finish /\ IsWork(pc[u]))
  BY <1>2 DEF Reading, IsWork
<1>6. Writing(u) => Busy(u)
  BY <1>1, <1>5 DEF Rights, OneWrites
<1>7. canWrite[u] \/ pc[u] = "write" => IsBusy(pc[u])
  BY <1>6 DEF Writing, Busy, IsBusy
<1> QED
  BY <1>3, <1>4, <1>5, <1>7

\* A step of the thread that reads (MtDec.c:285-520).
LEMMA ReaderLayout ==
  ASSUME Rights, Sizes, Content, NEW t \in Thread, Calm(t), pc[t] \in {"read", "parse"},
         \A u \in Thread \ {t} : pc'[u] = pc[u],
         blockIndex' = blockIndex, canRead' = canRead, canWrite' = canWrite,
         pos' \in Nat, pos <= pos', Told => Told',
         \A Q \in Places : LaidNow(Q, t) /\ ~ Told' /\ inProcessed = Len(out) => LaidNow(Q, t)'
  PROVE  Layout'
<1>1. /\ main = "mt" /\ (Over' <=> Over) /\ input' = input /\ out' = out /\ inProcessed' = inProcessed
  BY DEF Calm
<1>2. Reading(t)
  BY DEF Reading
<1>3. ASSUME NEW Q \in Places, Laid(Q), ~ Told', ~ Over'
      PROVE  \A u \in Thread : LaidNow(Q, u)'
  <2> SUFFICES ASSUME NEW u \in Thread
               PROVE  LaidNow(Q, u)'
    OBVIOUS
  <2>1. LaidNow(Q, u)
    BY <1>3, Zenon DEF Laid, LaidNow
  <2>2. CASE u = t
    <3>1. inProcessed = Len(out)
      BY <1>1, <1>3 DEF Content, Layout
    <3> QED
      BY <3>1, <2>1, <2>2, <1>3
  <2>3. CASE u # t
    <3>1. u \in Thread \ {t}
      BY <2>3
    <3>2. /\ canRead[u] = FALSE /\ pc[u] \notin {"read", "parse", "hand"}
          /\ ~ (loc[u].finish /\ IsWork(pc[u]))
          /\ (canWrite[u] \/ pc[u] = "write" => IsBusy(pc[u]))
          /\ loc[u].block \in Nat /\ loc[u].size \in Nat
      BY <3>1, <1>2, OthersDoNotRead
    <3>3. pc'[u] = pc[u] /\ loc'[u] = loc[u] /\ coder'[u] = coder[u] /\ inBuf'[u] = inBuf[u]
      BY <3>1 DEF Calm
    <3>4. input.kind \in Seq(Kinds)
      BY InputTypes DEF Sizes
    <3>5. rd.pos = pos /\ rd'.pos = pos' /\ pos \in Nat
      BY DEF rd, Sizes, ReaderTypes
    <3> HIDE DEF rd
    <3>6. LaidAt(input, rd, Q, blockIndex, inProcessed, pc[u], loc[u], coder[u], inBuf[u], FALSE, canWrite[u])
      BY <2>1, <3>2, Zenon DEF LaidNow
    <3>7. rd.pos \in Nat /\ rd'.pos \in Nat /\ rd.pos <= rd'.pos
      BY <3>5
    <3>8. LaidAt(input, rd', Q, blockIndex, inProcessed, pc[u], loc[u], coder[u], inBuf[u], FALSE, canWrite[u])
      BY <3>2, <3>4, <3>6, <3>7, LaidLater
    <3> QED
      BY <3>2, <3>3, <3>8, <1>1, Zenon DEF LaidNow
  <2> QED
    BY <2>2, <2>3
<1>4. ASSUME NEW Q \in Places, Laid(Q), ~ Told', ~ Over'
      PROVE  \E R \in Places : \A u \in Thread : LaidNow(R, u)'
  BY <1>3, <1>4, Zenon
<1>5. \A Q \in Places : Laid(Q) /\ ~ Told' /\ ~ Over' => \E R \in Places : \A u \in Thread : LaidNow(R, u)'
  BY <1>4, Zenon
<1>6. Over => Over'
  BY <1>1
<1> QED
  BY <1>1, <1>5, <1>6, LayoutStep, Zenon

\* What the thread that reads has of its block.
ReaderAt(inp, r, p, at, l, c, L) ==
  /\ at = "read" => ReadAt(inp, r, p, l, c, L)
  /\ at = "parse" => ParseAt(inp, r, p, l, c, L)
  /\ at = "hand" => HandAt(inp, r, p, l, c, L)
ReaderNow(p, t) == ReaderAt(input, rd, p, pc[t], loc[t], coder[t], inBuf[t])

\* A step of the thread that reads, which goes on with its block
\* (MtDec.c:285-520).
LEMMA ReaderStep ==
  ASSUME Rights, Sizes, Content, NEW t \in Thread, Calm(t), pc[t] \in {"read", "parse"},
         pc'[t] \in {"read", "parse", "hand"},
         \A u \in Thread \ {t} : pc'[u] = pc[u], loc'[t].block = loc[t].block,
         blockIndex' = blockIndex, canRead' = canRead, canWrite' = canWrite,
         pos' \in Nat, pos <= pos', Told => Told',
         \A p \in Nat : ReaderNow(p, t) /\ ~ Told' => ReaderNow(p, t)'
  PROVE  Layout'
<1>1. canRead[t] = FALSE
  <2>1. HasRead(t)
    BY DEF HasRead
  <2>2. canRead[t] \in BOOLEAN
    BY DEF Rights, RingTypes
  <2> QED
    BY <2>1, <2>2 DEF Rights, OneReads
<1>2. IsBusy(pc[t]) /\ IsBusy(pc'[t]) /\ ~ IsWork(pc[t]) /\ ~ IsWork(pc'[t])
  BY DEF IsBusy, IsWork
<1>3. loc[t].block \in Nat
  BY DEF Rights, RingTypes
<1>4. input' = input /\ inProcessed' = inProcessed
  BY DEF Calm
<1>5. ASSUME NEW Q \in Places, LaidNow(Q, t), ~ Told'
      PROVE  LaidNow(Q, t)'
  <2> HIDE DEF rd
  <2>0. Q[loc[t].block] \in Nat
    BY <1>3 DEF Places
  <2>1. PICK p \in Nat : p = Q[loc[t].block]
    BY <2>0
  <2>2. p = Q[loc'[t].block]
    BY <2>1
  <2>3. /\ canWrite[t] => inProcessed = p
        /\ pc[t] = "read" => ReadAt(input, rd, p, loc[t], coder[t], inBuf[t])
        /\ pc[t] = "parse" => ParseAt(input, rd, p, loc[t], coder[t], inBuf[t])
        /\ pc[t] = "hand" => HandAt(input, rd, p, loc[t], coder[t], inBuf[t])
    BY <2>1, <1>2, <1>5 DEF LaidNow, LaidAt
  <2>4. ReaderNow(p, t)
    BY <2>3, Zenon DEF ReaderNow, ReaderAt
  <2>5. ReaderNow(p, t)'
    BY <2>1, <2>4, <1>5
  <2>6. ReaderAt(input', rd', p, pc'[t], loc'[t], coder'[t], inBuf'[t])
    BY <2>5, Zenon DEF ReaderNow
  <2>7. /\ canWrite'[t] \/ pc'[t] = "write" => inProcessed' = p
        /\ canRead'[t] = FALSE
    BY <2>3, <1>1, <1>4
  <2>8. LaidAt(input', rd', Q, blockIndex', inProcessed', pc'[t], loc'[t], coder'[t], inBuf'[t], canRead'[t], canWrite'[t])
    <3>1. pc'[t] \notin {"waitWrite", "write"}
      OBVIOUS
    <3> QED
      BY <3>1, <2>2, <2>6, <2>7, <1>2, Zenon DEF LaidAt, ReaderAt
  <2> QED
    BY <2>8, Zenon DEF LaidNow
<1>6. \A Q \in Places : LaidNow(Q, t) /\ ~ Told' /\ inProcessed = Len(out) => LaidNow(Q, t)'
  BY <1>5, Zenon
<1> QED
  BY <1>6, ReaderLayout

\* Content is kept when the parts are that a quiet step can change.
LEMMA ContentIs ==
  ASSUME NEW t \in Thread, Content, Sizes, Calm(t),
         NoteAt(pc'[t], loc'[t], coder'[t], wasInterrupted'),
         DataTypes', Failures', Layout', Flagged'
  PROVE  Content'
<1>1. Output' /\ Writes' /\ Stopped' /\ Notes' /\ Single' /\ Outcome'
  BY CalmContent
<1> QED
  BY <1>1, Zenon DEF Content

\* What failed is known when only writing or the progress callback can fail
\* (MtDec.c:184-201).
LEMMA FailuresStay ==
  ASSUME Content, main = "mt", main' = "mt", result' = result, fresh' = fresh, readRes' = readRes,
         readWasFinished' = readWasFinished, pos' = pos, input' = input,
         progressRes' # "ok" => progressRes # "ok" \/ "progress" \in failed',
         failed \subseteq failed', failed' \subseteq failed \cup {"write", "progress"}
  PROVE  Failures'
<1>1. /\ failed \subseteq {"read", "write", "progress", "last"}
      /\ readRes = "read" <=> "read" \in failed
      /\ readRes = "read" => readWasFinished
      /\ readWasFinished => Dry
      /\ progressRes # "ok" => "progress" \in failed
      /\ "last" \notin failed
      /\ result = "none" /\ fresh
  BY DEF Content, Failures
<1>2. Dry' = Dry
  BY DEF Dry
<1> QED
  BY <1>1, <1>2 DEF Failures

\* A block whose link cannot be allocated is kept as it was read
\* (MtDec.c:306-318).
LEMMA LinkFails ==
  ASSUME NEW inp, inp.kind \in Seq(Kinds), inp.outSize \in Nat, NEW r, r.pos \in Nat, NEW p \in Nat,
         NEW l, IsLocal(l), NEW c, NEW L \in Links, InBufIs, ReadAt(inp, r, p, l, c, L),
         NEW k, k.finish, k.alloc, k.size = l.size, k.first = l.first
  PROVE  HandAt(inp, r, p, k, c, L)
<1>1. l.size \in Nat /\ l.first \in Nat /\ l.links \in Nat
  BY DEF IsLocal
<1>2. CASE l.links = 0
  <2>1. AtStart(inp, r, p) /\ l.size = 0
    BY <1>2 DEF ReadAt
  <2>2. p + k.size = p /\ k.size = 0
    BY <2>1
  <2>3. WholeAt(inp, r, p, k, L)
    BY <2>1, <2>2 DEF WholeAt, AtStart, LinkedAt
  <2> QED
    BY <2>3 DEF HandAt
<1>3. CASE l.links # 0
  <2>1. /\ r.cross = <<>> /\ p + l.size = r.pos /\ MoreAt(inp, r, p, l, c, l.size)
        /\ FullLinks(L, p, l.first, l.size, l.links)
    BY <1>3 DEF ReadAt
  <2>2. l.size >= 1 /\ Chunks(inp, p, l.size) /\ Begins(inp, p) /\ l.first >= 1
    BY <2>1 DEF MoreAt
  <2>3. p + l.size <= inp.outSize
    BY <2>2 DEF Chunks
  <2>4. p <= inp.outSize
    BY <2>3, <1>1
  <2>5. Linked(L, p, l.first, l.size)
    BY <2>1, <1>1, FullIsLinked
  <2>6. Len(<<>>) = 0
    OBVIOUS
  <2>7. p + l.size + Len(r.cross) = r.pos /\ p + l.size + Len(r.cross) <= r.pos
    BY <2>1, <2>6
  <2>8. CrossAt(r, p + l.size)
    BY <2>1, <2>6, <2>7 DEF CrossAt, Holds
  <2>9. WholeAt(inp, r, p, k, L)
    BY <2>2, <2>4, <2>5, <2>7, <2>8 DEF WholeAt, LinkedAt
  <2> QED
    BY <2>9 DEF HandAt
<1> QED
  BY <1>2, <1>3

-----------------------------------------------------------------------------
(* The steps of the reader. *)

\* The types of what a thread works with.
LEMMA TypesHere ==
  ASSUME Rights, Sizes, Content, NEW t \in Thread
  PROVE  /\ InBufIs /\ InputIs(input) /\ IsLocal(loc[t]) /\ IsCoder(coder[t])
         /\ DOMAIN loc[t] = LocFields /\ DOMAIN loc = Thread
         /\ inBuf[t] \in Links /\ inBuf \in [Thread -> Links]
         /\ pos \in Nat /\ rd.pos = pos /\ input.outSize \in Nat /\ loc[t].block \in Nat
         /\ pc \in [Thread -> ThreadPc] /\ DOMAIN coder = Thread
<1>1. InBufIs
  BY MtDecAssumption DEF InBufIs
<1>2. InputIs(input)
  BY InputTypes DEF Sizes, InputIs
<1>3. IsLocal(loc[t]) /\ IsCoder(coder[t]) /\ DOMAIN coder = Thread
  BY DEF Sizes, ThreadTypes
<1>4. DOMAIN loc[t] = LocFields /\ DOMAIN loc = Thread /\ loc[t].block \in Nat /\ pc \in [Thread -> ThreadPc]
  BY DEF Rights, RingTypes
<1>5. inBuf \in [Thread -> Links]
  BY DEF Content, DataTypes, Links
<1>6. pos \in Nat
  BY DEF Sizes, ReaderTypes
<1>7. rd.pos = pos
  BY DEF rd
<1> QED
  BY <1>1, <1>2, <1>3, <1>4, <1>5, <1>6, <1>7 DEF InputIs

\* A thread at work is in the ring (MtDec.c:1017-1084).
LEMMA BusyRuns ==
  ASSUME Rights, NEW t \in Thread, IsBusy(pc[t]) \/ canRead[t] \/ canWrite[t]
  PROVE  main = "mt"
BY DEF Rights, Clear, Runs, Busy, IsBusy

\* A link cannot be allocated: the block is kept as it was read
\* (MtDec.c:306-318).
LEMMA NoLinkContent ==
  ASSUME Rights, Sizes, Content, NEW t \in Thread, NoLink(t)
  PROVE  Content'
<1>1. /\ pc[t] = "read" /\ pc' = [pc EXCEPT ![t] = "hand"]
      /\ loc' = [loc EXCEPT ![t].finish = TRUE, ![t].alloc = TRUE]
      /\ main' = main /\ input' = input /\ result' = result /\ out' = out /\ failed' = failed
      /\ pos' = pos /\ readWasFinished' = readWasFinished /\ readRes' = readRes /\ blockIndex' = blockIndex
      /\ cross' = cross /\ outParsed' = outParsed /\ progressRes' = progressRes
      /\ wasInterrupted' = wasInterrupted /\ isAllocError' = isAllocError /\ overflow' = overflow
      /\ threadingError' = threadingError /\ exitThread' = exitThread /\ inProcessed' = inProcessed
      /\ canRead' = canRead /\ canWrite' = canWrite /\ inBuf' = inBuf /\ coder' = coder /\ fresh' = fresh
  BY DEF NoLink, Goto, callerVars, readerVars, csVars, writerVars, stVars
<1>2. /\ InBufIs /\ InputIs(input) /\ IsLocal(loc[t])
      /\ DOMAIN loc[t] = LocFields /\ DOMAIN loc = Thread /\ inBuf[t] \in Links
      /\ pos \in Nat /\ rd.pos = pos /\ pc \in [Thread -> ThreadPc]
  BY TypesHere
<1>3. main = "mt"
  BY <1>1, BusyRuns DEF IsBusy
<1>4. PICK k : k = loc'[t]
  OBVIOUS
<1>5. /\ k.finish /\ k.alloc /\ k.size = loc[t].size /\ k.first = loc[t].first
      /\ k.needCode = loc[t].needCode /\ k.needWrite = loc[t].needWrite /\ k.write = loc[t].write
      /\ k.over = loc[t].over /\ k.block = loc[t].block
  BY <1>1, <1>2, <1>4 DEF LocFields
<1>6. /\ pc'[t] = "hand" /\ \A u \in Thread \ {t} : pc'[u] = pc[u] /\ loc'[u] = loc[u]
  BY <1>1, <1>2
<1>7. Over' <=> Over
  <2>1. pc'[0] = "ended" <=> pc[0] = "ended"
    BY <1>1, <1>2, MtDecAssumption DEF Thread
  <2> QED
    BY <2>1, <1>1 DEF Over
<1>8. Flags' = Flags /\ (Told' <=> Told) /\ rd' = rd /\ Dry' = Dry
  BY <1>1 DEF Flags, Told, rd, Dry
<1>9. Calm(t)
  BY <1>1, <1>3, <1>6, <1>7, <1>8 DEF Calm
<1>10. NoteAt("hand", k, coder[t], wasInterrupted)
  <2>1. NoteAt("read", loc[t], coder[t], wasInterrupted)
    BY <1>1 DEF Content, Notes
  <2>2. ~ IsWork("hand")
    BY DEF IsWork
  <2> QED
    BY <2>1, <2>2, <1>5 DEF NoteAt
<1>11. DataTypes'
  BY <1>1 DEF Content, DataTypes
<1>12. Failures'
  BY <1>1, <1>3, FailuresStay
<1>13. Flagged'
  <2>1. IsBusy(pc[t])
    BY <1>1 DEF IsBusy
  <2> QED
    BY <2>1, <1>1, <1>9, CalmFlagged
<1>14. Layout'
  <2>1. ASSUME NEW p \in Nat, ReaderNow(p, t)
        PROVE  ReaderNow(p, t)'
    <3> HIDE DEF rd
    <3>1. ReadAt(input, rd, p, loc[t], coder[t], inBuf[t])
      BY <2>1, <1>1 DEF ReaderNow, ReaderAt
    <3>2. input.kind \in Seq(Kinds) /\ input.outSize \in Nat /\ rd.pos \in Nat
      BY <1>2 DEF InputIs
    <3>3. HandAt(input, rd, p, k, coder[t], inBuf[t])
      BY <3>1, <3>2, <1>2, <1>5, LinkFails
    <3>4. ReaderAt(input', rd', p, pc'[t], loc'[t], coder'[t], inBuf'[t])
      BY <3>3, <1>1, <1>4, <1>6, <1>8 DEF ReaderAt
    <3> QED
      BY <3>4, Zenon DEF ReaderNow
  <2>2. loc'[t].block = loc[t].block /\ pos' \in Nat /\ pos <= pos'
    BY <1>1, <1>2, <1>4, <1>5
  <2>3. pc[t] \in {"read", "parse"} /\ pc'[t] \in {"read", "parse", "hand"} /\ \A u \in Thread \ {t} : pc'[u] = pc[u]
    BY <1>1, <1>6
  <2>4. \A p \in Nat : ReaderNow(p, t) /\ ~ Told' => ReaderNow(p, t)'
    BY <2>1, Zenon
  <2>5. Told => Told'
    BY <1>8
  <2> QED
    BY <2>2, <2>3, <2>4, <2>5, <1>1, <1>9, ReaderStep
<1>15. NoteAt(pc'[t], loc'[t], coder'[t], wasInterrupted')
  BY <1>1, <1>4, <1>6, <1>10
<1> QED
  BY <1>9, <1>11, <1>12, <1>13, <1>14, <1>15, ContentIs, Zenon

\* The links after a thread put w into the next one.
LEMMA PutLinkIs ==
  ASSUME inBuf \in [Thread -> Links], NEW t \in Thread, NEW w, PutLink(t, w)
  PROVE  /\ inBuf'[t] = Put(inBuf[t], loc[t].links, w)
         /\ \A u \in Thread \ {t} : inBuf'[u] = inBuf[u]
         /\ inBuf' = [inBuf EXCEPT ![t] = Put(inBuf[t], loc[t].links, w)]
BY DEF PutLink, Put

\* The links keep their types.
LEMMA PutTypes ==
  ASSUME inBuf \in [Thread -> Links], NEW t \in Thread, NEW w \in Seq(Nat), PutLink(t, w),
         loc[t].links \in Nat
  PROVE  inBuf' \in [Thread -> Links]
<1>1. inBuf' = [inBuf EXCEPT ![t] = Put(inBuf[t], loc[t].links, w)]
  BY PutLinkIs
<1>2. Put(inBuf[t], loc[t].links, w) \in Links
  BY PutIs
<1> QED
  BY <1>1, <1>2

\* The first link of a block takes the cross block (MtDec.c:333-350).
LEMMA TakeCrossContent ==
  ASSUME Rights, Sizes, Content, NEW t \in Thread, TakeCross(t)
  PROVE  Content'
<1>1. /\ pc[t] = "read" /\ pc' = [pc EXCEPT ![t] = "parse"] /\ loc[t].links = 0 /\ cross # <<>>
      /\ loc' = [loc EXCEPT ![t].got = cross, ![t].crossed = TRUE, ![t].size = Len(cross),
                            ![t].first = Len(cross)]
      /\ PutLink(t, cross)
      /\ main' = main /\ input' = input /\ result' = result /\ out' = out /\ failed' = failed
      /\ pos' = pos /\ readWasFinished' = readWasFinished /\ readRes' = readRes /\ blockIndex' = blockIndex
      /\ cross' = cross /\ outParsed' = outParsed /\ progressRes' = progressRes
      /\ wasInterrupted' = wasInterrupted /\ isAllocError' = isAllocError /\ overflow' = overflow
      /\ threadingError' = threadingError /\ exitThread' = exitThread /\ inProcessed' = inProcessed
      /\ canRead' = canRead /\ canWrite' = canWrite /\ coder' = coder /\ fresh' = fresh
  BY DEF TakeCross, Goto, callerVars, faultVars, readerVars, csVars, writerVars, stVars
<1>2. /\ InBufIs /\ InputIs(input) /\ IsLocal(loc[t])
      /\ DOMAIN loc[t] = LocFields /\ DOMAIN loc = Thread /\ inBuf[t] \in Links /\ inBuf \in [Thread -> Links]
      /\ pos \in Nat /\ rd.pos = pos /\ pc \in [Thread -> ThreadPc]
  BY TypesHere
<1>3. main = "mt"
  BY <1>1, BusyRuns DEF IsBusy
<1>4. PICK k : k = loc'[t]
  OBVIOUS
<1>5. /\ k.got = cross /\ k.crossed = TRUE /\ k.size = Len(cross) /\ k.first = Len(cross)
      /\ k.links = loc[t].links /\ k.finish = loc[t].finish
      /\ k.needCode = loc[t].needCode /\ k.needWrite = loc[t].needWrite /\ k.write = loc[t].write
      /\ k.block = loc[t].block
  BY <1>1, <1>2, <1>4 DEF LocFields
<1>6. pc'[t] = "parse" /\ \A u \in Thread \ {t} : pc'[u] = pc[u] /\ loc'[u] = loc[u]
  BY <1>1, <1>2
<1>7. /\ inBuf'[t] = Put(inBuf[t], loc[t].links, cross)
      /\ \A u \in Thread \ {t} : inBuf'[u] = inBuf[u]
  BY <1>1, <1>2, PutLinkIs
<1>8. cross \in Seq(Nat) /\ loc[t].links \in Nat
  BY <1>1 DEF Sizes, ReaderTypes
<1>9. inBuf' \in [Thread -> Links]
  BY <1>1, <1>2, <1>8, PutTypes
<1>10. Over' <=> Over
  <2>1. pc'[0] = "ended" <=> pc[0] = "ended"
    BY <1>1, <1>2, MtDecAssumption DEF Thread
  <2> QED
    BY <2>1, <1>1 DEF Over
<1>11. Flags' = Flags /\ (Told' <=> Told) /\ rd' = rd /\ Dry' = Dry
  BY <1>1 DEF Flags, Told, rd, Dry
<1>12. Calm(t)
  BY <1>1, <1>3, <1>6, <1>7, <1>10, <1>11 DEF Calm
<1>13. NoteAt(pc'[t], loc'[t], coder'[t], wasInterrupted')
  <2>1. NoteAt("read", loc[t], coder[t], wasInterrupted)
    BY <1>1 DEF Content, Notes
  <2>2. ~ IsWork("parse")
    BY DEF IsWork
  <2>3. NoteAt("parse", k, coder[t], wasInterrupted)
    BY <2>1, <2>2, <1>5 DEF NoteAt
  <2> QED
    BY <2>3, <1>1, <1>4, <1>6
<1>14. DataTypes'
  BY <1>1, <1>9 DEF Content, DataTypes, Links
<1>15. Failures'
  BY <1>1, <1>3, FailuresStay
<1>16. Flagged'
  <2>1. IsBusy(pc[t])
    BY <1>1 DEF IsBusy
  <2> QED
    BY <2>1, <1>1, <1>12, CalmFlagged
<1>17. Layout'
  <2>1. ASSUME NEW p \in Nat, ReaderNow(p, t)
        PROVE  ReaderNow(p, t)'
    <3>0. rd.cross = cross
      BY DEF rd
    <3> HIDE DEF rd
    <3>1. ReadAt(input, rd, p, loc[t], coder[t], inBuf[t])
      BY <2>1, <1>1 DEF ReaderNow, ReaderAt
    <3>2. rd.pos \in Nat /\ rd.cross # <<>> /\ rd.cross \in Seq(Nat)
      BY <3>0, <1>1, <1>2, <1>8
    <3>3. /\ k.links = loc[t].links /\ k.got = rd.cross /\ k.crossed = TRUE /\ k.size = Len(rd.cross)
          /\ k.first = Len(rd.cross) /\ k.finish = loc[t].finish /\ k.needWrite = loc[t].needWrite
      BY <3>0, <1>5
    <3>4. ParseAt(input, rd, p, k, coder[t], Put(inBuf[t], loc[t].links, rd.cross))
      BY <3>1, <3>2, <3>3, <1>1, <1>2, CrossIsParsed
    <3>5. ReaderAt(input', rd', p, pc'[t], loc'[t], coder'[t], inBuf'[t])
      BY <3>0, <3>4, <1>1, <1>4, <1>6, <1>7, <1>11 DEF ReaderAt
    <3> QED
      BY <3>5, Zenon DEF ReaderNow
  <2>2. loc'[t].block = loc[t].block /\ pos' \in Nat /\ pos <= pos'
    BY <1>1, <1>2, <1>4, <1>5
  <2>3. pc[t] \in {"read", "parse"} /\ pc'[t] \in {"read", "parse", "hand"} /\ \A u \in Thread \ {t} : pc'[u] = pc[u]
    BY <1>1, <1>6
  <2>4. \A p \in Nat : ReaderNow(p, t) /\ ~ Told' => ReaderNow(p, t)'
    BY <2>1, Zenon
  <2>5. Told => Told'
    BY <1>11
  <2> QED
    BY <2>2, <2>3, <2>4, <2>5, <1>1, <1>12, ReaderStep
<1> QED
  BY <1>12, <1>13, <1>14, <1>15, <1>16, <1>17, ContentIs, Zenon

\* What reading n units does; e when reading failed, f when the progress
\* callback did.
ReadNow(t, e, f, n) ==
  /\ IF e THEN readRes = "read" => n = 0 ELSE n = Min({InBufSize, Rest})
  /\ f => n > 0 \/ loc[t].crossed
  /\ Failing(Count(e /\ readRes = "ok") + Count(f))
  /\ Fatal(Kind(e, "read") \cup Kind(f, "progress"))
  /\ Progress(f)
  /\ pos' = pos + n
  /\ readRes' = IF e THEN "read" ELSE readRes
  /\ LET finish == e \/ n # InBufSize
         stop   == (n > 0 \/ loc[t].crossed) /\ (progressRes' # "ok" \/ Interrupted(t))
     IN /\ readWasFinished' = (readWasFinished \/ finish)
        /\ PutLink(t, Units(pos, n))
        /\ loc' = [loc EXCEPT ![t].got = Units(pos, n), ![t].crossed = FALSE,
                              ![t].size = @ + n,
                              ![t].first = IF loc[t].links = 0 THEN n ELSE @,
                              ![t].finish = finish,
                              ![t].stop = @ \/ stop]
        /\ Goto(t, IF stop THEN "hand" ELSE "parse")

\* The same in terms of what is known afterwards.
ReadTo(t, e, f, n, finish, stop) ==
  /\ e \in BOOLEAN /\ f \in BOOLEAN /\ stop \in BOOLEAN /\ finish \in BOOLEAN
  /\ n \in Nat /\ n <= InBufSize /\ n <= Len(input.kind) - pos
  /\ finish <=> e \/ n # InBufSize
  /\ readRes = "read" => n = 0 /\ e
  /\ ~ e => n = InBufSize \/ pos + n = Len(input.kind)
  /\ failed' = failed \cup (Kind(e, "read") \cup Kind(f, "progress"))
  /\ progressRes' = (IF f THEN "progress" ELSE progressRes)
  /\ pos' = pos + n
  /\ readRes' = (IF e THEN "read" ELSE readRes)
  /\ readWasFinished' <=> readWasFinished \/ finish
  /\ PutLink(t, Units(pos, n))
  /\ loc'[t].got = Units(pos, n) /\ loc'[t].crossed = FALSE /\ loc'[t].size = loc[t].size + n
  /\ loc'[t].first = (IF loc[t].links = 0 THEN n ELSE loc[t].first)
  /\ loc'[t].finish = finish /\ loc'[t].links = loc[t].links /\ loc'[t].block = loc[t].block
  /\ loc'[t].needCode = loc[t].needCode /\ loc'[t].needWrite = loc[t].needWrite
  /\ loc'[t].write = loc[t].write /\ loc'[t].over = loc[t].over
  /\ stop => loc'[t].stop
  /\ \A u \in Thread \ {t} : loc'[u] = loc[u]
  /\ pc' = [pc EXCEPT ![t] = IF stop THEN "hand" ELSE "parse"]

\* A link is read up to its end, the end of the stream, or an error
\* (MtDec.c:352-395).
LEMMA ReadStreamIs ==
  ASSUME Rights, Sizes, Content, NEW t \in Thread, ReadStream(t)
  PROVE  \E e, f, n, finish, stop : ReadTo(t, e, f, n, finish, stop)
<1>1. PICK e \in (IF readRes = "read" THEN {TRUE} ELSE MayFail("read")), f \in MayFail("progress"),
           n \in 0 .. Min({InBufSize, Rest}) : ReadNow(t, e, f, n)
  BY Zenon DEF ReadStream, ReadNow
<1>2. e \in BOOLEAN /\ f \in BOOLEAN
  BY MayFailIs
<1>3. /\ InBufSize \in Nat /\ DOMAIN loc[t] = LocFields /\ DOMAIN loc = Thread /\ pos \in Nat
  BY TypesHere DEF InBufIs
<1>4. PICK rest \in Nat : rest = Rest /\ rest = Len(input.kind) - pos
  <2>1. Rest \in Nat
    <3>1. main = "mt"
      BY BusyRuns DEF ReadStream, IsBusy
    <3>2. pos <= Len(input.kind) /\ Len(input.kind) \in Nat
      BY <3>1, InputTypes DEF Sizes, ReaderTypes
    <3> QED
      BY <3>2, <1>3 DEF Rest
  <2> QED
    BY <2>1 DEF Rest
<1>5. Min({InBufSize, rest}) = IF InBufSize <= rest THEN InBufSize ELSE rest
  BY <1>3, MinOfTwo
<1>6. n \in Nat /\ n <= InBufSize /\ n <= rest
  BY <1>3, <1>4, <1>5
<1>7. readRes = "read" => e = TRUE
  BY <1>1
<1>8. /\ IF e THEN readRes = "read" => n = 0 ELSE n = Min({InBufSize, Rest})
      /\ failed' = failed \cup (Kind(e, "read") \cup Kind(f, "progress"))
      /\ progressRes' = (IF f THEN "progress" ELSE progressRes)
      /\ pos' = pos + n /\ readRes' = (IF e THEN "read" ELSE readRes)
      /\ readWasFinished' = (readWasFinished \/ (e \/ n # InBufSize))
      /\ PutLink(t, Units(pos, n))
  BY <1>1 DEF ReadNow, Fatal, Progress
<1>9. PICK stop \in BOOLEAN : stop <=> (n > 0 \/ loc[t].crossed) /\ (progressRes' # "ok" \/ Interrupted(t))
  OBVIOUS
<1>10. PICK finish \in BOOLEAN : finish <=> e \/ n # InBufSize
  OBVIOUS
<1>11. PICK h \in BOOLEAN : h <=> loc[t].stop \/ stop
  OBVIOUS
<1>12. /\ loc' = [loc EXCEPT ![t].got = Units(pos, n), ![t].crossed = FALSE,
                              ![t].size = @ + n,
                              ![t].first = IF loc[t].links = 0 THEN n ELSE @,
                              ![t].finish = (e \/ n # InBufSize),
                              ![t].stop = @ \/ ((n > 0 \/ loc[t].crossed) /\ (progressRes' # "ok" \/ Interrupted(t)))]
       /\ Goto(t, IF (n > 0 \/ loc[t].crossed) /\ (progressRes' # "ok" \/ Interrupted(t)) THEN "hand" ELSE "parse")
  BY <1>1, Zenon DEF ReadNow
<1>13. pc' = [pc EXCEPT ![t] = IF stop THEN "hand" ELSE "parse"]
  BY <1>9, <1>12 DEF Goto
<1>14. \A u \in Thread \ {t} : loc'[u] = loc[u]
  BY <1>12, <1>3
<1>15. loc'[t] = [loc[t] EXCEPT !.got = Units(pos, n), !.crossed = FALSE,
                              !.size = loc[t].size + n,
                              !.first = IF loc[t].links = 0 THEN n ELSE loc[t].first,
                              !.finish = finish,
                              !.stop = loc[t].stop \/ stop]
  BY <1>3, <1>9, <1>10, <1>12
<1>16. PICK k : k = loc'[t]
  OBVIOUS
<1>17. /\ k.got = Units(pos, n) /\ k.crossed = FALSE /\ k.size = loc[t].size + n
       /\ k.first = (IF loc[t].links = 0 THEN n ELSE loc[t].first)
       /\ k.finish = finish /\ k.links = loc[t].links /\ k.block = loc[t].block
       /\ k.needCode = loc[t].needCode /\ k.needWrite = loc[t].needWrite
       /\ k.write = loc[t].write /\ k.over = loc[t].over
       /\ k.stop = (loc[t].stop \/ stop)
  BY <1>3, <1>15, <1>16 DEF LocFields
<1>18. stop => k.stop
  BY <1>17
<1>19. readRes = "read" => n = 0 /\ e
  BY <1>7, <1>8
<1>20. ~ e => n = InBufSize \/ pos + n = Len(input.kind)
  <2>1. ~ e => n = InBufSize \/ n = rest
    BY <1>3, <1>4, <1>5, <1>8
  <2>2. rest = Len(input.kind) - pos /\ Len(input.kind) \in Nat
    BY <1>4, InputTypes DEF Sizes
  <2> QED
    BY <2>1, <2>2, <1>3
<1>21. n <= Len(input.kind) - pos
  BY <1>4, <1>6
<1>22. readWasFinished' <=> readWasFinished \/ finish
  BY <1>8, <1>10
<1> HIDE DEF Kind
<1>23. ReadTo(t, e, f, n, finish, stop)
  BY <1>2, <1>6, <1>8, <1>9, <1>10, <1>13, <1>14, <1>16, <1>17, <1>18, <1>19, <1>20, <1>21, <1>22, Zenon DEF ReadTo
<1> QED
  BY <1>23, Zenon

\* A link is read from the stream (MtDec.c:352-395).
LEMMA ReadStreamContent ==
  ASSUME Rights, Sizes, Content, NEW t \in Thread, ReadStream(t)
  PROVE  Content'
<1>1. /\ pc[t] = "read"
      /\ loc[t].links > 0 \/ cross = <<>>
      /\ main' = main /\ input' = input /\ result' = result /\ out' = out
      /\ blockIndex' = blockIndex /\ cross' = cross /\ outParsed' = outParsed
      /\ wasInterrupted' = wasInterrupted /\ isAllocError' = isAllocError /\ overflow' = overflow
      /\ threadingError' = threadingError /\ exitThread' = exitThread /\ inProcessed' = inProcessed
      /\ canRead' = canRead /\ canWrite' = canWrite /\ coder' = coder /\ fresh' = fresh
  BY DEF ReadStream, callerVars, writerVars, stVars
<1>2. /\ InBufIs /\ InputIs(input) /\ IsLocal(loc[t])
      /\ inBuf[t] \in Links /\ inBuf \in [Thread -> Links]
      /\ pos \in Nat /\ rd.pos = pos /\ pc \in [Thread -> ThreadPc]
  BY TypesHere
<1>3. main = "mt"
  BY <1>1, BusyRuns DEF IsBusy
<1>4. PICK e, f, n, finish, stop : ReadTo(t, e, f, n, finish, stop)
  BY ReadStreamIs
<1>5. /\ e \in BOOLEAN /\ f \in BOOLEAN /\ stop \in BOOLEAN /\ finish \in BOOLEAN
      /\ n \in Nat /\ n <= InBufSize /\ n <= Len(input.kind) - pos
      /\ finish <=> e \/ n # InBufSize
      /\ readRes = "read" => n = 0 /\ e
      /\ ~ e => n = InBufSize \/ pos + n = Len(input.kind)
      /\ failed' = failed \cup (Kind(e, "read") \cup Kind(f, "progress"))
      /\ progressRes' = (IF f THEN "progress" ELSE progressRes)
      /\ pos' = pos + n
      /\ readRes' = (IF e THEN "read" ELSE readRes)
      /\ readWasFinished' <=> readWasFinished \/ finish
      /\ PutLink(t, Units(pos, n))
      /\ \A u \in Thread \ {t} : loc'[u] = loc[u]
      /\ pc' = [pc EXCEPT ![t] = IF stop THEN "hand" ELSE "parse"]
  BY <1>4, Zenon DEF ReadTo
<1>6. PICK k : k = loc'[t]
  OBVIOUS
<1>7. /\ k.got = Units(pos, n) /\ k.crossed = FALSE /\ k.size = loc[t].size + n
      /\ k.first = (IF loc[t].links = 0 THEN n ELSE loc[t].first)
      /\ k.finish = finish /\ k.links = loc[t].links /\ k.block = loc[t].block
      /\ k.needCode = loc[t].needCode /\ k.needWrite = loc[t].needWrite
      /\ k.write = loc[t].write /\ k.over = loc[t].over
      /\ stop => k.stop
  BY <1>4, <1>6, Zenon DEF ReadTo
<1>8. pc'[t] = (IF stop THEN "hand" ELSE "parse") /\ \A u \in Thread \ {t} : pc'[u] = pc[u]
  BY <1>2, <1>5
<1>9. loc[t].links \in Nat
  BY <1>2 DEF IsLocal
<1>10. Units(pos, n) \in Seq(Nat)
  BY <1>2, <1>5, UnitsAre
<1>11. /\ inBuf'[t] = Put(inBuf[t], loc[t].links, Units(pos, n))
       /\ \A u \in Thread \ {t} : inBuf'[u] = inBuf[u]
  BY <1>2, <1>5, PutLinkIs
<1>12. inBuf' \in [Thread -> Links]
  BY <1>2, <1>5, <1>9, <1>10, PutTypes
<1>13. Over' <=> Over
  <2>1. pc'[0] = "ended" <=> pc[0] = "ended"
    BY <1>1, <1>2, <1>5, MtDecAssumption DEF Thread
  <2> QED
    BY <2>1, <1>1 DEF Over
<1>14. /\ Flags' = Flags /\ (Told => Told')
       /\ progressRes # "ok" => progressRes' # "ok"
  BY <1>1, <1>5 DEF Flags, Told
<1>15. failed \subseteq failed'
  BY <1>5
<1>16. Calm(t)
  BY <1>1, <1>3, <1>5, <1>8, <1>11, <1>13, <1>14, <1>15 DEF Calm
<1>17. NoteAt(pc'[t], loc'[t], coder'[t], wasInterrupted')
  <2>1. NoteAt("read", loc[t], coder[t], wasInterrupted)
    BY <1>1 DEF Content, Notes
  <2>2. ~ IsWork("parse") /\ ~ IsWork("hand")
    BY DEF IsWork
  <2>3. NoteAt(IF stop THEN "hand" ELSE "parse", k, coder[t], wasInterrupted)
    BY <2>1, <2>2, <1>7 DEF NoteAt
  <2> QED
    BY <2>3, <1>1, <1>6, <1>8
<1>18. DataTypes'
  BY <1>1, <1>12 DEF Content, DataTypes, Links
<1>19. Dry => n = 0
  BY <1>2, <1>5 DEF Dry
<1>20. finish \/ Dry => Dry'
  <2>1. Len(input.kind) \in Nat
    BY InputTypes DEF Sizes
  <2>2. e => readRes' = "read"
    BY <1>5
  <2>3. readRes = "read" => e
    BY <1>5
  <2>4. pos = Len(input.kind) => pos' = Len(input.kind)
    BY <2>1, <1>2, <1>5
  <2>5. finish /\ ~ e => pos' = Len(input.kind)
    BY <2>1, <1>2, <1>5
  <2> QED
    BY <2>2, <2>3, <2>4, <2>5, <1>1 DEF Dry
<1>21. Failures'
  <2>1. /\ failed \subseteq {"read", "write", "progress", "last"}
        /\ readRes = "read" <=> "read" \in failed
        /\ readRes = "read" => readWasFinished
        /\ readWasFinished => Dry
        /\ progressRes # "ok" => "progress" \in failed
        /\ "last" \notin failed
        /\ result = "none" /\ fresh
    BY <1>3 DEF Content, Failures
  <2>2. readRes' = "read" <=> "read" \in failed'
    BY <2>1, <1>5 DEF Kind
  <2>3. readRes' = "read" => readWasFinished'
    BY <2>1, <1>5
  <2>4. readWasFinished' => Dry'
    BY <2>1, <1>5, <1>20
  <2>5. /\ failed' \subseteq {"read", "write", "progress", "last"} /\ "last" \notin failed'
        /\ progressRes' # "ok" => "progress" \in failed'
    BY <2>1, <1>5 DEF Kind
  <2> QED
    BY <2>1, <2>2, <2>3, <2>4, <2>5, <1>1, <1>3 DEF Failures
<1>22. Flagged'
  <2>1. IsBusy(pc[t])
    BY <1>1 DEF IsBusy
  <2> QED
    BY <2>1, <1>14, <1>16, CalmFlagged
<1>23. Layout'
  <2>1. ASSUME NEW p \in Nat, ReaderNow(p, t)
        PROVE  ReaderNow(p, t)'
    <3>0. /\ rd.cross = cross /\ rd.parsed = outParsed /\ rd.dry = Dry
          /\ rd'.pos = pos' /\ rd'.cross = cross' /\ rd'.parsed = outParsed' /\ rd'.dry = Dry'
      BY DEF rd
    <3> HIDE DEF rd
    <3>1. CASE stop
      <4>1. HandAt(input', rd', p, k, coder'[t], inBuf'[t])
        BY <3>1, <1>7 DEF HandAt
      <4>2. ReaderAt(input', rd', p, pc'[t], loc'[t], coder'[t], inBuf'[t])
        BY <3>1, <4>1, <1>6, <1>8 DEF ReaderAt
      <4> QED
        BY <4>2, Zenon DEF ReaderNow
    <3>2. CASE ~ stop
      <4>1. ReadAt(input, rd, p, loc[t], coder[t], inBuf[t])
        BY <2>1, <1>1 DEF ReaderNow, ReaderAt
      <4>2. ReadsLink(loc[t], k, n, Units(rd.pos, n), finish)
        BY <1>2, <1>7 DEF ReadsLink
      <4>3. /\ loc[t].links > 0 \/ rd.cross = <<>>
            /\ rd.pos \in Nat /\ (rd.dry => n = 0) /\ rd'.pos = rd.pos + n /\ rd'.cross = rd.cross
            /\ rd'.parsed = rd.parsed /\ (finish => rd'.dry) /\ (~ finish => n = InBufSize)
        BY <3>0, <1>1, <1>2, <1>5, <1>19, <1>20
      <4>4. ParseAt(input, rd', p, k, coder[t], Put(inBuf[t], loc[t].links, Units(rd.pos, n)))
        BY <4>1, <4>2, <4>3, <1>2, <1>5, ReadIsParsed
      <4>5. ParseAt(input', rd', p, k, coder'[t], inBuf'[t])
        BY <4>4, <1>1, <1>2, <1>11
      <4>6. ReaderAt(input', rd', p, pc'[t], loc'[t], coder'[t], inBuf'[t])
        BY <3>2, <4>5, <1>6, <1>8 DEF ReaderAt
      <4> QED
        BY <4>6, Zenon DEF ReaderNow
    <3> QED
      BY <3>1, <3>2
  <2>2. loc'[t].block = loc[t].block /\ pos' \in Nat /\ pos <= pos'
    BY <1>2, <1>5, <1>6, <1>7
  <2>3. pc[t] \in {"read", "parse"} /\ pc'[t] \in {"read", "parse", "hand"} /\ \A u \in Thread \ {t} : pc'[u] = pc[u]
    BY <1>1, <1>5, <1>8
  <2>4. \A p \in Nat : ReaderNow(p, t) /\ ~ Told' => ReaderNow(p, t)'
    BY <2>1, Zenon
  <2> QED
    BY <2>2, <2>3, <2>4, <1>1, <1>14, <1>16, ReaderStep
<1> QED
  BY <1>16, <1>17, <1>18, <1>21, <1>22, <1>23, ContentIs, Zenon

-----------------------------------------------------------------------------
(* The step that parses a link. *)

\* A link is replaced by another sequence of units.
LEMMA SetLinkType ==
  ASSUME NEW L \in Links, NEW i, NEW w \in Seq(Nat)
  PROVE  SetLink(L, i, w) \in Links
<1>1. L \in Seq(Seq(Nat))
  BY DEF Links
<1>2. CASE i \in 1 .. Len(L)
  <2>1. [L EXCEPT ![i] = w] \in Seq(Seq(Nat))
    BY <1>1, <1>2, ExceptSeq
  <2> QED
    BY <2>1 DEF Links, SetLink
<1>3. CASE i \notin 1 .. Len(L)
  <2>1. DOMAIN L = 1 .. Len(L) /\ L = [j \in DOMAIN L |-> L[j]]
    BY <1>1
  <2>2. [L EXCEPT ![i] = w] = L
    BY <2>1, <1>3
  <2> QED
    BY <2>2 DEF SetLink
<1> QED
  BY <1>2, <1>3

\* The links of a thread after a link with the locals l was parsed to res.
LinksTo(l, L, res) ==
  IF l.crossed /\ res.status # "overflow" THEN SetLink(L, 1, SubSeq(l.got, 1, res.size)) ELSE L

\* The locals l become k.
ParsedLocals(l, k, res, noCross) ==
  LET over  == res.status = "overflow"
      spare == res.status = "new" /\ res.size < Len(l.got)
      after == SubSeq(l.got, res.size + 1, Len(l.got))
  IN /\ k.needWrite = TRUE /\ k.links = l.links + 1
     /\ k.over <=> over
     /\ k.alloc <=> noCross
     /\ k.needCode <=> ~ over /\ (res.status # "more" \/ l.finish)
     /\ k.finish <=> over \/ noCross \/ Later(res.status) \/ (l.finish /\ ~ spare)
     /\ k.size = (IF over \/ noCross THEN l.size ELSE l.size - Len(after))
     /\ k.first = (IF l.links = 0 /\ ~ over /\ ~ noCross THEN res.size ELSE l.first)
     /\ k.block = l.block /\ k.write = l.write

\* What the coder has of the block so far is old; it becomes d.
ParsedCoder(old, d, res) ==
  /\ d.status = res.status /\ d.inPre = old.inPre + res.size
  /\ d.outPre = (IF res.status = "overflow" THEN old.outPre ELSE res.out)
  /\ d.data = <<>> /\ d.used = 0

\* The reader keeps what is not the block's.
ParsedReader(l, res, noCross) ==
  LET over  == res.status = "overflow"
      cuts  == res.size < Len(l.got)
      spare == res.status = "new" /\ cuts
      after == SubSeq(l.got, res.size + 1, Len(l.got))
  IN /\ noCross => spare /\ ~ l.crossed
     /\ outParsed' = (IF res.status \in {"more", "overflow"} THEN outParsed ELSE outParsed + res.out)
     /\ cross' = (IF (spare /\ ~ noCross) \/ (l.crossed /\ cuts /\ ~ over) THEN after ELSE <<>>)

OldOf(l, c) == IF l.links = 0 THEN NoCoder ELSE c
PlaceTo(l, res) == IF res.status # "more" \/ l.finish THEN "hand" ELSE "read"

ParseTo(t, l, k, c, d, res, noCross) ==
  /\ l = loc[t] /\ k = loc'[t] /\ c = coder[t] /\ d = coder'[t] /\ noCross \in BOOLEAN
  /\ res \in Parse(input.kind, l.got, OldOf(l, c).outPre, Limit, Partial)
  /\ ParsedLocals(l, k, res, noCross) /\ ParsedCoder(OldOf(l, c), d, res) /\ ParsedReader(l, res, noCross)
  /\ inBuf' = [inBuf EXCEPT ![t] = LinksTo(l, inBuf[t], res)]
  /\ pc' = [pc EXCEPT ![t] = PlaceTo(l, res)]
  /\ \A u \in Thread \ {t} : loc'[u] = loc[u] /\ coder'[u] = coder[u]

\* ParsedTo and what becomes of the links, as the action has it.
ParseNow(t, l, old, r, noCross) ==
  LET part  == r.size < Len(l.got)
      ends  == r.status \in {"mark", "notSpecified", "notFinished"}
      stop  == r.status # "more" \/ l.finish
      after == SubSeq(l.got, r.size + 1, Len(l.got))
      toCross == r.status = "new" /\ part
  IN /\ noCross => toCross /\ ~ l.crossed /\ ~ crossBlock
     /\ Failing(Count(noCross))
     /\ coder' = [coder EXCEPT ![t] =
          [status |-> r.status, inPre |-> old.inPre + r.size,
           outPre |-> IF r.status = "overflow" THEN old.outPre ELSE r.out,
           data |-> <<>>, used |-> 0]]
     /\ outParsed' = IF r.status \in {"more", "overflow"} THEN outParsed
                     ELSE outParsed + r.out
     /\ cross' = IF \/ toCross /\ ~ noCross
                    \/ l.crossed /\ part /\ r.status # "overflow"
                   THEN after ELSE <<>>
     /\ crossBlock' = (crossBlock \/ (toCross /\ ~ l.crossed /\ ~ noCross))
     /\ inBuf' = IF l.crossed /\ r.status # "overflow"
                   THEN [inBuf EXCEPT ![t] = SetLink(@, 1, SubSeq(l.got, 1, r.size))]
                   ELSE inBuf
     /\ loc' = [loc EXCEPT ![t] =
          [l EXCEPT !.needWrite = TRUE, !.got = <<>>,
                    !.links = @ + 1,
                    !.over = r.status = "overflow",
                    !.alloc = noCross,
                    !.needCode = r.status # "overflow" /\ stop,
                    !.finish = r.status = "overflow" \/ noCross \/ ends
                               \/ (@ /\ ~ toCross),
                    !.size = IF r.status = "overflow" \/ noCross THEN @
                             ELSE @ - Len(after),
                    !.first = IF l.links = 0 /\ r.status # "overflow" /\ ~ noCross
                                THEN r.size ELSE @]]
     /\ Goto(t, IF stop THEN "hand" ELSE "read")

\* What parsing a link does (MtDec.c:397-524).
LEMMA ParseLinkIs ==
  ASSUME Rights, Sizes, Content, NEW t \in Thread, ParseLink(t)
  PROVE  \E l, k, c, d, res, noCross : ParseTo(t, l, k, c, d, res, noCross)
<1>1. PICK l : l = loc[t]
  OBVIOUS
<1>2. PICK c : c = coder[t]
  OBVIOUS
<1>3. PICK old : old = (IF l.links = 0 THEN NoCoder ELSE c)
  OBVIOUS
<1>4. PICK res \in Parse(input.kind, l.got, old.outPre, Limit, Partial), noCross \in MayFail("memory") :
        ParseNow(t, l, old, res, noCross)
  <2>1. \E r \in Parse(input.kind, loc[t].got, (IF loc[t].links = 0 THEN NoCoder ELSE coder[t]).outPre, Limit, Partial),
          no \in MayFail("memory") :
             ParseNow(t, loc[t], IF loc[t].links = 0 THEN NoCoder ELSE coder[t], r, no)
    BY Zenon DEF ParseLink, ParseNow
  <2> QED
    BY <2>1, <1>1, <1>2, <1>3
<1>5. noCross \in BOOLEAN
  BY <1>4, MayFailIs
<1>6. /\ DOMAIN l = LocFields /\ DOMAIN loc = Thread /\ inBuf \in [Thread -> Links] /\ DOMAIN coder = Thread
      /\ IsLocal(l)
  BY <1>1, TypesHere
<1>8. ParsedReader(l, res, noCross)
  <2>1. /\ noCross => (res.status = "new" /\ res.size < Len(l.got)) /\ ~ l.crossed
        /\ outParsed' = (IF res.status \in {"more", "overflow"} THEN outParsed ELSE outParsed + res.out)
        /\ cross' = (IF (res.status = "new" /\ res.size < Len(l.got) /\ ~ noCross)
                        \/ (l.crossed /\ res.size < Len(l.got) /\ res.status # "overflow")
                     THEN SubSeq(l.got, res.size + 1, Len(l.got)) ELSE <<>>)
    BY <1>4 DEF ParseNow
  <2> QED
    BY <2>1 DEF ParsedReader
<1>9. coder' = [coder EXCEPT ![t] =
                 [status |-> res.status, inPre |-> old.inPre + res.size,
                  outPre |-> IF res.status = "overflow" THEN old.outPre ELSE res.out,
                  data |-> <<>>, used |-> 0]]
  BY <1>4 DEF ParseNow
<1>10. PICK d : d = coder'[t]
  OBVIOUS
<1>11. ParsedCoder(OldOf(l, c), d, res)
  <2>1. d = [status |-> res.status, inPre |-> old.inPre + res.size,
             outPre |-> IF res.status = "overflow" THEN old.outPre ELSE res.out,
             data |-> <<>>, used |-> 0]
    BY <1>6, <1>9, <1>10
  <2>2. old = OldOf(l, c)
    BY <1>3 DEF OldOf
  <2> QED
    BY <2>1, <2>2 DEF ParsedCoder
<1>12. PICK over \in BOOLEAN : over <=> res.status = "overflow"
  OBVIOUS
<1>13. PICK goes \in BOOLEAN : goes <=> res.status # "more" \/ l.finish
  OBVIOUS
<1>14. PICK needs \in BOOLEAN : needs <=> ~ over /\ goes
  OBVIOUS
<1>15. PICK ends \in BOOLEAN : ends <=> \/ over \/ noCross \/ Later(res.status)
                                        \/ l.finish /\ ~ (res.status = "new" /\ res.size < Len(l.got))
  OBVIOUS
<1>16. PICK k : k = loc'[t]
  OBVIOUS
<1>17. k = [l EXCEPT !.needWrite = TRUE, !.got = <<>>, !.links = l.links + 1,
                     !.over = over, !.alloc = noCross, !.needCode = needs, !.finish = ends,
                     !.size = IF over \/ noCross THEN l.size
                              ELSE l.size - Len(SubSeq(l.got, res.size + 1, Len(l.got))),
                     !.first = IF l.links = 0 /\ ~ over /\ ~ noCross THEN res.size ELSE l.first]
  <2>1. loc' = [loc EXCEPT ![t] =
          [l EXCEPT !.needWrite = TRUE, !.got = <<>>,
                    !.links = @ + 1,
                    !.over = res.status = "overflow",
                    !.alloc = noCross,
                    !.needCode = res.status # "overflow" /\ (res.status # "more" \/ l.finish),
                    !.finish = res.status = "overflow" \/ noCross
                               \/ res.status \in {"mark", "notSpecified", "notFinished"}
                               \/ (@ /\ ~ (res.status = "new" /\ res.size < Len(l.got))),
                    !.size = IF res.status = "overflow" \/ noCross THEN @
                             ELSE @ - Len(SubSeq(l.got, res.size + 1, Len(l.got))),
                    !.first = IF l.links = 0 /\ res.status # "overflow" /\ ~ noCross
                                THEN res.size ELSE @]]
    BY <1>4 DEF ParseNow
  <2>2. ends <=> (res.status = "overflow" \/ noCross
                               \/ res.status \in {"mark", "notSpecified", "notFinished"}
                               \/ (l.finish /\ ~ (res.status = "new" /\ res.size < Len(l.got))))
    BY <1>12, <1>15 DEF Later
  <2>3. needs <=> (res.status # "overflow" /\ (res.status # "more" \/ l.finish))
    BY <1>12, <1>13, <1>14
  <2> QED
    BY <2>1, <2>2, <2>3, <1>6, <1>12, <1>16 DEF LocFields
<1>18. /\ k.needWrite = TRUE /\ k.links = l.links + 1 /\ k.over = over /\ k.alloc = noCross
       /\ k.needCode = needs /\ k.finish = ends
       /\ k.size = (IF over \/ noCross THEN l.size
                    ELSE l.size - Len(SubSeq(l.got, res.size + 1, Len(l.got))))
       /\ k.first = (IF l.links = 0 /\ ~ over /\ ~ noCross THEN res.size ELSE l.first)
       /\ k.block = l.block /\ k.write = l.write
  BY <1>6, <1>17 DEF LocFields
<1>19. ParsedLocals(l, k, res, noCross)
  <2>1. k.needCode <=> res.status # "overflow" /\ (res.status # "more" \/ l.finish)
    BY <1>12, <1>13, <1>14, <1>18
  <2>2. k.finish <=> \/ res.status = "overflow" \/ noCross \/ Later(res.status)
                     \/ l.finish /\ ~ (res.status = "new" /\ res.size < Len(l.got))
    BY <1>12, <1>15, <1>18
  <2>3. (k.over <=> res.status = "overflow") /\ (k.alloc <=> noCross)
    BY <1>12, <1>18
  <2>4. /\ k.size = (IF res.status = "overflow" \/ noCross THEN l.size
                     ELSE l.size - Len(SubSeq(l.got, res.size + 1, Len(l.got))))
        /\ k.first = (IF l.links = 0 /\ res.status # "overflow" /\ ~ noCross THEN res.size ELSE l.first)
    BY <1>12, <1>18
  <2> QED
    BY <2>1, <2>2, <2>3, <2>4, <1>18, Zenon DEF ParsedLocals
<1>20. inBuf' = [inBuf EXCEPT ![t] = LinksTo(l, inBuf[t], res)]
  <2>1. inBuf' = (IF l.crossed /\ res.status # "overflow"
                    THEN [inBuf EXCEPT ![t] = SetLink(inBuf[t], 1, SubSeq(l.got, 1, res.size))]
                    ELSE inBuf)
    BY <1>4 DEF ParseNow
  <2> QED
    BY <2>1, <1>6 DEF LinksTo
<1>21. pc' = [pc EXCEPT ![t] = PlaceTo(l, res)]
  BY <1>4 DEF ParseNow, Goto, PlaceTo
<1>22. \A u \in Thread \ {t} : loc'[u] = loc[u] /\ coder'[u] = coder[u]
  BY <1>6, <1>4 DEF ParseNow
<1>23. res \in Parse(input.kind, l.got, OldOf(l, c).outPre, Limit, Partial)
  BY <1>3, <1>4 DEF OldOf
<1>24. ParseTo(t, l, k, c, d, res, noCross)
  BY <1>1, <1>2, <1>5, <1>8, <1>10, <1>11, <1>16, <1>19, <1>20, <1>21, <1>22, <1>23, Zenon DEF ParseTo
<1> QED
  BY <1>24, Zenon

\* The step is the one that ParsesTo speaks of.
LEMMA ParsesToIs ==
  ASSUME NEW l, NEW k, NEW d, NEW res, NEW noCross \in BOOLEAN, NEW old, NEW L, NEW r, NEW s, NEW e, NEW g \in Nat,
         ParsedLocals(l, k, res, noCross), ParsedCoder(old, d, res), ParsedReader(l, res, noCross),
         r.parsed = outParsed, s.parsed = outParsed', s.cross = cross', s.pos = r.pos, s.dry = r.dry,
         l.got \in Seq(Nat), Len(l.got) = g, res.size \in 0 .. g, old.outPre = e, old.inPre = e
  PROVE  ParsesTo(l, k, r, s, L, LinksTo(l, L, res), d, res, e, g, noCross)
<1>1. Len(SubSeq(l.got, res.size + 1, Len(l.got))) = g - res.size
  <2>1. PICK z \in 0 .. g : z = res.size
    OBVIOUS
  <2>2. z \in Nat /\ z + 1 \in Nat
    BY <2>1
  <2>3. \A i \in z + 1 .. g : i \in 1 .. Len(l.got)
    BY <2>1
  <2>4. Len(SubSeq(l.got, z + 1, g)) = g - z
    BY <2>1, <2>2, <2>3, SubSeqProperties
  <2> QED
    BY <2>1, <2>4
<1>2. /\ noCross => (res.status = "new" /\ res.size < g) /\ ~ l.crossed
      /\ s.parsed = (IF res.status \in {"more", "overflow"} THEN r.parsed ELSE r.parsed + res.out)
      /\ s.cross = (IF (res.status = "new" /\ res.size < g /\ ~ noCross)
                       \/ (l.crossed /\ res.size < g /\ res.status # "overflow")
                    THEN SubSeq(l.got, res.size + 1, g) ELSE <<>>)
  BY DEF ParsedReader
<1>3. /\ d.status = res.status /\ d.inPre = e + res.size
      /\ d.outPre = (IF res.status = "overflow" THEN e ELSE res.out)
  BY DEF ParsedCoder
<1>4. /\ k.needWrite /\ k.links = l.links + 1
      /\ (k.over <=> res.status = "overflow") /\ (k.alloc <=> noCross)
      /\ k.needCode <=> ~ (res.status = "overflow") /\ (res.status # "more" \/ l.finish)
      /\ k.finish <=> \/ res.status = "overflow" \/ noCross \/ Later(res.status)
                      \/ l.finish /\ ~ (res.status = "new" /\ res.size < g)
      /\ k.size = (IF res.status = "overflow" \/ noCross THEN l.size ELSE l.size - (g - res.size))
      /\ k.first = (IF l.links = 0 /\ ~ (res.status = "overflow") /\ ~ noCross THEN res.size ELSE l.first)
  BY <1>1, Zenon DEF ParsedLocals
<1>5. LinksTo(l, L, res) = (IF l.crossed /\ ~ (res.status = "overflow") THEN SetLink(L, 1, SubSeq(l.got, 1, res.size)) ELSE L)
  BY DEF LinksTo
<1> QED
  BY <1>2, <1>3, <1>4, <1>5, Zenon DEF ParsesTo

\* Parsing keeps what the reader has of its block (MtDec.c:397-524).
LEMMA ParseKeeps ==
  ASSUME NEW inp, NEW r, NEW s, NEW p \in Nat, NEW l, NEW k, NEW c, NEW d, NEW L \in Links, NEW res,
         NEW noCross \in BOOLEAN,
         InBufIs, IsLocal(l), StreamIs(inp, r), ParseAt(inp, r, p, l, c, L),
         res \in Parse(inp.kind, l.got, OldOf(l, c).outPre, LimitOf(inp, r), PartialOf(inp, r)),
         ParsedLocals(l, k, res, noCross), ParsedCoder(OldOf(l, c), d, res), ParsedReader(l, res, noCross),
         r.parsed = outParsed, s.parsed = outParsed', s.cross = cross', s.pos = r.pos, s.dry = r.dry
  PROVE  ReaderAt(inp, s, p, PlaceTo(l, res), k, d, LinksTo(l, L, res))
<1>1. PICK e, g : Parses(inp, r, p, l, c, L, e, g)
  BY ParseBegins DEF StreamIs
<1>2. /\ e \in Nat /\ g \in Nat /\ Len(l.got) = g
      /\ l.links = 0 => e = 0
      /\ l.links # 0 => c.inPre = e /\ c.outPre = e
  BY <1>1 DEF Parses
<1>3. OldOf(l, c).outPre = e /\ OldOf(l, c).inPre = e
  <2>1. CASE l.links = 0
    BY <2>1, <1>2 DEF OldOf, NoCoder
  <2>2. CASE l.links # 0
    BY <2>2, <1>2 DEF OldOf
  <2> QED
    BY <2>1, <2>2
<1>4. res \in Parse(inp.kind, l.got, e, LimitOf(inp, r), PartialOf(inp, r))
  BY <1>3
<1>5. res.size \in 0 .. g
  BY <1>2, <1>4, ParseFits
<1>6. l.got \in Seq(Nat)
  BY DEF IsLocal
<1> DEFINE K == LinksTo(l, L, res)
<1>7. ParsesTo(l, k, r, s, L, K, d, res, e, g, noCross)
  BY <1>2, <1>3, <1>5, <1>6, ParsesToIs
<1> HIDE DEF K
<1>8. IF res.status # "more" \/ l.finish THEN HandAt(inp, s, p, k, d, K) ELSE ReadAt(inp, s, p, k, d, K)
  BY <1>1, <1>4, <1>7, ParseLaid
<1>9. ReaderAt(inp, s, p, PlaceTo(l, res), k, d, K)
  BY <1>8 DEF ReaderAt, PlaceTo
<1> QED
  BY <1>9 DEF K

\* What a thread notes of a block it has parsed.
LEMMA ParseNote ==
  ASSUME NEW l, NEW k, NEW c, NEW d, NEW i, NEW res, NEW noCross, NoteAt("parse", l, c, i),
         ParsedLocals(l, k, res, noCross), d.data = <<>>, d.used = 0
  PROVE  NoteAt(PlaceTo(l, res), k, d, i)
<1>1. /\ k.needWrite = TRUE /\ (k.over <=> res.status = "overflow") /\ k.write = l.write
      /\ k.needCode <=> ~ (res.status = "overflow") /\ (res.status # "more" \/ l.finish)
  BY DEF ParsedLocals
<1>2. ~ l.write
  BY DEF NoteAt
<1>3. ~ IsWork("read") /\ ~ IsWork("hand")
  BY DEF IsWork
<1>4. CASE res.status # "more" \/ l.finish
  BY <1>1, <1>2, <1>3, <1>4 DEF NoteAt, PlaceTo
<1>5. CASE ~ (res.status # "more" \/ l.finish)
  BY <1>1, <1>2, <1>3, <1>5 DEF NoteAt, PlaceTo
<1> QED
  BY <1>4, <1>5

\* A link is parsed (MtDec.c:397-524).
LEMMA ParseLinkContent ==
  ASSUME Rights, Sizes, Content, NEW t \in Thread, ParseLink(t)
  PROVE  Content'
<1>1. /\ pc[t] = "parse"
      /\ main' = main /\ input' = input /\ result' = result /\ out' = out /\ failed' = failed
      /\ pos' = pos /\ readWasFinished' = readWasFinished /\ readRes' = readRes /\ blockIndex' = blockIndex
      /\ progressRes' = progressRes
      /\ wasInterrupted' = wasInterrupted /\ isAllocError' = isAllocError /\ overflow' = overflow
      /\ threadingError' = threadingError /\ exitThread' = exitThread /\ inProcessed' = inProcessed
      /\ canRead' = canRead /\ canWrite' = canWrite /\ fresh' = fresh
  BY DEF ParseLink, callerVars, csVars, writerVars, stVars
<1>2. /\ InBufIs /\ InputIs(input) /\ IsLocal(loc[t])
      /\ inBuf[t] \in Links /\ inBuf \in [Thread -> Links]
      /\ pos \in Nat /\ rd.pos = pos /\ pc \in [Thread -> ThreadPc]
  BY TypesHere
<1>3. main = "mt"
  BY <1>1, BusyRuns DEF IsBusy
<1>4. PICK l, k, c, d, res, noCross : ParseTo(t, l, k, c, d, res, noCross)
  BY ParseLinkIs
<1>5. /\ l = loc[t] /\ k = loc'[t] /\ c = coder[t] /\ d = coder'[t] /\ noCross \in BOOLEAN
      /\ res \in Parse(input.kind, l.got, OldOf(l, c).outPre, Limit, Partial)
      /\ ParsedLocals(l, k, res, noCross) /\ ParsedCoder(OldOf(l, c), d, res) /\ ParsedReader(l, res, noCross)
      /\ inBuf' = [inBuf EXCEPT ![t] = LinksTo(l, inBuf[t], res)]
      /\ pc' = [pc EXCEPT ![t] = PlaceTo(l, res)]
      /\ \A u \in Thread \ {t} : loc'[u] = loc[u] /\ coder'[u] = coder[u]
  BY <1>4, Zenon DEF ParseTo
<1>6. /\ pc'[t] = PlaceTo(l, res) /\ \A u \in Thread \ {t} : pc'[u] = pc[u]
      /\ inBuf'[t] = LinksTo(l, inBuf[t], res) /\ \A u \in Thread \ {t} : inBuf'[u] = inBuf[u]
  BY <1>2, <1>5
<1>7. PlaceTo(l, res) \in {"read", "hand"}
  BY DEF PlaceTo
<1>8. Over' <=> Over
  <2>1. pc'[0] = "ended" <=> pc[0] = "ended"
    BY <1>1, <1>2, <1>5, <1>7, MtDecAssumption DEF Thread
  <2> QED
    BY <2>1, <1>1 DEF Over
<1>9. Flags' = Flags /\ (Told' <=> Told) /\ Dry' = Dry
  BY <1>1 DEF Flags, Told, Dry
<1>10. Calm(t)
  BY <1>1, <1>3, <1>5, <1>6, <1>7, <1>8, <1>9 DEF Calm
<1>11. NoteAt(pc'[t], loc'[t], coder'[t], wasInterrupted')
  <2>1. NoteAt("parse", l, c, wasInterrupted)
    BY <1>1, <1>5 DEF Content, Notes
  <2>2. d.data = <<>> /\ d.used = 0
    BY <1>5 DEF ParsedCoder
  <2>3. NoteAt(PlaceTo(l, res), k, d, wasInterrupted)
    BY <2>1, <2>2, <1>5, ParseNote
  <2> QED
    BY <2>3, <1>1, <1>5, <1>6
<1>12. DataTypes'
  <2>1. l.got \in Seq(Nat)
    BY <1>2, <1>5 DEF IsLocal
  <2>2. SubSeq(l.got, 1, res.size) \in Seq(Nat)
    <3>1. PICK n \in Nat : n = Len(l.got)
      BY <2>1
    <3>2. res.size \in 0 .. n
      <4>1. PICK o : o = OldOf(l, c).outPre
        OBVIOUS
      <4>2. OldOf(l, c).outPre \in Nat
        BY <1>5, TypesHere DEF OldOf, NoCoder, IsCoder
      <4> QED
        BY <3>1, <4>2, <1>5, ParseFits
    <3>3. \A i \in 1 .. res.size : i \in 1 .. Len(l.got)
      BY <3>1, <3>2
    <3>4. res.size \in Nat /\ 1 \in Nat
      BY <3>2
    <3> QED
      BY <2>1, <3>3, <3>4, SubSeqProperties
  <2>3. LinksTo(l, inBuf[t], res) \in Links
    BY <2>2, <1>2, SetLinkType DEF LinksTo
  <2>4. inBuf' \in [Thread -> Links]
    BY <2>3, <1>2, <1>5
  <2> QED
    BY <2>4, <1>1 DEF Content, DataTypes, Links
<1>13. Failures'
  BY <1>1, <1>3, FailuresStay
<1>14. Flagged'
  <2>1. IsBusy(pc[t])
    BY <1>1 DEF IsBusy
  <2> QED
    BY <2>1, <1>1, <1>10, CalmFlagged
<1>15. Layout'
  <2>1. /\ rd.parsed = outParsed /\ rd.cross = cross /\ rd.dry = Dry
        /\ rd'.pos = pos' /\ rd'.parsed = outParsed' /\ rd'.cross = cross' /\ rd'.dry = Dry'
    BY DEF rd
  <2>2. StreamIs(input, rd)
    <3>1. pos <= Len(input.kind) /\ outParsed \in Nat /\ cross \in Seq(Nat)
      BY <1>3 DEF Sizes, ReaderTypes
    <3> QED
      BY <3>1, <2>1, <1>2 DEF StreamIs, InputIs
  <2>3. Limit = LimitOf(input, rd) /\ Partial = PartialOf(input, rd)
    BY <2>1 DEF Limit, Partial, LimitOf, PartialOf, Room, RoomOf
  <2>4. ASSUME NEW p \in Nat, ReaderNow(p, t)
        PROVE  ReaderNow(p, t)'
    <3> HIDE DEF rd
    <3>1. ParseAt(input, rd, p, l, c, inBuf[t])
      BY <2>4, <1>1, <1>5 DEF ReaderNow, ReaderAt
    <3>2. ReaderAt(input, rd', p, PlaceTo(l, res), k, d, LinksTo(l, inBuf[t], res))
      BY <3>1, <2>1, <2>2, <2>3, <1>1, <1>2, <1>5, <1>9, ParseKeeps
    <3>3. ReaderAt(input', rd', p, pc'[t], loc'[t], coder'[t], inBuf'[t])
      BY <3>2, <1>1, <1>5, <1>6
    <3> QED
      BY <3>3, Zenon DEF ReaderNow
  <2>5. loc'[t].block = loc[t].block /\ pos' \in Nat /\ pos <= pos'
    BY <1>1, <1>2, <1>5 DEF ParsedLocals
  <2>6. pc[t] \in {"read", "parse"} /\ pc'[t] \in {"read", "parse", "hand"} /\ \A u \in Thread \ {t} : pc'[u] = pc[u]
    BY <1>1, <1>6, <1>7
  <2>7. \A p \in Nat : ReaderNow(p, t) /\ ~ Told' => ReaderNow(p, t)'
    BY <2>4, Zenon
  <2>8. Told => Told'
    BY <1>9
  <2> QED
    BY <2>5, <2>6, <2>7, <2>8, <1>1, <1>10, ReaderStep
<1> QED
  BY <1>10, <1>11, <1>12, <1>13, <1>14, <1>15, ContentIs, Zenon

-----------------------------------------------------------------------------
(* Taking the right to read. *)

\* A thread that is told to exit leaves the ring (MtDec.c:273-283).
LEMMA TakeReadEndsContent ==
  ASSUME Rights, Sizes, Content, NEW t \in Thread, TakeRead(t), exitThread
  PROVE  Content'
<1>1. /\ pc[t] = "waitRead" /\ canRead[t] /\ pc' = [pc EXCEPT ![t] = "ended"]
      /\ main' = main /\ input' = input /\ result' = result /\ out' = out /\ failed' = failed
      /\ pos' = pos /\ readWasFinished' = readWasFinished /\ readRes' = readRes
      /\ progressRes' = progressRes /\ cross' = cross /\ outParsed' = outParsed
      /\ wasInterrupted' = wasInterrupted /\ isAllocError' = isAllocError /\ overflow' = overflow
      /\ threadingError' = threadingError /\ exitThread' = exitThread /\ inProcessed' = inProcessed
      /\ filledStart' = filledStart /\ numFilled' = numFilled /\ numStarted' = numStarted
      /\ filledSize' = filledSize /\ filledFirst' = filledFirst
      /\ inBuf' = inBuf /\ loc' = loc /\ coder' = coder /\ fresh' = fresh
  BY DEF TakeRead, Goto, callerVars, csVars, faultVars, writerVars, filledVars, stVars
<1>2. pc \in [Thread -> ThreadPc]
  BY TypesHere
<1>3. main = "mt"
  BY <1>1, BusyRuns
<1>4. pc'[t] = "ended" /\ \A u \in Thread \ {t} : pc'[u] = pc[u]
  BY <1>1, <1>2
<1>5. Over' <=> Over
  BY <1>1 DEF Over
<1>6. Flags' = Flags /\ (Told' <=> Told) /\ Dry' = Dry /\ rd' = rd
  BY <1>1 DEF Flags, Told, Dry, rd
<1>7. Calm(t)
  BY <1>1, <1>3, <1>4, <1>5, <1>6 DEF Calm
<1>8. ~ IsBusy("waitRead") /\ ~ IsBusy("ended")
  BY DEF IsBusy
<1>9. NoteAt(pc'[t], loc'[t], coder'[t], wasInterrupted')
  <2>1. NoteAt("waitRead", loc[t], coder[t], wasInterrupted)
    BY <1>1 DEF Content, Notes
  <2>2. NoteAt("ended", loc[t], coder[t], wasInterrupted)
    BY <2>1, <1>8, NoteIdle
  <2> QED
    BY <2>2, <1>1, <1>4
<1>10. DataTypes'
  BY <1>1 DEF Content, DataTypes
<1>11. Failures'
  BY <1>1, <1>3, FailuresStay
<1>12. Flagged'
  <2>1. \A u \in Thread : IsBusy(pc'[u]) <=> IsBusy(pc[u])
    BY <1>1, <1>4, <1>8
  <2>2. Flagged
    BY DEF Content
  <2> HIDE DEF rd, Flags
  <2> QED
    BY <2>1, <2>2, <1>1, <1>6 DEF Flagged
<1>13. Layout'
  <2>1. Over'
    BY <1>1 DEF Over
  <2> QED
    BY <2>1 DEF Layout
<1> QED
  BY <1>7, <1>9, <1>10, <1>11, <1>12, <1>13, ContentIs, Zenon

\* What taking the right to read does: l are the locals of the new block.
TookRead(t, l, f, stop) ==
  /\ l = loc'[t] /\ f \in BOOLEAN /\ stop \in BOOLEAN
  /\ progressRes' = (IF f THEN "progress" ELSE progressRes)
  /\ failed' = failed \cup Kind(f, "progress")
  /\ l.block = blockIndex /\ l.stop = stop
  /\ l.finish = (IF stop THEN TRUE ELSE readWasFinished)
  /\ l.links = 0 /\ l.size = 0 /\ l.first = 0
  /\ l.needCode = FALSE /\ l.needWrite = FALSE /\ l.alloc = FALSE /\ l.over = FALSE
  /\ l.thread = FALSE /\ l.write = FALSE /\ l.code = "ok"
  /\ pc' = [pc EXCEPT ![t] = IF stop THEN "waitWrite" ELSE "read"]
  /\ \A u \in Thread \ {t} : loc'[u] = loc[u]

TakeReadNow(t, f) ==
  /\ Progress(f) /\ Failing(Count(f)) /\ Fatal(Kind(f, "progress"))
  /\ LET stop == progressRes' # "ok" \/ (interrupt # None /\ blockIndex > interrupt)
     IN /\ loc' = [loc EXCEPT ![t] =
                     [NoLoc EXCEPT !.block = blockIndex, !.stop = stop,
                                   !.finish = IF stop THEN TRUE ELSE readWasFinished]]
        /\ Goto(t, IF stop THEN "waitWrite" ELSE "read")

LEMMA TakeReadIs ==
  ASSUME Rights, Sizes, Content, NEW t \in Thread, TakeRead(t), ~ exitThread
  PROVE  \E l, f, stop : TookRead(t, l, f, stop)
<1>1. PICK f \in MayFail("progress") : TakeReadNow(t, f)
  BY Zenon DEF TakeRead, TakeReadNow
<1>2. f \in BOOLEAN
  BY MayFailIs
<1>3. DOMAIN loc = Thread
  BY TypesHere
<1>4. PICK stop \in BOOLEAN : stop <=> progressRes' # "ok" \/ (interrupt # None /\ blockIndex > interrupt)
  OBVIOUS
<1>5. /\ progressRes' = (IF f THEN "progress" ELSE progressRes)
      /\ failed' = failed \cup Kind(f, "progress")
  BY <1>1 DEF TakeReadNow, Progress, Fatal
<1>6. pc' = [pc EXCEPT ![t] = IF stop THEN "waitWrite" ELSE "read"]
  BY <1>1, <1>4 DEF TakeReadNow, Goto
<1>7. \A u \in Thread \ {t} : loc'[u] = loc[u]
  BY <1>1, <1>3 DEF TakeReadNow
<1>8. PICK l : l = loc'[t]
  OBVIOUS
<1>9. l = [NoLoc EXCEPT !.block = blockIndex, !.stop = stop, !.finish = IF stop THEN TRUE ELSE readWasFinished]
  BY <1>1, <1>3, <1>4, <1>8 DEF TakeReadNow
<1>10. /\ l.block = blockIndex /\ l.stop = stop /\ l.finish = (IF stop THEN TRUE ELSE readWasFinished)
       /\ l.links = 0 /\ l.size = 0 /\ l.first = 0
       /\ l.needCode = FALSE /\ l.needWrite = FALSE /\ l.alloc = FALSE /\ l.over = FALSE
       /\ l.thread = FALSE /\ l.write = FALSE /\ l.code = "ok"
  BY <1>9 DEF NoLoc
<1> HIDE DEF Kind
<1>11. TookRead(t, l, f, stop)
  BY <1>2, <1>4, <1>5, <1>6, <1>7, <1>8, <1>10, Zenon DEF TookRead
<1> QED
  BY <1>11, Zenon

\* A thread takes the right to read for a new block (MtDec.c:262-297).
LEMMA TakeReadContent ==
  ASSUME Rights, Sizes, Content, NEW t \in Thread, TakeRead(t), ~ exitThread
  PROVE  Content'
<1>1. /\ pc[t] = "waitRead" /\ canRead[t] /\ canRead' = [canRead EXCEPT ![t] = FALSE]
      /\ blockIndex' = blockIndex + 1
      /\ main' = main /\ input' = input /\ result' = result /\ out' = out
      /\ pos' = pos /\ readWasFinished' = readWasFinished /\ readRes' = readRes
      /\ cross' = cross /\ outParsed' = outParsed
      /\ wasInterrupted' = wasInterrupted /\ isAllocError' = isAllocError /\ overflow' = overflow
      /\ threadingError' = threadingError /\ exitThread' = exitThread /\ inProcessed' = inProcessed
      /\ inBuf' = inBuf /\ coder' = coder /\ canWrite' = canWrite /\ fresh' = fresh
  BY DEF TakeRead, callerVars, writerVars, stVars
<1>2. /\ pc \in [Thread -> ThreadPc] /\ pos \in Nat /\ rd.pos = pos /\ InputIs(input)
      /\ canRead \in [Thread -> BOOLEAN] /\ blockIndex \in Nat
  BY TypesHere DEF Rights, RingTypes
<1>3. main = "mt" /\ Reading(t)
  BY <1>1, BusyRuns DEF Reading
<1>4. PICK l, f, stop : TookRead(t, l, f, stop)
  BY TakeReadIs
<1>5. /\ l = loc'[t] /\ f \in BOOLEAN /\ stop \in BOOLEAN
      /\ progressRes' = (IF f THEN "progress" ELSE progressRes)
      /\ failed' = failed \cup Kind(f, "progress")
      /\ l.block = blockIndex /\ l.stop = stop
      /\ l.finish = (IF stop THEN TRUE ELSE readWasFinished)
      /\ l.links = 0 /\ l.size = 0 /\ l.first = 0
      /\ l.needCode = FALSE /\ l.needWrite = FALSE /\ l.alloc = FALSE /\ l.over = FALSE
      /\ l.thread = FALSE /\ l.write = FALSE /\ l.code = "ok"
      /\ pc' = [pc EXCEPT ![t] = IF stop THEN "waitWrite" ELSE "read"]
      /\ \A u \in Thread \ {t} : loc'[u] = loc[u]
  BY <1>4, Zenon DEF TookRead
<1>6. pc'[t] = (IF stop THEN "waitWrite" ELSE "read") /\ \A u \in Thread \ {t} : pc'[u] = pc[u]
  BY <1>2, <1>5
<1>7. Over' <=> Over
  <2>1. pc'[0] = "ended" <=> pc[0] = "ended"
    BY <1>1, <1>2, <1>5, MtDecAssumption DEF Thread
  <2> QED
    BY <2>1, <1>1 DEF Over
<1>8. Flags' = Flags /\ (Told => Told') /\ Dry' = Dry /\ rd' = rd
  BY <1>1, <1>5 DEF Flags, Told, Dry, rd
<1>9. failed \subseteq failed' /\ failed' \subseteq failed \cup {"progress"} /\ (f => "progress" \in failed')
  BY <1>5 DEF Kind
<1>10. Calm(t)
  BY <1>1, <1>3, <1>5, <1>6, <1>7, <1>8, <1>9 DEF Calm
<1>11. NoteAt(pc'[t], loc'[t], coder'[t], wasInterrupted')
  <2>1. NoteAt("waitRead", loc[t], coder[t], wasInterrupted)
    BY <1>1 DEF Content, Notes
  <2>2. coder[t].data = <<>> /\ coder[t].used = 0
    BY <2>1 DEF NoteAt
  <2>3. ~ IsWork("read")
    BY DEF IsWork
  <2>4. NoteAt(IF stop THEN "waitWrite" ELSE "read", l, coder[t], wasInterrupted)
    BY <2>2, <2>3, <1>5 DEF NoteAt
  <2> QED
    BY <2>4, <1>1, <1>5, <1>6
<1>12. DataTypes'
  BY <1>1 DEF Content, DataTypes
<1>13. Failures'
  <2>1. progressRes' # "ok" => progressRes # "ok" \/ "progress" \in failed'
    BY <1>5, <1>9
  <2>2. failed' \subseteq failed \cup {"write", "progress"}
    BY <1>9
  <2> QED
    BY <2>1, <2>2, <1>1, <1>3, <1>9, FailuresStay
<1>14. Flagged'
  <2>1. ASSUME Flags, progressRes = "ok"
        PROVE  FALSE
    <3>1. \A u \in Thread : IsBusy(pc[u]) => pc[u] = "write" /\ loc[u].finish
      BY <2>1, <1>3 DEF Sizes, Handover
    <3>2. ASSUME NEW u \in Thread, IsBusy(pc[u])
          PROVE  FALSE
      <4>1. Reading(u)
        BY <3>1, <3>2 DEF Reading
      <4>2. u = t
        BY <4>1, <1>3 DEF Rights, OneReads
      <4> QED
        BY <4>2, <3>2, <1>1 DEF IsBusy
    <3>3. Over
      BY <2>1, <3>2, <1>3 DEF Sizes, Handover
    <3>4. pc[0] = "ended"
      BY <3>3 DEF Over
    <3> QED
      BY <3>4, <1>1 DEF Rights, Clear, Runs
  <2>2. ~ (Flags' /\ progressRes' = "ok")
    BY <2>1, <1>5, <1>8
  <2> QED
    BY <2>2 DEF Flagged
<1>15. Layout'
  <2>1. ASSUME NEW Q \in Places, Laid(Q)
        PROVE  \A u \in Thread : LaidNow(Q, u)'
    <3> SUFFICES ASSUME NEW u \in Thread
                 PROVE  LaidNow(Q, u)'
      OBVIOUS
    <3>0. readWasFinished => rd.dry
      BY <1>3 DEF Content, Failures, rd
    <3> HIDE DEF rd
    <3>1. LaidNow(Q, u)
      BY <2>1, Zenon DEF Laid, LaidNow
    <3>2. CASE u = t
      <4>1. /\ AtStart(input, rd, Q[blockIndex])
            /\ canWrite[t] => inProcessed = Q[blockIndex]
        BY <3>1, <3>2, <1>1 DEF LaidNow, LaidAt, IsBusy
      <4>2. IsBusy("waitWrite") /\ IsBusy("read") /\ ~ IsWork("read")
        BY DEF IsBusy, IsWork
      <4>3. canRead'[t] = FALSE
        BY <1>1, <1>2
      <4>4. CASE stop
        <5>1. LastAt(input, rd, Q[l.block], l, coder[t], inBuf[t])
          BY <4>4, <1>5 DEF LastAt
        <5>2. LaidAt(input, rd, Q, blockIndex', inProcessed, "waitWrite", l, coder[t], inBuf[t], FALSE, canWrite[t])
          BY <4>1, <4>2, <4>4, <5>1, <1>5 DEF LaidAt
        <5> QED
          BY <4>3, <4>4, <5>2, <3>2, <1>1, <1>5, <1>6, <1>8 DEF LaidNow
      <4>5. CASE ~ stop
        <5>1. ReadAt(input, rd, Q[l.block], l, coder[t], inBuf[t])
          BY <4>1, <4>5, <3>0, <1>5 DEF ReadAt
        <5>2. LaidAt(input, rd, Q, blockIndex', inProcessed, "read", l, coder[t], inBuf[t], FALSE, canWrite[t])
          BY <4>1, <4>2, <4>5, <5>1, <1>5 DEF LaidAt
        <5> QED
          BY <4>3, <4>5, <5>2, <3>2, <1>1, <1>5, <1>6, <1>8 DEF LaidNow
      <4> QED
        BY <4>4, <4>5
    <3>3. CASE u # t
      <4>1. u \in Thread \ {t}
        BY <3>3
      <4>2. /\ canRead[u] = FALSE /\ pc[u] \notin {"read", "parse", "hand"}
            /\ ~ (loc[u].finish /\ IsWork(pc[u]))
            /\ (canWrite[u] \/ pc[u] = "write" => IsBusy(pc[u]))
            /\ loc[u].block \in Nat /\ loc[u].size \in Nat
        BY <4>1, <1>3, OthersDoNotRead
      <4>3. pc'[u] = pc[u] /\ loc'[u] = loc[u] /\ canRead'[u] = FALSE
        BY <4>1, <4>2, <1>1, <1>2, <1>5, <1>6
      <4>4. LaidAt(input, rd, Q, blockIndex, inProcessed, pc[u], loc[u], coder[u], inBuf[u], FALSE, canWrite[u])
        BY <3>1, <4>2, Zenon DEF LaidNow
      <4>5. rd.pos \in Nat /\ rd.pos <= rd.pos /\ input.kind \in Seq(Kinds)
        BY <1>2 DEF InputIs
      <4>6. LaidAt(input, rd, Q, blockIndex', inProcessed, pc[u], loc[u], coder[u], inBuf[u], FALSE, canWrite[u])
        BY <4>2, <4>4, <4>5, LaidLater
      <4> QED
        BY <4>3, <4>6, <1>1, <1>8, Zenon DEF LaidNow
    <3> QED
      BY <3>2, <3>3
  <2>2. \A Q \in Places : Laid(Q) /\ ~ Told' /\ ~ Over' => \E R \in Places : \A u \in Thread : LaidNow(R, u)'
    BY <2>1, Zenon
  <2>3. Over => Over'
    BY <1>7
  <2> QED
    BY <2>2, <2>3, <1>1, <1>3, <1>8, LayoutStep, Zenon
<1> QED
  BY <1>10, <1>11, <1>12, <1>13, <1>14, <1>15, ContentIs, Zenon

-----------------------------------------------------------------------------
(* Passing the right to read on. *)

\* The locals l become k: cc is the result of PreCode, st when the thread stops,
\* alone when no other thread could be started.
Hands(l, k, c, cc, st, alone) ==
  /\ cc \in {"ok", "data", "memory"} /\ st \in BOOLEAN /\ alone \in BOOLEAN
  /\ l.stop => st
  /\ cc # "ok" => l.needCode /\ ~ st
  /\ cc = "data" => c.inPre = 0
  /\ cc = "memory" => c.inPre # 0
  /\ alone => ~ l.finish /\ ~ st /\ cc = "ok"
  /\ k.needCode <=> l.needCode /\ cc = "ok" /\ ~ alone
  /\ k.finish <=> l.finish \/ st \/ cc # "ok" \/ alone
  /\ k.block = l.block /\ k.size = l.size /\ k.first = l.first /\ k.needWrite = l.needWrite
  /\ k.alloc = l.alloc /\ k.over = l.over /\ k.write = l.write
  /\ k.thread = alone /\ k.stop = st /\ k.code = cc

\* What PreCode and the choice of the next thread make of the locals
\* (MtDec.c:526-615, Lzma2DecMt.c:414-470).
LEMMA HandReadIs ==
  ASSUME Rights, Sizes, Content, NEW t \in Thread, HandRead(t)
  PROVE  \E cc, st, alone :
           /\ Hands(loc[t], loc'[t], coder[t], cc, st, alone)
           /\ pc'[t] = IF loc'[t].needCode /\ ~ loc'[t].stop THEN "code" ELSE "waitWrite"
<1>1. PICK cc \in (IF loc[t].needCode /\ ~ Stops(t) THEN PreCodeResults(t) ELSE {"ok"}),
           noThread \in MayFail("thread") : PassRead(t, cc, noThread)
  BY Zenon DEF HandRead
<1>2. noThread \in BOOLEAN
  BY MayFailIs
<1>3. /\ DOMAIN loc = Thread /\ DOMAIN loc[t] = LocFields /\ pc \in [Thread -> ThreadPc] /\ IsLocal(loc[t])
      /\ loc[t].finish \in BOOLEAN
  BY TypesHere DEF Rights, RingTypes
<1>4. PICK st \in BOOLEAN : st = Stops(t)
  BY DEF Stops
<1>5. /\ cc \in {"ok", "data", "memory"} /\ (cc # "ok" => loc[t].needCode /\ ~ st)
      /\ (cc = "data" => coder[t].inPre = 0) /\ (cc = "memory" => coder[t].inPre # 0)
  BY <1>1, <1>4 DEF PreCodeResults, Kind
<1>6. PICK l : l = loc[t]
  OBVIOUS
<1> DEFINE finish == l.finish \/ st \/ cc # "ok"
           more   == ~ finish /\ MayStart(numStarted)
           alone  == noThread /\ numStarted = 1
           ends   == finish \/ alone
           n      == IF more /\ ~ noThread THEN numStarted + 1 ELSE numStarted
           coded  == l.needCode /\ ~ st /\ cc = "ok"
<1>7. loc' = [loc EXCEPT ![t] =
                [l EXCEPT !.stop = st, !.code = cc, !.thread = alone, !.finish = ends,
                          !.needCode = @ /\ cc = "ok" /\ ~ alone,
                          !.next = IF ends THEN None ELSE NextThread(t, n)]]
  BY <1>1, <1>4, <1>6 DEF PassRead
<1>8. pc' = [pc EXCEPT ![n - 1] = IF n > numStarted THEN "waitRead" ELSE @,
                       ![t] = IF coded /\ ~ alone THEN "code" ELSE "waitWrite"]
  BY <1>1, <1>4, <1>6 DEF PassRead
<1>9. alone \in BOOLEAN /\ ends \in BOOLEAN /\ coded \in BOOLEAN
  OBVIOUS
<1>10. /\ ends <=> l.finish \/ st \/ cc # "ok" \/ alone
       /\ coded <=> l.needCode /\ ~ st /\ cc = "ok"
  OBVIOUS
<1>11. PICK needs \in BOOLEAN : needs = (l.needCode /\ cc = "ok" /\ ~ alone)
  OBVIOUS
<1>12. noThread => ~ finish
  BY <1>1, <1>4, <1>6 DEF PassRead
<1>13. PICK k : k = loc'[t]
  OBVIOUS
<1>14. alone => ~ l.finish /\ ~ st /\ cc = "ok"
  BY <1>12
<1>20. pc'[t] = IF coded /\ ~ alone THEN "code" ELSE "waitWrite"
  BY <1>3, <1>8
<1> HIDE DEF coded, n, ends, alone, finish, more
<1>16. /\ k.stop = st /\ k.code = cc /\ k.thread = alone /\ k.finish = ends /\ k.needCode = needs
       /\ k.block = l.block /\ k.size = l.size /\ k.first = l.first /\ k.needWrite = l.needWrite
       /\ k.alloc = l.alloc /\ k.over = l.over /\ k.write = l.write
  <2>1. PICK next : next = IF ends THEN None ELSE NextThread(t, n)
    OBVIOUS
  <2>2. k = [l EXCEPT !.stop = st, !.code = cc, !.thread = alone, !.finish = ends,
                      !.needCode = needs, !.next = next]
    BY <1>3, <1>6, <1>7, <1>11, <1>13, <2>1
  <2> QED
    BY <1>3, <1>6, <2>2 DEF LocFields
<1>17. l.stop => st
  BY <1>4, <1>6 DEF Stops
<1>18. (needs <=> l.needCode /\ cc = "ok" /\ ~ alone)
  BY <1>11
<1>19. Hands(l, k, coder[t], cc, st, alone)
  <2>1. k.needCode <=> l.needCode /\ cc = "ok" /\ ~ alone
    BY <1>16, <1>18
  <2>2. k.finish <=> l.finish \/ st \/ cc # "ok" \/ alone
    BY <1>10, <1>16
  <2> QED
    BY <2>1, <2>2, <1>4, <1>5, <1>6, <1>9, <1>14, <1>16, <1>17, Zenon DEF Hands
<1>21. coded /\ ~ alone <=> k.needCode /\ ~ k.stop
  BY <1>10, <1>16, <1>18
<1>22. pc'[t] = IF loc'[t].needCode /\ ~ loc'[t].stop THEN "code" ELSE "waitWrite"
  BY <1>13, <1>20, <1>21
<1> QED
  BY <1>6, <1>13, <1>19, <1>22, Zenon

\* What there is of the block when the right to read is passed on, or kept
\* (MtDec.c:526-615).
LEMMA HandKeeps ==
  ASSUME NEW inp, NEW r, NEW p \in Nat, NEW l, NEW k, NEW c, NEW L, NEW cc, NEW st, NEW alone,
         IsLocal(l), IsCoder(c), HandAt(inp, r, p, l, c, L), Hands(l, k, c, cc, st, alone),
         r.pos \in Nat, inp.outSize \in Nat, r.cross \in Seq(Nat)
  PROVE  IF k.finish THEN LastAt(inp, r, p, k, c, L)
         ELSE MiddleAt(inp, r, p, k, c, L) /\ AtStart(inp, r, p + k.size)
<1>1. /\ cc \in {"ok", "data", "memory"} /\ st \in BOOLEAN /\ alone \in BOOLEAN
      /\ l.stop => st
      /\ cc # "ok" => l.needCode /\ ~ st
      /\ cc = "data" => c.inPre = 0
      /\ cc = "memory" => c.inPre # 0
      /\ alone => ~ l.finish /\ ~ st /\ cc = "ok"
      /\ k.needCode <=> l.needCode /\ cc = "ok" /\ ~ alone
      /\ k.finish <=> l.finish \/ st \/ cc # "ok" \/ alone
      /\ k.block = l.block /\ k.size = l.size /\ k.first = l.first /\ k.needWrite = l.needWrite
      /\ k.alloc = l.alloc /\ k.over = l.over /\ k.write = l.write
      /\ k.thread = alone /\ k.stop = st /\ k.code = cc
  BY DEF Hands
<1>2. l.size \in Nat
  BY DEF IsLocal
<1>3. CASE st
  BY <1>1, <1>3 DEF LastAt
<1>4. CASE ~ st /\ l.finish /\ WholeAt(inp, r, p, l, L)
  <2>1. WholeAt(inp, r, p, k, L)
    BY <1>1, <1>4 DEF WholeAt, LinkedAt
  <2> QED
    BY <2>1, <1>1, <1>4 DEF LastAt
<1>5. CASE ~ st /\ l.needCode /\ ParsedAt(inp, r, p, l, c, L) /\ (l.finish <=> c.status # "new")
  <2>1. ParsedAt(inp, r, p, k, c, L)
    <3>1. Parsed(inp, p, k, c) <=> Parsed(inp, p, l, c)
      BY <1>1 DEF Parsed
    <3>2. LinkedAt(inp, p, k, L) <=> LinkedAt(inp, p, l, L)
      BY <1>1 DEF LinkedAt
    <3> QED
      BY <3>1, <3>2, <1>1, <1>5 DEF ParsedAt
  <2>2. CASE k.finish
    <3>1. /\ k.needCode \/ k.thread \/ k.code \in {"data", "memory"}
          /\ k.thread => c.status = "new"
          /\ c.status = "new" => k.thread \/ k.code # "ok"
          /\ k.code = "memory" => c.inPre # 0
          /\ ~ k.needCode /\ k.code = "data" => c.inPre = 0
      BY <1>1, <1>5, <2>2
    <3>2. LastAt(inp, r, p, k, c, L)
      BY <2>1, <3>1, Zenon DEF LastAt
    <3> QED
      BY <3>2, <2>2
  <2>3. CASE ~ k.finish
    <3>1. c.status = "new" /\ cc = "ok" /\ ~ alone /\ ~ l.finish
      BY <1>1, <1>5, <2>3
    <3>2. /\ Parsed(inp, p, k, c) /\ LinkedAt(inp, p, k, L) /\ CrossAt(r, p + k.size)
          /\ p + k.size + Len(r.cross) = r.pos /\ r.cross # <<>> /\ r.parsed = p + k.size
          /\ ~ k.alloc /\ ~ k.over /\ k.needWrite
      BY <2>1, <3>1 DEF ParsedAt
    <3>3. k.size = c.inPre /\ c.inPre = c.outPre /\ Begins(inp, p + c.inPre) /\ Chunks(inp, p, c.outPre)
      BY <3>1, <3>2 DEF Parsed
    <3>4. p + k.size <= inp.outSize
      BY <3>3 DEF Chunks
    <3>5. p + k.size <= r.pos
      <4>1. Len(r.cross) \in Nat /\ p + k.size \in Nat
        BY <1>1, <1>2
      <4> QED
        BY <4>1, <3>2
    <3>6. MiddleAt(inp, r, p, k, c, L)
      BY <1>1, <1>5, <3>1, <3>2, <3>5 DEF MiddleAt
    <3>7. AtStart(inp, r, p + k.size)
      BY <3>2, <3>3, <3>4 DEF AtStart, FreshAt
    <3> QED
      BY <3>6, <3>7, <2>3
  <2> QED
    BY <2>2, <2>3
<1> QED
  BY <1>1, <1>3, <1>4, <1>5 DEF HandAt

\* What is noted of it.
LEMMA HandNote ==
  ASSUME NEW l, NEW k, NEW c, NEW cc, NEW st, NEW alone, NEW i, NEW at,
         NoteAt("hand", l, c, i), Hands(l, k, c, cc, st, alone),
         at = IF k.needCode /\ ~ k.stop THEN "code" ELSE "waitWrite"
  PROVE  NoteAt(at, k, c, i)
<1>1. /\ cc # "ok" => l.needCode
      /\ k.needCode <=> l.needCode /\ cc = "ok" /\ ~ alone
      /\ k.needWrite = l.needWrite /\ k.alloc = l.alloc /\ k.over = l.over /\ k.write = l.write
      /\ k.thread = alone /\ k.stop = st /\ k.code = cc
      /\ l.stop => st
  BY DEF Hands
<1>2. /\ c.data = <<>> /\ c.used = 0 /\ (l.needCode => l.needWrite) /\ ~ l.write
      /\ (l.over => ~ l.needCode) /\ (~ l.needCode => l.stop \/ l.alloc \/ l.over)
  BY DEF NoteAt
<1>3. CASE k.needCode /\ ~ k.stop
  <2>1. at = "code"
    BY <1>3
  <2> QED
    BY <2>1, <1>1, <1>2, <1>3 DEF NoteAt
<1>4. CASE ~ (k.needCode /\ ~ k.stop)
  <2>1. at = "waitWrite"
    BY <1>4
  <2> QED
    BY <2>1, <1>1, <1>2, <1>4 DEF NoteAt
<1> QED
  BY <1>3, <1>4

\* A thread is given the right to read.
LEMMA LaidReads ==
  ASSUME NEW inp, NEW r, NEW Q, NEW bi, NEW ip, NEW at, NEW l, NEW c, NEW L, NEW reads, NEW writes,
         LaidAt(inp, r, Q, bi, ip, at, l, c, L, FALSE, writes), reads => AtStart(inp, r, Q[bi])
  PROVE  LaidAt(inp, r, Q, bi, ip, at, l, c, L, reads, writes)
BY DEF LaidAt

\* Of a thread that waits, or is started, nothing is known.
LEMMA LaidIdle ==
  ASSUME NEW inp, NEW r, NEW Q, NEW bi, NEW ip, NEW at, NEW l, NEW c, NEW L, ~ IsBusy(at)
  PROVE  LaidAt(inp, r, Q, bi, ip, at, l, c, L, FALSE, FALSE)
<1>1. at \notin {"read", "parse", "hand", "code", "waitWrite", "write"} /\ ~ IsWork(at)
  BY DEF IsBusy, IsWork
<1> QED
  BY <1>1 DEF LaidAt

\* What passing the right to read on does: the thread t gets the locals k, a
\* thread may have been started, and one may have been given the right.
HandedTo(t, k) ==
  /\ k = loc'[t] /\ k.block = loc[t].block /\ pc'[t] \in {"code", "waitWrite"}
  /\ \A u \in Thread \ {t} :
       /\ loc'[u] = loc[u] /\ canRead[u] = FALSE /\ (canRead'[u] => ~ k.finish)
       /\ pc'[u] = pc[u] \/ (~ IsBusy(pc[u]) /\ pc'[u] = "waitRead" /\ canWrite[u] = FALSE)
  /\ canRead' \in [Thread -> BOOLEAN] /\ (canRead'[t] => ~ k.finish)
  /\ (pc'[0] = "ended" <=> pc[0] = "ended") /\ pc[t] = "hand"
  /\ blockIndex' = blockIndex /\ canWrite' = canWrite /\ main' = main /\ exitThread' = exitThread

\* A thread that is started has no block and no right but that to read
\* (MtDec.c:545-581).
LEMMA HandedIs ==
  ASSUME Rights, Sizes, Content, NEW t \in Thread, HandRead(t)
  PROVE  \E k : HandedTo(t, k)
<1>1. pc[t] = "hand"
  BY DEF HandRead
<1>2. Reading(t) /\ Busy(t)
  BY <1>1 DEF Reading, Busy
<1>3. RingTypes
  BY DEF Rights
<1>4. numStarted > t
  BY <1>2, <1>3, MtDecAssumption DEF Rights, OnlyStarted, RingTypes, Thread
<1>5. PICK n \in 1 .. ThreadsMax, ends \in BOOLEAN :
        /\ n \in {numStarted, numStarted + 1} /\ numStarted' = n
        /\ loc'[t].finish = ends
        /\ canRead' = IF ends THEN canRead ELSE [canRead EXCEPT ![NextThread(t, n)] = TRUE]
        /\ pc' \in [Thread -> ThreadPc] /\ pc'[t] \in {"code", "waitWrite"}
        /\ \A u \in Thread \ {t} : pc'[u] = IF u = numStarted /\ n > u THEN "waitRead" ELSE pc[u]
        /\ loc'[t].block = loc[t].block
        /\ \A u \in Thread \ {t} : loc'[u] = loc[u]
        /\ UNCHANGED <<main, blockIndex, exitThread, canWrite, readWasFinished>>
  BY <1>3, <1>4, HandReadEffect
<1>6. PICK k : k = loc'[t]
  OBVIOUS
<1>7. canRead \in [Thread -> BOOLEAN]
  BY <1>3 DEF RingTypes
<1>8. canRead[t] = FALSE
  <2>1. HasRead(t)
    BY <1>1 DEF HasRead
  <2> QED
    BY <2>1, <1>7 DEF Rights, OneReads
<1>9. canRead' \in [Thread -> BOOLEAN]
  BY <1>5, <1>7
<1>10. canRead'[t] => ~ k.finish
  BY <1>5, <1>6, <1>8
<1>11. ASSUME NEW u \in Thread \ {t}
       PROVE  /\ loc'[u] = loc[u] /\ canRead[u] = FALSE /\ (canRead'[u] => ~ k.finish)
              /\ pc'[u] = pc[u] \/ (~ IsBusy(pc[u]) /\ pc'[u] = "waitRead" /\ canWrite[u] = FALSE)
  <2>1. canRead[u] = FALSE
    BY <1>2, OthersDoNotRead
  <2>2. canRead'[u] => ~ k.finish
    BY <2>1, <1>5, <1>6
  <2>3. CASE u = numStarted
    <3>1. u >= numStarted
      BY <2>3, <1>3 DEF RingTypes
    <3>2. ~ Busy(u) /\ ~ canWrite[u] /\ canWrite[u] \in BOOLEAN
      BY <3>1 DEF Rights, OnlyStarted, RingTypes
    <3>3. pc'[u] = pc[u] \/ pc'[u] = "waitRead"
      BY <1>5
    <3> QED
      BY <2>1, <2>2, <3>2, <3>3, <1>5 DEF Busy, IsBusy
  <2>4. CASE u # numStarted
    BY <2>1, <2>2, <2>4, <1>5
  <2> QED
    BY <2>3, <2>4
<1>12. pc'[0] = "ended" <=> pc[0] = "ended"
  <2>1. 0 \in Thread
    BY MtDecAssumption DEF Thread
  <2>2. CASE t = 0
    BY <2>2, <1>1, <1>5
  <2>3. CASE t # 0
    <3>1. main = "mt"
      BY <1>1, BusyRuns DEF IsBusy
    <3>2. 0 \in Thread \ {t} /\ numStarted > 0
      BY <2>1, <2>3, <3>1 DEF Rights, OnlyStarted
    <3>3. pc'[0] = pc[0]
      BY <3>2, <1>3, <1>5, MtDecAssumption DEF RingTypes
    <3> QED
      BY <3>3
  <2> QED
    BY <2>2, <2>3
<1>13. HandedTo(t, k)
  BY <1>1, <1>5, <1>6, <1>9, <1>10, <1>11, <1>12 DEF HandedTo
<1> QED
  BY <1>13, Zenon

\* Passing the right to read on keeps what is known of the blocks: the next one
\* begins where this one ends (MtDec.c:526-615).
LEMMA HandReadContent ==
  ASSUME Rights, Sizes, Content, NEW t \in Thread, HandRead(t)
  PROVE  Content'
<1>1. /\ input' = input /\ result' = result /\ out' = out /\ failed' = failed
      /\ pos' = pos /\ readWasFinished' = readWasFinished /\ readRes' = readRes
      /\ cross' = cross /\ outParsed' = outParsed /\ progressRes' = progressRes
      /\ wasInterrupted' = wasInterrupted /\ isAllocError' = isAllocError /\ overflow' = overflow
      /\ threadingError' = threadingError /\ inProcessed' = inProcessed
      /\ inBuf' = inBuf /\ coder' = coder /\ fresh' = fresh
  BY DEF HandRead, callerVars, csVars, writerVars, stVars
<1>2. /\ InputIs(input) /\ IsLocal(loc[t]) /\ IsCoder(coder[t]) /\ pos \in Nat /\ rd.pos = pos
      /\ input.outSize \in Nat /\ pc \in [Thread -> ThreadPc] /\ loc[t].block \in Nat
  BY TypesHere
<1>3. PICK k : HandedTo(t, k)
  BY HandedIs
<1>4. /\ k = loc'[t] /\ k.block = loc[t].block /\ pc'[t] \in {"code", "waitWrite"}
      /\ \A u \in Thread \ {t} :
           /\ loc'[u] = loc[u] /\ canRead[u] = FALSE /\ (canRead'[u] => ~ k.finish)
           /\ pc'[u] = pc[u] \/ (~ IsBusy(pc[u]) /\ pc'[u] = "waitRead" /\ canWrite[u] = FALSE)
      /\ canRead' \in [Thread -> BOOLEAN] /\ (canRead'[t] => ~ k.finish)
      /\ (pc'[0] = "ended" <=> pc[0] = "ended") /\ pc[t] = "hand"
      /\ blockIndex' = blockIndex /\ canWrite' = canWrite /\ main' = main /\ exitThread' = exitThread
  BY <1>3, Zenon DEF HandedTo
<1>5. PICK cc, st, alone :
        /\ Hands(loc[t], loc'[t], coder[t], cc, st, alone)
        /\ pc'[t] = IF loc'[t].needCode /\ ~ loc'[t].stop THEN "code" ELSE "waitWrite"
  BY HandReadIs
<1>6. Hands(loc[t], k, coder[t], cc, st, alone) /\ pc'[t] = (IF k.needCode /\ ~ k.stop THEN "code" ELSE "waitWrite")
  BY <1>4, <1>5
<1>7. main = "mt" /\ Reading(t) /\ IsBusy(pc[t])
  BY <1>4, BusyRuns DEF Reading, IsBusy
<1>8. Over' <=> Over
  BY <1>4 DEF Over
<1>9. Flags' = Flags /\ (Told => Told') /\ rd' = rd
  BY <1>1 DEF Flags, Told, Dry, rd
<1>10. Calm(t)
  <2>1. \A u \in Thread \ {t} : coder'[u] = coder[u] /\ inBuf'[u] = inBuf[u] /\ loc'[u] = loc[u]
                               /\ (pc'[u] = pc[u] \/ (~ IsBusy(pc[u]) /\ pc'[u] = "waitRead"))
    BY <1>1, <1>4
  <2>2. pc[t] # "write" /\ pc'[t] # "write" /\ main' = "mt" /\ failed \subseteq failed'
    BY <1>1, <1>4, <1>7
  <2> QED
    BY <2>1, <2>2, <1>1, <1>7, <1>8, <1>9, Zenon DEF Calm
<1>11. NoteAt(pc'[t], loc'[t], coder'[t], wasInterrupted')
  <2>1. NoteAt("hand", loc[t], coder[t], wasInterrupted)
    BY <1>4 DEF Content, Notes
  <2>2. NoteAt(pc'[t], k, coder[t], wasInterrupted)
    BY <2>1, <1>6, HandNote
  <2> QED
    BY <2>2, <1>1, <1>4
<1>12. DataTypes'
  BY <1>1 DEF Content, DataTypes
<1>13. Failures'
  BY <1>1, <1>4, <1>7, FailuresStay
<1>14. Flagged'
  BY <1>1, <1>7, <1>10, CalmFlagged
<1>15. Layout'
  <2> HIDE DEF rd
  <2>1. blockIndex \in Nat \ {0} /\ blockIndex = loc[t].block + 1 /\ canRead[t] = FALSE
    <3>1. HasRead(t)
      BY <1>4 DEF HasRead
    <3>2. blockIndex \in Nat \ {0} /\ canRead[t] \in BOOLEAN
      BY DEF Rights, RingTypes
    <3>3. loc[t].block = blockIndex - 1
      BY <3>1 DEF Rights, Blocks
    <3>4. ~ canRead[t]
      BY <3>1 DEF Rights, OneReads
    <3> QED
      BY <3>2, <3>3, <3>4
  <2>2. k.size \in Nat /\ k.size = loc[t].size
    BY <1>2, <1>6 DEF Hands, IsLocal
  <2>3. rd.cross \in Seq(Nat)
    BY DEF rd, Sizes, ReaderTypes
  <2>4. ASSUME NEW Q \in Places, Laid(Q)
        PROVE  \E R \in Places : \A u \in Thread : LaidNow(R, u)'
    <3>1. PICK p \in Nat : p = Q[loc[t].block]
      BY <1>2 DEF Places
    <3>2. PICK R \in Places : R = IF k.finish THEN Q ELSE [Q EXCEPT ![blockIndex] = p + k.size]
      <4>1. PICK q \in Nat : q = p + k.size
        BY <2>2
      <4>2. [Q EXCEPT ![blockIndex] = q] \in Places
        BY DEF Places
      <4> QED
        BY <4>1, <4>2
    <3>3. /\ \A b \in Nat : b # blockIndex => R[b] = Q[b]
          /\ ~ k.finish => R[blockIndex] = p + k.size
      BY <2>1, <3>2 DEF Places
    <3>4. HandAt(input, rd, p, loc[t], coder[t], inBuf[t]) /\ (canWrite[t] => inProcessed = p)
      <4>1. LaidNow(Q, t)
        BY <2>4, Zenon DEF Laid, LaidNow
      <4> QED
        BY <4>1, <3>1, <1>4, <1>7 DEF LaidNow, LaidAt
    <3>5. IF k.finish THEN LastAt(input, rd, p, k, coder[t], inBuf[t])
          ELSE MiddleAt(input, rd, p, k, coder[t], inBuf[t]) /\ AtStart(input, rd, p + k.size)
      BY <1>2, <1>6, <2>3, <3>4, HandKeeps
    <3>6. ~ k.finish => AtStart(input, rd, R[blockIndex])
      BY <3>3, <3>5
    <3>7. ASSUME NEW u \in Thread
          PROVE  LaidNow(R, u)'
      <4>1. CASE u = t
        <5>1. R[k.block] = p
          BY <2>1, <3>1, <3>3, <1>2, <1>4
        <5>2. ~ k.finish => R[k.block + 1] = p + k.size
          BY <2>1, <3>3, <1>4
        <5>3. pc'[t] = "waitWrite" => ~ (k.needCode /\ ~ k.stop)
          BY <1>6
        <5>4. IsBusy(pc'[t]) /\ IsWork(pc'[t])
          BY <1>4 DEF IsBusy, IsWork
        <5>5. PICK at \in {"code", "waitWrite"} : at = pc'[t]
          BY <1>4
        <5>6. at \notin {"read", "parse", "hand", "write"}
          BY <5>5
        <5>7. /\ canWrite[t] \/ at = "write" => inProcessed = IF IsBusy(at) THEN R[k.block] ELSE R[blockIndex]
              /\ canRead'[t] => AtStart(input, rd, R[blockIndex])
              /\ IsWork(at) /\ k.finish => LastAt(input, rd, R[k.block], k, coder[t], inBuf[t])
              /\ IsWork(at) /\ ~ k.finish => MiddleAt(input, rd, R[k.block], k, coder[t], inBuf[t])
                                             /\ R[k.block + 1] = R[k.block] + k.size
              /\ at \in {"waitWrite", "write"} /\ k.needCode /\ ~ k.stop /\ ~ k.alloc
                   => CodedAt(input, R[k.block], k, coder[t])
          BY <3>4, <3>5, <3>6, <5>1, <5>2, <5>3, <5>4, <5>5, <5>6, <1>4
        <5>8. LaidAt(input, rd, R, blockIndex, inProcessed, at, k, coder[t], inBuf[t], canRead'[t], canWrite[t])
          BY <5>6, <5>7, Zenon DEF LaidAt
        <5> QED
          BY <4>1, <5>5, <5>8, <1>1, <1>4, <1>9, Zenon DEF LaidNow
      <4>2. CASE u # t
        <5>1. u \in Thread \ {t}
          BY <4>2
        <5>2. /\ canRead[u] = FALSE /\ pc[u] \notin {"read", "parse", "hand"}
              /\ ~ (loc[u].finish /\ IsWork(pc[u]))
              /\ (canWrite[u] \/ pc[u] = "write" => IsBusy(pc[u]))
              /\ loc[u].block \in Nat /\ loc[u].size \in Nat
          BY <5>1, <1>7, OthersDoNotRead
        <5>3. LaidAt(input, rd, Q, blockIndex, inProcessed, pc[u], loc[u], coder[u], inBuf[u], FALSE, canWrite[u])
          <6>1. LaidNow(Q, u)
            BY <2>4, Zenon DEF Laid, LaidNow
          <6> QED
            BY <6>1, <5>2, Zenon DEF LaidNow
        <5>4. loc[u].block # blockIndex /\ (IsWork(pc[u]) => loc[u].block + 1 # blockIndex)
          <6>1. CASE IsBusy(pc[u])
            <7>1. Busy(u) /\ Busy(t)
              BY <6>1, <1>7 DEF Busy, IsBusy
            <7>2. loc[u].block \in 1 .. blockIndex - 1 /\ loc[u].block # loc[t].block
              BY <7>1, <5>1 DEF Rights, Blocks
            <7> QED
              BY <7>2, <2>1, <1>2
          <6>2. CASE ~ IsBusy(pc[u])
            <7>1. loc[u] = NoLoc
              BY <6>2 DEF Sizes, Locals, LocalAt
            <7>2. loc[u].block = 0
              BY <7>1 DEF NoLoc
            <7>3. ~ IsWork(pc[u])
              BY <6>2 DEF IsBusy, IsWork
            <7> QED
              BY <7>2, <7>3, <2>1
          <6> QED
            BY <6>1, <6>2
        <5>5. R[loc[u].block] = Q[loc[u].block] /\ (IsWork(pc[u]) => R[loc[u].block + 1] = Q[loc[u].block + 1])
          BY <5>2, <5>4, <3>3
        <5>6. rd.pos \in Nat /\ rd.pos <= rd.pos /\ input.kind \in Seq(Kinds)
          BY <1>2 DEF InputIs
        <5>7. LaidAt(input, rd, R, blockIndex, inProcessed, pc[u], loc[u], coder[u], inBuf[u], FALSE, canWrite[u])
          BY <5>2, <5>3, <5>5, <5>6, LaidLater
        <5>8. LaidAt(input, rd, R, blockIndex, inProcessed, pc'[u], loc[u], coder[u], inBuf[u], FALSE, canWrite[u])
          <6>1. CASE pc'[u] = pc[u]
            BY <6>1, <5>7
          <6>2. CASE ~ IsBusy(pc[u]) /\ pc'[u] = "waitRead" /\ canWrite[u] = FALSE
            <7>1. ~ IsBusy("waitRead")
              BY DEF IsBusy
            <7> QED
              BY <6>2, <7>1, LaidIdle
          <6> QED
            BY <6>1, <6>2, <5>1, <1>4
        <5>9. canRead'[u] => AtStart(input, rd, R[blockIndex])
          BY <5>1, <3>6, <1>4
        <5>10. LaidAt(input, rd, R, blockIndex, inProcessed, pc'[u], loc[u], coder[u], inBuf[u], canRead'[u], canWrite[u])
          BY <5>8, <5>9, LaidReads
        <5>11. loc'[u] = loc[u]
          BY <5>1, <1>4
        <5> QED
          BY <5>10, <5>11, <1>1, <1>4, <1>9, Zenon DEF LaidNow
      <4> QED
        BY <4>1, <4>2
    <3> QED
      BY <3>7
  <2>5. \A Q \in Places : Laid(Q) /\ ~ Told' /\ ~ Over' => \E R \in Places : \A u \in Thread : LaidNow(R, u)'
    BY <2>4, Zenon
  <2>6. Over => Over'
    BY <1>8
  <2> QED
    BY <2>5, <2>6, <1>1, <1>7, <1>9, LayoutStep, Zenon
<1> QED
  BY <1>10, <1>11, <1>12, <1>13, <1>14, <1>15, ContentIs, Zenon

-----------------------------------------------------------------------------
(* Decoding a block. *)

\* What a step leaves that concerns no block but that of t and reads nothing.
Aside(t) ==
  /\ main = "mt" /\ input' = input /\ out' = out /\ inProcessed' = inProcessed /\ rd' = rd
  /\ blockIndex' = blockIndex /\ (Told => Told') /\ (Over => Over')
  /\ \A u \in Thread \ {t} :
       /\ loc'[u] = loc[u] /\ coder'[u] = coder[u] /\ inBuf'[u] = inBuf[u] /\ pc'[u] = pc[u]
       /\ canRead'[u] = canRead[u] /\ canWrite'[u] = canWrite[u]

\* Such a step leaves the blocks where they are (MtDec.c:594-718).
LEMMA AsideLayout ==
  ASSUME Content, NEW t \in Thread, Aside(t),
         \A Q \in Places : LaidNow(Q, t) /\ ~ Told' => LaidNow(Q, t)'
  PROVE  Layout'
<1>1. /\ main = "mt" /\ input' = input /\ out' = out /\ inProcessed' = inProcessed /\ rd' = rd
      /\ blockIndex' = blockIndex /\ (Told => Told') /\ (Over => Over')
  BY DEF Aside
<1>2. ASSUME NEW u \in Thread \ {t}
      PROVE  /\ loc'[u] = loc[u] /\ coder'[u] = coder[u] /\ inBuf'[u] = inBuf[u] /\ pc'[u] = pc[u]
             /\ canRead'[u] = canRead[u] /\ canWrite'[u] = canWrite[u]
  BY DEF Aside
<1> HIDE DEF rd, Told, Over
<1>3. ASSUME NEW Q \in Places, Laid(Q), ~ Told'
      PROVE  \E R \in Places : \A u \in Thread : LaidNow(R, u)'
  <2>1. ASSUME NEW u \in Thread
        PROVE  LaidNow(Q, u)'
    <3>1. LaidNow(Q, u)
      BY <1>3, Zenon DEF Laid, LaidNow
    <3>2. CASE u = t
      <4>1. LaidNow(Q, t)
        BY <3>1, <3>2
      <4>2. LaidNow(Q, t)'
        BY <4>1, <1>3
      <4> QED
        BY <4>2, <3>2, Zenon
    <3>3. CASE u # t
      <4>1. /\ loc'[u] = loc[u] /\ coder'[u] = coder[u] /\ inBuf'[u] = inBuf[u] /\ pc'[u] = pc[u]
            /\ canRead'[u] = canRead[u] /\ canWrite'[u] = canWrite[u]
        BY <3>3, <1>2
      <4> QED
        BY <3>1, <4>1, <1>1, Zenon DEF LaidNow
    <3> QED
      BY <3>2, <3>3
  <2> QED
    BY <2>1, Zenon
<1>4. \A Q \in Places : Laid(Q) /\ ~ Told' /\ ~ Over' => \E R \in Places : \A u \in Thread : LaidNow(R, u)'
  BY <1>3, Zenon
<1> QED
  BY <1>1, <1>4, LayoutStep, Zenon

\* What Code makes of a block behind p with the locals l and the coder c.
DecodesTo(inp, p, l, c, k, e) ==
  LET d == Decode(inp.kind, Units(p, l.size), TRUE, c.outPre, Whole(c))
  IN /\ e.data = d.out /\ e.used = d.used
     /\ e.status = c.status /\ e.inPre = c.inPre /\ e.outPre = c.outPre
     /\ k.code = IF d.status = "error" THEN "data" ELSE "ok"

\* A block that was parsed decodes as far as was parsed, or to what cannot be
\* decoded (Lzma2DecMt.c:485-560).
LEMMA CodedIs ==
  ASSUME NEW inp, InputIs(inp), NEW p \in Nat, NEW l, IsLocal(l), NEW c, IsCoder(c), NEW k, NEW e,
         Parsed(inp, p, l, c), l.size # 0 => Begins(inp, p), p + l.size <= Len(inp.kind),
         DecodesTo(inp, p, l, c, k, e)
  PROVE  CodedAt(inp, p, k, e)
<1>1. PICK n \in Nat : n = l.size
  BY DEF IsLocal
<1>2. PICK o \in Nat : o = c.outPre
  BY DEF IsCoder
<1>3. Whole(c) \in BOOLEAN
  BY DEF Whole
<1>4. PICK mark \in BOOLEAN : mark = Whole(c)
  BY <1>3, Zenon
<1>5. PICK d : d = Decode(inp.kind, Units(p, n), TRUE, o, mark)
  OBVIOUS
<1>6. /\ e.data = d.out /\ e.used = d.used
      /\ e.status = c.status /\ e.inPre = c.inPre /\ e.outPre = c.outPre
      /\ k.code = IF d.status = "error" THEN "data" ELSE "ok"
  BY <1>1, <1>2, <1>4, <1>5 DEF DecodesTo
<1>7. DecodeHyp(inp.kind, p, n)
  BY <1>1 DEF DecodeHyp, InputIs
<1>8. TRUE \in BOOLEAN
  OBVIOUS
<1>9. \E m \in 0 .. n : DecodedTo(inp.kind, p, n, TRUE, o, mark, d, m)
  BY <1>5, <1>7, <1>8, DecodeAny, Zenon
<1>10. PICK m \in 0 .. n : DecodedTo(inp.kind, p, n, TRUE, o, mark, d, m)
  BY <1>9
<1>11. /\ m \in Nat /\ m <= n /\ m <= o /\ d.out = Units(p, m)
       /\ \A u \in p + 1 .. p + m : inp.kind[u] \in {"head", "body"}
       /\ m > 0 => inp.kind[p + 1] = "head"
       /\ d.status \in {"full", "more", "mark", "error"}
       /\ d.used = (IF d.status = "mark" THEN m + 1 ELSE m)
       /\ d.status = "full" => ~ mark /\ m = o
       /\ d.status # "full" => mark \/ m < o
       /\ d.status = "more" => m = n
       /\ d.status \in {"mark", "error"} => m < n
       /\ d.status = "mark" => inp.kind[p + m + 1] = "end"
       /\ d.status = "error" =>
            /\ inp.kind[p + m + 1] # "end"
            /\ \/ inp.kind[p + m + 1] \in {"bad", "alien"} \/ m = o
               \/ m = 0 /\ inp.kind[p + 1] # "head"
  BY <1>10 DEF DecodedTo
<1>12. /\ n = c.inPre /\ \A u \in p + 1 .. p + o : inp.kind[u] \notin {"end", "alien"}
       /\ c.status \in {"more", "new", "mark", "notSpecified", "notFinished"}
       /\ c.status \in {"more", "new", "notFinished"} => n = o
       /\ c.status \in {"mark", "notSpecified"} =>
            n = o + 1 /\ inp.kind[p + n] = IF c.status = "mark" THEN "end" ELSE "alien"
  BY <1>1, <1>2 DEF Parsed, Chunks
<1>13. mark <=> c.status \in {"mark", "new"}
  BY <1>4 DEF Whole
<1>14. m < o => inp.kind[p + m + 1] \notin {"end", "alien"}
  <2>1. ASSUME m < o
        PROVE  p + m + 1 \in p + 1 .. p + o
    BY <2>1, <1>11
  <2> QED
    BY <2>1, <1>12
<1>15. m = o /\ n = o + 1 => inp.kind[p + m + 1] = inp.kind[p + n]
  <2>1. m = o /\ n = o + 1 => p + m + 1 = p + n
    OBVIOUS
  <2> QED
    BY <2>1
<1>16. Len(Units(p, m)) = m
  BY <1>11, UnitsAre
<1>17. Len(e.data) = m /\ e.data = Units(p, m)
  BY <1>6, <1>11, <1>16
<1>18. CASE d.status = "error"
  <2>1. m < o
    BY <1>11, <1>12, <1>13, <1>15, <1>18
  <2>2. inp.kind[p + m + 1] = "bad" \/ (m = 0 /\ inp.kind[p + 1] # "head")
    BY <2>1, <1>11, <1>14, <1>18
  <2>3. m = 0 /\ inp.kind[p + 1] # "head" => p = 0 /\ inp.kind[1] # "head"
    <3>1. l.size # 0
      BY <1>1, <1>11, <1>18
    <3>2. p = 0 \/ inp.kind[p + 1] = "head"
      BY <3>1 DEF Begins
    <3> QED
      BY <3>2
  <2>4. k.code = "data" /\ e.used = m /\ m < e.outPre
    BY <2>1, <1>2, <1>6, <1>11, <1>18
  <2>5. inp.kind[p + m + 1] = "bad" \/ (p = 0 /\ m = 0 /\ inp.kind[1] # "head")
    BY <2>2, <2>3
  <2>6. p = 0 /\ m > 0 => inp.kind[1] = "head"
    BY <1>11
  <2> QED
    BY <2>4, <2>5, <2>6, <1>11, <1>17 DEF CodedAt
<1>19. CASE d.status # "error"
  <2>1. m = o /\ (d.status = "mark" => c.status = "mark")
    BY <1>11, <1>12, <1>13, <1>14, <1>15, <1>19
  <2>2. d.used = (IF c.status = "notSpecified" THEN m ELSE c.inPre)
    BY <2>1, <1>11, <1>12, <1>13, <1>19
  <2>3. k.code = "ok" /\ m = e.outPre /\ e.used = (IF e.status = "notSpecified" THEN m ELSE e.inPre)
    BY <2>1, <2>2, <1>2, <1>6, <1>19
  <2>6. p = 0 /\ m > 0 => inp.kind[1] = "head"
    BY <1>11
  <2> QED
    BY <2>3, <2>6, <1>11, <1>17 DEF CodedAt
<1> QED
  BY <1>18, <1>19

\* What there is of a block whose thread has passed the right to read on, or
\* keeps it.
BlockAt(inp, r, p, l, c, L) ==
  IF l.finish THEN LastAt(inp, r, p, l, c, L) ELSE MiddleAt(inp, r, p, l, c, L)

\* The buffer holds the block that is to be decoded (MtDec.c:613-655).
LEMMA CodeData ==
  ASSUME InBufIs, NEW inp, NEW r, r.pos \in Nat, r.cross \in Seq(Nat), NEW p \in Nat,
         NEW l, IsLocal(l), NEW c, NEW L \in Links, BlockAt(inp, r, p, l, c, L),
         ~ l.stop, ~ l.alloc, ~ l.over
  PROVE  /\ Parsed(inp, p, l, c) /\ (l.size # 0 => Begins(inp, p)) /\ p + l.size <= r.pos
         /\ Data(L, l.first, l.size) = Units(p, l.size)
<1>1. Parsed(inp, p, l, c) /\ LinkedAt(inp, p, l, L) /\ p + l.size <= r.pos
  <2>1. CASE l.finish
    <3>1. ParsedAt(inp, r, p, l, c, L)
      BY <2>1 DEF BlockAt, LastAt, WholeAt
    <3>2. p + l.size + Len(r.cross) <= r.pos /\ Parsed(inp, p, l, c) /\ LinkedAt(inp, p, l, L)
      BY <3>1 DEF ParsedAt, CrossAt
    <3>3. PICK n, s \in Nat : n = Len(r.cross) /\ s = l.size
      BY DEF IsLocal
    <3>4. p + s + n <= r.pos
      BY <3>2, <3>3
    <3>5. p + s <= r.pos
      BY <3>4
    <3> QED
      BY <3>2, <3>3, <3>5
  <2>2. CASE ~ l.finish
    BY <2>2 DEF BlockAt, MiddleAt
  <2> QED
    BY <2>1, <2>2
<1>2. l.size # 0 => Begins(inp, p) /\ l.first >= 1 /\ Linked(L, p, l.first, l.size)
  BY <1>1 DEF LinkedAt
<1>3. l.size \in Nat /\ l.first \in Nat
  BY DEF IsLocal
<1>4. CASE l.size = 0
  <2>1. Units(p, 0) = <<>>
    BY DEF Units
  <2>2. Data(L, l.first, l.size) = <<>>
    BY <1>4 DEF Data
  <2> QED
    BY <2>1, <2>2, <1>1, <1>4
<1>5. CASE l.size # 0
  <2>1. Data(L, l.first, l.size) = Units(p, l.size)
    BY <1>2, <1>3, <1>5, DataIs
  <2> QED
    BY <2>1, <1>1, <1>2
<1> QED
  BY <1>4, <1>5

\* The locals k are those of l but for stop, code and next.
SameBlock(l, k) ==
  /\ k.block = l.block /\ k.size = l.size /\ k.first = l.first /\ k.finish = l.finish
  /\ k.needCode = l.needCode /\ k.needWrite = l.needWrite /\ k.alloc = l.alloc /\ k.over = l.over
  /\ k.thread = l.thread /\ k.write = l.write

\* The coder e is c but for what it has decoded.
SameParse(c, e) == e.status = c.status /\ e.inPre = c.inPre /\ e.outPre = c.outPre

\* Decoding does not change what there is of a block (Lzma2DecMt.c:485-560).
LEMMA BlockStays ==
  ASSUME NEW inp, NEW r, NEW p, NEW l, NEW c, NEW L, NEW k, NEW e,
         BlockAt(inp, r, p, l, c, L), l.needCode, l.code = "ok", ~ l.stop,
         SameBlock(l, k), SameParse(c, e), k.code \in {"ok", "data"}
  PROVE  BlockAt(inp, r, p, k, e, L)
<1>1. /\ k.block = l.block /\ k.size = l.size /\ k.first = l.first /\ k.finish = l.finish
      /\ k.needCode = l.needCode /\ k.needWrite = l.needWrite /\ k.alloc = l.alloc /\ k.over = l.over
      /\ k.thread = l.thread
      /\ e.status = c.status /\ e.inPre = c.inPre /\ e.outPre = c.outPre
  BY DEF SameBlock, SameParse
<1>2. Parsed(inp, p, k, e) = Parsed(inp, p, l, c)
  BY <1>1, Zenon DEF Parsed
<1>3. LinkedAt(inp, p, k, L) = LinkedAt(inp, p, l, L)
  BY <1>1, Zenon DEF LinkedAt
<1>4. WholeAt(inp, r, p, k, L) = WholeAt(inp, r, p, l, L)
  BY <1>1, <1>3, Zenon DEF WholeAt
<1>5. ParsedAt(inp, r, p, k, e, L) = ParsedAt(inp, r, p, l, c, L)
  BY <1>1, <1>2, <1>3, Zenon DEF ParsedAt
<1>6. CASE l.finish
  <2>1. \/ WholeAt(inp, r, p, l, L)
        \/ /\ ParsedAt(inp, r, p, l, c, L)
           /\ l.thread => c.status = "new"
           /\ c.status = "new" => l.thread
    BY <1>6 DEF BlockAt, LastAt
  <2>2. LastAt(inp, r, p, k, e, L)
    BY <2>1, <1>1, <1>4, <1>5 DEF LastAt
  <2> QED
    BY <2>2, <1>1, <1>6 DEF BlockAt
<1>7. CASE ~ l.finish
  <2>1. MiddleAt(inp, r, p, l, c, L)
    BY <1>7 DEF BlockAt
  <2>2. MiddleAt(inp, r, p, k, e, L)
    BY <2>1, <1>1, <1>2, <1>3 DEF MiddleAt
  <2> QED
    BY <2>2, <1>1, <1>7 DEF BlockAt
<1> QED
  BY <1>6, <1>7

\* A block that has been decoded, or not because the thread stops, waits for
\* the right to write (MtDec.c:594-664).
LEMMA CodeLaid ==
  ASSUME InBufIs, NEW inp, InputIs(inp), NEW r, r.pos \in Nat, r.pos <= Len(inp.kind), r.cross \in Seq(Nat),
         NEW Q \in Places, NEW bi, NEW ip, NEW l, IsLocal(l), l.block \in Nat, NEW c, IsCoder(c), NEW L \in Links,
         NEW reads, NEW writes, NEW k, NEW e,
         LaidAt(inp, r, Q, bi, ip, "code", l, c, L, reads, writes),
         l.needCode, l.code = "ok", ~ l.stop, ~ l.over,
         SameBlock(l, k), SameParse(c, e), k.code \in {"ok", "data"},
         \A p \in Nat : Data(L, l.first, l.size) = Units(p, l.size) => k.stop \/ DecodesTo(inp, p, l, c, k, e)
  PROVE  LaidAt(inp, r, Q, bi, ip, "waitWrite", k, e, L, reads, writes)
<1>1. PICK p \in Nat : p = Q[l.block]
  BY DEF Places
<1>2. IsBusy("code") /\ IsWork("code") /\ IsBusy("waitWrite") /\ IsWork("waitWrite")
  BY DEF IsBusy, IsWork
<1>3. /\ writes => ip = p
      /\ reads => AtStart(inp, r, Q[bi])
      /\ l.finish => LastAt(inp, r, p, l, c, L)
      /\ ~ l.finish => MiddleAt(inp, r, p, l, c, L) /\ Q[l.block + 1] = p + l.size
  BY <1>1, <1>2, Zenon DEF LaidAt
<1>4. BlockAt(inp, r, p, l, c, L)
  BY <1>3 DEF BlockAt
<1>5. BlockAt(inp, r, p, k, e, L)
  BY <1>4, BlockStays
<1>6. k.block = l.block /\ k.size = l.size /\ k.finish = l.finish /\ k.alloc = l.alloc
  BY DEF SameBlock
<1>7. ASSUME ~ k.stop, ~ k.alloc
      PROVE  CodedAt(inp, p, k, e)
  <2>1. /\ Parsed(inp, p, l, c) /\ (l.size # 0 => Begins(inp, p)) /\ p + l.size <= r.pos
        /\ Data(L, l.first, l.size) = Units(p, l.size)
    BY <1>4, <1>6, <1>7, CodeData
  <2>2. DecodesTo(inp, p, l, c, k, e)
    BY <2>1, <1>7
  <2>3. p + l.size <= Len(inp.kind)
    BY <2>1 DEF IsLocal, InputIs
  <2> QED
    BY <2>1, <2>2, <2>3, CodedIs
<1>8. Q[k.block] = p /\ Q[k.block + 1] = Q[l.block + 1]
  BY <1>1, <1>6
<1>9. /\ k.finish => LastAt(inp, r, p, k, e, L)
      /\ ~ k.finish => MiddleAt(inp, r, p, k, e, L) /\ Q[k.block + 1] = p + k.size
  BY <1>3, <1>5, <1>6, <1>8 DEF BlockAt
<1>10. "waitWrite" \notin {"read", "parse", "hand", "write"}
  OBVIOUS
<1> QED
  BY <1>2, <1>3, <1>7, <1>8, <1>9, <1>10, Zenon DEF LaidAt

\* What decoding does: the thread t gets the locals k and the coder e.
Codes(t, k, e, f) ==
  /\ k = loc'[t] /\ e = coder'[t] /\ f \in BOOLEAN
  /\ SameBlock(loc[t], k) /\ SameParse(coder[t], e) /\ k.code \in {"ok", "data"}
  /\ progressRes' = (IF f THEN "progress" ELSE progressRes)
  /\ failed' = failed \cup Kind(f, "progress")
  /\ \A u \in Thread \ {t} : loc'[u] = loc[u] /\ coder'[u] = coder[u]
  /\ \/ k.stop \/ progressRes' # "ok"
     \/ \A p \in Nat : Data(inBuf[t], loc[t].first, loc[t].size) = Units(p, loc[t].size) =>
                         DecodesTo(input, p, loc[t], coder[t], k, e)

\* The two ends of Code.
CodeNow(t) ==
  LET c == coder[t]
      d == Decode(input.kind, Data(inBuf[t], loc[t].first, loc[t].size), TRUE, c.outPre, Whole(c))
  IN /\ coder' = [coder EXCEPT ![t].data = d.out, ![t].used = d.used]
     /\ IF d.status = "error"
          THEN Interrupt(t) /\ loc' = [loc EXCEPT ![t].code = "data"]
          ELSE UNCHANGED <<interrupt, loc>>
     /\ UNCHANGED <<progressRes, faultVars>>

StopNow(t, f) ==
  /\ Progress(f) /\ Failing(Count(f)) /\ Fatal(Kind(f, "progress"))
  /\ progressRes' # "ok" \/ Interrupted(t)
  /\ loc' = [loc EXCEPT ![t].stop = Interrupted(t)]

\* The block decodes to the end, or the thread stops (MtDec.c:613-659).
LEMMA CodeIs ==
  ASSUME Rights, Sizes, Content, NEW t \in Thread, Code(t)
  PROVE  \E k, e, f : Codes(t, k, e, f)
<1>1. /\ DOMAIN loc = Thread /\ DOMAIN loc[t] = LocFields /\ DOMAIN coder = Thread
      /\ DOMAIN coder[t] = CoderFields
  BY TypesHere DEF IsCoder
<1>2. loc[t].code = "ok"
  BY DEF Code, Sizes, Locals, LocalAt
<1>3. PICK k, e : k = loc'[t] /\ e = coder'[t]
  OBVIOUS
<1>4. CASE CodeNow(t)
  <2>1. PICK d : d = Decode(input.kind, Data(inBuf[t], loc[t].first, loc[t].size), TRUE,
                            coder[t].outPre, Whole(coder[t]))
    OBVIOUS
  <2>2. coder' = [coder EXCEPT ![t].data = d.out, ![t].used = d.used]
    BY <1>4, <2>1, Zenon DEF CodeNow
  <2>3. /\ d.status = "error" => loc' = [loc EXCEPT ![t].code = "data"]
        /\ d.status # "error" => loc' = loc
    BY <1>4, <2>1 DEF CodeNow
  <2>4. progressRes' = progressRes /\ failed' = failed
    BY <1>4 DEF CodeNow, faultVars
  <2>5. /\ e.data = d.out /\ e.used = d.used /\ e.status = coder[t].status
        /\ e.inPre = coder[t].inPre /\ e.outPre = coder[t].outPre
        /\ \A u \in Thread \ {t} : coder'[u] = coder[u]
    BY <2>2, <1>1, <1>3 DEF CoderFields
  <2>6. /\ k.code = (IF d.status = "error" THEN "data" ELSE "ok")
        /\ k.block = loc[t].block /\ k.size = loc[t].size /\ k.first = loc[t].first
        /\ k.finish = loc[t].finish /\ k.needCode = loc[t].needCode /\ k.needWrite = loc[t].needWrite
        /\ k.alloc = loc[t].alloc /\ k.over = loc[t].over /\ k.thread = loc[t].thread /\ k.write = loc[t].write
        /\ \A u \in Thread \ {t} : loc'[u] = loc[u]
    BY <2>3, <1>1, <1>2, <1>3 DEF LocFields
  <2>7. ASSUME NEW p \in Nat, Data(inBuf[t], loc[t].first, loc[t].size) = Units(p, loc[t].size)
        PROVE  DecodesTo(input, p, loc[t], coder[t], k, e)
    <3>1. d = Decode(input.kind, Units(p, loc[t].size), TRUE, coder[t].outPre, Whole(coder[t]))
      BY <2>1, <2>7, Zenon
    <3> QED
      BY <3>1, <2>5, <2>6, Zenon DEF DecodesTo
  <2>8. SameBlock(loc[t], k) /\ SameParse(coder[t], e) /\ k.code \in {"ok", "data"}
    BY <2>5, <2>6 DEF SameBlock, SameParse
  <2>9. failed' = failed \cup Kind(FALSE, "progress")
    BY <2>4 DEF Kind
  <2>10. progressRes' = (IF FALSE THEN "progress" ELSE progressRes) /\ FALSE \in BOOLEAN
    BY <2>4
  <2> HIDE DEF Kind
  <2>11. Codes(t, k, e, FALSE)
    BY <2>5, <2>6, <2>7, <2>8, <2>9, <2>10, <1>3, Zenon DEF Codes
  <2> QED
    BY <2>11, Zenon
<1>5. ASSUME NEW f \in MayFail("progress"), StopNow(t, f), coder' = coder
      PROVE  Codes(t, k, e, f)
  <2>1. f \in BOOLEAN
    BY MayFailIs
  <2>2. PICK st \in BOOLEAN : st = Interrupted(t)
    BY DEF Interrupted
  <2>3. /\ progressRes' = (IF f THEN "progress" ELSE progressRes)
        /\ failed' = failed \cup Kind(f, "progress")
        /\ loc' = [loc EXCEPT ![t].stop = st]
        /\ progressRes' # "ok" \/ st
    BY <1>5, <2>2 DEF StopNow, Progress, Fatal
  <2>4. /\ k.code = "ok" /\ k.stop = st
        /\ k.block = loc[t].block /\ k.size = loc[t].size /\ k.first = loc[t].first
        /\ k.finish = loc[t].finish /\ k.needCode = loc[t].needCode /\ k.needWrite = loc[t].needWrite
        /\ k.alloc = loc[t].alloc /\ k.over = loc[t].over /\ k.thread = loc[t].thread /\ k.write = loc[t].write
        /\ \A u \in Thread \ {t} : loc'[u] = loc[u]
    BY <2>3, <1>1, <1>2, <1>3 DEF LocFields
  <2>5. SameBlock(loc[t], k) /\ SameParse(coder[t], e) /\ k.code \in {"ok", "data"}
    BY <2>4, <1>3, <1>5 DEF SameBlock, SameParse
  <2>6. k.stop \/ progressRes' # "ok"
    BY <2>3, <2>4
  <2>7. \A u \in Thread \ {t} : loc'[u] = loc[u] /\ coder'[u] = coder[u]
    BY <2>4, <1>5
  <2> HIDE DEF Kind
  <2> QED
    BY <2>1, <2>3, <2>5, <2>6, <2>7, <1>3, Zenon DEF Codes
<1>6. \/ CodeNow(t)
      \/ coder' = coder /\ \E f \in MayFail("progress") : StopNow(t, f)
  BY Zenon DEF Code, CodeNow, StopNow
<1> QED
  BY <1>4, <1>5, <1>6, Zenon

\* Decoding a block keeps what is known of it (MtDec.c:594-659).
LEMMA CodeContent ==
  ASSUME Rights, Sizes, Content, NEW t \in Thread, Code(t)
  PROVE  Content'
<1>1. /\ pc[t] = "code" /\ pc' = [pc EXCEPT ![t] = "waitWrite"]
      /\ main' = main /\ input' = input /\ result' = result /\ out' = out
      /\ pos' = pos /\ readWasFinished' = readWasFinished /\ readRes' = readRes /\ blockIndex' = blockIndex
      /\ cross' = cross /\ outParsed' = outParsed
      /\ wasInterrupted' = wasInterrupted /\ isAllocError' = isAllocError /\ overflow' = overflow
      /\ threadingError' = threadingError /\ exitThread' = exitThread /\ inProcessed' = inProcessed
      /\ canRead' = canRead /\ canWrite' = canWrite /\ inBuf' = inBuf /\ fresh' = fresh
  BY DEF Code, Goto, callerVars, readerVars, writerVars, stVars
<1>2. /\ InBufIs /\ InputIs(input) /\ IsLocal(loc[t]) /\ IsCoder(coder[t]) /\ inBuf[t] \in Links
      /\ pos \in Nat /\ rd.pos = pos /\ pc \in [Thread -> ThreadPc] /\ loc[t].block \in Nat
  BY TypesHere
<1>3. main = "mt" /\ IsBusy(pc[t])
  BY <1>1, BusyRuns DEF IsBusy
<1>4. PICK k, e, f : Codes(t, k, e, f)
  BY CodeIs
<1>5. /\ k = loc'[t] /\ e = coder'[t] /\ f \in BOOLEAN
      /\ SameBlock(loc[t], k) /\ SameParse(coder[t], e) /\ k.code \in {"ok", "data"}
      /\ progressRes' = (IF f THEN "progress" ELSE progressRes)
      /\ failed' = failed \cup Kind(f, "progress")
      /\ \A u \in Thread \ {t} : loc'[u] = loc[u] /\ coder'[u] = coder[u]
      /\ \/ k.stop \/ progressRes' # "ok"
         \/ \A p \in Nat : Data(inBuf[t], loc[t].first, loc[t].size) = Units(p, loc[t].size) =>
                             DecodesTo(input, p, loc[t], coder[t], k, e)
  BY <1>4, Zenon DEF Codes
<1>6. pc'[t] = "waitWrite" /\ \A u \in Thread \ {t} : pc'[u] = pc[u]
  BY <1>1, <1>2
<1>7. Over' <=> Over
  <2>1. pc'[0] = "ended" <=> pc[0] = "ended"
    BY <1>1, <1>2, MtDecAssumption DEF Thread
  <2> QED
    BY <2>1, <1>1 DEF Over
<1>8. Flags' = Flags /\ (Told => Told') /\ rd' = rd /\ (~ Told' => progressRes' = "ok")
  BY <1>1, <1>5 DEF Flags, Told, Dry, rd
<1>9. failed \subseteq failed' /\ failed' \subseteq failed \cup {"progress"} /\ (f => "progress" \in failed')
  BY <1>5 DEF Kind
<1>10. Calm(t)
  BY <1>1, <1>3, <1>5, <1>6, <1>7, <1>8, <1>9 DEF Calm
<1>11. /\ loc[t].needCode /\ loc[t].needWrite /\ ~ loc[t].over /\ ~ loc[t].write
  <2>1. NoteAt("code", loc[t], coder[t], wasInterrupted)
    BY <1>1 DEF Content, Notes
  <2>2. IsWork("code")
    BY DEF IsWork
  <2> QED
    BY <2>1, <2>2 DEF NoteAt
<1>12. loc[t].code = "ok" /\ ~ loc[t].stop
  BY <1>1 DEF Sizes, Locals, LocalAt
<1>13. NoteAt(pc'[t], loc'[t], coder'[t], wasInterrupted')
  <2>1. k.needCode /\ k.needWrite /\ ~ k.over /\ ~ k.write
    BY <1>5, <1>11 DEF SameBlock
  <2>2. NoteAt("waitWrite", k, e, wasInterrupted)
    BY <2>1, <1>5 DEF NoteAt
  <2> QED
    BY <2>2, <1>1, <1>5, <1>6
<1>14. DataTypes'
  BY <1>1 DEF Content, DataTypes
<1>15. Failures'
  <2>1. progressRes' # "ok" => progressRes # "ok" \/ "progress" \in failed'
    BY <1>5, <1>9
  <2>2. failed' \subseteq failed \cup {"write", "progress"}
    BY <1>9
  <2> QED
    BY <2>1, <2>2, <1>1, <1>3, <1>9, FailuresStay
<1>16. Flagged'
  BY <1>3, <1>5, <1>10, CalmFlagged
<1>17. Layout'
  <2>1. rd.cross \in Seq(Nat) /\ pos <= Len(input.kind)
    BY <1>3 DEF rd, Sizes, ReaderTypes
  <2>2. Aside(t)
    BY <1>1, <1>3, <1>5, <1>6, <1>7, <1>8 DEF Aside
  <2> HIDE DEF rd
  <2>3. ASSUME NEW Q \in Places, LaidNow(Q, t), ~ Told'
        PROVE  LaidNow(Q, t)'
    <3>1. LaidAt(input, rd, Q, blockIndex, inProcessed, "code", loc[t], coder[t], inBuf[t], canRead[t], canWrite[t])
      BY <2>3, <1>1, Zenon DEF LaidNow
    <3>2. \A p \in Nat : Data(inBuf[t], loc[t].first, loc[t].size) = Units(p, loc[t].size) =>
                             k.stop \/ DecodesTo(input, p, loc[t], coder[t], k, e)
      BY <2>3, <1>5, <1>8
    <3>3. LaidAt(input, rd, Q, blockIndex, inProcessed, "waitWrite", k, e, inBuf[t], canRead[t], canWrite[t])
      BY <2>1, <3>1, <3>2, <1>2, <1>5, <1>11, <1>12, CodeLaid, Zenon
    <3> QED
      BY <3>3, <1>1, <1>5, <1>6, <1>8, Zenon DEF LaidNow
  <2>4. \A Q \in Places : LaidNow(Q, t) /\ ~ Told' => LaidNow(Q, t)'
    BY <2>3, Zenon
  <2> QED
    BY <2>2, <2>4, AsideLayout, Zenon
<1> QED
  BY <1>10, <1>13, <1>14, <1>15, <1>16, <1>17, ContentIs, Zenon

-----------------------------------------------------------------------------
(* What a block that is written comes to. *)

\* A decoded block goes on with the output, and where it does not decode or
\* the stream ends nothing is left to do (Lzma2DecMt.c:485-637).
LEMMA CodedWrites ==
  ASSUME NEW inp, InputIs(inp), NEW p \in Nat, NEW l, IsLocal(l), NEW c, IsCoder(c),
         Parsed(inp, p, l, c), CodedAt(inp, p, l, c), Sound(inp, p), l.needWrite,
         NEW b, l.code # "ok" \/ b = FALSE, NEW fl
  PROVE  WriteAt(inp, p, p, b, fl, l, c)
<1>1. PICK m, o, n \in Nat : m = Len(c.data) /\ o = c.outPre /\ n = c.inPre
  BY DEF IsCoder, CodedAt
<1>2. PICK len, size \in Nat : len = Len(inp.kind) /\ size = inp.outSize
  BY DEF InputIs
<1>3. /\ l.code \in {"ok", "data"} /\ c.data = Units(p, m)
      /\ \A u \in p + 1 .. p + m : inp.kind[u] \in {"head", "body"}
      /\ p = 0 /\ m > 0 => inp.kind[1] = "head"
      /\ l.code = "ok" => m = o /\ c.used = IF c.status = "notSpecified" THEN m ELSE n
      /\ l.code = "data" =>
           /\ m < o /\ c.used = m
           /\ inp.kind[p + m + 1] = "bad" \/ (p = 0 /\ m = 0 /\ inp.kind[1] # "head")
  BY <1>1 DEF CodedAt
<1>4. /\ p + o <= len /\ p + o <= size
      /\ \A u \in p + 1 .. p + o : inp.kind[u] \notin {"end", "alien"}
      /\ c.status \in {"more", "new", "mark", "notSpecified", "notFinished"}
      /\ c.status \in {"more", "new", "notFinished"} => n = o
      /\ c.status \in {"mark", "notSpecified"} =>
           n = o + 1 /\ p + n <= len /\ inp.kind[p + n] = IF c.status = "mark" THEN "end" ELSE "alien"
      /\ c.status = "notFinished" => ~ inp.finish /\ p + o = size
  BY <1>1, <1>2 DEF Parsed, Chunks
<1>5. m <= o
  BY <1>3
<1>6. Sound(inp, p + m)
  <2>1. p + m <= Len(inp.kind) /\ p + m <= inp.outSize
    BY <1>2, <1>4, <1>5
  <2> QED
    BY <2>1, <1>3, SoundMore
<1>7. PICK k \in Nat : k = p + m
  OBVIOUS
<1>8. CASE l.code = "ok" /\ c.status \in {"more", "new"}
  <2>1. c.used = m /\ ~ b
    BY <1>3, <1>4, <1>8
  <2> QED
    BY <2>1, <1>1, <1>3, <1>6, <1>8 DEF WriteAt
<1>9. CASE l.code = "ok" /\ c.status = "mark"
  <2>1. c.used = m + 1 /\ k + 1 = p + n /\ k + 1 <= len /\ p + c.used = k + 1
    BY <1>3, <1>4, <1>7, <1>9
  <2>2. k < len /\ inp.kind[k + 1] = "end"
    BY <2>1, <1>4, <1>9
  <2>3. Complete(inp, k, p + c.used)
    BY <2>1, <2>2, <1>2, <1>6, <1>7 DEF Complete
  <2>4. Settled(inp, p + m, p + c.used, fl)
    BY <2>3, <1>7 DEF Settled
  <2> QED
    BY <2>4, <1>1, <1>3, <1>6, <1>9 DEF WriteAt
<1>10. CASE l.code = "ok" /\ c.status = "notSpecified"
  <2>1. c.used = m /\ k + 1 = p + n /\ k + 1 <= len /\ p + c.used = k /\ k <= size
    BY <1>3, <1>4, <1>7, <1>10
  <2>2. k < len /\ inp.kind[k + 1] = "alien"
    BY <2>1, <1>4, <1>10
  <2>3. Complete(inp, k, p + c.used)
    <3>1. CASE k < size
      <4>1. Stuck(inp, k)
        BY <3>1, <2>2, <1>2 DEF Stuck
      <4> QED
        BY <4>1, <2>1, <1>6, <1>7 DEF Complete
    <3>2. CASE k = size /\ inp.finish
      <4>1. Stuck(inp, k)
        BY <3>2, <2>2, <1>2 DEF Stuck
      <4> QED
        BY <4>1, <2>1, <1>6, <1>7 DEF Complete
    <3>3. CASE k = size /\ ~ inp.finish
      BY <3>3, <1>2, <1>6, <1>7 DEF Complete
    <3> QED
      BY <3>1, <3>2, <3>3, <2>1
  <2>4. Settled(inp, p + m, p + c.used, fl)
    BY <2>3, <1>7 DEF Settled
  <2> QED
    BY <2>4, <1>1, <1>3, <1>6, <1>10 DEF WriteAt
<1>11. CASE l.code = "ok" /\ c.status = "notFinished"
  <2>1. ~ inp.finish /\ k = size
    BY <1>3, <1>4, <1>7, <1>11
  <2>2. Complete(inp, k, p + c.used)
    BY <2>1, <1>2, <1>6, <1>7 DEF Complete
  <2>3. Settled(inp, p + m, p + c.used, fl)
    BY <2>2, <1>7 DEF Settled
  <2> QED
    BY <2>3, <1>1, <1>3, <1>6, <1>11 DEF WriteAt
<1>12. CASE l.code = "data"
  <2>1. c.used = m /\ k < len /\ k < size /\ p + c.used = k /\ k + 1 \in p + 1 .. p + o
    BY <1>3, <1>4, <1>7, <1>12
  <2>2. inp.kind[k + 1] = "bad" \/ (k = 0 /\ inp.kind[1] \notin {"head", "end"})
    BY <2>1, <1>3, <1>4, <1>7, <1>12
  <2>3. Stuck(inp, k)
    BY <2>1, <2>2, <1>2 DEF Stuck
  <2>4. Complete(inp, k, p + c.used)
    BY <2>1, <2>3, <1>6, <1>7 DEF Complete
  <2>5. Settled(inp, p + m, p + c.used, fl)
    BY <2>4, <1>7 DEF Settled
  <2> QED
    BY <2>5, <1>1, <1>3, <1>6, <1>12 DEF WriteAt
<1> QED
  BY <1>3, <1>4, <1>8, <1>9, <1>10, <1>11, <1>12

\* A block that was not decoded writes nothing.
LEMMA PlainWrites ==
  ASSUME NEW inp, NEW k \in Nat, NEW ip \in Nat, Sound(inp, k), NEW l, NEW c, l.needWrite, NEW b, NEW fl,
         c.data = <<>>, c.used = 0, l.code # "ok", Settled(inp, k, ip, fl)
  PROVE  WriteAt(inp, k, ip, b, fl, l, c)
<1>1. Len(c.data) = 0 /\ k + 0 = k /\ ip + 0 = ip /\ Units(k, 0) = <<>>
  BY DEF Units
<1> QED
  BY <1>1 DEF WriteAt

\* An empty block is the end of what can be decoded (Lzma2DecMt.c:414-470).
LEMMA EmptySettled ==
  ASSUME NEW inp, InputIs(inp), NEW r, r.pos \in Nat, NEW p \in Nat, NEW l, NEW c, IsCoder(c), NEW L,
         ParsedAt(inp, r, p, l, c, L), c.inPre = 0, Sound(inp, p),
         NEW fl, r.dry => r.pos = Len(inp.kind) \/ fl # {}
  PROVE  Settled(inp, p, p, fl)
<1>1. /\ Parsed(inp, p, l, c) /\ (c.status = "more" => p + l.size = r.pos /\ r.dry)
  BY DEF ParsedAt
<1>2. PICK o \in Nat : o = c.outPre
  BY DEF IsCoder
<1>3. /\ l.size = 0 /\ c.status \in {"more", "new", "mark", "notSpecified", "notFinished"}
      /\ c.status \in {"more", "new", "notFinished"} => o = 0
      /\ c.status # "new"
      /\ c.status \in {"mark", "notSpecified"} => 0 = o + 1
      /\ c.status = "notFinished" => ~ inp.finish /\ p + o = inp.outSize
  BY <1>1, <1>2 DEF Parsed
<1>4. CASE c.status = "notFinished"
  <2>1. ~ inp.finish /\ p = inp.outSize
    BY <1>3, <1>4
  <2> QED
    BY <2>1 DEF Settled, Complete
<1>5. CASE c.status = "more"
  <2>1. p = r.pos /\ r.dry
    BY <1>1, <1>3, <1>5
  <2> QED
    BY <2>1 DEF Settled, Complete
<1> QED
  BY <1>3, <1>4, <1>5

-----------------------------------------------------------------------------
(* Taking the right to write. *)

\* The block that makes the ring stop is kept as it was read, or as far as it
\* was parsed (MtDec.c:664-718).
LEMMA LastKept ==
  ASSUME NEW inp, inp.outSize \in Nat, NEW r, r.pos \in Nat, r.cross \in Seq(Nat), NEW p \in Nat,
         NEW l, IsLocal(l), NEW c, IsCoder(c), NEW L, LastAt(inp, r, p, l, c, L),
         ~ l.stop, l.alloc \/ l.over \/ l.thread \/ l.code = "memory"
  PROVE  /\ KeptAt(inp, r, p, L, l.first, l.size) /\ FirstAt(inp, r, p, l.size)
         /\ (l.size # 0 => l.first >= 1)
<1>1. CASE WholeAt(inp, r, p, l, L)
  <2>1. /\ CrossAt(r, p + l.size) /\ p + l.size + Len(r.cross) = r.pos
        /\ (l.size = 0 => FreshAt(inp, r, p))
        /\ (l.size # 0 => Begins(inp, p) /\ l.first >= 1 /\ Linked(L, p, l.first, l.size))
    BY <1>1 DEF WholeAt, LinkedAt
  <2> QED
    BY <2>1 DEF KeptAt, FirstAt
<1>2. CASE ParsedAt(inp, r, p, l, c, L) /\ ~ WholeAt(inp, r, p, l, L)
  <2>1. /\ Parsed(inp, p, l, c) /\ CrossAt(r, p + l.size)
        /\ (l.size # 0 => Begins(inp, p) /\ l.first >= 1 /\ Linked(L, p, l.first, l.size))
        /\ c.status = "more" => r.cross = <<>> /\ p + l.size = r.pos
        /\ c.status = "new"  => p + l.size + Len(r.cross) = r.pos
        /\ ~ l.alloc /\ ~ l.over
    BY <1>2 DEF ParsedAt, LinkedAt
  <2>2. l.thread => c.status = "new"
    BY <1>2 DEF LastAt
  <2>3. l.code = "memory" => c.inPre # 0
    BY <1>2 DEF LastAt
  <2>4. PICK n, o \in Nat : n = l.size /\ n = c.inPre /\ o = c.outPre
    BY <2>1 DEF IsLocal, IsCoder, Parsed
  <2>5. /\ c.status \in {"more", "new", "mark", "notSpecified", "notFinished"}
        /\ c.status \in {"more", "new", "notFinished"} => n = o
        /\ c.status = "new" => n >= 1
        /\ c.status \in {"mark", "notSpecified"} =>
             n = o + 1 /\ p + n <= Len(inp.kind) /\ inp.kind[p + n] = IF c.status = "mark" THEN "end" ELSE "alien"
        /\ c.status = "notFinished" => ~ inp.finish /\ p + o = inp.outSize
    BY <2>1, <2>4 DEF Parsed
  <2>6. n # 0
    BY <2>1, <2>2, <2>3, <2>4, <2>5
  <2>7. p + n + Len(r.cross) = r.pos \/ Ends(inp, p, n)
    <3>1. CASE c.status = "more"
      <4>1. Len(<<>>) = 0
        OBVIOUS
      <4> QED
        BY <3>1, <4>1, <2>1, <2>4
    <3>2. CASE c.status = "new"
      BY <3>2, <2>1, <2>4
    <3>3. CASE c.status \in {"mark", "notSpecified"}
      <4>1. p + n \in p + 1 .. p + n
        BY <2>6
      <4>2. p + n <= Len(inp.kind) /\ inp.kind[p + n] \in {"end", "alien"}
        BY <3>3, <2>5
      <4> QED
        BY <4>1, <4>2 DEF Ends
    <3>4. CASE c.status = "notFinished"
      <4>1. ~ inp.finish /\ p + n = inp.outSize
        BY <3>4, <2>5
      <4>2. p + n >= inp.outSize
        BY <4>1
      <4> QED
        BY <4>1, <4>2 DEF Ends
    <3> QED
      BY <3>1, <3>2, <3>3, <3>4, <2>5
  <2> QED
    BY <2>1, <2>4, <2>6, <2>7 DEF KeptAt, FirstAt
<1> QED
  BY <1>1, <1>2 DEF LastAt

\* The locals k are those of l but for the decision to write.
SameButWrite(l, k) ==
  /\ k.block = l.block /\ k.size = l.size /\ k.first = l.first /\ k.finish = l.finish
  /\ k.needCode = l.needCode /\ k.needWrite = l.needWrite /\ k.alloc = l.alloc /\ k.over = l.over
  /\ k.thread = l.thread /\ k.stop = l.stop /\ k.code = l.code

\* The decision does not change what there is of a block.
LEMMA BlockWrites ==
  ASSUME NEW inp, NEW r, NEW p, NEW l, NEW c, NEW L, NEW k, SameButWrite(l, k)
  PROVE  /\ LastAt(inp, r, p, l, c, L) => LastAt(inp, r, p, k, c, L)
         /\ MiddleAt(inp, r, p, l, c, L) => MiddleAt(inp, r, p, k, c, L)
         /\ CodedAt(inp, p, l, c) => CodedAt(inp, p, k, c)
<1>1. /\ k.block = l.block /\ k.size = l.size /\ k.first = l.first /\ k.finish = l.finish
      /\ k.needCode = l.needCode /\ k.needWrite = l.needWrite /\ k.alloc = l.alloc /\ k.over = l.over
      /\ k.thread = l.thread /\ k.stop = l.stop /\ k.code = l.code
  BY DEF SameButWrite
<1>2. Parsed(inp, p, k, c) = Parsed(inp, p, l, c)
  BY <1>1, Zenon DEF Parsed
<1>3. LinkedAt(inp, p, k, L) = LinkedAt(inp, p, l, L)
  BY <1>1, Zenon DEF LinkedAt
<1>4. WholeAt(inp, r, p, k, L) = WholeAt(inp, r, p, l, L)
  BY <1>1, <1>3, Zenon DEF WholeAt
<1>5. ParsedAt(inp, r, p, k, c, L) = ParsedAt(inp, r, p, l, c, L)
  BY <1>1, <1>2, <1>3, Zenon DEF ParsedAt
<1>6. LastAt(inp, r, p, k, c, L) = LastAt(inp, r, p, l, c, L)
  BY <1>1, <1>4, <1>5, Zenon DEF LastAt
<1>7. MiddleAt(inp, r, p, k, c, L) = MiddleAt(inp, r, p, l, c, L)
  BY <1>1, <1>2, <1>3, Zenon DEF MiddleAt
<1>8. CodedAt(inp, p, k, c) = CodedAt(inp, p, l, c)
  BY <1>1, Zenon DEF CodedAt
<1> QED
  BY <1>6, <1>7, <1>8, Zenon

\* What taking the right to write does: the thread t gets the locals k.
TakesWrite(t, k, f) ==
  LET l    == loc[t]
      keep == l.thread \/ l.alloc \/ l.code = "memory" \/ l.over
  IN /\ k = loc'[t] /\ SameButWrite(l, k) /\ f \in BOOLEAN
     /\ progressRes' = (IF f THEN "progress" ELSE progressRes)
     /\ failed' = failed \cup Kind(f, "progress")
     /\ wasInterrupted' \in BOOLEAN
     /\ wasInterrupted' <=> wasInterrupted \/ l.code # "ok" \/ keep
     /\ Flags' <=> Flags \/ (~ wasInterrupted /\ keep)
     /\ k.write <=> /\ l.needWrite /\ ~ wasInterrupted /\ ~ keep /\ ~ l.stop
                    /\ l.needCode => progressRes' = "ok"
     /\ \A u \in Thread \ {t} : loc'[u] = loc[u]

TakeWriteNow(t, l, first, alloc, keep, f) ==
  /\ f => l.needCode
  /\ Progress(f) /\ Failing(Count(f)) /\ Fatal(Kind(f, "progress"))
  /\ wasInterrupted' = (wasInterrupted \/ l.code # "ok" \/ keep)
  /\ isAllocError' = (isAllocError \/ (first /\ alloc))
  /\ overflow' = (overflow \/ (first /\ l.over))
  /\ threadingError' = (threadingError \/ (first /\ l.thread))
  /\ loc' = [loc EXCEPT ![t].write = l.needWrite /\ first /\ ~ keep /\ ~ l.stop
                                       /\ (l.needCode => progressRes' = "ok")]

\* The first writer that cannot go on says why (MtDec.c:676-718).
LEMMA TakeWriteIs ==
  ASSUME Rights, Sizes, Content, NEW t \in Thread, TakeWrite(t)
  PROVE  \E k, f : TakesWrite(t, k, f)
<1>1. PICK f \in MayFail("progress") :
        TakeWriteNow(t, loc[t], ~ wasInterrupted, loc[t].alloc \/ loc[t].code = "memory",
                     loc[t].thread \/ (loc[t].alloc \/ loc[t].code = "memory") \/ loc[t].over, f)
  BY Zenon DEF TakeWrite, TakeWriteNow
<1>2. f \in BOOLEAN
  BY MayFailIs
<1>3. /\ DOMAIN loc = Thread /\ DOMAIN loc[t] = LocFields /\ IsLocal(loc[t])
  BY TypesHere
<1>4. /\ wasInterrupted \in BOOLEAN /\ isAllocError \in BOOLEAN /\ overflow \in BOOLEAN /\ threadingError \in BOOLEAN
  BY DEF Sizes, WriterTypes
<1>5. PICK l, k : l = loc[t] /\ k = loc'[t]
  OBVIOUS
<1>6. PICK keep \in BOOLEAN : keep = (l.thread \/ (l.alloc \/ l.code = "memory") \/ l.over)
  OBVIOUS
<1>7. PICK alloc \in BOOLEAN : alloc = (l.alloc \/ l.code = "memory")
  OBVIOUS
<1>8. TakeWriteNow(t, l, ~ wasInterrupted, alloc, keep, f)
  BY <1>1, <1>5, <1>6, <1>7, Zenon
<1>9. /\ l.thread \in BOOLEAN /\ l.over \in BOOLEAN /\ l.alloc \in BOOLEAN
  BY <1>3, <1>5 DEF IsLocal
<1>10. (keep <=> l.thread \/ l.alloc \/ l.code = "memory" \/ l.over) /\ (alloc <=> l.alloc \/ l.code = "memory")
  BY <1>6, <1>7
<1>11. /\ progressRes' = (IF f THEN "progress" ELSE progressRes)
       /\ failed' = failed \cup Kind(f, "progress")
  BY <1>8 DEF TakeWriteNow, Progress, Fatal
<1>12. wasInterrupted' \in BOOLEAN /\ (wasInterrupted' <=> wasInterrupted \/ l.code # "ok" \/ keep)
  BY <1>4, <1>8 DEF TakeWriteNow
<1>13. Flags' <=> Flags \/ (~ wasInterrupted /\ keep)
  <2>1. /\ isAllocError' <=> isAllocError \/ (~ wasInterrupted /\ alloc)
        /\ overflow' <=> overflow \/ (~ wasInterrupted /\ l.over)
        /\ threadingError' <=> threadingError \/ (~ wasInterrupted /\ l.thread)
    BY <1>4, <1>8, <1>9 DEF TakeWriteNow
  <2> QED
    BY <2>1, <1>10 DEF Flags
<1>14. PICK w \in BOOLEAN : w = (l.needWrite /\ ~ wasInterrupted /\ ~ keep /\ ~ l.stop
                                   /\ (l.needCode => progressRes' = "ok"))
  OBVIOUS
<1>15. loc' = [loc EXCEPT ![t].write = w]
  BY <1>8, <1>14 DEF TakeWriteNow
<1>16. /\ k.write = w
       /\ k.block = l.block /\ k.size = l.size /\ k.first = l.first /\ k.finish = l.finish
       /\ k.needCode = l.needCode /\ k.needWrite = l.needWrite /\ k.alloc = l.alloc /\ k.over = l.over
       /\ k.thread = l.thread /\ k.stop = l.stop /\ k.code = l.code
       /\ \A u \in Thread \ {t} : loc'[u] = loc[u]
  BY <1>3, <1>5, <1>15 DEF LocFields
<1>17. SameButWrite(l, k)
  BY <1>16 DEF SameButWrite
<1>18. k.write <=> /\ l.needWrite /\ ~ wasInterrupted /\ ~ keep /\ ~ l.stop
                   /\ l.needCode => progressRes' = "ok"
  BY <1>14, <1>16
<1> HIDE DEF Kind, Flags
<1>19. TakesWrite(t, k, f)
  <2>1. /\ k = loc'[t] /\ SameButWrite(loc[t], k) /\ f \in BOOLEAN
        /\ progressRes' = (IF f THEN "progress" ELSE progressRes)
        /\ failed' = failed \cup Kind(f, "progress")
        /\ wasInterrupted' \in BOOLEAN
        /\ \A u \in Thread \ {t} : loc'[u] = loc[u]
    BY <1>2, <1>5, <1>11, <1>12, <1>16, <1>17, Zenon
  <2>2. LET q == l.thread \/ l.alloc \/ l.code = "memory" \/ l.over
        IN /\ wasInterrupted' <=> wasInterrupted \/ l.code # "ok" \/ q
           /\ Flags' <=> Flags \/ (~ wasInterrupted /\ q)
           /\ k.write <=> /\ l.needWrite /\ ~ wasInterrupted /\ ~ q /\ ~ l.stop
                          /\ l.needCode => progressRes' = "ok"
    BY <1>10, <1>12, <1>13, <1>18, Zenon
  <2> QED
    BY <2>1, <2>2, <1>5, Zenon DEF TakesWrite
<1> QED
  BY <1>19, Zenon

\* Who takes the right to write has the oldest block, and stops only for an
\* error the ring knows of (MtDec.c:664-676).
LEMMA TakerFinds ==
  ASSUME Rights, Sizes, NEW t \in Thread, pc[t] = "waitWrite", canWrite[t]
  PROVE  /\ main = "mt" /\ ~ Over /\ (\A u \in Thread : pc[u] # "write")
         /\ (Flags => progressRes # "ok" /\ wasInterrupted) /\ (~ Told => ~ loc[t].stop)
<1>1. Busy(t) /\ IsBusy(pc[t]) /\ Writing(t)
  BY DEF Busy, IsBusy, Writing
<1>2. main = "mt"
  BY <1>1, BusyRuns
<1>3. ~ Over
  BY <1>1, <1>2 DEF Over, Rights, Exits, Clear, Runs
<1>4. ASSUME NEW u \in Thread, pc[u] = "write"
      PROVE  FALSE
  <2>1. Writing(u)
    BY <1>4 DEF Writing
  <2>2. u = t
    BY <2>1, <1>1 DEF Rights, OneWrites
  <2> QED
    BY <2>2, <1>4
<1>5. Flags => progressRes # "ok" /\ wasInterrupted
  <2>1. Flags => wasInterrupted
    BY <1>2 DEF Sizes, Marks
  <2>2. Flags /\ progressRes = "ok" => pc[t] = "write"
    BY <1>1, <1>2 DEF Sizes, Handover
  <2> QED
    BY <2>1, <2>2
<1>6. ASSUME ~ Told, loc[t].stop
      PROVE  FALSE
  <2>1. StopsFor(pc[t], loc[t], interrupt, progressRes)
    BY DEF Sizes, Marks
  <2>2. interrupt # None /\ interrupt < loc[t].block
    BY <2>1, <1>1, <1>6 DEF StopsFor, Told
  <2>3. PICK u \in Thread : pc[u] = "waitWrite" /\ loc[u].block <= interrupt
    BY <2>2, <1>2, <1>6 DEF Sizes, Marks
  <2>4. Busy(u)
    BY <2>3 DEF Busy
  <2>5. loc[t].block <= loc[u].block
    BY <2>4, <1>1 DEF Rights, OneWrites
  <2>6. interrupt \in Nat /\ loc[t].block \in Nat /\ loc[u].block \in Nat
    BY <2>2 DEF Sizes, ReaderTypes, Rights, RingTypes
  <2> QED
    BY <2>2, <2>3, <2>5, <2>6
<1> QED
  BY <1>2, <1>3, <1>4, <1>5, <1>6

\* What the thread has of its block, which goes on with the output.
TakerHas(t, p) ==
  /\ p \in Nat /\ p = Len(out) /\ p = inProcessed /\ Sound(input, p)
  /\ BlockAt(input, rd, p, loc[t], coder[t], inBuf[t])
  /\ loc[t].needCode /\ ~ loc[t].stop /\ ~ loc[t].alloc => CodedAt(input, p, loc[t], coder[t])

\* The oldest block goes on with the output (MtDec.c:664-676).
LEMMA TakerIs ==
  ASSUME Rights, Sizes, Content, NEW t \in Thread, pc[t] = "waitWrite", canWrite[t], ~ Told
  PROVE  \E p : TakerHas(t, p)
<1>1. main = "mt" /\ ~ Over
  BY TakerFinds
<1>2. inProcessed = Len(out) /\ \E Q \in Places : Laid(Q)
  BY <1>1 DEF Content, Layout
<1>3. PICK Q \in Places : Laid(Q)
  BY <1>2
<1>4. PICK p \in Nat : p = Q[loc[t].block]
  BY TypesHere DEF Places
<1> HIDE DEF rd
<1>5. LaidAt(input, rd, Q, blockIndex, inProcessed, "waitWrite", loc[t], coder[t], inBuf[t], canRead[t], canWrite[t])
  BY <1>3, Zenon DEF Laid
<1>6. IsBusy("waitWrite") /\ IsWork("waitWrite")
  BY DEF IsBusy, IsWork
<1>7. /\ canWrite[t] => inProcessed = p
      /\ loc[t].finish => LastAt(input, rd, p, loc[t], coder[t], inBuf[t])
      /\ ~ loc[t].finish => MiddleAt(input, rd, p, loc[t], coder[t], inBuf[t])
      /\ loc[t].needCode /\ ~ loc[t].stop /\ ~ loc[t].alloc => CodedAt(input, p, loc[t], coder[t])
  BY <1>4, <1>5, <1>6, Zenon DEF LaidAt
<1>8. inProcessed = p
  BY <1>7
<1>9. BlockAt(input, rd, p, loc[t], coder[t], inBuf[t])
  BY <1>7 DEF BlockAt
<1>10. Sound(input, p)
  BY <1>2, <1>8 DEF Content, Output
<1>11. TakerHas(t, p)
  BY <1>2, <1>7, <1>8, <1>9, <1>10, Zenon DEF TakerHas
<1> QED
  BY <1>11, Zenon

\* What it decides to write goes on with the output (MtDec.c:676-720).
LEMMA TakerWrites ==
  ASSUME Rights, Sizes, Content, NEW t \in Thread, pc[t] = "waitWrite", canWrite[t],
         NEW k, NEW f, TakesWrite(t, k, f), k.write
  PROVE  ~ Flags' /\ WriteAt(input, Len(out), inProcessed, wasInterrupted', failed', k, coder[t])
<1>1. PICK l, c : l = loc[t] /\ c = coder[t]
  OBVIOUS
<1>2. PICK keep \in BOOLEAN : keep <=> l.thread \/ l.alloc \/ l.code = "memory" \/ l.over
  OBVIOUS
<1>3. /\ SameButWrite(l, k) /\ f \in BOOLEAN
      /\ progressRes' = (IF f THEN "progress" ELSE progressRes)
      /\ failed' = failed \cup Kind(f, "progress")
      /\ wasInterrupted' \in BOOLEAN
      /\ wasInterrupted' <=> wasInterrupted \/ l.code # "ok" \/ keep
      /\ Flags' <=> Flags \/ (~ wasInterrupted /\ keep)
      /\ l.needWrite /\ ~ wasInterrupted /\ ~ keep /\ ~ l.stop
      /\ l.needCode => progressRes' = "ok"
  BY <1>1, <1>2 DEF TakesWrite
<1>4. main = "mt" /\ (Flags => wasInterrupted)
  BY TakerFinds
<1>5. ~ Flags'
  BY <1>3, <1>4
<1>6. k.needWrite = l.needWrite /\ k.code = l.code
  BY <1>3 DEF SameButWrite
<1>7. /\ InBufIs /\ InputIs(input) /\ IsLocal(l) /\ IsCoder(c) /\ inBuf[t] \in Links
      /\ pos \in Nat /\ rd.pos = pos
  BY <1>1, TypesHere
<1>8. failed \subseteq failed'
  BY <1>3 DEF Kind
<1>9. l.code # "ok" \/ wasInterrupted' = FALSE
  BY <1>3
<1>10. NoteAt("waitWrite", l, c, wasInterrupted)
  BY <1>1 DEF Content, Notes
<1>11. ~ l.needCode => l.code = "data" /\ c.data = <<>> /\ c.used = 0
  <2>1. IsWork("waitWrite")
    BY DEF IsWork
  <2> QED
    BY <2>1, <1>2, <1>3, <1>7, <1>10 DEF NoteAt, IsLocal
<1>12. CASE progressRes = "ok"
  <2>1. ~ Told
    BY <1>3, <1>12 DEF Told
  <2>2. PICK p : TakerHas(t, p)
    BY <2>1, TakerIs
  <2> HIDE DEF rd
  <2>3. /\ p \in Nat /\ p = Len(out) /\ p = inProcessed /\ Sound(input, p)
        /\ BlockAt(input, rd, p, l, c, inBuf[t])
        /\ l.needCode /\ ~ l.stop /\ ~ l.alloc => CodedAt(input, p, l, c)
    BY <2>2, <1>1, Zenon DEF TakerHas
  <2>4. ~ l.stop /\ ~ l.alloc /\ ~ l.over /\ ~ l.thread /\ l.code # "memory"
    BY <1>2, <1>3
  <2>5. rd.cross \in Seq(Nat)
    BY DEF rd, Sizes, ReaderTypes
  <2>6. CASE l.needCode
    <3>1. Parsed(input, p, l, c)
      BY <2>3, <2>4, <2>5, <1>7, CodeData
    <3>2. CodedAt(input, p, l, c)
      BY <2>3, <2>4, <2>6
    <3>3. WriteAt(input, p, p, wasInterrupted', failed', l, c)
      BY <3>1, <3>2, <2>3, <1>3, <1>7, <1>9, CodedWrites
    <3>4. WriteAt(input, p, p, wasInterrupted', failed', k, c)
      BY <3>3, <1>6 DEF WriteAt
    <3> QED
      BY <3>4, <2>3, <1>1, <1>5
  <2>7. CASE ~ l.needCode
    <3>1. l.finish
      BY <2>3, <2>7 DEF BlockAt, MiddleAt
    <3>2. LastAt(input, rd, p, l, c, inBuf[t])
      BY <2>3, <3>1 DEF BlockAt
    <3>3. ParsedAt(input, rd, p, l, c, inBuf[t]) /\ c.inPre = 0
      BY <3>2, <2>4, <2>7, <1>11 DEF LastAt, WholeAt
    <3>4. rd.dry => rd.pos = Len(input.kind) \/ failed' # {}
      <4>1. readRes = "read" => "read" \in failed
        BY <1>4 DEF Content, Failures
      <4> QED
        BY <4>1, <1>8 DEF rd, Dry
    <3>5. Settled(input, p, p, failed')
      BY <3>3, <3>4, <2>3, <1>7, EmptySettled
    <3>6. WriteAt(input, p, p, wasInterrupted', failed', k, c)
      BY <3>5, <2>3, <2>7, <1>3, <1>6, <1>11, PlainWrites
    <3> QED
      BY <3>6, <2>3, <1>1, <1>5
  <2> QED
    BY <2>6, <2>7
<1>13. CASE progressRes # "ok"
  <2>1. ~ l.needCode
    BY <1>3, <1>13
  <2>2. "progress" \in failed'
    BY <1>4, <1>8, <1>13 DEF Content, Failures
  <2>3. Settled(input, Len(out), inProcessed, failed')
    BY <2>2 DEF Settled
  <2>4. inProcessed \in Nat /\ Len(out) \in Nat /\ Sound(input, Len(out))
    BY DEF Sizes, WriterTypes, Content, Output, DataTypes
  <2>5. WriteAt(input, Len(out), inProcessed, wasInterrupted', failed', k, c)
    BY <2>1, <2>3, <2>4, <1>3, <1>6, <1>11, PlainWrites
  <2> QED
    BY <2>5, <1>1, <1>5
<1> QED
  BY <1>12, <1>13

\* What is noted of a block holds when the ring has been interrupted
\* (MtDec.c:676-718).
LEMMA NoteMore ==
  ASSUME NEW at, NEW l, NEW c, NEW b, NEW d, b = d \/ d = TRUE, NoteAt(at, l, c, b)
  PROVE  NoteAt(at, l, c, d)
BY DEF NoteAt

\* Taking the right to write: a block that is written goes on with the output,
\* one that is not is the end or is kept for the single thread
\* (MtDec.c:664-718).
LEMMA TakeWriteContent ==
  ASSUME Rights, Sizes, Content, NEW t \in Thread, TakeWrite(t)
  PROVE  Content'
<1>1. /\ pc[t] = "waitWrite" /\ canWrite[t] /\ canWrite' = [canWrite EXCEPT ![t] = FALSE]
      /\ pc' = [pc EXCEPT ![t] = "write"]
      /\ main' = main /\ input' = input /\ result' = result /\ out' = out
      /\ pos' = pos /\ readWasFinished' = readWasFinished /\ readRes' = readRes /\ blockIndex' = blockIndex
      /\ cross' = cross /\ outParsed' = outParsed
      /\ exitThread' = exitThread /\ inProcessed' = inProcessed
      /\ canRead' = canRead /\ inBuf' = inBuf /\ coder' = coder /\ fresh' = fresh
  BY DEF TakeWrite, Goto, callerVars, readerVars, stVars
<1>2. /\ InputIs(input) /\ IsLocal(loc[t]) /\ IsCoder(coder[t]) /\ loc[t].block \in Nat
      /\ pos \in Nat /\ rd.pos = pos /\ pc \in [Thread -> ThreadPc] /\ input.outSize \in Nat
  BY TypesHere
<1>3. canWrite \in [Thread -> BOOLEAN] /\ wasInterrupted \in BOOLEAN
  BY DEF Rights, RingTypes, Sizes, WriterTypes
<1>4. PICK k, f : TakesWrite(t, k, f)
  BY TakeWriteIs
<1>5. PICK l, c : l = loc[t] /\ c = coder[t]
  OBVIOUS
<1>6. PICK keep \in BOOLEAN : keep <=> l.thread \/ l.alloc \/ l.code = "memory" \/ l.over
  OBVIOUS
<1>7. /\ k = loc'[t] /\ SameButWrite(l, k) /\ f \in BOOLEAN
      /\ progressRes' = (IF f THEN "progress" ELSE progressRes)
      /\ failed' = failed \cup Kind(f, "progress")
      /\ wasInterrupted' \in BOOLEAN
      /\ wasInterrupted' <=> wasInterrupted \/ l.code # "ok" \/ keep
      /\ Flags' <=> Flags \/ (~ wasInterrupted /\ keep)
      /\ k.write <=> /\ l.needWrite /\ ~ wasInterrupted /\ ~ keep /\ ~ l.stop
                     /\ l.needCode => progressRes' = "ok"
      /\ \A u \in Thread \ {t} : loc'[u] = loc[u]
  BY <1>4, <1>5, <1>6 DEF TakesWrite
<1>8. /\ k.block = l.block /\ k.size = l.size /\ k.first = l.first /\ k.finish = l.finish
      /\ k.needCode = l.needCode /\ k.needWrite = l.needWrite /\ k.alloc = l.alloc /\ k.over = l.over
      /\ k.thread = l.thread /\ k.stop = l.stop /\ k.code = l.code
  BY <1>7 DEF SameButWrite
<1>9. /\ main = "mt" /\ ~ Over /\ (\A u \in Thread : pc[u] # "write")
      /\ (Flags => progressRes # "ok" /\ wasInterrupted) /\ (~ Told => ~ l.stop)
  BY <1>1, <1>5, TakerFinds
<1>10. pc'[t] = "write" /\ \A u \in Thread \ {t} : pc'[u] = pc[u]
  BY <1>1, <1>2
<1>11. ~ Over'
  <2>1. pc'[0] = "ended" => pc[0] = "ended"
    BY <1>1, <1>2, MtDecAssumption DEF Thread
  <2> QED
    BY <2>1, <1>1, <1>9 DEF Over
<1>12. failed \subseteq failed' /\ failed' \subseteq failed \cup {"progress"} /\ (f => "progress" \in failed')
  BY <1>7 DEF Kind
<1>13. rd' = rd /\ Dry' = Dry /\ (Told => Told') /\ (~ Told' => progressRes' = "ok" /\ progressRes = "ok")
  BY <1>1, <1>7 DEF rd, Dry, Told
<1>14. NoteAt("waitWrite", l, c, wasInterrupted)
  BY <1>1, <1>5 DEF Content, Notes
<1>15. l.code # "ok" => l.needWrite
  <2>1. IsWork("waitWrite")
    BY DEF IsWork
  <2> QED
    BY <2>1, <1>14 DEF NoteAt
<1>16. DataTypes' /\ Output'
  BY <1>1 DEF Content, DataTypes, Output
<1>17. Single' /\ Outcome'
  BY <1>1, <1>9 DEF Single, Outcome
<1>18. Failures'
  <2>1. progressRes' # "ok" => progressRes # "ok" \/ "progress" \in failed'
    BY <1>7, <1>12
  <2>2. failed' \subseteq failed \cup {"write", "progress"}
    BY <1>12
  <2> QED
    BY <2>1, <2>2, <1>1, <1>9, <1>12, FailuresStay
<1>19. Writes'
  <2>1. k.write => ~ Flags' /\ WriteAt(input, Len(out), inProcessed, wasInterrupted', failed', k, c)
    BY <1>1, <1>4, <1>5, TakerWrites
  <2> SUFFICES ASSUME NEW u \in Thread, pc'[u] = "write" /\ loc'[u].write
               PROVE  ~ Flags' /\ WriteAt(input', Len(out'), inProcessed', wasInterrupted', failed', loc'[u], coder'[u])
    BY DEF Writes
  <2>2. u = t
    BY <1>9, <1>10
  <2>3. k.write
    BY <2>2, <1>7
  <2>4. ~ Flags' /\ WriteAt(input, Len(out), inProcessed, wasInterrupted', failed', k, c)
    BY <2>1, <2>3
  <2>5. loc'[u] = k /\ coder'[u] = c
    BY <2>2, <1>1, <1>5, <1>7
  <2> QED
    BY <2>4, <2>5, <1>1
<1>20. Notes'
  <2> SUFFICES ASSUME NEW u \in Thread
               PROVE  NoteAt(pc'[u], loc'[u], coder'[u], wasInterrupted')
    BY DEF Notes
  <2>1. CASE u = t
    <3>1. IsWork("waitWrite") /\ IsWork("write")
      BY DEF IsWork
    <3>2. k.code # "ok" \/ k.alloc \/ k.over \/ k.thread => wasInterrupted'
      BY <1>6, <1>7, <1>8
    <3>3. NoteAt("write", k, c, wasInterrupted')
      BY <3>1, <3>2, <1>8, <1>14 DEF NoteAt
    <3> QED
      BY <3>3, <2>1, <1>1, <1>5, <1>7, <1>10
  <2>2. CASE u # t
    <3>1. NoteAt(pc[u], loc[u], coder[u], wasInterrupted)
      BY DEF Content, Notes
    <3>2. wasInterrupted = wasInterrupted' \/ wasInterrupted' = TRUE
      BY <1>3, <1>7
    <3>3. NoteAt(pc[u], loc[u], coder[u], wasInterrupted')
      BY <3>1, <3>2, NoteMore, Zenon
    <3> QED
      BY <3>3, <2>2, <1>1, <1>7, <1>10
  <2> QED
    BY <2>1, <2>2
<1>21. Stopped'
  <2> SUFFICES ASSUME ~ Flags', wasInterrupted' \/ Over'
               PROVE  \/ Settled(input', Len(out'), inProcessed', failed')
                      \/ \E u \in Thread : pc'[u] = "write" /\ loc'[u].write
    BY DEF Stopped
  <2>1. CASE wasInterrupted
    <3>1. ~ Flags
      BY <1>7
    <3>2. Settled(input, Len(out), inProcessed, failed)
      BY <2>1, <3>1, <1>9 DEF Content, Stopped
    <3>3. Settled(input, Len(out), inProcessed, failed')
      BY <3>2, <1>12, SettledMore
    <3> QED
      BY <3>3, <1>1
  <2>2. CASE failed' # {}
    BY <2>2 DEF Settled
  <2>3. CASE ~ wasInterrupted /\ failed' = {}
    <3>1. l.code # "ok" /\ ~ keep
      BY <2>3, <1>7, <1>11
    <3>2. ~ f
      BY <2>3, <1>12
    <3>3. progressRes = "ok" /\ progressRes' = "ok"
      <4>1. progressRes # "ok" => "progress" \in failed
        BY <1>9 DEF Content, Failures
      <4> QED
        BY <2>3, <3>2, <4>1, <1>7, <1>12
    <3>4. ~ l.stop
      BY <2>3, <3>3, <1>9 DEF Told
    <3>5. k.write
      BY <2>3, <3>1, <3>3, <3>4, <1>7, <1>15
    <3> QED
      BY <3>5, <1>7, <1>10
  <2> QED
    BY <2>1, <2>2, <2>3
<1>22. Flagged'
  <2>1. ASSUME Flags', progressRes' = "ok"
        PROVE  /\ inProcessed = Len(out) /\ ~ loc[t].stop /\ l.finish /\ keep
               /\ LastAt(input, rd, inProcessed, l, c, inBuf[t])
    <3>1. progressRes = "ok"
      BY <2>1, <1>7
    <3>2. ~ Flags /\ ~ wasInterrupted /\ keep
      BY <2>1, <3>1, <1>7, <1>9
    <3>3. ~ Told
      BY <3>1, <3>2 DEF Told
    <3>4. PICK p : TakerHas(t, p)
      BY <3>3, <1>1, TakerIs
    <3> HIDE DEF rd
    <3>5. p = Len(out) /\ p = inProcessed /\ BlockAt(input, rd, p, l, c, inBuf[t])
      BY <3>4, <1>5, Zenon DEF TakerHas
    <3>6. l.finish
      <4>1. Sizes'
        BY TakeWriteSizes
      <4>2. IsBusy(pc'[t])
        BY <1>10 DEF IsBusy
      <4>3. loc'[t].finish
        BY <2>1, <4>1, <4>2, <1>1, <1>9 DEF Sizes, Handover
      <4> QED
        BY <4>3, <1>7, <1>8
    <3> QED
      BY <3>2, <3>3, <3>5, <3>6, <1>5, <1>9 DEF BlockAt
  <2>2. rd.cross \in Seq(Nat)
    BY DEF rd, Sizes, ReaderTypes
  <2> HIDE DEF rd
  <2>3. ASSUME Flags', progressRes' = "ok"
        PROVE  /\ KeptAt(input, rd, inProcessed, inBuf[t], k.first, k.size)
               /\ FirstAt(input, rd, inProcessed, k.size) /\ (k.size # 0 => k.first >= 1)
    <3>1. inProcessed \in Nat
      BY DEF Sizes, WriterTypes
    <3>2. /\ LastAt(input, rd, inProcessed, l, c, inBuf[t]) /\ ~ l.stop
          /\ l.alloc \/ l.over \/ l.thread \/ l.code = "memory"
      BY <2>1, <2>3, <1>5, <1>6
    <3>3. IsLocal(l) /\ IsCoder(c) /\ rd.pos \in Nat
      BY <1>2, <1>5
    <3> QED
      BY <3>1, <3>2, <3>3, <2>2, <1>2, <1>8, LastKept
  <2>4. ASSUME NEW u \in Thread, IsBusy(pc'[u]), Flags'
        PROVE  u = t \/ progressRes' # "ok"
    <3>1. Sizes'
      BY TakeWriteSizes
    <3>2. progressRes' = "ok" => pc'[u] = "write"
      BY <2>4, <3>1, <1>1, <1>9 DEF Sizes, Handover
    <3> QED
      BY <3>2, <1>9, <1>10
  <2>5. IsBusy(pc'[t])
    BY <1>10 DEF IsBusy
  <2> HIDE DEF Flags
  <2> SUFFICES ASSUME Flags', progressRes' = "ok"
               PROVE  /\ inProcessed' = Len(out')
                      /\ \A u \in Thread : IsBusy(pc'[u]) =>
                           /\ KeptAt(input', rd', inProcessed', inBuf'[u], loc'[u].first, loc'[u].size)
                           /\ FirstAt(input', rd', inProcessed', loc'[u].size)
                           /\ loc'[u].size # 0 => loc'[u].first >= 1
    BY <2>5 DEF Flagged
  <2>6. inProcessed' = Len(out')
    BY <2>1, <1>1
  <2>7. ASSUME NEW u \in Thread, IsBusy(pc'[u])
        PROVE  /\ KeptAt(input', rd', inProcessed', inBuf'[u], loc'[u].first, loc'[u].size)
               /\ FirstAt(input', rd', inProcessed', loc'[u].size)
               /\ loc'[u].size # 0 => loc'[u].first >= 1
    <3>1. u = t
      BY <2>4, <2>7
    <3>2. loc'[u] = k /\ inBuf'[u] = inBuf[t]
      BY <3>1, <1>1, <1>7
    <3> QED
      BY <2>3, <3>2, <1>1, <1>13
  <2> QED
    BY <2>6, <2>7
<1>23. Layout'
  <2>1. Aside(t)
    BY <1>1, <1>3, <1>7, <1>9, <1>10, <1>13 DEF Aside
  <2>2. canWrite'[t] = FALSE
    BY <1>1, <1>3
  <2> HIDE DEF rd
  <2>3. IsBusy("waitWrite") /\ IsWork("waitWrite") /\ IsBusy("write") /\ IsWork("write")
    BY DEF IsBusy, IsWork
  <2>4. ASSUME NEW Q \in Places, LaidNow(Q, t)
        PROVE  LaidNow(Q, t)'
    <3>1. PICK p \in Nat : p = Q[l.block]
      BY <1>2, <1>5 DEF Places
    <3>2. LaidAt(input, rd, Q, blockIndex, inProcessed, "waitWrite", l, c, inBuf[t], canRead[t], canWrite[t])
      BY <2>4, <1>1, <1>5, Zenon DEF LaidNow
    <3>3. /\ inProcessed = p
          /\ canRead[t] => AtStart(input, rd, Q[blockIndex])
          /\ l.finish => LastAt(input, rd, p, l, c, inBuf[t])
          /\ ~ l.finish => MiddleAt(input, rd, p, l, c, inBuf[t]) /\ Q[l.block + 1] = p + l.size
          /\ l.needCode /\ ~ l.stop /\ ~ l.alloc => CodedAt(input, p, l, c)
      BY <2>3, <3>1, <3>2, <1>1, Zenon DEF LaidAt
    <3>4. /\ LastAt(input, rd, p, l, c, inBuf[t]) => LastAt(input, rd, p, k, c, inBuf[t])
          /\ MiddleAt(input, rd, p, l, c, inBuf[t]) => MiddleAt(input, rd, p, k, c, inBuf[t])
          /\ CodedAt(input, p, l, c) => CodedAt(input, p, k, c)
      BY <1>7, BlockWrites, Zenon
    <3>5. Q[k.block] = p /\ Q[k.block + 1] = Q[l.block + 1]
      BY <3>1, <1>8
    <3>6. /\ k.finish => LastAt(input, rd, p, k, c, inBuf[t])
          /\ ~ k.finish => MiddleAt(input, rd, p, k, c, inBuf[t]) /\ Q[k.block + 1] = p + k.size
          /\ k.needCode /\ ~ k.stop /\ ~ k.alloc => CodedAt(input, p, k, c)
      BY <3>3, <3>4, <3>5, <1>8
    <3>7. "write" \notin {"read", "parse", "hand"}
      OBVIOUS
    <3>8. LaidAt(input, rd, Q, blockIndex, inProcessed, "write", k, c, inBuf[t], canRead[t], FALSE)
      BY <2>3, <3>3, <3>5, <3>6, <3>7, Zenon DEF LaidAt
    <3>9. coder'[t] = c
      BY <1>1, <1>5
    <3> QED
      BY <2>2, <3>8, <3>9, <1>1, <1>7, <1>10, <1>13, Zenon DEF LaidNow
  <2>5. \A Q \in Places : LaidNow(Q, t) /\ ~ Told' => LaidNow(Q, t)'
    BY <2>4, Zenon
  <2> QED
    BY <2>1, <2>5, AsideLayout, Zenon
<1> QED
  BY <1>16, <1>17, <1>18, <1>19, <1>20, <1>21, <1>22, <1>23, Zenon DEF Content

-----------------------------------------------------------------------------
(* Writing. *)

\* What the end of an iteration of t does, with the locals l and the coder c,
\* to the output, to what is kept for the single thread and to the rights.
Wrote(t, l, c, fails, goesOn, kp, counts) ==
  /\ l = loc[t] /\ c = coder[t]
  /\ fails \in BOOLEAN /\ goesOn \in BOOLEAN /\ kp \in BOOLEAN /\ counts \in BOOLEAN
  /\ fails => l.write
  /\ goesOn <=> IF l.needWrite THEN l.write /\ ~ fails /\ c.status \in {"more", "new"} ELSE ~ l.finish
  /\ ~ l.write /\ wasInterrupted => kp
  /\ kp => ~ l.write
  /\ counts <=> kp /\ (l.size # 0 \/ ~ l.finish)
  /\ l.write => WriteOut(c.data, fails)
  /\ ~ l.write => out' = out
  /\ failed' = failed \cup Kind(fails, "write")
  /\ inProcessed' = (IF l.write THEN inProcessed + c.used ELSE inProcessed)
  /\ wasInterrupted' \in BOOLEAN /\ (wasInterrupted' <=> wasInterrupted \/ fails)
  /\ filledStart' = (IF kp /\ numFilled = 0 THEN t ELSE filledStart)
  /\ numFilled' = (IF counts THEN numFilled + 1 ELSE numFilled)
  /\ filledSize' = [filledSize EXCEPT ![t] = IF counts THEN l.size ELSE @]
  /\ filledFirst' = [filledFirst EXCEPT ![t] = IF counts THEN l.first ELSE @]
  /\ inBuf' = [inBuf EXCEPT ![t] = IF counts THEN @ ELSE Used(@)]
  /\ PassOn(t, goesOn)

WriteNow(t, fails) ==
  LET l      == loc[t]
      goesOn == Continues(t, fails)
      counts == Keeps(t) /\ (l.size # 0 \/ ~ l.finish)
  IN /\ IF l.write THEN WriteOut(coder[t].data, fails) ELSE UNCHANGED out
     /\ Failing(Count(fails)) /\ Fatal(Kind(fails, "write"))
     /\ inProcessed' = IF l.write THEN inProcessed + coder[t].used ELSE inProcessed
     /\ wasInterrupted' = (wasInterrupted \/ fails)
     /\ IF fails \/ (~ goesOn /\ ~ l.finish) THEN Interrupt(t) ELSE UNCHANGED interrupt
     /\ filledStart' = IF Keeps(t) /\ numFilled = 0 THEN t ELSE filledStart
     /\ numFilled' = IF counts THEN numFilled + 1 ELSE numFilled
     /\ filledSize' = [filledSize EXCEPT ![t] = IF counts THEN l.size ELSE @]
     /\ filledFirst' = [filledFirst EXCEPT ![t] = IF counts THEN l.first ELSE @]
     /\ inBuf' = [inBuf EXCEPT ![t] = IF counts THEN @ ELSE Used(@)]
     /\ PassOn(t, goesOn)

\* Write is such an end (MtDec.c:720-795).
LEMMA WroteIs ==
  ASSUME Rights, Sizes, Content, NEW t \in Thread, Write(t)
  PROVE  \E l, c, fails, goesOn, kp, counts : Wrote(t, l, c, fails, goesOn, kp, counts)
<1>1. PICK l, c : l = loc[t] /\ c = coder[t]
  OBVIOUS
<1>2. PICK fails : /\ fails \in (IF loc[t].write THEN MayFail("write") ELSE {FALSE})
                   /\ WriteNow(t, fails)
  BY Zenon DEF Write, WriteNow
<1>3. fails \in BOOLEAN /\ (fails => l.write)
  BY <1>1, <1>2, MayFailIs
<1>4. PICK kp : kp \in BOOLEAN /\ (kp <=> Keeps(t))
  BY DEF Keeps
<1>5. (kp => ~ l.write) /\ (~ l.write /\ wasInterrupted => kp)
  BY <1>1, <1>4 DEF Keeps
<1>6. PICK counts : counts \in BOOLEAN /\ (counts <=> kp /\ (l.size # 0 \/ ~ l.finish))
  OBVIOUS
<1>7. PICK goesOn :
        /\ goesOn \in BOOLEAN /\ goesOn = Continues(t, fails)
        /\ goesOn <=> IF l.needWrite THEN l.write /\ ~ fails /\ c.status \in {"more", "new"} ELSE ~ l.finish
  <2>1. IsLocal(loc[t])
    BY TypesHere
  <2>2. l.write \in BOOLEAN /\ l.needWrite \in BOOLEAN
    BY <1>1, <2>1 DEF IsLocal
  <2> QED
    BY <1>1, <1>3, <2>2 DEF Continues
<1>8. /\ inProcessed' = (IF l.write THEN inProcessed + c.used ELSE inProcessed)
      /\ wasInterrupted' = (wasInterrupted \/ fails)
      /\ failed' = failed \cup Kind(fails, "write")
      /\ PassOn(t, goesOn)
  BY <1>1, <1>2, <1>7 DEF WriteNow, Fatal
<1>9. (l.write => WriteOut(c.data, fails)) /\ (~ l.write => out' = out)
  <2>1. IF loc[t].write THEN WriteOut(coder[t].data, fails) ELSE out' = out
    BY <1>2, Zenon DEF WriteNow
  <2> QED
    BY <1>1, <2>1, Zenon
<1>10. /\ numFilled' = (IF counts THEN numFilled + 1 ELSE numFilled)
       /\ filledSize' = [filledSize EXCEPT ![t] = IF counts THEN l.size ELSE @]
       /\ filledFirst' = [filledFirst EXCEPT ![t] = IF counts THEN l.first ELSE @]
       /\ filledStart' = (IF kp /\ numFilled = 0 THEN t ELSE filledStart)
       /\ inBuf' = [inBuf EXCEPT ![t] = IF counts THEN @ ELSE Used(@)]
  <2> HIDE DEF Used
  <2>1. CASE Keeps(t)
    BY <1>1, <1>2, <1>4, <1>6, <2>1 DEF WriteNow
  <2>2. CASE ~ Keeps(t)
    BY <1>1, <1>2, <1>4, <1>6, <2>2 DEF WriteNow
  <2> QED
    BY <2>1, <2>2
<1>11. wasInterrupted' \in BOOLEAN /\ (wasInterrupted' <=> wasInterrupted \/ fails)
  <2>1. wasInterrupted \in BOOLEAN
    BY DEF Sizes, WriterTypes
  <2> QED
    BY <2>1, <1>3, <1>8
<1> HIDE DEF Kind, WriteOut, PassOn, Used
<1>12. Wrote(t, l, c, fails, goesOn, kp, counts)
  BY <1>1, <1>3, <1>4, <1>5, <1>6, <1>7, <1>8, <1>9, <1>10, <1>11, Zenon DEF Wrote
<1> QED
  BY <1>12, Zenon

\* What the writer finds: it has the oldest block, which it does not write only
\* when the ring knows of an error; and when one thread will go on no other
\* thread has a block (MtDec.c:720-795).
LEMMA WriterFinds ==
  ASSUME Rights, Sizes, NEW t \in Thread, pc[t] = "write"
  PROVE  /\ main = "mt" /\ ~ Over /\ (\A u \in Thread \ {t} : pc[u] # "write")
         /\ (~ Told => ~ loc[t].stop) /\ (~ loc[t].write => Told)
         /\ (Flags => wasInterrupted)
         /\ Flags /\ progressRes = "ok" =>
              /\ loc[t].finish /\ ~ loc[t].write /\ numFilled = 0
              /\ \A u \in Thread \ {t} : ~ IsBusy(pc[u])
<1>1. /\ main = "mt" /\ Busy(t) /\ Writing(t) /\ ~ Over
      /\ \A u \in Thread : u # t => pc[u] # "write"
  BY WriteFinds
<1>2. IsBusy(pc[t])
  BY <1>1 DEF Busy, IsBusy
<1>3. ASSUME ~ Told, loc[t].stop
      PROVE  FALSE
  <2>1. StopsFor(pc[t], loc[t], interrupt, progressRes)
    BY DEF Sizes, Marks
  <2>2. interrupt # None /\ interrupt < loc[t].block
    BY <2>1, <1>2, <1>3 DEF StopsFor, Told
  <2>3. PICK u \in Thread : pc[u] = "waitWrite" /\ loc[u].block <= interrupt
    BY <2>2, <1>1, <1>3 DEF Sizes, Marks
  <2>4. Busy(u)
    BY <2>3 DEF Busy
  <2>5. loc[t].block <= loc[u].block
    BY <2>4, <1>1 DEF Rights, OneWrites
  <2>6. interrupt \in Nat /\ loc[t].block \in Nat /\ loc[u].block \in Nat
    BY <2>2 DEF Sizes, ReaderTypes, Rights, RingTypes
  <2> QED
    BY <2>2, <2>3, <2>5, <2>6
<1>4. ~ loc[t].write => Told
  BY DEF Sizes, Locals, LocalAt
<1>5. Flags => wasInterrupted
  BY <1>1 DEF Sizes, Marks
<1>6. ASSUME Flags, progressRes = "ok"
      PROVE  /\ loc[t].finish /\ ~ loc[t].write /\ numFilled = 0
             /\ \A u \in Thread \ {t} : ~ IsBusy(pc[u])
  <2>1. \A u \in Thread : IsBusy(pc[u]) => pc[u] = "write" /\ ~ loc[u].write /\ loc[u].finish /\ numFilled = 0
    BY <1>1, <1>6 DEF Sizes, Handover
  <2> QED
    BY <2>1, <1>1, <1>2
<1> QED
  BY <1>1, <1>3, <1>4, <1>5, <1>6

\* What is written goes on with the output (MtDec.c:720-735).
LEMMA WriteOutIs ==
  ASSUME NEW k \in Nat, out = Units(0, k), NEW m \in Nat, NEW fails \in BOOLEAN, WriteOut(Units(k, m), fails)
  PROVE  \E n \in 0 .. m : out' = Units(0, k + n) /\ (~ fails => n = m)
<1>1. ASSUME NEW n \in Nat
      PROVE  Units(0, k) \o Units(k, n) = Units(0, k + n)
  <2>1. Units(0, k) \o Units(0 + k, n) = Units(0, k + n)
    BY UnitsJoin
  <2>2. 0 + k = k
    OBVIOUS
  <2> QED
    BY <2>1, <2>2
<1>2. CASE fails
  <2>1. Len(Units(k, m)) = m
    BY UnitsAre
  <2>2. PICK n \in 0 .. Len(Units(k, m)) - 1 : out' = out \o SubSeq(Units(k, m), 1, n)
    BY <1>2 DEF WriteOut
  <2>3. n \in 0 .. m
    BY <2>1, <2>2
  <2>4. SubSeq(Units(k, m), 1, n) = Units(k, n)
    BY <2>3, UnitsHold
  <2>5. Units(0, k) \o Units(k, n) = Units(0, k + n)
    <3>1. n \in Nat
      BY <2>3
    <3> QED
      BY <3>1, <1>1
  <2>6. out' = Units(0, k) \o Units(k, n)
    BY <2>2, <2>4, Zenon
  <2>7. out' = Units(0, k + n)
    BY <2>5, <2>6, Zenon
  <2> QED
    BY <2>3, <2>7, <1>2
<1>3. CASE ~ fails
  <2>1. out' = out \o Units(k, m)
    BY <1>3 DEF WriteOut
  <2>2. Units(0, k) \o Units(k, m) = Units(0, k + m)
    BY <1>1
  <2>3. out' = Units(0, k + m)
    BY <2>1, <2>2, Zenon
  <2>4. m \in 0 .. m
    OBVIOUS
  <2> QED
    BY <2>3, <2>4
<1> QED
  BY <1>2, <1>3

\* Unless the last block ends the ring, the rights go on (MtDec.c:772-795).
LEMMA PassOnStays ==
  ASSUME RingTypes, NEW t \in Thread, NEW goesOn \in BOOLEAN, PassOn(t, goesOn), pc[t] = "write",
         ~ Over, goesOn \/ ~ loc[t].finish
  PROVE  /\ ~ Over' /\ pc'[t] = "waitRead"
         /\ canWrite' = [canWrite EXCEPT ![IF loc[t].finish THEN 0 ELSE loc[t].next] = TRUE]
         /\ canRead' = IF loc[t].finish THEN [canRead EXCEPT ![0] = TRUE] ELSE canRead
<1>1. PICK ends \in BOOLEAN : ends <=> loc[t].finish /\ ~ goesOn
  OBVIOUS
<1>2. ~ ends
  BY <1>1
<1>3. /\ canWrite' = [canWrite EXCEPT ![IF loc[t].finish THEN 0 ELSE loc[t].next] = TRUE]
      /\ canRead' = (IF loc[t].finish THEN [canRead EXCEPT ![0] = TRUE] ELSE canRead)
      /\ (exitThread' <=> exitThread) /\ pc' = [pc EXCEPT ![t] = "waitRead"]
  BY <1>1, <1>2 DEF PassOn, Goto, RingTypes
<1>4. pc'[t] = "waitRead"
  BY <1>3 DEF RingTypes
<1>5. ~ Over'
  BY <1>3, MtDecAssumption DEF Over, RingTypes, Thread
<1> QED
  BY <1>3, <1>4, <1>5

\* What the end of an iteration of t leaves, and that t then has no block.
Leaves(t) ==
  /\ pc[t] = "write" /\ loc' = [loc EXCEPT ![t] = NoLoc] /\ coder' = [coder EXCEPT ![t] = NoCoder]
  /\ main' = main /\ input' = input /\ result' = result /\ fresh' = fresh
  /\ pos' = pos /\ readWasFinished' = readWasFinished /\ readRes' = readRes /\ blockIndex' = blockIndex
  /\ cross' = cross /\ outParsed' = outParsed /\ numStarted' = numStarted
  /\ progressRes' = progressRes /\ isAllocError' = isAllocError /\ overflow' = overflow
  /\ threadingError' = threadingError

LEMMA WriteLeaves ==
  ASSUME NEW t \in Thread, Write(t)
  PROVE  Leaves(t)
BY DEF Write, Leaves, callerVars, readerVars, stVars

\* What is written goes on with what was decoded (MtDec.c:720-735).
LEMMA WrittenOutput ==
  ASSUME Rights, Sizes, Content, NEW t \in Thread, Leaves(t), NEW l, NEW c, NEW fails, NEW goesOn, NEW kp,
         NEW counts, Wrote(t, l, c, fails, goesOn, kp, counts)
  PROVE  /\ Output' /\ out' \in Seq(Nat)
         /\ l.write => /\ Len(c.data) \in Nat
                       /\ ~ fails => Len(out') = Len(out) + Len(c.data)
         /\ ~ l.write => out' = out
<1>1. /\ l = loc[t] /\ c = coder[t] /\ fails \in BOOLEAN
      /\ l.write => WriteOut(c.data, fails)
      /\ ~ l.write => out' = out
  BY DEF Wrote
<1>2. pc[t] = "write" /\ input' = input
  BY DEF Leaves
<1>3. InputIs(input)
  BY TypesHere
<1>4. out \in Seq(Nat) /\ out = Units(0, Len(out)) /\ Sound(input, Len(out))
  BY DEF Content, DataTypes, Output
<1>5. CASE ~ l.write
  BY <1>1, <1>2, <1>4, <1>5 DEF Output
<1>6. CASE l.write
  <2>1. WriteAt(input, Len(out), inProcessed, wasInterrupted, failed, l, c)
    BY <1>1, <1>2, <1>6 DEF Content, Writes
  <2>2. PICK k \in Nat : k = Len(out)
    BY <1>4
  <2>3. PICK m \in Nat : m = Len(c.data) /\ c.data = Units(k, m) /\ Sound(input, k + m)
    BY <2>1, <2>2 DEF WriteAt
  <2>4. out = Units(0, k) /\ WriteOut(Units(k, m), fails)
    BY <1>1, <1>4, <1>6, <2>2, <2>3
  <2>5. PICK n \in 0 .. m : out' = Units(0, k + n) /\ (~ fails => n = m)
    BY <1>1, <2>4, WriteOutIs
  <2>6. PICK j \in Nat : j = k + n
    OBVIOUS
  <2>7. j <= k + m
    BY <2>6
  <2>8. Sound(input, j)
    BY <1>3, <2>3, <2>7, SoundLess
  <2>9. out' = Units(0, j) /\ 0 \in Nat
    BY <2>5, <2>6
  <2>10. out' \in Seq(Nat) /\ Len(out') = j
    BY <2>9, UnitsAre
  <2>11. Output'
    BY <1>2, <2>8, <2>9, <2>10 DEF Output
  <2>12. ~ fails => j = k + m
    BY <2>5, <2>6
  <2> QED
    BY <2>2, <2>3, <2>10, <2>11, <2>12, <1>6
<1> QED
  BY <1>5, <1>6

\* A thread that does not write although the ring goes on knows why it does
\* not (MtDec.c:720-752).
LEMMA WrittenStopped ==
  ASSUME Rights, Sizes, Content, NEW t \in Thread, Leaves(t), NEW l, NEW c, NEW fails, NEW goesOn, NEW kp,
         NEW counts, Wrote(t, l, c, fails, goesOn, kp, counts)
  PROVE  Stopped'
<1>1. /\ l = loc[t] /\ c = coder[t] /\ fails \in BOOLEAN /\ goesOn \in BOOLEAN
      /\ goesOn <=> IF l.needWrite THEN l.write /\ ~ fails /\ c.status \in {"more", "new"} ELSE ~ l.finish
      /\ ~ l.write => out' = out
      /\ failed' = failed \cup Kind(fails, "write")
      /\ inProcessed' = (IF l.write THEN inProcessed + c.used ELSE inProcessed)
      /\ (wasInterrupted' <=> wasInterrupted \/ fails)
      /\ PassOn(t, goesOn)
  BY DEF Wrote
<1>2. pc[t] = "write" /\ input' = input /\ main' = main
  BY DEF Leaves
<1>3. /\ main = "mt" /\ ~ Over /\ (\A u \in Thread \ {t} : pc[u] # "write")
      /\ (~ l.write => Told)
  BY <1>1, <1>2, WriterFinds
<1>4. Flags' = Flags
  BY DEF Leaves, Flags
<1>5. failed \subseteq failed'
  BY <1>1
<1>6. /\ l.write => /\ Len(c.data) \in Nat
                    /\ ~ fails => Len(out') = Len(out) + Len(c.data)
  BY WrittenOutput
<1> SUFFICES ASSUME ~ Flags', wasInterrupted' \/ Over'
             PROVE  Settled(input, Len(out'), inProcessed', failed')
  BY <1>2 DEF Stopped
<1>7. CASE fails
  <2>1. "write" \in failed'
    BY <1>1, <1>7 DEF Kind
  <2> QED
    BY <2>1 DEF Settled
<1>8. CASE ~ fails /\ l.write
  <2>1. WriteAt(input, Len(out), inProcessed, wasInterrupted, failed, l, c)
    BY <1>1, <1>2, <1>8 DEF Content, Writes
  <2>2. CASE c.status \in {"more", "new"} /\ ~ wasInterrupted
    <3>1. l.needWrite
      BY <2>1 DEF WriteAt
    <3>2. goesOn
      BY <1>1, <1>8, <2>2, <3>1
    <3>3. RingTypes
      BY DEF Rights
    <3>4. ~ Over'
      BY <1>1, <1>2, <1>3, <3>2, <3>3, PassOnStays
    <3>5. ~ wasInterrupted'
      BY <1>1, <1>8, <2>2
    <3> QED
      BY <3>4, <3>5
  <2>3. CASE ~ (c.status \in {"more", "new"} /\ ~ wasInterrupted)
    <3>1. Settled(input, Len(out) + Len(c.data), inProcessed + c.used, failed)
      BY <2>1, <2>3 DEF WriteAt
    <3>2. Len(out') = Len(out) + Len(c.data) /\ inProcessed' = inProcessed + c.used
      BY <1>1, <1>6, <1>8
    <3>3. Settled(input, Len(out'), inProcessed', failed)
      BY <3>1, <3>2
    <3> QED
      BY <3>3, <1>5, SettledMore
  <2> QED
    BY <2>2, <2>3
<1>9. CASE ~ fails /\ ~ l.write
  <2>1. out' = out /\ inProcessed' = inProcessed
    BY <1>1, <1>9
  <2>2. CASE progressRes # "ok"
    <3>1. "progress" \in failed
      BY <2>2, <1>3 DEF Content, Failures
    <3>2. failed' # {}
      BY <3>1, <1>5
    <3> QED
      BY <3>2 DEF Settled
  <2>3. CASE wasInterrupted
    <3>1. ~ \E u \in Thread : pc[u] = "write" /\ loc[u].write
      BY <1>1, <1>3, <1>9
    <3>2. Settled(input, Len(out), inProcessed, failed)
      BY <2>3, <3>1, <1>3, <1>4 DEF Content, Stopped
    <3>3. Settled(input, Len(out), inProcessed, failed')
      BY <3>2, <1>5, SettledMore
    <3> QED
      BY <2>1, <3>3
  <2> QED
    BY <2>2, <2>3, <1>3, <1>9 DEF Told
<1> QED
  BY <1>1, <1>7, <1>8, <1>9

\* The block for whose sake the ring stops is kept (MtDec.c:754-772).
LEMMA WrittenFlagged ==
  ASSUME Rights, Sizes, Content, NEW t \in Thread, Leaves(t), NEW l, NEW c, NEW fails, NEW goesOn, NEW kp,
         NEW counts, Wrote(t, l, c, fails, goesOn, kp, counts)
  PROVE  Flagged'
<1>1. /\ l = loc[t] /\ goesOn \in BOOLEAN /\ kp \in BOOLEAN /\ counts \in BOOLEAN
      /\ ~ l.write /\ wasInterrupted => kp
      /\ counts <=> kp /\ (l.size # 0 \/ ~ l.finish)
      /\ ~ l.write => out' = out
      /\ inProcessed' = (IF l.write THEN inProcessed + c.used ELSE inProcessed)
      /\ filledStart' = (IF kp /\ numFilled = 0 THEN t ELSE filledStart)
      /\ numFilled' = (IF counts THEN numFilled + 1 ELSE numFilled)
      /\ filledSize' = [filledSize EXCEPT ![t] = IF counts THEN l.size ELSE @]
      /\ filledFirst' = [filledFirst EXCEPT ![t] = IF counts THEN l.first ELSE @]
      /\ inBuf' = [inBuf EXCEPT ![t] = IF counts THEN @ ELSE Used(@)]
      /\ PassOn(t, goesOn)
  BY DEF Wrote
<1>2. /\ pc[t] = "write" /\ loc' = [loc EXCEPT ![t] = NoLoc]
      /\ input' = input /\ main' = main /\ progressRes' = progressRes /\ numStarted' = numStarted
  BY DEF Leaves
<1>3. Flags' = Flags /\ rd' = rd
  BY DEF Leaves, Flags, rd, Dry
<1> SUFFICES ASSUME Flags, progressRes = "ok"
             PROVE  /\ inProcessed' = Len(out')
                    /\ \A u \in Thread : ~ IsBusy(pc'[u])
                    /\ LET u == filledStart'
                           size == IF numFilled' = 1 THEN filledSize'[u] ELSE 0
                       IN /\ KeptAt(input', rd', inProcessed', inBuf'[u], filledFirst'[u], size)
                          /\ FirstAt(input', rd', inProcessed', size)
                          /\ numFilled' = 1 => size # 0 /\ filledFirst'[u] >= 1 /\ u < numStarted'
  BY <1>2, <1>3 DEF Flagged
<1>4. /\ main = "mt" /\ l.finish /\ ~ l.write /\ numFilled = 0 /\ wasInterrupted
      /\ \A u \in Thread \ {t} : ~ IsBusy(pc[u])
  BY <1>1, <1>2, WriterFinds
<1>5. RingTypes
  BY DEF Rights
<1>6. \A u \in Thread : ~ IsBusy(pc'[u])
  BY <1>1, <1>2, <1>4, <1>5, PassOnIs
<1>7. IsBusy(pc[t]) /\ Busy(t)
  BY <1>2 DEF IsBusy, Busy
<1>8. t < numStarted
  <2>1. ~ (t >= numStarted)
    BY <1>7 DEF Rights, OnlyStarted
  <2>2. t \in Int /\ numStarted \in Int
    BY MtDecAssumption DEF Rights, RingTypes, Thread
  <2> QED
    BY <2>1, <2>2
<1>9. /\ inProcessed = Len(out)
      /\ KeptAt(input, rd, inProcessed, inBuf[t], l.first, l.size)
      /\ FirstAt(input, rd, inProcessed, l.size)
      /\ l.size # 0 => l.first >= 1
  BY <1>1, <1>4, <1>7 DEF Content, Flagged
<1>10. inProcessed' = inProcessed /\ out' = out /\ filledStart' = t
  BY <1>1, <1>4
<1> HIDE DEF rd, Flags
<1>11. /\ filledSize \in [Thread -> Nat] /\ filledFirst \in [Thread -> Nat]
       /\ inBuf \in [Thread -> Links]
  BY TypesHere DEF Sizes, WriterTypes
<1>12. CASE l.size # 0
  <2>1. counts
    BY <1>1, <1>4, <1>12
  <2>2. numFilled' = 1 /\ filledSize'[t] = l.size /\ filledFirst'[t] = l.first /\ inBuf'[t] = inBuf[t]
    BY <1>1, <1>4, <1>11, <2>1
  <2> QED
    BY <2>2, <1>2, <1>3, <1>6, <1>8, <1>9, <1>10, <1>12
<1>13. CASE l.size = 0
  <2>1. ~ counts
    BY <1>1, <1>4, <1>13
  <2>2. numFilled' = 0
    BY <1>1, <1>4, <2>1
  <2>3. KeptAt(input, rd, inProcessed, inBuf'[t], filledFirst'[t], 0) /\ FirstAt(input, rd, inProcessed, 0)
    BY <1>9, <1>13 DEF KeptAt
  <2> QED
    BY <2>2, <2>3, <1>2, <1>3, <1>6, <1>9, <1>10
<1> QED
  BY <1>12, <1>13

\* A block after which decoding goes on was decoded whole (Lzma2DecMt.c:485-560).
LEMMA GoesOnWhole ==
  ASSUME NEW inp, NEW p, NEW l, IsLocal(l), NEW c, IsCoder(c), Parsed(inp, p, l, c),
         CodedAt(inp, p, l, c), l.code = "ok", c.status \in {"more", "new"}
  PROVE  Len(c.data) = l.size /\ c.used = l.size
<1>1. PICK m, n, o \in Nat : n = c.inPre /\ o = c.outPre /\ m = Len(c.data)
  BY DEF IsCoder, CodedAt
<1> QED
  BY <1>1 DEF Parsed, CodedAt

\* The block of a writer while nothing has failed.
WriterHas(Q, t) ==
  LET l == loc[t]
  IN /\ l.write /\ l.needWrite /\ l.needCode /\ ~ l.thread /\ l.code = "ok"
     /\ ~ l.alloc /\ ~ l.over /\ ~ l.stop
     /\ BlockAt(input, rd, Q[l.block], l, coder[t], inBuf[t])
     /\ CodedAt(input, Q[l.block], l, coder[t])
     /\ inProcessed = Q[l.block]
     /\ ~ l.finish => Q[l.block + 1] = Q[l.block] + l.size

LEMMA WriterIs ==
  ASSUME Rights, Sizes, Content, NEW t \in Thread, pc[t] = "write", ~ Told, NEW Q \in Places, Laid(Q)
  PROVE  WriterHas(Q, t)
<1>1. main = "mt" /\ ~ Over /\ (~ Told => ~ loc[t].stop) /\ (~ loc[t].write => Told)
  BY WriterFinds
<1>2. loc[t].write /\ ~ loc[t].stop /\ ~ wasInterrupted
  BY <1>1 DEF Told
<1>3. IsBusy("write") /\ IsWork("write")
  BY DEF IsBusy, IsWork
<1>4. NoteAt("write", loc[t], coder[t], wasInterrupted)
  BY DEF Content, Notes
<1>5. /\ loc[t].code = "ok" /\ ~ loc[t].alloc /\ ~ loc[t].over /\ ~ loc[t].thread
      /\ loc[t].needCode
  BY <1>2, <1>3, <1>4 DEF NoteAt
<1>6. loc[t].needWrite
  BY <1>2 DEF Content, Writes, WriteAt
<1> HIDE DEF rd
<1>7. LaidAt(input, rd, Q, blockIndex, inProcessed, "write", loc[t], coder[t], inBuf[t], canRead[t], canWrite[t])
  BY Zenon DEF Laid
<1>8. /\ inProcessed = Q[loc[t].block]
      /\ loc[t].finish => LastAt(input, rd, Q[loc[t].block], loc[t], coder[t], inBuf[t])
      /\ ~ loc[t].finish => /\ MiddleAt(input, rd, Q[loc[t].block], loc[t], coder[t], inBuf[t])
                            /\ Q[loc[t].block + 1] = Q[loc[t].block] + loc[t].size
      /\ CodedAt(input, Q[loc[t].block], loc[t], coder[t])
  BY <1>2, <1>3, <1>5, <1>7, Zenon DEF LaidAt
<1>9. BlockAt(input, rd, Q[loc[t].block], loc[t], coder[t], inBuf[t])
  BY <1>8, Zenon DEF BlockAt
<1> QED
  BY <1>2, <1>5, <1>6, <1>8, <1>9, Zenon DEF WriterHas

\* After the last block the ring begins again where the input was at its end
\* (MtDec.c:777-793).
LEMMA LastBegins ==
  ASSUME NEW inp, inp.outSize \in Nat, NEW r, r.pos \in Nat, NEW p \in Nat, NEW l, IsLocal(l), NEW c, IsCoder(c),
         NEW L, LastAt(inp, r, p, l, c, L), ~ l.stop, ~ l.alloc, ~ l.over, ~ l.thread, l.code = "ok",
         c.status \in {"more", "new"}
  PROVE  AtStart(inp, r, p + l.size)
<1>1. ParsedAt(inp, r, p, l, c, L) /\ c.status = "more"
  BY DEF LastAt, WholeAt
<1>2. /\ Parsed(inp, p, l, c) /\ CrossAt(r, p + l.size) /\ r.cross = <<>> /\ p + l.size = r.pos
      /\ r.dry /\ r.parsed <= p + l.size
  BY <1>1 DEF ParsedAt
<1>3. PICK n \in Nat : n = l.size
  BY DEF IsLocal
<1>4. n = c.inPre /\ c.inPre = c.outPre /\ p + c.outPre <= inp.outSize
  BY <1>1, <1>2, <1>3 DEF Parsed, Chunks
<1>5. p + n <= inp.outSize
  BY <1>4
<1>6. Len(<<>>) = 0
  OBVIOUS
<1>7. p + n + Len(r.cross) = r.pos
  BY <1>2, <1>3, <1>6
<1> QED
  BY <1>2, <1>3, <1>5, <1>7 DEF AtStart, FreshAt

\* The right to write passes a thread by, or comes to it.
LEMMA LaidPassed ==
  ASSUME NEW inp, NEW r, NEW Q, NEW bi, NEW ip, NEW jp, NEW at, NEW l, NEW c, NEW L, NEW reads, NEW writes,
         NEW w, LaidAt(inp, r, Q, bi, ip, at, l, c, L, reads, writes),
         w \/ at = "write" => jp = IF IsBusy(at) THEN Q[l.block] ELSE Q[bi]
  PROVE  LaidAt(inp, r, Q, bi, jp, at, l, c, L, reads, w)
BY DEF LaidAt

\* A thread that waits has what its rights give it.
LEMMA LaidWaits ==
  ASSUME NEW inp, NEW r, NEW Q, NEW bi, NEW ip, NEW at, NEW l, NEW c, NEW L, NEW reads, NEW writes,
         ~ IsBusy(at), reads => AtStart(inp, r, Q[bi]), writes => ip = Q[bi]
  PROVE  LaidAt(inp, r, Q, bi, ip, at, l, c, L, reads, writes)
<1>1. at \notin {"read", "parse", "hand", "code", "waitWrite", "write"} /\ ~ IsWork(at)
  BY DEF IsBusy, IsWork
<1> QED
  BY <1>1 DEF LaidAt

\* A written block of n units, at p, after which decoding goes on.
WritesOn(t, p, n, goesOn) ==
  /\ p \in Nat /\ n \in Nat /\ n = loc[t].size /\ goesOn
  /\ inProcessed' = p + n /\ Len(out') = p + n
  /\ loc[t].finish => AtStart(input, rd, p + n)

\* While nothing fails and the ring goes on, what was written is the whole
\* block (MtDec.c:720-752).
LEMMA WrittenWhole ==
  ASSUME Rights, Sizes, Content, NEW t \in Thread, Leaves(t), NEW l, NEW c, NEW fails, NEW goesOn, NEW kp,
         NEW counts, Wrote(t, l, c, fails, goesOn, kp, counts), ~ Told', ~ Over', NEW Q \in Places, Laid(Q)
  PROVE  \E p, n : WritesOn(t, p, n, goesOn) /\ WriterHas(Q, t) /\ p = Q[loc[t].block] /\ ~ Told
<1>1. /\ l = loc[t] /\ c = coder[t] /\ fails \in BOOLEAN /\ goesOn \in BOOLEAN
      /\ goesOn <=> IF l.needWrite THEN l.write /\ ~ fails /\ c.status \in {"more", "new"} ELSE ~ l.finish
      /\ inProcessed' = (IF l.write THEN inProcessed + c.used ELSE inProcessed)
      /\ (wasInterrupted' <=> wasInterrupted \/ fails)
      /\ PassOn(t, goesOn)
  BY DEF Wrote
<1>2. pc[t] = "write" /\ progressRes' = progressRes /\ loc' = [loc EXCEPT ![t] = NoLoc]
  BY DEF Leaves
<1>3. ~ Told /\ ~ fails
  BY <1>1, <1>2 DEF Told
<1>4. WriterHas(Q, t)
  BY <1>2, <1>3, WriterIs
<1>5. main = "mt" /\ ~ Over
  BY <1>2, WriterFinds
<1>6. inProcessed = Len(out)
  BY <1>3, <1>5 DEF Content, Layout
<1>7. /\ InputIs(input) /\ IsLocal(l) /\ IsCoder(c) /\ l.block \in Nat /\ inBuf[t] \in Links
      /\ pos \in Nat /\ rd.pos = pos /\ InBufIs /\ input.outSize \in Nat
  BY <1>1, TypesHere
<1>8. rd.cross \in Seq(Nat)
  BY DEF rd, Sizes, ReaderTypes
<1>9. RingTypes
  BY DEF Rights
<1>10. PICK p \in Nat : p = Q[l.block]
  BY <1>7 DEF Places
<1>11. l.write => /\ Len(c.data) \in Nat
                  /\ ~ fails => Len(out') = Len(out) + Len(c.data)
  BY WrittenOutput
<1> HIDE DEF rd
<1>12. /\ l.write /\ l.needWrite /\ ~ l.thread /\ l.code = "ok"
       /\ ~ l.alloc /\ ~ l.over /\ ~ l.stop
       /\ BlockAt(input, rd, p, l, c, inBuf[t]) /\ CodedAt(input, p, l, c)
       /\ inProcessed = p
  BY <1>1, <1>4, <1>10, Zenon DEF WriterHas
<1>13. l.finish => goesOn
  BY <1>1, <1>2, <1>9, PassOnIs
<1>14. ~ l.finish => c.status = "new"
  BY <1>12 DEF BlockAt, MiddleAt
<1>15. goesOn
  BY <1>1, <1>3, <1>12, <1>13, <1>14
<1>16. c.status \in {"more", "new"}
  BY <1>1, <1>12, <1>15
<1>17. Parsed(input, p, l, c)
  BY <1>7, <1>8, <1>12, CodeData
<1>18. Len(c.data) = l.size /\ c.used = l.size
  BY <1>7, <1>12, <1>16, <1>17, GoesOnWhole
<1>19. PICK n \in Nat : n = l.size
  BY <1>7 DEF IsLocal
<1>20. inProcessed' = p + n /\ Len(out') = p + n
  BY <1>1, <1>3, <1>6, <1>11, <1>12, <1>18, <1>19
<1>21. l.finish => AtStart(input, rd, p + n)
  <2>1. rd.pos \in Nat
    BY <1>7
  <2>2. l.finish => LastAt(input, rd, p, l, c, inBuf[t])
    BY <1>12 DEF BlockAt
  <2>3. l.finish => AtStart(input, rd, p + l.size)
    BY <2>1, <2>2, <1>7, <1>12, <1>16, LastBegins
  <2> QED
    BY <2>3, <1>19
<1>22. WritesOn(t, p, n, goesOn)
  BY <1>1, <1>15, <1>19, <1>20, <1>21 DEF WritesOn
<1> QED
  BY <1>1, <1>3, <1>4, <1>10, <1>22

\* The right to write goes to the thread with the next block
\* (MtDec.c:772-795).
LEMMA MiddleLayout ==
  ASSUME Rights, Sizes, Content, NEW t \in Thread, Leaves(t), NEW goesOn \in BOOLEAN, PassOn(t, goesOn),
         ~ loc[t].finish, \A u \in Thread \ {t} : inBuf'[u] = inBuf[u],
         NEW Q \in Places, Laid(Q), NEW p, NEW n, WritesOn(t, p, n, goesOn), WriterHas(Q, t),
         p = Q[loc[t].block]
  PROVE  \A u \in Thread : LaidNow(Q, u)'
<1>1. /\ pc[t] = "write" /\ loc' = [loc EXCEPT ![t] = NoLoc] /\ coder' = [coder EXCEPT ![t] = NoCoder]
      /\ input' = input /\ blockIndex' = blockIndex
  BY DEF Leaves
<1>2. rd' = rd
  BY DEF Leaves, rd, Dry
<1>3. /\ loc[t].block \in 1 .. blockIndex - 1 /\ blockIndex \in Nat
      /\ \A u \in Thread : ~ canWrite[u] /\ (u # t => pc[u] # "write")
      /\ \A u \in Thread \ {t} : Busy(u) => loc[t].block < loc[u].block
  BY <1>1, WriteFinds
<1>4. RingTypes /\ DOMAIN coder = Thread
  BY DEF Rights, Sizes, ThreadTypes
<1>5. /\ ~ IsBusy(pc'[t])
      /\ \A u \in Thread \ {t} : pc'[u] = pc[u] /\ loc'[u] = loc[u] /\ coder'[u] = coder[u]
      /\ canRead' = canRead /\ canWrite' = [canWrite EXCEPT ![loc[t].next] = TRUE]
  BY <1>1, <1>4, PassOnIs
<1>6. PICK x \in Thread : /\ x = loc[t].next
                          /\ \/ canRead[x] /\ blockIndex = loc[t].block + 1
                             \/ Busy(x) /\ loc[x].block = loc[t].block + 1
  <2>1. Work(t)
    BY <1>1 DEF Work
  <2> QED
    BY <2>1 DEF Rights, Chain
<1>7. \A u \in Thread : canWrite'[u] <=> u = x
  BY <1>3, <1>4, <1>5, <1>6 DEF RingTypes
<1>8. canWrite'[x] = TRUE /\ \A u \in Thread \ {x} : canWrite'[u] = FALSE
  BY <1>4, <1>5, <1>6, <1>3 DEF RingTypes
<1> HIDE DEF rd
<1>9. inProcessed' = p + n /\ Q[loc[t].block + 1] = p + n
  BY Zenon DEF WritesOn, WriterHas
<1>10. \A u \in Thread : LaidAt(input, rd, Q, blockIndex, inProcessed, pc[u], loc[u], coder[u], inBuf[u],
                                canRead[u], canWrite[u])
  BY Zenon DEF Laid
<1> SUFFICES ASSUME NEW u \in Thread
             PROVE  LaidAt(input, rd, Q, blockIndex, inProcessed', pc'[u], loc'[u], coder'[u], inBuf'[u],
                           canRead[u], canWrite'[u])
  BY <1>1, <1>2, <1>5, Zenon DEF LaidNow
<1>11. LaidAt(input, rd, Q, blockIndex, inProcessed, pc[u], loc[u], coder[u], inBuf[u], canRead[u], canWrite[u])
  BY <1>10
<1>12. CASE u = t
  <2>1. canRead[u] => AtStart(input, rd, Q[blockIndex])
    BY <1>11, Zenon DEF LaidAt
  <2>2. canWrite'[u] => inProcessed' = Q[blockIndex]
    <3>1. ASSUME u = x
          PROVE  blockIndex = loc[t].block + 1
      <4>1. ~ (loc[x].block = loc[t].block + 1)
        BY <1>3, <1>12, <3>1
      <4> QED
        BY <4>1, <1>6
    <3> QED
      BY <3>1, <1>7, <1>9
  <2> QED
    BY <2>1, <2>2, <1>5, <1>12, LaidWaits, Zenon
<1>13. CASE u # t
  <2>1. canWrite'[u] \/ pc[u] = "write" => inProcessed' = IF IsBusy(pc[u]) THEN Q[loc[u].block] ELSE Q[blockIndex]
    <3> SUFFICES ASSUME u = x
                 PROVE  inProcessed' = IF IsBusy(pc[u]) THEN Q[loc[u].block] ELSE Q[blockIndex]
      BY <1>3, <1>7, <1>13
    <3>1. Busy(u) <=> IsBusy(pc[u])
      BY DEF Busy, IsBusy
    <3>2. Busy(u) => loc[u].block \in 1 .. blockIndex - 1 /\ loc[t].block < loc[u].block
      BY <1>3, <1>13 DEF Rights, Blocks
    <3>3. CASE Busy(u)
      <4>1. loc[u].block = loc[t].block + 1
        BY <3>2, <3>3, <1>3, <1>6
      <4> QED
        BY <4>1, <3>1, <3>3, <1>9
    <3>4. CASE ~ Busy(u)
      BY <3>1, <3>4, <1>6, <1>9
    <3> QED
      BY <3>3, <3>4
  <2>2. LaidAt(input, rd, Q, blockIndex, inProcessed', pc[u], loc[u], coder[u], inBuf[u], canRead[u], canWrite'[u])
    BY <2>1, <1>11, LaidPassed, Zenon
  <2>3. pc'[u] = pc[u] /\ loc'[u] = loc[u] /\ coder'[u] = coder[u] /\ inBuf'[u] = inBuf[u]
    BY <1>5, <1>13
  <2> QED
    BY <2>2, <2>3, Zenon
<1> QED
  BY <1>12, <1>13

\* After the last block thread 0 gets both rights again (MtDec.c:777-793).
LEMMA LastLayout ==
  ASSUME Rights, Sizes, Content, NEW t \in Thread, Leaves(t), NEW goesOn \in BOOLEAN, PassOn(t, goesOn),
         loc[t].finish, NEW Q \in Places, NEW p, NEW n, WritesOn(t, p, n, goesOn)
  PROVE  \E R \in Places : \A u \in Thread : LaidNow(R, u)'
<1>1. /\ pc[t] = "write" /\ loc' = [loc EXCEPT ![t] = NoLoc]
      /\ input' = input /\ blockIndex' = blockIndex
  BY DEF Leaves
<1>2. rd' = rd
  BY DEF Leaves, rd, Dry
<1>3. blockIndex \in Nat /\ \A u \in Thread : u # t => ~ Busy(u)
  BY <1>1, WriteFinds
<1>4. RingTypes
  BY DEF Rights
<1> HIDE DEF rd
<1>5. \A u \in Thread : ~ IsBusy(pc'[u])
  <2>1. ~ IsBusy(pc'[t]) /\ \A u \in Thread \ {t} : pc'[u] = pc[u]
    BY <1>1, <1>4, PassOnIs
  <2>2. \A u \in Thread \ {t} : ~ IsBusy(pc[u])
    BY <1>3 DEF Busy, IsBusy
  <2> QED
    BY <2>1, <2>2
<1>6. PICK q \in Nat : q = p + n
  BY DEF WritesOn
<1>7. inProcessed' = q /\ AtStart(input, rd, q)
  BY <1>6 DEF WritesOn
<1>8. [Q EXCEPT ![blockIndex] = q] \in Places
  BY <1>3 DEF Places
<1>9. PICK R \in Places : R = [Q EXCEPT ![blockIndex] = q]
  BY <1>8
<1>10. R[blockIndex] = q
  BY <1>3, <1>9 DEF Places
<1>11. ASSUME NEW u \in Thread
       PROVE  LaidNow(R, u)'
  <2>1. LaidAt(input, rd, R, blockIndex, inProcessed', pc'[u], loc'[u], coder'[u], inBuf'[u], canRead'[u], canWrite'[u])
    BY <1>5, <1>7, <1>10, LaidWaits, Zenon
  <2> QED
    BY <2>1, <1>1, <1>2, Zenon DEF LaidNow
<1> QED
  BY <1>11, Zenon

\* The blocks lie one after the other when one of them was written.
LEMMA WrittenLayout ==
  ASSUME Rights, Sizes, Content, NEW t \in Thread, Leaves(t), NEW l, NEW c, NEW fails, NEW goesOn, NEW kp,
         NEW counts, Wrote(t, l, c, fails, goesOn, kp, counts)
  PROVE  Layout'
<1> SUFFICES ASSUME ~ Told', ~ Over'
             PROVE  inProcessed' = Len(out') /\ \E R \in Places : \A u \in Thread : LaidNow(R, u)'
  BY Zenon DEF Layout, Laid, LaidNow
<1>1. goesOn \in BOOLEAN /\ PassOn(t, goesOn) /\ fails \in BOOLEAN
  BY DEF Wrote
<1>2. pc[t] = "write" /\ progressRes' = progressRes
  BY DEF Leaves
<1>3. main = "mt" /\ ~ Over
  BY <1>2, WriterFinds
<1>4. ~ Told
  BY <1>2 DEF Told, Wrote
<1>5. PICK Q \in Places : Laid(Q)
  BY <1>3, <1>4, Zenon DEF Content, Layout
<1>6. PICK p, n : WritesOn(t, p, n, goesOn) /\ WriterHas(Q, t) /\ p = Q[loc[t].block]
  BY <1>5, WrittenWhole, Zenon
<1>7. inProcessed' = Len(out')
  BY <1>6 DEF WritesOn
<1>8. \A u \in Thread \ {t} : inBuf'[u] = inBuf[u]
  <2>1. inBuf' = [inBuf EXCEPT ![t] = IF counts THEN @ ELSE Used(@)]
    BY DEF Wrote
  <2>2. DOMAIN inBuf = Thread
    BY TypesHere
  <2> QED
    BY <2>1, <2>2
<1>9. \E R \in Places : \A u \in Thread : LaidNow(R, u)'
  <2>1. CASE loc[t].finish
    BY <1>1, <1>6, <2>1, LastLayout, Zenon
  <2>2. CASE ~ loc[t].finish
    BY <1>1, <1>5, <1>6, <1>8, <2>2, MiddleLayout, Zenon
  <2> QED
    BY <2>1, <2>2
<1> QED
  BY <1>7, <1>9, Zenon

\* The links of a buffer stay so many.
LEMMA UsedType ==
  ASSUME NEW L \in Links
  PROVE  Used(L) \in Links
<1>1. Len(L) \in Nat
  BY DEF Links
<1>2. <<>> \in Seq(Nat)
  OBVIOUS
<1> QED
  BY <1>1, <1>2 DEF Used, Links

\* Writing, and the end of an iteration (MtDec.c:720-795).
LEMMA WriteContent ==
  ASSUME Rights, Sizes, Content, NEW t \in Thread, Write(t)
  PROVE  Content'
<1>1. Leaves(t)
  BY WriteLeaves
<1>2. PICK l, c, fails, goesOn, kp, counts : Wrote(t, l, c, fails, goesOn, kp, counts)
  BY WroteIs
<1>3. /\ pc[t] = "write" /\ loc' = [loc EXCEPT ![t] = NoLoc] /\ coder' = [coder EXCEPT ![t] = NoCoder]
      /\ main' = main /\ input' = input /\ result' = result /\ fresh' = fresh
      /\ pos' = pos /\ readWasFinished' = readWasFinished /\ readRes' = readRes
      /\ progressRes' = progressRes
  BY <1>1 DEF Leaves
<1>4. main = "mt" /\ \A u \in Thread \ {t} : pc[u] # "write"
  BY <1>3, WriterFinds
<1>5. /\ fails \in BOOLEAN /\ goesOn \in BOOLEAN /\ PassOn(t, goesOn)
      /\ failed' = failed \cup Kind(fails, "write")
      /\ inBuf' = [inBuf EXCEPT ![t] = IF counts THEN @ ELSE Used(@)]
      /\ wasInterrupted' \in BOOLEAN /\ (wasInterrupted' <=> wasInterrupted \/ fails)
  BY <1>2 DEF Wrote
<1>6. RingTypes /\ DOMAIN coder = Thread /\ wasInterrupted \in BOOLEAN
  BY DEF Rights, Sizes, ThreadTypes, WriterTypes
<1>7. /\ ~ IsBusy(pc'[t]) /\ loc'[t] = NoLoc /\ coder'[t] = NoCoder
      /\ \A u \in Thread \ {t} : pc'[u] = pc[u] /\ loc'[u] = loc[u] /\ coder'[u] = coder[u]
  BY <1>3, <1>5, <1>6, PassOnIs
<1>8. pc'[t] # "write"
  BY <1>7 DEF IsBusy
<1>9. failed \subseteq failed' /\ failed' \subseteq failed \cup {"write"}
  BY <1>5 DEF Kind
<1>10. Output' /\ out' \in Seq(Nat)
  BY <1>1, <1>2, WrittenOutput
<1>11. DataTypes'
  <2>1. inBuf \in [Thread -> Links]
    BY TypesHere
  <2>2. Used(inBuf[t]) \in Links
    BY <2>1, UsedType
  <2> HIDE DEF Used
  <2>3. inBuf' \in [Thread -> Links]
    BY <2>1, <2>2, <1>5
  <2> QED
    BY <2>3, <1>10 DEF DataTypes, Links
<1>12. Failures'
  <2>1. progressRes' # "ok" => progressRes # "ok" \/ "progress" \in failed'
    BY <1>3
  <2>2. failed' \subseteq failed \cup {"write", "progress"}
    BY <1>9
  <2> QED
    BY <2>1, <2>2, <1>3, <1>4, <1>9, FailuresStay
<1>13. Writes'
  BY <1>4, <1>7, <1>8 DEF Writes
<1>14. Notes'
  <2> SUFFICES ASSUME NEW u \in Thread
               PROVE  NoteAt(pc'[u], loc'[u], coder'[u], wasInterrupted')
    BY DEF Notes
  <2>1. CASE u = t
    <3>1. /\ pc'[t] \notin {"read", "parse", "hand", "code", "waitWrite", "write"} /\ ~ IsWork(pc'[t])
      BY <1>7 DEF IsBusy, IsWork
    <3>2. NoteAt(pc'[t], NoLoc, NoCoder, wasInterrupted')
      BY <3>1 DEF NoteAt, NoLoc, NoCoder
    <3> QED
      BY <3>2, <2>1, <1>7
  <2>2. CASE u # t
    <3>1. NoteAt(pc[u], loc[u], coder[u], wasInterrupted)
      BY DEF Content, Notes
    <3>2. wasInterrupted = wasInterrupted' \/ wasInterrupted' = TRUE
      BY <1>5, <1>6
    <3>3. NoteAt(pc[u], loc[u], coder[u], wasInterrupted')
      BY <3>1, <3>2, NoteMore, Zenon
    <3> QED
      BY <3>3, <2>2, <1>7
  <2> QED
    BY <2>1, <2>2
<1>15. Layout' /\ Flagged' /\ Stopped'
  BY <1>1, <1>2, WrittenLayout, WrittenFlagged, WrittenStopped, Zenon
<1>16. Single' /\ Outcome'
  BY <1>3, <1>4 DEF Single, Outcome
<1> QED
  BY <1>10, <1>11, <1>12, <1>13, <1>14, <1>15, <1>16, Zenon DEF Content

-----------------------------------------------------------------------------
(* The caller. *)

\* Outside the ring no thread has a block (MtDec.c:777-793).
LEMMA OutsideIdle ==
  ASSUME Rights, ~ Runs, NEW t \in Thread
  PROVE  ~ IsBusy(pc[t])
BY DEF Rights, Clear, Busy, IsBusy

\* Threads that have no block write nothing and know nothing.
LEMMA IdleNotes ==
  ASSUME Content, loc' = loc, coder' = coder, \A t \in Thread : ~ IsBusy(pc[t]) /\ ~ IsBusy(pc'[t])
  PROVE  Writes' /\ Notes'
<1>1. Writes'
  BY DEF Writes, IsBusy
<1>2. Notes'
  <2> SUFFICES ASSUME NEW u \in Thread
               PROVE  NoteAt(pc'[u], loc[u], coder[u], wasInterrupted')
    BY DEF Notes
  <2>1. NoteAt(pc[u], loc[u], coder[u], wasInterrupted)
    BY DEF Content, Notes
  <2> QED
    BY <2>1, NoteIdle
<1> QED
  BY <1>1, <1>2

\* A step of the caller outside the ring.
LEMMA OutsideContent ==
  ASSUME Rights, Content, ~ Runs, main' # "mt", loc' = loc, coder' = coder,
         \A t \in Thread : ~ IsBusy(pc'[t])
  PROVE  Writes' /\ Notes' /\ Layout' /\ Flagged' /\ Stopped'
<1>1. Writes' /\ Notes'
  BY OutsideIdle, IdleNotes
<1>2. Layout' /\ Flagged' /\ Stopped'
  BY DEF Layout, Flagged, Stopped
<1> QED
  BY <1>1, <1>2

\* The prologue of a call: nothing has been read or decoded
\* (Lzma2DecMt.c:818-900, MtDec.c:1017-1084).
LEMMA StartContent ==
  ASSUME Rights, Sizes, Content, Start
  PROVE  Content'
<1>1. /\ main = "start" /\ main' = (IF tryMt THEN "mt" ELSE "st")
      /\ inProcessed' = 0 /\ pos' = 0 /\ readWasFinished' = FALSE /\ readRes' = "ok"
      /\ fresh' = TRUE /\ tMode' = FALSE
      /\ input' = input /\ result' = result /\ out' = out /\ failed' = failed
      /\ inBuf' = inBuf /\ coder' = coder /\ loc' = loc
  BY DEF Start, faultVars
<1>2. ~ tryMt => pc' = pc
  BY DEF Start
<1>3. tryMt => /\ outParsed' = 0 /\ blockIndex' = 1
               /\ isAllocError' = FALSE /\ overflow' = FALSE /\ threadingError' = FALSE
               /\ wasInterrupted' = FALSE /\ cross' = <<>>
               /\ progressRes' = "ok" /\ exitThread' = FALSE
               /\ pc' = [pc EXCEPT ![0] = "waitRead"]
  BY DEF Start
<1>4. ~ Runs
  BY <1>1 DEF Runs
<1>5. failed = {} /\ out = <<>> /\ result = "none"
  BY <1>1 DEF Content, Failures
<1>6. Len(out) = 0
  BY <1>5
<1>7. 0 \in Thread /\ pc \in [Thread -> ThreadPc] /\ tryMt \in BOOLEAN
  BY MtDecAssumption DEF Thread, Rights, RingTypes, Sizes, CallerTypes
<1>8. \A t \in Thread : ~ IsBusy(pc[t]) /\ ~ IsBusy(pc'[t])
  <2>1. ~ IsBusy("waitRead")
    BY DEF IsBusy
  <2>2. \A t \in Thread : ~ IsBusy(pc[t])
    BY <1>4, OutsideIdle
  <2>3. \A t \in Thread : pc'[t] = pc[t] \/ pc'[t] = "waitRead"
    BY <1>2, <1>3, <1>7
  <2> HIDE DEF IsBusy
  <2> QED
    BY <2>1, <2>2, <2>3
<1>9. Writes' /\ Notes'
  BY <1>1, <1>8, IdleNotes
<1>10. DataTypes' /\ Output'
  BY <1>1 DEF Content, DataTypes, Output
<1>11. Outcome'
  BY <1>1 DEF Outcome
<1>12. Failures'
  BY <1>1, <1>3, <1>5 DEF Failures
<1>13. CASE ~ tryMt
  <2>1. main' = "st"
    BY <1>1, <1>13
  <2>2. Single'
    BY <1>1, <1>6 DEF Single, Begins
  <2>3. Layout' /\ Flagged' /\ Stopped'
    BY <2>1 DEF Layout, Flagged, Stopped
  <2> QED
    BY <2>2, <2>3, <1>9, <1>10, <1>11, <1>12, Zenon DEF Content
<1>14. CASE tryMt
  <2>1. main' = "mt"
    BY <1>1, <1>14
  <2>2. Single'
    BY <2>1 DEF Single
  <2>3. Flagged'
    BY <1>3, <1>14 DEF Flagged, Flags
  <2>4. Stopped'
    <3>1. pc'[0] = "waitRead"
      BY <1>3, <1>7, <1>14
    <3> QED
      BY <3>1, <1>3, <1>14 DEF Stopped, Over
  <2>5. Layout'
    <3>1. [i \in Nat |-> 0] \in Places
      BY DEF Places
    <3>2. PICK Q \in Places : Q = [i \in Nat |-> 0]
      BY <3>1
    <3>3. Q[1] = 0
      BY <3>2
    <3>4. /\ rd'.cross = <<>> /\ rd'.pos = 0 /\ rd'.parsed = 0
      BY <1>1, <1>3, <1>14 DEF rd
    <3>5. input.outSize \in Nat
      BY InputTypes DEF Sizes
    <3>6. AtStart(input, rd', 0)
      <4>1. Len(<<>>) = 0
        OBVIOUS
      <4>2. CrossAt(rd', 0) /\ 0 + Len(rd'.cross) = rd'.pos
        BY <4>1, <3>4 DEF CrossAt, Holds
      <4> QED
        BY <4>2, <3>4, <3>5 DEF AtStart, FreshAt, Begins
    <3> HIDE DEF rd
    <3>7. ASSUME NEW u \in Thread
          PROVE  LaidNow(Q, u)'
      <4>1. LaidAt(input, rd', Q, 1, 0, pc'[u], loc'[u], coder'[u], inBuf'[u], canRead'[u], canWrite'[u])
        BY <1>8, <3>3, <3>6, LaidWaits, Zenon
      <4> QED
        BY <4>1, <1>1, <1>3, <1>14, Zenon DEF LaidNow
    <3>8. inProcessed' = Len(out')
      BY <1>1, <1>6
    <3>9. \E R \in Places : \A u \in Thread : LaidNow(R, u)'
      BY <3>7, Zenon
    <3> QED
      BY <3>8, <3>9, Zenon DEF Layout, Laid, LaidNow
  <2> QED
    BY <2>2, <2>3, <2>4, <2>5, <1>9, <1>10, <1>11, <1>12, Zenon DEF Content
<1> QED
  BY <1>13, <1>14

\* What the ring leaves to the single thread, size units of it in the links of
\* one thread.
RingLeaves(size) ==
  /\ size \in Nat /\ numFilled \in {0, 1}
  /\ size = (IF numFilled = 1 THEN filledSize[filledStart] ELSE 0) /\ inProcessed = Len(out)
  /\ KeptAt(input, rd, inProcessed, inBuf[filledStart], filledFirst[filledStart], size)
  /\ FirstAt(input, rd, inProcessed, size)
  /\ numFilled = 1 => size # 0 /\ filledFirst[filledStart] >= 1 /\ filledStart < numStarted

\* A ring that stopped so that one thread can go on leaves it what was read but
\* not decoded (MtDec.c:754-772).
LEMMA RingLeavesIs ==
  ASSUME Rights, Sizes, Content, main = "mt", pc[0] = "ended", Flags, progressRes = "ok"
  PROVE  \E size : RingLeaves(size)
<1>1. ~ Runs
  BY DEF Runs
<1>2. \A t \in Thread : ~ IsBusy(pc[t])
  BY <1>1, OutsideIdle
<1>3. KeptFits
  BY <1>2 DEF Sizes, Handover
<1>4. numFilled \in {0, 1}
  BY <1>3 DEF KeptFits
<1>5. PICK size \in Nat : size = (IF numFilled = 1 THEN filledSize[filledStart] ELSE 0)
  BY <1>4 DEF Sizes, WriterTypes
<1> HIDE DEF rd, Flags
<1>6. /\ inProcessed = Len(out)
      /\ KeptAt(input, rd, inProcessed, inBuf[filledStart], filledFirst[filledStart], size)
      /\ FirstAt(input, rd, inProcessed, size)
      /\ numFilled = 1 => size # 0 /\ filledFirst[filledStart] >= 1 /\ filledStart < numStarted
  BY <1>2, <1>5 DEF Content, Flagged
<1>7. RingLeaves(size)
  BY <1>4, <1>5, <1>6, Zenon DEF RingLeaves
<1> QED
  BY <1>7

\* The single thread begins with that.
LEMMA SingleBegins ==
  ASSUME Sizes, Content, main = "mt", NEW size, RingLeaves(size),
         input' = input, out' = out, inProcessed' = inProcessed, fresh' = fresh,
         pos' = pos, cross' = cross, outParsed' = outParsed, readRes' = readRes,
         filledStart' = filledStart, numFilled' = numFilled, filledSize' = filledSize,
         filledFirst' = filledFirst, numStarted' = numStarted,
         tMode' <=> (numFilled # 0 \/ cross # <<>>),
         numFilled = 1 => inBuf'[filledStart] = inBuf[filledStart]
  PROVE  Single'
<1>1. rd' = rd /\ (Dry' <=> Dry) /\ rd.pos = pos /\ rd.cross = cross /\ (rd.dry <=> Dry)
  BY DEF rd, Dry
<1>2. fresh
  BY DEF Content, Failures
<1>3. /\ size \in Nat /\ numFilled \in {0, 1}
      /\ size = (IF numFilled = 1 THEN filledSize[filledStart] ELSE 0) /\ inProcessed = Len(out)
      /\ KeptAt(input, rd, inProcessed, inBuf[filledStart], filledFirst[filledStart], size)
      /\ FirstAt(input, rd, inProcessed, size)
      /\ numFilled = 1 => size # 0 /\ filledFirst[filledStart] >= 1 /\ filledStart < numStarted
  BY DEF RingLeaves
<1> HIDE DEF rd, Dry
<1>4. inProcessed \in Nat /\ pos \in Nat
  BY DEF Sizes, WriterTypes, ReaderTypes
<1>5. ASSUME ~ tMode'
      PROVE  /\ Begins(input, inProcessed) \/ (inProcessed = pos /\ Dry)
             /\ inProcessed = pos \/ Ends(input, inProcessed, 0)
  <2>1. size = 0 /\ cross = <<>>
    BY <1>3, <1>5
  <2>2. FreshAt(input, rd, inProcessed)
    BY <2>1, <1>3 DEF FirstAt
  <2>3. inProcessed + 0 + Len(rd.cross) = rd.pos \/ Ends(input, inProcessed, 0)
    BY <2>1, <1>3 DEF KeptAt
  <2>4. Len(<<>>) = 0
    OBVIOUS
  <2> QED
    BY <2>1, <2>2, <2>3, <2>4, <1>1, <1>4 DEF FreshAt
<1>6. KeptAt(input, rd, inProcessed, inBuf'[filledStart], FirstOf(filledFirst[filledStart], size), size)
  <2>1. CASE numFilled = 1
    <3>1. FirstOf(filledFirst[filledStart], size) = filledFirst[filledStart]
      BY <2>1, <1>3 DEF FirstOf
    <3> QED
      BY <3>1, <2>1, <1>3
  <2>2. CASE numFilled = 0
    <3>1. size = 0
      BY <2>2, <1>3
    <3> QED
      BY <3>1, <1>3 DEF KeptAt
  <2> QED
    BY <2>1, <2>2, <1>3
<1> SUFFICES ASSUME main' = "st"
             PROVE  /\ inProcessed' = Len(out') /\ (fresh' \/ inProcessed' > 0)
                    /\ ~ tMode' =>
                         /\ fresh' => Begins(input', inProcessed') \/ (inProcessed' = pos' /\ Dry')
                         /\ inProcessed' = pos' \/ Ends(input', inProcessed', 0)
                    /\ tMode' =>
                         LET t == filledStart'
                             s == IF numFilled' = 1 THEN filledSize'[t] ELSE 0
                         IN /\ KeptAt(input', rd', inProcessed', inBuf'[t], FirstOf(filledFirst'[t], s), s)
                            /\ fresh' => FirstAt(input', rd', inProcessed', s)
                            /\ numFilled' = 1 => s # 0 /\ t < numStarted'
  BY DEF Single
<1>7. inProcessed' = Len(out') /\ (fresh' \/ inProcessed' > 0)
  BY <1>2, <1>3
<1>8. ~ tMode' =>
        /\ fresh' => Begins(input', inProcessed') \/ (inProcessed' = pos' /\ Dry')
        /\ inProcessed' = pos' \/ Ends(input', inProcessed', 0)
  BY <1>1, <1>5
<1>9. size = (IF numFilled' = 1 THEN filledSize'[filledStart'] ELSE 0)
  BY <1>3
<1>10. /\ KeptAt(input', rd', inProcessed', inBuf'[filledStart'], FirstOf(filledFirst'[filledStart'], size), size)
       /\ FirstAt(input', rd', inProcessed', size)
       /\ numFilled' = 1 => size # 0 /\ filledStart' < numStarted'
  BY <1>1, <1>3, <1>6
<1> QED
  BY <1>7, <1>8, <1>9, <1>10

ReturnNow(f) ==
  /\ Failing(Count(f)) /\ Fatal(Kind(f, "last"))
  /\ main' = IF f THEN "result" ELSE "st"
  /\ sres' = IF f THEN "memory" ELSE "ok"
  /\ tryMt' = FALSE
  /\ tMode' = (numFilled # 0 \/ cross # <<>>)
  /\ crossBlock' = (crossBlock /\ cross # <<>>)
  /\ inBuf' = [t \in Thread |-> IF Filled(t) THEN inBuf[t] ELSE <<>>]
  /\ outBufSize' = [t \in Thread |-> None]

\* MtDec_Code returns (Lzma2DecMt.c:902-950).
LEMMA ReturnContent ==
  ASSUME Rights, Sizes, Content, Return
  PROVE  Content'
<1>1. /\ main = "mt" /\ pc[0] = "ended"
      /\ input' = input /\ result' = result /\ out' = out /\ fresh' = fresh
      /\ pos' = pos /\ readWasFinished' = readWasFinished /\ readRes' = readRes
      /\ cross' = cross /\ outParsed' = outParsed /\ numStarted' = numStarted /\ inProcessed' = inProcessed
      /\ filledStart' = filledStart /\ numFilled' = numFilled /\ filledSize' = filledSize
      /\ filledFirst' = filledFirst
      /\ coder' = coder /\ loc' = loc /\ pc' = [pc EXCEPT ![0] = "none"]
  BY DEF Return, Goto, writerVars, filledVars
<1>2. IF progressRes # "ok" \/ ~ Flags
        THEN /\ main' = "result" /\ sres' = IF progressRes # "ok" THEN progressRes ELSE readRes
             /\ failed' = failed /\ inBuf' = inBuf
        ELSE \E f \in MayFail("last") : ReturnNow(f)
  <2>1. CASE progressRes # "ok" \/ ~ Flags
    BY <2>1 DEF Return, Flags, faultVars
  <2>2. CASE ~ (progressRes # "ok" \/ ~ Flags)
    BY <2>2 DEF Return, Flags, ReturnNow
  <2> QED
    BY <2>1, <2>2
<1>3. ~ Runs
  BY <1>1 DEF Runs
<1>4. \A t \in Thread : ~ IsBusy(pc[t])
  BY <1>3, OutsideIdle
<1>5. \A t \in Thread : ~ IsBusy(pc'[t])
  <2>1. ~ IsBusy("none")
    BY DEF IsBusy
  <2>2. \A t \in Thread : pc'[t] = pc[t] \/ pc'[t] = "none"
    BY <1>1 DEF Rights, RingTypes
  <2> HIDE DEF IsBusy
  <2> QED
    BY <2>1, <2>2, <1>4
<1>6. ~ \E u \in Thread : pc[u] = "write"
  BY <1>4 DEF IsBusy
<1>7. Output'
  BY <1>1 DEF Content, Output
<1>8. /\ failed \subseteq {"read", "write", "progress", "last"}
      /\ readRes = "read" <=> "read" \in failed
      /\ readRes = "read" => readWasFinished
      /\ readWasFinished => Dry
      /\ progressRes # "ok" => "progress" \in failed
      /\ "last" \notin failed /\ result = "none" /\ readRes \in {"ok", "read"}
  BY <1>1 DEF Content, Failures, Sizes, ReaderTypes
<1>9. Dry' <=> Dry
  BY <1>1 DEF Dry
<1>10. CASE progressRes # "ok" \/ ~ Flags
  <2>1. /\ main' = "result" /\ sres' = (IF progressRes # "ok" THEN progressRes ELSE readRes)
        /\ failed' = failed /\ inBuf' = inBuf
    BY <1>2, <1>10
  <2>2. Settled(input, Len(out), inProcessed, failed)
    <3>1. CASE progressRes # "ok"
      BY <3>1, <1>8 DEF Settled
    <3>2. CASE ~ Flags
      <4>1. Over
        BY <1>1 DEF Over
      <4> QED
        BY <3>2, <4>1, <1>1, <1>6 DEF Content, Stopped
    <3> QED
      BY <3>1, <3>2, <1>10
  <2>3. sres' \notin {"data", "eof"} /\ (sres' # "ok" => failed # {})
    <3>1. progressRes \in {"ok", "progress"}
      BY DEF Sizes, ReaderTypes
    <3> QED
      BY <3>1, <2>1, <1>8
  <2>4. Outcome'
    BY <2>1, <2>2, <2>3, <1>1, <1>8 DEF Outcome
  <2>5. Failures'
    BY <2>1, <1>1, <1>8, <1>9 DEF Failures
  <2>6. DataTypes'
    BY <2>1, <1>1 DEF Content, DataTypes
  <2>7. Single'
    BY <2>1 DEF Single
  <2>8. Writes' /\ Notes' /\ Layout' /\ Flagged' /\ Stopped'
    BY <2>1, <1>1, <1>3, <1>5, OutsideContent
  <2> QED
    BY <2>4, <2>5, <2>6, <2>7, <2>8, <1>7, Zenon DEF Content
<1>11. CASE ~ (progressRes # "ok" \/ ~ Flags)
  <2>1. PICK f : f \in MayFail("last") /\ ReturnNow(f)
    BY <1>2, <1>11
  <2>2. /\ f \in BOOLEAN /\ failed' = failed \cup Kind(f, "last")
        /\ main' = (IF f THEN "result" ELSE "st") /\ sres' = (IF f THEN "memory" ELSE "ok")
        /\ tMode' <=> (numFilled # 0 \/ cross # <<>>)
        /\ inBuf' = [t \in Thread |-> IF Filled(t) THEN inBuf[t] ELSE <<>>]
    BY <2>1, MayFailIs DEF ReturnNow, Fatal
  <2>3. failed' = (IF f THEN failed \cup {"last"} ELSE failed)
    BY <2>2 DEF Kind
  <2>4. main' # "mt" /\ main' # "start" /\ main' # "done"
    BY <2>2
  <2>5. Writes' /\ Notes' /\ Layout' /\ Flagged' /\ Stopped'
    BY <2>4, <1>1, <1>3, <1>5, OutsideContent
  <2>6. Failures'
    <3>1. failed' \subseteq {"read", "write", "progress", "last"} /\ ("read" \in failed' <=> "read" \in failed)
      BY <2>3, <1>8
    <3>2. main' = "st" => "last" \notin failed'
      BY <2>2, <2>3, <1>8
    <3> QED
      BY <3>1, <3>2, <2>4, <1>1, <1>8, <1>9 DEF Failures
  <2>7. Outcome'
    <3>1. main' = "result" => failed' # {} /\ sres' = "memory"
      BY <2>2, <2>3
    <3> QED
      BY <3>1 DEF Outcome, Settled
  <2>8. inBuf \in [Thread -> Links]
    BY DEF Content, DataTypes, Links
  <2>9. DataTypes'
    <3>1. <<>> \in Links
      BY DEF Links
    <3> HIDE DEF Filled
    <3>2. inBuf' \in [Thread -> Links]
      BY <3>1, <2>2, <2>8
    <3> QED
      BY <3>2, <1>1 DEF Content, DataTypes, Links
  <2>10. PICK size : RingLeaves(size)
    BY <1>1, <1>11, RingLeavesIs
  <2>11. numFilled = 1 => inBuf'[filledStart] = inBuf[filledStart]
    <3>1. filledStart \in Thread /\ filledStart \in Int /\ numStarted \in Int
      BY MtDecAssumption DEF Sizes, WriterTypes, Rights, RingTypes, Thread
    <3>2. numFilled = 1 => filledStart < numStarted
      BY <2>10 DEF RingLeaves
    <3>3. numFilled = 1 => Filled(filledStart)
      BY <3>1, <3>2 DEF Filled
    <3> HIDE DEF Filled
    <3> QED
      BY <3>1, <3>3, <2>2
  <2>12. Single'
    BY <2>2, <2>10, <2>11, <1>1, SingleBegins
  <2> QED
    BY <2>5, <2>6, <2>7, <2>9, <2>12, <1>7, Zenon DEF Content
<1> QED
  BY <1>10, <1>11

-----------------------------------------------------------------------------
(* One round of the single thread. *)

\* d is what the single thread decodes of the n units behind p.
RoundTo(inp, p, n, fr, d, m) ==
  /\ p \in Nat /\ n \in Nat /\ fr \in BOOLEAN /\ InputIs(inp) /\ Sound(inp, p)
  /\ DecodeHyp(inp.kind, p, n)
  /\ DecodedTo(inp.kind, p, n, fr, inp.outSize - p, inp.finish, d, m)
  /\ p = 0 => fr
  /\ fr /\ n >= 1 => Begins(inp, p)

\* It got to k.
RoundFacts(inp, p, n, fr, d, m, k, len, o) ==
  /\ k \in Nat /\ len \in Nat /\ o \in Nat /\ m \in Nat /\ m <= n
  /\ k = p + m /\ len = Len(inp.kind) /\ o = inp.outSize
  /\ k <= len /\ k <= o /\ Sound(inp, k) /\ inp.finish \in BOOLEAN
  /\ d.out = Units(p, m)
  /\ d.status \in {"full", "more", "mark", "error"}
  /\ d.used = (IF d.status = "mark" THEN m + 1 ELSE m)
  /\ p + d.used = (IF d.status = "mark" THEN k + 1 ELSE k)
  /\ d.status = "more" => m = n
  /\ d.status = "full" => ~ inp.finish /\ k = o
  /\ d.status # "full" => inp.finish \/ k < o
  /\ d.status = "mark" => k < len /\ inp.kind[k + 1] = "end"
  /\ d.status = "error" =>
       /\ k < len /\ inp.kind[k + 1] # "end"
       /\ inp.kind[k + 1] \in {"bad", "alien"} \/ k = o \/ (k = 0 /\ inp.kind[1] # "head")

\* Decoding goes on with the output (Lzma2Dec.c:178-303).
LEMMA RoundIs ==
  ASSUME NEW inp, NEW p, NEW n, NEW fr, NEW d, NEW m, RoundTo(inp, p, n, fr, d, m)
  PROVE  \E k, len, o : RoundFacts(inp, p, n, fr, d, m, k, len, o)
<1>1. /\ p \in Nat /\ n \in Nat /\ fr \in BOOLEAN /\ InputIs(inp) /\ Sound(inp, p)
      /\ DecodeHyp(inp.kind, p, n)
      /\ DecodedTo(inp.kind, p, n, fr, inp.outSize - p, inp.finish, d, m)
      /\ p = 0 => fr
      /\ fr /\ n >= 1 => Begins(inp, p)
  BY DEF RoundTo
<1>2. PICK len, o \in Nat : len = Len(inp.kind) /\ o = inp.outSize
  BY <1>1 DEF InputIs
<1>3. p <= len /\ p <= o /\ p + n <= len /\ inp.finish \in BOOLEAN
  BY <1>1, <1>2 DEF Sound, DecodeHyp, InputIs
<1>4. PICK room \in Nat : room = o - p
  <2>1. o - p \in Nat
    BY <1>1, <1>2, <1>3
  <2> QED
    BY <2>1
<1>5. /\ m \in 0 .. n /\ m <= room /\ d.out = Units(p, m)
      /\ \A u \in p + 1 .. p + m : inp.kind[u] \in {"head", "body"}
      /\ fr /\ m > 0 => inp.kind[p + 1] = "head"
      /\ d.status \in {"full", "more", "mark", "error"}
      /\ d.used = (IF d.status = "mark" THEN m + 1 ELSE m)
      /\ d.status = "full" => ~ inp.finish /\ m = room
      /\ d.status # "full" => inp.finish \/ m < room
      /\ d.status = "more" => m = n
      /\ d.status \in {"mark", "error"} => m < n
      /\ d.status = "mark" => inp.kind[p + m + 1] = "end"
      /\ d.status = "error" =>
           /\ inp.kind[p + m + 1] # "end"
           /\ \/ inp.kind[p + m + 1] \in {"bad", "alien"} \/ m = room
              \/ fr /\ m = 0 /\ inp.kind[p + 1] # "head"
  BY <1>1, <1>2, <1>4 DEF DecodedTo
<1>6. PICK k \in Nat : k = p + m
  <2>1. p + m \in Nat
    BY <1>1, <1>5
  <2> QED
    BY <2>1
<1>7. /\ m \in Nat /\ m <= n /\ k <= len /\ k <= o /\ (m = room <=> k = o) /\ (m < room => k < o)
      /\ p + d.used = (IF d.status = "mark" THEN k + 1 ELSE k)
      /\ m < n => k < len
  BY <1>1, <1>3, <1>4, <1>5, <1>6
<1>8. Sound(inp, k)
  <2>1. \A u \in p + 1 .. p + m : inp.kind[u] \in {"head", "body"}
    BY <1>5
  <2>2. p = 0 /\ m > 0 => inp.kind[1] = "head"
    BY <1>1, <1>5
  <2>3. p + m <= Len(inp.kind) /\ p + m <= inp.outSize
    BY <1>2, <1>6, <1>7
  <2>4. Sound(inp, p + m)
    BY <2>1, <2>2, <2>3, <1>1, <1>7, SoundMore
  <2> QED
    BY <2>4, <1>6
<1>9. d.status = "error" => inp.kind[k + 1] \in {"bad", "alien"} \/ k = o \/ (k = 0 /\ inp.kind[1] # "head")
  <2> SUFFICES ASSUME d.status = "error", fr, m = 0, inp.kind[p + 1] # "head"
               PROVE  k = 0 /\ inp.kind[1] # "head"
    BY <1>5, <1>6, <1>7
  <2>1. n >= 1 /\ n \in Nat
    BY <1>1, <1>5, <1>7
  <2>2. p = 0
    BY <1>1, <2>1 DEF Begins
  <2> QED
    BY <2>2, <1>6
<1>10. RoundFacts(inp, p, n, fr, d, m, k, len, o)
  BY <1>2, <1>3, <1>5, <1>6, <1>7, <1>8, <1>9 DEF RoundFacts
<1> QED
  BY <1>10

\* Where it does not go on nothing is left to do, and it knows when the stream
\* is not good (Lzma2DecMt.c:637-797, Lzma2Decoder.cpp:84-170).
LEMMA RoundEnds ==
  ASSUME NEW inp, InputIs(inp), NEW p, NEW n, NEW fr, NEW d, NEW m, NEW k, NEW len, NEW o,
         RoundFacts(inp, p, n, fr, d, m, k, len, o), d.status # "more" \/ k = len
  PROVE  /\ Complete(inp, k, p + d.used)
         /\ \/ d.status \in {"more", "error"}
            \/ d.status = "mark" /\ inp.finish /\ o # k
            => VerdictOf(inp) # "good"
<1>1. /\ k \in Nat /\ len \in Nat /\ o \in Nat
      /\ len = Len(inp.kind) /\ o = inp.outSize
      /\ k <= len /\ k <= o /\ Sound(inp, k) /\ inp.finish \in BOOLEAN
      /\ d.status \in {"full", "more", "mark", "error"}
      /\ p + d.used = (IF d.status = "mark" THEN k + 1 ELSE k)
      /\ d.status = "full" => ~ inp.finish /\ k = o
      /\ d.status # "full" => inp.finish \/ k < o
      /\ d.status = "mark" => k < len /\ inp.kind[k + 1] = "end"
      /\ d.status = "error" =>
           /\ k < len /\ inp.kind[k + 1] # "end"
           /\ inp.kind[k + 1] \in {"bad", "alien"} \/ k = o \/ (k = 0 /\ inp.kind[1] # "head")
  BY DEF RoundFacts
<1>2. Complete(inp, k, p + d.used)
  <2>1. CASE d.status = "full"
    BY <2>1, <1>1 DEF Complete
  <2>2. CASE d.status = "mark"
    BY <2>2, <1>1 DEF Complete
  <2>3. CASE d.status = "more"
    BY <2>3, <1>1 DEF Complete
  <2>4. CASE d.status = "error"
    <3>1. k < o \/ (k = o /\ inp.finish)
      BY <2>4, <1>1
    <3>2. Stuck(inp, k)
      BY <3>1, <2>4, <1>1 DEF Stuck
    <3> QED
      BY <3>2, <2>4, <1>1 DEF Complete
  <2> QED
    BY <2>1, <2>2, <2>3, <2>4, <1>1
<1>3. PICK i \in 0 .. Len(inp.kind) : IdealTo(inp, i)
  BY IdealIs
<1>4. i = k
  BY <1>2, <1>3, IdealComplete
<1>5. VerdictOf(inp) = "good" =>
              \/ inp.finish /\ k + 1 = len /\ k = o /\ inp.kind[k + 1] = "end"
              \/ ~ inp.finish /\ IdealOf(inp).status \in {"mark", "full"}
  BY <1>1, <1>3, <1>4, VerdictIs
<1>6. /\ IdealOf(inp).status = "full" => k = o
      /\ IdealOf(inp).status = "mark" => k < len /\ inp.kind[k + 1] = "end"
  BY <1>1, <1>3, <1>4, IdealFacts
<1>7. ASSUME d.status \in {"more", "error"} \/ (d.status = "mark" /\ inp.finish /\ o # k)
      PROVE  VerdictOf(inp) # "good"
  <2>1. CASE d.status = "more"
    BY <2>1, <1>1, <1>5, <1>6
  <2>2. CASE d.status = "error"
    BY <2>2, <1>1, <1>5, <1>6
  <2>3. CASE d.status = "mark" /\ inp.finish /\ o # k
    BY <2>3, <1>1, <1>5, <1>6
  <2> QED
    BY <2>1, <2>2, <2>3, <1>7
<1> QED
  BY <1>2, <1>7

\* What a round that decodes d of w does.
RoundNow(d, w, e, fails, f) ==
  /\ ~ (fails /\ f) /\ (f => d.status = "more" /\ w # <<>>)
  /\ WriteOut(d.out, fails)
  /\ Failing(Count(e) + Count(fails \/ f))
  /\ Fatal(Kind(e, "read") \cup Kind(fails, "write") \cup Kind(f, "progress"))
  /\ inProcessed' = inProcessed + d.used
  /\ fresh' = (fresh /\ d.used = 0)
  /\ sres' = IF fails  THEN "write"
             ELSE IF f THEN "progress"
             ELSE IF \/ d.status = "error"
                     \/ d.status = "mark" /\ input.finish /\ input.outSize # Len(out')
                    THEN "data"
             ELSE NoMore(d.status, w)
  /\ main' = IF d.status = "more" /\ sres' = "ok" THEN "st" ELSE "result"

\* What a round over the n next units leaves.
RoundDone(n, e) ==
  /\ Output' /\ out' \in Seq(Nat) /\ Outcome' /\ main' \in {"st", "result"}
  /\ main' = "st" => /\ n >= 1 /\ inProcessed' = inProcessed + n /\ inProcessed' = Len(out')
                     /\ fresh' = FALSE
  /\ ("read" \in failed' <=> e \/ "read" \in failed)
  /\ failed \subseteq failed' /\ failed' \subseteq failed \cup {"read", "write", "progress"}

\* What the piece decodes to.
LEMMA RoundBegins ==
  ASSUME Sizes, Content, main = "st", NEW n \in Nat, DecodeHyp(input.kind, inProcessed, n),
         fresh /\ n >= 1 => Begins(input, inProcessed)
  PROVE  \E m : RoundTo(input, inProcessed, n, fresh,
                        Decode(input.kind, Units(inProcessed, n), fresh, input.outSize - inProcessed, input.finish), m)
<1>1. InputIs(input) /\ input.outSize \in Nat /\ input.finish \in BOOLEAN
  BY InputTypes DEF Sizes, InputIs
<1>2. inProcessed = Len(out) /\ (fresh \/ inProcessed > 0)
  BY DEF Content, Single
<1>3. inProcessed \in Nat /\ fresh \in BOOLEAN
  BY DEF Sizes, WriterTypes, CallerTypes
<1>4. Sound(input, inProcessed)
  BY <1>2 DEF Content, Output
<1>5. PICK p \in Nat : p = inProcessed
  BY <1>3
<1>6. input.outSize - p \in Nat
  BY <1>1, <1>4, <1>5 DEF Sound
<1>7. PICK room \in Nat : room = input.outSize - p
  BY <1>6
<1>8. PICK fr \in BOOLEAN : fr = fresh
  BY <1>3
<1>9. DecodeHyp(input.kind, p, n)
  BY <1>5
<1>10. \E m \in 0 .. n : DecodedTo(input.kind, p, n, fr, room, input.finish, Decode(input.kind, Units(p, n), fr, room, input.finish), m)
  BY <1>1, <1>9, DecodeAny, Zenon
<1>11. PICK m : DecodedTo(input.kind, p, n, fr, room, input.finish, Decode(input.kind, Units(p, n), fr, room, input.finish), m)
  BY <1>10
<1>12. p = 0 => fr
  BY <1>2, <1>5, <1>8
<1>13. fr /\ n >= 1 => Begins(input, p)
  BY <1>5, <1>8
<1>14. RoundTo(input, p, n, fr, Decode(input.kind, Units(p, n), fr, room, input.finish), m)
  BY <1>1, <1>4, <1>5, <1>7, <1>9, <1>11, <1>12, <1>13, Zenon DEF RoundTo
<1> QED
  BY <1>14, <1>5, <1>7, <1>8, Zenon

\* A round of the single thread (Lzma2DecMt.c:637-797).
LEMMA Round ==
  ASSUME Sizes, Content, main = "st", input' = input, NEW n \in Nat, NEW e \in BOOLEAN,
         DecodeHyp(input.kind, inProcessed, n), DecodePiece(Units(inProcessed, n), e),
         fresh /\ n >= 1 => Begins(input, inProcessed),
         n = 0 => inProcessed = Len(input.kind) \/ failed' # {} \/ Ends(input, inProcessed, 0)
  PROVE  RoundDone(n, e)
<1>1. InputIs(input)
  BY InputTypes DEF Sizes, InputIs
<1>2. inProcessed = Len(out) /\ inProcessed \in Nat /\ fresh \in BOOLEAN /\ "last" \notin failed
  BY DEF Content, Single, Failures, Sizes, WriterTypes, CallerTypes
<1>3. PICK p, w, d : /\ p = inProcessed /\ w = Units(p, n)
                     /\ d = Decode(input.kind, w, fresh, input.outSize - p, input.finish)
  OBVIOUS
<1>4. p \in Nat /\ Len(w) = n
  BY <1>2, <1>3, UnitsAre
<1>5. PICK m : RoundTo(input, p, n, fresh, d, m)
  BY <1>3, RoundBegins
<1>6. PICK k, len, o : RoundFacts(input, p, n, fresh, d, m, k, len, o)
  BY <1>5, RoundIs
<1>7. PICK fails \in MayFail("write"), f \in MayFail("progress") : RoundNow(d, w, e, fails, f)
  <2>1. DecodePiece(w, e)
    BY <1>3
  <2>2. d = Decode(input.kind, w, fresh, input.outSize - Len(out), input.finish)
    BY <1>2, <1>3
  <2> QED
    BY <2>1, <2>2, ZenonT(40) DEF DecodePiece, RoundNow
<1>8. fails \in BOOLEAN /\ f \in BOOLEAN
  BY <1>7, MayFailIs
<1>9. /\ k \in Nat /\ len \in Nat /\ o \in Nat /\ m \in Nat /\ m <= n
      /\ k = p + m /\ len = Len(input.kind) /\ o = input.outSize
      /\ k <= len /\ k <= o /\ Sound(input, k) /\ input.finish \in BOOLEAN
      /\ d.out = Units(p, m)
      /\ d.status \in {"full", "more", "mark", "error"}
      /\ d.used = (IF d.status = "mark" THEN m + 1 ELSE m)
      /\ d.status = "more" => m = n
      /\ d.status # "full" => input.finish \/ k < o
  BY <1>6 DEF RoundFacts
<1>10. out = Units(0, p) /\ WriteOut(Units(p, m), fails)
  <2>1. out = Units(0, p)
    BY <1>2, <1>3 DEF Content, Output
  <2>2. WriteOut(d.out, fails)
    BY <1>7 DEF RoundNow
  <2> QED
    BY <2>1, <2>2, <1>9
<1>11. PICK j \in 0 .. m : out' = Units(0, p + j) /\ (~ fails => j = m)
  BY <1>4, <1>8, <1>9, <1>10, WriteOutIs, ZenonT(40)
<1>12. PICK i \in Nat : i = p + j
  BY <1>4, <1>9, <1>11
<1>13. i <= k /\ out' = Units(0, i) /\ (~ fails => i = k) /\ 0 \in Nat
  BY <1>4, <1>9, <1>11, <1>12
<1>14. out' \in Seq(Nat) /\ Len(out') = i
  BY <1>13, UnitsAre
<1>15. Output'
  <2>1. Sound(input, i)
    BY <1>1, <1>9, <1>13, SoundLess
  <2> QED
    BY <2>1, <1>13, <1>14 DEF Output
<1>16. /\ inProcessed' = p + d.used
       /\ fresh' = (fresh /\ d.used = 0)
       /\ failed' = failed \cup (Kind(e, "read") \cup Kind(fails, "write") \cup Kind(f, "progress"))
       /\ sres' = (IF fails  THEN "write"
                   ELSE IF f THEN "progress"
                   ELSE IF \/ d.status = "error"
                           \/ d.status = "mark" /\ input.finish /\ o # i
                          THEN "data"
                   ELSE IF d.status = "more" /\ n = 0 THEN "eof" ELSE "ok")
       /\ main' = (IF d.status = "more" /\ sres' = "ok" THEN "st" ELSE "result")
  <2>1. w = <<>> <=> n = 0
    <3>1. w \in Seq(Nat)
      BY <1>3, <1>4, UnitsAre
    <3>2. Len(<<>>) = 0
      OBVIOUS
    <3> QED
      BY <3>1, <3>2, <1>4
  <2>2. NoMore(d.status, w) = IF d.status = "more" /\ n = 0 THEN "eof" ELSE "ok"
    BY <2>1 DEF NoMore
  <2>3. /\ inProcessed' = p + d.used
        /\ fresh' = (fresh /\ d.used = 0)
        /\ failed' = failed \cup (Kind(e, "read") \cup Kind(fails, "write") \cup Kind(f, "progress"))
        /\ main' = (IF d.status = "more" /\ sres' = "ok" THEN "st" ELSE "result")
    BY <1>3, <1>7, Zenon DEF RoundNow, Fatal
  <2>4. sres' = (IF fails  THEN "write"
                 ELSE IF f THEN "progress"
                 ELSE IF \/ d.status = "error"
                         \/ d.status = "mark" /\ input.finish /\ o # i
                        THEN "data"
                 ELSE IF d.status = "more" /\ n = 0 THEN "eof" ELSE "ok")
    BY <1>7, <1>9, <1>14, <2>2 DEF RoundNow
  <2> QED
    BY <2>3, <2>4
<1>17. /\ ("read" \in failed' <=> e \/ "read" \in failed)
       /\ failed \subseteq failed' /\ failed' \subseteq failed \cup {"read", "write", "progress"}
       /\ (fails \/ f => failed' # {})
  BY <1>8, <1>16 DEF Kind
<1>18. main' = "st" => /\ n >= 1 /\ inProcessed' = inProcessed + n /\ inProcessed' = Len(out')
                       /\ fresh' = FALSE
  <2> SUFFICES ASSUME main' = "st"
               PROVE  /\ n >= 1 /\ inProcessed' = inProcessed + n /\ inProcessed' = Len(out')
                      /\ fresh' = FALSE
    OBVIOUS
  <2>1. d.status = "more" /\ sres' = "ok"
    BY <1>16
  <2>2. ~ fails /\ n # 0
    BY <2>1, <1>8, <1>16
  <2>3. m = n /\ d.used = n /\ i = p + n /\ n >= 1
    BY <2>1, <2>2, <1>9, <1>13
  <2>4. fresh' = FALSE
    BY <2>3, <1>16
  <2> QED
    BY <2>3, <2>4, <1>3, <1>14, <1>16
<1>19. Outcome'
  <2> SUFFICES ASSUME main' = "result"
               PROVE  /\ Settled(input, i, p + d.used, failed')
                      /\ sres' \in {"data", "eof"} => failed' # {} \/ VerdictOf(input) # "good"
                      /\ sres' \notin {"ok", "data", "eof"} => failed' # {}
                      /\ "last" \notin failed'
    BY <1>14, <1>16 DEF Outcome, VerdictOf
  <2>1. "last" \notin failed'
    BY <1>2, <1>17
  <2>2. sres' \notin {"ok", "data", "eof"} => failed' # {}
    BY <1>16, <1>17
  <2>3. CASE failed' # {}
    BY <2>1, <2>2, <2>3 DEF Settled
  <2>4. CASE failed' = {}
    <3>1. ~ fails /\ ~ f /\ i = k
      BY <2>4, <1>13, <1>17
    <3>2. d.status = "more" => n = 0
      BY <3>1, <1>16
    <3>3. d.status = "more" => k = len
      <4> SUFFICES ASSUME d.status = "more"
                   PROVE  k = len
        OBVIOUS
      <4>1. n = 0 /\ k = p
        BY <3>2, <1>4, <1>9
      <4>2. ~ Ends(input, p, 0)
        <5>1. input.finish \/ ~ (p >= o)
          BY <4>1, <1>4, <1>9
        <5>2. ~ (input.finish = FALSE /\ p + 0 >= o)
          BY <5>1, <1>4
        <5> QED
          BY <5>2, <1>4, <1>9 DEF Ends
      <4> QED
        BY <4>1, <4>2, <2>4, <1>3, <1>9
    <3>4. /\ Complete(input, k, p + d.used)
          /\ \/ d.status \in {"more", "error"}
             \/ d.status = "mark" /\ input.finish /\ o # k
             => VerdictOf(input) # "good"
      BY <3>3, <1>1, <1>6, RoundEnds
    <3>5. sres' \in {"data", "eof"} => VerdictOf(input) # "good"
      BY <3>1, <3>4, <1>16
    <3> QED
      BY <3>1, <3>4, <3>5, <2>1, <2>2 DEF Settled
  <2> QED
    BY <2>3, <2>4
<1>20. main' \in {"st", "result"}
  BY <1>16
<1> QED
  BY <1>14, <1>15, <1>17, <1>18, <1>19, <1>20, Zenon DEF RoundDone

\* Decoding that ends in what is left when some of it was decoded ends behind
\* that.
LEMMA EndsLater ==
  ASSUME NEW inp, InputIs(inp), NEW p \in Nat, NEW m \in Nat, NEW n \in Nat,
         Ends(inp, p, m + n), Sound(inp, p + m)
  PROVE  Ends(inp, p + m, n)
<1>1. PICK o \in Nat : o = inp.outSize
  BY DEF InputIs
<1>2. CASE ~ inp.finish /\ p + (m + n) >= inp.outSize
  <2>1. p + m + n >= inp.outSize
    BY <1>1, <1>2
  <2> QED
    BY <2>1, <1>2 DEF Ends
<1>3. CASE \E u \in p + 1 .. p + (m + n) : u <= Len(inp.kind) /\ inp.kind[u] \in {"end", "alien"}
  <2>1. PICK u \in p + 1 .. p + (m + n) : u <= Len(inp.kind) /\ inp.kind[u] \in {"end", "alien"}
    BY <1>3
  <2>2. \A v \in 1 .. p + m : inp.kind[v] \in {"head", "body"}
    BY DEF Sound
  <2>3. ~ (u \in 1 .. p + m)
    BY <2>1, <2>2
  <2>4. u \in p + m + 1 .. p + m + n
    BY <2>3
  <2> QED
    BY <2>1, <2>4 DEF Ends
<1> QED
  BY <1>2, <1>3 DEF Ends

\* With no room for output nothing is decoded (Lzma2Dec.c:178-303).
LEMMA DecodeFull ==
  ASSUME NEW kind, NEW w \in Seq(Nat), NEW fr
  PROVE  Decode(kind, w, fr, 0, FALSE) = [out |-> <<>>, used |-> 0, status |-> "full"]
<1>1. PICK n \in Nat : n = Len(w)
  OBVIOUS
<1> DEFINE S == {n + 1} \cup {i \in 1 .. n : kind[w[i]] \in {"end", "alien", "bad"}}
                \cup {i \in 1 .. n : i > 0}
                \cup {i \in 1 .. n : i = 1 /\ fr /\ kind[w[i]] # "head"}
<1>2. S \subseteq Nat /\ S # {} /\ 1 \in S /\ \A i \in S : i >= 1
  <2>1. \A i \in 1 .. n : i \in Nat /\ i >= 1 /\ i > 0
    OBVIOUS
  <2>2. n + 1 \in Nat /\ n + 1 >= 1
    OBVIOUS
  <2>3. n = 0 \/ 1 \in 1 .. n
    OBVIOUS
  <2> QED
    BY <2>1, <2>2, <2>3
<1> HIDE DEF S
<1>3. Min(S) \in S /\ Min(S) <= 1
  BY <1>2, MinIsLeast
<1>4. Min(S) = 1
  <2>1. Min(S) \in Nat /\ Min(S) >= 1
    BY <1>2, <1>3
  <2> QED
    BY <2>1, <1>3
<1>5. Min(S) - 1 = 0 /\ Min(S) > 0
  BY <1>4
<1>6. SubSeq(w, 1, 0) = <<>>
  OBVIOUS
<1>7. Decode(kind, w, fr, 0, FALSE) = [out |-> SubSeq(w, 1, Min(S) - 1), used |-> Min(S) - 1, status |-> "full"]
  BY <1>1, <1>5 DEF Decode, S
<1> QED
  BY <1>5, <1>6, <1>7

\* So what is read then does not matter.
LEMMA FullPiece ==
  ASSUME NEW w \in Seq(Nat), NEW e, DecodePiece(w, e), out \in Seq(Nat), input.finish = FALSE, input.outSize = Len(out)
  PROVE  DecodePiece(<<>>, e)
<1>1. PICK d : d = [out |-> <<>>, used |-> 0, status |-> "full"]
  OBVIOUS
<1>2. input.outSize - Len(out) = 0 /\ <<>> \in Seq(Nat)
  OBVIOUS
<1>3. /\ d = Decode(input.kind, w, fresh, input.outSize - Len(out), input.finish)
      /\ d = Decode(input.kind, <<>>, fresh, input.outSize - Len(out), input.finish)
  BY <1>1, <1>2, DecodeFull
<1>4. d.status = "full"
  BY <1>1
<1>5. PICK fails \in MayFail("write"), f \in MayFail("progress") : RoundNow(d, w, e, fails, f)
  BY <1>3, Zenon DEF DecodePiece, RoundNow
<1>6. RoundNow(d, <<>>, e, fails, f)
  <2>2. NoMore(d.status, w) = NoMore(d.status, <<>>)
    BY <1>4 DEF NoMore
  <2> QED
    BY <1>4, <1>5, <2>2 DEF RoundNow
<1> QED
  BY <1>3, <1>5, <1>6, Zenon DEF DecodePiece, RoundNow

\* What the steps of the single thread leave.
Alongside ==
  /\ main = "st" /\ input' = input /\ result' = result /\ pc' = pc /\ coder' = coder /\ loc' = loc
  /\ numStarted' = numStarted /\ outParsed' = outParsed

\* What a round leaves of Content, beside what there is still to decode.
LEMMA RoundContent ==
  ASSUME Rights, Sizes, Content, Alongside, NEW n, NEW e, RoundDone(n, e),
         inBuf' \in [Thread -> Links],
         readRes' = "read" <=> e \/ readRes = "read", readRes' = "read" => readWasFinished',
         readWasFinished' => Dry', Single'
  PROVE  Content'
<1>1. /\ main = "st" /\ input' = input /\ result' = result /\ pc' = pc /\ coder' = coder /\ loc' = loc
  BY DEF Alongside
<1>2. ~ Runs
  BY <1>1 DEF Runs
<1>3. /\ Output' /\ out' \in Seq(Nat) /\ Outcome' /\ main' \in {"st", "result"}
      /\ ("read" \in failed' <=> e \/ "read" \in failed)
      /\ failed \subseteq failed' /\ failed' \subseteq failed \cup {"read", "write", "progress"}
  BY DEF RoundDone
<1>4. /\ failed \subseteq {"read", "write", "progress", "last"}
      /\ readRes = "read" <=> "read" \in failed
      /\ "last" \notin failed /\ result = "none"
  BY <1>1 DEF Content, Failures
<1>5. \A t \in Thread : ~ IsBusy(pc'[t])
  BY <1>1, <1>2, OutsideIdle
<1>6. main' # "mt" /\ main' # "start" /\ main' # "done"
  BY <1>3
<1>7. Writes' /\ Notes' /\ Layout' /\ Flagged' /\ Stopped'
  BY <1>1, <1>2, <1>5, <1>6, OutsideContent
<1>8. Failures'
  <2>1. failed' \subseteq {"read", "write", "progress"} /\ "last" \notin failed'
    BY <1>3, <1>4
  <2>2. readRes' = "read" <=> "read" \in failed'
    BY <1>3, <1>4
  <2> QED
    BY <2>1, <2>2, <1>1, <1>4, <1>6 DEF Failures
<1>9. DataTypes'
  BY <1>3 DEF DataTypes, Links
<1> QED
  BY <1>3, <1>7, <1>8, <1>9, Zenon DEF Content

\* What is left to decode of what the ring kept, with so many units in links.
LeftAt(size, L, first) ==
  /\ KeptAt(input, rd, inProcessed, L, FirstOf(first, size), size)
  /\ fresh => FirstAt(input, rd, inProcessed, size)
  /\ numFilled = 1 => size # 0 /\ filledStart < numStarted

\* While the single thread decodes what the ring kept, this is what there is.
LEMMA LeftIs ==
  ASSUME Sizes, Content, main = "st", tMode
  PROVE  \E size \in Nat : /\ numFilled \in {0, 1} /\ inProcessed + size + Len(cross) <= pos
                           /\ size = IF numFilled = 1 THEN filledSize[filledStart] ELSE 0
                           /\ LeftAt(size, inBuf[filledStart], filledFirst[filledStart])
<1>1. numFilled \in {0, 1} /\ inProcessed + (IF numFilled = 1 THEN filledSize[filledStart] ELSE 0) + Len(cross) <= pos
  BY DEF Sizes, Alone, KeptFits
<1>2. PICK size \in Nat : size = IF numFilled = 1 THEN filledSize[filledStart] ELSE 0
  BY <1>1 DEF Sizes, WriterTypes
<1> HIDE DEF rd
<1>3. LeftAt(size, inBuf[filledStart], filledFirst[filledStart])
  BY <1>2 DEF LeftAt, Content, Single
<1> QED
  BY <1>1, <1>2, <1>3

\* The cross block is decoded (Lzma2DecMt.c:715-731).
LEMMA ReadCrossContent ==
  ASSUME Rights, Sizes, Content, ReadCross
  PROVE  Content'
<1>1. /\ main = "st" /\ tMode /\ numFilled = 0 /\ cross # <<>> /\ cross' = <<>>
      /\ DecodePiece(cross, FALSE)
      /\ input' = input /\ result' = result /\ pc' = pc /\ coder' = coder /\ loc' = loc
      /\ pos' = pos /\ readWasFinished' = readWasFinished /\ readRes' = readRes /\ outParsed' = outParsed
      /\ numStarted' = numStarted /\ filledStart' = filledStart /\ numFilled' = numFilled
      /\ inBuf' = inBuf /\ tMode' = tMode
  BY DEF ReadCross, callerRest
<1>2. InputIs(input) /\ inProcessed \in Nat /\ pos \in Nat /\ pos <= Len(input.kind) /\ cross \in Seq(Nat)
  BY <1>1, InputTypes DEF Sizes, InputIs, WriterTypes, ReaderTypes
<1>3. PICK size \in Nat : /\ inProcessed + size + Len(cross) <= pos
                          /\ size = IF numFilled = 1 THEN filledSize[filledStart] ELSE 0
                          /\ LeftAt(size, inBuf[filledStart], filledFirst[filledStart])
  BY <1>1, LeftIs
<1>4. rd.cross = cross /\ rd.pos = pos /\ rd'.cross = <<>> /\ rd'.pos = pos
  BY <1>1 DEF rd
<1> HIDE DEF rd
<1>5. PICK n, p \in Nat : n = Len(cross) /\ p = inProcessed
  BY <1>2
<1>6. /\ size = 0 /\ CrossAt(rd, p + 0) /\ (p + 0 + n = pos \/ Ends(input, p, 0))
      /\ fresh => FreshAt(input, rd, p)
  BY <1>1, <1>3, <1>4, <1>5 DEF LeftAt, KeptAt, FirstAt
<1>7. cross = Units(p, n) /\ n >= 1
  <2>1. Holds(cross, p, n)
    BY <1>4, <1>5, <1>6 DEF CrossAt
  <2> QED
    BY <2>1, <1>1, <1>2, <1>5, HoldsIs
<1>8. DecodeHyp(input.kind, p, n)
  <2>1. p + n <= Len(input.kind)
    <3>1. p + n <= pos
      BY <1>3, <1>5, <1>6
    <3> QED
      BY <3>1, <1>2
  <2> QED
    BY <2>1, <1>2 DEF DecodeHyp, InputIs
<1>9. fresh => Begins(input, p)
  BY <1>1, <1>4, <1>6 DEF FreshAt
<1>10. RoundDone(n, FALSE)
  <2>1. DecodePiece(Units(inProcessed, n), FALSE) /\ DecodeHyp(input.kind, inProcessed, n)
    BY <1>1, <1>5, <1>7, <1>8
  <2>2. fresh /\ n >= 1 => Begins(input, inProcessed)
    BY <1>5, <1>9
  <2>3. n # 0
    BY <1>7
  <2> QED
    BY <2>1, <2>2, <2>3, <1>1, Round
<1>11. Single'
  <2> SUFFICES ASSUME main' = "st"
               PROVE  /\ inProcessed' = Len(out') /\ (fresh' \/ inProcessed' > 0)
                      /\ KeptAt(input', rd', inProcessed', inBuf'[filledStart'], FirstOf(filledFirst'[filledStart'], 0), 0)
                      /\ ~ fresh'
    BY <1>1 DEF Single
  <2>1. /\ inProcessed' = p + n /\ inProcessed' = Len(out') /\ fresh' = FALSE /\ Output'
    BY <1>5, <1>10 DEF RoundDone
  <2>2. PICK q \in Nat : q = p + n
    OBVIOUS
  <2>3. q > 0 /\ q <= pos
    <3>1. p + n <= pos
      BY <1>3, <1>5, <1>6
    <3>2. p + n > 0
      BY <1>7
    <3> QED
      BY <3>1, <3>2, <2>2
  <2>4. Len(<<>>) = 0
    OBVIOUS
  <2>5. CrossAt(rd', q + 0)
    BY <1>4, <2>3, <2>4 DEF CrossAt, Holds
  <2>6. q + 0 + Len(rd'.cross) = rd'.pos \/ Ends(input, q, 0)
    <3>1. CASE p + 0 + n = pos
      BY <3>1, <1>4, <2>2, <2>4
    <3>2. CASE Ends(input, p, 0)
      <4>1. ~ input.finish /\ p >= input.outSize
        BY <3>2 DEF Ends
      <4>2. q + 0 >= input.outSize
        BY <4>1, <1>2, <2>2 DEF InputIs
      <4> QED
        BY <4>1, <4>2 DEF Ends
    <3> QED
      BY <3>1, <3>2, <1>6
  <2>7. KeptAt(input, rd', q, inBuf'[filledStart'], FirstOf(filledFirst'[filledStart'], 0), 0)
    BY <2>5, <2>6 DEF KeptAt
  <2> QED
    BY <2>1, <2>2, <2>3, <2>7, <1>1
<1>12. Alongside /\ inBuf' \in [Thread -> Links]
  BY <1>1 DEF Alongside, Content, DataTypes, Links
<1>13. /\ readRes' = "read" <=> FALSE \/ readRes = "read"
       /\ readRes' = "read" => readWasFinished'
       /\ readWasFinished' => Dry'
  <2>1. Dry' <=> Dry
    BY <1>1 DEF Dry
  <2> QED
    BY <2>1, <1>1 DEF Content, Failures
<1> QED
  BY <1>10, <1>11, <1>12, <1>13, RoundContent

\* The first link of what the ring kept is n units, and size stay behind it.
LinkLeft(p, n, size, last) ==
  /\ p \in Nat /\ n \in Nat /\ size \in Nat /\ n >= 1 /\ p = inProcessed
  /\ p + n + size <= pos /\ (last <=> size = 0) /\ last \in BOOLEAN
  /\ n + size = filledSize[filledStart]
  /\ n = FirstOf(filledFirst[filledStart], filledSize[filledStart])
  /\ SubSeq(Head(inBuf[filledStart]), 1, n) = Units(p, n)
  /\ size # 0 => Linked(Tail(inBuf[filledStart]), p + n, FirstOf(0, size), size)
  /\ CrossAt(rd, p + n + size)
  /\ p + n + size + Len(rd.cross) = rd.pos \/ Ends(input, p, n + size)
  /\ fresh => Begins(input, p)
  /\ filledStart < numStarted

\* The links of the thread whose turn it is begin with what follows on the
\* output (MtDec.c:882-943).
LEMMA LinkLeftIs ==
  ASSUME Rights, Sizes, Content, main = "st", tMode, numFilled # 0
  PROVE  numFilled = 1 /\ \E p, n, size, last : LinkLeft(p, n, size, last)
<1>1. InputIs(input) /\ inProcessed \in Nat /\ pos \in Nat /\ cross \in Seq(Nat) /\ InBufIs
  BY InputTypes, MtDecAssumption DEF Sizes, InputIs, WriterTypes, ReaderTypes, InBufIs
<1>2. PICK all \in Nat : /\ numFilled \in {0, 1} /\ inProcessed + all + Len(cross) <= pos
                         /\ all = IF numFilled = 1 THEN filledSize[filledStart] ELSE 0
                         /\ LeftAt(all, inBuf[filledStart], filledFirst[filledStart])
  BY LeftIs
<1>3. numFilled = 1 /\ all = filledSize[filledStart]
  BY <1>2
<1>4. PICK L \in Links : L = inBuf[filledStart]
  BY DEF Content, DataTypes, Links, Sizes, WriterTypes
<1>5. PICK first \in Nat : first = filledFirst[filledStart] /\ first <= all
  BY <1>3 DEF Sizes, WriterTypes
<1>6. rd.cross = cross /\ rd.pos = pos
  BY DEF rd
<1> HIDE DEF rd
<1>7. PICK p, x \in Nat : p = inProcessed /\ x = Len(cross)
  BY <1>1
<1>8. /\ KeptAt(input, rd, p, L, FirstOf(first, all), all)
      /\ fresh => FirstAt(input, rd, p, all)
      /\ all # 0 /\ filledStart < numStarted
  BY <1>2, <1>3, <1>4, <1>5, <1>7 DEF LeftAt
<1>9. /\ Linked(L, p, FirstOf(first, all), all)
      /\ CrossAt(rd, p + all) /\ (p + all + Len(rd.cross) = rd.pos \/ Ends(input, p, all))
      /\ fresh => Begins(input, p)
  BY <1>8 DEF KeptAt, FirstAt
<1>10. PICK n \in Nat : n = FirstOf(first, all) /\ n >= 1 /\ n <= all
  <2>1. CASE first # 0
    <3>1. FirstOf(first, all) = first /\ first >= 1
      BY <2>1 DEF FirstOf
    <3> QED
      BY <3>1, <1>5
  <2>2. CASE first = 0
    <3>1. InBufSize \in Nat /\ InBufSize >= 1
      BY <1>1 DEF InBufIs
    <3>2. FirstOf(first, all) = IF InBufSize <= all THEN InBufSize ELSE all
      BY <2>2, <3>1, MinOfTwo DEF FirstOf
    <3>3. all >= 1
      BY <1>8
    <3> QED
      BY <3>1, <3>2, <3>3
  <2> QED
    BY <2>1, <2>2
<1>11. Linked(L, p, n, all)
  BY <1>9, <1>10
<1>12. PICK size \in Nat : size = all - n
  <2>1. all - n \in Nat
    BY <1>10
  <2> QED
    BY <2>1
<1>13. PICK last \in BOOLEAN : last <=> size = 0
  OBVIOUS
<1>14. n + size = all /\ (size # 0 => n < all)
  BY <1>10, <1>12
<1>15. SubSeq(Head(L), 1, n) = Units(p, n)
  <2>1. Len(L) >= 1 /\ Holds(L[1], p, n)
    BY <1>11, LinkedFirst
  <2>2. L \in Seq(Seq(Nat)) /\ L # <<>>
    <3>1. L \in Seq(Seq(Nat))
      BY DEF Links
    <3>2. Len(<<>>) = 0
      OBVIOUS
    <3> QED
      BY <3>1, <3>2, <2>1
  <2>3. Head(L) = L[1] /\ L[1] \in Seq(Nat)
    BY <2>1, <2>2
  <2>4. SubSeq(L[1], 1, n) = Units(p, n)
    BY <2>1, <2>3, HoldsIs
  <2> QED
    BY <2>3, <2>4
<1>16. size # 0 => Linked(Tail(L), p + n, FirstOf(0, size), size)
  <2>1. size # 0 => Linked(Tail(L), p + n, Min({InBufSize, all - n}), all - n)
    BY <1>1, <1>11, <1>14, LinkedTail
  <2>2. FirstOf(0, size) = Min({InBufSize, size})
    BY DEF FirstOf
  <2> QED
    BY <2>1, <2>2, <1>12
<1>17. p + n + size = p + all
  BY <1>14
<1>18. p + n + size <= pos
  <2>1. p + all + x <= pos
    BY <1>2, <1>7
  <2>2. p + all <= pos
    BY <2>1, <1>1
  <2> QED
    BY <2>2, <1>17
<1>19. LinkLeft(p, n, size, last)
  BY <1>3, <1>4, <1>5, <1>7, <1>8, <1>9, <1>10, <1>13, <1>14, <1>15, <1>16, <1>17, <1>18 DEF LinkLeft
<1> QED
  BY <1>3, <1>19

\* A link of what the ring kept is decoded (MtDec.c:882-943,
\* Lzma2DecMt.c:700-731).
LEMMA ReadFilledContent ==
  ASSUME Rights, Sizes, Content, ReadFilled
  PROVE  Content'
<1>1. /\ main = "st" /\ tMode /\ numFilled # 0
      /\ input' = input /\ result' = result /\ pc' = pc /\ coder' = coder /\ loc' = loc
      /\ pos' = pos /\ readWasFinished' = readWasFinished /\ readRes' = readRes /\ outParsed' = outParsed
      /\ numStarted' = numStarted /\ cross' = cross /\ tMode' = tMode
  BY DEF ReadFilled, callerRest
<1>2. numFilled = 1 /\ \E p, n, size, last : LinkLeft(p, n, size, last)
  BY <1>1, LinkLeftIs
<1>3. PICK p, n, size, last : LinkLeft(p, n, size, last)
  BY <1>2
<1>4. /\ p \in Nat /\ n \in Nat /\ size \in Nat /\ n >= 1 /\ p = inProcessed
      /\ p + n + size <= pos /\ (last <=> size = 0) /\ last \in BOOLEAN
      /\ n + size = filledSize[filledStart]
      /\ n = FirstOf(filledFirst[filledStart], filledSize[filledStart])
      /\ SubSeq(Head(inBuf[filledStart]), 1, n) = Units(p, n)
      /\ size # 0 => Linked(Tail(inBuf[filledStart]), p + n, FirstOf(0, size), size)
      /\ CrossAt(rd, p + n + size)
      /\ p + n + size + Len(rd.cross) = rd.pos \/ Ends(input, p, n + size)
      /\ fresh => Begins(input, p)
      /\ filledStart < numStarted
  BY <1>3, Zenon DEF LinkLeft
<1>5. /\ InputIs(input) /\ pos \in Nat /\ pos <= Len(input.kind) /\ filledStart \in Thread
      /\ filledSize \in [Thread -> Nat] /\ filledFirst \in [Thread -> Nat] /\ inBuf \in [Thread -> Links]
  BY <1>1, InputTypes DEF Sizes, InputIs, WriterTypes, ReaderTypes, Content, DataTypes, Links
<1>6. last <=> filledSize[filledStart] = n
  BY <1>4
<1>7. /\ DecodePiece(Units(p, n), FALSE)
      /\ filledFirst' = [filledFirst EXCEPT ![filledStart] = 0]
      /\ filledSize' = [filledSize EXCEPT ![filledStart] = @ - n]
      /\ inBuf' = [inBuf EXCEPT ![filledStart] = IF last THEN <<>> ELSE Tail(@)]
      /\ numFilled' = (IF last THEN numFilled - 1 ELSE numFilled)
      /\ filledStart' = (IF last /\ numFilled > 1 THEN NextFilled(filledStart) ELSE filledStart)
  <2>1. n = IF filledFirst[filledStart] # 0 THEN filledFirst[filledStart] ELSE Min({InBufSize, filledSize[filledStart]})
    BY <1>4 DEF FirstOf
  <2>2. /\ DecodePiece(SubSeq(Head(inBuf[filledStart]), 1, n), FALSE)
        /\ filledFirst' = [filledFirst EXCEPT ![filledStart] = 0]
        /\ filledSize' = [filledSize EXCEPT ![filledStart] = @ - n]
        /\ inBuf' = [inBuf EXCEPT ![filledStart] = IF filledSize[filledStart] = n THEN <<>> ELSE Tail(@)]
        /\ numFilled' = (IF filledSize[filledStart] = n THEN numFilled - 1 ELSE numFilled)
        /\ filledStart' = (IF filledSize[filledStart] = n /\ numFilled > 1 THEN NextFilled(filledStart) ELSE filledStart)
    BY <2>1, Zenon DEF ReadFilled
  <2>3. CASE last
    BY <2>2, <2>3, <1>4, <1>6
  <2>4. CASE ~ last
    BY <2>2, <2>4, <1>4, <1>6
  <2> QED
    BY <2>3, <2>4
<1>8. filledStart' = filledStart /\ numFilled' = (IF size = 0 THEN 0 ELSE 1)
  <2>1. ~ (numFilled > 1) /\ numFilled - 1 = 0
    BY <1>2
  <2> QED
    BY <2>1, <1>2, <1>4, <1>7
<1>9. /\ filledFirst'[filledStart] = 0 /\ filledSize'[filledStart] = size
      /\ size # 0 => inBuf'[filledStart] = Tail(inBuf[filledStart])
  <2>1. filledFirst'[filledStart] = 0
    BY <1>5, <1>7
  <2>2. filledSize'[filledStart] = filledSize[filledStart] - n
    BY <1>5, <1>7
  <2>3. n + size - n = size
    BY <1>4
  <2>4. size # 0 => inBuf'[filledStart] = Tail(inBuf[filledStart])
    BY <1>4, <1>5, <1>7
  <2> QED
    BY <2>1, <2>2, <2>3, <2>4, <1>4
<1>10. inBuf' \in [Thread -> Links]
  <2>1. <<>> \in Links
    BY DEF Links
  <2>2. size # 0 => Tail(inBuf[filledStart]) \in Links
    <3> SUFFICES ASSUME size # 0
                 PROVE  Tail(inBuf[filledStart]) \in Links
      OBVIOUS
    <3>1. PICK L \in Seq(Seq(Nat)) : L = inBuf[filledStart]
      BY <1>5 DEF Links
    <3>2. LeftAt(filledSize[filledStart], L, filledFirst[filledStart])
      BY <1>1, <1>2, <3>1, LeftIs
    <3>3. filledSize[filledStart] # 0
      BY <1>4
    <3>4. Linked(L, inProcessed, n, filledSize[filledStart])
      BY <3>2, <3>3, <1>4 DEF LeftAt, KeptAt
    <3>5. Len(L) >= 1
      BY <3>1, <3>4, <1>4, <1>5, LinkedFirst DEF Links
    <3>6. Len(<<>>) = 0
      OBVIOUS
    <3>7. L # <<>>
      BY <3>5, <3>6
    <3> QED
      BY <3>1, <3>7 DEF Links
  <2> QED
    BY <2>1, <2>2, <1>4, <1>5, <1>7
<1>11. DecodeHyp(input.kind, p, n)
  <2>1. PICK len \in Nat : len = Len(input.kind)
    BY <1>5 DEF InputIs
  <2>2. p + n <= pos
    BY <1>4, <1>5
  <2>3. p + n <= len
    BY <2>1, <2>2, <1>4, <1>5
  <2> QED
    BY <2>1, <2>3, <1>5 DEF DecodeHyp, InputIs
<1>12. RoundDone(n, FALSE)
  <2>1. DecodePiece(Units(inProcessed, n), FALSE) /\ DecodeHyp(input.kind, inProcessed, n)
    BY <1>4, <1>7, <1>11
  <2>2. fresh /\ n >= 1 => Begins(input, inProcessed)
    BY <1>4
  <2>3. n # 0 /\ n \in Nat
    BY <1>4
  <2> QED
    BY <2>1, <2>2, <2>3, <1>1, Round
<1>13. rd' = rd
  BY <1>1 DEF rd, Dry
<1> HIDE DEF rd
<1>14. Single'
  <2> SUFFICES ASSUME main' = "st"
               PROVE  /\ inProcessed' = Len(out') /\ inProcessed' > 0 /\ ~ fresh'
                      /\ KeptAt(input', rd', inProcessed', inBuf'[filledStart'], FirstOf(filledFirst'[filledStart'], size), size)
                      /\ size = IF numFilled' = 1 THEN filledSize'[filledStart'] ELSE 0
                      /\ numFilled' = 1 => size # 0 /\ filledStart' < numStarted'
    BY <1>1 DEF Single
  <2>1. /\ inProcessed' = p + n /\ inProcessed' = Len(out') /\ fresh' = FALSE /\ Output'
    BY <1>4, <1>12 DEF RoundDone
  <2>2. Sound(input, p + n)
    BY <2>1, <1>1 DEF Output
  <2>3. p + n > 0
    BY <1>4
  <2>4. Ends(input, p, n + size) => Ends(input, p + n, size)
    BY <2>2, <1>4, <1>5, EndsLater
  <2>5. size # 0 => Linked(inBuf'[filledStart'], p + n, FirstOf(0, size), size)
    BY <1>4, <1>8, <1>9
  <2>6. KeptAt(input, rd, p + n, inBuf'[filledStart'], FirstOf(0, size), size)
    BY <2>4, <2>5, <1>4 DEF KeptAt
  <2> QED
    BY <2>1, <2>3, <2>6, <1>1, <1>4, <1>8, <1>9, <1>13
<1>15. Alongside
  BY <1>1 DEF Alongside
<1>16. /\ readRes' = "read" <=> FALSE \/ readRes = "read"
       /\ readRes' = "read" => readWasFinished'
       /\ readWasFinished' => Dry'
  <2>1. Dry' <=> Dry
    BY <1>1 DEF Dry
  <2> QED
    BY <2>1, <1>1 DEF Content, Failures
<1> QED
  BY <1>10, <1>12, <1>14, <1>15, <1>16, RoundContent

\* What ReadNext reads.
NextRead(e, n) ==
  /\ e \in BOOLEAN /\ n \in Nat /\ pos' = pos + n /\ pos + n <= Len(input.kind)
  /\ DecodePiece(Units(pos, n), e)
  /\ readRes' = "read" <=> e \/ readRes = "read"
  /\ readRes' = "read" => readWasFinished'
  /\ readWasFinished' => Dry'
  /\ n = 0 => Dry'
  /\ n >= 1 => ~ Dry

\* The stream gives what it has, or it is known that it has no more
\* (Lzma2DecMt.c:697-706).
LEMMA NextReadIs ==
  ASSUME Sizes, Content, ReadNext
  PROVE  \E e, n : NextRead(e, n)
<1>1. main = "st" /\ input' = input
  BY DEF ReadNext, callerRest
<1>2. pos \in Nat /\ pos <= Len(input.kind) /\ InputIs(input) /\ readRes \in {"ok", "read"} /\ InBufSize \in Nat
  BY <1>1, InputTypes, MtDecAssumption DEF Sizes, ReaderTypes, InputIs
<1>3. (readRes = "read" => readWasFinished) /\ (readWasFinished => Dry)
  BY <1>1 DEF Content, Failures
<1>4. PICK len \in Nat : len = Len(input.kind)
  BY <1>2 DEF InputIs
<1>5. CASE readWasFinished
  <2>1. DecodePiece(<<>>, FALSE) /\ pos' = pos /\ readWasFinished' = readWasFinished /\ readRes' = readRes
    BY <1>5 DEF ReadNext
  <2>2. Units(pos, 0) = <<>>
    <3>1. 0 \in Nat
      OBVIOUS
    <3>2. Units(pos, 0) \in Seq(Nat) /\ Len(Units(pos, 0)) = 0
      BY <3>1, <1>2, UnitsAre
    <3> QED
      BY <3>2
  <2>3. pos + 0 = pos /\ 0 \in Nat /\ ~ (0 >= 1)
    BY <1>2
  <2>4. Dry' <=> Dry
    BY <1>1, <2>1 DEF Dry
  <2>5. NextRead(FALSE, 0)
    BY <2>1, <2>2, <2>3, <2>4, <1>2, <1>3, <1>5 DEF NextRead
  <2> QED
    BY <2>5
<1>6. CASE ~ readWasFinished
  <2>1. PICK e \in MayFail("read"), n \in 0 .. Min({InBufSize, Rest}) :
          /\ n = 0 => e \/ Rest = 0
          /\ DecodePiece(Units(pos, n), e)
          /\ pos' = pos + n /\ readWasFinished' = (e \/ n = 0)
          /\ readRes' = IF e THEN "read" ELSE "ok"
    BY <1>6, Zenon DEF ReadNext
  <2>2. e \in BOOLEAN
    BY <2>1, MayFailIs
  <2>3. PICK rest \in Nat : rest = Rest
    <3>1. len - pos \in Nat
      BY <1>2, <1>4
    <3> QED
      BY <3>1, <1>4 DEF Rest
  <2>4. n \in Nat /\ n <= rest
    <3>1. Min({InBufSize, rest}) = IF InBufSize <= rest THEN InBufSize ELSE rest
      BY <1>2, MinOfTwo
    <3> QED
      BY <3>1, <2>1, <2>3, <1>2
  <2>5. rest = len - pos
    BY <2>3, <1>4 DEF Rest
  <2>6. pos + n <= Len(input.kind)
    BY <2>4, <2>5, <1>2, <1>4
  <2>7. readRes = "ok"
    BY <1>2, <1>3, <1>6
  <2>8. e \/ n = 0 => Dry'
    <3>1. CASE e
      BY <3>1, <2>1 DEF Dry
    <3>2. CASE n = 0 /\ ~ e
      <4>1. rest = 0
        BY <3>2, <2>1, <2>3
      <4>2. pos' = Len(input'.kind)
        BY <4>1, <3>2, <2>1, <2>5, <1>1, <1>2, <1>4
      <4> QED
        BY <4>2 DEF Dry
    <3> QED
      BY <3>1, <3>2
  <2>9. n >= 1 => ~ Dry
    BY <2>4, <2>5, <2>7, <1>2, <1>4 DEF Dry
  <2>10. NextRead(e, n)
    <3>1. (readRes' = "read" <=> e) /\ (readWasFinished' <=> e \/ n = 0)
      BY <2>1, <2>2
    <3> QED
      BY <3>1, <2>1, <2>2, <2>4, <2>6, <2>7, <2>8, <2>9 DEF NextRead
  <2> QED
    BY <2>10
<1> QED
  BY <1>5, <1>6

\* Nothing is left of what the ring kept.
LEMMA NothingKept ==
  ASSUME Sizes, Content, main = "st", ~ (tMode /\ (numFilled # 0 \/ cross # <<>>))
  PROVE  /\ fresh => Begins(input, inProcessed) \/ (inProcessed = pos /\ Dry)
         /\ inProcessed = pos \/ Ends(input, inProcessed, 0)
<1>1. CASE ~ tMode
  BY <1>1 DEF Content, Single
<1>2. CASE tMode
  <2>1. numFilled = 0 /\ cross = <<>>
    BY <1>2
  <2>2. PICK size \in Nat : /\ size = (IF numFilled = 1 THEN filledSize[filledStart] ELSE 0)
                            /\ LeftAt(size, inBuf[filledStart], filledFirst[filledStart])
    BY <1>2, LeftIs
  <2>3. rd.cross = <<>> /\ rd.pos = pos /\ (rd.dry <=> Dry)
    BY <2>1 DEF rd
  <2> HIDE DEF rd, Dry
  <2>4. PICK p \in Nat : p = inProcessed
    BY DEF Sizes, WriterTypes
  <2>5. size = 0
    BY <2>1, <2>2
  <2>6. /\ p + 0 + Len(rd.cross) = rd.pos \/ Ends(input, p, 0)
        /\ fresh => FreshAt(input, rd, p)
    BY <2>2, <2>4, <2>5 DEF LeftAt, KeptAt, FirstAt
  <2>7. Len(<<>>) = 0
    OBVIOUS
  <2>8. p = pos \/ Ends(input, p, 0)
    BY <2>3, <2>4, <2>6, <2>7
  <2>9. fresh => Begins(input, p) \/ (p = pos /\ Dry)
    BY <2>3, <2>6 DEF FreshAt
  <2> QED
    BY <2>4, <2>8, <2>9
<1> QED
  BY <1>1, <1>2

\* What a round notes of failures.
LEMMA PieceFails ==
  ASSUME NEW w, NEW e \in BOOLEAN, DecodePiece(w, e)
  PROVE  failed \subseteq failed' /\ (e => "read" \in failed')
<1>1. \E A : failed' = failed \cup (Kind(e, "read") \cup A)
  <2>1. PICK fails, f : Fatal(Kind(e, "read") \cup Kind(fails, "write") \cup Kind(f, "progress"))
    BY Zenon DEF DecodePiece
  <2>2. failed' = failed \cup (Kind(e, "read") \cup (Kind(fails, "write") \cup Kind(f, "progress")))
    BY <2>1 DEF Fatal
  <2> QED
    BY <2>2
<1> QED
  BY <1>1 DEF Kind

\* The stream is read and decoded (Lzma2DecMt.c:697-797).
LEMMA ReadNextContent ==
  ASSUME Rights, Sizes, Content, ReadNext
  PROVE  Content'
<1>1. /\ main = "st" /\ ~ (tMode /\ (numFilled # 0 \/ cross # <<>>)) /\ tMode' = FALSE
      /\ input' = input /\ result' = result /\ pc' = pc /\ coder' = coder /\ loc' = loc
      /\ numStarted' = numStarted /\ outParsed' = outParsed /\ inBuf' = inBuf
  BY DEF ReadNext, callerRest
<1>2. PICK e, n : NextRead(e, n)
  BY NextReadIs
<1>3. /\ e \in BOOLEAN /\ n \in Nat /\ pos' = pos + n /\ pos + n <= Len(input.kind)
      /\ DecodePiece(Units(pos, n), e)
      /\ readRes' = "read" <=> e \/ readRes = "read"
      /\ readRes' = "read" => readWasFinished'
      /\ readWasFinished' => Dry'
      /\ n = 0 => Dry'
      /\ n >= 1 => ~ Dry
  BY <1>2, Zenon DEF NextRead
<1>4. /\ fresh => Begins(input, inProcessed) \/ (inProcessed = pos /\ Dry)
      /\ inProcessed = pos \/ Ends(input, inProcessed, 0)
  BY <1>1, NothingKept
<1>5. InputIs(input) /\ inProcessed \in Nat /\ pos \in Nat
  BY InputTypes DEF Sizes, InputIs, WriterTypes, ReaderTypes
<1>6. Alongside /\ inBuf' \in [Thread -> Links]
  BY <1>1 DEF Alongside, Content, DataTypes, Links
<1>7. failed \subseteq failed' /\ (e => "read" \in failed')
  BY <1>3, PieceFails
<1>8. readRes = "read" => "read" \in failed
  BY <1>1 DEF Content, Failures
<1>9. CASE inProcessed = pos
  <2>1. DecodePiece(Units(inProcessed, n), e) /\ DecodeHyp(input.kind, inProcessed, n)
    BY <1>3, <1>5, <1>9 DEF DecodeHyp, InputIs
  <2>2. fresh /\ n >= 1 => Begins(input, inProcessed)
    BY <1>3, <1>4
  <2>3. n = 0 => inProcessed = Len(input.kind) \/ failed' # {} \/ Ends(input, inProcessed, 0)
    <3> SUFFICES ASSUME n = 0, readRes' # "read"
                 PROVE  inProcessed = Len(input.kind)
      BY <1>3, <1>7, <1>8
    <3>1. pos' = Len(input.kind)
      BY <1>1, <1>3 DEF Dry
    <3> QED
      BY <3>1, <1>3, <1>5, <1>9
  <2>4. RoundDone(n, e)
    BY <2>1, <2>2, <2>3, <1>1, <1>3, Round
  <2>5. Single'
    <3> SUFFICES ASSUME main' = "st"
                 PROVE  inProcessed' = Len(out') /\ inProcessed' > 0 /\ ~ fresh' /\ inProcessed' = pos'
      BY <1>1 DEF Single
    <3>1. /\ n >= 1 /\ inProcessed' = inProcessed + n /\ inProcessed' = Len(out') /\ fresh' = FALSE
      BY <2>4 DEF RoundDone
    <3> QED
      BY <3>1, <1>3, <1>5, <1>9
  <2> QED
    BY <2>4, <2>5, <1>3, <1>6, RoundContent
<1>10. CASE inProcessed # pos
  <2>1. Ends(input, inProcessed, 0)
    BY <1>4, <1>10
  <2>2. PICK p, o \in Nat : p = inProcessed /\ o = input.outSize
    BY <1>5 DEF InputIs
  <2>3. inProcessed = Len(out) /\ Sound(input, p) /\ out \in Seq(Nat)
    BY <1>1, <2>2 DEF Content, Single, Output, DataTypes
  <2>4. input.finish = FALSE /\ p = o
    <3>1. ~ (\E u \in p + 1 .. p + 0 : u <= Len(input.kind) /\ input.kind[u] \in {"end", "alien"})
      BY <2>2
    <3>2. ~ input.finish /\ p + 0 >= o
      BY <3>1, <2>1, <2>2 DEF Ends
    <3>3. p <= o
      BY <2>2, <2>3 DEF Sound
    <3> QED
      BY <3>2, <3>3, <2>2, <1>5 DEF InputIs
  <2>5. Units(pos, n) \in Seq(Nat) /\ 0 \in Nat
    BY <1>3, <1>5, UnitsAre
  <2>6. DecodePiece(<<>>, e)
    BY <2>2, <2>3, <2>4, <2>5, <1>3, FullPiece
  <2>7. Units(inProcessed, 0) = <<>>
    <3>1. Units(inProcessed, 0) \in Seq(Nat) /\ Len(Units(inProcessed, 0)) = 0
      BY <2>5, <1>5, UnitsAre
    <3> QED
      BY <3>1
  <2>8. DecodeHyp(input.kind, inProcessed, 0)
    BY <2>2, <2>3, <1>5 DEF DecodeHyp, InputIs, Sound
  <2>9. RoundDone(0, e)
    <3>1. DecodePiece(Units(inProcessed, 0), e)
      BY <2>6, <2>7
    <3>2. ~ (0 >= 1)
      OBVIOUS
    <3> QED
      BY <3>1, <3>2, <2>1, <2>5, <2>8, <1>1, <1>3, Round
  <2>10. Single'
    <3>1. main' # "st"
      BY <2>9 DEF RoundDone
    <3> QED
      BY <3>1 DEF Single
  <2> QED
    BY <2>9, <2>10, <1>3, <1>6, RoundContent
<1> QED
  BY <1>9, <1>10

\* Before a call there is no output (Lzma2DecMt.c:802-850).
LEMMA EmptyOutput ==
  ASSUME NEW inp, InputIs(inp)
  PROVE  <<>> = Units(0, Len(<<>>)) /\ Sound(inp, Len(<<>>)) /\ <<>> \in Seq(Nat)
<1>1. Len(<<>>) = 0 /\ 0 \in Nat /\ <<>> \in Seq(Nat)
  OBVIOUS
<1>2. Units(0, 0) = <<>>
  <2>1. Units(0, 0) \in Seq(Nat) /\ Len(Units(0, 0)) = 0
    BY <1>1, UnitsAre
  <2> QED
    BY <2>1
<1>3. Sound(inp, 0)
  <2>1. PICK n, o \in Nat : n = Len(inp.kind) /\ o = inp.outSize
    BY DEF InputIs
  <2>2. 0 <= n /\ 0 <= o /\ ~ (0 > 0) /\ \A u \in 1 .. 0 : FALSE
    BY <2>1
  <2> QED
    BY <2>1, <2>2, <1>1 DEF Sound
<1> QED
  BY <1>1, <1>2, <1>3

\* The call ends (Lzma2DecMt.c:950-979, Lzma2Decoder.cpp:84-170).
LEMMA FinishContent ==
  ASSUME Rights, Sizes, Content, Finish
  PROVE  Content'
<1>1. /\ main = "result" /\ main' = "done" /\ result' \in {"ok", "error"}
      /\ input' = input /\ out' = out /\ failed' = failed /\ pc' = pc /\ coder' = coder /\ loc' = loc
      /\ inBuf' = inBuf /\ pos' = pos /\ readWasFinished' = readWasFinished /\ readRes' = readRes
  BY DEF Finish, faultVars, readerVars
<1>2. ~ Runs
  BY <1>1 DEF Runs
<1>3. \A t \in Thread : ~ IsBusy(pc'[t])
  BY <1>1, <1>2, OutsideIdle
<1>4. Writes' /\ Notes' /\ Layout' /\ Flagged' /\ Stopped'
  BY <1>1, <1>2, <1>3, OutsideContent
<1>5. Failures'
  BY <1>1 DEF Content, Failures, Dry
<1>6. DataTypes' /\ Output' /\ Single' /\ Outcome'
  BY <1>1 DEF Content, DataTypes, Output, Single, Outcome
<1> QED
  BY <1>4, <1>5, <1>6, Zenon DEF Content

\* The decoder gets another stream.
LEMMA NextCallContent ==
  ASSUME Rights, Sizes, Content, NextCall
  PROVE  Content'
<1>1. /\ main = "done" /\ main' = "start" /\ result' = "none" /\ input' \in Inputs
      /\ out' = <<>> /\ failed' = {} /\ pc' = pc /\ coder' = coder /\ loc' = loc /\ inBuf' = inBuf
  BY DEF NextCall
<1>2. ~ Runs
  BY <1>1 DEF Runs
<1>3. \A t \in Thread : ~ IsBusy(pc'[t])
  BY <1>1, <1>2, OutsideIdle
<1>4. Writes' /\ Notes' /\ Layout' /\ Flagged' /\ Stopped'
  BY <1>1, <1>2, <1>3, OutsideContent
<1>5. Failures'
  BY <1>1 DEF Failures
<1>6. DataTypes' /\ Output'
  <2>1. PICK inp \in Inputs : inp = input'
    BY <1>1
  <2>2. InputIs(inp)
    BY <2>1, MtDecAssumption DEF InputIs
  <2>3. <<>> = Units(0, Len(<<>>)) /\ Sound(inp, Len(<<>>)) /\ <<>> \in Seq(Nat)
    BY <2>2, EmptyOutput
  <2> QED
    BY <2>1, <2>3, <1>1 DEF Content, DataTypes, Output
<1>7. Single' /\ Outcome'
  BY <1>1 DEF Single, Outcome
<1> QED
  BY <1>4, <1>5, <1>6, <1>7, Zenon DEF Content

\* Content holds before the first call.
LEMMA InitContent ==
  ASSUME Init
  PROVE  Content
<1>1. /\ input \in Inputs /\ main = "start" /\ result = "none" /\ out = <<>> /\ failed = {}
      /\ inBuf = [t \in Thread |-> <<>>]
      /\ \A t \in Thread : pc[t] = "none" /\ loc[t] = NoLoc /\ coder[t] = NoCoder
  BY DEF Init
<1>2. InputIs(input)
  BY <1>1, MtDecAssumption DEF InputIs
<1>3. DataTypes /\ Output
  <2>1. <<>> = Units(0, Len(<<>>)) /\ Sound(input, Len(<<>>)) /\ <<>> \in Seq(Nat)
    BY <1>2, EmptyOutput
  <2>2. <<>> \in Seq(Seq(Nat))
    OBVIOUS
  <2> QED
    BY <2>1, <2>2, <1>1 DEF DataTypes, Output
<1>4. Failures
  BY <1>1 DEF Failures
<1>5. Notes
  <2> SUFFICES ASSUME NEW t \in Thread
               PROVE  NoteAt(pc[t], loc[t], coder[t], wasInterrupted)
    BY DEF Notes
  <2>1. pc[t] = "none" /\ loc[t] = NoLoc /\ coder[t] = NoCoder
    BY <1>1
  <2>2. /\ NoCoder.data = <<>> /\ NoCoder.used = 0
        /\ NoLoc.write = FALSE /\ NoLoc.needCode = FALSE
    BY DEF NoCoder, NoLoc
  <2> QED
    BY <2>1, <2>2 DEF NoteAt, IsWork
<1>6. Writes
  BY <1>1 DEF Writes
<1>7. Layout /\ Flagged /\ Stopped /\ Single /\ Outcome
  BY <1>1 DEF Layout, Flagged, Stopped, Single, Outcome
<1> QED
  BY <1>3, <1>4, <1>5, <1>6, <1>7, Zenon DEF Content

\* Nothing of it changes in a step that changes nothing.
LEMMA StutterContent ==
  ASSUME Content, UNCHANGED vars
  PROVE  Content'
<1>1. UNCHANGED <<input, main, sres, result, tMode, fresh, failed, blockIndex, numStarted,
                  outParsed, progressRes, wasInterrupted, isAllocError, overflow, threadingError,
                  exitThread, coder, loc, pc, canRead, canWrite, pos, readRes, readWasFinished,
                  cross, filledStart, numFilled, filledSize, filledFirst, inProcessed, inBuf, out>>
  BY DEF vars, callerVars, faultVars, readerVars, csVars, writerVars, filledVars, stVars
<1>2. (Flags' <=> Flags) /\ (Over' <=> Over) /\ (Told' <=> Told) /\ rd' = rd /\ (Dry' <=> Dry)
  BY <1>1 DEF Flags, Over, Told, rd, Dry
<1> HIDE DEF rd, Dry
<1>3. DataTypes' /\ Output' /\ Failures' /\ Notes'
  BY <1>1, <1>2 DEF Content, DataTypes, Output, Failures, Notes
<1>4. Writes' /\ Stopped'
  BY <1>1, <1>2 DEF Content, Writes, Stopped
<1>5. Layout'
  BY <1>1, <1>2 DEF Content, Layout, Laid
<1>6. Flagged'
  BY <1>1, <1>2 DEF Content, Flagged
<1>7. Single' /\ Outcome'
  BY <1>1, <1>2 DEF Content, Single, Outcome
<1> QED
  BY <1>3, <1>4, <1>5, <1>6, <1>7, Zenon DEF Content

\* What every step keeps: the content of the links, of the cross block and of
\* the output is what the stream has there.
LEMMA StepContent ==
  ASSUME Rights, Sizes, Content, [Next]_vars
  PROVE  Content'
<1>1. CASE MainStep
  BY <1>1, StartContent, ReturnContent, ReadFilledContent, ReadCrossContent, ReadNextContent,
     FinishContent DEF MainStep
<1>2. CASE NextCall
  BY <1>2, NextCallContent
<1>3. ASSUME NEW t \in Thread, ThreadStep(t)
      PROVE  Content'
  BY <1>3, TakeReadEndsContent, TakeReadContent, NoLinkContent, TakeCrossContent,
     ReadStreamContent, ParseLinkContent, HandReadContent, CodeContent, TakeWriteContent,
     WriteContent DEF ThreadStep
<1>4. CASE UNCHANGED vars
  BY <1>4, StutterContent
<1> QED
  BY <1>1, <1>2, <1>3, <1>4 DEF Next, Terminating

\* Whatever fails and however the threads take turns, what is read, parsed,
\* kept and written is what the stream has at that place, the blocks follow one
\* another without a gap, and the decoder stops only where the stream ends, is
\* bad or something failed (MtDec.c:250-943, Lzma2DecMt.c:300-797), for every
\* number of threads, size of the buffers, stream and sequence of failures.
THEOREM ContentInvariant == Spec => []Content
<1>1. Init => Content
  BY InitContent
<1>2. Rights /\ Sizes /\ Content /\ [Next]_vars => Content'
  BY StepContent
<1> QED
  BY <1>1, <1>2, RightsInvariant, SizesInvariant, PTL DEF Spec

-----------------------------------------------------------------------------
(* Nothing is lost when one thread takes over.                             *)

\* One sequence put together with nothing is itself.
LEMMA FlatOne ==
  ASSUME NEW x \in Seq(Nat)
  PROVE  FlattenSeq(<<x>>) = x
<1>1. <<x>> \in Seq(Seq(Nat)) /\ <<x>> # <<>> /\ Len(<<x>>) = 1
  OBVIOUS
<1>2. PICK g : Flat(<<x>>, Len(<<x>>), g) /\ FlattenSeq(<<x>>) = g[Len(<<x>>)]
  BY <1>1, FlatIs
<1>3. Flat(<<x>>, 1, g) /\ FlattenSeq(<<x>>) = g[1]
  BY <1>1, <1>2
<1>4. g[1] = <<x>>[1]
  BY <1>3 DEF Flat
<1> QED
  BY <1>3, <1>4

\* And nothing put together is nothing.
LEMMA FlatNone ==
  ASSUME NEW s, s = <<>>
  PROVE  FlattenSeq(s) = <<>>
<1>1. Len(s) = 0
  BY Len(<<>>) = 0
<1> QED
  BY <1>1 DEF FlattenSeq

\* What the k units are that the threads and the cross block still hold, and
\* what is behind them.
KeptIs(kept, p, k, len) ==
  /\ p \in Nat /\ k \in Nat /\ len \in Nat /\ p = inProcessed /\ len = Len(input.kind)
  /\ kept = Units(p, k) /\ p + k <= len /\ pos <= len
  /\ p + k = pos \/ \E s \in 0 .. k : Ends(input, p, s)

\* What MtDec_Read has to give (MtDec.c:882-943).
LEMMA HeldIs ==
  ASSUME Rights, Sizes, Content, main = "st", tMode
  PROVE  \E s \in Nat : /\ Held = Units(inProcessed, s) /\ CrossAt(rd, inProcessed + s)
                        /\ inProcessed + s + Len(rd.cross) = rd.pos \/ Ends(input, inProcessed, s)
<1>1. PICK size \in Nat : /\ numFilled \in {0, 1}
                          /\ size = IF numFilled = 1 THEN filledSize[filledStart] ELSE 0
                          /\ LeftAt(size, inBuf[filledStart], filledFirst[filledStart])
  BY LeftIs
<1> HIDE DEF rd
<1>2. PICK L \in Links : L = inBuf[filledStart]
  BY DEF Content, DataTypes, Links, Sizes, WriterTypes
<1>3. PICK first \in Nat : first = filledFirst[filledStart]
  BY DEF Sizes, WriterTypes
<1>4. PICK p \in Nat : p = inProcessed
  BY DEF Sizes, WriterTypes
<1>5. /\ size # 0 => Linked(L, p, FirstOf(first, size), size)
      /\ CrossAt(rd, p + size) /\ (p + size + Len(rd.cross) = rd.pos \/ Ends(input, p, size))
      /\ numFilled = 1 => size # 0 /\ filledStart < numStarted
  BY <1>1, <1>2, <1>3, <1>4 DEF LeftAt, KeptAt
<1>6. CASE numFilled = 0
  <2>1. Held = <<>>
    <3> DEFINE parts == [i \in 1 .. 0 |->
                           LET t == (filledStart + i - 1) % numStarted IN Data(inBuf[t], filledFirst[t], filledSize[t])]
    <3>1. parts = <<>>
      OBVIOUS
    <3> HIDE DEF parts
    <3>2. FlattenSeq(parts) = <<>>
      BY <3>1, FlatNone
    <3> QED
      BY <3>2, <1>6 DEF Held, parts
  <2>2. size = 0 /\ 0 \in Nat
    BY <1>1, <1>6
  <2>3. Units(p, 0) = <<>>
    <3>1. Units(p, 0) \in Seq(Nat) /\ Len(Units(p, 0)) = 0
      BY <2>2, UnitsAre
    <3> QED
      BY <3>1
  <2> QED
    BY <2>1, <2>2, <2>3, <1>4, <1>5
<1>7. CASE numFilled = 1
  <2>1. InBufIs
    BY MtDecAssumption DEF InBufIs
  <2>2. PICK f \in Nat : f = FirstOf(first, size) /\ (first = f \/ first = 0)
    <3>1. Min({InBufSize, size}) \in Nat
      BY <2>1, MinOfTwo DEF InBufIs
    <3> QED
      BY <3>1 DEF FirstOf
  <2>3. Data(L, first, size) = Units(p, size)
    BY <2>1, <2>2, <1>5, <1>7, DataIs
  <2>4. Units(p, size) \in Seq(Nat)
    BY UnitsAre
  <2>5. (filledStart + 1 - 1) % numStarted = filledStart
    <3>1. PICK a, b \in Nat : a = filledStart /\ b = numStarted
      BY MtDecAssumption DEF Sizes, WriterTypes, Rights, RingTypes, Thread
    <3>2. a < b
      BY <3>1, <1>5, <1>7
    <3>3. a + 1 - 1 = a
      OBVIOUS
    <3>4. a % b = a
      BY <3>2
    <3> QED
      BY <3>1, <3>3, <3>4
  <2>6. Held = Units(p, size)
    <3> DEFINE part(i) == LET t == (filledStart + i - 1) % numStarted IN Data(inBuf[t], filledFirst[t], filledSize[t])
    <3>1. part(1) = Units(p, size)
      BY <2>3, <2>5, <1>1, <1>2, <1>3, <1>7
    <3>2. Held = FlattenSeq([i \in 1 .. 1 |-> part(i)])
      BY <1>7 DEF Held
    <3> HIDE DEF part
    <3>3. [i \in 1 .. 1 |-> part(i)] = <<part(1)>>
      OBVIOUS
    <3>4. FlattenSeq(<<part(1)>>) = part(1)
      BY <3>1, <2>4, FlatOne
    <3> QED
      BY <3>1, <3>2, <3>3, <3>4
  <2> QED
    BY <2>6, <1>4, <1>5
<1> QED
  BY <1>1, <1>6, <1>7

\* What is kept follows on the output, without a gap.
LEMMA KeptFollows ==
  ASSUME Rights, Sizes, Content, main = "st"
  PROVE  \E p, k, len : KeptIs(IF tMode THEN Held \o cross ELSE <<>>, p, k, len)
<1>1. /\ InputIs(input) /\ pos \in Nat /\ pos <= Len(input.kind) /\ inProcessed <= pos
      /\ inProcessed \in Nat /\ cross \in Seq(Nat) /\ tMode \in BOOLEAN
  BY InputTypes DEF Sizes, InputIs, ReaderTypes, WriterTypes, CallerTypes
<1>2. PICK p, len \in Nat : p = inProcessed /\ len = Len(input.kind)
  BY <1>1 DEF InputIs
<1>3. rd.cross = cross /\ rd.pos = pos
  BY DEF rd
<1> HIDE DEF rd
<1>4. CASE ~ tMode
  <2>1. p = pos \/ Ends(input, p, 0)
    BY <1>2, <1>4 DEF Content, Single
  <2>2. Units(p, 0) = <<>>
    <3>1. 0 \in Nat
      OBVIOUS
    <3>2. Units(p, 0) \in Seq(Nat) /\ Len(Units(p, 0)) = 0
      BY <3>1, UnitsAre
    <3> QED
      BY <3>2
  <2>3. p + 0 = p /\ p <= len /\ 0 \in 0 .. 0
    BY <1>1, <1>2
  <2>4. KeptIs(<<>>, p, 0, len)
    BY <2>1, <2>2, <2>3, <1>1, <1>2 DEF KeptIs
  <2> QED
    BY <2>4, <1>4
<1>5. CASE tMode
  <2>1. PICK s \in Nat : /\ Held = Units(p, s) /\ CrossAt(rd, p + s)
                         /\ p + s + Len(rd.cross) = rd.pos \/ Ends(input, p, s)
    BY <1>2, <1>5, HeldIs
  <2>2. PICK x \in Nat : x = Len(cross)
    BY <1>1
  <2>3. p + s + x <= pos /\ Holds(cross, p + s, x)
    BY <2>1, <2>2, <1>3 DEF CrossAt
  <2>4. cross = Units(p + s, x)
    BY <2>2, <2>3, <1>1, HoldsIs
  <2>5. Held \o cross = Units(p, s + x)
    BY <2>1, <2>4, UnitsJoin
  <2>6. PICK k \in Nat : k = s + x
    OBVIOUS
  <2>7. p + k = p + s + x /\ s \in 0 .. k
    BY <2>6
  <2>8. p + k <= len
    BY <2>3, <2>7, <1>1, <1>2
  <2>9. p + k = pos \/ \E j \in 0 .. k : Ends(input, p, j)
    BY <2>1, <2>2, <2>7, <1>3
  <2>10. KeptIs(Held \o cross, p, k, len)
    BY <2>5, <2>6, <2>8, <2>9, <1>1, <1>2 DEF KeptIs
  <2> QED
    BY <2>10, <1>5
<1> QED
  BY <1>1, <1>4, <1>5

\* Decoding does not go on behind an end of decoding (Lzma2Dec.c:178-303).
LEMMA EndsStop ==
  ASSUME NEW inp, InputIs(inp), NEW p \in Nat, Sound(inp, p), NEW k \in Nat, NEW fr \in BOOLEAN,
         DecodeHyp(inp.kind, p, k), NEW s \in 0 .. k, Ends(inp, p, s)
  PROVE  Decode(inp.kind, Units(p, k), fr, inp.outSize - p, inp.finish).status # "more"
<1>1. PICK o, len \in Nat : o = inp.outSize /\ len = Len(inp.kind)
  BY DEF InputIs
<1>2. p <= o /\ p <= len
  BY <1>1 DEF Sound
<1>3. PICK room \in Nat : room = o - p
  <2>1. o - p \in Nat
    BY <1>1, <1>2
  <2> QED
    BY <2>1
<1>4. PICK kind, mark : kind = inp.kind /\ mark = inp.finish
  OBVIOUS
<1>5. mark \in BOOLEAN /\ DecodeHyp(kind, p, k)
  BY <1>4 DEF InputIs
<1>6. PICK d : d = Decode(kind, Units(p, k), fr, room, mark)
  OBVIOUS
<1>7. PICK m \in 0 .. k : DecodedTo(kind, p, k, fr, room, mark, Decode(kind, Units(p, k), fr, room, mark), m)
  BY <1>5, DecodeAny, Zenon
<1>8. DecodedTo(kind, p, k, fr, room, mark, d, m)
  BY <1>6, <1>7
<1>9. ASSUME d.status = "more"
      PROVE  FALSE
  <2>1. m = k /\ (mark \/ m < room) /\ \A u \in p + 1 .. p + m : kind[u] \in {"head", "body"}
    BY <1>8, <1>9 DEF DecodedTo
  <2>2. CASE \E u \in p + 1 .. p + s : u <= Len(inp.kind) /\ inp.kind[u] \in {"end", "alien"}
    <3>1. PICK u \in p + 1 .. p + s : inp.kind[u] \in {"end", "alien"}
      BY <2>2
    <3>2. u \in p + 1 .. p + m
      BY <2>1
    <3> QED
      BY <3>1, <3>2, <2>1, <1>4
  <2>3. CASE ~ inp.finish /\ p + s >= inp.outSize
    BY <2>1, <2>3, <1>1, <1>3, <1>4
  <2> QED
    BY <2>2, <2>3 DEF Ends
<1> QED
  BY <1>1, <1>3, <1>4, <1>6, <1>9

\* When a single thread takes over, the units the threads hold, the cross block
\* and what is not yet read follow in this order on the output; what is missing
\* lies behind the end of decoding (MtDec.c:754-772, 882-943).
THEOREM NothingIsLost == Spec => []NothingLost
<1>1. Rights /\ Sizes /\ Content => NothingLost
  <2> SUFFICES ASSUME Rights, Sizes, Content, main = "st",
                      NEW kept, kept = (IF tMode THEN Held \o cross ELSE <<>>)
               PROVE  \/ kept \o Units(pos, Rest) = Units(inProcessed, Len(input.kind) - inProcessed)
                      \/ /\ IsPrefix(kept, Units(inProcessed, Len(input.kind) - inProcessed))
                         /\ Decode(input.kind, kept, fresh, input.outSize - Len(out), input.finish).status # "more"
    BY DEF NothingLost
  <2>1. PICK p, k, len : KeptIs(kept, p, k, len)
    BY KeptFollows
  <2>2. /\ p \in Nat /\ k \in Nat /\ len \in Nat /\ p = inProcessed /\ len = Len(input.kind)
        /\ kept = Units(p, k) /\ p + k <= len /\ pos <= len
        /\ p + k = pos \/ \E s \in 0 .. k : Ends(input, p, s)
    BY <2>1, Zenon DEF KeptIs
  <2>3. CASE p + k = pos
    <3>1. PICK r \in Nat : r = len - (p + k)
      <4>1. len - (p + k) \in Nat
        BY <2>2
      <4> QED
        BY <4>1
    <3>2. Rest = r /\ len - p = k + r
      BY <3>1, <2>2, <2>3 DEF Rest
    <3>3. Units(p, k) \o Units(p + k, r) = Units(p, k + r)
      <4>1. p \in Nat /\ k \in Nat /\ r \in Nat
        BY <3>1, <2>2
      <4> QED
        BY <4>1, UnitsJoin, Zenon
    <3> QED
      BY <3>2, <3>3, <2>2, <2>3
  <2>4. ASSUME NEW s \in 0 .. k, Ends(input, p, s)
        PROVE  /\ IsPrefix(kept, Units(inProcessed, Len(input.kind) - inProcessed))
               /\ Decode(input.kind, kept, fresh, input.outSize - Len(out), input.finish).status # "more"
    <3>1. InputIs(input) /\ fresh \in BOOLEAN /\ Sound(input, p) /\ Len(out) = p
      <4>1. InputIs(input) /\ fresh \in BOOLEAN
        BY InputTypes DEF Sizes, InputIs, CallerTypes
      <4>2. Len(out) = p
        BY <2>2 DEF Content, Single
      <4> QED
        BY <4>1, <4>2 DEF Content, Output
    <3>2. DecodeHyp(input.kind, p, k)
      BY <3>1, <2>2 DEF DecodeHyp, InputIs
    <3>3. Decode(input.kind, Units(p, k), fresh, input.outSize - p, input.finish).status # "more"
      BY <3>1, <3>2, <2>2, <2>4, EndsStop
    <3>4. PICK n \in Nat : n = len - p /\ k <= n
      <4>1. len - p \in Nat /\ k <= len - p
        BY <2>2
      <4> QED
        BY <4>1
    <3>5. IsPrefix(Units(p, k), Units(p, n))
      <4>1. k \in 0 .. n /\ k \in 0 .. k
        BY <3>4, <2>2
      <4>2. SubSeq(Units(p, n), 1, k) = Units(p, k) /\ SubSeq(Units(p, k), 1, k) = Units(p, k)
        BY <4>1, <2>2, UnitsHold
      <4>3. Len(Units(p, k)) = k /\ Len(Units(p, n)) = n
        BY <2>2, UnitsAre
      <4> QED
        BY <4>2, <4>3, <3>4 DEF IsPrefix
    <3> QED
      BY <3>1, <3>3, <3>4, <3>5, <2>2
  <2> QED
    BY <2>2, <2>3, <2>4
<1> QED
  BY <1>1, RightsInvariant, SizesInvariant, ContentInvariant, PTL

-----------------------------------------------------------------------------
(* The decoder is a decoder of the stream.                                 *)

\* What is decoded of a piece is a beginning of it (Lzma2Dec.c:178-303).
LEMMA DecodedType ==
  ASSUME NEW kind, NEW w \in Seq(Nat), NEW fr, NEW room, NEW mark
  PROVE  Decode(kind, w, fr, room, mark).out \in Seq(Nat)
<1>1. PICK n \in Nat : n = Len(w)
  OBVIOUS
<1> DEFINE S == {Len(w) + 1}
                  \cup {i \in 1 .. Len(w) : kind[w[i]] \in {"end", "alien", "bad"}}
                  \cup {i \in 1 .. Len(w) : i > room}
                  \cup {i \in 1 .. Len(w) : i = 1 /\ fr /\ kind[w[i]] # "head"}
<1>2. S \subseteq 1 .. n + 1 /\ n + 1 \in S
  BY <1>1
<1> HIDE DEF S
<1>3. Min(S) \in S
  <2>1. S \subseteq Nat /\ S # {}
    BY <1>2
  <2> QED
    BY <2>1, MinIsLeast
<1>4. PICK stop \in 1 .. n + 1 : stop = Min(S)
  BY <1>2, <1>3
<1>5. Decode(kind, w, fr, room, mark).out = SubSeq(w, 1, stop - 1)
  BY <1>4 DEF Decode, S
<1>6. SubSeq(w, 1, stop - 1) \in Seq(Nat)
  BY <1>1
<1> QED
  BY <1>5, <1>6

\* Output is only added to (MtDec.c:720-735, Lzma2DecMt.c:753-768).
LEMMA WriteAdds ==
  ASSUME out \in Seq(Nat), NEW data \in Seq(Nat), NEW fails, WriteOut(data, fails)
  PROVE  Len(out) <= Len(out')
<1>1. ASSUME NEW x \in Seq(Nat), out' = out \o x
      PROVE  Len(out) <= Len(out')
  <2>1. Len(out') = Len(out) + Len(x) /\ Len(x) \in Nat /\ Len(out) \in Nat
    BY <1>1, ConcatProperties
  <2> QED
    BY <2>1
<1>2. CASE fails
  <2>1. PICK n \in 0 .. Len(data) - 1 : out' = out \o SubSeq(data, 1, n)
    BY <1>2 DEF WriteOut
  <2>2. SubSeq(data, 1, n) \in Seq(Nat)
    OBVIOUS
  <2> QED
    BY <1>1, <2>1, <2>2
<1>3. CASE ~ fails
  BY <1>1, <1>3 DEF WriteOut
<1> QED
  BY <1>2, <1>3

\* What every step of a call leaves, but its last.
Goes ==
  /\ input' = input /\ result' = result /\ result = "none"
  /\ Len(out) <= Len(out') /\ failed \subseteq failed'

\* A round of the single thread adds to the output (Lzma2DecMt.c:637-797).
LEMMA PieceGoes ==
  ASSUME Content, main = "st", input' = input, result' = result,
         NEW w \in Seq(Nat), NEW e \in BOOLEAN, DecodePiece(w, e)
  PROVE  Goes
<1>1. failed \subseteq failed'
  BY PieceFails
<1>2. PICK d : d = Decode(input.kind, w, fresh, input.outSize - Len(out), input.finish)
  OBVIOUS
<1>3. d.out \in Seq(Nat)
  BY <1>2, DecodedType
<1>4. PICK fails \in MayFail("write"), f \in MayFail("progress") : RoundNow(d, w, e, fails, f)
  BY <1>2, ZenonT(40) DEF DecodePiece, RoundNow
<1>5. WriteOut(d.out, fails)
  BY <1>4, Zenon DEF RoundNow
<1>6. out \in Seq(Nat) /\ result = "none"
  BY DEF Content, DataTypes, Failures
<1>7. Len(out) <= Len(out')
  BY <1>3, <1>5, <1>6, WriteAdds
<1> QED
  BY <1>1, <1>6, <1>7 DEF Goes

\* The steps of the single thread.
LEMMA SingleGoes ==
  ASSUME Rights, Sizes, Content, ReadFilled \/ ReadCross \/ ReadNext
  PROVE  Goes
<1>1. main = "st" /\ input' = input /\ result' = result /\ pos \in Nat /\ cross \in Seq(Nat)
  BY DEF ReadFilled, ReadCross, ReadNext, callerRest, Sizes, ReaderTypes
<1>2. CASE ReadFilled
  <2>1. tMode /\ numFilled # 0
    BY <1>2 DEF ReadFilled
  <2>2. PICK p, n, size, last : LinkLeft(p, n, size, last)
    BY <1>1, <2>1, LinkLeftIs
  <2>3. /\ p \in Nat /\ n \in Nat
        /\ n = FirstOf(filledFirst[filledStart], filledSize[filledStart])
        /\ SubSeq(Head(inBuf[filledStart]), 1, n) = Units(p, n)
    BY <2>2, Zenon DEF LinkLeft
  <2>4. n = IF filledFirst[filledStart] # 0 THEN filledFirst[filledStart] ELSE Min({InBufSize, filledSize[filledStart]})
    BY <2>3 DEF FirstOf
  <2>5. DecodePiece(SubSeq(Head(inBuf[filledStart]), 1, n), FALSE)
    BY <2>4, <1>2, Zenon DEF ReadFilled
  <2>6. DecodePiece(Units(p, n), FALSE) /\ Units(p, n) \in Seq(Nat)
    BY <2>3, <2>5, UnitsAre
  <2> QED
    BY <2>6, <1>1, PieceGoes
<1>3. CASE ReadCross
  <2>1. DecodePiece(cross, FALSE)
    BY <1>3 DEF ReadCross
  <2> QED
    BY <2>1, <1>1, PieceGoes
<1>4. CASE ReadNext
  <2>1. PICK e, n : NextRead(e, n)
    BY <1>4, NextReadIs
  <2>2. e \in BOOLEAN /\ n \in Nat /\ DecodePiece(Units(pos, n), e)
    BY <2>1, Zenon DEF NextRead
  <2>3. Units(pos, n) \in Seq(Nat)
    BY <2>2, <1>1, UnitsAre
  <2> QED
    BY <2>2, <2>3, <1>1, PieceGoes
<1> QED
  BY <1>2, <1>3, <1>4

\* The steps of the threads: only Write has output (MtDec.c:720-735).
LEMMA RingGoes ==
  ASSUME Rights, Sizes, Content, NEW t \in Thread, ThreadStep(t)
  PROVE  Goes
<1>1. out \in Seq(Nat) /\ Len(out) \in Nat /\ (main # "done" => result = "none")
  BY DEF Content, DataTypes, Failures
<1>2. CASE TakeRead(t)
  <2>1. canRead[t] /\ input' = input /\ result' = result /\ out' = out /\ failed \subseteq failed'
    BY <1>2 DEF TakeRead, callerVars, faultVars, Fatal
  <2>2. main = "mt"
    BY <2>1, BusyRuns
  <2> QED
    BY <2>1, <2>2, <1>1 DEF Goes
<1>3. CASE NoLink(t) \/ TakeCross(t) \/ ReadStream(t) \/ ParseLink(t) \/ HandRead(t) \/ Code(t) \/ TakeWrite(t)
  <2>1. pc[t] \in {"read", "parse", "hand", "code", "waitWrite"}
    BY <1>3, ZenonT(40) DEF NoLink, TakeCross, ReadStream, ParseLink, HandRead, Code, TakeWrite
  <2>2. main = "mt"
    <3>1. IsBusy(pc[t])
      BY <2>1, SMTT(30) DEF IsBusy
    <3> QED
      BY <3>1, BusyRuns
  <2>3. input' = input /\ result' = result /\ out' = out
    BY <1>3, ZenonT(40) DEF NoLink, TakeCross, ReadStream, ParseLink, HandRead, Code, TakeWrite, callerVars
  <2>4. failed \subseteq failed'
    <3>1. CASE NoLink(t)
      BY <3>1 DEF NoLink
    <3>2. CASE TakeCross(t)
      BY <3>2 DEF TakeCross, faultVars
    <3>3. CASE ReadStream(t)
      BY <3>3 DEF ReadStream, Fatal
    <3>4. CASE ParseLink(t)
      BY <3>4 DEF ParseLink
    <3>5. CASE HandRead(t)
      BY <3>5 DEF HandRead
    <3>6. CASE Code(t)
      BY <3>6 DEF Code, Fatal, faultVars
    <3>7. CASE TakeWrite(t)
      BY <3>7 DEF TakeWrite, Fatal, faultVars
    <3> QED
      BY <1>3, <3>1, <3>2, <3>3, <3>4, <3>5, <3>6, <3>7
  <2> QED
    BY <2>2, <2>3, <2>4, <1>1, SMTT(30) DEF Goes
<1>4. CASE Write(t)
  <2>1. Leaves(t)
    BY <1>4, WriteLeaves
  <2>2. PICK l, c, fails, goesOn, kp, counts : Wrote(t, l, c, fails, goesOn, kp, counts)
    BY <1>4, WroteIs
  <2>3. /\ l = loc[t] /\ c = coder[t]
        /\ l.write => WriteOut(c.data, fails)
        /\ ~ l.write => out' = out
        /\ failed' = failed \cup Kind(fails, "write")
    BY <2>2 DEF Wrote
  <2>4. pc[t] = "write" /\ input' = input /\ result' = result
    BY <2>1 DEF Leaves
  <2>5. main = "mt"
    BY <2>4, WriterFinds
  <2>6. Len(out) <= Len(out')
    <3>1. CASE l.write
      <4>1. WriteAt(input, Len(out), inProcessed, wasInterrupted, failed, l, c)
        BY <3>1, <2>3, <2>4 DEF Content, Writes
      <4>2. PICK m \in Nat : c.data = Units(Len(out), m)
        BY <4>1 DEF WriteAt
      <4>3. c.data \in Seq(Nat)
        BY <4>2, <1>1, UnitsAre
      <4> QED
        BY <4>3, <3>1, <2>3, <1>1, WriteAdds
    <3>2. CASE ~ l.write
      BY <3>2, <2>3, <1>1
    <3> QED
      BY <3>1, <3>2
  <2>7. failed \subseteq failed'
    BY <2>3
  <2> QED
    BY <2>4, <2>5, <2>6, <2>7, <1>1 DEF Goes
<1> QED
  BY <1>2, <1>3, <1>4 DEF ThreadStep

\* The caller begins a call, and takes over from the ring
\* (Lzma2DecMt.c:802-860, 918-943).
LEMMA CallerGoes ==
  ASSUME Content, Start \/ Return
  PROVE  Goes
<1>1. main \in {"start", "mt"} /\ input' = input /\ result' = result /\ out' = out
  BY DEF Start, Return
<1>2. failed \subseteq failed'
  <2>1. CASE Start
    BY <2>1 DEF Start, faultVars
  <2>2. CASE Return
    BY <2>2 DEF Return, faultVars, Fatal
  <2> QED
    BY <2>1, <2>2
<1>3. out \in Seq(Nat) /\ result = "none"
  BY <1>1 DEF Content, DataTypes, Failures
<1> QED
  BY <1>1, <1>2, <1>3 DEF Goes

\* The parts of Content that say what the output is.
LEMMA OutputIs ==
  ASSUME Sizes, Content
  PROVE  \E m : /\ InputIs(input) /\ IdealTo(input, m) /\ m \in Nat /\ IdealOf(input).out = Units(0, m)
                /\ out = Units(0, Len(out)) /\ Sound(input, Len(out)) /\ Len(out) \in Nat /\ Len(out) <= m
<1>1. InputIs(input)
  BY InputTypes DEF Sizes, InputIs
<1>2. PICK m \in 0 .. Len(input.kind) : IdealTo(input, m)
  BY <1>1, IdealIs
<1>3. out = Units(0, Len(out)) /\ Sound(input, Len(out))
  BY DEF Content, Output
<1>4. Len(out) \in Nat /\ Len(out) <= m
  BY <1>1, <1>2, <1>3, IdealSound
<1>5. m \in Nat /\ IdealOf(input).out = Units(0, m)
  BY <1>1, <1>2, IdealFacts
<1> QED
  BY <1>1, <1>2, <1>3, <1>4, <1>5

\* Fewer units are a beginning of more.
LEMMA UnitsPrefix ==
  ASSUME NEW j \in Nat, NEW k \in Nat, j <= k
  PROVE  Decoder!IsPrefix(Units(0, j), Units(0, k))
<1>1. 0 \in Nat /\ j \in 0 .. k /\ j \in 0 .. j
  OBVIOUS
<1>2. SubSeq(Units(0, k), 1, j) = Units(0, j) /\ SubSeq(Units(0, j), 1, j) = Units(0, j)
  BY <1>1, UnitsHold
<1>3. Len(Units(0, j)) = j /\ Len(Units(0, k)) = k
  BY <1>1, UnitsAre
<1> QED
  BY <1>2, <1>3 DEF Decoder!IsPrefix

\* A step of a call adds to the output what the stream has there, or does
\* nothing that the caller sees.
LEMMA GoesEmits ==
  ASSUME Sizes, Content, Sizes', Content', Goes
  PROVE  Decoder!Emit
<1>1. /\ input' = input /\ result' = result /\ result = "none"
      /\ Len(out) <= Len(out') /\ failed \subseteq failed'
  BY DEF Goes
<1>2. PICK m : /\ IdealTo(input, m) /\ m \in Nat /\ IdealOf(input).out = Units(0, m)
               /\ InputIs(input) /\ out = Units(0, Len(out)) /\ Len(out) \in Nat
  BY OutputIs
<1>3. out' = Units(0, Len(out')) /\ Sound(input, Len(out'))
  BY <1>1 DEF Content, Output
<1>4. Len(out') \in Nat /\ Len(out') <= m
  BY <1>2, <1>3, IdealSound
<1>5. PICK j, k \in Nat : j = Len(out) /\ k = Len(out') /\ j <= k /\ k <= m
  BY <1>1, <1>2, <1>4
<1>6. Decoder!IsPrefix(Units(0, j), Units(0, k)) /\ Decoder!IsPrefix(Units(0, k), Units(0, m))
  BY <1>2, <1>5, UnitsPrefix
<1>7. Decoder!IsPrefix(out, out') /\ Decoder!IsPrefix(out', IdealOf(input).out)
  BY <1>2, <1>3, <1>5, <1>6
<1> QED
  BY <1>1, <1>7 DEF Decoder!Emit, IdealOf

\* With nothing failed the end of a call comes where decoding the whole stream
\* ends (Lzma2DecMt.c:950-979).
LEMMA EndComplete ==
  ASSUME Sizes, Content, main = "result", failed = {}
  PROVE  \E m, o, len, ip \in Nat :
           /\ IdealTo(input, m) /\ o = input.outSize /\ len = Len(input.kind) /\ ip = inProcessed
           /\ IdealOf(input).out = out /\ Len(out) = m /\ m <= o /\ m <= len
           /\ \/ m < len /\ input.kind[m + 1] = "end" /\ ip = m + 1
              \/ ~ input.finish /\ m = o
              \/ m < len /\ ip = m /\ (m < o \/ (input.finish /\ m = o /\ input.kind[m + 1] # "end"))
              \/ m = len /\ ip = m
<1>1. PICK m : /\ InputIs(input) /\ IdealTo(input, m) /\ m \in Nat /\ IdealOf(input).out = Units(0, m)
               /\ out = Units(0, Len(out)) /\ Sound(input, Len(out))
  BY OutputIs
<1>2. Complete(input, Len(out), inProcessed)
  BY DEF Content, Outcome, Settled
<1>3. m = Len(out)
  BY <1>1, <1>2, IdealComplete
<1>4. PICK o, len, ip \in Nat : o = input.outSize /\ len = Len(input.kind) /\ ip = inProcessed
  BY <1>1 DEF InputIs, Sizes, WriterTypes
<1>5. m <= o /\ m <= len
  BY <1>1, <1>3, <1>4 DEF Sound
<1>6. \/ m < len /\ input.kind[m + 1] = "end" /\ ip = m + 1
      \/ ~ input.finish /\ m = o
      \/ m < len /\ ip = m /\ (m < o \/ (input.finish /\ m = o /\ input.kind[m + 1] # "end"))
      \/ m = len /\ ip = m
  BY <1>2, <1>3, <1>4 DEF Complete, Stuck
<1>7. IdealOf(input).out = out
  BY <1>1, <1>3
<1> QED
  BY <1>1, <1>3, <1>4, <1>5, <1>6, <1>7

\* What the end of a call returns (Lzma2DecMt.c:950-979, Lzma2Decoder.cpp:84-170).
LEMMA FinishDecodes ==
  ASSUME Sizes, Content, Finish
  PROVE  Decoder!Succeed \/ Decoder!GiveUp
<1>1. main = "result" /\ input' = input /\ out' = out /\ failed' = failed
  BY DEF Finish, faultVars
<1>2. PICK res : res = IF sres \in {"ok", "eof"} /\ readRes # "ok" THEN readRes ELSE sres
  OBVIOUS
<1>3. PICK bad \in BOOLEAN :
        bad <=> \/ failed \cap {"progress", "write"} # {}
                \/ res # "ok"
                \/ input.finish /\ (Len(input.kind) # inProcessed \/ input.outSize # Len(out))
  OBVIOUS
<1>4. result' = IF bad THEN "error" ELSE "ok"
  BY <1>2, <1>3 DEF Finish
<1>5. /\ result = "none" /\ readRes \in {"ok", "read"} /\ (readRes = "read" <=> "read" \in failed)
      /\ failed \subseteq {"read", "write", "progress", "last"}
      /\ sres \in {"data", "eof"} => failed # {} \/ VerdictOf(input) # "good"
      /\ sres \notin {"ok", "data", "eof"} => failed # {}
      /\ "last" \in failed => sres \notin {"ok", "eof"}
  BY <1>1 DEF Content, Failures, Outcome, VerdictOf, Sizes, ReaderTypes
<1>6. InputIs(input)
  BY InputTypes DEF Sizes, InputIs
<1>7. ASSUME failed = {}
      PROVE  /\ out = IdealOf(input).out
             /\ ~ bad /\ input.finish => VerdictOf(input) # "bad"
             /\ bad => VerdictOf(input) # "good"
  <2>1. PICK m, o, len, ip \in Nat :
           /\ IdealTo(input, m) /\ o = input.outSize /\ len = Len(input.kind) /\ ip = inProcessed
           /\ IdealOf(input).out = out /\ Len(out) = m /\ m <= o /\ m <= len
           /\ \/ m < len /\ input.kind[m + 1] = "end" /\ ip = m + 1
              \/ ~ input.finish /\ m = o
              \/ m < len /\ ip = m /\ (m < o \/ (input.finish /\ m = o /\ input.kind[m + 1] # "end"))
              \/ m = len /\ ip = m
    BY <1>1, <1>7, EndComplete
  <2>2. /\ VerdictOf(input) \in {"good", "unmarked", "bad"}
        /\ VerdictOf(input) = "good" =>
              \/ input.finish /\ m + 1 = len /\ m = o /\ input.kind[m + 1] = "end"
              \/ ~ input.finish
        /\ /\ input.finish /\ m = o
           /\ m = len \/ (m + 1 = len /\ input.kind[m + 1] = "end")
           => VerdictOf(input) # "bad"
    BY <2>1, <1>6, VerdictIs
  <2>3. readRes = "ok" /\ res = sres
    BY <1>2, <1>5, <1>7
  <2>4. ~ bad /\ input.finish => VerdictOf(input) # "bad"
    <3> SUFFICES ASSUME ~ bad, input.finish
                 PROVE  VerdictOf(input) # "bad"
      OBVIOUS
    <3>1. ip = len /\ m = o
      BY <2>1, <1>3
    <3> QED
      BY <3>1, <2>1, <2>2
  <2>5. bad => VerdictOf(input) # "good"
    <3> SUFFICES ASSUME bad
                 PROVE  VerdictOf(input) # "good"
      OBVIOUS
    <3>1. CASE res # "ok"
      BY <3>1, <2>3, <1>5, <1>7
    <3>2. CASE input.finish /\ (len # ip \/ o # m)
      BY <3>2, <2>1, <2>2
    <3> QED
      BY <3>1, <3>2, <2>1, <1>3, <1>7
  <2> QED
    BY <2>1, <2>4, <2>5
<1>8. VerdictOf(input) \in {"good", "unmarked", "bad"}
  BY <1>6, IdealIs, VerdictIs
<1>9. CASE bad
  <2>1. failed # {} \/ VerdictOf(input) # "good"
    BY <1>7, <1>9
  <2> QED
    BY <2>1, <1>1, <1>4, <1>5, <1>9 DEF Decoder!GiveUp, VerdictOf
<1>10. CASE ~ bad
  <2>1. failed = {}
    <3>1. res = "ok" /\ "progress" \notin failed /\ "write" \notin failed
      BY <1>3, <1>10
    <3>2. readRes = "ok" /\ sres = "ok"
      BY <3>1, <1>2, <1>5
    <3> QED
      BY <3>1, <3>2, <1>5
  <2>2. /\ out = IdealOf(input).out
        /\ (VerdictOf(input) # "bad") \/ (VerdictOf(input) = "bad" /\ ~ input.finish)
    BY <2>1, <1>7, <1>10
  <2> QED
    BY <2>2, <1>1, <1>4, <1>5, <1>10 DEF Decoder!Succeed, VerdictOf, IdealOf
<1> QED
  BY <1>9, <1>10

\* The same decoder gets another stream.
LEMMA NextCallDecodes ==
  ASSUME Sizes, Content, NextCall
  PROVE  Decoder!Again
<1>1. main = "done" /\ result' = "none" /\ out' = <<>> /\ failed' = {}
  BY DEF NextCall
<1>2. result \in {"ok", "error"}
  BY <1>1 DEF Content, Failures, Sizes, CallerTypes
<1> QED
  BY <1>1, <1>2 DEF Decoder!Again

\* The multi-thread decoder, whatever its threads do in which order and whatever
\* fails, with a single thread behind it, is a decoder of the stream: at every
\* moment the output is a beginning of what the stream decodes to, success means
\* all of it, and an error that the stream is bad or that reading, writing, the
\* caller's progress callback or the last resort failed (Lzma2DecMt.c:802-979,
\* Lzma2Decoder.cpp:84-170), for every number of threads, size of the buffers,
\* stream and sequence of failures.
THEOREM ImplementsADecoder == Spec => ImplementsDecoder
<1>1. Init => Decoder!DInit
  BY DEF Init, Decoder!DInit
<1>2. Rights /\ Sizes /\ Content /\ Sizes' /\ Content' /\ [Next]_vars => [Decoder!DNext]_(Decoder!dvars)
  <2> SUFFICES ASSUME Rights, Sizes, Content, Sizes', Content', [Next]_vars
               PROVE  Decoder!DNext \/ UNCHANGED Decoder!dvars
    OBVIOUS
  <2>1. CASE Start \/ Return
    BY <2>1, CallerGoes, GoesEmits DEF Decoder!DNext
  <2>2. CASE ReadFilled \/ ReadCross \/ ReadNext
    BY <2>2, SingleGoes, GoesEmits DEF Decoder!DNext
  <2>3. CASE Finish
    BY <2>3, FinishDecodes DEF Decoder!DNext
  <2>4. CASE NextCall
    BY <2>4, NextCallDecodes DEF Decoder!DNext
  <2>5. ASSUME NEW t \in Thread, ThreadStep(t)
        PROVE  Decoder!DNext
    BY <2>5, RingGoes, GoesEmits DEF Decoder!DNext
  <2>6. CASE UNCHANGED vars
    BY <2>6 DEF vars, callerVars, faultVars, Decoder!dvars
  <2> QED
    BY <2>1, <2>2, <2>3, <2>4, <2>5, <2>6 DEF Next, MainStep, Terminating
<1> QED
  BY <1>1, <1>2, RightsInvariant, SizesInvariant, ContentInvariant, PTL
  DEF Spec, ImplementsDecoder, Decoder!DSpec
=============================================================================
