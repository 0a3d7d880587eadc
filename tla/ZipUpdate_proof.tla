-------------------------- MODULE ZipUpdate_proof --------------------------
(***************************************************************************)
(* For every number of items, threads, blocks and methods and whatever     *)
(* fails: what Update2 and its threads take for impossible is impossible,  *)
(* no block of the pool is lost, and the archive is right at every moment. *)
(*                                                                         *)
(* IInv is about who has which item, Pool about who has which block, AInv  *)
(* about what file and blocks hold.  A step keeps IInv; it keeps Pool if   *)
(* IInv held, and AInv if IInv held.                                       *)
(***************************************************************************)
EXTENDS ZipUpdate, FiniteSetTheorems, SequenceTheorems, WellFoundedInduction, TLAPS

-----------------------------------------------------------------------------
(* The inductive invariant. *)

\* Types; of lengths, positions and data only that they are in some set V.
InfoType(V) ==
  [free : BOOLEAN, exit : BOOLEAN, compress : BOOLEAN, item : Nat, seq : BOOLEAN, pass : Nat,
   n : Nat, size : Nat, result : Results, pack : V]
StreamType(V) ==
  [blocks : Nat, mem : V, total : Nat, cur : Nat, real : BOOLEAN, unlocked : BOOLEAN,
   toReal : BOOLEAN, stop : BOOLEAN, offset : V]
RefType(V) ==
  [skip : BOOLEAN, finished : BOOLEAN, seq : BOOLEAN, pack : V, blocks : Nat, mem : V, total : Nat]

MainTypes ==
  /\ items \in Seq(Kinds) /\ main \in MainPc
  /\ itemIndex \in 1 .. NumItems + 1 /\ mtItemIndex \in 1 .. NumItems + 1
  /\ threadIndices \in Seq(Thread) /\ ready \in Seq(Thread)
  /\ readySem \in Nat /\ poolSem \in Nat /\ freeBlocks \in Nat
  /\ hres \in {"ok", "write"} /\ pc \in [Thread -> ThreadPc]
  /\ main \in {"stop", "join"} => stopping \in Thread
Records(V) ==
  /\ <<>> \in V /\ 0 \in V
  /\ info \in [Thread -> InfoType(V)]
  /\ stream \in [Thread -> StreamType(V)]
  /\ refs \in [1 .. NumItems -> RefType(V)]
Types == MainTypes /\ \E V : Records(V)

\* Every stream and every finished item has a block for each unit.
Full == /\ \A t \in Thread : HasAll(stream[t])
        /\ \A i \in 1 .. NumItems : HasAll(refs[i])

\* A semaphore counts what its list has, but for who is between the two.
AtPc(l) == {t \in Thread : pc[t] = l}
Counted == /\ readySem + Cardinality(AtPc("post")) = Len(ready)
           /\ poolSem + Cardinality(AtPc("alloc")) = freeBlocks

\* No update or thread has met the impossible.
Clean == result # "internal" /\ \A t \in Thread : info[t].result # "internal"

Live == main \in {"loop", "wait"}

In(s) == {s[k] : k \in 1 .. Len(s)}
Distinct(s) == \A j, k \in 1 .. Len(s) : s[j] = s[k] => j = k

\* While main works, the threads with a file are those in threadIndices, each has
\* its file to start with, works on it, or is in the list of those that are ready.
Placed(t) ==
  /\ info[t].free <=> t \notin In(threadIndices)
  /\ info[t].compress => ~ info[t].free
  /\ pc[t] \in {"code", "alloc", "release"} => ~ info[t].free /\ ~ info[t].compress
  /\ t \in In(ready) => ~ info[t].free /\ ~ info[t].compress /\ pc[t] \in {"post", "idle"}
Threads ==
  Live => Distinct(threadIndices) /\ Distinct(ready) /\ \A t \in Thread : Placed(t)

\* Files started and not finished.
Open(i) == items[i] = "file" /\ ~ refs[i].skip /\ ~ refs[i].finished
Item(k) == info[threadIndices[k]].item

\* They are those of the threads in threadIndices, in the order of the items.
Items ==
  Live =>
    /\ \A k \in 1 .. Len(threadIndices) :
         /\ Item(k) \in itemIndex .. mtItemIndex - 1 /\ Open(Item(k))
         /\ info[threadIndices[k]].seq = refs[Item(k)].seq
    /\ \A j, k \in 1 .. Len(threadIndices) : j < k => Item(j) < Item(k)
    /\ \A i \in itemIndex .. mtItemIndex - 1 :
         Open(i) => \E k \in 1 .. Len(threadIndices) : Item(k) = i
    /\ \A i \in mtItemIndex .. NumItems : ~ refs[i].skip /\ ~ refs[i].finished
    /\ itemIndex <= mtItemIndex
    /\ main = "wait" => itemIndex < mtItemIndex /\ Open(itemIndex)

IInv == Types /\ Full /\ Counted /\ Clean /\ Threads /\ Items

-----------------------------------------------------------------------------
(* Numbers and sequences. *)

\* A set of numbers that is not empty has a least one.
LEMMA Least ==
  ASSUME NEW S, S \subseteq Nat, S # {}
  PROVE  \E m \in S : \A n \in S : m <= n
<1>1. PICK R : IsWellFoundedOn(R, Nat) /\ \A x, y \in Nat : <<x, y>> \in R <=> x < y
  <2>1. \A x, y \in Nat : <<x, y>> \in OpToRel(<, Nat) <=> x < y
    BY Zenon DEF OpToRel
  <2>2. QED
    BY <2>1, NatLessThanWellFounded, Zenon
<1>2. IsWellFoundedOn(R, Nat)
  BY <1>1
<1>3. \E m \in S : \A n \in S : ~ (<<n, m>> \in R)
  BY <1>2, WFMin, Zenon
<1>4. PICK m \in S : \A n \in S : ~ (<<n, m>> \in R)
  BY <1>3
<1>5. \A n \in S : ~ (n < m) /\ n \in Nat /\ m \in Nat
  BY <1>1, <1>4
<1> QED
  BY <1>5

LEMMA MaxOfTwo ==
  ASSUME NEW a \in Nat, NEW b \in Nat
  PROVE  Max({a, b}) = IF a >= b THEN a ELSE b
<1>1. \E x \in {a, b} : \A y \in {a, b} : x >= y
  OBVIOUS
<1>2. Max({a, b}) \in {a, b} /\ \A y \in {a, b} : Max({a, b}) >= y
  BY <1>1 DEF Max
<1> QED
  BY <1>2

LEMMA LeastIsMin ==
  ASSUME NEW S, S \subseteq Nat, S # {}
  PROVE  Min(S) \in S
<1>1. \E m \in S : \A n \in S : m <= n
  BY Least
<1> QED
  BY <1>1 DEF Min

\* The blocks that Detach keeps are enough for all that was written
\* (MemBlocks.cpp:202-213).
LEMMA KeptIsEnough ==
  ASSUME NEW s, s.blocks \in Nat, s.total \in Nat, HasAll(s)
  PROVE  Kept(s) \in 0 .. s.blocks /\ s.total <= Kept(s) * BlockSize
<1> DEFINE S == {n \in Nat : s.total <= n * BlockSize}
<1>0. BlockSize \in Nat /\ BlockSize > 0
  BY ZipUpdateAssumption
<1>1. s.blocks \in S
  BY DEF HasAll
<1>2. PICK m \in S : \A n \in S : m <= n
  BY <1>1, Least
<1>3. {b \in 0 .. s.blocks - 1 : b * BlockSize < s.total} = 0 .. m - 1
  <2>1. ASSUME NEW b \in Nat, b < m PROVE b * BlockSize < s.total
    <3>1. b \notin S
      BY <1>2, <2>1
    <3>2. b * BlockSize \in Nat
      BY <1>0, <2>1
    <3> QED
      BY <3>1, <3>2
  <2>2. ASSUME NEW b \in Nat, b >= m PROVE ~ (b * BlockSize < s.total)
    <3>1. PICK d \in Nat : b = m + d
      <4>1. b - m \in Nat /\ b = m + (b - m)
        BY <2>2
      <4> QED
        BY <4>1
    <3>2. b * BlockSize = m * BlockSize + d * BlockSize
      BY <1>0, <3>1
    <3>3. d * BlockSize \in Nat /\ m * BlockSize \in Nat /\ s.total <= m * BlockSize
      BY <1>0, <3>1
    <3> QED
      BY <3>2, <3>3
  <2>3. m <= s.blocks /\ m \in Nat
    BY <1>1, <1>2
  <2> QED
    BY <2>1, <2>2, <2>3
<1>4. Kept(s) = m
  <2>1. m \in Nat
    OBVIOUS
  <2>2. Cardinality(0 .. m - 1) = IF 0 > m - 1 THEN 0 ELSE m - 1 - 0 + 1
    BY <2>1, FS_Interval
  <2>3. Kept(s) = Cardinality(0 .. m - 1)
    BY <1>3, Zenon DEF Kept
  <2> QED
    BY <2>1, <2>2, <2>3
<1>5. s.total <= m * BlockSize /\ m \in 0 .. s.blocks
  BY <1>1, <1>2
<1> QED
  BY <1>4, <1>5

\* Where a thread is in threadIndices.
LEMMA AtFacts ==
  ASSUME threadIndices \in Seq(Thread), NEW t
  PROVE  /\ t \in In(threadIndices) =>
              At(t) \in 1 .. Len(threadIndices) /\ threadIndices[At(t)] = t
         /\ At(t) # 0 => t \in In(threadIndices)
         /\ At(t) \in Nat
<1> DEFINE I == {i \in 1 .. Len(threadIndices) : threadIndices[i] = t}
<1>1. At(t) = IF I # {} THEN Min(I) ELSE 0
  BY DEF At, SelectInSeq
<1>2. I # {} => Min(I) \in I
  BY LeastIsMin, SMTT(30)
<1>3. t \in In(threadIndices) <=> I # {}
  BY DEF In
<1> QED
  BY <1>1, <1>2, <1>3

\* threadIndices without one of them.
LEMMA RemovedFacts ==
  ASSUME threadIndices \in Seq(Thread), NEW t, t \in In(threadIndices)
  PROVE  /\ Removed(t) \in Seq(Thread) /\ Len(Removed(t)) = Len(threadIndices) - 1
         /\ \A k \in 1 .. Len(threadIndices) - 1 :
              Removed(t)[k] = threadIndices[IF k < At(t) THEN k ELSE k + 1]
<1> DEFINE s == threadIndices
           a == At(t)
           p == SubSeq(s, 1, a - 1)
           q == SubSeq(s, a + 1, Len(s))
<1>1. a \in 1 .. Len(s) /\ Len(s) \in Nat
  BY AtFacts
<1>2. Removed(t) = p \o q
  BY DEF Removed, RemoveAt
<1>3. p \in Seq(Thread) /\ Len(p) = a - 1 /\ \A k \in 1 .. a - 1 : p[k] = s[k]
  BY <1>1
<1>4. q \in Seq(Thread) /\ Len(q) = Len(s) - a /\ \A k \in 1 .. Len(s) - a : q[k] = s[a + k]
  BY <1>1
<1>5. p \o q \in Seq(Thread) /\ Len(p \o q) = Len(s) - 1
  BY <1>1, <1>3, <1>4, SMTT(30)
<1>6. ASSUME NEW k \in 1 .. Len(s) - 1
      PROVE  (p \o q)[k] = s[IF k < a THEN k ELSE k + 1]
  <2>0. k \in Nat /\ a \in Nat /\ k \in 1 .. Len(p) + Len(q) /\ Len(p) = a - 1
    BY <1>1, <1>3, <1>4
  <2>1. (p \o q)[k] = IF k <= Len(p) THEN p[k] ELSE q[k - Len(p)]
    BY <1>3, <1>4, <2>0, ConcatProperties
  <2>2. CASE k < a
    <3>1. k <= Len(p) /\ k \in 1 .. a - 1
      BY <2>0, <2>2
    <3> QED
      BY <1>3, <2>1, <2>2, <3>1
  <2>3. CASE ~ (k < a)
    <3>1. ~ (k <= Len(p)) /\ k - (a - 1) \in 1 .. Len(s) - a /\ a + (k - (a - 1)) = k + 1
      BY <1>1, <2>0, <2>3
    <3>2. q[k - Len(p)] = s[k + 1]
      BY <1>4, <2>0, <3>1
    <3> QED
      BY <2>1, <2>3, <3>1, <3>2
  <2> QED
    BY <2>2, <2>3
<1> QED
  BY <1>2, <1>5, <1>6

LEMMA InFront ==
  ASSUME NEW t, NEW s \in Seq(Thread), t \in Thread
  PROVE  /\ In(<<t>> \o s) = {t} \cup In(s)
         /\ Distinct(s) /\ t \notin In(s) => Distinct(<<t>> \o s)
<1>1. /\ Len(<<t>> \o s) = Len(s) + 1 /\ Len(s) \in Nat /\ (<<t>> \o s)[1] = t
      /\ \A k \in 1 .. Len(s) : (<<t>> \o s)[k + 1] = s[k]
  OBVIOUS
<1> DEFINE c == <<t>> \o s
<1> HIDE DEF c
<1>2. /\ Len(c) = Len(s) + 1 /\ Len(s) \in Nat /\ c[1] = t
      /\ \A k \in 2 .. Len(c) : c[k] = s[k - 1] /\ k - 1 \in 1 .. Len(s)
      /\ \A k \in 1 .. Len(s) : c[k + 1] = s[k] /\ k + 1 \in 1 .. Len(c)
  <2>1. Len(c) = Len(s) + 1 /\ Len(s) \in Nat /\ c[1] = t
        /\ \A k \in 1 .. Len(s) : c[k + 1] = s[k]
    BY <1>1 DEF c
  <2>2. ASSUME NEW k \in 2 .. Len(c) PROVE c[k] = s[k - 1] /\ k - 1 \in 1 .. Len(s)
    <3>1. k - 1 \in 1 .. Len(s) /\ (k - 1) + 1 = k
      BY <2>1
    <3>2. c[(k - 1) + 1] = s[k - 1]
      BY <2>1, <3>1
    <3> QED
      BY <3>1, <3>2
  <2> QED
    BY <2>1, <2>2
<1>3. In(c) = {t} \cup In(s)
  <2>1. ASSUME NEW x \in In(c) PROVE x \in {t} \cup In(s)
    BY <1>2 DEF In
  <2>2. ASSUME NEW x \in {t} \cup In(s) PROVE x \in In(c)
    BY <1>2 DEF In
  <2> QED
    BY <2>1, <2>2
<1>4. ASSUME Distinct(s), t \notin In(s) PROVE Distinct(c)
  <2> SUFFICES ASSUME NEW j \in 1 .. Len(c), NEW k \in 1 .. Len(c), c[j] = c[k] PROVE j = k
    BY DEF Distinct
  <2>1. CASE j = 1 \/ k = 1
    BY <1>2, <1>4, <2>1 DEF In
  <2>2. CASE j # 1 /\ k # 1
    <3>0. j \in 2 .. Len(c) /\ k \in 2 .. Len(c)
      BY <1>2, <2>2
    <3>1. /\ c[j] = s[j - 1] /\ j - 1 \in 1 .. Len(s)
          /\ c[k] = s[k - 1] /\ k - 1 \in 1 .. Len(s)
      BY <1>2, <3>0
    <3>2. PICK a \in 1 .. Len(s), b \in 1 .. Len(s) : a = j - 1 /\ b = k - 1 /\ s[a] = s[b]
      BY <3>1
    <3>3. a = b
      BY <1>4, <3>2 DEF Distinct
    <3> QED
      BY <1>2, <3>0, <3>2, <3>3
  <2> QED
    BY <2>1, <2>2
<1> QED
  BY <1>3, <1>4 DEF c

LEMMA ThreadsFinite == IsFiniteSet(Thread) /\ Cardinality(Thread) = NumThreads
<1>1. NumThreads \in Nat /\ NumThreads > 0
  BY ZipUpdateAssumption
<1> QED
  BY <1>1, FS_Interval DEF Thread

\* How a step of one thread changes who is where.
LEMMA AtMoves ==
  ASSUME pc \in [Thread -> ThreadPc], NEW t \in Thread, NEW l, NEW k \in ThreadPc,
         pc' = [pc EXCEPT ![t] = k]
  PROVE  /\ Cardinality(AtPc(l)) \in Nat
         /\ Cardinality(AtPc(l))' = Cardinality(AtPc(l)) + (IF k = l THEN 1 ELSE 0)
                                     - (IF pc[t] = l THEN 1 ELSE 0)
<1>1. IsFiniteSet(AtPc(l)) /\ Cardinality(AtPc(l)) \in Nat
  BY ThreadsFinite, FS_Subset, FS_CardinalityType DEF AtPc
<1>2. CASE k = l /\ pc[t] # l
  <2>1. AtPc(l)' = AtPc(l) \cup {t} /\ t \notin AtPc(l)
    BY <1>2 DEF AtPc
  <2>2. Cardinality(AtPc(l) \cup {t}) = Cardinality(AtPc(l)) + 1
    BY <1>1, <2>1, FS_AddElement
  <2> QED
    BY <1>1, <1>2, <2>1, <2>2
<1>3. CASE k # l /\ pc[t] = l
  <2>1. AtPc(l)' = AtPc(l) \ {t} /\ t \in AtPc(l)
    BY <1>3 DEF AtPc
  <2> QED
    BY <1>1, <1>3, <2>1, FS_RemoveElement, SMTT(30)
<1>4. CASE k = l <=> pc[t] = l
  <2>1. AtPc(l)' = AtPc(l)
    BY <1>4 DEF AtPc
  <2> QED
    BY <1>1, <1>4, <2>1
<1> QED
  BY <1>2, <1>3, <1>4

-----------------------------------------------------------------------------
(* The initial states. *)

LEMMA InitInv == Init => IInv
<1> SUFFICES ASSUME Init PROVE IInv
  OBVIOUS
<1>0. /\ NumThreads \in Nat /\ NumThreads > 0 /\ BlockSize \in Nat
      /\ pool \in Nat /\ items \in Seq(Kinds) /\ NumItems \in Nat
      /\ DOMAIN items = 1 .. NumItems
  BY ZipUpdateAssumption DEF Init, NumItems
<1>1. Types
  <2>1. MainTypes
    BY <1>0 DEF Init, MainTypes, MainPc, ThreadPc
  <2>2. Records({<<>>, 0})
    BY <1>0 DEF Init, Records, InfoType, StreamType, RefType, NoInfo, NoStream, NoRef, Results, None
  <2> QED
    BY <2>1, <2>2, Zenon DEF Types
<1>2. Full
  BY <1>0 DEF Init, Full, HasAll, NoStream, NoRef
<1>3. Counted
  <2>1. AtPc("post") = {} /\ AtPc("alloc") = {}
    BY DEF Init, AtPc
  <2>2. Cardinality(AtPc("post")) = 0 /\ Cardinality(AtPc("alloc")) = 0
    BY <2>1, FS_EmptySet, Zenon
  <2>3. ready = <<>> /\ readySem = 0 /\ freeBlocks = pool /\ poolSem = pool
    BY DEF Init
  <2> QED
    BY <1>0, <2>2, <2>3 DEF Counted
<1>4. Clean
  BY DEF Init, Clean, NoInfo
<1>5. Threads
  BY DEF Init, Threads, Placed, Distinct, In, NoInfo
<1>6. Items
  BY <1>0 DEF Init, Items, Item, Open, NoRef
<1> QED
  BY <1>1, <1>2, <1>3, <1>4, <1>5, <1>6 DEF IInv

-----------------------------------------------------------------------------
(* Types. *)

LEMMA Wider ==
  ASSUME NEW V, NEW W, Records(V), V \subseteq W
  PROVE  Records(W)
<1>1. InfoType(V) \subseteq InfoType(W) /\ StreamType(V) \subseteq StreamType(W)
      /\ RefType(V) \subseteq RefType(W)
  BY DEF InfoType, StreamType, RefType
<1> QED
  BY <1>1 DEF Records

\* What the operators on the records of threads, streams and items do.
LEMMA OnPassFacts ==
  ASSUME NEW V, NEW i \in InfoType(V), NEW n, NEW k
  PROVE  /\ OnPass(i, n, k).free = i.free /\ OnPass(i, n, k).item = i.item
         /\ OnPass(i, n, k).seq = i.seq /\ OnPass(i, n, k).compress = i.compress
         /\ OnPass(i, n, k).result = i.result
         /\ n \in Nat /\ k \in Nat => OnPass(i, n, k) \in InfoType(V)
  BY DEF InfoType, OnPass

LEMMA BegunFacts ==
  ASSUME NEW V, NEW i \in InfoType(V), NEW k
  PROVE  /\ Begun(i, k).free = i.free /\ Begun(i, k).item = i.item /\ Begun(i, k).seq = i.seq
         /\ Begun(i, k).compress = FALSE /\ Begun(i, k).result = i.result
         /\ k \in Nat => Begun(i, k) \in InfoType(V)
  BY DEF InfoType, OnPass, Begun

LEMMA ReturnedFacts ==
  ASSUME NEW V, NEW i \in InfoType(V), NEW r
  PROVE  /\ Returned(i, r).free = i.free /\ Returned(i, r).item = i.item
         /\ Returned(i, r).seq = i.seq /\ Returned(i, r).compress = i.compress
         /\ Returned(i, r).result = r
         /\ r \in Results => Returned(i, r) \in InfoType(V)
  BY DEF InfoType, Returned

LEMMA CodedFacts ==
  ASSUME NEW V, NEW i \in InfoType(V), NEW p
  PROVE  /\ Coded(i, p).free = i.free /\ Coded(i, p).item = i.item /\ Coded(i, p).seq = i.seq
         /\ Coded(i, p).compress = i.compress /\ Coded(i, p).result = "ok"
         /\ p \in V => Coded(i, p) \in InfoType(V)
  BY DEF InfoType, Returned, Coded, Results

LEMMA GivenFacts ==
  ASSUME NEW V, NEW i \in InfoType(V), NEW n \in Nat, NEW q \in BOOLEAN
  PROVE  /\ Given(i, n, q) \in InfoType(V) /\ Given(i, n, q).result = i.result
         /\ Given(i, n, q).item = n /\ Given(i, n, q).seq = q /\ ~ Given(i, n, q).free
  BY DEF InfoType, Given

LEMMA ExitingFacts ==
  ASSUME NEW V, NEW i \in InfoType(V)
  PROVE  Exiting(i).result = i.result /\ Exiting(i) \in InfoType(V)
  BY DEF InfoType, Exiting

LEMMA EmptiedFacts ==
  ASSUME NEW V, <<>> \in V, NEW s
  PROVE  /\ s \in StreamType(V) => Emptied(s) \in StreamType(V) /\ Emptied(s).total = 0
         /\ s \in RefType(V) =>
              /\ Emptied(s) \in RefType(V) /\ Emptied(s).total = 0
              /\ Emptied(s).skip = s.skip /\ Emptied(s).finished = s.finished
              /\ Emptied(s).seq = s.seq
  BY DEF StreamType, RefType, Emptied

LEMMA RewindFacts ==
  ASSUME NEW V, NEW s \in StreamType(V)
  PROVE  Rewind(s) \in StreamType(V) /\ Rewind(s).total = 0
  BY DEF StreamType, Rewind

LEMMA FreshFacts ==
  ASSUME NEW V, NEW s \in StreamType(V), 0 \in V, <<>> \in V
  PROVE  Fresh(s) \in StreamType(V) /\ Fresh(s).total = 0
  BY DEF StreamType, Fresh, NoStream

LEMMA ToRealFacts ==
  ASSUME NEW V, NEW s \in StreamType(V)
  PROVE  /\ ToReal(s) \in StreamType(V)
         /\ ToReal(s).blocks = s.blocks /\ ToReal(s).total = s.total
  BY DEF StreamType, ToReal

LEMMA UnlockedFacts ==
  ASSUME NEW V, NEW s \in StreamType(V), NEW p \in V
  PROVE  /\ Unlocked(s, p) \in StreamType(V)
         /\ Unlocked(s, p).blocks = s.blocks /\ Unlocked(s, p).total = s.total
  BY DEF StreamType, Unlocked

LEMMA DetachedFacts ==
  ASSUME NEW V, NEW r \in RefType(V), NEW s \in StreamType(V), NEW p \in V, HasAll(s),
         Detached(r, s, p).mem \in V
  PROVE  /\ Detached(r, s, p) \in RefType(V) /\ HasAll(Detached(r, s, p))
         /\ Detached(r, s, p).skip = r.skip /\ Detached(r, s, p).finished = TRUE
         /\ Detached(r, s, p).seq = r.seq
<1> DEFINE m == SubSeq(s.mem, 1, Min({Len(s.mem), Kept(s) * BlockSize}))
           d == Detached(r, s, p)
<1>1. s.blocks \in Nat /\ s.total \in Nat
  BY DEF StreamType
<1>2. Kept(s) \in Nat /\ s.total <= Kept(s) * BlockSize
  BY <1>1, KeptIsEnough
<1> HIDE DEF m
<1>3. d = [r EXCEPT !.finished = TRUE, !.pack = p, !.blocks = Kept(s), !.total = s.total, !.mem = m]
  BY DEF Detached, m
<1>4. /\ d.skip = r.skip /\ d.finished = TRUE /\ d.seq = r.seq /\ d.blocks = Kept(s)
      /\ d.total = s.total /\ d.mem = m
  BY <1>3 DEF RefType
<1>5. m \in V
  BY <1>4
<1>6. d \in RefType(V)
  BY <1>1, <1>2, <1>3, <1>5 DEF RefType
<1> QED
  BY <1>2, <1>4, <1>6 DEF HasAll

\* Write into a block: the block that is there is enough.
LEMMA RememberFacts ==
  ASSUME NEW V, NEW s \in StreamType(V), NEW u, Remember(s, u).mem \in V
  PROVE  /\ Remember(s, u) \in StreamType(V)
         /\ HasAll(s) /\ HasRoom(s) => HasAll(Remember(s, u))
<1> DEFINE m == Put(s.mem, s.cur, <<u>>)
           n == Max({s.total, s.cur + 1})
           d == Remember(s, u)
<1>1. s.blocks \in Nat /\ s.total \in Nat /\ s.cur \in Nat /\ BlockSize \in Nat
  BY ZipUpdateAssumption DEF StreamType
<1>2. n = IF s.total >= s.cur + 1 THEN s.total ELSE s.cur + 1
  BY <1>1, MaxOfTwo
<1> HIDE DEF m, n
<1>3. d = [s EXCEPT !.mem = m, !.cur = s.cur + 1, !.total = n]
  BY DEF Remember, m, n
<1>4. d.blocks = s.blocks /\ d.total = n /\ d.mem = m
  BY <1>3 DEF StreamType
<1>5. d \in StreamType(V)
  <2>1. m \in V /\ n \in Nat /\ s.cur + 1 \in Nat
    BY <1>1, <1>2, <1>4
  <2> DEFINE c == s.cur + 1
  <2> HIDE DEF c
  <2>2. d = [s EXCEPT !.mem = m, !.cur = c, !.total = n] /\ c \in Nat
    BY <1>3, <2>1 DEF c
  <2> QED
    BY <2>1, <2>2 DEF StreamType
<1>6. s.blocks * BlockSize \in Nat
  BY <1>1
<1> QED
  BY <1>1, <1>2, <1>4, <1>5, <1>6 DEF HasAll, HasRoom

-----------------------------------------------------------------------------
(* A step of a thread. *)

\* Who has passed the semaphore of the pool finds a block (MemBlocks.cpp:159).
LEMMA BlockIsThere ==
  ASSUME Types, Counted, NEW t \in Thread, pc[t] = "alloc"
  PROVE  freeBlocks > 0
<1>1. IsFiniteSet(AtPc("alloc")) /\ Cardinality(AtPc("alloc")) \in Nat
  BY ThreadsFinite, FS_Subset, FS_CardinalityType DEF AtPc
<1>2. Cardinality(AtPc("alloc")) # 0
  <2>1. AtPc("alloc") # {}
    BY DEF AtPc
  <2> QED
    BY <1>1, <2>1, FS_EmptySet
<1> QED
  BY <1>1, <1>2 DEF Counted, Types, MainTypes

\* What a thread does to its record.
LEMMA ThreadInfo ==
  ASSUME Types, Full, Counted, Clean, NEW t \in Thread, ThreadStep(t),
         NEW V, Records(V), PackSize(t) \in V
  PROVE  \E i \in InfoType(V) :
           /\ info' = [info EXCEPT ![t] = i] /\ i.result # "internal"
           /\ i.free = info[t].free /\ i.item = info[t].item /\ i.seq = info[t].seq
           /\ i.compress => info[t].compress
<1> DEFINE Same(j) == /\ j.free = info[t].free /\ j.item = info[t].item /\ j.seq = info[t].seq
                      /\ j.compress => info[t].compress
           Fine(j) == j \in InfoType(V) /\ j.result # "internal" /\ Same(j)
<1>0. info[t] \in InfoType(V) /\ info[t].result # "internal" /\ Sizes \subseteq Nat
      /\ stream[t] \in StreamType(V)
  BY ZipUpdateAssumption DEF Records, Clean
<1>1. info = [info EXCEPT ![t] = info[t]]
  BY DEF Records
<1>2. ASSUME NEW k \in Sizes PROVE Fine(Begun(info[t], k))
  BY <1>0, BegunFacts, ZenonT(40)
<1>3. ASSUME NEW k \in Sizes PROVE Fine(OnPass(info[t], info[t].pass + 1, k))
  <2>1. info[t].pass + 1 \in Nat /\ k \in Nat
    BY <1>0 DEF InfoType
  <2> QED
    BY <1>0, <2>1, OnPassFacts
<1>4. ASSUME NEW r \in {"write", "abort", "code"} PROVE Fine(Returned(info[t], r))
  <2>1. r \in Results /\ r # "internal"
    BY DEF Results
  <2> QED
    BY <1>0, <2>1, ReturnedFacts
<1>5. Fine(Coded(info[t], PackSize(t)))
  BY <1>0, CodedFacts
<1>6. Fine([info[t] EXCEPT !.n = @ + 1])
  <2>1. info[t].n + 1 \in Nat
    BY <1>0 DEF InfoType
  <2> QED
    BY <1>0, <2>1 DEF InfoType
<1>7. Fine([info[t] EXCEPT !.compress = FALSE])
  BY <1>0 DEF InfoType
<1>8. Fine(info[t])
  BY <1>0
<1>9. \E j : Fine(j) /\ info' = [info EXCEPT ![t] = j]
  <2> HIDE DEF Fine
  <2>1. ASSUME NEW r \in {"write", "abort", "code"}, Returns(t, r) PROVE <1>9
    BY <1>4, <2>1 DEF Returns
  <2>2. ASSUME Wrote(t) PROVE <1>9
    BY <1>6, <2>2 DEF Wrote
  <2>3. ASSUME info' = info PROVE <1>9
    BY <1>1, <1>8, <2>3, Zenon
  <2>4. CASE Begin(t)
    BY <1>2, <1>7, <2>4 DEF Begin
  <2>5. CASE NextPass(t)
    BY <1>3, <2>1, <2>5 DEF NextPass, NextMethod
  <2>6. CASE PassEnds(t)
    BY <1>5, <2>6 DEF PassEnds
  <2>7. CASE WaitReal(t)
    <3>1. HasAll(ToReal(stream[t]))
      BY <1>0, ToRealFacts DEF Full, HasAll
    <3> QED
      BY <2>1, <2>2, <2>7, <3>1 DEF WaitReal
  <2>8. CASE AllocateBlock(t)
    BY <2>3, <2>8, BlockIsThere DEF AllocateBlock, Types, MainTypes
  <2>9. CASE WriteBlock(t) \/ WriteReal(t) \/ WaitStop(t) \/ WaitBlock(t) \/ CodeFails(t)
             \/ ReleaseItem(t) \/ Post(t)
    BY <2>1, <2>2, <2>3, <2>9 DEF WriteBlock, WriteReal, WaitStop, WaitBlock, CodeFails,
                                  ReleaseItem, Post
  <2> QED
    BY <2>4, <2>5, <2>6, <2>7, <2>8, <2>9 DEF ThreadStep
<1> QED
  BY <1>9

\* What a thread does to its stream.
LEMMA ThreadStream ==
  ASSUME Types, Full, NEW t \in Thread, ThreadStep(t),
         NEW V, Records(V), stream'[t].mem \in V
  PROVE  \E s \in StreamType(V) : stream' = [stream EXCEPT ![t] = s] /\ HasAll(s)
<1> DEFINE Fine(s) == s \in StreamType(V) /\ HasAll(s)
           Goal(s) == Fine(s) /\ stream' = [stream EXCEPT ![t] = s]
<1>0. stream[t] \in StreamType(V) /\ stream \in [Thread -> StreamType(V)] /\ <<>> \in V
  BY DEF Records
<1>1. Fine(stream[t])
  BY <1>0 DEF Full
<1>2. Fine(ToReal(stream[t]))
  BY <1>0, <1>1, ToRealFacts DEF HasAll
<1>3. ASSUME NEW s \in StreamType(V) PROVE Fine(Emptied(s)) /\ Fine(Rewind(s))
  <2>1. /\ Emptied(s) \in StreamType(V) /\ Emptied(s).total = 0
        /\ Rewind(s) \in StreamType(V) /\ Rewind(s).total = 0
    BY <1>0, EmptiedFacts, RewindFacts
  <2>2. Emptied(s).blocks * BlockSize >= 0 /\ Rewind(s).blocks * BlockSize >= 0
    BY <2>1, ZipUpdateAssumption DEF StreamType
  <2> QED
    BY <2>1, <2>2 DEF HasAll
<1>4. Fine([stream[t] EXCEPT !.stop = FALSE])
  <2>1. [stream[t] EXCEPT !.stop = FALSE] \in StreamType(V)
        /\ [stream[t] EXCEPT !.stop = FALSE].total = stream[t].total
        /\ [stream[t] EXCEPT !.stop = FALSE].blocks = stream[t].blocks
    BY <1>0 DEF StreamType
  <2> QED
    BY <1>1, <2>1 DEF HasAll
<1>5. Fine([stream[t] EXCEPT !.blocks = @ + 1])
  <2> DEFINE d == [stream[t] EXCEPT !.blocks = @ + 1]
  <2>1. /\ stream[t].blocks \in Nat /\ stream[t].blocks + 1 \in Nat /\ stream[t].total \in Nat
        /\ BlockSize \in Nat
    BY <1>0, ZipUpdateAssumption DEF StreamType
  <2>2. d \in StreamType(V) /\ d.total = stream[t].total /\ d.blocks = stream[t].blocks + 1
    BY <1>0, <2>1 DEF StreamType
  <2>3. stream[t].total <= stream[t].blocks * BlockSize
    BY <1>1 DEF HasAll
  <2>4. (stream[t].blocks + 1) * BlockSize = stream[t].blocks * BlockSize + BlockSize
        /\ stream[t].blocks * BlockSize \in Nat
    BY <2>1
  <2>5. stream[t].total <= (stream[t].blocks + 1) * BlockSize
    BY <2>1, <2>3, <2>4
  <2> QED
    BY <2>2, <2>5 DEF HasAll
<1> HIDE DEF Fine
<1>6. \E s : Goal(s)
  <2>1. ASSUME stream' = stream PROVE \E s : Goal(s)
    <3>1. stream' = [stream EXCEPT ![t] = stream[t]]
      BY <1>0, <2>1
    <3> QED
      BY <1>1, <3>1
  <2>2. CASE WriteBlock(t)
    <3> DEFINE d == Remember(stream[t], Next1(t))
    <3>1. stream' = [stream EXCEPT ![t] = d] /\ HasRoom(stream[t])
      BY <2>2 DEF WriteBlock
    <3>2. d.mem \in V
      BY <1>0, <3>1
    <3>3. Fine(d)
      BY <1>0, <1>1, <3>1, <3>2, RememberFacts DEF Fine
    <3> QED
      BY <3>1, <3>3
  <2>3. CASE WaitStop(t)
    BY <1>4, <2>3 DEF WaitStop
  <2>4. CASE WaitReal(t)
    BY <1>0, <1>2, <1>3, <2>4 DEF WaitReal, Fine
  <2>5. CASE AllocateBlock(t)
    BY <1>5, <2>1, <2>5 DEF AllocateBlock
  <2>6. CASE NextPass(t)
    BY <1>0, <1>3, <2>1, <2>6 DEF NextPass
  <2>7. CASE Begin(t) \/ WriteReal(t) \/ WaitBlock(t) \/ PassEnds(t) \/ CodeFails(t)
             \/ ReleaseItem(t) \/ Post(t)
    BY <2>1, <2>7 DEF Begin, WriteReal, WaitBlock, PassEnds, CodeFails, ReleaseItem, Post
  <2> QED
    BY <2>2, <2>3, <2>4, <2>5, <2>6, <2>7 DEF ThreadStep
<1> QED
  BY <1>6 DEF Fine

\* How a thread moves, and what it does to the lists and their semaphores.
Moves(t, k) ==
  /\ pc' = [pc EXCEPT ![t] = k]
  /\ \/ /\ pc[t] = "code" /\ k \in {"code", "release"}
        /\ UNCHANGED <<ready, readySem>>
        /\ \E n \in Nat : freeBlocks' = freeBlocks + n /\ poolSem' = poolSem + n
     \/ /\ pc[t] = "idle" /\ k \in {"code", "ended"} /\ info[t].compress
        /\ UNCHANGED <<ready, readySem, freeBlocks, poolSem>>
     \/ /\ pc[t] = "code" /\ k = "alloc" /\ poolSem > 0 /\ poolSem' = poolSem - 1
        /\ UNCHANGED <<ready, readySem, freeBlocks>>
     \/ /\ pc[t] = "alloc" /\ k = "code" /\ freeBlocks > 0 /\ freeBlocks' = freeBlocks - 1
        /\ UNCHANGED <<ready, readySem, poolSem>>
     \/ /\ pc[t] = "release" /\ k = "post" /\ ready' = <<t>> \o ready
        /\ UNCHANGED <<readySem, freeBlocks, poolSem>>
     \/ /\ pc[t] = "post" /\ k = "idle" /\ readySem' = readySem + 1
        /\ UNCHANGED <<ready, freeBlocks, poolSem>>

LEMMA ThreadMoves ==
  ASSUME Types, Counted, NEW t \in Thread, ThreadStep(t)
  PROVE  (\E k \in ThreadPc : Moves(t, k)) /\ hres' \in {"ok", "write"}
<1>0. MainTypes /\ pc \in [Thread -> ThreadPc] /\ hres \in {"ok", "write"}
  BY DEF Types, MainTypes
<1>1. freeBlocks \in Nat /\ poolSem \in Nat /\ freeBlocks = freeBlocks + 0 /\ poolSem = poolSem + 0
  BY <1>0 DEF MainTypes
<1>2. PICK V : Records(V)
  BY DEF Types
<1>3. stream[t].blocks \in Nat /\ ToReal(stream[t]).blocks \in Nat
  <2>1. stream[t] \in StreamType(V) /\ ToReal(stream[t]) \in StreamType(V)
    BY <1>2, ToRealFacts DEF Records
  <2> QED
    BY <2>1 DEF StreamType
<1>4. hres' \in {"ok", "write"}
  BY <1>0 DEF ThreadStep, Begin, WriteBlock, WriteReal, WaitStop, WaitReal, WaitBlock,
     AllocateBlock, PassEnds, NextPass, CodeFails, ReleaseItem, Post, WriteAt, WriteFails, archiveVars
<1>5. pc = [pc EXCEPT ![t] = pc[t]]
  BY <1>0
<1>6. \E k \in ThreadPc : Moves(t, k)
  <2> USE DEF ThreadPc, Moves, semVars, poolVars
  <2>1. ASSUME pc[t] = "code", pc' = pc \/ pc' = [pc EXCEPT ![t] = "release"], UNCHANGED semVars,
               NEW n \in Nat, freeBlocks' = freeBlocks + n, poolSem' = poolSem + n
        PROVE  \E k \in ThreadPc : Moves(t, k)
    BY <1>5, <2>1
  <2>2. ASSUME pc[t] = "code", pc' = pc \/ pc' = [pc EXCEPT ![t] = "release"],
               UNCHANGED semVars, UNCHANGED poolVars
        PROVE  \E k \in ThreadPc : Moves(t, k)
    BY <1>1, <2>1, <2>2
  <2>3. CASE Begin(t)
    BY <2>3 DEF Begin, Goto
  <2>4. CASE WriteBlock(t) \/ WriteReal(t) \/ WaitStop(t)
    BY <2>2, <2>4 DEF WriteBlock, WriteReal, WaitStop, MustWait, Coding, Wrote, Returns, Goto
  <2>5. CASE PassEnds(t) \/ NextPass(t) \/ CodeFails(t)
    BY <2>2, <2>5 DEF PassEnds, NextPass, CodeFails, AtEnd, Returns, Goto
  <2>6. CASE WaitReal(t)
    <3>1. pc[t] = "code" /\ (pc' = pc \/ pc' = [pc EXCEPT ![t] = "release"]) /\ UNCHANGED semVars
      BY <2>6 DEF WaitReal, MustWait, Coding, Wrote, Returns, Goto
    <3>2. UNCHANGED poolVars \/ FreeTo(ToReal(stream[t]).blocks)
      BY <2>6 DEF WaitReal
    <3> QED
      BY <1>3, <2>1, <2>2, <3>1, <3>2 DEF FreeTo
  <2>7. CASE WaitBlock(t)
    BY <2>7 DEF WaitBlock, MustWait, Coding, Goto
  <2>8. CASE AllocateBlock(t)
    <3>1. freeBlocks > 0
      BY <2>8, BlockIsThere DEF AllocateBlock
    <3> QED
      BY <1>1, <2>8, <3>1 DEF AllocateBlock, Goto
  <2>9. CASE ReleaseItem(t) \/ Post(t)
    BY <2>9 DEF ReleaseItem, Post, Goto
  <2> QED
    BY <2>3, <2>4, <2>5, <2>6, <2>7, <2>8, <2>9 DEF ThreadStep
<1> QED
  BY <1>4, <1>6

\* A thread that starts has taken its event.
LEMMA ThreadBegins ==
  ASSUME Types, NEW t \in Thread, ThreadStep(t), pc[t] = "idle"
  PROVE  info'[t].compress = FALSE
<1>1. PICK V : Records(V)
  BY DEF Types
<1>2. info \in [Thread -> InfoType(V)]
  BY <1>1 DEF Records
<1>3. Begin(t)
  BY DEF ThreadStep, WriteBlock, WriteReal, WaitStop, WaitReal, WaitBlock, AllocateBlock, PassEnds,
         NextPass, CodeFails, ReleaseItem, Post, MustWait, Coding, AtEnd
<1>4. CASE info' = [info EXCEPT ![t].compress = FALSE]
  BY <1>2, <1>4 DEF InfoType
<1>5. ASSUME NEW k \in Sizes, info' = [info EXCEPT ![t] = Begun(info[t], k)]
      PROVE  info'[t].compress = FALSE
  <2>1. info[t] \in InfoType(V) /\ info'[t] = Begun(info[t], k)
    BY <1>2, <1>5
  <2>2. Begun(info[t], k).compress = FALSE
    BY <2>1, BegunFacts, Zenon
  <2> QED
    BY <2>1, <2>2, Zenon
<1> QED
  BY <1>3, <1>4, <1>5 DEF Begin

\* What a thread leaves to main.
LEMMA ThreadFrame ==
  ASSUME NEW t \in Thread, ThreadStep(t)
  PROVE  UNCHANGED <<items, main, itemIndex, mtItemIndex, threadIndices, refs, result, stopping>>
  BY DEF ThreadStep, Begin, WriteBlock, WriteReal, WaitStop, WaitReal, WaitBlock, AllocateBlock,
         PassEnds, NextPass, CodeFails, ReleaseItem, Post, mainVars, requestVars

LEMMA ThreadTypes ==
  ASSUME Types, Full, Counted, Clean, NEW t \in Thread, ThreadStep(t)
  PROVE  Types' /\ Full' /\ Counted' /\ Clean'
<1>1. PICK U : Records(U)
  BY DEF Types
<1>2. PICK V : Records(V) /\ PackSize(t) \in V /\ stream'[t].mem \in V
  <2> DEFINE W == U \cup {PackSize(t), stream'[t].mem}
  <2>1. Records(W)
    BY <1>1, Wider
  <2> QED
    BY <2>1
<1>3. PICK i \in InfoType(V) : info' = [info EXCEPT ![t] = i] /\ i.result # "internal"
  BY <1>2, ThreadInfo, Zenon
<1>4. PICK s \in StreamType(V) : stream' = [stream EXCEPT ![t] = s] /\ HasAll(s)
  BY <1>2, ThreadStream, Zenon
<1>5. /\ UNCHANGED <<items, main, itemIndex, mtItemIndex, threadIndices, refs, result, stopping>>
      /\ NumItems' = NumItems
  BY ThreadFrame DEF NumItems
<1>6. PICK k \in ThreadPc : Moves(t, k)
  BY ThreadMoves, Zenon
<1>7. hres' \in {"ok", "write"}
  BY ThreadMoves, Zenon
<1>8. MainTypes /\ pc \in [Thread -> ThreadPc]
  BY DEF Types, MainTypes
<1>9. MainTypes'
  <2>1. pc' \in [Thread -> ThreadPc]
    BY <1>6, <1>8 DEF Moves
  <2>2. ready' \in Seq(Thread)
    <3>1. ready \in Seq(Thread) /\ <<t>> \o ready \in Seq(Thread)
      BY <1>8 DEF MainTypes
    <3>2. ready' = ready \/ ready' = <<t>> \o ready
      BY <1>6 DEF Moves
    <3> QED
      BY <3>1, <3>2
  <2>3. readySem' \in Nat /\ poolSem' \in Nat /\ freeBlocks' \in Nat
    BY <1>6, <1>8, SMTT(30) DEF Moves, MainTypes
  <2> QED
    BY <1>5, <1>7, <1>8, <2>1, <2>2, <2>3 DEF MainTypes
<1>10. Records(V)'
  BY <1>2, <1>3, <1>4, <1>5 DEF Records
<1>11. Full'
  <2>1. \A u \in Thread : HasAll(stream[u])'
    BY <1>2, <1>4 DEF Records, Full, HasAll
  <2>2. \A n \in 1 .. NumItems : HasAll(refs[n])'
    BY <1>5 DEF Full, HasAll
  <2> QED
    BY <1>5, <2>1, <2>2 DEF Full
<1>12. Clean'
  BY <1>2, <1>3, <1>5 DEF Records, Clean
<1>13. Counted'
  <2>1. pc' = [pc EXCEPT ![t] = k]
    BY <1>6 DEF Moves
  <2>2. /\ Cardinality(AtPc("post")) \in Nat
        /\ Cardinality(AtPc("post"))' = Cardinality(AtPc("post")) + (IF k = "post" THEN 1 ELSE 0)
                                     - (IF pc[t] = "post" THEN 1 ELSE 0)
    BY <1>8, <2>1, AtMoves
  <2>3. /\ Cardinality(AtPc("alloc")) \in Nat
        /\ Cardinality(AtPc("alloc"))' = Cardinality(AtPc("alloc")) + (IF k = "alloc" THEN 1 ELSE 0)
                                     - (IF pc[t] = "alloc" THEN 1 ELSE 0)
    BY <1>8, <2>1, AtMoves
  <2>4. Len(<<t>> \o ready) = Len(ready) + 1 /\ Len(ready) \in Nat
    BY <1>8 DEF MainTypes
  <2>5. readySem \in Nat /\ poolSem \in Nat /\ freeBlocks \in Nat
    BY <1>8 DEF MainTypes
  <2> DEFINE A == Cardinality(AtPc("alloc"))
             P == Cardinality(AtPc("post"))
  <2>6. A' = A + (IF k = "alloc" THEN 1 ELSE 0) - (IF pc[t] = "alloc" THEN 1 ELSE 0) /\ A \in Nat
        /\ P' = P + (IF k = "post" THEN 1 ELSE 0) - (IF pc[t] = "post" THEN 1 ELSE 0) /\ P \in Nat
        /\ readySem + P = Len(ready) /\ poolSem + A = freeBlocks
    BY <2>2, <2>3 DEF Counted
  <2> HIDE DEF A, P
  <2>7. (readySem + P = Len(ready))' /\ (poolSem + A = freeBlocks)'
    <3>1. CASE ready' = ready /\ readySem' = readySem /\ pc[t] \notin {"release", "post"}
               /\ k # "post"
      <4>1. P' = P
        BY <2>6, <3>1
      <4>2. (poolSem + A = freeBlocks)'
        BY <1>6, <2>5, <2>6, <3>1 DEF Moves
      <4> QED
        BY <2>6, <3>1, <4>1, <4>2
    <3>2. CASE pc[t] = "release" /\ k = "post" /\ ready' = <<t>> \o ready
               /\ UNCHANGED <<readySem, freeBlocks, poolSem>>
      BY <2>4, <2>5, <2>6, <3>2
    <3>3. CASE pc[t] = "post" /\ k = "idle" /\ readySem' = readySem + 1
               /\ UNCHANGED <<ready, freeBlocks, poolSem>>
      BY <2>4, <2>5, <2>6, <3>3
    <3> QED
      BY <1>6, <3>1, <3>2, <3>3 DEF Moves
  <2> QED
    BY <2>7 DEF Counted, A, P
<1> QED
  BY <1>9, <1>10, <1>11, <1>12, <1>13 DEF Types

LEMMA ThreadRest ==
  ASSUME IInv, NEW t \in Thread, ThreadStep(t)
  PROVE  Threads' /\ Items'
<1>0. Types /\ Full /\ Counted /\ Clean /\ Threads /\ Items
  BY DEF IInv
<1>1. PICK U : Records(U)
  BY <1>0 DEF Types
<1>2. PICK V : Records(V) /\ PackSize(t) \in V
  <2> DEFINE W == U \cup {PackSize(t)}
  <2>1. Records(W)
    BY <1>1, Wider
  <2> QED
    BY <2>1
<1>3. PICK i \in InfoType(V) :
        /\ info' = [info EXCEPT ![t] = i]
        /\ i.free = info[t].free /\ i.item = info[t].item /\ i.seq = info[t].seq
        /\ i.compress => info[t].compress
  BY <1>0, <1>2, ThreadInfo, Zenon
<1>4. UNCHANGED <<items, main, itemIndex, mtItemIndex, threadIndices, refs>>
  BY ThreadFrame
<1>5. PICK k \in ThreadPc : Moves(t, k)
  BY <1>0, ThreadMoves, Zenon
<1>6. /\ info \in [Thread -> InfoType(V)] /\ pc \in [Thread -> ThreadPc]
      /\ threadIndices \in Seq(Thread) /\ ready \in Seq(Thread)
  BY <1>0, <1>2 DEF Records, Types, MainTypes
<1>7. \A u \in Thread :
        /\ info'[u].free = info[u].free /\ info'[u].item = info[u].item
        /\ info'[u].seq = info[u].seq
        /\ info'[u].compress => info[u].compress
        /\ u # t => info'[u] = info[u] /\ pc'[u] = pc[u]
  BY <1>3, <1>5, <1>6 DEF Moves
<1>8. pc[t] = "idle" => ~ info'[t].compress
  BY <1>0, ThreadBegins
<1>9. pc'[t] = k
  BY <1>5, <1>6 DEF Moves
<1>10. Threads'
  <2> SUFFICES ASSUME Live'
               PROVE  /\ Distinct(threadIndices)' /\ Distinct(ready)'
                      /\ \A u \in Thread : Placed(u)'
    BY DEF Threads
  <2>1. /\ Distinct(threadIndices) /\ Distinct(ready) /\ \A u \in Thread : Placed(u)
    BY <1>0, <1>4 DEF Threads, Live
  <2>2. ready' = ready \/ (pc[t] = "release" /\ k = "post" /\ ready' = <<t>> \o ready)
    BY <1>5 DEF Moves
  <2>3. pc[t] = "release" => t \notin In(ready)
    BY <2>1 DEF Placed
  <2>4. Distinct(ready')
        /\ \A u \in In(ready') : u \in In(ready) \/ (u = t /\ pc[t] = "release" /\ k = "post")
    <3>1. CASE ready' = ready
      BY <2>1, <3>1, Zenon
    <3>2. CASE pc[t] = "release" /\ k = "post" /\ ready' = <<t>> \o ready
      BY <1>6, <2>1, <2>3, <3>2, InFront
    <3> QED
      BY <2>2, <3>1, <3>2
  <2>5. ASSUME NEW u \in Thread, u # t PROVE Placed(u)'
    <3>1. u \in In(ready)' => u \in In(ready)
      BY <2>4, <2>5 DEF In
    <3> QED
      BY <1>4, <1>7, <2>1, <2>5, <3>1 DEF Placed, In
  <2>6. Placed(t)'
    <3>1. Placed(t)
      BY <2>1
    <3>2. t \in In(ready)' => t \in In(ready) \/ (pc[t] = "release" /\ k = "post")
      BY <2>4 DEF In
    <3>3. (info[t].free <=> t \notin In(threadIndices))'
      BY <1>4, <1>7, <3>1 DEF Placed, In
    <3>4. (info[t].compress => ~ info[t].free)'
      BY <1>7, <3>1 DEF Placed
    <3>5. (pc[t] \in {"code", "alloc", "release"} => ~ info[t].free /\ ~ info[t].compress)'
      BY <1>5, <1>7, <1>8, <1>9, <3>1 DEF Placed, Moves
    <3>6. (t \in In(ready) => ~ info[t].free /\ ~ info[t].compress /\ pc[t] \in {"post", "idle"})'
      BY <1>5, <1>7, <1>8, <1>9, <3>1, <3>2 DEF Placed, Moves
    <3> QED
      BY <3>3, <3>4, <3>5, <3>6 DEF Placed
  <2> QED
    BY <1>4, <2>1, <2>4, <2>5, <2>6 DEF Distinct
<1>11. Items'
  <2>1. \A n \in 1 .. Len(threadIndices) :
          /\ Item(n)' = Item(n)
          /\ (info[threadIndices[n]].seq)' = info[threadIndices[n]].seq
    BY <1>4, <1>6, <1>7 DEF Item
  <2>2. \A n : Open(n)' <=> Open(n)
    BY <1>4 DEF Open
  <2> SUFFICES ASSUME Live' PROVE Items'
    BY DEF Items
  <2>3. Live
    BY <1>4 DEF Live
  <2> QED
    BY <1>0, <1>4, <2>1, <2>2, <2>3 DEF Items, NumItems
<1> QED
  BY <1>10, <1>11

LEMMA ThreadInv ==
  ASSUME IInv, NEW t \in Thread, ThreadStep(t)
  PROVE  IInv'
<1>1. Types /\ Full /\ Counted /\ Clean
  BY DEF IInv
<1>2. Types' /\ Full' /\ Counted' /\ Clean'
  BY <1>1, ThreadTypes
<1>3. Threads' /\ Items'
  BY ThreadRest
<1> QED
  BY <1>2, <1>3 DEF IInv

-----------------------------------------------------------------------------
(* Steps of main that leave threads, streams and lists alone. *)

listVars == <<items, pc, ready, readySem, freeBlocks, poolSem>>

LEMMA Steady ==
  ASSUME IInv, UNCHANGED listVars, UNCHANGED <<info, stream, refs, threadIndices>>,
         main' \in MainPc, itemIndex' \in 1 .. NumItems + 1, mtItemIndex' \in 1 .. NumItems + 1,
         hres' \in {"ok", "write"}, main' \in {"stop", "join"} => stopping' \in Thread,
         result' # "internal", Live' => Live /\ Items'
  PROVE  IInv'
<1>0. Types /\ Full /\ Counted /\ Clean /\ Threads
  BY DEF IInv
<1>1. Types'
  <2>1. PICK V : Records(V)
    BY <1>0 DEF Types
  <2>2. Records(V)'
    BY <2>1 DEF Records, NumItems, listVars
  <2>3. MainTypes'
    BY <1>0 DEF Types, MainTypes, NumItems, listVars
  <2> QED
    BY <2>2, <2>3 DEF Types
<1>2. Full'
  BY <1>0 DEF Full, HasAll, NumItems, listVars
<1>3. Counted'
  BY <1>0 DEF Counted, AtPc, listVars
<1>4. Clean'
  BY <1>0 DEF Clean
<1>5. Threads'
  BY <1>0 DEF Threads, Placed, In, Distinct, listVars
<1>6. Items'
  BY DEF Items
<1> QED
  BY <1>1, <1>2, <1>3, <1>4, <1>5, <1>6 DEF IInv

\* The item that is due was handed out before.
LEMMA DueFacts ==
  ASSUME IInv, main = "loop", itemIndex <= NumItems, ~ MayStart
  PROVE  itemIndex < mtItemIndex
<1>1. /\ NumThreads \in Nat /\ NumThreads > 0
      /\ threadIndices \in Seq(Thread) /\ NumItems \in Nat
      /\ itemIndex \in 1 .. NumItems + 1 /\ mtItemIndex \in 1 .. NumItems + 1
  BY ZipUpdateAssumption DEF IInv, Types, MainTypes, NumItems
<1>2. CASE mtItemIndex > NumItems
  BY <1>1, <1>2
<1>3. CASE Len(threadIndices) >= NumThreads
  <2>1. 1 \in 1 .. Len(threadIndices)
    BY <1>1, <1>3
  <2>2. Item(1) \in itemIndex .. mtItemIndex - 1
    BY <2>1 DEF IInv, Items, Live
  <2> QED
    BY <1>1, <2>2
<1> QED
  BY <1>1, <1>2, <1>3 DEF MayStart

\* On to the next item, when this one is not open.
LEMMA NextFacts ==
  ASSUME IInv, Live, itemIndex <= NumItems, itemIndex < mtItemIndex, UNCHANGED <<items, mtItemIndex>>,
         itemIndex' = itemIndex + 1, main' = "loop",
         NEW s \in Seq(Thread), threadIndices' = s,
         \A k \in 1 .. Len(s) : info'[s[k]].item = info[s[k]].item /\ info'[s[k]].seq = info[s[k]].seq,
         \A k \in 1 .. Len(s) : s[k] \in In(threadIndices) /\ info[s[k]].item # itemIndex,
         \A j, k \in 1 .. Len(s) : j < k => info[s[j]].item < info[s[k]].item,
         \A k \in 1 .. Len(threadIndices) : Item(k) # itemIndex => threadIndices[k] \in In(s),
         \A i \in itemIndex + 1 .. NumItems :
           refs'[i].skip = refs[i].skip /\ refs'[i].finished = refs[i].finished
           /\ refs'[i].seq = refs[i].seq
  PROVE  Items'
<1>0. /\ itemIndex \in 1 .. NumItems + 1 /\ mtItemIndex \in 1 .. NumItems + 1 /\ NumItems \in Nat
      /\ threadIndices \in Seq(Thread) /\ NumItems' = NumItems
  BY DEF IInv, Types, MainTypes, NumItems
<1>1. /\ \A k \in 1 .. Len(threadIndices) :
           /\ Item(k) \in itemIndex .. mtItemIndex - 1 /\ Open(Item(k))
           /\ info[threadIndices[k]].seq = refs[Item(k)].seq
      /\ \A i \in itemIndex .. mtItemIndex - 1 :
           Open(i) => \E k \in 1 .. Len(threadIndices) : Item(k) = i
      /\ \A i \in mtItemIndex .. NumItems : ~ refs[i].skip /\ ~ refs[i].finished
  BY DEF IInv, Items
<1>2. \A i \in itemIndex + 1 .. NumItems : Open(i)' <=> Open(i)
  BY DEF Open
<1>3. \A k \in 1 .. Len(s) : Item(k)' = info[s[k]].item
  BY DEF Item
<1>4. ASSUME NEW k \in 1 .. Len(s)
      PROVE  (/\ Item(k) \in itemIndex .. mtItemIndex - 1 /\ Open(Item(k))
              /\ info[threadIndices[k]].seq = refs[Item(k)].seq)'
  <2>1. PICK n \in 1 .. Len(threadIndices) : s[k] = threadIndices[n]
    BY DEF In
  <2>2. PICK m \in itemIndex + 1 .. mtItemIndex - 1 : m = info[s[k]].item
    <3>1. Item(n) = info[s[k]].item /\ info[s[k]].item # itemIndex
      BY <2>1 DEF Item
    <3>2. Item(n) \in itemIndex .. mtItemIndex - 1
      BY <1>1
    <3>3. Item(n) \in itemIndex + 1 .. mtItemIndex - 1
      BY <1>0, <3>1, <3>2
    <3> QED
      BY <3>1, <3>3
  <2>3. Item(k)' = m /\ Item(n) = m /\ m \in itemIndex + 1 .. NumItems
    BY <1>0, <1>3, <2>1, <2>2 DEF Item
  <2>4. Open(m)'
    BY <1>1, <1>2, <2>3
  <2>5. info'[s[k]].seq = refs'[m].seq
    BY <1>1, <2>1, <2>3
  <2> QED
    BY <2>2, <2>3, <2>4, <2>5
<1>5. ASSUME NEW i \in itemIndex + 1 .. mtItemIndex - 1, Open(i)'
      PROVE  \E k \in 1 .. Len(s) : Item(k)' = i
  <2>1. i \in itemIndex .. mtItemIndex - 1 /\ i \in itemIndex + 1 .. NumItems /\ i # itemIndex
    BY <1>0
  <2>2. PICK n \in 1 .. Len(threadIndices) : Item(n) = i
    BY <1>1, <1>2, <1>5, <2>1
  <2>3. PICK k \in 1 .. Len(s) : s[k] = threadIndices[n]
    BY <2>1, <2>2 DEF In
  <2> QED
    BY <1>3, <2>2, <2>3 DEF Item
<1>6. \A j, k \in 1 .. Len(s) : j < k => Item(j)' < Item(k)'
  BY <1>3
<1>7. ASSUME NEW i \in mtItemIndex .. NumItems PROVE ~ refs'[i].skip /\ ~ refs'[i].finished
  <2>1. i \in itemIndex + 1 .. NumItems
    BY <1>0
  <2>2. ~ refs[i].skip /\ ~ refs[i].finished
    BY <1>1
  <2> QED
    BY <2>1, <2>2
<1> QED
  BY <1>0, <1>4, <1>5, <1>6, <1>7 DEF Items

\* There is a thread to start (ZipUpdate.cpp:1355-1361).
LEMMA SomeThreadIsFree ==
  ASSUME IInv, main = "loop", MayStart
  PROVE  FreeThreads # {}
<1> SUFFICES ASSUME FreeThreads = {} PROVE FALSE
  OBVIOUS
<1> DEFINE L == 1 .. Len(threadIndices)
           f == [t \in Thread |-> CHOOSE k \in L : threadIndices[k] = t]
<1>1. threadIndices \in Seq(Thread) /\ Len(threadIndices) \in Nat
  BY DEF IInv, Types, MainTypes
<1>2. \A t \in Thread : \E k \in L : threadIndices[k] = t
  BY DEF FreeThreads, IInv, Threads, Placed, Live, In
<1>3. f \in [Thread -> L] /\ \A t \in Thread : threadIndices[f[t]] = t
  BY <1>2
<1>4. IsFiniteSet(L) /\ Cardinality(L) = Len(threadIndices)
  BY <1>1, FS_Interval
<1>5. Cardinality(L) < Cardinality(Thread)
  BY <1>4, ThreadsFinite DEF MayStart
<1> HIDE DEF f
<1>6. \E x, y \in Thread : x # y /\ f[x] = f[y]
  BY <1>3, <1>4, <1>5, ThreadsFinite, FS_PigeonHole
<1> QED
  BY <1>3, <1>6

LEMMA MainFacts ==
  ASSUME IInv
  PROVE  /\ main \in MainPc /\ itemIndex \in 1 .. NumItems + 1 /\ mtItemIndex \in 1 .. NumItems + 1
         /\ NumItems \in Nat /\ hres \in {"ok", "write"} /\ threadIndices \in Seq(Thread)
         /\ (main \in {"stop", "join"} => stopping \in Thread)
         /\ result # "internal" /\ 1 \in Thread /\ NumThreads \in Thread
         /\ NumThreads \in Nat /\ NumThreads > 0
<1>1. NumThreads \in Nat /\ NumThreads > 0
  BY ZipUpdateAssumption
<1> QED
  BY <1>1 DEF IInv, Types, MainTypes, NumItems, Clean, Thread

LEMMA CannotStartInv == ASSUME IInv, CannotStart PROVE IInv'
<1>1. FreeThreads # {}
  BY SomeThreadIsFree DEF CannotStart
<1>2. result' = "stream" /\ main' = "stop" /\ stopping' = 1 /\ mtItemIndex' = mtItemIndex + 1
      /\ itemIndex' = itemIndex /\ hres' = hres /\ mtItemIndex <= NumItems
      /\ UNCHANGED listVars /\ UNCHANGED <<info, stream, refs, threadIndices>>
  BY <1>1 DEF CannotStart, MayStart, Leave, listVars, requestVars, semVars, poolVars, threadVars,
              archiveVars
<1> QED
  BY <1>2, MainFacts, Steady DEF Live, MainPc

\* Main goes to the next item, and the threads' files stay what they are.
LEMMA NextInv ==
  ASSUME IInv, Live, itemIndex <= NumItems, itemIndex < mtItemIndex, NextItem, ~ Open(itemIndex),
         UNCHANGED listVars, UNCHANGED <<info, stream, refs, threadIndices, mtItemIndex>>,
         hres' \in {"ok", "write"}
  PROVE  IInv'
<1>1. main' = "loop" /\ result' = result /\ itemIndex' = itemIndex + 1
  BY DEF NextItem, GoOn
<1>2. Items'
  <2> DEFINE s == threadIndices
  <2>1. s \in Seq(Thread) /\ s' = s
    BY MainFacts
  <2>2. \A k \in 1 .. Len(s) : s[k] \in In(s) /\ info[s[k]].item # itemIndex
    BY DEF In, IInv, Items, Item
  <2>3. \A j, k \in 1 .. Len(s) : j < k => info[s[j]].item < info[s[k]].item
    BY DEF IInv, Items, Item
  <2> QED
    BY <1>1, <2>1, <2>2, <2>3, NextFacts DEF listVars
<1> QED
  BY <1>1, <1>2, MainFacts, Steady DEF MainPc, Live

LEMMA SkipItemInv == ASSUME IInv, SkipItem PROVE IInv'
<1>1. Live /\ itemIndex <= NumItems /\ itemIndex < mtItemIndex
  BY DueFacts DEF SkipItem, Due, Live
<1>2. NextItem /\ ~ Open(itemIndex) /\ hres' = hres /\ mtItemIndex' = mtItemIndex
      /\ UNCHANGED listVars /\ UNCHANGED <<info, stream, refs, threadIndices>>
  BY DEF SkipItem, Open, listVars, requestVars, semVars, poolVars, threadVars, archiveVars
<1> QED
  BY <1>1, <1>2, MainFacts, NextInv

\* Main goes on to stop the threads.
LEMMA LeaveInv ==
  ASSUME IInv, NEW r, Leave(r), r # "internal", UNCHANGED <<itemIndex, mtItemIndex>>,
         UNCHANGED listVars, UNCHANGED <<info, stream, refs, threadIndices>>, hres' \in {"ok", "write"}
  PROVE  IInv'
  BY MainFacts, Steady DEF Leave, Live, MainPc

LEMMA CopyOldInv == ASSUME IInv, CopyOld PROVE IInv'
<1>1. Live /\ itemIndex <= NumItems /\ itemIndex < mtItemIndex
  BY DueFacts DEF CopyOld, Due, Live
<1>2. /\ mtItemIndex' = mtItemIndex /\ hres' \in {"ok", "write"} /\ ~ Open(itemIndex)
      /\ UNCHANGED listVars /\ UNCHANGED <<info, stream, refs, threadIndices>>
  BY MainFacts DEF CopyOld, Due, Open, WriteAt, WriteFails, listVars, requestVars, semVars, poolVars,
                   threadVars, archiveVars
<1>3. NextItem \/ ((Leave("write") \/ Leave("stream")) /\ itemIndex' = itemIndex)
  BY DEF CopyOld
<1> QED
  BY <1>1, <1>2, <1>3, NextInv, LeaveInv

LEMMA WriteCentralDirInv == ASSUME IInv, WriteCentralDir PROVE IInv'
<1>1. /\ UNCHANGED <<itemIndex, mtItemIndex>> /\ hres' \in {"ok", "write"}
      /\ UNCHANGED listVars /\ UNCHANGED <<info, stream, refs, threadIndices>>
  BY MainFacts DEF WriteCentralDir, WriteAt, WriteFails, listVars, requestVars, semVars, poolVars,
                   threadVars
<1>2. Leave("ok") \/ Leave("write")
  BY DEF WriteCentralDir
<1> QED
  BY <1>1, <1>2, LeaveInv

LEMMA JoinThreadInv == ASSUME IInv, JoinThread PROVE IInv'
<1>1. /\ UNCHANGED <<itemIndex, mtItemIndex>>
      /\ UNCHANGED listVars /\ UNCHANGED <<info, stream, refs, threadIndices>>
  BY DEF JoinThread, listVars, requestVars, semVars, poolVars, threadVars
<1>2. hres' \in {"ok", "write"} /\ result' # "internal" /\ main' \in {"stop", "done"}
  BY MainFacts DEF JoinThread
<1>3. main' = "stop" => stopping' \in Thread
  BY MainFacts DEF JoinThread, Thread
<1> QED
  BY <1>1, <1>2, <1>3, MainFacts, Steady DEF Live, MainPc

-----------------------------------------------------------------------------
(* Steps of main that change records. *)

LEMMA ReadyType ==
  ASSUME ready \in Seq(Thread), readySem \in Nat,
         \/ UNCHANGED <<ready, readySem>>
         \/ readySem > 0 /\ readySem' = readySem - 1 /\ ready # <<>> /\ ready' = Tail(ready)
  PROVE  ready' \in Seq(Thread) /\ readySem' \in Nat
<1>1. ready # <<>> => Tail(ready) \in Seq(Thread)
  BY HeadTailProperties
<1> QED
  BY <1>1

LEMMA CountedInv ==
  ASSUME Counted, pc' = pc, ready \in Seq(Thread), readySem \in Nat, poolSem \in Nat,
         freeBlocks \in Nat, NEW n \in Nat, freeBlocks' = freeBlocks + n, poolSem' = poolSem + n,
         \/ UNCHANGED <<ready, readySem>>
         \/ readySem > 0 /\ readySem' = readySem - 1 /\ ready # <<>> /\ ready' = Tail(ready)
  PROVE  Counted'
<1>1. PICK c \in Nat, d \in Nat : c = Cardinality(AtPc("post")) /\ d = Cardinality(AtPc("alloc"))
  BY ThreadsFinite, FS_Subset, FS_CardinalityType DEF AtPc
<1>2. c = Cardinality(AtPc("post"))' /\ d = Cardinality(AtPc("alloc"))'
  BY <1>1 DEF AtPc
<1>3. \/ Len(ready') = Len(ready) /\ readySem' = readySem
      \/ Len(ready') = Len(ready) - 1 /\ readySem' = readySem - 1
  <2>1. ready # <<>> => Len(Tail(ready)) = Len(ready) - 1
    BY HeadTailProperties
  <2> QED
    BY <2>1
<1>4. readySem + c = Len(ready) /\ poolSem + d = freeBlocks /\ Len(ready) \in Nat
  BY <1>1 DEF Counted
<1>5. readySem' + c = Len(ready')
  BY <1>1, <1>3, <1>4
<1>6. poolSem' + d = freeBlocks'
  BY <1>1, <1>4
<1> QED
  BY <1>2, <1>5, <1>6 DEF Counted

LEMMA Build ==
  ASSUME IInv, NEW V, <<>> \in V, 0 \in V, items' = items, pc' = pc,
         info' \in [Thread -> InfoType(V)], stream' \in [Thread -> StreamType(V)],
         refs' \in [1 .. NumItems -> RefType(V)], threadIndices' \in Seq(Thread),
         main' \in MainPc, itemIndex' \in 1 .. NumItems + 1, mtItemIndex' \in 1 .. NumItems + 1,
         hres' \in {"ok", "write"}, main' \in {"stop", "join"} => stopping' \in Thread,
         NEW n \in Nat, freeBlocks' = freeBlocks + n, poolSem' = poolSem + n,
         \/ UNCHANGED <<ready, readySem>>
         \/ readySem > 0 /\ readySem' = readySem - 1 /\ ready # <<>> /\ ready' = Tail(ready),
         \A t \in Thread : HasAll(stream'[t]), \A i \in 1 .. NumItems : HasAll(refs'[i]),
         result' # "internal", \A t \in Thread : info'[t].result # "internal", Threads', Items'
  PROVE  IInv'
<1>0. MainTypes /\ Counted
  BY DEF IInv, Types
<1>1. Types'
  <2>1. Records(V)'
    BY DEF Records, NumItems
  <2>2. ready' \in Seq(Thread) /\ readySem' \in Nat
    <3>1. ready \in Seq(Thread) /\ readySem \in Nat
      BY <1>0 DEF MainTypes
    <3> QED
      BY <3>1, ReadyType
  <2>3. MainTypes'
    BY <1>0, <2>2 DEF MainTypes, NumItems
  <2> QED
    BY <2>1, <2>3 DEF Types
<1>2. Full'
  BY DEF Full, HasAll, NumItems
<1>3. Counted'
  BY <1>0, CountedInv DEF MainTypes
<1>4. Clean'
  BY DEF Clean
<1> QED
  BY <1>1, <1>2, <1>3, <1>4 DEF IInv

\* A set V for all records, with one more value.
LEMMA WithOne ==
  ASSUME IInv, NEW x
  PROVE  \E V : Records(V) /\ x \in V /\ <<>> \in V /\ 0 \in V
<1>1. PICK U : Records(U)
  BY DEF IInv, Types
<1> DEFINE W == U \cup {x}
<1>2. Records(W)
  BY <1>1, Wider
<1> QED
  BY <1>2 DEF Records

LEMMA PassOverInv == ASSUME IInv, PassOver PROVE IInv'
<1>0. /\ main = "loop" /\ itemIndex <= NumItems /\ mtItemIndex <= NumItems
      /\ mtItemIndex' = mtItemIndex + 1 /\ hres' = hres
      /\ UNCHANGED listVars /\ UNCHANGED <<info, stream, threadIndices>>
      /\ UNCHANGED <<main, itemIndex, result, stopping>>
  BY DEF PassOver, MayStart, listVars, requestVars, semVars, poolVars, threadVars, archiveVars
<1>1. PICK V : Records(V)
  BY DEF IInv, Types
<1>2. PICK m \in 1 .. NumItems : m = mtItemIndex
  BY <1>0, MainFacts
<1>3. Live /\ Live' /\ itemIndex <= m /\ NumItems' = NumItems /\ items' = items /\ NumItems \in Nat
      /\ itemIndex \in 1 .. NumItems + 1
  BY <1>0, <1>2, MainFacts DEF Live, IInv, Items, listVars, NumItems
<1>4. refs \in [1 .. NumItems -> RefType(V)] /\ \A i \in 1 .. NumItems : HasAll(refs[i])
  BY <1>1 DEF Records, IInv, Full
<1>5. /\ refs' \in [1 .. NumItems -> RefType(V)]
      /\ ~ (items[m] = "file" /\ ~ refs'[m].skip)
      /\ \A i \in 1 .. NumItems : HasAll(refs'[i])
      /\ \A i \in 1 .. NumItems : i # m => refs'[i] = refs[i]
  <2>1. CASE items[m] = "old" /\ refs' = refs
    BY <1>4, <2>1
  <2>2. CASE refs' = [refs EXCEPT ![m].skip = TRUE]
    <3>1. refs' \in [1 .. NumItems -> RefType(V)]
      BY <1>4, <2>2 DEF RefType
    <3>2. refs'[m].skip /\ refs'[m].blocks = refs[m].blocks /\ refs'[m].total = refs[m].total
      BY <1>4, <2>2 DEF RefType
    <3>3. \A i \in 1 .. NumItems : i # m => refs'[i] = refs[i]
      BY <1>4, <2>2
    <3>4. ASSUME NEW i \in 1 .. NumItems PROVE HasAll(refs'[i])
      BY <1>4, <3>2, <3>3 DEF HasAll
    <3> QED
      BY <3>1, <3>2, <3>3, <3>4
  <2> QED
    BY <1>2, <2>1, <2>2 DEF PassOver
<1>6. Items'
  <2>1. /\ \A k \in 1 .. Len(threadIndices) :
             /\ Item(k) \in itemIndex .. m - 1 /\ Open(Item(k))
             /\ info[threadIndices[k]].seq = refs[Item(k)].seq
        /\ \A j, k \in 1 .. Len(threadIndices) : j < k => Item(j) < Item(k)
        /\ \A i \in itemIndex .. m - 1 :
             Open(i) => \E k \in 1 .. Len(threadIndices) : Item(k) = i
        /\ \A i \in m .. NumItems : ~ refs[i].skip /\ ~ refs[i].finished
    BY <1>2, <1>3 DEF IInv, Items
  <2>2. \A k : Item(k)' = Item(k)
    BY <1>0 DEF Item
  <2>3. \A i \in itemIndex .. m - 1 : i \in 1 .. NumItems /\ i # m
    BY <1>3
  <2>4. \A i \in itemIndex .. m - 1 : (Open(i)' <=> Open(i)) /\ refs'[i].seq = refs[i].seq
    BY <1>3, <1>5, <2>3 DEF Open
  <2>5. ~ Open(m)'
    BY <1>3, <1>5 DEF Open
  <2>6. \A i \in m + 1 .. NumItems : ~ refs'[i].skip /\ ~ refs'[i].finished
    BY <1>5, <2>1
  <2>7. ASSUME NEW k \in 1 .. Len(threadIndices)
        PROVE  (/\ Item(k) \in itemIndex .. mtItemIndex - 1 /\ Open(Item(k))
                /\ info[threadIndices[k]].seq = refs[Item(k)].seq)'
    <3>1. PICK i \in itemIndex .. m - 1 : i = Item(k)
      BY <2>1
    <3>2. Open(i)' /\ info[threadIndices[k]].seq = refs'[i].seq
      BY <2>1, <2>4, <3>1
    <3> QED
      BY <1>0, <1>2, <1>3, <2>2, <3>1, <3>2
  <2>8. ASSUME NEW i \in itemIndex .. m, Open(i)'
        PROVE  \E k \in 1 .. Len(threadIndices) : Item(k)' = i
    <3>1. i \in itemIndex .. m - 1
      BY <1>3, <2>5, <2>8
    <3> QED
      BY <2>1, <2>2, <2>4, <2>8, <3>1
  <2> QED
    BY <1>0, <1>2, <1>3, <2>1, <2>2, <2>6, <2>7, <2>8 DEF Items
<1>7. Threads'
  BY <1>0 DEF IInv, Threads, Placed, Distinct, In, Live, listVars
<1>8. /\ info' \in [Thread -> InfoType(V)] /\ stream' \in [Thread -> StreamType(V)] /\ <<>> \in V
      /\ 0 \in V /\ \A t \in Thread : HasAll(stream'[t]) /\ info'[t].result # "internal"
  BY <1>0, <1>1 DEF Records, IInv, Full, Clean
<1>9. /\ freeBlocks' = freeBlocks + 0 /\ poolSem' = poolSem + 0 /\ 0 \in Nat
      /\ UNCHANGED <<ready, readySem, items, pc>>
  BY <1>0 DEF listVars, IInv, Types, MainTypes
<1>10. mtItemIndex' \in 1 .. NumItems + 1
  BY <1>0, <1>2, <1>3
<1>11. threadIndices' \in Seq(Thread) /\ main' \in MainPc /\ itemIndex' \in 1 .. NumItems + 1
       /\ hres' \in {"ok", "write"} /\ result' # "internal"
       /\ (main' \in {"stop", "join"} => stopping' \in Thread)
  BY <1>0, MainFacts
<1> QED
  BY <1>5, <1>6, <1>7, <1>8, <1>9, <1>10, <1>11, Build

\* The parts of IInv that a step leaves as they are.
LEMMA SameFacts ==
  ASSUME IInv, NEW V, Records(V)
  PROVE  /\ <<>> \in V /\ 0 \in V
         /\ info \in [Thread -> InfoType(V)] /\ stream \in [Thread -> StreamType(V)]
         /\ refs \in [1 .. NumItems -> RefType(V)]
         /\ \A t \in Thread : HasAll(stream[t]) /\ info[t].result # "internal"
         /\ \A i \in 1 .. NumItems : HasAll(refs[i])
         /\ freeBlocks = freeBlocks + 0 /\ poolSem = poolSem + 0 /\ 0 \in Nat
  BY DEF Records, IInv, Full, Clean, Types, MainTypes

LEMMA StopThreadInv == ASSUME IInv, StopThread PROVE IInv'
<1>0. /\ main = "stop" /\ main' = "join"
      /\ info' = [info EXCEPT ![stopping] = Exiting(info[stopping])]
      /\ stream' = [stream EXCEPT ![stopping].stop = TRUE]
      /\ UNCHANGED <<items, pc, ready, readySem, freeBlocks, poolSem, refs, threadIndices>>
      /\ UNCHANGED <<itemIndex, mtItemIndex, hres, stopping, result>>
  BY DEF StopThread, requestVars, semVars, poolVars, archiveVars
<1>1. PICK V : Records(V)
  BY DEF IInv, Types
<1> DEFINE t == stopping
<1>2. t \in Thread /\ ~ Live'
  BY <1>0, MainFacts DEF Live
<1>3. info[t] \in InfoType(V) /\ stream[t] \in StreamType(V)
      /\ HasAll(stream[t]) /\ info[t].result # "internal"
  BY <1>1, <1>2, SameFacts
<1> HIDE DEF t
<1>4. Exiting(info[t]) \in InfoType(V) /\ Exiting(info[t]).result # "internal"
  BY <1>3, ExitingFacts
<1>5. info' \in [Thread -> InfoType(V)] /\ \A u \in Thread : info'[u].result # "internal"
  BY <1>0, <1>1, <1>4, SameFacts DEF t
<1>6. stream' \in [Thread -> StreamType(V)] /\ \A u \in Thread : HasAll(stream'[u])
  <2> DEFINE d == [stream[t] EXCEPT !.stop = TRUE]
  <2>1. d \in StreamType(V) /\ d.total = stream[t].total /\ d.blocks = stream[t].blocks
    BY <1>3 DEF StreamType
  <2>2. stream' = [stream EXCEPT ![t] = d]
    BY <1>0 DEF t
  <2>3. HasAll(d)
    BY <1>3, <2>1 DEF HasAll
  <2> HIDE DEF d
  <2> QED
    BY <1>1, <2>1, <2>2, <2>3, SameFacts
<1>7. Threads' /\ Items'
  BY <1>2 DEF Threads, Items
<1> QED
  BY <1>0, <1>1, <1>2, <1>5, <1>6, <1>7, MainFacts, SameFacts, Build DEF MainPc, t

LEMMA CopyFinishedInv == ASSUME IInv, CopyFinished PROVE IInv'
<1>0. /\ Live /\ itemIndex <= NumItems /\ itemIndex < mtItemIndex /\ ~ Open(itemIndex)
      /\ itemIndex \in 1 .. NumItems
  BY DueFacts, MainFacts DEF CopyFinished, Due, Live, Open
<1>1. /\ mtItemIndex' = mtItemIndex /\ hres' \in {"ok", "write"} /\ threadIndices' = threadIndices
      /\ UNCHANGED <<items, pc, ready, readySem, info, stream>>
  BY MainFacts DEF CopyFinished, WriteAt, WriteFails, requestVars, semVars, threadVars
<1>2. \/ /\ NextItem /\ refs' = [refs EXCEPT ![itemIndex] = Emptied(refs[itemIndex])]
         /\ FreeTo(refs[itemIndex].blocks)
      \/ Leave("write") /\ UNCHANGED <<itemIndex, refs, freeBlocks, poolSem>>
  BY DEF CopyFinished, poolVars
<1>3. CASE Leave("write") /\ UNCHANGED <<itemIndex, refs, freeBlocks, poolSem>>
  BY <1>1, <1>3, LeaveInv DEF listVars
<1>4. CASE /\ NextItem /\ refs' = [refs EXCEPT ![itemIndex] = Emptied(refs[itemIndex])]
           /\ FreeTo(refs[itemIndex].blocks)
  <2>1. PICK V : Records(V)
    BY DEF IInv, Types
  <2>2. refs[itemIndex] \in RefType(V) /\ <<>> \in V
    BY <1>0, <2>1, SameFacts
  <2>3. /\ Emptied(refs[itemIndex]) \in RefType(V) /\ Emptied(refs[itemIndex]).total = 0
    BY <2>2, EmptiedFacts
  <2>4. refs[itemIndex].blocks \in Nat /\ HasAll(Emptied(refs[itemIndex]))
    <3>1. Emptied(refs[itemIndex]).blocks \in Nat /\ BlockSize \in Nat
      BY <2>3, ZipUpdateAssumption DEF RefType
    <3>2. 0 <= Emptied(refs[itemIndex]).blocks * BlockSize
      BY <3>1
    <3> QED
      BY <2>2, <2>3, <3>2 DEF RefType, HasAll
  <2>5. /\ refs' \in [1 .. NumItems -> RefType(V)] /\ \A i \in 1 .. NumItems : HasAll(refs'[i])
        /\ \A i \in itemIndex + 1 .. NumItems : refs'[i] = refs[i]
    BY <1>0, <1>4, <2>1, <2>3, <2>4, SameFacts
  <2>6. main' = "loop" /\ itemIndex' = itemIndex + 1 /\ result' = result
        /\ itemIndex' \in 1 .. NumItems + 1
    BY <1>0, <1>4, MainFacts DEF NextItem, GoOn
  <2>7. Items'
    <3> DEFINE s == threadIndices
    <3>1. s \in Seq(Thread) /\ s' = s
      BY <1>1, MainFacts
    <3>2. \A k \in 1 .. Len(s) : s[k] \in In(s) /\ info[s[k]].item # itemIndex
      BY <1>0 DEF In, IInv, Items, Item
    <3>3. \A j, k \in 1 .. Len(s) : j < k => info[s[j]].item < info[s[k]].item
      BY <1>0 DEF IInv, Items, Item
    <3> QED
      BY <1>0, <1>1, <2>5, <2>6, <3>1, <3>2, <3>3, NextFacts
  <2>8. Threads'
    BY <1>0, <1>1 DEF IInv, Threads, Placed, Distinct, In
  <2>9. freeBlocks' = freeBlocks + refs[itemIndex].blocks
        /\ poolSem' = poolSem + refs[itemIndex].blocks
    BY <1>4 DEF FreeTo
  <2> QED
    BY <1>1, <2>1, <2>4, <2>5, <2>6, <2>7, <2>8, <2>9, MainFacts, SameFacts, Build DEF MainPc
<1> QED
  BY <1>2, <1>3, <1>4

LEMMA OpenFrontInv == ASSUME IInv, OpenFront PROVE IInv'
<1>0. /\ Live /\ itemIndex <= NumItems /\ itemIndex < mtItemIndex
      /\ items[itemIndex] = "file" /\ ~ refs[itemIndex].skip /\ ~ refs[itemIndex].finished
  BY DueFacts, MainFacts DEF OpenFront, Due, Live
<1>1. /\ hres' \in {"ok", "write"} /\ UNCHANGED listVars
      /\ UNCHANGED <<itemIndex, mtItemIndex, threadIndices, refs, info>>
  BY MainFacts DEF OpenFront, WriteAt, WriteFails, requestVars, semVars, poolVars, listVars, archiveVars
<1>2. PICK k \in 1 .. Len(threadIndices) : Item(k) = itemIndex
  <2>1. itemIndex \in itemIndex .. mtItemIndex - 1
    BY <1>0, MainFacts
  <2> QED
    BY <1>0, <2>1 DEF IInv, Items, Open
<1> DEFINE t == Head(threadIndices)
<1>3. t \in Thread /\ threadIndices # <<>>
  <2>1. threadIndices \in Seq(Thread) /\ threadIndices # <<>>
    BY <1>2, MainFacts
  <2> QED
    BY <2>1, HeadTailProperties
<1> HIDE DEF t
<1>4. CASE Leave("write") /\ UNCHANGED stream
  BY <1>1, <1>4, LeaveInv
<1>5. CASE \E at \in {curPos, curPos'} : Unlock(t, at) /\ GoOn("wait")
  <2>1. PICK at : Unlock(t, at) /\ GoOn("wait")
    BY <1>5
  <2>2. PICK V : Records(V) /\ at \in V /\ <<>> \in V /\ 0 \in V
    BY WithOne
  <2>3. stream' = [stream EXCEPT ![t] = Unlocked(stream[t], at)] /\ main' = "wait"
        /\ result' = result
    BY <2>1 DEF Unlock, GoOn
  <2>4. stream[t] \in StreamType(V) /\ HasAll(stream[t])
    BY <1>3, <2>2, SameFacts
  <2>5. Unlocked(stream[t], at) \in StreamType(V) /\ HasAll(Unlocked(stream[t], at))
    BY <2>2, <2>4, UnlockedFacts DEF HasAll
  <2>6. stream' \in [Thread -> StreamType(V)] /\ \A u \in Thread : HasAll(stream'[u])
    BY <1>3, <2>2, <2>3, <2>5, SameFacts
  <2>7. Threads'
    BY <1>0, <1>1 DEF IInv, Threads, Placed, Distinct, In, listVars
  <2>8. Items'
    BY <1>0, <1>1 DEF IInv, Items, Item, Open, NumItems, listVars
  <2> QED
    BY <1>1, <2>2, <2>3, <2>6, <2>7, <2>8, MainFacts, SameFacts, Build DEF MainPc, listVars
<1> QED
  BY <1>3, <1>4, <1>5 DEF OpenFront, t

\* A file is handed to a thread: it is the last in threadIndices and in the
\* order of the items.
LEMMA StartFileInv == ASSUME IInv, StartFile PROVE IInv'
<1>0. /\ main = "loop" /\ Live /\ itemIndex <= mtItemIndex /\ mtItemIndex <= NumItems
      /\ mtItemIndex' = mtItemIndex + 1 /\ items[mtItemIndex] = "file" /\ hres' = hres
      /\ UNCHANGED <<items, main, itemIndex, result, stopping, pc, ready, readySem>>
  BY DEF StartFile, MayStart, Live, IInv, Items, requestVars, semVars, archiveVars
<1>1. PICK m \in 1 .. NumItems : m = mtItemIndex
  BY <1>0, MainFacts
<1>2. PICK V : Records(V)
  BY DEF IInv, Types
<1>3. PICK t \in FreeThreads, q \in BOOLEAN :
        /\ refs' = [refs EXCEPT ![m].seq = q]
        /\ info' = [info EXCEPT ![t] = Given(info[t], m, q)]
        /\ stream' = [stream EXCEPT ![t] = Fresh(stream[t])]
        /\ FreeTo(stream[t].blocks)
        /\ threadIndices' = Append(threadIndices, t)
  <2>1. FreeThreads \subseteq Nat /\ FreeThreads # {}
    BY DEF StartFile, FreeThreads, Thread
  <2>2. Min(FreeThreads) \in FreeThreads
    BY <2>1, LeastIsMin
  <2> QED
    BY <1>1, <2>2 DEF StartFile
<1>4. t \in Thread /\ info[t].free
  BY DEF FreeThreads
<1>5. /\ info[t] \in InfoType(V) /\ stream[t] \in StreamType(V) /\ info[t].result # "internal"
      /\ <<>> \in V /\ 0 \in V /\ refs \in [1 .. NumItems -> RefType(V)]
      /\ info \in [Thread -> InfoType(V)] /\ stream \in [Thread -> StreamType(V)]
  BY <1>2, <1>4, SameFacts
<1>6. /\ Given(info[t], m, q) \in InfoType(V) /\ Given(info[t], m, q).result # "internal"
      /\ Given(info[t], m, q).item = m /\ Given(info[t], m, q).seq = q
      /\ ~ Given(info[t], m, q).free
  <2>1. m \in Nat /\ q \in BOOLEAN
    OBVIOUS
  <2> QED
    BY <1>5, <2>1, GivenFacts
<1>7. /\ info' \in [Thread -> InfoType(V)] /\ \A u \in Thread : info'[u].result # "internal"
      /\ info'[t].item = m /\ info'[t].seq = q /\ ~ info'[t].free
      /\ \A u \in Thread : u # t => info'[u] = info[u]
  BY <1>2, <1>3, <1>4, <1>5, <1>6, SameFacts
<1>8. stream' \in [Thread -> StreamType(V)] /\ \A u \in Thread : HasAll(stream'[u])
  <2>1. Fresh(stream[t]) \in StreamType(V) /\ Fresh(stream[t]).total = 0
    BY <1>5, FreshFacts
  <2>2. 0 <= Fresh(stream[t]).blocks * BlockSize
    BY <2>1, ZipUpdateAssumption DEF StreamType
  <2>3. HasAll(Fresh(stream[t]))
    BY <2>1, <2>2 DEF HasAll
  <2> QED
    BY <1>2, <1>3, <1>4, <1>5, <2>1, <2>3, SameFacts
<1>9. /\ refs' \in [1 .. NumItems -> RefType(V)] /\ refs'[m].seq = q
      /\ \A i \in 1 .. NumItems :
           /\ i # m => refs'[i] = refs[i]
           /\ refs'[i].skip = refs[i].skip /\ refs'[i].finished = refs[i].finished
           /\ HasAll(refs'[i])
  <2>1. /\ refs' \in [1 .. NumItems -> RefType(V)] /\ refs'[m].seq = q
        /\ refs'[m].skip = refs[m].skip /\ refs'[m].finished = refs[m].finished
        /\ refs'[m].blocks = refs[m].blocks /\ refs'[m].total = refs[m].total
    BY <1>3, <1>5 DEF RefType
  <2>2. \A i \in 1 .. NumItems : i # m => refs'[i] = refs[i]
    BY <1>3, <1>5
  <2>3. \A i \in 1 .. NumItems : HasAll(refs'[i])
    BY <1>2, <2>1, <2>2, SameFacts DEF HasAll
  <2> QED
    BY <2>1, <2>2, <2>3
<1> DEFINE s == threadIndices
<1>10. PICK n \in Nat : s \in Seq(Thread) /\ n = Len(s)
  BY MainFacts
<1>11. /\ s' \in Seq(Thread) /\ Len(s') = n + 1 /\ s'[n + 1] = t
       /\ \A k \in 1 .. n : s'[k] = s[k] /\ k \in 1 .. n + 1
       /\ \A k \in 1 .. n + 1 : k \in 1 .. n \/ k = n + 1
  BY <1>3, <1>4, <1>10
<1>12. t \notin In(s) /\ Distinct(s) /\ Distinct(ready) /\ \A u \in Thread : Placed(u)
  BY <1>0, <1>4 DEF IInv, Threads, Placed
<1>13. In(s') = In(s) \cup {t} /\ Distinct(s')
  <2>1. \A x : x \in In(s') <=> x \in In(s) \cup {t}
    BY <1>10, <1>11 DEF In
  <2>2. ASSUME NEW j \in 1 .. n + 1, NEW k \in 1 .. n + 1, s'[j] = s'[k] PROVE j = k
    <3>1. CASE j = n + 1 \/ k = n + 1
      BY <1>10, <1>11, <1>12, <2>2, <3>1 DEF In
    <3>2. CASE j \in 1 .. n /\ k \in 1 .. n
      BY <1>10, <1>11, <1>12, <2>2, <3>2 DEF Distinct
    <3> QED
      BY <1>11, <3>1, <3>2
  <2> QED
    BY <1>11, <2>1, <2>2 DEF Distinct
<1>14. Threads'
  <2>1. ASSUME NEW u \in Thread, u # t PROVE Placed(u)'
    <3>1. Placed(u) /\ info'[u] = info[u] /\ pc' = pc /\ ready' = ready
      BY <1>0, <1>7, <1>12, <2>1
    <3>2. u \in In(threadIndices)' <=> u \in In(threadIndices)
      BY <1>13, <2>1 DEF In
    <3> QED
      BY <3>1, <3>2 DEF Placed, In
  <2>2. Placed(t)'
    BY <1>0, <1>4, <1>7, <1>12, <1>13 DEF Placed, In
  <2> QED
    BY <1>0, <1>12, <1>13, <2>1, <2>2 DEF Threads, Distinct, In
<1>15. Items'
  <2>1. /\ \A k \in 1 .. n :
             /\ Item(k) \in itemIndex .. m - 1 /\ Open(Item(k))
             /\ info[s[k]].seq = refs[Item(k)].seq
        /\ \A j, k \in 1 .. n : j < k => Item(j) < Item(k)
        /\ \A i \in itemIndex .. m - 1 : Open(i) => \E k \in 1 .. n : Item(k) = i
        /\ \A i \in m .. NumItems : ~ refs[i].skip /\ ~ refs[i].finished
    BY <1>0, <1>1, <1>10 DEF IInv, Items
  <2>2. itemIndex \in 1 .. NumItems + 1 /\ NumItems \in Nat /\ itemIndex <= m
        /\ NumItems' = NumItems
    BY <1>0, <1>1, MainFacts DEF NumItems
  <2>3. \A k \in 1 .. n : Item(k)' = Item(k) /\ info'[s[k]] = info[s[k]] /\ s[k] \in Thread
    BY <1>7, <1>10, <1>11, <1>12 DEF Item, In
  <2>4. Item(n + 1)' = m
    BY <1>7, <1>11 DEF Item
  <2>5. \A i \in 1 .. NumItems : Open(i)' <=> Open(i)
    BY <1>0, <1>9 DEF Open
  <2>6. Open(m)'
    BY <1>0, <1>1, <2>1, <2>2, <2>5 DEF Open
  <2>7. ASSUME NEW k \in 1 .. n + 1
        PROVE  (/\ Item(k) \in itemIndex .. mtItemIndex - 1 /\ Open(Item(k))
                /\ info[threadIndices[k]].seq = refs[Item(k)].seq)'
    <3>1. CASE k = n + 1
      BY <1>0, <1>1, <1>7, <1>9, <1>11, <2>2, <2>4, <2>6, <3>1
    <3>2. CASE k \in 1 .. n
      <4>1. PICK i \in itemIndex .. m - 1 : i = Item(k)
        BY <2>1, <3>2
      <4>2. i \in 1 .. NumItems /\ i # m
        BY <2>2
      <4>3. Open(i)' /\ info'[s'[k]].seq = refs'[i].seq
        BY <1>9, <1>11, <2>1, <2>3, <2>5, <3>2, <4>1, <4>2
      <4> QED
        BY <1>0, <1>1, <2>2, <2>3, <3>2, <4>1, <4>3
    <3> QED
      BY <1>11, <3>1, <3>2
  <2>8. ASSUME NEW i \in itemIndex .. m, Open(i)'
        PROVE  \E k \in 1 .. n + 1 : Item(k)' = i
    <3>1. CASE i = m
      BY <1>10, <2>4, <3>1
    <3>2. CASE i # m
      <4>1. i \in itemIndex .. m - 1 /\ i \in 1 .. NumItems
        BY <2>2, <3>2
      <4>2. PICK k \in 1 .. n : Item(k) = i
        BY <2>1, <2>5, <2>8, <4>1
      <4> QED
        BY <1>11, <2>3, <4>2
    <3> QED
      BY <3>1, <3>2
  <2>9. ASSUME NEW j \in 1 .. n + 1, NEW k \in 1 .. n + 1, j < k PROVE Item(j)' < Item(k)'
    <3>1. j \in 1 .. n
      BY <1>10, <2>9
    <3>2. CASE k = n + 1
      BY <2>1, <2>2, <2>3, <2>4, <3>1, <3>2
    <3>3. CASE k \in 1 .. n
      BY <2>1, <2>3, <2>9, <3>1, <3>3
    <3> QED
      BY <1>11, <3>2, <3>3
  <2>10. \A i \in m + 1 .. NumItems : ~ refs'[i].skip /\ ~ refs'[i].finished
    BY <1>9, <2>1, <2>2
  <2> HIDE DEF s
  <2>11. Len(threadIndices') = n + 1
    BY <1>11 DEF s
  <2> QED
    BY <1>0, <1>1, <2>2, <2>7, <2>8, <2>9, <2>10, <2>11 DEF Items
<1>16. /\ stream[t].blocks \in Nat /\ mtItemIndex' \in 1 .. NumItems + 1
       /\ freeBlocks' = freeBlocks + stream[t].blocks /\ poolSem' = poolSem + stream[t].blocks
  <2>1. stream[t].blocks \in Nat
    BY <1>5 DEF StreamType
  <2>2. mtItemIndex' \in 1 .. NumItems + 1
    BY <1>0, <1>1, MainFacts
  <2>3. freeBlocks' = freeBlocks + stream[t].blocks /\ poolSem' = poolSem + stream[t].blocks
    BY <1>3 DEF FreeTo
  <2> QED
    BY <2>1, <2>2, <2>3
<1> QED
  BY <1>0, <1>5, <1>7, <1>8, <1>9, <1>11, <1>14, <1>15, <1>16, MainFacts, Build

-----------------------------------------------------------------------------
(* A thread has finished. *)

\* f tells the place in threadIndices of each one in Removed(t), when t is at a.
Places(f, t, a, n) ==
  /\ f \in [1 .. n - 1 -> (1 .. n) \ {a}]
  /\ \A k \in 1 .. n - 1 : Removed(t)[k] = threadIndices[f[k]]
  /\ \A j, k \in 1 .. n - 1 : j < k => f[j] < f[k]
  /\ \A i \in (1 .. n) \ {a} : \E k \in 1 .. n - 1 : f[k] = i

LEMMA RemovedPlaces ==
  ASSUME threadIndices \in Seq(Thread), NEW t, t \in In(threadIndices), NEW n \in Nat,
         n = Len(threadIndices)
  PROVE  /\ At(t) \in 1 .. n /\ threadIndices[At(t)] = t
         /\ Removed(t) \in Seq(Thread) /\ Len(Removed(t)) = n - 1
         /\ \E f : Places(f, t, At(t), n)
<1>1. PICK a \in 1 .. n : a = At(t)
  BY AtFacts
<1> DEFINE f == [k \in 1 .. n - 1 |-> IF k < a THEN k ELSE k + 1]
<1>2. f \in [1 .. n - 1 -> (1 .. n) \ {a}]
  OBVIOUS
<1>3. \A k \in 1 .. n - 1 : Removed(t)[k] = threadIndices[f[k]]
  BY <1>1, RemovedFacts
<1>4. \A j, k \in 1 .. n - 1 : j < k => f[j] < f[k]
  OBVIOUS
<1>5. ASSUME NEW i \in (1 .. n) \ {a} PROVE \E k \in 1 .. n - 1 : f[k] = i
  <2>1. CASE i < a
    <3>1. i \in 1 .. n - 1 /\ f[i] = i
      BY <2>1
    <3> QED
      BY <3>1
  <2>2. CASE ~ (i < a)
    <3>1. i - 1 \in 1 .. n - 1 /\ f[i - 1] = i
      BY <2>2
    <3> QED
      BY <3>1
  <2> QED
    BY <2>1, <2>2
<1> HIDE DEF f
<1>6. Places(f, t, a, n)
  BY <1>2, <1>3, <1>4, <1>5 DEF Places
<1> QED
  BY <1>1, <1>6, AtFacts, RemovedFacts

LEMMA RemovedSet ==
  ASSUME threadIndices \in Seq(Thread), Distinct(threadIndices), NEW t, t \in In(threadIndices)
  PROVE  /\ Distinct(Removed(t))
         /\ \A u : u \in In(Removed(t)) <=> u \in In(threadIndices) /\ u # t
<1>1. PICK n \in Nat : n = Len(threadIndices)
  OBVIOUS
<1>2. PICK a, f : /\ a \in 1 .. n /\ threadIndices[a] = t /\ Len(Removed(t)) = n - 1
                  /\ Places(f, t, a, n)
  BY <1>1, RemovedPlaces
<1>3. \A k \in 1 .. n - 1 : f[k] \in 1 .. n /\ f[k] # a /\ Removed(t)[k] = threadIndices[f[k]]
  BY <1>2 DEF Places
<1>4. \A j, k \in 1 .. n : threadIndices[j] = threadIndices[k] => j = k
  BY <1>1 DEF Distinct
<1>5. ASSUME NEW j \in 1 .. n - 1, NEW k \in 1 .. n - 1, Removed(t)[j] = Removed(t)[k]
      PROVE  j = k
  <2>1. f[j] = f[k] /\ f[j] \in Nat
    BY <1>3, <1>4, <1>5
  <2>2. ~ (j < k) /\ ~ (k < j)
    BY <1>2, <2>1 DEF Places
  <2> QED
    BY <2>2
<1>6. ASSUME NEW u \in In(Removed(t)) PROVE u \in In(threadIndices) /\ u # t
  <2>1. PICK k \in 1 .. n - 1 : u = Removed(t)[k]
    BY <1>2 DEF In
  <2>2. u = threadIndices[f[k]] /\ f[k] \in 1 .. n /\ f[k] # a
    BY <1>3, <2>1
  <2>3. u # t
    BY <1>2, <1>4, <2>2
  <2> QED
    BY <1>1, <2>2, <2>3 DEF In
<1>7. ASSUME NEW u \in In(threadIndices), u # t PROVE u \in In(Removed(t))
  <2>1. PICK i \in 1 .. n : u = threadIndices[i]
    BY <1>1 DEF In
  <2>2. PICK k \in 1 .. n - 1 : f[k] = i
    BY <1>2, <1>7, <2>1 DEF Places
  <2> QED
    BY <1>2, <1>3, <2>1, <2>2 DEF In
<1> QED
  BY <1>2, <1>5, <1>6, <1>7 DEF Distinct

LEMMA TailFacts ==
  ASSUME NEW s \in Seq(Thread), s # <<>>, Distinct(s)
  PROVE  /\ Head(s) \in Thread /\ Head(s) \in In(s) /\ Distinct(Tail(s))
         /\ \A u \in In(Tail(s)) : u \in In(s) /\ u # Head(s)
<1>1. PICK n \in Nat : n = Len(s)
  OBVIOUS
<1>2. /\ Head(s) = s[1] /\ Tail(s) \in Seq(Thread) /\ Len(Tail(s)) = n - 1 /\ n > 0
      /\ \A k \in 1 .. n - 1 : Tail(s)[k] = s[k + 1] /\ k + 1 \in 1 .. n
  BY <1>1, HeadTailProperties
<1>3. Head(s) \in Thread /\ Head(s) \in In(s)
  BY <1>1, <1>2 DEF In
<1>4. ASSUME NEW u \in In(Tail(s)) PROVE u \in In(s) /\ u # Head(s)
  <2>1. PICK k \in 1 .. n - 1 : u = s[k + 1]
    BY <1>2 DEF In
  <2>2. k + 1 \in 1 .. n /\ 1 \in 1 .. n /\ k + 1 # 1
    BY <1>2
  <2> QED
    BY <1>1, <1>2, <2>1, <2>2 DEF In, Distinct
<1>5. ASSUME NEW j \in 1 .. n - 1, NEW k \in 1 .. n - 1, Tail(s)[j] = Tail(s)[k] PROVE j = k
  <2>1. j + 1 = k + 1
    BY <1>1, <1>2, <1>5 DEF Distinct
  <2> QED
    BY <2>1
<1> QED
  BY <1>2, <1>3, <1>4, <1>5 DEF Distinct

\* Who is at the head of the list of those that are ready has a file
\* (ZipUpdate.cpp:1515-1527).
LEMMA ReadyFacts ==
  ASSUME IInv, main = "wait", readySem > 0
  PROVE  /\ ready # <<>> /\ Head(ready) \in Thread /\ Head(ready) \in In(threadIndices)
         /\ ~ info[Head(ready)].free /\ ~ info[Head(ready)].compress
         /\ pc[Head(ready)] \in {"post", "idle"} /\ Distinct(ready) /\ Distinct(threadIndices)
         /\ ready \in Seq(Thread)
<1>1. Cardinality(AtPc("post")) \in Nat
  BY ThreadsFinite, FS_Subset, FS_CardinalityType DEF AtPc
<1>2. ready \in Seq(Thread) /\ readySem \in Nat /\ readySem + Cardinality(AtPc("post")) = Len(ready)
  BY DEF IInv, Counted, Types, MainTypes
<1>3. ready # <<>>
  BY <1>1, <1>2
<1>4. Distinct(ready) /\ Distinct(threadIndices) /\ \A t \in Thread : Placed(t)
  BY DEF IInv, Threads, Live
<1>5. Head(ready) \in Thread /\ Head(ready) \in In(ready)
  BY <1>2, <1>3, <1>4, TailFacts
<1>6. Placed(Head(ready))
  BY <1>4, <1>5
<1> QED
  BY <1>2, <1>3, <1>4, <1>5, <1>6 DEF Placed

LEMMA FreedFacts ==
  ASSUME NEW V, info \in [Thread -> InfoType(V)], NEW t \in Thread,
         info' = [info EXCEPT ![t].free = TRUE]
  PROVE  /\ info' \in [Thread -> InfoType(V)] /\ info'[t].free
         /\ info'[t].compress = info[t].compress
         /\ \A u \in Thread : /\ info'[u].item = info[u].item /\ info'[u].seq = info[u].seq
                              /\ info'[u].result = info[u].result
                              /\ u # t => info'[u] = info[u]
<1> DEFINE d == [info[t] EXCEPT !.free = TRUE]
<1>0. info[t] \in InfoType(V)
  OBVIOUS
<1>1. /\ d \in InfoType(V) /\ d.free /\ d.compress = info[t].compress
      /\ d.item = info[t].item /\ d.seq = info[t].seq /\ d.result = info[t].result
  BY <1>0 DEF InfoType
<1>2. info' = [info EXCEPT ![t] = d]
  OBVIOUS
<1> HIDE DEF d
<1> QED
  BY <1>1, <1>2

\* It is taken out of both lists.
LEMMA CollectThreads ==
  ASSUME IInv, main = "wait", readySem > 0, NEW V, Records(V), NEW t \in Thread, t = Head(ready),
         ready' = Tail(ready), threadIndices' = Removed(t), pc' = pc,
         info' = [info EXCEPT ![t].free = TRUE]
  PROVE  Threads'
<1>1. /\ ready # <<>> /\ t \in In(threadIndices) /\ ~ info[t].compress
      /\ pc[t] \in {"post", "idle"} /\ Distinct(ready) /\ Distinct(threadIndices)
      /\ ready \in Seq(Thread) /\ threadIndices \in Seq(Thread)
  BY ReadyFacts, MainFacts
<1>2. /\ info'[t].free /\ info'[t].compress = info[t].compress
      /\ \A u \in Thread : u # t => info'[u] = info[u]
  BY SameFacts, FreedFacts
<1>3. /\ Distinct(Removed(t))
      /\ \A u : u \in In(Removed(t)) <=> u \in In(threadIndices) /\ u # t
  BY <1>1, RemovedSet
<1>4. Distinct(Tail(ready)) /\ \A u \in In(Tail(ready)) : u \in In(ready) /\ u # t
  BY <1>1, TailFacts
<1>5. \A u \in Thread : Placed(u)
  BY DEF IInv, Threads, Live
<1>6. ASSUME NEW u \in Thread PROVE Placed(u)'
  <2>1. CASE u = t
    BY <1>1, <1>2, <1>3, <1>4, <2>1 DEF Placed, In
  <2>2. CASE u # t
    <3>1. Placed(u) /\ info'[u] = info[u]
      BY <1>2, <1>5, <2>2
    <3>2. /\ u \in In(threadIndices)' <=> u \in In(threadIndices)
          /\ u \in In(ready)' => u \in In(ready)
      BY <1>3, <1>4, <2>2 DEF In
    <3> QED
      BY <3>1, <3>2 DEF Placed
  <2> QED
    BY <2>1, <2>2
<1>7. Distinct(threadIndices)' /\ Distinct(ready)'
  BY <1>3, <1>4 DEF Distinct
<1> QED
  BY <1>6, <1>7 DEF Threads

\* The first in threadIndices has the item that is due (ZipUpdate.cpp:1538).
LEMMA FrontIsDue ==
  ASSUME IInv, main = "wait", NEW t \in Thread, t \in In(threadIndices), At(t) = 1
  PROVE  /\ info[t].item = itemIndex /\ info[t].seq = refs[itemIndex].seq
         /\ itemIndex \in 1 .. NumItems /\ itemIndex < mtItemIndex
<1>1. PICK n \in Nat : n = Len(threadIndices)
  BY MainFacts
<1>2. 1 \in 1 .. n /\ threadIndices[1] = t
  BY <1>1, MainFacts, AtFacts
<1>3. /\ \A k \in 1 .. n : /\ Item(k) \in itemIndex .. mtItemIndex - 1
                           /\ info[threadIndices[k]].seq = refs[Item(k)].seq
      /\ \A j, k \in 1 .. n : j < k => Item(j) < Item(k)
      /\ itemIndex < mtItemIndex /\ \E k \in 1 .. n : Item(k) = itemIndex
  BY <1>1, MainFacts DEF IInv, Items, Live
<1>4. Item(1) = itemIndex
  <2>1. PICK k \in 1 .. n : Item(k) = itemIndex
    BY <1>3
  <2>2. CASE k = 1
    BY <2>1, <2>2
  <2>3. CASE k # 1
    <3>1. 1 < k /\ Item(1) < itemIndex /\ Item(1) \in itemIndex .. mtItemIndex - 1
      BY <1>2, <1>3, <2>1, <2>3
    <3> QED
      BY <3>1, MainFacts
  <2> QED
    BY <2>2, <2>3
<1> QED
  BY <1>2, <1>3, <1>4, MainFacts DEF Item

\* What Collect does in any case.
Taken(t) ==
  /\ main = "wait" /\ readySem > 0 /\ readySem' = readySem - 1
  /\ t = Head(ready) /\ ready' = Tail(ready)
  /\ info' = [info EXCEPT ![t].free = TRUE]
  /\ UNCHANGED <<items, mtItemIndex, pc>>

LEMMA FrontItems ==
  ASSUME IInv, NEW t \in Thread, Taken(t), At(t) = 1, NextItem, threadIndices' = Removed(t),
         refs' = refs
  PROVE  Items'
<1>1. PICK n \in Nat : n = Len(threadIndices) /\ threadIndices \in Seq(Thread)
  BY MainFacts
<1>2. t \in In(threadIndices) /\ main = "wait" /\ Distinct(threadIndices)
  BY ReadyFacts DEF Taken
<1>3. /\ info[t].item = itemIndex /\ itemIndex \in 1 .. NumItems /\ itemIndex < mtItemIndex
  BY <1>2, FrontIsDue
<1>4. PICK f : Places(f, t, 1, n) /\ threadIndices[1] = t /\ 1 \in 1 .. n
  BY <1>1, <1>2, RemovedPlaces
<1>5. Removed(t) \in Seq(Thread) /\ Len(Removed(t)) = n - 1
  BY <1>1, <1>2, RemovedPlaces
<1>6. \A j, k \in 1 .. n : j < k => Item(j) < Item(k)
  BY <1>1, <1>2 DEF IInv, Items, Live
<1>7. \A k \in 1 .. n - 1 : /\ f[k] \in 2 .. n /\ Removed(t)[k] = threadIndices[f[k]]
                            /\ info[Removed(t)[k]].item = Item(f[k])
  BY <1>4 DEF Places, Item
<1>8. Item(1) = itemIndex
  BY <1>3, <1>4 DEF Item
<1>9. \A k \in 1 .. n - 1 : /\ Removed(t)[k] \in In(threadIndices) /\ Removed(t)[k] \in Thread
                            /\ info[Removed(t)[k]].item # itemIndex
  <2>1. ASSUME NEW k \in 1 .. n - 1 PROVE Removed(t)[k] \in In(threadIndices) /\ Removed(t)[k] \in Thread
    BY <1>1, <1>7 DEF In
  <2>2. ASSUME NEW k \in 1 .. n - 1 PROVE info[Removed(t)[k]].item # itemIndex
    <3>1. f[k] \in 1 .. n /\ 1 < f[k] /\ 1 \in 1 .. n
      BY <1>4, <1>7
    <3>2. Item(1) < Item(f[k])
      BY <1>6, <3>1
    <3> QED
      BY <1>3, <1>7, <1>8, <3>2
  <2> QED
    BY <2>1, <2>2
<1>10. \A j, k \in 1 .. n - 1 : j < k => info[Removed(t)[j]].item < info[Removed(t)[k]].item
  <2>1. ASSUME NEW j \in 1 .. n - 1, NEW k \in 1 .. n - 1, j < k
        PROVE  info[Removed(t)[j]].item < info[Removed(t)[k]].item
    <3>1. f[j] < f[k] /\ f[j] \in 1 .. n /\ f[k] \in 1 .. n
      BY <1>4, <1>7, <2>1 DEF Places
    <3> QED
      BY <1>6, <1>7, <3>1
  <2> QED
    BY <2>1
<1>11. \A k \in 1 .. n : Item(k) # itemIndex => threadIndices[k] \in In(Removed(t))
  <2>1. ASSUME NEW k \in 1 .. n, Item(k) # itemIndex PROVE threadIndices[k] \in In(Removed(t))
    <3>1. k \in (1 .. n) \ {1}
      BY <1>8, <2>1
    <3>2. PICK j \in 1 .. n - 1 : f[j] = k
      BY <1>4, <3>1 DEF Places
    <3> QED
      BY <1>5, <1>7, <3>2 DEF In
  <2> QED
    BY <2>1
<1>12. /\ \A u \in Thread : info'[u].item = info[u].item /\ info'[u].seq = info[u].seq
  <2>1. PICK V : Records(V)
    BY DEF IInv, Types
  <2> QED
    BY <2>1, SameFacts, FreedFacts DEF Taken
<1>13. /\ itemIndex' = itemIndex + 1 /\ main' = "loop" /\ UNCHANGED <<items, mtItemIndex>> /\ Live
       /\ itemIndex <= NumItems
  BY <1>2, <1>3, MainFacts DEF NextItem, GoOn, Taken, Live
<1> DEFINE s == Removed(t)
<1> HIDE DEF s
<1>14. /\ s \in Seq(Thread) /\ threadIndices' = s
       /\ \A k \in 1 .. Len(s) : /\ info'[s[k]].item = info[s[k]].item
                                 /\ info'[s[k]].seq = info[s[k]].seq
                                 /\ s[k] \in In(threadIndices) /\ info[s[k]].item # itemIndex
       /\ \A j, k \in 1 .. Len(s) : j < k => info[s[j]].item < info[s[k]].item
       /\ \A k \in 1 .. Len(threadIndices) : Item(k) # itemIndex => threadIndices[k] \in In(s)
  BY <1>1, <1>5, <1>9, <1>10, <1>11, <1>12 DEF s
<1> QED
  BY <1>3, <1>13, <1>14, NextFacts

\* The item of another thread is finished ahead of its turn.
LEMMA OtherItems ==
  ASSUME IInv, NEW t \in Thread, Taken(t), At(t) > 1, GoOn("loop"), itemIndex' = itemIndex,
         threadIndices' = Removed(t), NEW m, m = info[t].item,
         refs'[m].finished,
         \A i \in 1 .. NumItems : i # m => refs'[i] = refs[i]
  PROVE  Items'
<1>1. PICK n \in Nat : n = Len(threadIndices) /\ threadIndices \in Seq(Thread)
  BY MainFacts
<1>2. t \in In(threadIndices) /\ main = "wait"
  BY ReadyFacts DEF Taken
<1>3. PICK a, f : a \in 1 .. n /\ Places(f, t, a, n) /\ threadIndices[a] = t /\ a > 1
  BY <1>1, <1>2, RemovedPlaces
<1>4. Removed(t) \in Seq(Thread) /\ Len(Removed(t)) = n - 1
  BY <1>1, <1>2, RemovedPlaces
<1>5. /\ \A k \in 1 .. n : /\ Item(k) \in itemIndex .. mtItemIndex - 1 /\ Open(Item(k))
                           /\ info[threadIndices[k]].seq = refs[Item(k)].seq
      /\ \A j, k \in 1 .. n : j < k => Item(j) < Item(k)
      /\ \A i \in itemIndex .. mtItemIndex - 1 : Open(i) => \E k \in 1 .. n : Item(k) = i
      /\ \A i \in mtItemIndex .. NumItems : ~ refs[i].skip /\ ~ refs[i].finished
      /\ itemIndex <= mtItemIndex
  BY <1>1, <1>2 DEF IInv, Items, Live
<1>6. Item(a) = m /\ m \in itemIndex .. mtItemIndex - 1
  BY <1>3, <1>5 DEF Item
<1>7. /\ itemIndex \in 1 .. NumItems + 1 /\ mtItemIndex \in 1 .. NumItems + 1 /\ NumItems \in Nat
      /\ NumItems' = NumItems
  BY MainFacts DEF Taken, NumItems
<1>8. \A u \in Thread : info'[u].item = info[u].item /\ info'[u].seq = info[u].seq
  <2>1. PICK V : Records(V)
    BY DEF IInv, Types
  <2> QED
    BY <2>1, SameFacts, FreedFacts DEF Taken
<1>9. \A k \in 1 .. n - 1 : /\ f[k] \in 1 .. n /\ f[k] # a
                            /\ Removed(t)[k] = threadIndices[f[k]]
                            /\ info[Removed(t)[k]].item = Item(f[k]) /\ Removed(t)[k] \in Thread
  <2>1. \A k \in 1 .. n - 1 : f[k] \in 1 .. n /\ f[k] # a /\ Removed(t)[k] = threadIndices[f[k]]
    BY <1>3 DEF Places
  <2>2. \A j \in 1 .. n : threadIndices[j] \in Thread
    BY <1>1
  <2> QED
    BY <2>1, <2>2 DEF Item
<1>10. \A k \in 1 .. n - 1 : Item(k)' = Item(f[k])
  BY <1>4, <1>8, <1>9 DEF Item
<1>11. ~ Open(m)' /\ \A i \in 1 .. NumItems : i # m => (Open(i)' <=> Open(i)) /\ refs'[i] = refs[i]
  BY DEF Open, Taken
<1>12. ASSUME NEW k \in 1 .. n - 1
       PROVE  (/\ Item(k) \in itemIndex .. mtItemIndex - 1 /\ Open(Item(k))
               /\ info[threadIndices[k]].seq = refs[Item(k)].seq)'
  <2>1. PICK i \in itemIndex .. mtItemIndex - 1 : i = Item(f[k])
    BY <1>5, <1>9
  <2>2. i # m /\ i \in 1 .. NumItems
    <3>1. f[k] \in 1 .. n /\ (f[k] < a \/ a < f[k])
      BY <1>1, <1>3, <1>9
    <3>2. i < m \/ m < i
      BY <1>3, <1>5, <1>6, <2>1, <3>1
    <3> QED
      BY <1>6, <1>7, <3>2
  <2>3. Open(i)' /\ refs'[i] = refs[i] /\ refs[i].seq = info[threadIndices[f[k]]].seq
    BY <1>5, <1>9, <1>11, <2>1, <2>2
  <2>4. info'[Removed(t)[k]].seq = refs'[i].seq
    BY <1>8, <1>9, <2>3
  <2> QED
    BY <1>10, <2>1, <2>3, <2>4 DEF Taken
<1>13. ASSUME NEW j \in 1 .. n - 1, NEW k \in 1 .. n - 1, j < k PROVE Item(j)' < Item(k)'
  <2>1. f[j] < f[k] /\ f[j] \in 1 .. n /\ f[k] \in 1 .. n
    BY <1>3, <1>9, <1>13 DEF Places
  <2> QED
    BY <1>5, <1>10, <2>1
<1>14. ASSUME NEW i \in itemIndex .. mtItemIndex - 1, Open(i)'
       PROVE  \E k \in 1 .. n - 1 : Item(k)' = i
  <2>1. i # m /\ i \in 1 .. NumItems
    BY <1>7, <1>11, <1>14
  <2>2. PICK j \in 1 .. n : Item(j) = i
    BY <1>5, <1>11, <1>14, <2>1
  <2>3. j \in (1 .. n) \ {a}
    BY <1>6, <2>1, <2>2
  <2>4. PICK k \in 1 .. n - 1 : f[k] = j
    BY <1>3, <2>3 DEF Places
  <2> QED
    BY <1>10, <2>2, <2>4
<1>15. \A i \in mtItemIndex .. NumItems : ~ refs'[i].skip /\ ~ refs'[i].finished
  <2>1. ASSUME NEW i \in mtItemIndex .. NumItems PROVE ~ refs'[i].skip /\ ~ refs'[i].finished
    <3>1. i # m /\ i \in 1 .. NumItems
      BY <1>6, <1>7
    <3> QED
      BY <1>5, <1>11, <3>1
  <2> QED
    BY <2>1
<1>16. Len(threadIndices') = n - 1 /\ itemIndex' = itemIndex /\ mtItemIndex' = mtItemIndex
       /\ main' = "loop"
  BY <1>4 DEF Taken, GoOn
<1> QED
  BY <1>5, <1>7, <1>12, <1>13, <1>14, <1>15, <1>16 DEF Items

\* Build, for a step that takes a thread from the list of those that are ready.
LEMMA TakenInv ==
  ASSUME IInv, NEW t \in Thread, Taken(t), NEW V, Records(V),
         stream' \in [Thread -> StreamType(V)], refs' \in [1 .. NumItems -> RefType(V)],
         \A u \in Thread : HasAll(stream'[u]), \A i \in 1 .. NumItems : HasAll(refs'[i]),
         threadIndices' \in Seq(Thread), itemIndex' \in 1 .. NumItems + 1, main' \in MainPc,
         hres' \in {"ok", "write"}, main' \in {"stop", "join"} => stopping' \in Thread,
         NEW n \in Nat, freeBlocks' = freeBlocks + n, poolSem' = poolSem + n,
         result' # "internal", Threads', Items'
  PROVE  IInv'
<1>1. /\ main = "wait" /\ readySem > 0 /\ readySem' = readySem - 1 /\ ready' = Tail(ready)
      /\ info' = [info EXCEPT ![t].free = TRUE] /\ UNCHANGED <<items, mtItemIndex, pc>>
  BY DEF Taken
<1>2. ready # <<>>
  BY <1>1, ReadyFacts
<1>3. info' \in [Thread -> InfoType(V)] /\ \A u \in Thread : info'[u].result = info[u].result
  BY <1>1, SameFacts, FreedFacts
<1>4. <<>> \in V /\ 0 \in V /\ \A u \in Thread : info[u].result # "internal"
  BY SameFacts
<1>5. mtItemIndex' \in 1 .. NumItems + 1
  BY <1>1, MainFacts
<1> QED
  BY <1>1, <1>2, <1>3, <1>4, <1>5, Build

\* The front is done (ZipUpdate.cpp:1536-1560).
LEMMA FrontInv ==
  ASSUME IInv, NEW t \in Thread, Taken(t), At(t) = 1, FrontDone(t)
  PROVE  IInv'
<1>0. main = "wait" /\ readySem > 0 /\ t = Head(ready) /\ ready' = Tail(ready) /\ pc' = pc
      /\ info' = [info EXCEPT ![t].free = TRUE]
  BY DEF Taken
<1>1. t \in In(threadIndices)
  BY <1>0, ReadyFacts
<1>2. /\ info[t].item = itemIndex /\ info[t].seq = refs[itemIndex].seq
      /\ itemIndex \in 1 .. NumItems
  BY <1>0, <1>1, FrontIsDue
<1>3. PICK V : Records(V)
  BY DEF IInv, Types
<1>4. HasAll(stream[t]) /\ stream[t] \in StreamType(V) /\ <<>> \in V
  BY <1>3, SameFacts
<1>5. /\ threadIndices' = Removed(t) /\ refs' = refs
      /\ \/ /\ stream' = [stream EXCEPT ![t] = Emptied(stream[t])] /\ FreeTo(stream[t].blocks)
            /\ NextItem /\ hres' = hres
         \/ /\ Leave("write") /\ hres' = "write"
            /\ UNCHANGED <<itemIndex, stream, freeBlocks, poolSem>>
  BY <1>2, <1>4 DEF FrontDone, WriteFails, poolVars
<1>6. Threads'
  BY <1>0, <1>3, <1>5, CollectThreads
<1>7. Removed(t) \in Seq(Thread)
  BY <1>1, MainFacts, RemovedFacts
<1>8. /\ refs' \in [1 .. NumItems -> RefType(V)] /\ \A i \in 1 .. NumItems : HasAll(refs'[i])
      /\ stream \in [Thread -> StreamType(V)] /\ \A u \in Thread : HasAll(stream[u])
  BY <1>3, <1>5, SameFacts
<1>9. CASE /\ stream' = [stream EXCEPT ![t] = Emptied(stream[t])] /\ FreeTo(stream[t].blocks)
           /\ NextItem /\ hres' = hres
  <2>1. Items'
    BY <1>5, <1>9, FrontItems
  <2>2. Emptied(stream[t]) \in StreamType(V) /\ Emptied(stream[t]).total = 0
    BY <1>4, EmptiedFacts
  <2>3. 0 <= Emptied(stream[t]).blocks * BlockSize
    BY <2>2, ZipUpdateAssumption DEF StreamType
  <2>4. HasAll(Emptied(stream[t]))
    BY <2>2, <2>3 DEF HasAll
  <2>5. stream' \in [Thread -> StreamType(V)] /\ \A u \in Thread : HasAll(stream'[u])
    BY <1>8, <1>9, <2>2, <2>4
  <2>6. stream[t].blocks \in Nat
    BY <1>4 DEF StreamType
  <2>7. freeBlocks' = freeBlocks + stream[t].blocks /\ poolSem' = poolSem + stream[t].blocks
    BY <1>9 DEF FreeTo
  <2>8. itemIndex' \in 1 .. NumItems + 1 /\ main' = "loop" /\ result' # "internal"
        /\ hres' \in {"ok", "write"}
    BY <1>2, <1>9, MainFacts DEF NextItem, GoOn
  <2> QED
    BY <1>3, <1>5, <1>6, <1>7, <1>8, <2>1, <2>5, <2>6, <2>7, <2>8, TakenInv DEF MainPc
<1>10. CASE /\ Leave("write") /\ hres' = "write"
            /\ UNCHANGED <<itemIndex, stream, freeBlocks, poolSem>>
  <2>1. main' = "stop" /\ result' = "write" /\ stopping' \in Thread /\ itemIndex' \in 1 .. NumItems + 1
    BY <1>10, MainFacts DEF Leave
  <2>2. Items'
    BY <2>1 DEF Items, Live
  <2>3. freeBlocks' = freeBlocks + 0 /\ poolSem' = poolSem + 0
    BY <1>3, <1>10, SameFacts
  <2> QED
    BY <1>3, <1>5, <1>6, <1>7, <1>8, <1>10, <2>1, <2>2, <2>3, TakenInv DEF MainPc
<1> QED
  BY <1>5, <1>9, <1>10

\* Another thread is done (ZipUpdate.cpp:1562-1570).
LEMMA OtherInv ==
  ASSUME IInv, NEW t \in Thread, Taken(t), At(t) > 1, OtherDone(t)
  PROVE  IInv'
<1>0. main = "wait" /\ readySem > 0 /\ t = Head(ready) /\ ready' = Tail(ready) /\ pc' = pc
      /\ info' = [info EXCEPT ![t].free = TRUE]
  BY DEF Taken
<1>1. t \in In(threadIndices)
  BY <1>0, ReadyFacts
<1>2. PICK m \in 1 .. NumItems : m = info[t].item
  <2>1. PICK n \in Nat : n = Len(threadIndices)
    BY MainFacts
  <2>2. At(t) \in 1 .. n /\ threadIndices[At(t)] = t
    BY <1>1, <2>1, MainFacts, AtFacts
  <2>3. info[t].item \in itemIndex .. mtItemIndex - 1
    BY <1>0, <2>1, <2>2 DEF IInv, Items, Item, Live
  <2> QED
    BY <2>3, MainFacts
<1> DEFINE q == info[t].pack
           s == stream[t]
           r == refs[m]
<1>3. PICK V : /\ Records(V) /\ Detached(r, s, q).mem \in V
  BY WithOne
<1>4. /\ s \in StreamType(V) /\ r \in RefType(V) /\ q \in V /\ HasAll(s) /\ <<>> \in V
      /\ stream \in [Thread -> StreamType(V)] /\ \A u \in Thread : HasAll(stream[u])
      /\ refs \in [1 .. NumItems -> RefType(V)] /\ \A i \in 1 .. NumItems : HasAll(refs[i])
  BY <1>3, SameFacts DEF InfoType
<1>5. /\ threadIndices' = Removed(t) /\ refs' = [refs EXCEPT ![m] = Detached(r, s, q)]
      /\ stream' = [stream EXCEPT ![t] = Emptied(s)] /\ FreeTo(Surplus(s))
      /\ GoOn("loop") /\ itemIndex' = itemIndex /\ hres' = hres
  BY <1>2 DEF OtherDone, archiveVars
<1> HIDE DEF q, s, r
<1>6. /\ Detached(r, s, q) \in RefType(V) /\ HasAll(Detached(r, s, q))
      /\ Detached(r, s, q).finished = TRUE
  BY <1>3, <1>4, DetachedFacts, Zenon
<1>7. /\ refs' \in [1 .. NumItems -> RefType(V)] /\ \A i \in 1 .. NumItems : HasAll(refs'[i])
      /\ refs'[m].finished /\ \A i \in 1 .. NumItems : i # m => refs'[i] = refs[i]
  BY <1>4, <1>5, <1>6
<1>8. Emptied(s) \in StreamType(V) /\ HasAll(Emptied(s))
  <2>1. Emptied(s) \in StreamType(V) /\ Emptied(s).total = 0
    BY <1>4, EmptiedFacts
  <2>2. 0 <= Emptied(s).blocks * BlockSize
    BY <2>1, ZipUpdateAssumption DEF StreamType
  <2> QED
    BY <2>1, <2>2 DEF HasAll
<1>9. stream' \in [Thread -> StreamType(V)] /\ \A u \in Thread : HasAll(stream'[u])
  BY <1>4, <1>5, <1>8
<1>10. Threads'
  BY <1>0, <1>3, <1>5, CollectThreads
<1>11. Items'
  BY <1>2, <1>5, <1>7, OtherItems
<1>12. Removed(t) \in Seq(Thread)
  BY <1>1, MainFacts, RemovedFacts
<1>13. Surplus(s) \in Nat
  <2>1. s.blocks \in Nat /\ s.total \in Nat
    BY <1>4 DEF StreamType
  <2>2. Kept(s) \in 0 .. s.blocks
    BY <1>4, <2>1, KeptIsEnough
  <2> QED
    BY <2>1, <2>2 DEF Surplus
<1>14. freeBlocks' = freeBlocks + Surplus(s) /\ poolSem' = poolSem + Surplus(s)
  BY <1>5 DEF FreeTo
<1>15. main' = "loop" /\ result' # "internal" /\ itemIndex' \in 1 .. NumItems + 1
       /\ hres' \in {"ok", "write"}
  BY <1>5, MainFacts DEF GoOn
<1> QED
  BY <1>3, <1>5, <1>7, <1>9, <1>10, <1>11, <1>12, <1>13, <1>14, <1>15, TakenInv DEF MainPc

LEMMA CollectInv == ASSUME IInv, Collect PROVE IInv'
<1>1. main = "wait" /\ readySem > 0 /\ ready # <<>> /\ Head(ready) \in Thread
  BY ReadyFacts DEF Collect
<1>2. PICK t \in Thread : t = Head(ready)
  BY <1>1
<1>3. Taken(t)
  BY <1>1, <1>2 DEF Collect, Taken, requestVars
<1>4. t \in In(threadIndices) /\ threadIndices \in Seq(Thread)
  BY <1>1, <1>2, ReadyFacts, MainFacts
<1>5. At(t) # 0
  BY <1>4, AtFacts
<1>6. CASE At(t) = 1 /\ FrontDone(t)
  BY <1>3, <1>6, FrontInv
<1>7. CASE At(t) > 1 /\ OtherDone(t)
  BY <1>3, <1>7, OtherInv
<1>8. CASE /\ info[t].result # "ok" /\ Leave(info[t].result)
           /\ UNCHANGED <<itemIndex, threadIndices, refs, hres, freeBlocks, poolSem, stream>>
  <2>1. PICK V : Records(V)
    BY DEF IInv, Types
  <2>2. main' = "stop" /\ result' # "internal" /\ stopping' \in Thread
    BY <1>8, <2>1, MainFacts, SameFacts DEF Leave
  <2>3. Threads' /\ Items'
    BY <2>2 DEF Threads, Items, Live
  <2>4. /\ stream' \in [Thread -> StreamType(V)] /\ \A u \in Thread : HasAll(stream'[u])
        /\ refs' \in [1 .. NumItems -> RefType(V)] /\ \A i \in 1 .. NumItems : HasAll(refs'[i])
        /\ freeBlocks' = freeBlocks + 0 /\ poolSem' = poolSem + 0
    BY <1>8, <2>1, SameFacts
  <2>5. threadIndices' \in Seq(Thread) /\ itemIndex' \in 1 .. NumItems + 1
        /\ hres' \in {"ok", "write"}
    BY <1>8, MainFacts
  <2> QED
    BY <1>3, <2>1, <2>2, <2>3, <2>4, <2>5, TakenInv DEF MainPc
<1> QED
  BY <1>1, <1>2, <1>5, <1>6, <1>7, <1>8 DEF Collect, archiveVars, poolVars

-----------------------------------------------------------------------------
(* The theorem. *)

LEMMA MainInv == ASSUME IInv, MainStep PROVE IInv'
  BY PassOverInv, CannotStartInv, StartFileInv, SkipItemInv, CopyOldInv, CopyFinishedInv,
     OpenFrontInv, CollectInv, WriteCentralDirInv, StopThreadInv, JoinThreadInv DEF MainStep

LEMMA StutterInv == ASSUME IInv, UNCHANGED vars PROVE IInv'
<1>1. /\ UNCHANGED listVars /\ UNCHANGED <<info, stream, refs, threadIndices>>
      /\ UNCHANGED <<main, itemIndex, mtItemIndex, hres, stopping, result>>
  BY DEF vars, listVars, requestVars, mainVars, archiveVars, poolVars, semVars, threadVars
<1>2. Live' => Live /\ Items'
  BY <1>1 DEF IInv, Items, Live, Item, Open, NumItems, listVars
<1> QED
  BY <1>1, <1>2, MainFacts, Steady

LEMMA Impossible == ASSUME IInv PROVE NoInternalError
  BY DEF IInv, Clean, Full, NoInternalError

\* What the code takes for impossible is impossible, whatever fails
\* (ZipUpdate.cpp:1361, 1515, 1527, 1538, 1541; OutMemStream.cpp:115; MemBlocks.cpp:159).
THEOREM NothingImpossible == Spec => []NoInternalError
<1>1. Init => IInv
  BY InitInv
<1>2. IInv /\ [Next]_vars => IInv'
  <2> SUFFICES ASSUME IInv, [Next]_vars PROVE IInv'
    OBVIOUS
  <2>1. CASE MainStep
    BY <2>1, MainInv
  <2>2. CASE \E t \in Thread : ThreadStep(t)
    BY <2>2, ThreadInv
  <2>3. CASE UNCHANGED vars
    BY <2>3, StutterInv
  <2> QED
    BY <2>1, <2>2, <2>3 DEF Next, Terminating
<1>3. IInv => NoInternalError
  BY Impossible
<1> QED
  BY <1>1, <1>2, <1>3, PTL DEF Spec

-----------------------------------------------------------------------------
(* The blocks of the pool. *)

\* g has the sums of the blocks of the first entries of n, up to m.
Sums(n, m, g) ==
  /\ g \in [0 .. m -> Nat] /\ g[0] = 0
  /\ \A k \in 1 .. m : g[k] = g[k - 1] + n[k].blocks

LEMMA SumsExist ==
  ASSUME NEW n, NEW m \in Nat, \A k \in 1 .. m : n[k].blocks \in Nat
  PROVE  \E g : Sums(n, m, g)
<1> DEFINE bad == {l \in 0 .. m : ~ \E g : Sums(n, l, g)}
<1> SUFFICES ASSUME bad # {} PROVE FALSE
  OBVIOUS
<1>1. PICK l \in bad : \A j \in bad : l <= j
  <2>1. bad \subseteq Nat
    OBVIOUS
  <2> QED
    BY <2>1, Least
<1>2. CASE l = 0
  <2>1. Sums(n, 0, [k \in 0 .. 0 |-> 0])
    BY DEF Sums
  <2> QED
    BY <1>1, <1>2, <2>1
<1>3. CASE l # 0
  <2>1. l \in Nat /\ l - 1 \in 0 .. m /\ l \in 1 .. m /\ l - 1 \in Nat /\ ~ (l <= l - 1)
    BY <1>1, <1>3
  <2>2. PICK g : Sums(n, l - 1, g)
    BY <1>1, <2>1
  <2> DEFINE h == [k \in 0 .. l |-> IF k = l THEN g[l - 1] + n[l].blocks ELSE g[k]]
  <2>3. n[l].blocks \in Nat /\ g[l - 1] \in Nat
    BY <2>1, <2>2 DEF Sums
  <2>4. h \in [0 .. l -> Nat]
    <3>1. \A k \in 0 .. l : k # l => g[k] \in Nat
      BY <2>1, <2>2 DEF Sums
    <3> QED
      BY <2>3, <3>1
  <2>5. \A k \in 1 .. l : h[k] = h[k - 1] + n[k].blocks
    <3>1. \A k \in 1 .. l : k # l => g[k] = g[k - 1] + n[k].blocks
      BY <2>1, <2>2 DEF Sums
    <3>2. \A k \in 1 .. l : k # l => k \in 0 .. l /\ k - 1 \in 0 .. l /\ k - 1 # l
      BY <2>1
    <3>3. l \in 0 .. l /\ l - 1 \in 0 .. l /\ l - 1 # l
      BY <2>1
    <3> QED
      BY <3>1, <3>2, <3>3
  <2>6. h[0] = 0
    BY <1>3, <2>1, <2>2 DEF Sums
  <2>7. Sums(n, l, h)
    BY <2>4, <2>5, <2>6 DEF Sums
  <2> QED
    BY <1>1, <2>7
<1> QED
  BY <1>2, <1>3

\* What BlocksIn is.
LEMMA BlocksAdd ==
  ASSUME NEW n, NEW m \in Nat, \A k \in 1 .. m : n[k].blocks \in Nat
  PROVE  \E g : Sums(n, m, g) /\ BlocksIn(n, m) = g[m]
<1> DEFINE IsSum(f) == f = [k \in 0 .. m |-> IF k = 0 THEN 0 ELSE f[k - 1] + n[k].blocks]
           sum == CHOOSE f : IsSum(f)
<1>1. PICK g : Sums(n, m, g)
  BY SumsExist
<1>2. IsSum(g)
  BY <1>1 DEF Sums
<1>3. IsSum(sum)
  BY <1>2, Zenon
<1>4. BlocksIn(n, m) = sum[m]
  BY DEF BlocksIn
<1> HIDE DEF sum
<1>5. \A k \in 0 .. m : sum[k] = IF k = 0 THEN 0 ELSE sum[k - 1] + n[k].blocks
  BY <1>3, Zenon
<1>6. \A k \in 0 .. m : sum[k] = g[k]
  <2> DEFINE bad == {k \in 0 .. m : sum[k] # g[k]}
  <2> SUFFICES ASSUME bad # {} PROVE FALSE
    OBVIOUS
  <2>1. PICK k \in bad : \A j \in bad : k <= j
    <3>1. bad \subseteq Nat
      OBVIOUS
    <3> QED
      BY <3>1, Least
  <2>2. k # 0
    BY <1>1, <1>5, <2>1 DEF Sums
  <2>3. k \in 1 .. m /\ k - 1 \in 0 .. m /\ ~ (k <= k - 1)
    BY <2>1, <2>2
  <2>4. sum[k - 1] = g[k - 1]
    BY <2>1, <2>3
  <2> QED
    BY <1>1, <1>5, <2>1, <2>2, <2>3, <2>4 DEF Sums
<1> QED
  BY <1>1, <1>4, <1>6

\* One entry has other blocks than before.
LEMMA BlocksChange ==
  ASSUME NEW n, NEW m \in Nat, \A k \in 1 .. m : n[k].blocks \in Nat,
         NEW o, \A k \in 1 .. m : o[k].blocks \in Nat,
         NEW i \in 1 .. m, \A k \in 1 .. m : k # i => o[k].blocks = n[k].blocks
  PROVE  /\ BlocksIn(n, m) \in Nat /\ n[i].blocks <= BlocksIn(n, m)
         /\ BlocksIn(o, m) = BlocksIn(n, m) - n[i].blocks + o[i].blocks
<1>1. PICK f : Sums(n, m, f) /\ BlocksIn(n, m) = f[m]
  BY BlocksAdd
<1>2. PICK g : Sums(o, m, g) /\ BlocksIn(o, m) = g[m]
  BY BlocksAdd
<1> DEFINE Right(k) == /\ k < i => g[k] = f[k]
                       /\ k >= i => n[i].blocks <= f[k] /\ g[k] = f[k] - n[i].blocks + o[i].blocks
           bad == {k \in 0 .. m : ~ Right(k)}
<1>3. bad = {}
  <2> SUFFICES ASSUME bad # {} PROVE FALSE
    OBVIOUS
  <2>1. PICK k \in bad : \A j \in bad : k <= j
    <3>1. bad \subseteq Nat
      OBVIOUS
    <3> QED
      BY <3>1, Least
  <2>2. k # 0
    BY <1>1, <1>2, <2>1 DEF Sums
  <2>3. k \in 1 .. m /\ k - 1 \in 0 .. m /\ ~ (k <= k - 1) /\ k \in Nat /\ i \in Nat
    BY <2>1, <2>2
  <2>4. Right(k - 1)
    BY <2>1, <2>3
  <2>5. /\ f[k] = f[k - 1] + n[k].blocks /\ g[k] = g[k - 1] + o[k].blocks
        /\ f[k] \in Nat /\ g[k] \in Nat /\ f[k - 1] \in Nat /\ g[k - 1] \in Nat
        /\ n[k].blocks \in Nat /\ o[k].blocks \in Nat /\ n[i].blocks \in Nat /\ o[i].blocks \in Nat
    BY <1>1, <1>2, <2>3 DEF Sums
  <2>6. k # i => o[k].blocks = n[k].blocks
    BY <2>3
  <2> QED
    BY <2>1, <2>3, <2>4, <2>5, <2>6
<1>4. Right(m) /\ m \in 0 .. m /\ m >= i
  BY <1>3
<1>5. f[m] \in Nat
  BY <1>1, <1>4 DEF Sums
<1> QED
  BY <1>1, <1>2, <1>4, <1>5

\* Blocks are free, with a stream or with a finished item.
Pool ==
  /\ pool \in Pools
  /\ freeBlocks + BlocksIn(stream, NumThreads) + BlocksIn(refs, NumItems) = pool
  /\ \A i \in 1 .. NumItems : ~ refs[i].finished => refs[i].blocks = 0

LEMMA StreamBlocksChange ==
  ASSUME NEW t \in 1 .. NumThreads, NumThreads \in Nat,
         \A k \in 1 .. NumThreads : stream[k].blocks \in Nat,
         \A k \in 1 .. NumThreads : stream'[k].blocks \in Nat,
         \A k \in 1 .. NumThreads : k # t => stream'[k].blocks = stream[k].blocks
  PROVE  /\ BlocksIn(stream, NumThreads) \in Nat
         /\ BlocksIn(stream', NumThreads)
              = BlocksIn(stream, NumThreads) - stream[t].blocks + stream'[t].blocks
BY BlocksChange

LEMMA RefBlocksChange ==
  ASSUME NEW m \in Nat, NEW i \in 1 .. m, \A k \in 1 .. m : refs[k].blocks \in Nat,
         \A k \in 1 .. m : refs'[k].blocks \in Nat,
         \A k \in 1 .. m : k # i => refs'[k].blocks = refs[k].blocks
  PROVE  /\ BlocksIn(refs, m) \in Nat
         /\ BlocksIn(refs', m) = BlocksIn(refs, m) - refs[i].blocks + refs'[i].blocks
BY BlocksChange

\* Blocks go from one place to another.
LEMMA PoolMoves ==
  ASSUME Types, Pool, UNCHANGED <<items, pool>>,
         \A k \in Thread : stream'[k].blocks \in Nat,
         \A k \in 1 .. NumItems : refs'[k].blocks \in Nat,
         NEW t \in Thread, \A k \in Thread : k # t => stream'[k].blocks = stream[k].blocks,
         NEW i, \A k \in 1 .. NumItems : k # i => refs'[k].blocks = refs[k].blocks,
         \/ i \notin 1 .. NumItems
            /\ freeBlocks' = freeBlocks + stream[t].blocks - stream'[t].blocks
         \/ i \in 1 .. NumItems
            /\ freeBlocks' = freeBlocks + stream[t].blocks - stream'[t].blocks
                              + refs[i].blocks - refs'[i].blocks,
         \A k \in 1 .. NumItems : ~ refs'[k].finished => refs'[k].blocks = 0
  PROVE  Pool'
<1>1. PICK V : Records(V)
  BY DEF Types
<1>2. /\ NumItems \in Nat /\ NumThreads \in Nat /\ Thread = 1 .. NumThreads
      /\ NumItems' = NumItems /\ freeBlocks \in Nat
  BY ZipUpdateAssumption DEF Types, MainTypes, NumItems, Thread
<1>3. /\ \A k \in 1 .. NumThreads : stream[k].blocks \in Nat
      /\ \A k \in 1 .. NumItems : refs[k].blocks \in Nat
  BY <1>1, <1>2 DEF Records, StreamType, RefType
<1>4. /\ BlocksIn(stream, NumThreads) \in Nat
      /\ BlocksIn(stream', NumThreads)
           = BlocksIn(stream, NumThreads) - stream[t].blocks + stream'[t].blocks
  <2>1. /\ t \in 1 .. NumThreads /\ \A k \in 1 .. NumThreads : stream'[k].blocks \in Nat
        /\ \A k \in 1 .. NumThreads : k # t => stream'[k].blocks = stream[k].blocks
    BY <1>2
  <2> QED
    BY <1>2, <1>3, <2>1, StreamBlocksChange
<1>5. CASE i \in 1 .. NumItems
  <2>1. /\ BlocksIn(refs, NumItems) \in Nat
        /\ BlocksIn(refs', NumItems)
             = BlocksIn(refs, NumItems) - refs[i].blocks + refs'[i].blocks
    BY <1>2, <1>3, <1>5, RefBlocksChange
  <2>2. /\ refs[i].blocks \in Nat /\ refs'[i].blocks \in Nat
        /\ stream[t].blocks \in Nat /\ stream'[t].blocks \in Nat
    BY <1>2, <1>3, <1>5
  <2>3. (freeBlocks + BlocksIn(stream, NumThreads) + BlocksIn(refs, NumItems) = pool)'
    <3> DEFINE a == BlocksIn(stream, NumThreads)
               b == BlocksIn(refs, NumItems)
    <3>1. a \in Nat /\ b \in Nat /\ freeBlocks + a + b = pool /\ pool' = pool
          /\ BlocksIn(stream', NumThreads) = a - stream[t].blocks + stream'[t].blocks
          /\ BlocksIn(refs', NumItems) = b - refs[i].blocks + refs'[i].blocks
      BY <1>4, <2>1 DEF Pool
    <3> HIDE DEF a, b
    <3>2. freeBlocks' = freeBlocks + stream[t].blocks - stream'[t].blocks
                        + refs[i].blocks - refs'[i].blocks
      BY <1>5
    <3> DEFINE x == stream[t].blocks
               y == stream'[t].blocks
               u == refs[i].blocks
               v == refs'[i].blocks
    <3>4. x \in Nat /\ y \in Nat /\ u \in Nat /\ v \in Nat
      BY <2>2
    <3>5. /\ BlocksIn(stream', NumThreads) = a - x + y /\ BlocksIn(refs', NumItems) = b - u + v
          /\ freeBlocks' = freeBlocks + x - y + u - v
      BY <3>1, <3>2
    <3> HIDE DEF x, y, u, v
    <3>3. freeBlocks' + BlocksIn(stream', NumThreads) + BlocksIn(refs', NumItems) = pool'
      BY <1>2, <3>1, <3>4, <3>5
    <3> QED
      BY <1>2, <3>3
  <2> QED
    BY <1>2, <2>3 DEF Pool
<1>6. CASE i \notin 1 .. NumItems
  <2>1. BlocksIn(refs', NumItems) = BlocksIn(refs, NumItems) /\ BlocksIn(refs, NumItems) \in Nat
    <3>1. CASE NumItems = 0
      <4>1. PICK f : Sums(refs, NumItems, f) /\ BlocksIn(refs, NumItems) = f[NumItems]
        BY <1>2, <1>3, BlocksAdd
      <4>2. PICK g : Sums(refs', NumItems, g) /\ BlocksIn(refs', NumItems) = g[NumItems]
        BY <1>2, BlocksAdd
      <4> QED
        BY <3>1, <4>1, <4>2 DEF Sums
    <3>2. CASE NumItems # 0
      <4>1. 1 \in 1 .. NumItems /\ 1 # i
        BY <1>2, <1>6, <3>2
      <4>2. \A k \in 1 .. NumItems : refs'[k].blocks = refs[k].blocks
        BY <1>6
      <4>3. /\ BlocksIn(refs, NumItems) \in Nat
            /\ BlocksIn(refs', NumItems)
                 = BlocksIn(refs, NumItems) - refs[1].blocks + refs'[1].blocks
        BY <1>2, <1>3, <4>1, <4>2, RefBlocksChange
      <4> QED
        BY <1>3, <4>1, <4>2, <4>3
    <3> QED
      BY <3>1, <3>2
  <2>2. stream[t].blocks \in Nat /\ stream'[t].blocks \in Nat
    BY <1>2, <1>3
  <2>3. (freeBlocks + BlocksIn(stream, NumThreads) + BlocksIn(refs, NumItems) = pool)'
    BY <1>2, <1>4, <1>6, <2>1, <2>2, SMTT(30) DEF Pool
  <2> QED
    BY <1>2, <2>3 DEF Pool
<1> QED
  BY <1>5, <1>6

\* How many blocks a stream has after an operation on it.
LEMMA StreamBlocks ==
  ASSUME NEW V, NEW s \in StreamType(V)
  PROVE  /\ s.blocks \in Nat
         /\ Emptied(s).blocks = 0 /\ Emptied(ToReal(s)).blocks = 0 /\ Fresh(s).blocks = 0
         /\ ToReal(s).blocks = s.blocks /\ Rewind(s).blocks = s.blocks
         /\ [s EXCEPT !.stop = FALSE].blocks = s.blocks /\ [s EXCEPT !.stop = TRUE].blocks = s.blocks
         /\ [s EXCEPT !.blocks = @ + 1].blocks = s.blocks + 1
         /\ \A u : Remember(s, u).blocks = s.blocks
         /\ \A p : Unlocked(s, p).blocks = s.blocks
<1>1. ASSUME NEW u PROVE Remember(s, u).blocks = s.blocks
  BY DEF StreamType, Remember
<1>2. ASSUME NEW p PROVE Unlocked(s, p).blocks = s.blocks
  BY DEF StreamType, Unlocked
<1>3. Emptied(s).blocks = 0 /\ ToReal(s).blocks = s.blocks /\ Rewind(s).blocks = s.blocks
  BY DEF StreamType, Emptied, ToReal, Rewind
<1>4. Emptied(ToReal(s)).blocks = 0
  <2>1. ToReal(s) \in StreamType(V)
    BY ToRealFacts
  <2> QED
    BY <2>1 DEF StreamType, Emptied
<1>5. Fresh(s).blocks = 0
  BY DEF Fresh, NoStream
<1> QED
  BY <1>1, <1>2, <1>3, <1>4, <1>5 DEF StreamType

\* What a thread takes from the pool its stream has, and the other way around.
LEMMA ThreadPool ==
  ASSUME Types, NEW t \in Thread, ThreadStep(t)
  PROVE  \E s : /\ stream' = [stream EXCEPT ![t] = s] /\ s.blocks \in Nat
                /\ freeBlocks' = freeBlocks + stream[t].blocks - s.blocks
<1> DEFINE Goal(s) == /\ stream' = [stream EXCEPT ![t] = s] /\ s.blocks \in Nat
                      /\ freeBlocks' = freeBlocks + stream[t].blocks - s.blocks
<1>1. PICK V : Records(V)
  BY DEF Types
<1>2. stream[t] \in StreamType(V) /\ stream = [stream EXCEPT ![t] = stream[t]]
  BY <1>1 DEF Records
<1>3. freeBlocks \in Nat /\ stream[t].blocks \in Nat
  BY <1>2, StreamBlocks DEF Types, MainTypes
<1>4. ASSUME NEW s, stream' = [stream EXCEPT ![t] = s], s.blocks = stream[t].blocks, UNCHANGED freeBlocks
      PROVE  \E q : Goal(q)
  <2>1. s.blocks \in Nat /\ freeBlocks' = freeBlocks + stream[t].blocks - s.blocks
    BY <1>3, <1>4
  <2> QED
    BY <1>4, <2>1, Zenon
<1>5. ASSUME NEW s, stream' = [stream EXCEPT ![t] = s], s.blocks = 0,
             freeBlocks' = freeBlocks + stream[t].blocks
      PROVE  \E q : Goal(q)
  <2>1. s.blocks \in Nat /\ freeBlocks' = freeBlocks + stream[t].blocks - s.blocks
    BY <1>3, <1>5
  <2> QED
    BY <1>5, <2>1, Zenon
<1>6. CASE Begin(t) \/ WriteReal(t) \/ WaitBlock(t) \/ PassEnds(t) \/ CodeFails(t)
             \/ ReleaseItem(t) \/ Post(t)
  <2>1. UNCHANGED <<stream, freeBlocks>>
    BY <1>6 DEF Begin, WriteReal, WaitBlock, PassEnds, CodeFails, ReleaseItem, Post, poolVars
  <2> QED
    BY <1>2, <1>4, <2>1
<1>7. CASE WriteBlock(t)
  <2>1. stream' = [stream EXCEPT ![t] = Remember(stream[t], Next1(t))] /\ UNCHANGED freeBlocks
    BY <1>7 DEF WriteBlock, poolVars
  <2> QED
    BY <1>2, <1>4, <2>1, StreamBlocks
<1>8. CASE WaitStop(t)
  <2>1. stream' = [stream EXCEPT ![t] = [stream[t] EXCEPT !.stop = FALSE]] /\ UNCHANGED freeBlocks
    BY <1>8 DEF WaitStop, poolVars
  <2> QED
    BY <1>2, <1>4, <2>1, StreamBlocks
<1>9. CASE WaitReal(t)
  <2>1. \/ stream' = [stream EXCEPT ![t] = Emptied(ToReal(stream[t]))]
           /\ freeBlocks' = freeBlocks + ToReal(stream[t]).blocks
        \/ stream' = [stream EXCEPT ![t] = ToReal(stream[t])] /\ UNCHANGED freeBlocks
    BY <1>9 DEF WaitReal, poolVars, FreeTo
  <2> QED
    BY <1>2, <1>4, <1>5, <2>1, StreamBlocks
<1>10. CASE AllocateBlock(t)
  <2>1. CASE freeBlocks' = freeBlocks - 1
             /\ stream' = [stream EXCEPT ![t] = [stream[t] EXCEPT !.blocks = @ + 1]]
    <3> DEFINE s == [stream[t] EXCEPT !.blocks = @ + 1]
    <3>1. s.blocks = stream[t].blocks + 1
      BY <1>2, StreamBlocks
    <3> HIDE DEF s
    <3>2. Goal(s)
      BY <1>3, <2>1, <3>1 DEF s
    <3> QED
      BY <3>2
  <2>2. CASE UNCHANGED <<freeBlocks, stream>>
    BY <1>2, <1>4, <2>2
  <2> QED
    BY <1>10, <2>1, <2>2 DEF AllocateBlock
<1>11. CASE NextPass(t)
  <2>1. (stream' = stream \/ stream' = [stream EXCEPT ![t] = Rewind(stream[t])]) /\ UNCHANGED freeBlocks
    BY <1>11 DEF NextPass, poolVars
  <2> QED
    BY <1>2, <1>4, <2>1, StreamBlocks
<1> QED
  BY <1>6, <1>7, <1>8, <1>9, <1>10, <1>11 DEF ThreadStep

LEMMA PoolStream ==
  ASSUME IInv, Pool, UNCHANGED <<items, refs, pool>>, NEW t \in Thread, NEW s, s.blocks \in Nat,
         stream' = [stream EXCEPT ![t] = s],
         freeBlocks' = freeBlocks + stream[t].blocks - s.blocks
  PROVE  Pool'
<1>1. Types
  BY DEF IInv
<1>2. PICK V : Records(V)
  BY <1>1 DEF Types
<1>5. /\ stream \in [Thread -> StreamType(V)] /\ refs \in [1 .. NumItems -> RefType(V)]
      /\ \A k \in Thread : stream[k].blocks \in Nat
      /\ \A k \in 1 .. NumItems : refs[k].blocks \in Nat
  BY <1>2 DEF Records, StreamType, RefType
<1>6. /\ \A k \in Thread : k # t => stream'[k].blocks = stream[k].blocks
      /\ stream'[t] = s /\ \A k \in Thread : stream'[k].blocks \in Nat
  BY <1>5
<1>7. 0 \notin 1 .. NumItems
  OBVIOUS
<1>8. \A k \in 1 .. NumItems : ~ refs'[k].finished => refs'[k].blocks = 0
  BY DEF Pool
<1> QED
  BY <1>1, <1>5, <1>6, <1>7, <1>8, PoolMoves

LEMMA PoolBoth ==
  ASSUME IInv, Pool, UNCHANGED <<items, pool>>, NEW t \in Thread, NEW s, s.blocks \in Nat,
         stream' = [stream EXCEPT ![t] = s],
         NEW i \in 1 .. NumItems, NEW r, refs' = [refs EXCEPT ![i] = r], r.blocks \in Nat,
         ~ r.finished => r.blocks = 0,
         freeBlocks' = freeBlocks + stream[t].blocks - s.blocks + refs[i].blocks - r.blocks
  PROVE  Pool'
<1>1. Types
  BY DEF IInv
<1>2. PICK V : Records(V)
  BY <1>1 DEF Types
<1>5. /\ stream \in [Thread -> StreamType(V)] /\ refs \in [1 .. NumItems -> RefType(V)]
      /\ \A k \in Thread : stream[k].blocks \in Nat
      /\ \A k \in 1 .. NumItems : refs[k].blocks \in Nat
  BY <1>2 DEF Records, StreamType, RefType
<1>6. /\ \A k \in Thread : k # t => stream'[k].blocks = stream[k].blocks
      /\ stream'[t] = s /\ \A k \in Thread : stream'[k].blocks \in Nat
  BY <1>5
<1>7. /\ \A k \in 1 .. NumItems : k # i => refs'[k] = refs[k]
      /\ refs'[i] = r /\ \A k \in 1 .. NumItems : refs'[k].blocks \in Nat
  BY <1>5
<1>8. \A k \in 1 .. NumItems : ~ refs'[k].finished => refs'[k].blocks = 0
  BY <1>7 DEF Pool
<1>9. \A k \in 1 .. NumItems : k # i => refs'[k].blocks = refs[k].blocks
  BY <1>7
<1> QED
  BY <1>1, <1>6, <1>7, <1>8, <1>9, PoolMoves

LEMMA PoolRef ==
  ASSUME IInv, Pool, UNCHANGED <<items, stream, pool>>,
         NEW i \in 1 .. NumItems, NEW r, refs' = [refs EXCEPT ![i] = r], r.blocks \in Nat,
         ~ r.finished => r.blocks = 0, freeBlocks' = freeBlocks + refs[i].blocks - r.blocks
  PROVE  Pool'
<1>1. PICK V : Records(V)
  BY DEF IInv, Types
<1>2. PICK t \in Thread : t = 1
  BY MainFacts
<1>3. stream[t].blocks \in Nat /\ stream' = [stream EXCEPT ![t] = stream[t]]
  BY <1>1 DEF Records, StreamType
<1>4. refs[i].blocks \in Nat /\ freeBlocks \in Nat
  BY <1>1 DEF Records, RefType, IInv, Types, MainTypes
<1>5. freeBlocks' = freeBlocks + stream[t].blocks - stream[t].blocks + refs[i].blocks - r.blocks
  BY <1>3, <1>4
<1> QED
  BY <1>3, <1>5, PoolBoth

LEMMA ThreadPoolInv == ASSUME IInv, Pool, NEW t \in Thread, ThreadStep(t) PROVE Pool'
<1>1. PICK s : /\ stream' = [stream EXCEPT ![t] = s] /\ s.blocks \in Nat
               /\ freeBlocks' = freeBlocks + stream[t].blocks - s.blocks
  BY ThreadPool DEF IInv
<1>2. UNCHANGED <<items, refs, pool>>
  BY ThreadFrame DEF ThreadStep, Begin, WriteBlock, WriteReal, WaitStop, WaitReal, WaitBlock,
     AllocateBlock, PassEnds, NextPass, CodeFails, ReleaseItem, Post, requestVars
<1> QED
  BY <1>1, <1>2, PoolStream

LEMMA PoolSame ==
  ASSUME Pool, UNCHANGED <<items, pool, freeBlocks, stream, refs>>
  PROVE  Pool'
  BY DEF Pool, NumItems

\* What main and its streams do to an item does not touch its blocks, but for the end.
LEMMA RefBlocks ==
  ASSUME NEW V, NEW r \in RefType(V)
  PROVE  /\ r.blocks \in Nat /\ Emptied(r).blocks = 0
         /\ [r EXCEPT !.skip = TRUE].blocks = r.blocks
         /\ [r EXCEPT !.skip = TRUE].finished = r.finished
         /\ \A q : [r EXCEPT !.seq = q].blocks = r.blocks
                   /\ [r EXCEPT !.seq = q].finished = r.finished
  BY DEF RefType, Emptied

LEMMA PassOverPool == ASSUME IInv, Pool, PassOver PROVE Pool'
<1>1. PICK V : Records(V)
  BY DEF IInv, Types
<1>2. PICK m \in 1 .. NumItems : m = mtItemIndex
  BY MainFacts DEF PassOver, MayStart
<1>3. UNCHANGED <<items, stream, pool, freeBlocks>>
      /\ (UNCHANGED refs \/ refs' = [refs EXCEPT ![m] = [refs[m] EXCEPT !.skip = TRUE]])
  BY <1>2 DEF PassOver, requestVars, poolVars, threadVars
<1>4. refs[m] \in RefType(V) /\ freeBlocks \in Nat
  BY <1>1 DEF Records, IInv, Types, MainTypes
<1>5. CASE UNCHANGED refs
  BY <1>3, <1>5, PoolSame
<1>6. CASE refs' = [refs EXCEPT ![m] = [refs[m] EXCEPT !.skip = TRUE]]
  <2> DEFINE r == [refs[m] EXCEPT !.skip = TRUE]
  <2>1. r.blocks = refs[m].blocks /\ r.finished = refs[m].finished /\ refs[m].blocks \in Nat
    BY <1>4, RefBlocks
  <2> HIDE DEF r
  <2>2. ~ r.finished => r.blocks = 0
    BY <2>1 DEF Pool
  <2>3. freeBlocks' = freeBlocks + refs[m].blocks - r.blocks
    BY <1>3, <1>4, <2>1
  <2> QED
    BY <1>3, <1>6, <2>1, <2>2, <2>3, PoolRef DEF r
<1> QED
  BY <1>3, <1>5, <1>6

LEMMA StartFilePool == ASSUME IInv, Pool, StartFile PROVE Pool'
<1>1. PICK V : Records(V)
  BY DEF IInv, Types
<1>2. PICK m \in 1 .. NumItems : m = mtItemIndex
  BY MainFacts DEF StartFile, MayStart
<1>3. PICK t \in Thread : t = Min(FreeThreads)
  <2>1. FreeThreads \subseteq Nat /\ FreeThreads # {} /\ FreeThreads \subseteq Thread
    BY DEF StartFile, FreeThreads, Thread
  <2> QED
    BY <2>1, LeastIsMin
<1>4. PICK q \in BOOLEAN :
        /\ refs' = [refs EXCEPT ![m] = [refs[m] EXCEPT !.seq = q]]
        /\ stream' = [stream EXCEPT ![t] = Fresh(stream[t])] /\ FreeTo(stream[t].blocks)
  BY <1>2, <1>3 DEF StartFile
<1>5. UNCHANGED <<items, pool>>
  BY DEF StartFile, requestVars
<1>6. refs[m] \in RefType(V) /\ freeBlocks \in Nat /\ stream[t] \in StreamType(V)
  BY <1>1 DEF Records, IInv, Types, MainTypes
<1> DEFINE r == [refs[m] EXCEPT !.seq = q]
           s == Fresh(stream[t])
<1>7. /\ r.blocks = refs[m].blocks /\ r.finished = refs[m].finished /\ refs[m].blocks \in Nat
      /\ s.blocks = 0 /\ stream[t].blocks \in Nat
  BY <1>6, RefBlocks, StreamBlocks
<1>8. refs' = [refs EXCEPT ![m] = r] /\ stream' = [stream EXCEPT ![t] = s]
  BY <1>4
<1> HIDE DEF r, s
<1>9. ~ r.finished => r.blocks = 0
  BY <1>7 DEF Pool
<1>10. freeBlocks' = freeBlocks + stream[t].blocks - s.blocks + refs[m].blocks - r.blocks
  BY <1>4, <1>6, <1>7 DEF FreeTo
<1>11. s.blocks \in Nat /\ r.blocks \in Nat
  BY <1>7
<1> QED
  BY <1>5, <1>8, <1>9, <1>10, <1>11, PoolBoth

LEMMA CopyFinishedPool == ASSUME IInv, Pool, CopyFinished PROVE Pool'
<1>1. PICK V : Records(V)
  BY DEF IInv, Types
<1>2. PICK m \in 1 .. NumItems : m = itemIndex
  BY MainFacts DEF CopyFinished, Due
<1>3. UNCHANGED <<items, pool, stream>>
      /\ \/ refs' = [refs EXCEPT ![m] = Emptied(refs[m])] /\ FreeTo(refs[m].blocks)
         \/ UNCHANGED <<refs, freeBlocks>>
  BY <1>2 DEF CopyFinished, requestVars, poolVars, threadVars
<1>4. refs[m] \in RefType(V) /\ freeBlocks \in Nat
  BY <1>1 DEF Records, IInv, Types, MainTypes
<1>5. Emptied(refs[m]).blocks = 0 /\ refs[m].blocks \in Nat
  BY <1>4, RefBlocks
<1>6. CASE refs' = [refs EXCEPT ![m] = Emptied(refs[m])] /\ FreeTo(refs[m].blocks)
  <2> DEFINE r == Emptied(refs[m])
  <2>1. refs' = [refs EXCEPT ![m] = r] /\ r.blocks = 0
    BY <1>5, <1>6
  <2> HIDE DEF r
  <2>2. freeBlocks' = freeBlocks + refs[m].blocks - r.blocks /\ r.blocks \in Nat
    BY <1>4, <1>5, <1>6, <2>1 DEF FreeTo
  <2> QED
    BY <1>3, <2>1, <2>2, PoolRef
<1> QED
  BY <1>3, <1>6, PoolSame

LEMMA OpenFrontPool == ASSUME IInv, Pool, OpenFront PROVE Pool'
<1>1. PICK V : Records(V)
  BY DEF IInv, Types
<1>2. UNCHANGED <<items, pool, refs, freeBlocks>>
  BY DEF OpenFront, requestVars, poolVars
<1>3. UNCHANGED stream
      \/ \E p : threadIndices # <<>> /\ Unlock(Head(threadIndices), p)
  BY DEF OpenFront
<1>4. ASSUME NEW p, threadIndices # <<>>, Unlock(Head(threadIndices), p) PROVE Pool'
  <2>1. PICK t \in Thread : t = Head(threadIndices)
    BY <1>4, MainFacts
  <2>2. stream[t] \in StreamType(V) /\ freeBlocks \in Nat
    BY <1>1 DEF Records, IInv, Types, MainTypes
  <2>3. Unlocked(stream[t], p).blocks = stream[t].blocks /\ stream[t].blocks \in Nat
    BY <2>2, StreamBlocks
  <2>4. stream' = [stream EXCEPT ![t] = Unlocked(stream[t], p)]
    BY <1>4, <2>1 DEF Unlock
  <2>5. freeBlocks' = freeBlocks + stream[t].blocks - Unlocked(stream[t], p).blocks
    BY <1>2, <2>2, <2>3
  <2>6. Unlocked(stream[t], p).blocks \in Nat
    BY <2>3
  <2> QED
    BY <1>2, <2>4, <2>5, <2>6, PoolStream
<1> QED
  BY <1>2, <1>3, <1>4, PoolSame

LEMMA StopThreadPool == ASSUME IInv, Pool, StopThread PROVE Pool'
<1>1. PICK V : Records(V)
  BY DEF IInv, Types
<1>2. PICK t \in Thread : t = stopping
  BY MainFacts DEF StopThread
<1>3. UNCHANGED <<items, pool, refs, freeBlocks>>
      /\ stream' = [stream EXCEPT ![t] = [stream[t] EXCEPT !.stop = TRUE]]
  BY <1>2 DEF StopThread, requestVars, poolVars
<1>4. stream[t] \in StreamType(V) /\ freeBlocks \in Nat
  BY <1>1 DEF Records, IInv, Types, MainTypes
<1> DEFINE s == [stream[t] EXCEPT !.stop = TRUE]
<1>5. s.blocks = stream[t].blocks /\ stream[t].blocks \in Nat
  BY <1>4, StreamBlocks
<1>6. stream' = [stream EXCEPT ![t] = s]
  BY <1>3
<1> HIDE DEF s
<1>7. freeBlocks' = freeBlocks + stream[t].blocks - s.blocks /\ s.blocks \in Nat
  BY <1>3, <1>4, <1>5
<1> QED
  BY <1>3, <1>6, <1>7, PoolStream

LEMMA CollectPool == ASSUME IInv, Pool, Collect PROVE Pool'
<1>1. main = "wait" /\ readySem > 0 /\ ready # <<>> /\ Head(ready) \in Thread
  BY ReadyFacts DEF Collect
<1>2. PICK t \in Thread : t = Head(ready)
  BY <1>1
<1>3. Taken(t) /\ UNCHANGED <<items, pool>>
  BY <1>1, <1>2 DEF Collect, Taken, requestVars
<1>4. t \in In(threadIndices)
  BY <1>1, <1>2, ReadyFacts
<1>5. PICK V : Records(V)
  BY DEF IInv, Types
<1>6. /\ stream[t] \in StreamType(V) /\ freeBlocks \in Nat /\ HasAll(stream[t])
      /\ stream[t].blocks \in Nat /\ stream[t].total \in Nat /\ Emptied(stream[t]).blocks = 0
  <2>1. stream[t] \in StreamType(V) /\ freeBlocks \in Nat /\ HasAll(stream[t])
    BY <1>5 DEF Records, IInv, Types, MainTypes, Full
  <2>2. stream[t].total \in Nat
    BY <2>1 DEF StreamType
  <2> QED
    BY <2>1, <2>2, StreamBlocks
<1>7. CASE FrontDone(t)
  <2>1. \/ stream' = [stream EXCEPT ![t] = Emptied(stream[t])] /\ FreeTo(stream[t].blocks)
        \/ UNCHANGED <<stream, freeBlocks>>
    BY <1>7 DEF FrontDone, poolVars
  <2>2. UNCHANGED refs
    BY <1>7 DEF FrontDone
  <2>3. CASE stream' = [stream EXCEPT ![t] = Emptied(stream[t])] /\ FreeTo(stream[t].blocks)
    <3> DEFINE s == Emptied(stream[t])
    <3>1. stream' = [stream EXCEPT ![t] = s] /\ s.blocks = 0
      BY <1>6, <2>3
    <3> HIDE DEF s
    <3>2. freeBlocks' = freeBlocks + stream[t].blocks - s.blocks /\ s.blocks \in Nat
      BY <1>6, <2>3, <3>1 DEF FreeTo
    <3> QED
      BY <1>3, <2>2, <3>1, <3>2, PoolStream
  <2> QED
    BY <1>3, <2>1, <2>2, <2>3, PoolSame
<1>8. CASE OtherDone(t)
  <2>1. PICK m \in 1 .. NumItems : m = info[t].item /\ ~ refs[m].finished
    <3>1. PICK n \in Nat : n = Len(threadIndices)
      BY MainFacts
    <3>2. At(t) \in 1 .. n /\ threadIndices[At(t)] = t
      BY <1>4, <3>1, MainFacts, AtFacts
    <3>3. info[t].item \in itemIndex .. mtItemIndex - 1 /\ ~ refs[info[t].item].finished
      BY <1>1, <3>1, <3>2 DEF IInv, Items, Item, Live, Open
    <3> QED
      BY <3>3, MainFacts
  <2> DEFINE r == Detached(refs[m], stream[t], info[t].pack)
             s == Emptied(stream[t])
  <2>2. refs' = [refs EXCEPT ![m] = r] /\ stream' = [stream EXCEPT ![t] = s]
        /\ FreeTo(Surplus(stream[t]))
    BY <1>8, <2>1 DEF OtherDone
  <2>3. refs[m] \in RefType(V) /\ refs[m].blocks = 0
    BY <1>5, <2>1 DEF Records, Pool
  <2>4. r.blocks = Kept(stream[t]) /\ r.finished
    BY <2>3 DEF Detached, RefType
  <2>5. Kept(stream[t]) \in 0 .. stream[t].blocks
    BY <1>6, KeptIsEnough
  <2>6. freeBlocks' = freeBlocks + stream[t].blocks - Kept(stream[t])
    <3>1. freeBlocks' = freeBlocks + (stream[t].blocks - Kept(stream[t]))
      BY <2>2 DEF FreeTo, Surplus
    <3> QED
      BY <1>6, <2>5, <3>1
  <2> HIDE DEF r, s
  <2>7. s.blocks = 0
    BY <1>6 DEF s
  <2>8. freeBlocks' = freeBlocks + stream[t].blocks - s.blocks + refs[m].blocks - r.blocks
    BY <1>6, <2>3, <2>4, <2>5, <2>6, <2>7
  <2>9. s.blocks \in Nat /\ r.blocks \in Nat
    BY <2>4, <2>5, <2>7
  <2> QED
    BY <1>3, <2>2, <2>4, <2>8, <2>9, PoolBoth
<1>9. CASE UNCHANGED <<refs, stream, freeBlocks>>
  BY <1>3, <1>9, PoolSame
<1> QED
  BY <1>1, <1>2, <1>7, <1>8, <1>9 DEF Collect, poolVars

LEMMA MainPool == ASSUME IInv, Pool, MainStep PROVE Pool'
<1>1. CASE CannotStart \/ SkipItem \/ CopyOld \/ WriteCentralDir \/ JoinThread
  <2>1. UNCHANGED <<items, pool, freeBlocks, stream, refs>>
    BY <1>1 DEF CannotStart, SkipItem, CopyOld, WriteCentralDir, JoinThread, requestVars, poolVars,
       threadVars
  <2> QED
    BY <2>1, PoolSame
<1> QED
  BY <1>1, PassOverPool, StartFilePool, CopyFinishedPool, OpenFrontPool, StopThreadPool,
     CollectPool DEF MainStep

LEMMA InitPool == Init => Pool
<1> SUFFICES ASSUME Init PROVE Pool
  OBVIOUS
<1>1. NumItems \in Nat /\ NumThreads \in Nat /\ pool \in Nat /\ freeBlocks = pool
      /\ DOMAIN items = 1 .. NumItems
  BY ZipUpdateAssumption DEF Init, NumItems
<1>2. /\ \A k \in 1 .. NumThreads : stream[k].blocks = 0
      /\ \A k \in 1 .. NumItems : refs[k].blocks = 0
  BY <1>1 DEF Init, NoStream, NoRef, Thread
<1>3. ASSUME NEW n, NEW m \in Nat, \A k \in 1 .. m : n[k].blocks = 0
      PROVE  BlocksIn(n, m) = 0
  <2>1. PICK g : Sums(n, m, g) /\ BlocksIn(n, m) = g[m]
    BY <1>3, BlocksAdd
  <2> DEFINE bad == {k \in 0 .. m : g[k] # 0}
  <2>2. bad = {}
    <3> SUFFICES ASSUME bad # {} PROVE FALSE
      OBVIOUS
    <3>1. bad \subseteq Nat
      OBVIOUS
    <3>2. PICK k \in bad : \A j \in bad : k <= j
      BY <3>1, Least
    <3>3. k # 0
      BY <2>1, <3>2 DEF Sums
    <3>4. k \in 1 .. m /\ k - 1 \in 0 .. m /\ ~ (k <= k - 1)
      BY <3>2, <3>3
    <3>5. g[k - 1] = 0
      BY <3>2, <3>4
    <3>6. g[k] = g[k - 1] + n[k].blocks /\ n[k].blocks = 0
      BY <1>3, <2>1, <3>4 DEF Sums
    <3> QED
      BY <3>2, <3>5, <3>6
  <2> QED
    BY <2>1, <2>2
<1>4. BlocksIn(stream, NumThreads) = 0 /\ BlocksIn(refs, NumItems) = 0
  BY <1>1, <1>2, <1>3
<1>5. freeBlocks + BlocksIn(stream, NumThreads) + BlocksIn(refs, NumItems) = pool
  BY <1>1, <1>4
<1>6. pool \in Pools
  BY DEF Init
<1> QED
  BY <1>2, <1>5, <1>6 DEF Pool

\* No block of the pool is lost or given out twice, for every number of threads,
\* items and blocks and whatever fails (MemBlocks.cpp:113-130, 167-215).
THEOREM BlocksAreKept == Spec => []PoolSound
<1>1. Init => IInv /\ Pool
  BY InitInv, InitPool
<1>2. IInv /\ Pool /\ [Next]_vars => IInv' /\ Pool'
  <2> SUFFICES ASSUME IInv, Pool, [Next]_vars PROVE IInv' /\ Pool'
    OBVIOUS
  <2>1. CASE MainStep
    BY <2>1, MainInv, MainPool
  <2>2. CASE \E t \in Thread : ThreadStep(t)
    BY <2>2, ThreadInv, ThreadPoolInv
  <2>3. CASE UNCHANGED vars
    <3>1. UNCHANGED <<items, pool, freeBlocks, stream, refs>>
      BY <2>3 DEF vars, requestVars, mainVars, poolVars, threadVars
    <3> QED
      BY <2>3, <3>1, StutterInv, PoolSame
  <2> QED
    BY <2>1, <2>2, <2>3 DEF Next, Terminating
<1>3. IInv /\ Pool => PoolSound
  BY DEF IInv, Counted, Pool, PoolSound, AtPc
<1> QED
  BY <1>1, <1>2, <1>3, PTL DEF Spec

-----------------------------------------------------------------------------
(* The archive's file and what is written to it. *)

\* What files and blocks hold.
Datum ==
  [kind : {"zero", "data", "old", "central", "head", "descr"}, item : Nat, pass : Nat, n : Int]

LEMMA DatumFacts ==
  ASSUME NEW i \in Nat, NEW p \in Nat, NEW k \in Int, NEW d
  PROVE  /\ Fill \in Datum /\ CentralDir \in Datum /\ Unit(i, p, k) \in Datum
         /\ OldData(i) \in Datum /\ Header(i, d, k) \in Datum /\ PreHeader(i, d) \in Datum
         /\ Trailer(i, d, k) \in Seq(Datum) /\ Len(Trailer(i, d, k)) = IF d THEN 1 ELSE 0
         /\ d => PreHeader(i, d) = Header(i, d, k)
<1>1. /\ Fill \in Datum /\ CentralDir \in Datum /\ Unit(i, p, k) \in Datum
      /\ OldData(i) \in Datum /\ Header(i, d, k) \in Datum /\ PreHeader(i, d) \in Datum
      /\ [kind |-> "descr", item |-> i, pass |-> 0, n |-> k] \in Datum
  BY DEF Datum, Fill, CentralDir, Unit, OldData, Header, PreHeader, None
<1>2. Trailer(i, d, k) \in Seq(Datum) /\ Len(Trailer(i, d, k)) = IF d THEN 1 ELSE 0
  BY <1>1 DEF Trailer
<1>3. d => PreHeader(i, d) = Header(i, d, k)
  BY DEF Header, PreHeader
<1> QED
  BY <1>1, <1>2, <1>3

LEMMA PutFacts ==
  ASSUME NEW f \in Seq(Datum), NEW s \in Seq(Datum), NEW p \in Nat
  PROVE  /\ Put(f, p, s) \in Seq(Datum)
         /\ Len(Put(f, p, s)) = IF Len(f) >= p + Len(s) THEN Len(f) ELSE p + Len(s)
         /\ \A k \in 1 .. Len(Put(f, p, s)) :
              Put(f, p, s)[k] = IF k \in p + 1 .. p + Len(s) THEN s[k - p]
                                ELSE IF k <= Len(f) THEN f[k] ELSE Fill
<1>1. PICK a \in Nat, b \in Nat : a = Len(f) /\ b = Len(s)
  OBVIOUS
<1>2. p + b \in Nat
  OBVIOUS
<1>3. PICK m \in Nat : m = Max({Len(f), p + Len(s)}) /\ m = IF a >= p + b THEN a ELSE p + b
  BY <1>1, <1>2, MaxOfTwo
<1> DEFINE e(k) == IF k \in p + 1 .. p + b THEN s[k - p] ELSE IF k <= a THEN f[k] ELSE Fill
<1>4. Put(f, p, s) = [k \in 1 .. m |-> e(k)]
  BY <1>1, <1>3 DEF Put
<1>5. Fill \in Datum
  BY DatumFacts, SMTT(30)
<1>6. ASSUME NEW k \in 1 .. m PROVE e(k) \in Datum
  <2>1. CASE k \in p + 1 .. p + b
    <3>1. k - p \in 1 .. b
      BY <2>1
    <3> QED
      BY <1>1, <2>1, <3>1
  <2>2. CASE k \notin p + 1 .. p + b
    BY <1>1, <1>5, <2>2
  <2> QED
    BY <2>1, <2>2
<1> HIDE DEF e
<1>7. Put(f, p, s) \in Seq(Datum) /\ Len(Put(f, p, s)) = m
  BY <1>4, <1>6
<1>8. \A k \in 1 .. m : Put(f, p, s)[k] = e(k)
  BY <1>4
<1> QED
  BY <1>1, <1>3, <1>7, <1>8 DEF e

LEMMA SameSeq ==
  ASSUME NEW f \in Seq(Datum), NEW g \in Seq(Datum), Len(f) = Len(g),
         \A k \in 1 .. Len(f) : f[k] = g[k]
  PROVE  f = g
  OBVIOUS

\* A write at the end, over one datum, and a cut.
LEMMA PutAtEnd ==
  ASSUME NEW f \in Seq(Datum), NEW s \in Seq(Datum)
  PROVE  Put(f, Len(f), s) = f \o s
<1>1. PICK a \in Nat, b \in Nat : a = Len(f) /\ b = Len(s)
  OBVIOUS
<1> DEFINE g == Put(f, a, s)
<1>2. /\ g \in Seq(Datum) /\ Len(g) = a + b
      /\ \A k \in 1 .. a + b : g[k] = IF k \in a + 1 .. a + b THEN s[k - a] ELSE f[k]
  <2>1. /\ g \in Seq(Datum) /\ Len(g) = a + b
        /\ \A k \in 1 .. Len(g) : g[k] = IF k \in a + 1 .. a + b THEN s[k - a]
                                         ELSE IF k <= a THEN f[k] ELSE Fill
    <3> HIDE DEF g
    <3>1. /\ g \in Seq(Datum) /\ Len(g) = IF Len(f) >= a + Len(s) THEN Len(f) ELSE a + Len(s)
          /\ \A k \in 1 .. Len(g) : g[k] = IF k \in a + 1 .. a + Len(s) THEN s[k - a]
                                           ELSE IF k <= Len(f) THEN f[k] ELSE Fill
      BY PutFacts DEF g
    <3> QED
      BY <1>1, <3>1
  <2> QED
    BY <1>1, <2>1
<1> HIDE DEF g
<1>3. f \o s \in Seq(Datum) /\ Len(f \o s) = a + b
  BY <1>1
<1>4. ASSUME NEW k \in 1 .. a + b PROVE g[k] = (f \o s)[k]
  BY <1>1, <1>2
<1>5. g = f \o s
  BY <1>2, <1>3, <1>4, SameSeq
<1> QED
  BY <1>1, <1>5 DEF g

LEMMA PutOver ==
  ASSUME NEW f \in Seq(Datum), NEW s \in Seq(Datum), NEW x \in Datum, NEW y \in Datum
  PROVE  Put((f \o <<x>>) \o s, Len(f), <<y>>) = (f \o <<y>>) \o s
<1>1. PICK a \in Nat, b \in Nat : a = Len(f) /\ b = Len(s)
  OBVIOUS
<1> DEFINE e == (f \o <<x>>) \o s
           h == (f \o <<y>>) \o s
           z == <<y>>
           g == Put(e, a, z)
<1>2. /\ e \in Seq(Datum) /\ Len(e) = a + 1 + b /\ h \in Seq(Datum) /\ Len(h) = a + 1 + b
      /\ h[a + 1] = y /\ \A k \in 1 .. a + 1 + b : k # a + 1 => h[k] = e[k]
  BY <1>1
<1> HIDE DEF e, h
<1>3. z \in Seq(Datum) /\ Len(z) = 1 /\ z[1] = y
  OBVIOUS
<1> HIDE DEF z
<1>4. /\ g \in Seq(Datum) /\ Len(g) = a + 1 + b
      /\ \A k \in 1 .. a + 1 + b : g[k] = IF k \in a + 1 .. a + 1 THEN z[k - a] ELSE e[k]
  <2> HIDE DEF g
  <2>1. /\ g \in Seq(Datum) /\ Len(g) = IF Len(e) >= a + Len(z) THEN Len(e) ELSE a + Len(z)
        /\ \A k \in 1 .. Len(g) : g[k] = IF k \in a + 1 .. a + Len(z) THEN z[k - a]
                                         ELSE IF k <= Len(e) THEN e[k] ELSE Fill
    <3>1. e \in Seq(Datum) /\ z \in Seq(Datum)
      BY <1>2, <1>3
    <3> QED
      BY <3>1, PutFacts DEF g
  <2> QED
    BY <1>1, <1>2, <1>3, <2>1
<1> HIDE DEF g
<1>5. ASSUME NEW k \in 1 .. a + 1 + b PROVE g[k] = h[k]
  <2>1. CASE k = a + 1
    BY <1>1, <1>2, <1>3, <1>4, <2>1
  <2>2. CASE k # a + 1
    BY <1>1, <1>2, <1>4, <2>2
  <2> QED
    BY <2>1, <2>2
<1>6. g = h
  BY <1>2, <1>4, <1>5, SameSeq
<1> QED
  BY <1>1, <1>6 DEF e, h, g, z

LEMMA CutFacts ==
  ASSUME NEW f \in Seq(Datum), NEW n \in 0 .. Len(f)
  PROVE  Cut(f, n) \in Seq(Datum) /\ Len(Cut(f, n)) = n
  BY DEF Cut

LEMMA CutBack ==
  ASSUME NEW f \in Seq(Datum), NEW s \in Seq(Datum)
  PROVE  Cut(f \o s, Len(f)) = f
<1>1. PICK a \in Nat, b \in Nat : a = Len(f) /\ b = Len(s)
  OBVIOUS
<1>2. f \o s \in Seq(Datum) /\ Len(f \o s) = a + b /\ \A k \in 1 .. a : (f \o s)[k] = f[k]
  BY <1>1
<1> DEFINE e == f \o s
           g == Cut(e, a)
<1> HIDE DEF e
<1>3. g \in Seq(Datum) /\ Len(g) = a /\ \A k \in 1 .. a : g[k] = e[k]
  BY <1>1, <1>2 DEF Cut, e
<1> HIDE DEF g
<1>4. g = f
  BY <1>1, <1>2, <1>3 DEF e
<1> QED
  BY <1>1, <1>4 DEF g, e

LEMMA Joined ==
  ASSUME NEW a \in Seq(Datum), NEW b \in Seq(Datum), NEW c \in Seq(Datum)
  PROVE  /\ (a \o b) \o c = a \o (b \o c) /\ a \o b \in Seq(Datum) /\ b \o c \in Seq(Datum)
         /\ Len(a \o b) = Len(a) + Len(b) /\ a \o <<>> = a
  OBVIOUS

LEMMA UnitsFacts ==
  ASSUME NEW i \in Nat, NEW p \in Nat, NEW n \in Nat
  PROVE  /\ Units(i, p, n) \in Seq(Datum) /\ Len(Units(i, p, n)) = n
         /\ \A k \in 1 .. n : Units(i, p, n)[k] = Unit(i, p, k)
         /\ n = 0 => Units(i, p, n) = <<>>
<1>1. \A k \in 1 .. n : Unit(i, p, k) \in Datum
  BY DatumFacts
<1> QED
  BY <1>1 DEF Units

LEMMA UnitsAdd ==
  ASSUME NEW i \in Nat, NEW p \in Nat, NEW n \in Nat
  PROVE  Units(i, p, n) \o <<Unit(i, p, n + 1)>> = Units(i, p, n + 1)
<1> DEFINE u == Unit(i, p, n + 1)
           s == Units(i, p, n)
           r == Units(i, p, n + 1)
<1>1. u \in Datum
  BY DatumFacts
<1>2. s \in Seq(Datum) /\ Len(s) = n /\ \A k \in 1 .. n : s[k] = Unit(i, p, k)
  BY UnitsFacts
<1>3. r \in Seq(Datum) /\ Len(r) = n + 1 /\ \A k \in 1 .. n + 1 : r[k] = Unit(i, p, k)
  BY UnitsFacts
<1> HIDE DEF s, r
<1>4. /\ s \o <<u>> \in Seq(Datum) /\ Len(s \o <<u>>) = n + 1
      /\ \A k \in 1 .. n + 1 : (s \o <<u>>)[k] = IF k <= n THEN s[k] ELSE u
  BY <1>1, <1>2
<1>5. ASSUME NEW k \in 1 .. n + 1 PROVE (s \o <<u>>)[k] = r[k]
  BY <1>2, <1>3, <1>4
<1>6. s \o <<u>> = r
  <2> DEFINE q == s \o <<u>>
  <2>1. q \in Seq(Datum) /\ Len(q) = Len(r) /\ \A k \in 1 .. Len(q) : q[k] = r[k]
    BY <1>3, <1>4, <1>5
  <2> HIDE DEF q
  <2>2. q = r
    BY <1>3, <2>1, SameSeq
  <2> QED
    BY <2>2 DEF q
<1> QED
  BY <1>6 DEF s, r

\* The first n data of m are what the coder wrote.
Holds(m, i, p, n) == n <= Len(m) /\ \A k \in 1 .. n : m[k] = Unit(i, p, k)

LEMMA HeldUnits ==
  ASSUME NEW m \in Seq(Datum), NEW i \in Nat, NEW p \in Nat, NEW n \in Nat, Holds(m, i, p, n)
  PROVE  SubSeq(m, 1, n) = Units(i, p, n)
<1> DEFINE r == Units(i, p, n)
           s == SubSeq(m, 1, n)
<1>1. r \in Seq(Datum) /\ Len(r) = n /\ \A k \in 1 .. n : r[k] = Unit(i, p, k)
  BY UnitsFacts
<1>2. s \in Seq(Datum) /\ Len(s) = n /\ \A k \in 1 .. n : s[k] = m[k]
  BY DEF Holds
<1> HIDE DEF r, s
<1>3. r = s
  BY <1>1, <1>2 DEF Holds
<1> QED
  BY <1>3 DEF r, s

LEMMA HeldPut ==
  ASSUME NEW m \in Seq(Datum), NEW i \in Nat, NEW p \in Nat, NEW n \in Nat, Holds(m, i, p, n)
  PROVE  /\ Put(m, n, <<Unit(i, p, n + 1)>>) \in Seq(Datum)
         /\ Holds(Put(m, n, <<Unit(i, p, n + 1)>>), i, p, n + 1)
<1> DEFINE u == Unit(i, p, n + 1)
           s == <<u>>
           g == Put(m, n, s)
<1>1. s \in Seq(Datum) /\ Len(s) = 1 /\ s[1] = u
  <2>1. n + 1 \in Int
    OBVIOUS
  <2>2. u \in Datum
    BY <2>1, DatumFacts
  <2> QED
    BY <2>2
<1> HIDE DEF u, s
<1>2. /\ g \in Seq(Datum) /\ Len(g) = IF Len(m) >= n + 1 THEN Len(m) ELSE n + 1
      /\ \A k \in 1 .. Len(g) : g[k] = IF k \in n + 1 .. n + 1 THEN s[k - n]
                                       ELSE IF k <= Len(m) THEN m[k] ELSE Fill
  <2> HIDE DEF g
  <2>1. /\ g \in Seq(Datum) /\ Len(g) = IF Len(m) >= n + Len(s) THEN Len(m) ELSE n + Len(s)
        /\ \A k \in 1 .. Len(g) : g[k] = IF k \in n + 1 .. n + Len(s) THEN s[k - n]
                                         ELSE IF k <= Len(m) THEN m[k] ELSE Fill
    BY <1>1, PutFacts DEF g
  <2> QED
    BY <1>1, <2>1
<1> HIDE DEF g
<1>3. n + 1 <= Len(g) /\ n <= Len(m) /\ Len(m) \in Nat
  BY <1>2 DEF Holds
<1>4. ASSUME NEW k \in 1 .. n + 1 PROVE g[k] = Unit(i, p, k)
  <2>1. CASE k = n + 1
    BY <1>1, <1>2, <1>3, <2>1 DEF u
  <2>2. CASE k # n + 1
    BY <1>2, <1>3, <2>2 DEF Holds
  <2> QED
    BY <2>1, <2>2
<1> QED
  BY <1>2, <1>3, <1>4 DEF Holds, g, s, u

-----------------------------------------------------------------------------
(* The entries, one behind the other. *)

\* g has the first of s, the first two joined, and so on.
Flat(s, m, g) ==
  /\ g \in [1 .. m -> Seq(Datum)]
  /\ \A k \in 1 .. m : g[k] = IF k = 1 THEN s[k] ELSE g[k - 1] \o s[k]

LEMMA FlatExists ==
  ASSUME NEW s \in Seq(Seq(Datum)), NEW m \in 0 .. Len(s)
  PROVE  \E g : Flat(s, m, g)
<1> DEFINE bad == {l \in 0 .. Len(s) : ~ \E g : Flat(s, l, g)}
<1> SUFFICES ASSUME bad # {} PROVE FALSE
  OBVIOUS
<1>1. PICK l \in bad : \A j \in bad : l <= j
  <2>1. bad \subseteq Nat
    OBVIOUS
  <2> QED
    BY <2>1, Least
<1>2. CASE l = 0
  <2>1. Flat(s, 0, [k \in 1 .. 0 |-> <<>>])
    BY DEF Flat
  <2> QED
    BY <1>1, <1>2, <2>1
<1>3. CASE l # 0
  <2>1. l \in Nat /\ l - 1 \in 0 .. Len(s) /\ l \in 1 .. Len(s) /\ l - 1 \in Nat /\ ~ (l <= l - 1)
    BY <1>1, <1>3
  <2>2. PICK g : Flat(s, l - 1, g)
    BY <1>1, <2>1
  <2> DEFINE x == IF l = 1 THEN s[l] ELSE g[l - 1] \o s[l]
             h == [k \in 1 .. l |-> IF k = l THEN x ELSE g[k]]
  <2>3. x \in Seq(Datum)
    <3>1. s[l] \in Seq(Datum)
      BY <2>1
    <3>2. l # 1 => g[l - 1] \in Seq(Datum)
      <4>1. l # 1 => l - 1 \in 1 .. l - 1
        BY <2>1
      <4> QED
        BY <2>2, <4>1 DEF Flat
    <3> QED
      BY <3>1, <3>2
  <2> HIDE DEF x
  <2>4. h \in [1 .. l -> Seq(Datum)]
    <3>1. \A k \in 1 .. l : k # l => g[k] \in Seq(Datum)
      <4>1. \A k \in 1 .. l : k # l => k \in 1 .. l - 1
        BY <2>1
      <4> QED
        BY <2>2, <4>1 DEF Flat
    <3> QED
      BY <2>3, <3>1
  <2>5. ASSUME NEW k \in 1 .. l PROVE h[k] = IF k = 1 THEN s[k] ELSE h[k - 1] \o s[k]
    <3>1. k - 1 # l /\ (k # 1 => k - 1 \in 1 .. l)
      BY <2>1
    <3>2. h[k] = (IF k = l THEN x ELSE g[k]) /\ (k # 1 => h[k - 1] = g[k - 1])
      BY <3>1
    <3>3. CASE k = l
      BY <3>2, <3>3 DEF x
    <3>4. CASE k # l
      <4>1. k \in 1 .. l - 1
        BY <2>1, <3>4
      <4> QED
        BY <2>2, <3>2, <3>4, <4>1 DEF Flat
    <3> QED
      BY <3>3, <3>4
  <2> HIDE DEF h
  <2>6. Flat(s, l, h)
    BY <2>4, <2>5 DEF Flat
  <2> QED
    BY <1>1, <2>6
<1> QED
  BY <1>2, <1>3

\* What FlattenSeq is.
LEMMA FlatIs ==
  ASSUME NEW s \in Seq(Seq(Datum)), s # <<>>
  PROVE  \E g : Flat(s, Len(s), g) /\ FlattenSeq(s) = g[Len(s)]
<1> DEFINE m == Len(s)
           IsFlat(f) == f = [i \in 1 .. m |-> IF i = 1 THEN s[i] ELSE f[i - 1] \o s[i]]
           flatten == CHOOSE f : IsFlat(f)
<1>0. m \in Nat /\ m # 0 /\ m \in 1 .. m
  OBVIOUS
<1>1. PICK g : Flat(s, m, g)
  BY FlatExists
<1>2. IsFlat(g)
  BY <1>1 DEF Flat
<1>3. IsFlat(flatten)
  BY <1>2, Zenon
<1>4. FlattenSeq(s) = flatten[m]
  BY <1>0 DEF FlattenSeq
<1> HIDE DEF flatten
<1>5. \A k \in 1 .. m : flatten[k] = IF k = 1 THEN s[k] ELSE flatten[k - 1] \o s[k]
  BY <1>3, Zenon
<1>6. \A k \in 1 .. m : flatten[k] = g[k]
  <2> DEFINE bad == {k \in 1 .. m : flatten[k] # g[k]}
  <2> SUFFICES ASSUME bad # {} PROVE FALSE
    OBVIOUS
  <2>1. PICK k \in bad : \A j \in bad : k <= j
    <3>1. bad \subseteq Nat
      OBVIOUS
    <3> QED
      BY <3>1, Least
  <2>2. k \in 1 .. m /\ (k # 1 => k - 1 \in 1 .. m /\ ~ (k <= k - 1))
    BY <1>0, <2>1
  <2>3. k # 1 => flatten[k - 1] = g[k - 1]
    BY <2>1, <2>2
  <2> HIDE DEF m
  <2> QED
    BY <1>1, <1>5, <2>1, <2>2, <2>3, ZenonT(40) DEF Flat
<1> QED
  BY <1>0, <1>1, <1>4, <1>6

LEMMA FlatPrefix ==
  ASSUME NEW s \in Seq(Seq(Datum)), NEW r \in Seq(Seq(Datum)), s # <<>>, Len(s) <= Len(r),
         \A k \in 1 .. Len(s) : s[k] = r[k]
  PROVE  \E h : Flat(r, Len(r), h) /\ FlattenSeq(r) = h[Len(r)] /\ FlattenSeq(s) = h[Len(s)]
<1>1. r # <<>> /\ Len(s) \in 1 .. Len(s)
  OBVIOUS
<1>2. PICK h : Flat(r, Len(r), h) /\ FlattenSeq(r) = h[Len(r)]
  BY <1>1, FlatIs
<1>3. PICK g : Flat(s, Len(s), g) /\ FlattenSeq(s) = g[Len(s)]
  BY FlatIs
<1>4. \A k \in 1 .. Len(s) : g[k] = h[k]
  <2> DEFINE bad == {k \in 1 .. Len(s) : g[k] # h[k]}
  <2> SUFFICES ASSUME bad # {} PROVE FALSE
    OBVIOUS
  <2>1. PICK k \in bad : \A j \in bad : k <= j
    <3>1. bad \subseteq Nat
      OBVIOUS
    <3> QED
      BY <3>1, Least
  <2>2. k \in 1 .. Len(s) /\ k \in 1 .. Len(r) /\ s[k] = r[k]
    BY <2>1
  <2>3. /\ g[k] = IF k = 1 THEN s[k] ELSE g[k - 1] \o s[k]
        /\ h[k] = IF k = 1 THEN r[k] ELSE h[k - 1] \o r[k]
    BY <1>2, <1>3, <2>2 DEF Flat
  <2>4. k # 1 => g[k - 1] = h[k - 1]
    <3>1. k # 1 => k - 1 \in 1 .. Len(s) /\ ~ (k <= k - 1)
      BY <2>1
    <3> QED
      BY <2>1, <3>1
  <2> QED
    BY <2>1, <2>2, <2>3, <2>4
<1> QED
  BY <1>1, <1>2, <1>3, <1>4

LEMMA FlatAdd ==
  ASSUME NEW s \in Seq(Seq(Datum)), NEW r \in Seq(Seq(Datum)),
         Len(r) = Len(s) + 1, \A k \in 1 .. Len(s) : s[k] = r[k]
  PROVE  /\ FlattenSeq(s) \in Seq(Datum) /\ FlattenSeq(r) = FlattenSeq(s) \o r[Len(r)]
         /\ s = <<>> => FlattenSeq(s) = <<>>
<1>1. PICK n \in Nat, m \in Nat : n = Len(s) /\ m = Len(r)
  OBVIOUS
<1>2. /\ m \in 1 .. m /\ r[m] \in Seq(Datum) /\ m - 1 = n /\ (m = 1 <=> n = 0) /\ r # <<>>
      /\ Len(s) <= Len(r)
  BY <1>1
<1>3. ASSUME NEW h, Flat(r, Len(r), h)
      PROVE  h[m] = (IF n = 0 THEN r[m] ELSE h[n] \o r[m]) /\ (n # 0 => h[n] \in Seq(Datum))
  <2>1. \A k \in 1 .. m : h[k] = (IF k = 1 THEN r[k] ELSE h[k - 1] \o r[k]) /\ h[k] \in Seq(Datum)
    BY <1>1, <1>3 DEF Flat
  <2>2. h[m] = IF m = 1 THEN r[m] ELSE h[m - 1] \o r[m]
    BY <1>2, <2>1
  <2>3. n # 0 => n \in 1 .. m
    BY <1>2
  <2> QED
    BY <1>2, <2>1, <2>2, <2>3
<1>5. CASE s = <<>>
  <2>1. FlattenSeq(s) = <<>> /\ n = 0
    BY <1>1, <1>5 DEF FlattenSeq
  <2>2. <<>> \o r[m] = r[m] /\ <<>> \in Seq(Datum)
    BY <1>2
  <2>3. PICK h : Flat(r, Len(r), h) /\ FlattenSeq(r) = h[Len(r)]
    BY <1>2, FlatIs
  <2> QED
    BY <1>1, <1>3, <1>5, <2>1, <2>2, <2>3
<1>6. CASE s # <<>>
  <2>1. PICK h : Flat(r, Len(r), h) /\ FlattenSeq(r) = h[Len(r)] /\ FlattenSeq(s) = h[Len(s)]
    BY <1>2, <1>6, FlatPrefix
  <2>2. n # 0
    BY <1>1, <1>6
  <2> QED
    BY <1>1, <1>3, <1>6, <2>1, <2>2
<1> QED
  BY <1>5, <1>6

PackedType == packed \in [1 .. NumItems -> [pass : Nat, pack : Nat]]

LEMMA EntryType ==
  ASSUME PackedType, NEW i \in 1 .. NumItems, NumItems \in Nat
  PROVE  Entry(i) \in Seq(Datum)
<1>1. i \in Nat /\ packed[i].pass \in Nat /\ packed[i].pack \in Nat /\ 1 \in Int
      /\ packed[i].pack \in Int /\ 0 \in Nat
  BY DEF PackedType
<1>2. Header(i, FALSE, 1) \in Datum /\ OldData(i) \in Datum
  BY <1>1, DatumFacts
<1>3. \A d : Header(i, d, packed[i].pack) \in Datum /\ Trailer(i, d, packed[i].pack) \in Seq(Datum)
  BY <1>1, DatumFacts
<1>4. Units(i, packed[i].pass, packed[i].pack) \in Seq(Datum)
  BY <1>1, UnitsFacts
<1> DEFINE d == Descriptor(refs[i].seq)
           h == Header(i, d, packed[i].pack)
           u == Units(i, packed[i].pass, packed[i].pack)
           e == Trailer(i, d, packed[i].pack)
<1>5. h \in Datum /\ u \in Seq(Datum) /\ e \in Seq(Datum)
  BY <1>3, <1>4
<1> HIDE DEF h, u, e
<1>6. <<h>> \o u \o e \in Seq(Datum)
  BY <1>5
<1>7. <<Header(i, FALSE, 1), OldData(i)>> \in Seq(Datum)
  <2> DEFINE a == Header(i, FALSE, 1)
             b == OldData(i)
  <2>1. a \in Datum /\ b \in Datum
    BY <1>2
  <2> HIDE DEF a, b
  <2>2. <<a, b>> \in Seq(Datum)
    BY <2>1
  <2> QED
    BY <2>2 DEF a, b
<1> QED
  <2>1. <<>> \in Seq(Datum)
    OBVIOUS
  <2> QED
    BY <1>6, <1>7, <2>1 DEF Entry, h, u, e, d

\* One entry more.
LEMMA EntriesAdd ==
  ASSUME PackedType, NumItems \in Nat, NEW n \in 0 .. NumItems
  PROVE  /\ Entries(n) \in Seq(Datum)
         /\ n < NumItems => Entries(n + 1) = Entries(n) \o Entry(n + 1)
         /\ n = 0 => Entries(n) = <<>>
<1> DEFINE s(m) == [i \in 1 .. m |-> Entry(i)]
<1>1. ASSUME NEW m \in 0 .. NumItems
      PROVE  s(m) \in Seq(Seq(Datum)) /\ Len(s(m)) = m /\ \A k \in 1 .. m : s(m)[k] = Entry(k)
  <2>1. \A i \in 1 .. m : Entry(i) \in Seq(Datum)
    BY EntryType
  <2> QED
    BY <2>1
<1>2. \A m : Entries(m) = FlattenSeq(s(m))
  BY DEF Entries
<1>3. CASE n < NumItems
  <2>1. PICK m \in 0 .. NumItems : m = n + 1 /\ m \in Nat /\ n \in Nat /\ m \in 1 .. m
    BY <1>3
  <2> DEFINE a == s(n)
             b == s(m)
  <2>2. /\ a \in Seq(Seq(Datum)) /\ Len(a) = n /\ b \in Seq(Seq(Datum)) /\ Len(b) = m
        /\ \A k \in 1 .. n : a[k] = b[k]
        /\ b[m] = Entry(m)
    BY <1>1, <2>1
  <2>3. Entries(n) = FlattenSeq(a) /\ Entries(m) = FlattenSeq(b)
    BY <1>2
  <2> HIDE DEF a, b
  <2> QED
    <3>1. a \in Seq(Seq(Datum)) /\ b \in Seq(Seq(Datum)) /\ Len(b) = Len(a) + 1
          /\ \A k \in 1 .. Len(a) : a[k] = b[k]
      BY <2>1, <2>2
    <3>2. /\ FlattenSeq(a) \in Seq(Datum) /\ FlattenSeq(b) = FlattenSeq(a) \o b[Len(b)]
          /\ a = <<>> => FlattenSeq(a) = <<>>
      BY <3>1, FlatAdd
    <3>3. n = 0 => a = <<>>
      BY <2>2
    <3> QED
      BY <1>3, <2>1, <2>2, <2>3, <3>2, <3>3
<1>4. CASE n = NumItems
  <2>1. PICK m \in Nat : m = n + 1 /\ n \in Nat /\ n \in 0 .. NumItems
    BY <1>4
  <2> DEFINE a == s(n)
             b == a \o << <<>> >>
  <2>2. /\ a \in Seq(Seq(Datum)) /\ Len(a) = n
        /\ Entries(n) = FlattenSeq(a)
    BY <1>1, <1>2, <2>1
  <2> HIDE DEF a
  <2>3. b \in Seq(Seq(Datum)) /\ Len(b) = Len(a) + 1 /\ \A k \in 1 .. Len(a) : a[k] = b[k]
    BY <2>1, <2>2
  <2> HIDE DEF b
  <2>4. FlattenSeq(a) \in Seq(Datum) /\ (a = <<>> => FlattenSeq(a) = <<>>)
    BY <2>2, <2>3, FlatAdd
  <2>5. n = 0 => a = <<>>
    BY <2>2
  <2> QED
    BY <1>4, <2>1, <2>2, <2>4, <2>5
<1> QED
  BY <1>3, <1>4

LEMMA EntriesSame ==
  ASSUME NEW n, \A i \in 1 .. n : Entry(i)' = Entry(i)
  PROVE  Entries(n)' = Entries(n)
<1>1. [i \in 1 .. n |-> Entry(i)]' = [i \in 1 .. n |-> Entry(i)]
  OBVIOUS
<1> QED
  BY <1>1 DEF Entries

LEMMA EntrySame ==
  ASSUME UNCHANGED <<items, seqOut>>, NEW i, packed'[i] = packed[i],
         refs'[i].skip = refs[i].skip, refs'[i].seq = refs[i].seq
  PROVE  Entry(i)' = Entry(i)
  BY DEF Entry, Descriptor

MaxSize == Max(Sizes)

LEMMA MaxSizeFacts == MaxSize \in Sizes /\ MaxSize \in Nat /\ \A k \in Sizes : k <= MaxSize
<1>1. Sizes \subseteq Nat /\ Sizes # {} /\ IsFiniteSet(Sizes)
  BY ZipUpdateAssumption
<1>2. PICK q \in Seq(Sizes) : \A k \in Sizes : \E j \in 1 .. Len(q) : q[j] = k
  BY <1>1 DEF IsFiniteSet
<1> DEFINE Over(m) == {b \in Nat : \A j \in 1 .. m : q[j] <= b}
           bad == {m \in 0 .. Len(q) : Over(m) = {}}
<1>3. bad = {}
  <2> SUFFICES ASSUME bad # {} PROVE FALSE
    OBVIOUS
  <2>1. PICK m \in bad : \A j \in bad : m <= j
    <3>1. bad \subseteq Nat
      OBVIOUS
    <3> QED
      BY <3>1, Least
  <2>2. m # 0
    <3>1. 0 \in Over(0)
      OBVIOUS
    <3> QED
      BY <2>1, <3>1
  <2>3. m - 1 \in 0 .. Len(q) /\ ~ (m <= m - 1) /\ m \in 1 .. Len(q)
    BY <2>1, <2>2
  <2>4. PICK b \in Over(m - 1) : TRUE
    BY <2>1, <2>3
  <2>7. \A j \in 1 .. Len(q) : q[j] \in Sizes
    BY <1>2
  <2>5. q[m] \in Nat
    BY <1>1, <1>2, <2>3, <2>7
  <2>6. b + q[m] \in Over(m)
    <3>1. ASSUME NEW j \in 1 .. m PROVE q[j] <= b + q[m]
      <4>1. CASE j = m
        BY <2>4, <2>5, <4>1
      <4>2. CASE j # m
        <5>0. Len(q) \in Nat /\ j \in 1 .. m - 1
          BY <1>2, <4>2, <2>3
        <5>1. j \in 1 .. m - 1 /\ q[j] \in Nat
          <6>1. j \in 1 .. Len(q)
            BY <2>3, <5>0
          <6>2. q[j] \in Sizes
            BY <2>7, <6>1
          <6> QED
            BY <1>1, <5>0, <6>2
        <5> QED
          BY <2>4, <2>5, <5>1
      <4> QED
        BY <4>1, <4>2
    <3>2. b + q[m] \in Nat
      BY <2>4, <2>5
    <3> QED
      BY <3>1, <3>2
  <2> QED
    BY <2>1, <2>6
<1>4. PICK b \in Over(Len(q)) : \A c \in Over(Len(q)) : b <= c
  <2>1. Over(Len(q)) \subseteq Nat /\ Over(Len(q)) # {}
    <3>1. Len(q) \in 0 .. Len(q)
      BY <1>2
    <3> QED
      BY <1>3, <3>1
  <2> QED
    BY <2>1, Least
<1>5. \A k \in Sizes : k <= b
  BY <1>2, <1>4
<1>6. b \in Sizes
  <2> SUFFICES ASSUME b \notin Sizes PROVE FALSE
    OBVIOUS
  <2>1. \A k \in Sizes : k < b /\ k \in Nat /\ b \in Nat
    BY <1>1, <1>4, <1>5
  <2>2. b - 1 \in Nat /\ \A k \in Sizes : k <= b - 1
    <3>1. PICK k \in Sizes : TRUE
      BY <1>1
    <3>2. k < b /\ k \in Nat /\ b \in Nat
      BY <2>1
    <3> QED
      BY <2>1, <3>2
  <2>3. \A j \in 1 .. Len(q) : q[j] \in Sizes
    BY <1>2
  <2>4. b - 1 \in Over(Len(q))
    BY <2>2, <2>3
  <2> QED
    BY <1>4, <2>4
<1>7. \E x \in Sizes : \A y \in Sizes : x >= y
  BY <1>1, <1>5, <1>6
<1>8. MaxSize \in Sizes /\ \A y \in Sizes : MaxSize >= y
  BY <1>7 DEF MaxSize, Max
<1> QED
  BY <1>1, <1>8

-----------------------------------------------------------------------------
(* What a step of a thread does to its records and to the file. *)

Works(t) == pc[t] \in {"code", "alloc"}
Quiet == UNCHANGED <<file, pos, hres, failures>>
Moved(t, k, l) == pc[t] = k /\ pc'[t] = l

SameCode(t) ==
  /\ info'[t].result = info[t].result /\ info'[t].pass = info[t].pass /\ info'[t].n = info[t].n
  /\ info'[t].size = info[t].size /\ info'[t].pack = info[t].pack
SamePlace(t) == stream'[t].real = stream[t].real /\ stream'[t].toReal = stream[t].toReal
SameMemory(t) == /\ stream'[t].mem = stream[t].mem /\ stream'[t].cur = stream[t].cur
                 /\ stream'[t].total = stream[t].total
SameData(t) == SamePlace(t) /\ SameMemory(t)

\* The coder writes one unit more; a pass of it begins.
OneMore(t) ==
  /\ info'[t].result = info[t].result /\ info'[t].pass = info[t].pass
  /\ info[t].n < info[t].size /\ info'[t].n = info[t].n + 1 /\ info'[t].size = info[t].size
NewPass(t) ==
  /\ info'[t].result = info[t].result /\ info'[t].n = 0 /\ info'[t].size \in Sizes

Rests(t) ==
  /\ \/ /\ Moved(t, "release", "post") \/ Moved(t, "post", "idle")
        /\ info'[t].compress = info[t].compress
     \/ Moved(t, "idle", "ended") /\ info[t].exit
  /\ SameCode(t) /\ SameData(t) /\ Quiet /\ packed' = packed
Begins(t) ==
  /\ Moved(t, "idle", "code") /\ info[t].compress /\ ~ info[t].exit /\ ~ info'[t].compress
  /\ NewPass(t) /\ SameData(t) /\ Quiet /\ packed' = packed
Allocates(t) ==
  /\ Moved(t, "code", "alloc") \/ Moved(t, "alloc", "code")
  /\ SameCode(t) /\ SameData(t) /\ Quiet /\ packed' = packed
Remembers(t) ==
  /\ Moved(t, "code", "code") /\ ~ stream[t].real /\ OneMore(t) /\ SamePlace(t)
  /\ stream'[t].cur = stream[t].cur + 1
  /\ stream'[t].total = Max({stream[t].total, stream[t].cur + 1})
  /\ stream'[t].mem = Put(stream[t].mem, stream[t].cur, <<Next1(t)>>)
  /\ Quiet /\ packed' = packed
WritesOn(t) ==
  /\ Moved(t, "code", "code") /\ OneMore(t) /\ stream[t].real /\ SameData(t)
  /\ WriteAt(pos, <<Next1(t)>>) /\ packed' = packed
WritesAll(t) ==
  /\ Moved(t, "code", "code") /\ OneMore(t) /\ ~ stream[t].real /\ stream[t].toReal
  /\ stream'[t].real /\ ~ stream'[t].toReal
  /\ stream'[t].cur = stream[t].cur /\ stream'[t].total = 0 /\ stream'[t].mem = <<>>
  /\ WriteAt(pos, Collected(stream[t]) \o <<Next1(t)>>) /\ packed' = packed
Fails(t) ==
  /\ Moved(t, "code", "release")
  /\ info'[t].result \in Results \ {"none", "ok"} /\ info'[t].n = 0 /\ info'[t].size = 0
  /\ info'[t].pass = info[t].pass
  /\ stream'[t].cur = stream[t].cur /\ stream'[t].mem \in {stream[t].mem, <<>>}
  /\ stream[t].real => stream'[t].real
  /\ stream'[t].real \/ stream'[t].toReal => stream[t].real \/ stream[t].toReal
  /\ UNCHANGED <<file, pos, packed>> /\ hres' \in {hres, "write"}
  /\ failures' = failures \/ (failures < MaxFaults /\ failures' = failures + 1)
PassDone(t) ==
  /\ Moved(t, "code", "release") /\ info[t].n = info[t].size
  /\ info'[t].result = "ok" /\ info'[t].n = 0 /\ info'[t].size = 0 /\ info'[t].pass = info[t].pass
  /\ info'[t].pack = PackSize(t)
  /\ packed' = [packed EXCEPT ![info[t].item] = [pass |-> info[t].pass, pack |-> info[t].n]]
  /\ SameData(t) /\ Quiet
Restarts(t) ==
  /\ Moved(t, "code", "code") /\ ~ stream[t].real /\ NewPass(t) /\ SamePlace(t)
  /\ stream'[t].cur = 0 /\ stream'[t].total = 0 /\ stream'[t].mem = stream[t].mem
  /\ Quiet /\ packed' = packed
CutsOff(t) ==
  /\ Moved(t, "code", "code") /\ stream[t].real /\ NewPass(t) /\ SameData(t)
  /\ hres = "ok" /\ file' = Cut(file, stream[t].offset) /\ pos' = stream[t].offset
  /\ UNCHANGED <<hres, failures, packed>>

Does(t) == \/ Rests(t) \/ Begins(t) \/ Allocates(t) \/ Remembers(t) \/ WritesOn(t) \/ WritesAll(t)
           \/ Fails(t) \/ PassDone(t) \/ Restarts(t) \/ CutsOff(t)

LEMMA InfoFields ==
  ASSUME NEW V, NEW i \in InfoType(V)
  PROVE  /\ \A k : LET j == Begun(i, k) IN j.exit = i.exit /\ j.n = 0 /\ j.size = k
                                           /\ j.result = i.result /\ ~ j.compress
         /\ \A p, k : LET j == OnPass(i, p, k) IN j.exit = i.exit /\ j.n = 0 /\ j.size = k
                                                  /\ j.result = i.result
         /\ \A r : LET j == Returned(i, r) IN j.exit = i.exit /\ j.n = 0 /\ j.size = 0
                                              /\ j.result = r /\ j.pass = i.pass
         /\ \A p : LET j == Coded(i, p) IN j.exit = i.exit /\ j.n = 0 /\ j.size = 0
                                           /\ j.result = "ok" /\ j.pass = i.pass /\ j.pack = p
         /\ LET j == [i EXCEPT !.n = @ + 1] IN j.exit = i.exit /\ j.n = i.n + 1 /\ j.size = i.size
                                               /\ j.result = i.result /\ j.pass = i.pass
         /\ LET j == [i EXCEPT !.compress = FALSE]
            IN j.exit = i.exit /\ j.n = i.n /\ j.size = i.size /\ j.result = i.result
               /\ j.pass = i.pass /\ j.pack = i.pack
<1>1. ASSUME NEW k PROVE LET j == Begun(i, k) IN j.exit = i.exit /\ j.n = 0 /\ j.size = k
                                                 /\ j.result = i.result /\ ~ j.compress
  BY DEF InfoType, Begun, OnPass
<1>2. ASSUME NEW p, NEW k
      PROVE  LET j == OnPass(i, p, k) IN j.exit = i.exit /\ j.n = 0 /\ j.size = k
                                         /\ j.result = i.result
  BY DEF InfoType, OnPass
<1>3. ASSUME NEW r PROVE LET j == Returned(i, r) IN j.exit = i.exit /\ j.n = 0 /\ j.size = 0
                                                    /\ j.result = r /\ j.pass = i.pass
  BY DEF InfoType, Returned
<1>4. ASSUME NEW p PROVE LET j == Coded(i, p) IN j.exit = i.exit /\ j.n = 0 /\ j.size = 0
                                           /\ j.result = "ok" /\ j.pass = i.pass /\ j.pack = p
  BY DEF InfoType, Returned, Coded
<1>5. LET j == [i EXCEPT !.n = @ + 1] IN j.exit = i.exit /\ j.n = i.n + 1 /\ j.size = i.size
                                               /\ j.result = i.result /\ j.pass = i.pass
  BY DEF InfoType
<1>6. LET j == [i EXCEPT !.compress = FALSE]
            IN j.exit = i.exit /\ j.n = i.n /\ j.size = i.size /\ j.result = i.result
               /\ j.pass = i.pass /\ j.pack = i.pack
  BY DEF InfoType
<1> QED
  BY <1>1, <1>2, <1>3, <1>4, <1>5, <1>6, Zenon

LEMMA RememberFields ==
  ASSUME NEW V, NEW s \in StreamType(V), NEW u, NEW z, z = Remember(s, u)
  PROVE  /\ z.real = s.real /\ z.toReal = s.toReal /\ z.unlocked = s.unlocked
         /\ z.offset = s.offset /\ z.cur = s.cur + 1
         /\ z.total = Max({s.total, s.cur + 1}) /\ z.mem = Put(s.mem, s.cur, <<u>>)
  BY DEF StreamType, Remember

LEMMA ToRealFields ==
  ASSUME NEW V, NEW s \in StreamType(V), NEW z, z = ToReal(s)
  PROVE  /\ z.real /\ ~ z.toReal /\ z.unlocked = s.unlocked /\ z.offset = s.offset
         /\ z.cur = s.cur /\ z.total = s.total /\ z.mem = s.mem
  BY DEF StreamType, ToReal

LEMMA EmptiedFields ==
  ASSUME NEW V, NEW s \in StreamType(V), NEW z, z = Emptied(s)
  PROVE  /\ z.real = s.real /\ z.toReal = s.toReal /\ z.unlocked = s.unlocked
         /\ z.offset = s.offset /\ z.cur = s.cur /\ z.total = 0 /\ z.mem = <<>>
  BY DEF StreamType, Emptied

LEMMA RewindFields ==
  ASSUME NEW V, NEW s \in StreamType(V), NEW z, z = Rewind(s)
  PROVE  /\ z.real = s.real /\ z.toReal = s.toReal /\ z.unlocked = s.unlocked
         /\ z.offset = s.offset /\ z.cur = 0 /\ z.total = 0 /\ z.mem = s.mem
  BY DEF StreamType, Rewind

LEMMA SmallFields ==
  ASSUME NEW V, NEW s \in StreamType(V), NEW z,
         z = [s EXCEPT !.stop = FALSE] \/ z = [s EXCEPT !.stop = TRUE] \/ z = [s EXCEPT !.blocks = @ + 1]
  PROVE  /\ z.real = s.real /\ z.toReal = s.toReal /\ z.unlocked = s.unlocked
         /\ z.offset = s.offset /\ z.cur = s.cur /\ z.total = s.total /\ z.mem = s.mem
  BY DEF StreamType

\* What stays of a thread's records.
Own(t) == /\ info'[t].exit = info[t].exit
          /\ stream'[t].unlocked = stream[t].unlocked /\ stream'[t].offset = stream[t].offset

\* What main and the other threads have.
Others(t) ==
  /\ \A u \in Thread : u # t => pc'[u] = pc[u] /\ info'[u] = info[u] /\ stream'[u] = stream[u]
  /\ info'[t].item = info[t].item /\ info'[t].seq = info[t].seq
  /\ info'[t].compress => info[t].compress
  /\ ready' = ready \/ (Moved(t, "release", "post") /\ ready' = <<t>> \o ready)
  /\ UNCHANGED <<requestVars, mainVars, curPos, headerPos>>

LEMMA ThreadDoes ==
  ASSUME IInv, NEW t \in Thread, ThreadStep(t)
  PROVE  Does(t) /\ Own(t)
<1>0. Types /\ Full /\ Counted
  BY DEF IInv
<1>1. PICK V : Records(V)
  BY <1>0 DEF Types
<1>2. PICK i \in InfoType(V), s \in StreamType(V) : i = info[t] /\ s = stream[t]
  BY <1>1 DEF Records
<1>3. /\ pc \in [Thread -> ThreadPc] /\ info \in [Thread -> InfoType(V)]
      /\ stream \in [Thread -> StreamType(V)] /\ HasAll(s) /\ hres \in {"ok", "write"}
  BY <1>0, <1>1, <1>2 DEF Records, Full, Types, MainTypes
<1>4. /\ \A k : pc' = [pc EXCEPT ![t] = k] => pc'[t] = k
      /\ \A j : info' = [info EXCEPT ![t] = j] => info'[t] = j
      /\ \A z : stream' = [stream EXCEPT ![t] = z] => stream'[t] = z
  BY <1>3
<1>5. ASSUME info' = info PROVE SameCode(t) /\ info'[t].exit = info[t].exit
                                /\ info'[t].compress = info[t].compress
  BY <1>5 DEF SameCode
<1>6. ASSUME stream' = stream
      PROVE  SameData(t) /\ stream'[t].unlocked = stream[t].unlocked
             /\ stream'[t].offset = stream[t].offset
  BY <1>6 DEF SameData, SamePlace, SameMemory
<1>7. ASSUME Wrote(t), info[t].n < info[t].size PROVE OneMore(t) /\ info'[t].exit = info[t].exit
  <2>1. info'[t] = [i EXCEPT !.n = @ + 1]
    BY <1>2, <1>4, <1>7 DEF Wrote
  <2> QED
    BY <1>2, <1>7, <2>1, InfoFields DEF OneMore
<1>8. ASSUME NEW r, Returns(t, r)
      PROVE  /\ info'[t].result = r /\ info'[t].n = 0 /\ info'[t].size = 0
             /\ info'[t].pass = info[t].pass /\ info'[t].exit = info[t].exit /\ pc'[t] = "release"
  <2>1. info'[t] = Returned(i, r) /\ pc'[t] = "release"
    BY <1>2, <1>4, <1>8 DEF Returns, Goto
  <2> QED
    BY <1>2, <2>1, InfoFields
<1>9. ASSUME NextMethod(t) PROVE NewPass(t) /\ info'[t].exit = info[t].exit
  <2>1. PICK k \in Sizes : info'[t] = OnPass(i, i.pass + 1, k)
    BY <1>2, <1>4, <1>9 DEF NextMethod
  <2> QED
    BY <1>2, <2>1, InfoFields DEF NewPass
<1>10. CASE Begin(t)
  <2>1. SameData(t) /\ Quiet /\ packed' = packed /\ stream'[t].unlocked = stream[t].unlocked
        /\ stream'[t].offset = stream[t].offset
    BY <1>6, <1>10 DEF Begin, Quiet, archiveVars
  <2>2. CASE info[t].exit /\ info' = [info EXCEPT ![t].compress = FALSE] /\ Goto(t, "ended")
    <3>1. info'[t] = [i EXCEPT !.compress = FALSE] /\ pc'[t] = "ended" /\ pc[t] = "idle"
      BY <1>2, <1>4, <1>10, <2>2 DEF Begin, Goto
    <3>2. SameCode(t) /\ info'[t].exit = info[t].exit
      BY <1>2, <3>1, InfoFields DEF SameCode
    <3> QED
      BY <2>1, <2>2, <3>1, <3>2 DEF Does, Rests, Own, Moved
  <2>3. CASE ~ info[t].exit /\ Goto(t, "code")
    <3>1. PICK k \in Sizes : info'[t] = Begun(i, k)
      BY <1>2, <1>4, <1>10, <2>3 DEF Begin
    <3>2. NewPass(t) /\ info'[t].exit = info[t].exit /\ ~ info'[t].compress
      BY <1>2, <3>1, InfoFields DEF NewPass
    <3>3. pc[t] = "idle" /\ pc'[t] = "code" /\ info[t].compress
      BY <1>4, <1>10, <2>3 DEF Begin, Goto
    <3> QED
      BY <2>1, <2>3, <3>2, <3>3 DEF Does, Begins, Own, Moved
  <2> QED
    BY <1>10, <2>2, <2>3 DEF Begin
<1>11. CASE WriteBlock(t)
  <2>1. stream'[t] = Remember(s, Next1(t)) /\ ~ stream[t].real /\ pc[t] = "code" /\ pc' = pc
        /\ OneMore(t) /\ info'[t].exit = info[t].exit /\ Quiet /\ packed' = packed
    BY <1>2, <1>4, <1>7, <1>11 DEF WriteBlock, Coding, Wrote, Quiet, archiveVars
  <2>2. /\ SamePlace(t) /\ stream'[t].unlocked = stream[t].unlocked
        /\ stream'[t].offset = stream[t].offset
        /\ stream'[t].cur = stream[t].cur + 1
        /\ stream'[t].total = Max({stream[t].total, stream[t].cur + 1})
        /\ stream'[t].mem = Put(stream[t].mem, stream[t].cur, <<Next1(t)>>)
    <3> DEFINE z == Remember(s, Next1(t))
    <3>1. /\ z.real = s.real /\ z.toReal = s.toReal /\ z.unlocked = s.unlocked
          /\ z.offset = s.offset /\ z.cur = s.cur + 1
          /\ z.total = Max({s.total, s.cur + 1}) /\ z.mem = Put(s.mem, s.cur, <<Next1(t)>>)
      BY RememberFields
    <3>2. stream'[t] = z /\ s = stream[t]
      BY <1>2, <2>1
    <3> HIDE DEF z
    <3> QED
      BY <3>1, <3>2, Zenon DEF SamePlace
  <2> QED
    BY <2>1, <2>2 DEF Does, Remembers, Own, Moved
<1>12. CASE WriteReal(t)
  <2>1. SameData(t) /\ packed' = packed /\ stream'[t].unlocked = stream[t].unlocked
        /\ stream'[t].offset = stream[t].offset /\ stream' = stream
    BY <1>6, <1>12 DEF WriteReal
  <2>2. pc[t] = "code" /\ stream[t].real /\ info[t].n < info[t].size
    BY <1>12 DEF WriteReal, Coding
  <2>3. CASE WriteAt(pos, <<Next1(t)>>) /\ Wrote(t)
    BY <1>7, <2>1, <2>2, <2>3 DEF Does, WritesOn, Own, Moved, Wrote
  <2>4. CASE WriteFails /\ Returns(t, "write")
    BY <1>8, <2>1, <2>2, <2>4 DEF Does, Fails, Own, Moved, WriteFails, MayFail, Results
  <2> QED
    BY <1>12, <2>3, <2>4 DEF WriteReal
<1>13. CASE WaitStop(t)
  <2>1. stream'[t] = [s EXCEPT !.stop = FALSE] /\ pc[t] = "code" /\ Returns(t, "abort")
        /\ Quiet /\ packed' = packed
    BY <1>2, <1>4, <1>13 DEF WaitStop, MustWait, Coding, Quiet, archiveVars
  <2>2. /\ stream'[t].real = stream[t].real /\ stream'[t].toReal = stream[t].toReal
        /\ stream'[t].unlocked = stream[t].unlocked
        /\ stream'[t].offset = stream[t].offset
        /\ stream'[t].cur = stream[t].cur /\ stream'[t].mem = stream[t].mem
    BY <1>2, <2>1, SmallFields
  <2> QED
    BY <1>8, <2>1, <2>2 DEF Does, Fails, Own, Moved, Quiet, Results
<1>14. CASE WaitReal(t)
  <2> DEFINE r == ToReal(s)
             e == Emptied(r)
  <2>1. /\ r \in StreamType(V) /\ HasAll(r)
        /\ r.real /\ ~ r.toReal /\ r.unlocked = s.unlocked /\ r.offset = s.offset
        /\ r.cur = s.cur /\ r.total = s.total /\ r.mem = s.mem
    <3>1. r \in StreamType(V) /\ r.blocks = s.blocks
      BY ToRealFacts
    <3>2. /\ r.real /\ ~ r.toReal /\ r.unlocked = s.unlocked /\ r.offset = s.offset
          /\ r.cur = s.cur /\ r.total = s.total /\ r.mem = s.mem
      BY ToRealFields
    <3> QED
      BY <1>3, <3>1, <3>2 DEF HasAll
  <2> HIDE DEF r
  <2>2. /\ e.real /\ ~ e.toReal /\ e.unlocked = s.unlocked /\ e.offset = s.offset
        /\ e.cur = s.cur /\ e.total = 0 /\ e.mem = <<>>
    BY <2>1, EmptiedFields
  <2> HIDE DEF e
  <2>3. /\ pc[t] = "code" /\ info[t].n < info[t].size /\ ~ stream[t].real /\ stream[t].toReal
        /\ packed' = packed
    BY <1>14 DEF WaitReal, MustWait, Coding
  <2>4. CASE /\ WriteAt(pos, Collected(r) \o <<Next1(t)>>) /\ Wrote(t)
             /\ stream' = [stream EXCEPT ![t] = e]
    <3>1. Collected(r) = Collected(stream[t])
      BY <1>2, <2>1 DEF Collected
    <3>2. stream'[t] = e /\ OneMore(t) /\ info'[t].exit = info[t].exit /\ pc' = pc
      BY <1>4, <1>7, <2>3, <2>4 DEF Wrote
    <3> QED
      BY <1>2, <2>2, <2>3, <2>4, <3>1, <3>2 DEF Does, WritesAll, Own, Moved
  <2>5. CASE WriteFails /\ Returns(t, "write") /\ stream'[t] \in {r, e}
    BY <1>2, <1>8, <2>1, <2>2, <2>3, <2>5 DEF Does, Fails, Own, Moved, WriteFails, MayFail, Results
  <2> QED
    BY <1>2, <1>4, <1>14, <2>1, <2>4, <2>5 DEF WaitReal, r, e
<1>15. CASE WaitBlock(t)
  BY <1>4, <1>5, <1>6, <1>15 DEF WaitBlock, MustWait, Coding, Goto, Does, Allocates, Own, Moved, Quiet,
                                 archiveVars
<1>16. CASE AllocateBlock(t)
  <2>1. /\ pc[t] = "alloc" /\ info' = info /\ Goto(t, "code") /\ Quiet /\ packed' = packed
        /\ stream'[t] = [s EXCEPT !.blocks = @ + 1]
    <3>1. freeBlocks # 0
      BY <1>0, <1>16, BlockIsThere DEF AllocateBlock
    <3>2. stream' = [stream EXCEPT ![t] = [stream[t] EXCEPT !.blocks = @ + 1]]
      BY <1>16, <3>1 DEF AllocateBlock
    <3> QED
      BY <1>2, <1>4, <1>16, <3>1, <3>2 DEF AllocateBlock, Quiet, archiveVars
  <2>2. /\ SameData(t) /\ stream'[t].unlocked = stream[t].unlocked
        /\ stream'[t].offset = stream[t].offset
    BY <1>2, <2>1, SmallFields DEF SameData, SamePlace, SameMemory
  <2> QED
    BY <1>4, <1>5, <2>1, <2>2 DEF Does, Allocates, Own, Moved, Goto
<1>17. CASE PassEnds(t)
  <2>1. info'[t] = Coded(i, PackSize(t)) /\ pc'[t] = "release" /\ pc[t] = "code"
        /\ info[t].n = info[t].size /\ Quiet /\ stream' = stream
        /\ packed' = [packed EXCEPT ![info[t].item] = [pass |-> info[t].pass, pack |-> info[t].n]]
    BY <1>2, <1>4, <1>17 DEF PassEnds, AtEnd, Goto, Quiet, archiveVars
  <2>2. /\ info'[t].result = "ok" /\ info'[t].n = 0 /\ info'[t].size = 0
        /\ info'[t].pass = info[t].pass /\ info'[t].pack = PackSize(t)
        /\ info'[t].exit = info[t].exit
    BY <1>2, <2>1, InfoFields
  <2> QED
    BY <1>6, <2>1, <2>2 DEF Does, PassDone, Own, Moved
<1>18. CASE NextPass(t)
  <2>1. pc[t] = "code" /\ packed' = packed
    BY <1>18 DEF NextPass, AtEnd
  <2>2. CASE /\ ~ stream[t].real /\ stream' = [stream EXCEPT ![t] = Rewind(stream[t])]
             /\ NextMethod(t) /\ UNCHANGED <<failures, file, pos, hres, pc>>
    <3>1. stream'[t] = Rewind(s)
      BY <1>2, <1>4, <2>2
    <3>2. /\ SamePlace(t) /\ stream'[t].unlocked = stream[t].unlocked
          /\ stream'[t].offset = stream[t].offset
          /\ stream'[t].cur = 0 /\ stream'[t].total = 0 /\ stream'[t].mem = stream[t].mem
      BY <1>2, <3>1, RewindFields DEF SamePlace
    <3> QED
      BY <1>9, <2>1, <2>2, <3>2 DEF Does, Restarts, Own, Moved, Quiet
  <2>3. CASE /\ stream[t].real /\ hres = "ok"
             /\ file' = Cut(file, stream[t].offset) /\ pos' = stream[t].offset
             /\ NextMethod(t) /\ UNCHANGED <<failures, hres, pc, stream>>
    BY <1>6, <1>9, <2>1, <2>3 DEF Does, CutsOff, Own, Moved
  <2>4. CASE stream[t].real /\ WriteFails /\ Returns(t, "write") /\ UNCHANGED stream
    BY <1>8, <2>1, <2>4 DEF Does, Fails, Own, Moved, WriteFails, MayFail, Results
  <2> QED
    BY <1>18, <2>2, <2>3, <2>4 DEF NextPass
<1>19. CASE CodeFails(t)
  BY <1>8, <1>19 DEF CodeFails, Does, Fails, Own, Moved, MayFail, Results, archiveVars
<1>20. CASE ReleaseItem(t) \/ Post(t)
  BY <1>4, <1>5, <1>6, <1>20 DEF ReleaseItem, Post, Goto, Does, Rests, Own, Moved, Quiet, archiveVars
<1> QED
  BY <1>10, <1>11, <1>12, <1>13, <1>14, <1>15, <1>16, <1>17, <1>18, <1>19, <1>20 DEF ThreadStep

LEMMA ThreadOthers ==
  ASSUME IInv, NEW t \in Thread, ThreadStep(t)
  PROVE  Others(t)
<1>0. Types /\ Full /\ Counted /\ Clean
  BY DEF IInv
<1>1. PICK U : Records(U)
  BY <1>0 DEF Types
<1>2. PICK V : Records(V) /\ PackSize(t) \in V /\ stream'[t].mem \in V
  <2> DEFINE W == U \cup {PackSize(t), stream'[t].mem}
  <2>1. Records(W)
    BY <1>1, Wider
  <2> QED
    BY <2>1
<1>3. PICK i \in InfoType(V) :
        /\ info' = [info EXCEPT ![t] = i] /\ i.item = info[t].item /\ i.seq = info[t].seq
        /\ i.compress => info[t].compress
  BY <1>0, <1>2, ThreadInfo, Zenon
<1>4. PICK s \in StreamType(V) : stream' = [stream EXCEPT ![t] = s]
  BY <1>0, <1>2, ThreadStream, Zenon
<1>5. PICK k \in ThreadPc : Moves(t, k)
  BY <1>0, ThreadMoves, Zenon
<1>6. /\ info \in [Thread -> InfoType(V)] /\ stream \in [Thread -> StreamType(V)]
      /\ pc \in [Thread -> ThreadPc]
  BY <1>0, <1>2 DEF Records, Types, MainTypes
<1>7. ready' = ready \/ (Moved(t, "release", "post") /\ ready' = <<t>> \o ready)
  BY <1>5, <1>6 DEF Moves, Moved
<1>8. UNCHANGED <<requestVars, mainVars, curPos, headerPos>>
  BY DEF ThreadStep, Begin, WriteBlock, WriteReal, WaitStop, WaitReal, WaitBlock, AllocateBlock,
         PassEnds, NextPass, CodeFails, ReleaseItem, Post, archiveVars
<1>9. \A u \in Thread : u # t => pc'[u] = pc[u] /\ info'[u] = info[u] /\ stream'[u] = stream[u]
  BY <1>3, <1>4, <1>5, <1>6 DEF Moves
<1>10. info'[t] = i
  BY <1>3, <1>6
<1> QED
  BY <1>3, <1>7, <1>8, <1>9, <1>10 DEF Others

-----------------------------------------------------------------------------
(* The invariant behind the archive. *)

Typed ==
  /\ file \in Seq(Datum) /\ pos \in 0 .. Len(file) /\ PackedType
  /\ \A t \in Thread : stream[t].mem \in Seq(Datum)
  /\ \A i \in 1 .. NumItems : refs[i].mem \in Seq(Datum)
  /\ failures \in 0 .. MaxFaults /\ lastReal \in 0 .. NumItems
  /\ curPos \in Nat /\ headerPos \in 0 .. curPos /\ result \in Results

\* A thread that codes outside of real stream mode has in its blocks what the
\* coder wrote in this pass.
Collects(t) ==
  /\ stream[t].real => stream[t].total = 0
  /\ ~ stream[t].real =>
       /\ stream[t].cur = info[t].n /\ stream[t].total = info[t].n
       /\ Holds(stream[t].mem, info[t].item, info[t].pass, info[t].n)
Local(t) ==
  /\ info[t].item \in 0 .. NumItems /\ info[t].result # "none"
  /\ info[t].size \in Sizes \cup {0} /\ info[t].n <= info[t].size /\ stream[t].cur <= MaxSize
  /\ info[t].compress /\ ~ info[t].exit =>
       /\ pc[t] \in {"idle", "post"}
       /\ stream[t].cur = 0 /\ stream[t].total = 0 /\ ~ stream[t].real
  /\ Works(t) => Collects(t)

\* Who has no file writes nothing any more.
Resting(t) == pc[t] \in {"post", "idle", "ended"} /\ (info[t].compress => info[t].exit)
Rested ==
  /\ Distinct(ready)
  /\ \A t \in Thread : t \in In(ready) \/ t \notin In(threadIndices) => Resting(t)
  /\ Live => \A t \in Thread : ~ info[t].exit /\ pc[t] # "ended"

\* A finished item has what its coder wrote, in its thread or detached from it.
Done(t) == ~ info[t].compress /\ ~ Works(t) /\ info[t].result = "ok"
WholeIn(t, p) ==
  /\ p.pass = info[t].pass /\ p.pack <= MaxSize
  /\ stream[t].real => stream[t].total = 0 /\ (hres = "ok" => info[t].pack = p.pack)
  /\ ~ stream[t].real =>
       /\ info[t].pack = p.pack /\ stream[t].total = p.pack
       /\ Holds(stream[t].mem, info[t].item, p.pass, p.pack)
WholeRef(i, p) ==
  refs[i].pack = p.pack /\ refs[i].total = p.pack /\ Holds(refs[i].mem, i, p.pass, p.pack)
Whole ==
  Live =>
    /\ \A t \in In(threadIndices) : Done(t) => WholeIn(t, packed[info[t].item])
    /\ \A i \in itemIndex .. NumItems : refs[i].finished => WholeRef(i, packed[i])

\* Only the front is ever in real stream mode.
Unlocks ==
  /\ \A t \in Thread : stream[t].real \/ stream[t].toReal => stream[t].unlocked
  /\ \A t \in In(threadIndices) : stream[t].unlocked =>
       /\ t = Head(threadIndices) /\ (Live => lastReal = itemIndex)
       /\ hres = "ok" => stream[t].offset \in 0 .. Len(file)

\* The header of the item that is due is written, and n units behind it.
Headed == Entries(itemIndex - 1) \o <<PreHeader(itemIndex, Descriptor(refs[itemIndex].seq))>>
FrontAt(h, n) ==
  /\ file = Headed \o Units(itemIndex, info[h].pass, n)
  /\ n = 0 \/ stream[h].real
  /\ stream[h].real /\ Works(h) => n = info[h].n
  /\ stream[h].real /\ Done(h) => n = info[h].pack
Fronted ==
  /\ pos = Len(file) /\ curPos = Len(Headed) /\ headerPos + 1 = curPos
  /\ stream[Head(threadIndices)].offset = curPos
  /\ \E n \in 0 .. MaxSize : FrontAt(Head(threadIndices), n)
Written ==
  Live =>
    /\ lastReal <= itemIndex /\ (main = "wait" => lastReal = itemIndex)
    /\ lastReal = itemIndex =>
         /\ Open(itemIndex) /\ itemIndex < mtItemIndex
         /\ threadIndices # <<>> /\ stream[Head(threadIndices)].unlocked
         /\ hres = "ok" => Fronted
    /\ lastReal < itemIndex /\ hres = "ok" => Settled
Over ==
  result = "ok" =>
    /\ main \in {"stop", "join", "done"} /\ hres = "ok"
    /\ file = Entries(NumItems) \o <<CentralDir>>
    /\ \A t \in Thread : Resting(t)

AInv == Typed /\ (\A t \in Thread : Local(t)) /\ Rested /\ Whole /\ Unlocks /\ Written /\ Over

-----------------------------------------------------------------------------
(* A step of a thread keeps it. *)

LEMMA RecordFacts ==
  ASSUME IInv, NEW t \in Thread
  PROVE  /\ info[t].item \in Nat /\ info[t].pass \in Nat /\ info[t].n \in Nat /\ info[t].size \in Nat
         /\ info[t].exit \in BOOLEAN /\ info[t].compress \in BOOLEAN /\ info[t].result \in Results
         /\ stream[t].total \in Nat /\ stream[t].cur \in Nat /\ stream[t].real \in BOOLEAN
         /\ stream[t].toReal \in BOOLEAN /\ stream[t].unlocked \in BOOLEAN /\ pc[t] \in ThreadPc
         /\ HasAll(stream[t])
<1>1. PICK V : Records(V)
  BY DEF IInv, Types
<1>2. info[t] \in InfoType(V) /\ stream[t] \in StreamType(V) /\ pc[t] \in ThreadPc
      /\ HasAll(stream[t])
  BY <1>1 DEF Records, IInv, Types, MainTypes, Full
<1> QED
  BY <1>2 DEF InfoType, StreamType

\* Who codes has a file, and writes to the archive only as the front.
LEMMA Worker ==
  ASSUME IInv, AInv, NEW t \in Thread, Works(t)
  PROVE  /\ t \in In(threadIndices) /\ t \notin In(ready)
         /\ stream[t].real \/ stream[t].toReal =>
              /\ t = Head(threadIndices) /\ (Live => lastReal = itemIndex)
              /\ hres = "ok" => stream[t].offset \in 0 .. Len(file)
<1>1. ~ Resting(t)
  BY DEF Works, Resting
<1>2. t \in In(threadIndices) /\ t \notin In(ready)
  BY <1>1 DEF AInv, Rested
<1> QED
  BY <1>2 DEF AInv, Unlocks

\* The front has the item that is due.
LEMMA HeadIsDue ==
  ASSUME IInv, Live, Open(itemIndex), itemIndex < mtItemIndex
  PROVE  /\ threadIndices # <<>> /\ Head(threadIndices) \in Thread
         /\ Head(threadIndices) = threadIndices[1] /\ Head(threadIndices) \in In(threadIndices)
         /\ info[Head(threadIndices)].item = itemIndex /\ itemIndex \in 1 .. NumItems
         /\ info[Head(threadIndices)].seq = refs[itemIndex].seq
<1>1. PICK n \in Nat : n = Len(threadIndices) /\ threadIndices \in Seq(Thread)
  BY MainFacts
<1>2. /\ \A k \in 1 .. n : /\ Item(k) \in itemIndex .. mtItemIndex - 1
                           /\ info[threadIndices[k]].seq = refs[Item(k)].seq
      /\ \A j, k \in 1 .. n : j < k => Item(j) < Item(k)
      /\ \A i \in itemIndex .. mtItemIndex - 1 : Open(i) => \E k \in 1 .. n : Item(k) = i
  BY <1>1 DEF IInv, Items
<1>3. /\ itemIndex \in itemIndex .. mtItemIndex - 1 /\ itemIndex \in 1 .. NumItems
      /\ itemIndex \in Int /\ mtItemIndex \in Int
  BY MainFacts
<1>4. PICK k \in 1 .. n : Item(k) = itemIndex
  BY <1>2, <1>3
<1>5. 1 \in 1 .. n /\ threadIndices # <<>> /\ Head(threadIndices) = threadIndices[1]
      /\ threadIndices[1] \in Thread
  BY <1>1, <1>4
<1>6. Item(1) = itemIndex
  <2>1. CASE k = 1
    BY <1>4, <2>1
  <2>2. CASE k # 1
    <3>1. 1 < k /\ Item(1) < itemIndex /\ Item(1) \in itemIndex .. mtItemIndex - 1
      BY <1>2, <1>4, <1>5, <2>2
    <3> QED
      BY <1>3, <3>1
  <2> QED
    BY <2>1, <2>2
<1> QED
  BY <1>1, <1>2, <1>3, <1>5, <1>6 DEF Item, In

\* The files of two threads are not the same, nor finished.
LEMMA OwnItem ==
  ASSUME IInv, Live, NEW t \in In(threadIndices)
  PROVE  /\ info[t].item \in itemIndex .. mtItemIndex - 1 /\ info[t].item \in 1 .. NumItems
         /\ Open(info[t].item)
         /\ \A u \in In(threadIndices) : u # t => info[u].item # info[t].item
<1>1. PICK n \in Nat : n = Len(threadIndices) /\ threadIndices \in Seq(Thread)
  BY MainFacts
<1>2. /\ \A k \in 1 .. n : Item(k) \in itemIndex .. mtItemIndex - 1 /\ Open(Item(k))
      /\ \A j, k \in 1 .. n : j < k => Item(j) < Item(k)
  BY <1>1 DEF IInv, Items
<1>3. PICK k \in 1 .. n : t = threadIndices[k]
  BY <1>1 DEF In
<1>4. info[t].item = Item(k)
  BY <1>3 DEF Item
<1>5. ASSUME NEW u \in In(threadIndices), u # t PROVE info[u].item # info[t].item
  <2>1. PICK j \in 1 .. n : u = threadIndices[j]
    BY <1>1 DEF In
  <2>2. j < k \/ k < j
    BY <1>3, <1>5, <2>1
  <2>3. Item(j) \in Int /\ Item(k) \in Int
    BY <1>2, MainFacts
  <2>4. Item(j) # Item(k)
    BY <1>2, <2>2, <2>3
  <2> QED
    BY <1>4, <2>1, <2>4 DEF Item
<1> QED
  BY <1>2, <1>4, <1>5, MainFacts

\* What is in the blocks of a thread that codes.
LEMMA Worked ==
  ASSUME IInv, AInv, NEW t \in Thread, Works(t)
  PROVE  /\ Next1(t) \in Datum /\ <<Next1(t)>> \in Seq(Datum)
         /\ ~ stream[t].real =>
              Collected(stream[t]) = Units(info[t].item, info[t].pass, info[t].n)
         /\ info[t].n <= MaxSize /\ MaxSize \in Nat
<1>1. /\ info[t].item \in Nat /\ info[t].pass \in Nat /\ info[t].n \in Nat /\ info[t].n + 1 \in Int
      /\ info[t].size \in Nat
  BY RecordFacts
<1>2. Next1(t) \in Datum
  BY <1>1, DatumFacts DEF Next1
<1>3. <<Next1(t)>> \in Seq(Datum)
  <2> DEFINE x == Next1(t)
  <2>1. x \in Datum
    BY <1>2
  <2> HIDE DEF x
  <2> QED
    BY <2>1 DEF x
<1>4. ASSUME ~ stream[t].real
      PROVE  Collected(stream[t]) = Units(info[t].item, info[t].pass, info[t].n)
  <2>1. /\ stream[t].total = info[t].n /\ stream[t].mem \in Seq(Datum)
        /\ Holds(stream[t].mem, info[t].item, info[t].pass, info[t].n)
    BY <1>4 DEF AInv, Local, Collects, Typed
  <2>2. SubSeq(stream[t].mem, 1, info[t].n) = Units(info[t].item, info[t].pass, info[t].n)
    BY <1>1, <2>1, HeldUnits
  <2> QED
    BY <2>1, <2>2 DEF Collected
<1>5. info[t].n <= MaxSize
  <2>1. info[t].size \in Sizes \cup {0} /\ info[t].n <= info[t].size
    BY DEF AInv, Local
  <2>2. info[t].size <= MaxSize
    BY <1>1, <2>1, MaxSizeFacts
  <2> QED
    BY <1>1, <2>1, <2>2, MaxSizeFacts
<1> QED
  BY <1>2, <1>3, <1>4, <1>5, MaxSizeFacts

\* A write of more than one unit, at the position.
LEMMA WrittenTo ==
  ASSUME NEW f \in Seq(Datum), NEW p \in 0 .. Len(f), NEW s \in Seq(Datum)
  PROVE  /\ Put(f, p, s) \in Seq(Datum) /\ p + Len(s) \in 0 .. Len(Put(f, p, s))
         /\ Len(Put(f, p, s)) >= Len(f)
<1>1. p \in Nat /\ Len(f) \in Nat /\ Len(s) \in Nat
  OBVIOUS
<1>2. /\ Put(f, p, s) \in Seq(Datum)
      /\ Len(Put(f, p, s)) = IF Len(f) >= p + Len(s) THEN Len(f) ELSE p + Len(s)
  BY <1>1, PutFacts
<1> QED
  BY <1>1, <1>2

LEMMA Snippet ==
  ASSUME IInv, AInv, NEW t \in Thread, Works(t), ~ stream[t].real
  PROVE  Collected(stream[t]) \o <<Next1(t)>> \in Seq(Datum)
<1>1. info[t].item \in Nat /\ info[t].pass \in Nat /\ info[t].n \in Nat
  BY RecordFacts
<1>2. Units(info[t].item, info[t].pass, info[t].n) \in Seq(Datum)
  BY <1>1, UnitsFacts
<1>3. Collected(stream[t]) \in Seq(Datum) /\ <<Next1(t)>> \in Seq(Datum)
  BY <1>2, Worked
<1> QED
  BY <1>3

\* How the file changes under a thread's step.
LEMMA ThreadFile ==
  ASSUME IInv, AInv, NEW t \in Thread, Does(t)
  PROVE  /\ file' \in Seq(Datum) /\ pos' \in 0 .. Len(file') /\ hres' \in {hres, "write"}
         /\ Len(file') >= Len(file) \/ CutsOff(t)
         /\ ~ CutsOff(t) /\ ~ WritesOn(t) /\ ~ WritesAll(t) => UNCHANGED <<file, pos>>
<1>1. file \in Seq(Datum) /\ pos \in 0 .. Len(file) /\ Len(file) \in Nat
  BY DEF AInv, Typed
<1>2. CASE Rests(t) \/ Begins(t) \/ Allocates(t) \/ Remembers(t) \/ PassDone(t) \/ Restarts(t)
  BY <1>1, <1>2 DEF Rests, Begins, Allocates, Remembers, PassDone, Restarts, Quiet
<1>3. CASE Fails(t)
  BY <1>1, <1>3 DEF Fails
<1>4. CASE WritesOn(t)
  <2>1. Works(t)
    BY <1>4 DEF WritesOn, Moved, Works
  <2>2. <<Next1(t)>> \in Seq(Datum)
    BY <2>1, Worked
  <2> DEFINE s == <<Next1(t)>>
  <2> HIDE DEF s
  <2>3. file' = Put(file, pos, s) /\ pos' = pos + Len(s) /\ hres' = hres /\ s \in Seq(Datum)
    BY <1>4, <2>2 DEF WritesOn, WriteAt, s
  <2> QED
    BY <1>1, <1>4, <2>3, WrittenTo
<1>5. CASE WritesAll(t)
  <2>1. Works(t) /\ ~ stream[t].real
    BY <1>5 DEF WritesAll, Moved, Works
  <2> DEFINE s == Collected(stream[t]) \o <<Next1(t)>>
  <2>2. s \in Seq(Datum)
    BY <2>1, Snippet
  <2>3. file' = Put(file, pos, s) /\ pos' = pos + Len(s) /\ hres' = hres
    BY <1>5 DEF WritesAll, WriteAt
  <2> HIDE DEF s
  <2> QED
    BY <1>1, <1>5, <2>2, <2>3, WrittenTo
<1>6. CASE CutsOff(t)
  <2>1. Works(t) /\ stream[t].real /\ hres = "ok" /\ hres' = hres
        /\ file' = Cut(file, stream[t].offset) /\ pos' = stream[t].offset
    BY <1>6 DEF CutsOff, Moved, Works
  <2>2. stream[t].offset \in 0 .. Len(file)
    BY <2>1, Worker
  <2>3. file' \in Seq(Datum) /\ Len(file') = stream[t].offset
    BY <1>1, <2>1, <2>2, CutFacts
  <2> QED
    BY <1>6, <2>1, <2>2, <2>3
<1> QED
  BY <1>2, <1>3, <1>4, <1>5, <1>6 DEF Does

LEMMA ThreadTyped ==
  ASSUME IInv, AInv, NEW t \in Thread, Does(t), Others(t)
  PROVE  Typed'
<1>1. file' \in Seq(Datum) /\ pos' \in 0 .. Len(file')
  BY ThreadFile
<1>2. /\ UNCHANGED <<items, refs, lastReal, result, curPos, headerPos>> /\ NumItems' = NumItems
      /\ \A u \in Thread : u # t => stream'[u] = stream[u]
  BY DEF Others, requestVars, mainVars, NumItems
<1>3. PackedType'
  <2>1. packed \in [1 .. NumItems -> [pass : Nat, pack : Nat]]
    BY DEF AInv, Typed, PackedType
  <2>2. info[t].pass \in Nat /\ info[t].n \in Nat
    BY RecordFacts
  <2>3. packed' = packed
        \/ packed' = [packed EXCEPT ![info[t].item] = [pass |-> info[t].pass, pack |-> info[t].n]]
    BY DEF Does, Rests, Begins, Allocates, Remembers, WritesOn, WritesAll, Fails, PassDone, Restarts,
           CutsOff
  <2> QED
    BY <1>2, <2>1, <2>2, <2>3 DEF PackedType
<1>4. failures' \in 0 .. MaxFaults
  <2>1. failures' = failures \/ (failures < MaxFaults /\ failures' = failures + 1)
    BY DEF Does, Rests, Begins, Allocates, Remembers, WritesOn, WritesAll, Fails, PassDone, Restarts,
           CutsOff, Quiet, WriteAt
  <2>2. failures \in 0 .. MaxFaults /\ MaxFaults \in Nat
    BY ZipUpdateAssumption DEF AInv, Typed
  <2> QED
    BY <2>1, <2>2
<1>5. stream'[t].mem \in Seq(Datum)
  <2>1. stream[t].mem \in Seq(Datum) /\ <<>> \in Seq(Datum)
    BY DEF AInv, Typed
  <2>2. CASE Remembers(t)
    <3>1. Works(t) /\ stream'[t].mem = Put(stream[t].mem, stream[t].cur, <<Next1(t)>>)
      BY <2>2 DEF Remembers, Works, Moved
    <3>2. <<Next1(t)>> \in Seq(Datum) /\ stream[t].cur \in Nat
      BY <3>1, Worked, RecordFacts
    <3> DEFINE s == <<Next1(t)>>
    <3> HIDE DEF s
    <3>3. stream'[t].mem = Put(stream[t].mem, stream[t].cur, s) /\ s \in Seq(Datum)
      BY <3>1, <3>2 DEF s
    <3> QED
      BY <2>1, <3>2, <3>3, PutFacts
  <2>3. CASE ~ Remembers(t)
    BY <2>1, <2>3 DEF Does, Rests, Begins, Allocates, WritesOn, WritesAll, Fails, PassDone, Restarts,
           CutsOff, SameData, SameMemory
  <2> QED
    BY <2>2, <2>3
<1>6. \A u \in Thread : stream'[u].mem \in Seq(Datum)
  BY <1>2, <1>5 DEF AInv, Typed
<1> QED
  BY <1>1, <1>2, <1>3, <1>4, <1>6 DEF AInv, Typed

LEMMA ThreadLocal ==
  ASSUME IInv, AInv, NEW t \in Thread, Does(t), Own(t), Others(t), NEW u \in Thread
  PROVE  Local(u)'
<1>0. /\ UNCHANGED items /\ NumItems' = NumItems /\ Local(u) /\ Local(t)
  BY DEF Others, requestVars, NumItems, AInv
<1>1. CASE u # t
  <2>1. pc'[u] = pc[u] /\ info'[u] = info[u] /\ stream'[u] = stream[u]
    BY <1>1 DEF Others
  <2> QED
    BY <1>0, <2>1 DEF Local, Works, Collects, Holds
<1>2. CASE u = t
  <2>0. /\ info'[t].item = info[t].item /\ info'[t].exit = info[t].exit
        /\ info'[t].compress => info[t].compress
    BY DEF Others, Own
  <2>1. /\ info[t].item \in Nat /\ info[t].pass \in Nat /\ info[t].n \in Nat /\ info[t].size \in Nat
        /\ stream[t].total \in Nat /\ stream[t].cur \in Nat /\ MaxSize \in Nat
    BY RecordFacts, MaxSizeFacts
  <2>2. info'[t].item \in 0 .. NumItems'
    BY <1>0, <2>0 DEF Local
  <2>3. info'[t].result # "none"
    BY <1>0 DEF Local, Does, Rests, Begins, Allocates, Remembers, WritesOn, WritesAll, Fails, PassDone,
                Restarts, CutsOff, SameCode, OneMore, NewPass
  <2>4. info'[t].size \in Sizes \cup {0} /\ info'[t].n <= info'[t].size
    <3>1. \A k \in Sizes : k \in Nat
      BY ZipUpdateAssumption
    <3>2. CASE OneMore(t)
      BY <1>0, <2>1, <3>2 DEF Local, OneMore
    <3>3. CASE ~ OneMore(t)
      BY <1>0, <2>1, <3>1, <3>3 DEF Local, Does, Rests, Begins, Allocates, Remembers, WritesOn,
         WritesAll, Fails, PassDone, Restarts, CutsOff, SameCode, NewPass
    <3> QED
      BY <3>2, <3>3
  <2>5. stream'[t].cur <= MaxSize
    <3>1. CASE Remembers(t)
      <4>1. Works(t) /\ ~ stream[t].real /\ info[t].n < info[t].size
            /\ stream'[t].cur = stream[t].cur + 1
        BY <3>1 DEF Remembers, Works, Moved, OneMore
      <4>2. stream[t].cur = info[t].n /\ info[t].size \in Sizes \cup {0}
        BY <1>0, <4>1 DEF Local, Collects
      <4>3. info[t].size <= MaxSize
        BY <2>1, <4>2, MaxSizeFacts
      <4> QED
        BY <2>1, <4>1, <4>2, <4>3
    <3>2. CASE Restarts(t)
      BY <2>1, <3>2 DEF Restarts
    <3>3. CASE ~ Remembers(t) /\ ~ Restarts(t)
      BY <1>0, <3>3 DEF Local, Does, Rests, Begins, Allocates, WritesOn, WritesAll, Fails, PassDone,
                        CutsOff, SameData, SameMemory
    <3> QED
      BY <3>1, <3>2, <3>3
  <2>6. ASSUME info'[t].compress, ~ info'[t].exit
        PROVE  /\ pc'[t] \in {"idle", "post"}
               /\ stream'[t].cur = 0 /\ stream'[t].total = 0 /\ ~ stream'[t].real
    <3>1. /\ pc[t] \in {"idle", "post"} /\ ~ info[t].exit
          /\ stream[t].cur = 0 /\ stream[t].total = 0 /\ ~ stream[t].real
      BY <1>0, <2>0, <2>6 DEF Local
    <3>2. Rests(t) /\ Moved(t, "post", "idle")
      BY <2>6, <3>1 DEF Does, Rests, Begins, Allocates, Remembers, WritesOn, WritesAll, Fails, PassDone,
                Restarts, CutsOff, Moved
    <3> QED
      BY <3>1, <3>2 DEF Rests, Moved, SameData, SamePlace, SameMemory
  <2>7. ASSUME Works(t)' PROVE Collects(t)'
    <3>1. CASE Rests(t) \/ Fails(t) \/ PassDone(t)
      BY <2>7, <3>1 DEF Rests, Fails, PassDone, Works, Moved
    <3>2. CASE Begins(t)
      <4>1. /\ stream'[t].cur = 0 /\ stream'[t].total = 0 /\ ~ stream'[t].real /\ info'[t].n = 0
        BY <1>0, <3>2 DEF Local, Begins, NewPass, SameData, SamePlace, SameMemory
      <4>2. stream'[t].mem \in Seq(Datum)
        BY ThreadTyped DEF Typed
      <4>3. Len(stream'[t].mem) >= 0
        BY <4>2
      <4> QED
        BY <4>1, <4>3 DEF Collects, Holds
    <3>3. CASE Allocates(t)
      <4>1. Works(t)
        BY <3>3 DEF Allocates, Works, Moved
      <4>2. Collects(t)
        BY <1>0, <4>1 DEF Local
      <4>3. /\ stream'[t].cur = stream[t].cur /\ stream'[t].total = stream[t].total
            /\ stream'[t].real = stream[t].real /\ stream'[t].mem = stream[t].mem
            /\ info'[t].n = info[t].n /\ info'[t].pass = info[t].pass
        BY <3>3 DEF Allocates, SameCode, SameData, SamePlace, SameMemory
      <4> QED
        BY <2>0, <4>2, <4>3 DEF Collects, Holds
    <3>4. CASE Remembers(t)
      <4>1. Works(t) /\ ~ stream[t].real
        BY <3>4 DEF Remembers, Works, Moved
      <4>2. /\ stream[t].cur = info[t].n /\ stream[t].total = info[t].n
            /\ Holds(stream[t].mem, info[t].item, info[t].pass, info[t].n)
            /\ stream[t].mem \in Seq(Datum)
        BY <1>0, <4>1 DEF Local, Collects, AInv, Typed
      <4>3. /\ ~ stream'[t].real /\ info'[t].n = info[t].n + 1 /\ info'[t].pass = info[t].pass
            /\ stream'[t].cur = info[t].n + 1
            /\ stream'[t].total = Max({info[t].n, info[t].n + 1})
            /\ stream'[t].mem = Put(stream[t].mem, info[t].n, <<Next1(t)>>)
        BY <3>4, <4>1, <4>2 DEF Remembers, OneMore, SamePlace
      <4>4. stream'[t].total = info[t].n + 1
        <5>1. info[t].n + 1 \in Nat
          BY <2>1
        <5> QED
          BY <2>1, <4>3, <5>1, MaxOfTwo
      <4>5. Holds(Put(stream[t].mem, info[t].n, <<Next1(t)>>), info[t].item, info[t].pass, info[t].n + 1)
        BY <2>1, <4>2, HeldPut DEF Next1
      <4> QED
        BY <2>0, <4>3, <4>4, <4>5 DEF Collects, Holds
    <3>5. CASE WritesOn(t)
      <4>1. Works(t) /\ stream[t].real /\ stream'[t].real /\ stream'[t].total = stream[t].total
        BY <3>5 DEF WritesOn, Works, Moved, SameData, SamePlace, SameMemory
      <4> QED
        BY <1>0, <4>1 DEF Local, Collects
    <3>6. CASE WritesAll(t)
      BY <3>6 DEF WritesAll, Collects
    <3>7. CASE Restarts(t)
      <4>1. /\ stream'[t].cur = 0 /\ stream'[t].total = 0 /\ ~ stream'[t].real /\ info'[t].n = 0
            /\ stream'[t].mem = stream[t].mem
        BY <3>7 DEF Restarts, NewPass, SamePlace
      <4>2. Len(stream[t].mem) >= 0
        BY DEF AInv, Typed
      <4> QED
        BY <4>1, <4>2 DEF Collects, Holds
    <3>8. CASE CutsOff(t)
      <4>1. Works(t) /\ stream[t].real /\ stream'[t].real /\ stream'[t].total = stream[t].total
        BY <3>8 DEF CutsOff, Works, Moved, SameData, SamePlace, SameMemory
      <4> QED
        BY <1>0, <4>1 DEF Local, Collects
    <3> QED
      BY <3>1, <3>2, <3>3, <3>4, <3>5, <3>6, <3>7, <3>8 DEF Does
  <2> QED
    BY <1>2, <2>2, <2>3, <2>4, <2>5, <2>6, <2>7 DEF Local
<1> QED
  BY <1>1, <1>2

\* A thread at rest stays so, and one that gets there has no file.
LEMMA ThreadRested ==
  ASSUME IInv, AInv, NEW t \in Thread, Does(t), Own(t), Others(t)
  PROVE  Rested' /\ \A u \in Thread : Resting(u) => Resting(u)'
<1>1. /\ UNCHANGED <<main, threadIndices>>
      /\ \A u \in Thread : u # t => pc'[u] = pc[u] /\ info'[u] = info[u]
      /\ info'[t].exit = info[t].exit /\ (info'[t].compress => info[t].compress)
      /\ ready' = ready \/ (Moved(t, "release", "post") /\ ready' = <<t>> \o ready)
  BY DEF Others, Own, mainVars
<1>2. ASSUME NEW u \in Thread, Resting(u) PROVE Resting(u)'
  <2>1. CASE u # t
    BY <1>1, <1>2, <2>1 DEF Resting
  <2>2. CASE u = t
    <3>1. pc[t] \in {"post", "idle", "ended"} /\ (info[t].compress => info[t].exit)
      BY <1>2, <2>2 DEF Resting
    <3>2. pc'[t] \in {"post", "idle", "ended"}
      BY <3>1 DEF Does, Rests, Begins, Allocates, Remembers, WritesOn, WritesAll, Fails, PassDone,
                Restarts, CutsOff, Moved
    <3> QED
      BY <1>1, <2>2, <3>1, <3>2 DEF Resting
  <2> QED
    BY <2>1, <2>2
<1>3. Rested /\ ready \in Seq(Thread)
  BY DEF AInv, IInv, Types, MainTypes
<1>4. ASSUME Moved(t, "release", "post") PROVE t \notin In(ready) /\ Resting(t)'
  <2>1. t \notin In(ready)
    BY <1>3, <1>4 DEF Rested, Resting, Moved
  <2>2. Local(t)
    BY DEF AInv
  <2>3. info[t].compress => info[t].exit
    BY <1>4, <2>2 DEF Local, Moved
  <2> QED
    BY <1>1, <1>4, <2>1, <2>3 DEF Resting, Moved
<1>5. Distinct(ready') /\ \A u \in Thread : u \in In(ready') => Resting(u)'
  <2>1. CASE ready' = ready
    BY <1>2, <1>3, <2>1 DEF Rested
  <2>2. CASE Moved(t, "release", "post") /\ ready' = <<t>> \o ready
    <3>1. In(<<t>> \o ready) = {t} \cup In(ready) /\ Distinct(<<t>> \o ready)
      BY <1>3, <1>4, <2>2, InFront DEF Rested
    <3> QED
      BY <1>2, <1>3, <1>4, <2>2, <3>1 DEF Rested
  <2> QED
    BY <1>1, <2>1, <2>2
<1>6. \A u \in Thread : u \notin In(threadIndices) => Resting(u)'
  BY <1>2, <1>3 DEF Rested
<1>7. Live' => \A u \in Thread : ~ info'[u].exit /\ pc'[u] # "ended"
  <2> SUFFICES ASSUME Live' PROVE \A u \in Thread : ~ info'[u].exit /\ pc'[u] # "ended"
    OBVIOUS
  <2>1. \A u \in Thread : ~ info[u].exit /\ pc[u] # "ended"
    BY <1>1, <1>3 DEF Live, Rested
  <2>2. pc'[t] # "ended"
    BY <2>1 DEF Does, Rests, Begins, Allocates, Remembers, WritesOn, WritesAll, Fails, PassDone,
                Restarts, CutsOff, Moved
  <2> QED
    BY <1>1, <2>1, <2>2
<1>8. In(ready)' = In(ready') /\ In(threadIndices)' = In(threadIndices) /\ Distinct(ready)' = Distinct(ready')
  BY <1>1 DEF In, Distinct
<1> QED
  BY <1>2, <1>5, <1>6, <1>7, <1>8 DEF Rested

\* What a thread does to its own place, whatever it does.
LEMMA ThreadPlace ==
  ASSUME NEW t, Does(t)
  PROVE  /\ stream'[t].real \/ stream'[t].toReal => stream[t].real \/ stream[t].toReal
         /\ ~ WritesAll(t) /\ ~ Fails(t) => stream'[t].real = stream[t].real
         /\ ~ PassDone(t) => packed' = packed
         /\ hres' \in {hres, "write"}
  BY DEF Does, Rests, Begins, Allocates, Remembers, WritesOn, WritesAll, Fails, PassDone, Restarts,
         CutsOff, SameData, SamePlace, Quiet, WriteAt

LEMMA ThreadUnlocks ==
  ASSUME IInv, AInv, NEW t \in Thread, Does(t), Own(t), Others(t)
  PROVE  Unlocks'
<1>1. /\ UNCHANGED <<main, threadIndices, lastReal, itemIndex>>
      /\ \A u \in Thread : u # t => stream'[u] = stream[u]
      /\ stream'[t].unlocked = stream[t].unlocked /\ stream'[t].offset = stream[t].offset
  BY DEF Others, Own, mainVars
<1>2. \A u \in Thread : stream'[u].real \/ stream'[u].toReal => stream'[u].unlocked
  <2>1. \A u \in Thread : stream[u].real \/ stream[u].toReal => stream[u].unlocked
    BY DEF AInv, Unlocks
  <2> QED
    BY <1>1, <2>1, ThreadPlace
<1>3. ASSUME NEW u \in In(threadIndices), stream'[u].unlocked
      PROVE  /\ u = Head(threadIndices) /\ (Live => lastReal = itemIndex)
             /\ hres' = "ok" => stream'[u].offset \in 0 .. Len(file')
  <2>0. u \in Thread
    BY MainFacts DEF In
  <2>1. stream'[u].unlocked = stream[u].unlocked /\ stream'[u].offset = stream[u].offset
    BY <1>1, <2>0
  <2>2. /\ u = Head(threadIndices) /\ (Live => lastReal = itemIndex)
        /\ hres = "ok" => stream[u].offset \in 0 .. Len(file)
    BY <1>3, <2>1 DEF AInv, Unlocks
  <2>3. ASSUME hres' = "ok" PROVE stream[u].offset \in 0 .. Len(file')
    <3>1. hres = "ok"
      BY <2>3, ThreadPlace
    <3>2. file \in Seq(Datum) /\ file' \in Seq(Datum) /\ Len(file) \in Nat /\ Len(file') \in Nat
      BY ThreadFile DEF AInv, Typed
    <3>3. CASE CutsOff(t)
      <4>1. Works(t) /\ stream[t].real /\ pos' = stream[t].offset
        BY <3>3 DEF CutsOff, Works, Moved
      <4>2. t = u
        BY <2>2, <4>1, Worker
      <4>3. pos' \in 0 .. Len(file')
        BY ThreadFile
      <4> QED
        BY <4>1, <4>2, <4>3
    <3>4. CASE ~ CutsOff(t)
      <4>1. Len(file') >= Len(file)
        BY <3>4, ThreadFile
      <4> QED
        BY <2>2, <3>1, <3>2, <4>1
    <3> QED
      BY <3>3, <3>4
  <2> QED
    BY <2>1, <2>2, <2>3
<1>4. In(threadIndices)' = In(threadIndices) /\ Live' = Live
  BY <1>1 DEF In, Live
<1> QED
  BY <1>1, <1>2, <1>3, <1>4 DEF Unlocks

LEMMA ThreadOver ==
  ASSUME IInv, AInv, NEW t \in Thread, Does(t), Own(t), Others(t)
  PROVE  Over'
<1>1. UNCHANGED <<main, result, items, seqOut, refs>> /\ NumItems' = NumItems
  BY DEF Others, mainVars, requestVars, NumItems
<1> SUFFICES ASSUME result = "ok"
             PROVE  /\ main' \in {"stop", "join", "done"} /\ hres' = "ok"
                    /\ file' = (Entries(NumItems) \o <<CentralDir>>)'
                    /\ \A u \in Thread : Resting(u)'
  BY <1>1 DEF Over
<1>2. /\ main \in {"stop", "join", "done"} /\ hres = "ok"
      /\ file = Entries(NumItems) \o <<CentralDir>>
      /\ \A u \in Thread : Resting(u)
  BY DEF AInv, Over
<1>3. Rests(t)
  BY <1>2 DEF Resting, Does, Begins, Allocates, Remembers, WritesOn, WritesAll, Fails, PassDone,
              Restarts, CutsOff, Moved
<1>4. UNCHANGED <<file, hres, packed>>
  BY <1>3 DEF Rests, Quiet
<1>5. PICK n : n = NumItems
  OBVIOUS
<1>6. Entries(n)' = Entries(n)
  BY <1>1, <1>4, EntrySame, EntriesSame
<1>7. Entries(NumItems)' = Entries(NumItems)
  BY <1>1, <1>5, <1>6
<1>8. CentralDir' = CentralDir
  BY DEF CentralDir
<1> QED
  BY <1>1, <1>2, <1>4, <1>7, <1>8, ThreadRested

\* The entries written are not about the file that a thread codes.
LEMMA ThreadPast ==
  ASSUME IInv, AInv, Live, NEW t \in Thread, Does(t), Others(t)
  PROVE  /\ Entries(itemIndex - 1)' = Entries(itemIndex - 1) /\ Headed' = Headed
         /\ \A i \in 1 .. NumItems : i # info[t].item => packed'[i] = packed[i]
         /\ PassDone(t) => info[t].item \in itemIndex .. NumItems /\ info[t].item \in 1 .. NumItems
                           /\ packed'[info[t].item].pass = info[t].pass
                           /\ packed'[info[t].item].pack = info[t].n
<1>1. UNCHANGED <<main, items, seqOut, refs, itemIndex>> /\ NumItems' = NumItems
      /\ itemIndex \in 1 .. NumItems + 1 /\ NumItems \in Nat
  BY MainFacts DEF Others, mainVars, requestVars, NumItems
<1>2. packed \in [1 .. NumItems -> [pass : Nat, pack : Nat]]
  BY DEF AInv, Typed, PackedType
<1>3. ASSUME PassDone(t)
      PROVE  /\ info[t].item \in itemIndex .. NumItems /\ info[t].item \in 1 .. NumItems
             /\ packed' = [packed EXCEPT ![info[t].item] = [pass |-> info[t].pass, pack |-> info[t].n]]
  <2>1. Works(t) /\ packed' = [packed EXCEPT ![info[t].item] = [pass |-> info[t].pass, pack |-> info[t].n]]
    BY <1>3 DEF PassDone, Works, Moved
  <2>2. info[t].item \in itemIndex .. mtItemIndex - 1 /\ info[t].item \in 1 .. NumItems
    BY <2>1, Worker, OwnItem
  <2> QED
    BY <1>1, <2>1, <2>2
<1>4. \A i \in 1 .. NumItems : i # info[t].item => packed'[i] = packed[i]
  BY <1>2, <1>3, ThreadPlace
<1>5. PICK n \in Nat : n = itemIndex - 1
  BY <1>1
<1>6. \A i \in 1 .. n : packed'[i] = packed[i]
  <2>1. ASSUME NEW i \in 1 .. n PROVE packed'[i] = packed[i]
    <3>1. i \in 1 .. NumItems /\ ~ (i \in itemIndex .. NumItems)
      BY <1>1, <1>5
    <3>2. CASE PassDone(t)
      BY <1>3, <1>4, <3>1, <3>2
    <3>3. CASE ~ PassDone(t)
      BY <3>3, ThreadPlace
    <3> QED
      BY <3>2, <3>3
  <2> QED
    BY <2>1
<1>7. Entries(n)' = Entries(n)
  BY <1>1, <1>6, EntrySame, EntriesSame
<1>8. Entries(itemIndex - 1)' = Entries(itemIndex - 1)
  BY <1>1, <1>5, <1>7
<1>9. Headed' = Headed
  BY <1>1, <1>8 DEF Headed, PreHeader, Header, Descriptor
<1>10. ASSUME PassDone(t)
       PROVE  /\ packed'[info[t].item].pass = info[t].pass /\ packed'[info[t].item].pack = info[t].n
  <2> DEFINE r == [pass |-> info[t].pass, pack |-> info[t].n]
  <2>1. r.pass = info[t].pass /\ r.pack = info[t].n
    OBVIOUS
  <2> HIDE DEF r
  <2>2. packed'[info[t].item] = r
    BY <1>2, <1>3, <1>10 DEF r
  <2> QED
    BY <2>1, <2>2
<1> QED
  BY <1>3, <1>4, <1>8, <1>9, <1>10

LEMMA HeadedFacts ==
  ASSUME IInv, AInv, itemIndex <= NumItems
  PROVE  /\ Entries(itemIndex - 1) \in Seq(Datum) /\ Headed \in Seq(Datum)
         /\ Len(Headed) = Len(Entries(itemIndex - 1)) + 1
         /\ PreHeader(itemIndex, Descriptor(refs[itemIndex].seq)) \in Datum
         /\ Entries(itemIndex) = Entries(itemIndex - 1) \o Entry(itemIndex)
         /\ itemIndex \in 1 .. NumItems
<1>1. PICK m \in 0 .. NumItems : m = itemIndex - 1 /\ m < NumItems /\ m + 1 = itemIndex
  BY MainFacts
<1>2. PackedType /\ NumItems \in Nat
  BY MainFacts DEF AInv, Typed
<1>3. Entries(m) \in Seq(Datum) /\ Entries(m + 1) = Entries(m) \o Entry(m + 1)
  BY <1>1, <1>2, EntriesAdd
<1> DEFINE e == Entries(itemIndex - 1)
           x == PreHeader(itemIndex, Descriptor(refs[itemIndex].seq))
<1>4. e \in Seq(Datum) /\ Entries(itemIndex) = e \o Entry(itemIndex)
  BY <1>1, <1>3
<1>5. x \in Datum
  <2>1. itemIndex \in Nat /\ 0 \in Nat /\ 0 \in Int
    BY MainFacts
  <2> QED
    BY <2>1, DatumFacts
<1>6. Headed = e \o <<x>>
  BY DEF Headed
<1> HIDE DEF e, x
<1>7. e \o <<x>> \in Seq(Datum) /\ Len(e \o <<x>>) = Len(e) + 1
  BY <1>4, <1>5
<1> QED
  BY <1>1, <1>4, <1>5, <1>6, <1>7 DEF e, x

LEMMA FrontFacts ==
  ASSUME IInv, AInv, Live, lastReal = itemIndex, hres = "ok", NEW h, h = Head(threadIndices)
  PROVE  /\ h \in Thread /\ h \in In(threadIndices) /\ info[h].item = itemIndex
         /\ itemIndex \in 1 .. NumItems /\ Fronted /\ stream[h].unlocked
         /\ info[h].pass \in Nat /\ info[h].n \in Nat /\ itemIndex \in Nat
<1>1. Open(itemIndex) /\ itemIndex < mtItemIndex /\ Fronted /\ stream[h].unlocked
  BY DEF AInv, Written
<1>2. /\ h \in Thread /\ h \in In(threadIndices) /\ info[h].item = itemIndex
      /\ itemIndex \in 1 .. NumItems
  BY <1>1, HeadIsDue
<1> QED
  BY <1>1, <1>2, RecordFacts

\* One unit more, and a file that grows by s.
LEMMA UnitMore ==
  ASSUME NEW i \in Nat, NEW p \in Nat, NEW n \in Nat, NEW x, x = Unit(i, p, n + 1),
         NEW s, s = <<x>>
  PROVE  s \in Seq(Datum) /\ Units(i, p, n) \o s = Units(i, p, n + 1)
         /\ Units(i, p, n) \in Seq(Datum)
<1>1. n + 1 \in Int
  OBVIOUS
<1>2. x \in Datum
  BY <1>1, DatumFacts
<1>3. <<x>> \in Seq(Datum)
  BY <1>2
<1>4. Units(i, p, n) \o <<Unit(i, p, n + 1)>> = Units(i, p, n + 1)
  BY UnitsAdd
<1>5. Units(i, p, n) \in Seq(Datum)
  BY UnitsFacts
<1> QED
  BY <1>3, <1>4, <1>5, Zenon

LEMMA Grown ==
  ASSUME NEW h \in Seq(Datum), NEW u \in Seq(Datum), NEW s \in Seq(Datum)
  PROVE  LET f == h \o u
         IN Put(f, Len(f), s) = h \o (u \o s) /\ Len(Put(f, Len(f), s)) = Len(f) + Len(s)
<1> DEFINE f == h \o u
<1>1. f \o s = h \o (u \o s)
  BY Joined
<1>2. f \in Seq(Datum)
  BY Joined
<1> HIDE DEF f
<1>3. Put(f, Len(f), s) = f \o s
  BY <1>2, PutAtEnd
<1>4. Len(f \o s) = Len(f) + Len(s)
  BY <1>2
<1> QED
  BY <1>1, <1>3, <1>4, Zenon DEF f

\* The front's step keeps the file as it is said to be.
LEMMA HeadWrites ==
  ASSUME IInv, AInv, Live, lastReal = itemIndex, hres' = "ok", NEW t \in Thread,
         t = Head(threadIndices), Does(t), Own(t), Others(t)
  PROVE  pos' = Len(file') /\ \E n \in 0 .. MaxSize : FrontAt(t, n)'
<1>1. hres = "ok"
  BY ThreadPlace
<1>2. /\ info[t].item = itemIndex /\ itemIndex \in 1 .. NumItems /\ info[t].pass \in Nat
      /\ info[t].n \in Nat /\ itemIndex \in Nat /\ Fronted /\ t \in In(threadIndices)
  BY <1>1, FrontFacts
<1>3. PICK n \in 0 .. MaxSize : FrontAt(t, n)
  BY <1>2 DEF Fronted
<1>4. /\ pos = Len(file) /\ curPos = Len(Headed) /\ stream[t].offset = curPos
      /\ Headed \in Seq(Datum) /\ Headed' = Headed /\ itemIndex' = itemIndex /\ n \in Nat
      /\ MaxSize \in Nat
  <2>1. pos = Len(file) /\ curPos = Len(Headed) /\ stream[t].offset = curPos
    BY <1>2 DEF Fronted
  <2>2. Headed \in Seq(Datum)
    BY <1>2, MainFacts, HeadedFacts
  <2>3. Headed' = Headed /\ itemIndex' = itemIndex
    BY ThreadPast DEF Others, mainVars
  <2> QED
    BY <2>1, <2>2, <2>3, MaxSizeFacts
<1>5. /\ file = Headed \o Units(itemIndex, info[t].pass, n) /\ (n = 0 \/ stream[t].real)
      /\ stream[t].real /\ Works(t) => n = info[t].n
      /\ stream[t].real /\ Done(t) => n = info[t].pack
  BY <1>3 DEF FrontAt
<1>6. \A p : Units(itemIndex, p, 0) = <<>>
  BY DEF Units
<1>7. ASSUME NEW k \in Nat
      PROVE  LET u == Units(itemIndex, info[t].pass, k) IN u \in Seq(Datum) /\ Len(u) = k
  BY <1>2, UnitsFacts
<1>8. 0 \in 0 .. MaxSize
  BY <1>4
<1>20. ASSUME info[t].n < info[t].size PROVE info[t].n + 1 \in 0 .. MaxSize
  <2>1. info[t].size \in Sizes \cup {0}
    BY DEF AInv, Local
  <2>2. info[t].size <= MaxSize /\ info[t].size \in Nat
    BY <1>4, <2>1, MaxSizeFacts, RecordFacts
  <2> QED
    BY <1>2, <1>4, <1>20, <2>2
\* A step that leaves the file alone.
<1>9. ASSUME UNCHANGED <<file, pos>>, n = 0 \/ info'[t].pass = info[t].pass,
             n = 0 \/ stream'[t].real,
             (stream[t].real /\ Works(t))' => n = info'[t].n,
             (stream[t].real /\ Done(t))' => n = info'[t].pack
      PROVE  pos' = Len(file') /\ \E k \in 0 .. MaxSize : FrontAt(t, k)'
  <2>1. Units(itemIndex, info'[t].pass, n) = Units(itemIndex, info[t].pass, n)
    BY <1>6, <1>9
  <2>2. FrontAt(t, n)'
    BY <1>4, <1>5, <1>9, <2>1 DEF FrontAt
  <2> QED
    BY <1>4, <1>9, <2>2
<1>10. CASE Rests(t)
  <2>1. /\ UNCHANGED <<file, pos>> /\ stream'[t].real = stream[t].real
        /\ info'[t].pass = info[t].pass /\ info'[t].pack = info[t].pack
        /\ info'[t].result = info[t].result /\ ~ Works(t)' /\ ~ Works(t)
    BY <1>10 DEF Rests, Quiet, SameCode, SameData, SamePlace, Works, Moved
  <2>2. info'[t].compress = info[t].compress
    <3>1. ~ info[t].exit
      BY DEF AInv, Rested
    <3> QED
      BY <1>10, <3>1 DEF Rests
  <2>3. Done(t)' => Done(t)
    BY <2>1, <2>2 DEF Done
  <2> QED
    BY <1>5, <1>9, <2>1, <2>3
<1>11. CASE Begins(t)
  <2>1. ~ stream[t].real
    BY <1>11 DEF Begins, AInv, Local
  <2>2. n = 0 /\ ~ stream'[t].real /\ UNCHANGED <<file, pos>>
    BY <1>5, <1>11, <2>1 DEF Begins, Quiet, SameData, SamePlace
  <2> QED
    BY <1>9, <2>2
<1>12. CASE Allocates(t)
  <2>1. /\ UNCHANGED <<file, pos>> /\ stream'[t].real = stream[t].real
        /\ info'[t].pass = info[t].pass /\ info'[t].n = info[t].n
        /\ Works(t) /\ Works(t)'
    BY <1>12 DEF Allocates, Quiet, SameCode, SameData, SamePlace, Works, Moved
  <2>2. ~ Done(t)'
    BY <2>1 DEF Done
  <2> QED
    BY <1>5, <1>9, <2>1, <2>2
<1>13. CASE Remembers(t)
  <2>1. n = 0 /\ ~ stream'[t].real /\ UNCHANGED <<file, pos>>
    BY <1>5, <1>13 DEF Remembers, Quiet, SamePlace
  <2> QED
    BY <1>9, <2>1
<1>14. CASE WritesOn(t)
  <2>1. /\ Works(t) /\ Works(t)' /\ stream[t].real /\ stream'[t].real /\ info[t].n < info[t].size
        /\ info'[t].pass = info[t].pass /\ info'[t].n = info[t].n + 1
        /\ WriteAt(pos, <<Next1(t)>>)
    BY <1>14 DEF WritesOn, OneMore, SameData, SamePlace, Works, Moved
  <2>2. n = info[t].n
    BY <1>5, <2>1
  <2> DEFINE s == <<Next1(t)>>
             u == Units(itemIndex, info[t].pass, n)
             v == Units(itemIndex, info[t].pass, n + 1)
  <2>3. file' = Put(file, Len(file), s) /\ pos' = Len(file) + Len(s)
    BY <1>4, <2>1 DEF WriteAt
  <2>4. Next1(t) = Unit(itemIndex, info[t].pass, n + 1)
    BY <1>2, <2>2 DEF Next1
  <2>5. s \in Seq(Datum) /\ u \o s = v /\ u \in Seq(Datum)
    BY <1>2, <1>4, <2>4, UnitMore
  <2>6. file = Headed \o u /\ file \in Seq(Datum)
    BY <1>5 DEF AInv, Typed
  <2> HIDE DEF s, u, v
  <2>7. file' = Headed \o v /\ pos' = Len(file')
    <3>1. PICK f \in Seq(Datum), h \in Seq(Datum) : f = file /\ h = Headed
      BY <1>4, <2>6
    <3>2. s \in Seq(Datum) /\ u \in Seq(Datum)
      BY <2>5
    <3>3. LET g == h \o u
          IN Put(g, Len(g), s) = h \o (u \o s) /\ Len(Put(g, Len(g), s)) = Len(g) + Len(s)
      BY <3>2, Grown
    <3> QED
      BY <2>3, <2>5, <2>6, <3>1, <3>3, Zenon
  <2>8. n + 1 \in 0 .. MaxSize
    BY <1>2, <1>20, <2>1, <2>2
  <2>9. FrontAt(t, n + 1)'
    <3>1. ~ Done(t)'
      BY <2>1 DEF Done
    <3>2. file' = Headed' \o Units(itemIndex', info'[t].pass, n + 1)
      BY <1>4, <2>1, <2>7 DEF v
    <3> QED
      BY <2>1, <2>2, <3>1, <3>2 DEF FrontAt
  <2> QED
    BY <2>7, <2>8, <2>9
<1>15. CASE WritesAll(t)
  <2>1. /\ Works(t) /\ Works(t)' /\ ~ stream[t].real /\ stream'[t].real /\ info[t].n < info[t].size
        /\ info'[t].pass = info[t].pass /\ info'[t].n = info[t].n + 1
        /\ WriteAt(pos, Collected(stream[t]) \o <<Next1(t)>>)
    BY <1>15 DEF WritesAll, OneMore, Works, Moved
  <2>2. PICK m \in Nat : m = info[t].n
    BY <1>2
  <2> DEFINE x == <<Next1(t)>>
             s == Collected(stream[t]) \o x
             v == Units(itemIndex, info[t].pass, m + 1)
             e == <<>>
  <2>3. file' = Put(file, Len(file), s) /\ pos' = Len(file) + Len(s)
    BY <1>4, <2>1 DEF WriteAt
  <2>4. Next1(t) = Unit(itemIndex, info[t].pass, m + 1)
    BY <1>2, <2>2 DEF Next1
  <2>5. Collected(stream[t]) = Units(itemIndex, info[t].pass, m)
    BY <1>2, <2>1, <2>2, Worked
  <2>6. x \in Seq(Datum) /\ Units(itemIndex, info[t].pass, m) \o x = v
        /\ Units(itemIndex, info[t].pass, m) \in Seq(Datum)
    <3>1. PICK p \in Nat, i \in Nat : p = info[t].pass /\ i = itemIndex
      BY <1>2
    <3>2. /\ x \in Seq(Datum) /\ Units(i, p, m) \o x = Units(i, p, m + 1)
          /\ Units(i, p, m) \in Seq(Datum)
      <4> DEFINE y == Unit(i, p, m + 1)
                 z == <<y>>
      <4>1. z \in Seq(Datum) /\ Units(i, p, m) \o z = Units(i, p, m + 1)
            /\ Units(i, p, m) \in Seq(Datum)
        BY UnitMore
      <4>2. z = x
        BY <2>4, <3>1
      <4> QED
        BY <4>1, <4>2, Zenon
    <3> QED
      BY <3>1, <3>2
  <2>7. s = v /\ s \in Seq(Datum)
    <3>1. s = v
      BY <2>5, <2>6
    <3> DEFINE w == Units(itemIndex, info[t].pass, m)
    <3> HIDE DEF x, w
    <3>2. w \in Seq(Datum) /\ x \in Seq(Datum) /\ s = w \o x
      BY <2>5, <2>6 DEF w
    <3>3. w \o x \in Seq(Datum)
      BY <3>2
    <3> QED
      BY <3>1, <3>2, <3>3, Zenon
  <2>8. file = Headed \o e /\ file \in Seq(Datum) /\ e \in Seq(Datum)
    <3>1. Units(itemIndex, info[t].pass, n) = <<>>
      BY <1>5, <1>6, <2>1
    <3> QED
      BY <1>5, <3>1 DEF AInv, Typed
  <2>9. v = e \o s
    BY <2>7
  <2> HIDE DEF s, v, e
  <2>10. file' = Headed \o v /\ pos' = Len(file')
    <3>1. PICK f \in Seq(Datum), h \in Seq(Datum) : f = file /\ h = Headed
      BY <1>4, <2>8
    <3>2. s \in Seq(Datum) /\ e \in Seq(Datum)
      BY <2>7, <2>8
    <3>3. LET g == h \o e
          IN Put(g, Len(g), s) = h \o (e \o s) /\ Len(Put(g, Len(g), s)) = Len(g) + Len(s)
      BY <3>2, Grown
    <3> QED
      BY <2>3, <2>8, <2>9, <3>1, <3>3, Zenon
  <2>11. m + 1 \in 0 .. MaxSize
    BY <1>2, <1>20, <2>1, <2>2
  <2>12. FrontAt(t, m + 1)'
    <3>1. ~ Done(t)'
      BY <2>1 DEF Done
    <3>2. file' = Headed' \o Units(itemIndex', info'[t].pass, m + 1)
      BY <1>4, <2>1, <2>10 DEF v
    <3>3. info'[t].n = m + 1
      BY <2>1, <2>2
    <3> QED
      BY <2>1, <3>1, <3>2, <3>3 DEF FrontAt
  <2> QED
    BY <2>10, <2>11, <2>12
<1>16. CASE Fails(t)
  <2>1. /\ UNCHANGED <<file, pos>> /\ (stream[t].real => stream'[t].real)
        /\ info'[t].pass = info[t].pass /\ info'[t].result # "ok" /\ ~ Works(t)'
    BY <1>16 DEF Fails, Works, Moved
  <2>2. ~ Done(t)'
    BY <2>1 DEF Done
  <2> QED
    BY <1>5, <1>9, <2>1, <2>2
<1>17. CASE PassDone(t)
  <2>1. /\ UNCHANGED <<file, pos>> /\ stream'[t].real = stream[t].real
        /\ info'[t].pass = info[t].pass /\ ~ Works(t)' /\ Works(t) /\ info'[t].pack = PackSize(t)
    BY <1>17 DEF PassDone, Quiet, SameData, SamePlace, Works, Moved
  <2>2. ASSUME stream[t].real PROVE n = info'[t].pack
    <3>1. info'[t].pack = pos - curPos
      BY <1>4, <2>1, <2>2 DEF PackSize
    <3> DEFINE u == Units(itemIndex, info[t].pass, n)
    <3>2. u \in Seq(Datum) /\ Len(u) = n /\ file = Headed \o u
      BY <1>4, <1>5, <1>7
    <3> HIDE DEF u
    <3>3. Len(file) = Len(Headed) + n
      BY <1>4, <3>2
    <3>4. Len(Headed) \in Nat
      BY <1>4
    <3> QED
      BY <1>4, <3>1, <3>3, <3>4
  <2> QED
    BY <1>5, <1>9, <2>1, <2>2
<1>18. CASE Restarts(t)
  <2>1. n = 0 /\ ~ stream'[t].real /\ UNCHANGED <<file, pos>>
    BY <1>5, <1>18 DEF Restarts, Quiet, SamePlace
  <2> QED
    BY <1>9, <2>1
<1>19. CASE CutsOff(t)
  <2>1. /\ Works(t)' /\ stream[t].real /\ stream'[t].real /\ info'[t].n = 0
        /\ file' = Cut(file, stream[t].offset) /\ pos' = stream[t].offset
    BY <1>19 DEF CutsOff, NewPass, SameData, SamePlace, Works, Moved
  <2>2. file' = Headed
    <3> DEFINE u == Units(itemIndex, info[t].pass, n)
    <3>1. u \in Seq(Datum) /\ file = Headed \o u
      BY <1>4, <1>5, <1>7
    <3> HIDE DEF u
    <3>2. Cut(Headed \o u, Len(Headed)) = Headed
      BY <1>4, <3>1, CutBack
    <3> QED
      BY <1>4, <2>1, <3>1, <3>2
  <2>3. file' = Headed' \o Units(itemIndex', info'[t].pass, 0)
    <3>1. Headed \o <<>> = Headed
      BY <1>4
    <3> QED
      BY <1>4, <1>6, <2>2, <3>1
  <2>4. ~ Done(t)'
    BY <2>1 DEF Done
  <2>5. FrontAt(t, 0)'
    BY <2>1, <2>3, <2>4 DEF FrontAt
  <2> QED
    BY <1>4, <1>8, <2>1, <2>2, <2>5
<1> QED
  BY <1>10, <1>11, <1>12, <1>13, <1>14, <1>15, <1>16, <1>17, <1>18, <1>19 DEF Does

\* A thread that is not the front does not write to the file.
LEMMA OnlyHeadWrites ==
  ASSUME IInv, AInv, NEW t \in Thread, Does(t),
         t # Head(threadIndices) \/ (Live /\ lastReal # itemIndex)
  PROVE  UNCHANGED <<file, pos>>
<1>1. CutsOff(t) \/ WritesOn(t) \/ WritesAll(t) => Works(t) /\ (stream[t].real \/ stream[t].toReal)
  BY DEF CutsOff, WritesOn, WritesAll, Works, Moved
<1> QED
  BY <1>1, Worker, ThreadFile

LEMMA ThreadWritten ==
  ASSUME IInv, AInv, NEW t \in Thread, Does(t), Own(t), Others(t)
  PROVE  Written'
<1>1. /\ UNCHANGED <<main, itemIndex, mtItemIndex, threadIndices, lastReal, items, refs, seqOut>>
      /\ NumItems' = NumItems /\ Live' = Live /\ curPos' = curPos /\ headerPos' = headerPos
      /\ stream'[t].unlocked = stream[t].unlocked /\ stream'[t].offset = stream[t].offset
      /\ \A u \in Thread : u # t => pc'[u] = pc[u] /\ info'[u] = info[u] /\ stream'[u] = stream[u]
  BY DEF Others, Own, mainVars, requestVars, NumItems, Live
<1> SUFFICES ASSUME Live
             PROVE  /\ lastReal <= itemIndex /\ (main = "wait" => lastReal = itemIndex)
                    /\ lastReal = itemIndex =>
                         /\ Open(itemIndex)' /\ itemIndex < mtItemIndex
                         /\ threadIndices # <<>> /\ stream'[Head(threadIndices)].unlocked
                         /\ hres' = "ok" => Fronted'
                    /\ lastReal < itemIndex /\ hres' = "ok" => Settled'
  BY <1>1 DEF Written
<1>2. lastReal <= itemIndex /\ (main = "wait" => lastReal = itemIndex)
  BY DEF AInv, Written
<1>3. hres' = "ok" => hres = "ok"
  BY ThreadPlace
<1>4. Entries(itemIndex - 1)' = Entries(itemIndex - 1) /\ Headed' = Headed
  BY ThreadPast
<1>5. ASSUME lastReal = itemIndex
      PROVE  /\ Open(itemIndex)' /\ itemIndex < mtItemIndex
             /\ threadIndices # <<>> /\ stream'[Head(threadIndices)].unlocked
             /\ hres' = "ok" => Fronted'
  <2>1. /\ Open(itemIndex) /\ itemIndex < mtItemIndex /\ threadIndices # <<>>
        /\ stream[Head(threadIndices)].unlocked
    BY <1>5 DEF AInv, Written
  <2>2. PICK h \in Thread : h = Head(threadIndices)
    BY <2>1, HeadIsDue
  <2>3. stream'[h].unlocked /\ stream'[h].offset = stream[h].offset
    BY <1>1, <2>1, <2>2
  <2>4. Open(itemIndex)'
    BY <1>1, <2>1 DEF Open
  <2>5. ASSUME hres' = "ok" PROVE Fronted'
    <3>1. Fronted
      BY <1>3, <1>5, <2>5 DEF AInv, Written
    <3>2. /\ pos = Len(file) /\ curPos = Len(Headed) /\ headerPos + 1 = curPos
          /\ stream[h].offset = curPos /\ \E n \in 0 .. MaxSize : FrontAt(h, n)
      BY <2>2, <3>1 DEF Fronted
    <3>3. pos' = Len(file') /\ \E n \in 0 .. MaxSize : FrontAt(h, n)'
      <4>1. CASE t = h
        BY <1>5, <2>2, <2>5, <4>1, HeadWrites
      <4>2. CASE t # h
        <5>1. UNCHANGED <<file, pos>>
          BY <2>2, <4>2, OnlyHeadWrites
        <5>2. pc'[h] = pc[h] /\ info'[h] = info[h] /\ stream'[h] = stream[h]
          BY <1>1, <2>2, <4>2
        <5>3. PICK n \in 0 .. MaxSize : FrontAt(h, n)
          BY <3>2
        <5>4. FrontAt(h, n)'
          BY <1>1, <1>4, <5>1, <5>2, <5>3 DEF FrontAt, Works, Done
        <5> QED
          BY <3>2, <5>1, <5>4
      <4> QED
        BY <4>1, <4>2
    <3>4. Head(threadIndices)' = h /\ MaxSize' = MaxSize
      BY <1>1, <2>2 DEF MaxSize
    <3>5. \E n \in 0 .. MaxSize : FrontAt(Head(threadIndices), n)'
      BY <3>3, <3>4 DEF FrontAt, Works, Done
    <3> QED
      BY <1>1, <1>4, <2>3, <3>2, <3>3, <3>4, <3>5 DEF Fronted
  <2> QED
    BY <2>1, <2>2, <2>3, <2>4, <2>5
<1>6. ASSUME lastReal < itemIndex, hres' = "ok" PROVE Settled'
  <2>1. lastReal # itemIndex
    BY <1>6, MainFacts DEF AInv, Typed
  <2>2. UNCHANGED <<file, pos>>
    BY <2>1, OnlyHeadWrites
  <2>3. Settled
    BY <1>3, <1>6 DEF AInv, Written
  <2> QED
    BY <1>1, <1>4, <2>2, <2>3 DEF Settled
<1> QED
  BY <1>2, <1>5, <1>6

\* What the coder said of the file that it has finished is what it wrote.
LEMMA PassIsWhole ==
  ASSUME IInv, AInv, Live, NEW t \in Thread, PassDone(t), Does(t), Own(t), Others(t)
  PROVE  WholeIn(t, packed[info[t].item])'
<1>1. /\ Works(t) /\ UNCHANGED <<file, pos, hres>> /\ info'[t].pass = info[t].pass
      /\ info'[t].pack = PackSize(t) /\ stream'[t].real = stream[t].real
      /\ stream'[t].total = stream[t].total /\ stream'[t].mem = stream[t].mem
  BY DEF PassDone, Works, Moved, SameData, SamePlace, SameMemory, Quiet
<1>2. packed'[info[t].item].pass = info[t].pass /\ packed'[info[t].item].pack = info[t].n
  BY ThreadPast
<1>3. info'[t].item = info[t].item
  BY DEF Others
<1>4. info[t].n <= MaxSize /\ Collects(t)
  BY <1>1, Worked DEF AInv, Local
<1>5. ASSUME stream[t].real, hres = "ok" PROVE PackSize(t) = info[t].n
  <2>1. t = Head(threadIndices) /\ lastReal = itemIndex
    BY <1>1, <1>5, Worker
  <2>2. /\ info[t].item = itemIndex /\ itemIndex \in 1 .. NumItems /\ info[t].pass \in Nat
        /\ info[t].n \in Nat /\ itemIndex \in Nat /\ Fronted
    BY <1>5, <2>1, FrontFacts
  <2>3. PICK n \in 0 .. MaxSize : FrontAt(t, n)
    BY <2>1, <2>2 DEF Fronted
  <2>4. /\ pos = Len(file) /\ curPos = Len(Headed) /\ stream[t].offset = curPos
        /\ Headed \in Seq(Datum) /\ n \in Nat
    <3>1. pos = Len(file) /\ curPos = Len(Headed) /\ stream[t].offset = curPos
      BY <2>1, <2>2 DEF Fronted
    <3>2. Headed \in Seq(Datum) /\ n \in Nat
      BY <2>2, MainFacts, HeadedFacts, MaxSizeFacts
    <3> QED
      BY <3>1, <3>2
  <2>5. file = Headed \o Units(itemIndex, info[t].pass, n) /\ n = info[t].n
    BY <1>1, <1>5, <2>3 DEF FrontAt
  <2> DEFINE u == Units(itemIndex, info[t].pass, n)
  <2>6. u \in Seq(Datum) /\ Len(u) = n
    BY <2>2, <2>4, UnitsFacts, SMTT(30)
  <2>7. file = Headed \o u
    BY <2>5
  <2> HIDE DEF u
  <2>8. Len(file) = Len(Headed) + n /\ Len(Headed) \in Nat
    <3>1. PICK g \in Seq(Datum) : g = Headed
      BY <2>4
    <3>2. Len(g \o u) = Len(g) + Len(u) /\ Len(g) \in Nat
      BY <2>6
    <3> QED
      BY <2>6, <2>7, <3>1, <3>2
  <2>9. PackSize(t) = pos - curPos
    BY <1>5, <2>4 DEF PackSize
  <2> QED
    BY <2>4, <2>5, <2>8, <2>9
<1>6. ~ stream[t].real => PackSize(t) = info[t].n
  BY <1>4 DEF PackSize, Collects
<1>7. stream[t].real \in BOOLEAN
  BY RecordFacts
<1>8. /\ stream[t].real => stream[t].total = 0
      /\ ~ stream[t].real =>
           /\ stream[t].total = info[t].n
           /\ Holds(stream[t].mem, info[t].item, info[t].pass, info[t].n)
  BY <1>4 DEF Collects
<1> QED
  BY <1>1, <1>2, <1>3, <1>4, <1>5, <1>6, <1>7, <1>8 DEF WholeIn, Holds

LEMMA ThreadWhole ==
  ASSUME IInv, AInv, NEW t \in Thread, Does(t), Own(t), Others(t)
  PROVE  Whole'
<1>1. /\ UNCHANGED <<main, itemIndex, threadIndices, items, refs>>
      /\ NumItems' = NumItems /\ Live' = Live /\ In(threadIndices)' = In(threadIndices)
      /\ \A u \in Thread : u # t => pc'[u] = pc[u] /\ info'[u] = info[u] /\ stream'[u] = stream[u]
      /\ info'[t].item = info[t].item
  BY DEF Others, mainVars, requestVars, NumItems, Live, In
<1> SUFFICES ASSUME Live
             PROVE  /\ \A u \in In(threadIndices) : Done(u)' => WholeIn(u, packed[info[u].item])'
                    /\ \A i \in itemIndex .. NumItems :
                         refs[i].finished => WholeRef(i, packed[i])'
  BY <1>1 DEF Whole
<1>2. /\ \A u \in In(threadIndices) : Done(u) => WholeIn(u, packed[info[u].item])
      /\ \A i \in itemIndex .. NumItems : refs[i].finished => WholeRef(i, packed[i])
  BY DEF AInv, Whole
<1>3. hres' = "ok" => hres = "ok"
  BY ThreadPlace
<1>4. \A i \in 1 .. NumItems : i # info[t].item => packed'[i] = packed[i]
  BY ThreadPast
<1>5. ~ PassDone(t) => packed' = packed
  BY ThreadPlace
<1>6. PassDone(t) => t \in In(threadIndices)
  BY Worker DEF PassDone, Works, Moved
<1>7. ASSUME NEW u \in In(threadIndices), Done(u)' PROVE WholeIn(u, packed[info[u].item])'
  <2>0. u \in Thread /\ info[u].item \in 1 .. NumItems
    BY OwnItem, MainFacts DEF In
  <2>1. CASE u # t
    <3>1. pc'[u] = pc[u] /\ info'[u] = info[u] /\ stream'[u] = stream[u]
      BY <1>1, <2>0, <2>1
    <3>2. Done(u)
      BY <1>7, <3>1 DEF Done, Works
    <3>3. WholeIn(u, packed[info[u].item])
      BY <1>2, <3>2
    <3>4. packed'[info[u].item] = packed[info[u].item]
      <4>1. CASE PassDone(t)
        BY <1>4, <1>6, <2>0, <2>1, <4>1, OwnItem
      <4>2. CASE ~ PassDone(t)
        BY <1>5, <4>2
      <4> QED
        BY <4>1, <4>2
    <3> QED
      BY <1>3, <3>1, <3>3, <3>4 DEF WholeIn, Holds
  <2>2. CASE u = t
    <3>1. CASE PassDone(t)
      BY <2>2, <3>1, PassIsWhole
    <3>2. CASE Rests(t)
      <4>1. /\ packed' = packed /\ hres' = hres /\ stream'[t].real = stream[t].real
            /\ stream'[t].total = stream[t].total /\ stream'[t].mem = stream[t].mem
            /\ info'[t].pass = info[t].pass /\ info'[t].pack = info[t].pack
            /\ info'[t].result = info[t].result /\ ~ Works(t)
        BY <3>2 DEF Rests, Quiet, SameCode, SameData, SamePlace, SameMemory, Works, Moved
      <4>2. info'[t].compress = info[t].compress
        <5>1. ~ info[t].exit
          BY DEF AInv, Rested
        <5> QED
          BY <3>2, <5>1 DEF Rests
      <4>3. Done(t)
        BY <1>7, <2>2, <4>1, <4>2 DEF Done
      <4>4. WholeIn(t, packed[info[t].item])
        BY <1>2, <2>2, <4>3
      <4> QED
        BY <1>1, <2>2, <4>1, <4>4 DEF WholeIn, Holds
    <3>3. CASE ~ PassDone(t) /\ ~ Rests(t)
      <4>1. Works(t)' \/ info'[t].result # "ok"
        BY <3>3 DEF Does, Begins, Allocates, Remembers, WritesOn, WritesAll, Fails, Restarts,
                    CutsOff, Moved, Works
      <4> QED
        BY <1>7, <2>2, <4>1 DEF Done
    <3> QED
      BY <3>1, <3>2, <3>3
  <2> QED
    BY <2>1, <2>2
<1>8. ASSUME NEW i \in itemIndex .. NumItems, refs[i].finished PROVE WholeRef(i, packed[i])'
  <2>0. i \in 1 .. NumItems
    BY MainFacts
  <2>1. WholeRef(i, packed[i])
    BY <1>2, <1>8
  <2>2. packed'[i] = packed[i]
    <3>1. CASE PassDone(t)
      <4>1. Open(info[t].item)
        BY <1>6, <3>1, OwnItem
      <4> QED
        BY <1>4, <1>8, <2>0, <4>1 DEF Open
    <3>2. CASE ~ PassDone(t)
      BY <1>5, <3>2
    <3> QED
      BY <3>1, <3>2
  <2> QED
    BY <1>1, <2>1, <2>2 DEF WholeRef, Holds
<1> QED
  BY <1>7, <1>8

LEMMA ThreadAInv ==
  ASSUME IInv, AInv, NEW t \in Thread, ThreadStep(t)
  PROVE  AInv'
<1>1. Does(t) /\ Own(t) /\ Others(t)
  BY ThreadDoes, ThreadOthers
<1>2. Typed' /\ (\A u \in Thread : Local(u)') /\ Rested'
  BY <1>1, ThreadTyped, ThreadLocal, ThreadRested
<1>3. Unlocks' /\ Over' /\ Written' /\ Whole'
  BY <1>1, ThreadUnlocks, ThreadOver, ThreadWritten, ThreadWhole
<1> QED
  BY <1>2, <1>3 DEF AInv

-----------------------------------------------------------------------------
(* A step of main keeps it. *)

\* What AInv says of a thread's work stays, and of its place.
SameWork(u) ==
  /\ pc'[u] = pc[u] /\ SameCode(u) /\ SameMemory(u) /\ stream'[u].real = stream[u].real
  /\ info'[u].item = info[u].item /\ info'[u].exit = info[u].exit
  /\ info'[u].compress = info[u].compress
Kept1(u) ==
  /\ SameWork(u) /\ stream'[u].toReal = stream[u].toReal
  /\ stream'[u].unlocked = stream[u].unlocked /\ stream'[u].offset = stream[u].offset
AllKept == \A u \in Thread : Kept1(u)

LEMMA SameIsKept == ASSUME UNCHANGED <<pc, info, stream>> PROVE AllKept
  BY DEF AllKept, Kept1, SameWork, SameCode, SameMemory

LEMMA KeptStays ==
  ASSUME NEW u, SameWork(u), UNCHANGED items
  PROVE  /\ Local(u) => Local(u)'
         /\ Resting(u)' <=> Resting(u)
         /\ Done(u)' <=> Done(u)
         /\ Works(u)' <=> Works(u)
  BY DEF SameWork, SameCode, SameMemory, Local, Works, Collects, Holds, Resting, Done, NumItems

\* Failures are bounded.
LEMMA Failing ==
  ASSUME AInv, failures' = failures \/ (\E k : MayFail(k) /\ failures' = failures + 1)
  PROVE  failures' \in 0 .. MaxFaults
<1>1. failures \in 0 .. MaxFaults /\ MaxFaults \in Nat
  BY ZipUpdateAssumption DEF AInv, Typed
<1> QED
  BY <1>1 DEF MayFail

\* The loop is left without success.
LEMMA Leaving ==
  ASSUME IInv, AInv, AllKept, main' = "stop", NEW r \in Results \ {"ok"}, result' = r,
         UNCHANGED <<items, file, pos, curPos, headerPos, packed, refs, lastReal>>,
         failures' \in 0 .. MaxFaults, hres' = "ok" => hres = "ok",
         Distinct(ready)', In(ready)' \subseteq In(ready),
         \A u \in Thread : u \in In(threadIndices) => u \in In(threadIndices)' \/ u \in In(ready),
         \A u \in In(threadIndices)' : u \in In(threadIndices)
             /\ (stream[u].unlocked => u = Head(threadIndices'))
  PROVE  AInv'
<1>1. ~ Live' /\ NumItems' = NumItems
  BY DEF Live, NumItems
<1>2. Typed'
  <2>1. \A u \in Thread : stream'[u].mem \in Seq(Datum)
    BY DEF AllKept, Kept1, SameWork, SameMemory, AInv, Typed
  <2> QED
    BY <1>1, <2>1 DEF AInv, Typed, PackedType
<1>3. \A u \in Thread : Local(u)'
  BY KeptStays DEF AllKept, Kept1, AInv
<1>4. Rested'
  <2>1. ASSUME NEW u \in Thread, u \in In(ready)' \/ u \notin In(threadIndices)'
        PROVE  Resting(u)'
    <3>1. u \in In(ready) \/ u \notin In(threadIndices)
      BY <2>1
    <3>2. Resting(u)
      BY <3>1 DEF AInv, Rested
    <3> QED
      BY <3>2, KeptStays DEF AllKept, Kept1
  <2> QED
    BY <1>1, <2>1 DEF Rested
<1>5. Whole' /\ Written' /\ Over'
  BY <1>1 DEF Whole, Written, Over
<1>6. Unlocks'
  <2>1. \A u \in Thread : stream'[u].real \/ stream'[u].toReal => stream'[u].unlocked
    BY DEF AllKept, Kept1, SameWork, AInv, Unlocks
  <2>2. ASSUME NEW u \in In(threadIndices)', stream'[u].unlocked
        PROVE  u = Head(threadIndices)' /\ (hres' = "ok" => stream'[u].offset \in 0 .. Len(file'))
    <3>0. u \in In(threadIndices)
      BY <2>2
    <3>1. u \in Thread /\ u \in In(threadIndices)
      BY <3>0, MainFacts DEF In
    <3>2. stream[u].unlocked /\ stream'[u].offset = stream[u].offset
      BY <2>2, <3>1 DEF AllKept, Kept1
    <3>3. hres = "ok" => stream[u].offset \in 0 .. Len(file)
      BY <3>1, <3>2 DEF AInv, Unlocks
    <3> QED
      BY <2>2, <3>2, <3>3
  <2> QED
    BY <1>1, <2>1, <2>2 DEF Unlocks
<1> QED
  BY <1>2, <1>3, <1>4, <1>5, <1>6 DEF AInv

\* In the common case no thread is concerned.
LEMMA JustLeaves ==
  ASSUME IInv, AInv, NEW r \in Results \ {"ok"}, Leave(r),
         UNCHANGED <<items, file, pos, curPos, headerPos, packed, refs, lastReal, ready,
                     threadIndices, pc, info, stream>>,
         failures' = failures \/ (\E k : MayFail(k) /\ failures' = failures + 1),
         hres' = "ok" => hres = "ok"
  PROVE  AInv'
<1>1. AllKept /\ main' = "stop" /\ result' = r /\ failures' \in 0 .. MaxFaults
  BY SameIsKept, Failing DEF Leave
<1>2. /\ Distinct(ready)' /\ In(ready)' \subseteq In(ready)
      /\ \A u \in Thread : u \in In(threadIndices) => u \in In(threadIndices)' \/ u \in In(ready)
  BY DEF AInv, Rested, Distinct, In
<1>3. \A u \in In(threadIndices)' : u \in In(threadIndices)
             /\ (stream[u].unlocked => u = Head(threadIndices'))
  BY DEF In, AInv, Unlocks
<1> QED
  BY <1>1, <1>2, <1>3, Leaving

\* Main goes on in the loop, and the threads are left alone.
LEMMA GoingOn ==
  ASSUME IInv, AInv, AllKept, Live, Live', result' = result,
         UNCHANGED <<items, ready, threadIndices>>, Typed', Whole', Written',
         \A u \in In(threadIndices) : stream[u].unlocked =>
            lastReal' = itemIndex' /\ (hres' = "ok" => stream[u].offset \in 0 .. Len(file'))
  PROVE  AInv'
<1>1. \A u \in Thread : Local(u)'
  BY KeptStays DEF AllKept, Kept1, AInv
<1>2. Rested'
  <2>1. ASSUME NEW u \in Thread, u \in In(ready)' \/ u \notin In(threadIndices)'
        PROVE  Resting(u)'
    <3>1. Resting(u)
      BY <2>1 DEF AInv, Rested, In
    <3> QED
      BY <3>1, KeptStays DEF AllKept, Kept1
  <2>2. \A u \in Thread : ~ info'[u].exit /\ pc'[u] # "ended"
    BY DEF AInv, Rested, AllKept, Kept1, SameWork
  <2>3. Distinct(ready)'
    BY DEF AInv, Rested, Distinct
  <2> QED
    BY <2>1, <2>2, <2>3 DEF Rested
<1>3. Over'
  BY DEF AInv, Over, Live
<1>4. Unlocks'
  <2>1. \A u \in Thread : stream'[u].real \/ stream'[u].toReal => stream'[u].unlocked
    BY DEF AllKept, Kept1, SameWork, AInv, Unlocks
  <2>2. ASSUME NEW u \in In(threadIndices), stream'[u].unlocked
        PROVE  /\ u = Head(threadIndices) /\ lastReal' = itemIndex'
               /\ hres' = "ok" => stream'[u].offset \in 0 .. Len(file')
    <3>1. u \in Thread
      BY MainFacts DEF In
    <3>2. stream[u].unlocked /\ stream'[u].offset = stream[u].offset
      BY <2>2, <3>1 DEF AllKept, Kept1
    <3> QED
      BY <2>2, <3>2 DEF AInv, Unlocks
  <2>3. In(threadIndices)' = In(threadIndices)
    BY DEF In
  <2> QED
    BY <2>1, <2>2, <2>3 DEF Unlocks
<1> QED
  BY <1>1, <1>2, <1>3, <1>4 DEF AInv

\* What Whole says stays, while the threads and the finished items do.
LEMMA WholeStays ==
  ASSUME IInv, AInv, \A u \in Thread : SameWork(u), Live, UNCHANGED <<items, threadIndices, packed>>,
         hres' = "ok" => hres = "ok", itemIndex' \in {itemIndex, itemIndex + 1},
         \A i \in itemIndex' .. NumItems :
           /\ refs'[i].finished => refs[i].finished /\ refs'[i].pack = refs[i].pack
           /\ refs'[i].total = refs[i].total /\ refs'[i].mem = refs[i].mem
  PROVE  Whole'
<1>1. NumItems' = NumItems /\ In(threadIndices)' = In(threadIndices) /\ NumItems \in Nat
      /\ itemIndex \in 1 .. NumItems + 1
  BY MainFacts DEF NumItems, In
<1>2. ASSUME NEW u \in In(threadIndices), Done(u)' PROVE WholeIn(u, packed[info[u].item])'
  <2>1. u \in Thread
    BY MainFacts DEF In
  <2>2. SameWork(u) /\ Done(u)
    BY <1>2, <2>1, KeptStays
  <2>3. WholeIn(u, packed[info[u].item])
    BY <2>2 DEF AInv, Whole
  <2> QED
    BY <2>2, <2>3 DEF SameWork, SameCode, SameMemory, WholeIn, Holds
<1>3. ASSUME NEW i \in itemIndex' .. NumItems, refs'[i].finished PROVE WholeRef(i, packed[i])'
  <2>1. i \in itemIndex .. NumItems
    BY <1>1
  <2>2. WholeRef(i, packed[i])
    BY <1>3, <2>1 DEF AInv, Whole
  <2> QED
    BY <1>3, <2>2 DEF WholeRef, Holds
<1> QED
  BY <1>1, <1>2, <1>3 DEF Whole

\* The entries written are not changed by what is said of later items.
LEMMA PastStays ==
  ASSUME IInv, UNCHANGED <<items, seqOut, packed, itemIndex>>,
         \A i \in 1 .. itemIndex : i <= NumItems =>
            refs'[i].skip = refs[i].skip /\ refs'[i].seq = refs[i].seq
  PROVE  /\ Entries(itemIndex - 1)' = Entries(itemIndex - 1)
         /\ itemIndex <= NumItems => Headed' = Headed
<1>1. PICK n \in Nat : n = itemIndex - 1 /\ n <= NumItems /\ n + 1 = itemIndex
  BY MainFacts
<1>2. ASSUME NEW i \in 1 .. n PROVE Entry(i)' = Entry(i)
  <2>1. i \in 1 .. itemIndex /\ i <= NumItems
    BY <1>1, MainFacts
  <2> QED
    BY <2>1, EntrySame
<1>3. Entries(n)' = Entries(n)
  BY <1>2, EntriesSame
<1>4. Entries(itemIndex - 1)' = Entries(itemIndex - 1)
  BY <1>1, <1>3
<1>5. ASSUME itemIndex <= NumItems PROVE Headed' = Headed
  <2>1. refs'[itemIndex].seq = refs[itemIndex].seq
    BY <1>1, <1>5, MainFacts
  <2> QED
    BY <1>4, <2>1 DEF Headed, PreHeader, Header, Descriptor
<1> QED
  BY <1>4, <1>5

\* Items are passed over.
LEMMA PassOverAInv == ASSUME IInv, AInv, PassOver PROVE AInv'
<1>0. /\ main = "loop" /\ itemIndex <= NumItems /\ mtItemIndex <= NumItems
      /\ mtItemIndex' = mtItemIndex + 1 /\ Live /\ Live'
      /\ UNCHANGED <<items, seqOut, ready, threadIndices, pc, info, stream, main, itemIndex, result,
                     lastReal, file, pos, hres, curPos, headerPos, packed, failures>>
      /\ itemIndex <= mtItemIndex
  BY DEF PassOver, MayStart, requestVars, semVars, poolVars, threadVars, archiveVars, Live, IInv,
         Items
<1>1. PICK V : Records(V)
  BY DEF IInv, Types
<1>2. PICK m \in 1 .. NumItems : m = mtItemIndex
  BY <1>0, MainFacts
<1>3. \A i \in 1 .. NumItems :
        /\ refs'[i].finished = refs[i].finished /\ refs'[i].pack = refs[i].pack
        /\ refs'[i].total = refs[i].total /\ refs'[i].mem = refs[i].mem
        /\ refs'[i].seq = refs[i].seq /\ (i # m => refs'[i] = refs[i])
  <2>0. refs \in [1 .. NumItems -> RefType(V)]
    BY <1>1 DEF Records
  <2>1. CASE refs' = refs
    BY <2>1
  <2>2. CASE refs' = [refs EXCEPT ![m].skip = TRUE]
    <3> DEFINE r == refs[m]
               d == [r EXCEPT !.skip = TRUE]
    <3>1. /\ d.finished = r.finished /\ d.pack = r.pack /\ d.total = r.total /\ d.mem = r.mem
          /\ d.seq = r.seq
      BY <2>0 DEF RefType
    <3>2. refs' = [refs EXCEPT ![m] = d]
      BY <2>2
    <3> HIDE DEF d
    <3> QED
      BY <2>0, <3>1, <3>2
  <2> QED
    BY <1>2, <2>1, <2>2 DEF PassOver
<1>4. \A i \in 1 .. NumItems : i < m => refs'[i] = refs[i]
  BY <1>3
<1>5. NumItems' = NumItems /\ AllKept /\ NumItems \in Nat /\ itemIndex \in 1 .. NumItems
  BY <1>0, SameIsKept, MainFacts DEF NumItems
<1>6. Typed'
  BY <1>0, <1>3, <1>5 DEF AInv, Typed, PackedType
<1>7. Whole'
  <2>1. \A i \in itemIndex' .. NumItems :
           /\ refs'[i].finished => refs[i].finished /\ refs'[i].pack = refs[i].pack
           /\ refs'[i].total = refs[i].total /\ refs'[i].mem = refs[i].mem
    BY <1>0, <1>3, <1>5
  <2> QED
    BY <1>0, <1>5, <2>1, WholeStays DEF AllKept, Kept1
<1>8. ASSUME itemIndex < mtItemIndex
      PROVE  Entries(itemIndex - 1)' = Entries(itemIndex - 1) /\ Headed' = Headed
             /\ (Open(itemIndex)' <=> Open(itemIndex))
  <2>1. \A i \in 1 .. itemIndex : i <= NumItems => refs'[i] = refs[i]
    BY <1>2, <1>4, <1>5, <1>8
  <2> QED
    BY <1>0, <1>5, <2>1, PastStays DEF Open
<1>9. Entries(itemIndex - 1)' = Entries(itemIndex - 1)
  <2>1. PICK n \in Nat : n = itemIndex - 1 /\ n < m /\ n <= NumItems
    BY <1>0, <1>2, <1>5
  <2>2. ASSUME NEW i \in 1 .. n PROVE Entry(i)' = Entry(i)
    <3>1. i \in 1 .. NumItems /\ i < m
      BY <1>5, <2>1
    <3>2. refs'[i] = refs[i]
      BY <1>4, <3>1
    <3> QED
      BY <1>0, <3>2, EntrySame
  <2>3. Entries(n)' = Entries(n)
    BY <2>2, EntriesSame
  <2> QED
    BY <1>0, <2>1, <2>3
<1>10. Written'
  <2>1. lastReal <= itemIndex /\ (main = "wait" => lastReal = itemIndex)
    BY <1>0 DEF AInv, Written
  <2>2. ASSUME lastReal = itemIndex
        PROVE  /\ Open(itemIndex)' /\ itemIndex < mtItemIndex'
               /\ threadIndices # <<>> /\ stream[Head(threadIndices)].unlocked
               /\ hres = "ok" => Fronted'
    <3>1. /\ Open(itemIndex) /\ itemIndex < mtItemIndex
          /\ threadIndices # <<>> /\ stream[Head(threadIndices)].unlocked
          /\ hres = "ok" => Fronted
      BY <1>0, <2>2 DEF AInv, Written
    <3>2. Headed' = Headed /\ Open(itemIndex)' /\ itemIndex < mtItemIndex'
      BY <1>0, <1>2, <1>5, <1>8, <3>1
    <3>3. Fronted => Fronted'
      BY <1>0, <3>2 DEF Fronted, FrontAt, Works, Done, MaxSize
    <3> QED
      BY <3>1, <3>2, <3>3
  <2>3. ASSUME lastReal < itemIndex, hres = "ok" PROVE Settled'
    <3>1. Settled
      BY <1>0, <2>3 DEF AInv, Written
    <3> QED
      BY <1>0, <1>9, <3>1 DEF Settled
  <2> QED
    BY <1>0, <2>1, <2>2, <2>3 DEF Written
<1>11. \A u \in In(threadIndices) : stream[u].unlocked =>
            lastReal' = itemIndex' /\ (hres' = "ok" => stream[u].offset \in 0 .. Len(file'))
  BY <1>0 DEF AInv, Unlocks
<1> QED
  BY <1>0, <1>5, <1>6, <1>7, <1>10, <1>11, GoingOn

LEMMA CannotStartAInv == ASSUME IInv, AInv, CannotStart PROVE AInv'
<1>1. PICK r \in Results \ {"ok"} : Leave(r)
  BY DEF CannotStart, Results
<1>2. UNCHANGED <<items, file, pos, curPos, headerPos, packed, refs, lastReal, ready,
                  threadIndices, pc, info, stream, hres>>
  BY DEF CannotStart, requestVars, archiveVars, semVars, threadVars
<1>3. failures' = failures \/ (\E k : MayFail(k) /\ failures' = failures + 1)
  BY DEF CannotStart
<1> QED
  BY <1>1, <1>2, <1>3, JustLeaves

\* The item that is due has its entry, and the next one is due.
LEMMA NextAInv ==
  ASSUME IInv, AInv, main = "loop", itemIndex <= NumItems, ~ Open(itemIndex), NextItem,
         UNCHANGED <<items, seqOut, pc, info, stream, ready, threadIndices, packed>>,
         failures' \in 0 .. MaxFaults, lastReal' \in {lastReal, itemIndex},
         file' \in Seq(Datum), pos' \in 0 .. Len(file'), curPos' \in Nat, headerPos' \in 0 .. curPos',
         hres' = "ok" => hres = "ok",
         \A i \in 1 .. NumItems : /\ refs'[i].skip = refs[i].skip /\ refs'[i].seq = refs[i].seq
                                  /\ refs'[i].mem \in Seq(Datum)
                                  /\ i # itemIndex => refs'[i] = refs[i],
         hres' = "ok" /\ Settled =>
            file' = file \o Entry(itemIndex) /\ pos' = Len(file') /\ curPos' = Len(file')
  PROVE  AInv'
<1>1. /\ main' = "loop" /\ itemIndex' = itemIndex + 1 /\ result' = result /\ Live /\ Live'
      /\ NumItems' = NumItems /\ NumItems \in Nat /\ itemIndex \in 1 .. NumItems /\ AllKept
      /\ itemIndex' \in Nat
  BY SameIsKept, MainFacts DEF NextItem, GoOn, Live, NumItems
<1>2. lastReal < itemIndex /\ (hres = "ok" => Settled) /\ lastReal \in 0 .. NumItems
  <2>1. lastReal <= itemIndex /\ lastReal # itemIndex /\ lastReal \in 0 .. NumItems
    BY <1>1 DEF AInv, Written, Typed
  <2>2. lastReal < itemIndex
    BY <1>1, <2>1
  <2> QED
    BY <1>1, <2>1, <2>2 DEF AInv, Written
<1>3. Typed'
  <2>1. lastReal' \in 0 .. NumItems
    BY <1>1, <1>2
  <2> QED
    BY <1>1, <2>1 DEF AInv, Typed, PackedType
<1>4. Whole'
  <2>1. \A i \in itemIndex' .. NumItems : refs'[i] = refs[i]
    BY <1>1
  <2> QED
    BY <1>1, <2>1, WholeStays DEF AllKept, Kept1
<1>5. Written'
  <2>1. lastReal' < itemIndex'
    BY <1>1, <1>2
  <2>2. ASSUME hres' = "ok" PROVE Settled'
    <3>1. Settled /\ file' = file \o Entry(itemIndex) /\ pos' = Len(file') /\ curPos' = Len(file')
      BY <1>2, <2>2
    <3>2. PICK n \in 1 .. NumItems : n = itemIndex /\ itemIndex' - 1 = n
      BY <1>1
    <3>3. Entries(n) = Entries(itemIndex - 1) \o Entry(itemIndex)
      BY <1>1, <3>2, HeadedFacts
    <3>4. Entries(n)' = Entries(n)
      <4>1. ASSUME NEW i \in 1 .. n PROVE Entry(i)' = Entry(i)
        <5>1. i \in 1 .. NumItems
          BY <1>1
        <5> QED
          BY <5>1, EntrySame
      <4> QED
        BY <4>1, EntriesSame
    <3>5. Entries(itemIndex - 1)' = Entries(n)
      BY <3>2, <3>4
    <3> QED
      BY <3>1, <3>3, <3>5 DEF Settled
  <2>3. lastReal' <= itemIndex' /\ lastReal' # itemIndex' /\ main' # "wait"
    <3>1. lastReal' \in Int /\ itemIndex' \in Int
      BY <1>1, <1>2
    <3> QED
      BY <1>1, <2>1, <3>1
  <2> QED
    BY <2>1, <2>2, <2>3 DEF Written
<1>6. \A u \in In(threadIndices) : ~ stream[u].unlocked
  <2>1. lastReal # itemIndex
    BY <1>1, <1>2
  <2> QED
    BY <1>1, <2>1 DEF AInv, Unlocks
<1> QED
  BY <1>1, <1>3, <1>4, <1>5, <1>6, GoingOn

LEMMA SkipItemAInv == ASSUME IInv, AInv, SkipItem PROVE AInv'
<1>1. /\ main = "loop" /\ itemIndex <= NumItems /\ ~ Open(itemIndex) /\ NextItem
      /\ items[itemIndex] = "file" /\ refs[itemIndex].skip
      /\ UNCHANGED <<items, seqOut, pc, info, stream, ready, threadIndices, packed, failures, lastReal,
                     file, pos, curPos, headerPos, hres, refs>>
  BY DEF SkipItem, Due, Open, requestVars, archiveVars, poolVars, semVars, threadVars
<1>2. /\ failures \in 0 .. MaxFaults /\ file \in Seq(Datum) /\ pos \in 0 .. Len(file)
      /\ curPos \in Nat /\ headerPos \in 0 .. curPos
      /\ \A i \in 1 .. NumItems : refs[i].mem \in Seq(Datum)
  BY DEF AInv, Typed
<1>3. Entry(itemIndex) = <<>> /\ file \o <<>> = file
  BY <1>1, <1>2 DEF Entry
<1>4. Settled => file' = file \o Entry(itemIndex) /\ pos' = Len(file') /\ curPos' = Len(file')
  BY <1>1, <1>3 DEF Settled
<1> QED
  BY <1>1, <1>2, <1>4, NextAInv

\* A write at the position, and the position after it.
LEMMA WriteAtFacts ==
  ASSUME AInv, NEW s \in Seq(Datum), WriteAt(pos, s)
  PROVE  /\ file' \in Seq(Datum) /\ pos' \in 0 .. Len(file') /\ hres = "ok" /\ hres' = hres
         /\ failures' = failures
         /\ pos = Len(file) => file' = file \o s /\ pos' = Len(file') /\ Len(file') = Len(file) + Len(s)
<1>1. file \in Seq(Datum) /\ pos \in 0 .. Len(file)
  BY DEF AInv, Typed
<1>2. /\ file' = Put(file, pos, s) /\ pos' = pos + Len(s) /\ hres = "ok" /\ hres' = hres
      /\ failures' = failures
  BY DEF WriteAt
<1>3. Put(file, pos, s) \in Seq(Datum) /\ pos + Len(s) \in 0 .. Len(Put(file, pos, s))
  BY <1>1, WrittenTo
<1>4. ASSUME pos = Len(file)
      PROVE  file' = file \o s /\ pos' = Len(file') /\ Len(file') = Len(file) + Len(s)
  <2>1. Put(file, Len(file), s) = file \o s
    BY <1>1, PutAtEnd
  <2>2. Len(file \o s) = Len(file) + Len(s)
    BY <1>1
  <2>3. file' = file \o s
    BY <1>2, <1>4, <2>1
  <2> QED
    BY <1>2, <1>4, <2>2, <2>3
<1> QED
  BY <1>2, <1>3, <1>4

LEMMA OldEntry ==
  ASSUME NEW i, items[i] = "old"
  PROVE  Entry(i) = <<Header(i, FALSE, 1), OldData(i)>>
<1> DEFINE s == <<Header(i, FALSE, 1), OldData(i)>>
<1> HIDE DEF s
<1>1. Entry(i) = s
  BY DEF Entry, s
<1> QED
  BY <1>1 DEF s

LEMMA CopyOldAInv == ASSUME IInv, AInv, CopyOld PROVE AInv'
<1>1. /\ main = "loop" /\ itemIndex <= NumItems /\ ~ Open(itemIndex) /\ items[itemIndex] = "old"
      /\ UNCHANGED <<items, seqOut, pc, info, stream, ready, threadIndices, packed, lastReal, refs>>
  BY DEF CopyOld, Due, Open, requestVars, poolVars, semVars, threadVars
<1>2. /\ failures \in 0 .. MaxFaults /\ file \in Seq(Datum) /\ pos \in 0 .. Len(file)
      /\ curPos \in Nat /\ headerPos \in 0 .. curPos
      /\ \A i \in 1 .. NumItems : refs[i].mem \in Seq(Datum)
  BY DEF AInv, Typed
<1>3. CASE /\ WriteAt(pos, <<Header(itemIndex, FALSE, 1), OldData(itemIndex)>>)
           /\ headerPos' = curPos /\ curPos' = curPos + 2 /\ NextItem
  <2> DEFINE x == Header(itemIndex, FALSE, 1)
             y == OldData(itemIndex)
             s == <<x, y>>
  <2>1. x \in Datum /\ y \in Datum
    <3>1. itemIndex \in Nat /\ 0 \in Nat /\ 1 \in Int
      BY MainFacts
    <3> QED
      BY <3>1, DatumFacts
  <2>2. s = Entry(itemIndex) /\ WriteAt(pos, s)
    <3>1. Entry(itemIndex) = <<Header(itemIndex, FALSE, 1), OldData(itemIndex)>>
      BY <1>1, OldEntry
    <3> QED
      BY <1>3, <3>1, Zenon
  <2> HIDE DEF x, y
  <2>3. s \in Seq(Datum) /\ Len(s) = 2
    BY <2>1
  <2> HIDE DEF s
  <2>4. /\ file' \in Seq(Datum) /\ pos' \in 0 .. Len(file') /\ hres' = hres /\ failures' = failures
        /\ pos = Len(file) => file' = file \o s /\ pos' = Len(file') /\ Len(file') = Len(file) + Len(s)
    BY <2>2, <2>3, WriteAtFacts
  <2>5. Settled =>
            file' = file \o Entry(itemIndex) /\ pos' = Len(file') /\ curPos' = Len(file')
    BY <1>3, <2>2, <2>3, <2>4 DEF Settled
  <2>6. curPos' \in Nat /\ headerPos' \in 0 .. curPos'
    BY <1>2, <1>3
  <2> QED
    BY <1>1, <1>2, <1>3, <2>4, <2>5, <2>6, NextAInv
<1>4. CASE WriteFails /\ Leave("write") /\ UNCHANGED <<itemIndex, curPos, headerPos>>
  <2>1. "write" \in Results \ {"ok"}
    BY DEF Results
  <2>2. failures' = failures \/ (\E k : MayFail(k) /\ failures' = failures + 1)
    BY <1>4 DEF WriteFails
  <2>3. UNCHANGED <<file, pos>> /\ hres' # "ok"
    BY <1>4 DEF WriteFails
  <2> QED
    BY <1>1, <1>4, <2>1, <2>2, <2>3, JustLeaves
<1>5. CASE /\ MayFail("stream") /\ failures' = failures + 1 /\ Leave("stream")
           /\ UNCHANGED <<itemIndex, archiveVars>>
  <2>1. "stream" \in Results \ {"ok"}
    BY DEF Results
  <2>2. UNCHANGED <<file, pos, curPos, headerPos, hres>>
    BY <1>5 DEF archiveVars
  <2>3. failures' = failures \/ (\E k : MayFail(k) /\ failures' = failures + 1)
    BY <1>5
  <2> QED
    BY <1>1, <1>5, <2>1, <2>2, <2>3, JustLeaves
<1> QED
  BY <1>3, <1>4, <1>5 DEF CopyOld

\* What is in the blocks of a finished item is the entry's data.
LEMMA FinishedEntry ==
  ASSUME IInv, AInv, Live, NEW i \in itemIndex .. NumItems, refs[i].finished, ~ refs[i].skip,
         items[i] = "file", NEW r, r = refs[i], NEW d, d = Descriptor(r.seq)
  PROVE  /\ <<Header(i, d, r.pack)>> \o Collected(r) \o Trailer(i, d, r.pack) = Entry(i)
         /\ Entry(i) \in Seq(Datum) /\ Len(Trailer(i, d, r.pack)) \in Nat /\ r.pack \in Nat
         /\ Len(Entry(i)) = 1 + r.pack + Len(Trailer(i, d, r.pack))
<1>1. i \in 1 .. NumItems /\ i \in Nat /\ NumItems \in Nat
  BY MainFacts
<1>2. PackedType /\ packed[i].pass \in Nat /\ packed[i].pack \in Nat /\ r.mem \in Seq(Datum)
  BY <1>1 DEF AInv, Typed, PackedType
<1>3. /\ r.pack = packed[i].pack /\ r.total = packed[i].pack
      /\ Holds(r.mem, i, packed[i].pass, packed[i].pack)
  BY DEF AInv, Whole, WholeRef
<1>4. Collected(r) = Units(i, packed[i].pass, packed[i].pack)
  BY <1>1, <1>2, <1>3, HeldUnits, SMTT(30) DEF Collected
<1>5. <<Header(i, d, r.pack)>> \o Collected(r) \o Trailer(i, d, r.pack) = Entry(i)
  BY <1>3, <1>4 DEF Entry
<1>6. Entry(i) \in Seq(Datum)
  BY <1>1, <1>2, EntryType
<1>7. r.pack \in Int /\ 0 \in Nat
  BY <1>2, <1>3
<1> DEFINE x == Header(i, d, r.pack)
           h == <<x>>
           u == Units(i, packed[i].pass, packed[i].pack)
           tr == Trailer(i, d, r.pack)
<1>8. x \in Datum /\ tr \in Seq(Datum)
  BY <1>1, <1>7, DatumFacts
<1>9. u \in Seq(Datum) /\ Len(u) = packed[i].pack
  BY <1>1, <1>2, UnitsFacts, ZenonT(40)
<1> HIDE DEF x, u, tr
<1>10. h \in Seq(Datum) /\ Len(h) = 1
  BY <1>8
<1> HIDE DEF h
<1>11. Len(h \o u \o tr) = 1 + packed[i].pack + Len(tr) /\ Len(tr) \in Nat
  <2> DEFINE c == h \o u
  <2>1. c \in Seq(Datum) /\ Len(c) = Len(h) + Len(u)
    <3>1. u \in Seq(Datum) /\ h \in Seq(Datum)
      BY <1>9, <1>10
    <3> QED
      BY <3>1, Joined
  <2> HIDE DEF c
  <2>2. Len(c \o tr) = Len(c) + Len(tr) /\ Len(tr) \in Nat
    BY <1>8, <2>1
  <2> QED
    BY <1>9, <1>10, <2>1, <2>2 DEF c
<1>12. Entry(i) = h \o u \o tr
  BY <1>4, <1>5 DEF h, u, x, tr
<1> QED
  BY <1>2, <1>3, <1>5, <1>6, <1>11, <1>12 DEF tr

LEMMA CopyFinishedAInv == ASSUME IInv, AInv, CopyFinished PROVE AInv'
<1>1. /\ main = "loop" /\ itemIndex <= NumItems /\ ~ Open(itemIndex) /\ items[itemIndex] = "file"
      /\ ~ refs[itemIndex].skip /\ refs[itemIndex].finished /\ Live
      /\ UNCHANGED <<items, seqOut, pc, info, stream, ready, threadIndices, packed>>
  BY DEF CopyFinished, Due, Open, requestVars, semVars, threadVars, Live
<1>2. /\ failures \in 0 .. MaxFaults /\ file \in Seq(Datum) /\ pos \in 0 .. Len(file)
      /\ curPos \in Nat /\ headerPos \in 0 .. curPos
      /\ \A i \in 1 .. NumItems : refs[i].mem \in Seq(Datum)
  BY DEF AInv, Typed
<1>3. PICK i \in itemIndex .. NumItems : i = itemIndex /\ i \in 1 .. NumItems
  BY <1>1, MainFacts
<1> DEFINE r == refs[itemIndex]
           d == Descriptor(r.seq)
           tail == Trailer(itemIndex, d, r.pack)
           s == <<Header(itemIndex, d, r.pack)>> \o Collected(r) \o tail
<1>4. /\ s = Entry(itemIndex) /\ s \in Seq(Datum) /\ Len(tail) \in Nat /\ r.pack \in Nat
      /\ Len(s) = 1 + r.pack + Len(tail)
  BY <1>1, <1>3, FinishedEntry
<1>5. \/ /\ WriteAt(pos, s) \/ WriteFails
         /\ headerPos' = curPos /\ curPos' = curPos + 1 + r.pack + Len(tail)
         /\ refs' = [refs EXCEPT ![itemIndex] = Emptied(@)]
         /\ lastReal' = Max({lastReal, itemIndex})
         /\ NextItem
      \/ WriteFails /\ Leave("write") /\ UNCHANGED <<itemIndex, refs, lastReal, curPos, headerPos>>
  BY DEF CopyFinished
<1> HIDE DEF r, d, tail, s
<1>6. CASE /\ WriteAt(pos, s) \/ WriteFails
           /\ headerPos' = curPos /\ curPos' = curPos + 1 + r.pack + Len(tail)
           /\ refs' = [refs EXCEPT ![itemIndex] = Emptied(@)]
           /\ lastReal' = Max({lastReal, itemIndex})
           /\ NextItem
  <2>1. curPos' \in Nat /\ headerPos' \in 0 .. curPos'
    BY <1>2, <1>4, <1>6, SMTT(30)
  <2>2. \A k \in 1 .. NumItems : /\ refs'[k].skip = refs[k].skip /\ refs'[k].seq = refs[k].seq
                                 /\ refs'[k].mem \in Seq(Datum)
                                 /\ k # itemIndex => refs'[k] = refs[k]
    <3>1. PICK V : Records(V)
      BY DEF IInv, Types
    <3>2. refs \in [1 .. NumItems -> RefType(V)] /\ refs[i] \in RefType(V)
      BY <1>3, <3>1 DEF Records
    <3> DEFINE e == Emptied(refs[i])
    <3>3. e.skip = refs[i].skip /\ e.seq = refs[i].seq /\ e.mem = <<>>
      BY <3>2 DEF Emptied, RefType
    <3>4. refs' = [refs EXCEPT ![i] = e]
      BY <1>3, <1>6
    <3> HIDE DEF e
    <3>5. <<>> \in Seq(Datum)
      OBVIOUS
    <3> QED
      BY <1>2, <1>3, <3>2, <3>3, <3>4, <3>5
  <2>3. lastReal' \in {lastReal, itemIndex}
    <3>1. lastReal \in Nat /\ itemIndex \in Nat
      BY <1>3, MainFacts DEF AInv, Typed
    <3> QED
      BY <1>6, <3>1, MaxOfTwo
  <2>4. /\ file' \in Seq(Datum) /\ pos' \in 0 .. Len(file') /\ failures' \in 0 .. MaxFaults
        /\ hres' = "ok" => hres = "ok"
        /\ hres' = "ok" /\ Settled =>
             file' = file \o Entry(itemIndex) /\ pos' = Len(file') /\ curPos' = Len(file')
    <3>1. CASE WriteAt(pos, s)
      <4>1. /\ file' \in Seq(Datum) /\ pos' \in 0 .. Len(file') /\ hres = "ok" /\ hres' = hres
            /\ failures' = failures
            /\ pos = Len(file) => file' = file \o s /\ pos' = Len(file')
                                  /\ Len(file') = Len(file) + Len(s)
        BY <1>4, <3>1, WriteAtFacts
      <4>2. ASSUME Settled
            PROVE  file' = file \o Entry(itemIndex) /\ pos' = Len(file') /\ curPos' = Len(file')
        <5>1. pos = Len(file) /\ curPos = Len(file) /\ Len(file) \in Nat
          BY <1>2, <4>2 DEF Settled
        <5>2. curPos' = Len(file) + Len(s)
          BY <1>4, <1>6, <5>1, SMTT(30)
        <5> QED
          BY <1>4, <4>1, <5>1, <5>2
      <4> QED
        BY <1>2, <4>1, <4>2
    <3>2. CASE WriteFails
      <4>1. failures' = failures \/ (\E k : MayFail(k) /\ failures' = failures + 1)
        BY <3>2 DEF WriteFails
      <4> QED
        BY <1>2, <3>2, <4>1, Failing DEF WriteFails
    <3> QED
      BY <1>6, <3>1, <3>2
  <2> QED
    BY <1>1, <1>6, <2>1, <2>2, <2>3, <2>4, NextAInv
<1>7. CASE WriteFails /\ Leave("write") /\ UNCHANGED <<itemIndex, refs, lastReal, curPos, headerPos>>
  <2>1. "write" \in Results \ {"ok"}
    BY DEF Results
  <2>2. failures' = failures \/ (\E k : MayFail(k) /\ failures' = failures + 1)
    BY <1>7 DEF WriteFails
  <2>3. UNCHANGED <<file, pos>> /\ hres' # "ok"
    BY <1>7 DEF WriteFails
  <2> QED
    BY <1>1, <1>7, <2>1, <2>2, <2>3, JustLeaves
<1> QED
  BY <1>5, <1>6, <1>7

LEMMA WriteCentralDirAInv == ASSUME IInv, AInv, WriteCentralDir PROVE AInv'
<1>1. /\ main = "loop" /\ itemIndex > NumItems /\ Live
      /\ UNCHANGED <<items, seqOut, pc, info, stream, ready, threadIndices, packed, lastReal, refs,
                     headerPos, itemIndex>>
  BY DEF WriteCentralDir, requestVars, semVars, threadVars, Live
<1>2. CASE WriteAt(pos, <<CentralDir>>) /\ curPos' = curPos + 1 /\ Leave("ok")
  <2> DEFINE x == CentralDir
             s == <<x>>
  <2>1. x \in Datum
    BY DatumFacts, MainFacts
  <2>2. WriteAt(pos, s)
    BY <1>2
  <2> HIDE DEF x
  <2>3. s \in Seq(Datum)
    BY <2>1
  <2> HIDE DEF s
  <2>4. /\ file' \in Seq(Datum) /\ pos' \in 0 .. Len(file') /\ hres = "ok" /\ hres' = hres
        /\ failures' = failures /\ (pos = Len(file) => file' = file \o s)
    BY <2>2, <2>3, WriteAtFacts
  <2>5. main' = "stop" /\ result' = "ok" /\ ~ Live' /\ NumItems' = NumItems /\ NumItems \in Nat
        /\ itemIndex = NumItems + 1
    BY <1>1, <1>2, MainFacts DEF Leave, Live, NumItems
  <2>6. curPos \in Nat /\ headerPos \in 0 .. curPos /\ lastReal \in 0 .. NumItems
    BY DEF AInv, Typed
  <2>7. Typed'
    <3>1. curPos' \in Nat /\ headerPos' \in 0 .. curPos'
      BY <1>1, <1>2, <2>6
    <3> QED
      BY <1>1, <2>4, <2>5, <3>1 DEF AInv, Typed, PackedType, Results
  <2>8. AllKept
    BY <1>1, SameIsKept
  <2>9. \A u \in Thread : Local(u)' /\ (Resting(u)' <=> Resting(u))
    BY <1>1, <2>8, KeptStays DEF AllKept, Kept1, AInv
  <2>10. threadIndices = <<>>
    <3>1. \A k \in 1 .. Len(threadIndices) : Item(k) \in itemIndex .. mtItemIndex - 1
      BY <1>1 DEF IInv, Items
    <3>2. itemIndex .. mtItemIndex - 1 = {}
      BY <2>5, MainFacts
    <3>3. threadIndices \in Seq(Thread) /\ ~ (1 \in 1 .. Len(threadIndices))
      BY <3>1, <3>2, MainFacts
    <3> QED
      BY <3>3
  <2>11. In(threadIndices) = {} /\ In(threadIndices)' = {}
    BY <1>1, <2>10 DEF In
  <2>12. \A u \in Thread : Resting(u)
    BY <2>11 DEF AInv, Rested
  <2>13. Rested'
    <3>1. Distinct(ready)'
      BY <1>1 DEF AInv, Rested, Distinct
    <3> QED
      BY <2>5, <2>9, <2>12, <3>1 DEF Rested
  <2>14. Whole' /\ Written'
    BY <2>5 DEF Whole, Written
  <2>15. Unlocks'
    BY <1>1, <2>11 DEF AInv, Unlocks
  <2>16. file' = Entries(NumItems) \o s
    <3>1. lastReal < itemIndex
      BY <2>5, <2>6
    <3>2. Settled
      BY <1>1, <2>4, <3>1 DEF AInv, Written
    <3>3. itemIndex - 1 = NumItems
      BY <2>5
    <3> QED
      BY <2>4, <3>2, <3>3 DEF Settled
  <2>17. Entries(NumItems)' = Entries(NumItems)
    <3>1. PICK n : n = NumItems
      OBVIOUS
    <3>2. Entries(n)' = Entries(n)
      BY <1>1, EntrySame, EntriesSame
    <3> QED
      BY <2>5, <3>1, <3>2
  <2>18. Over'
    <3>1. file' = (Entries(NumItems) \o <<CentralDir>>)'
      BY <2>16, <2>17 DEF s, x, CentralDir
    <3> QED
      BY <2>4, <2>5, <2>9, <2>12, <3>1 DEF Over
  <2> QED
    BY <2>7, <2>9, <2>13, <2>14, <2>15, <2>18 DEF AInv
<1>3. CASE WriteFails /\ Leave("write") /\ UNCHANGED curPos
  <2>1. "write" \in Results \ {"ok"}
    BY DEF Results
  <2>2. failures' = failures \/ (\E k : MayFail(k) /\ failures' = failures + 1)
    BY <1>3 DEF WriteFails
  <2>3. UNCHANGED <<file, pos>> /\ hres' # "ok"
    BY <1>3 DEF WriteFails
  <2> QED
    BY <1>1, <1>3, <2>1, <2>2, <2>3, JustLeaves
<1> QED
  BY <1>2, <1>3 DEF WriteCentralDir

\* All that AInv says when main has left the loop.
LEMMA StoppedAInv ==
  ASSUME IInv, AInv, ~ Live', Typed',
         UNCHANGED <<items, seqOut, ready, threadIndices, refs, packed, file>>,
         hres' = "ok" => hres = "ok",
         result' = "ok" => result = "ok" /\ hres' = "ok" /\ main' \in {"stop", "join", "done"},
         \A u \in Thread : /\ Local(u)' /\ (Resting(u) => Resting(u)')
                           /\ stream'[u].unlocked = stream[u].unlocked
                           /\ stream'[u].offset = stream[u].offset
                           /\ stream'[u].real = stream[u].real
                           /\ stream'[u].toReal = stream[u].toReal
  PROVE  AInv'
<1>1. NumItems' = NumItems /\ In(threadIndices)' = In(threadIndices)
  BY DEF NumItems, In
<1>2. Rested'
  <2>1. Distinct(ready)' /\ In(ready)' = In(ready)
    BY DEF AInv, Rested, Distinct, In
  <2> QED
    BY <1>1, <2>1 DEF AInv, Rested
<1>3. Whole' /\ Written'
  BY DEF Whole, Written
<1>4. Unlocks'
  <2>1. \A u \in In(threadIndices) : u \in Thread
    BY MainFacts DEF In
  <2> QED
    BY <1>1, <2>1 DEF AInv, Unlocks
<1>5. Over'
  <2>1. ASSUME result' = "ok"
        PROVE  /\ file' = (Entries(NumItems) \o <<CentralDir>>)' /\ \A u \in Thread : Resting(u)'
    <3>1. file = Entries(NumItems) \o <<CentralDir>> /\ \A u \in Thread : Resting(u)
      BY <2>1 DEF AInv, Over
    <3>2. PICK n : n = NumItems
      OBVIOUS
    <3>3. Entries(n)' = Entries(n)
      BY EntrySame, EntriesSame
    <3>4. Entries(NumItems)' = Entries(NumItems)
      BY <1>1, <3>2, <3>3
    <3> QED
      BY <3>1, <3>4 DEF CentralDir
  <2> QED
    BY <2>1 DEF Over
<1> QED
  BY <1>2, <1>3, <1>4, <1>5 DEF AInv

LEMMA StopThreadAInv == ASSUME IInv, AInv, StopThread PROVE AInv'
<1>0. /\ main = "stop" /\ main' = "join"
      /\ info' = [info EXCEPT ![stopping] = Exiting(info[stopping])]
      /\ stream' = [stream EXCEPT ![stopping].stop = TRUE]
      /\ UNCHANGED <<items, seqOut, pc, ready, refs, threadIndices, packed, lastReal, result, failures,
                     file, pos, hres, curPos, headerPos>>
  BY DEF StopThread, requestVars, semVars, poolVars, archiveVars
<1>1. PICK V : Records(V)
  BY DEF IInv, Types
<1>2. PICK t \in Thread : t = stopping
  BY <1>0, MainFacts
<1>3. info[t] \in InfoType(V) /\ stream[t] \in StreamType(V) /\ info \in [Thread -> InfoType(V)]
      /\ stream \in [Thread -> StreamType(V)] /\ NumItems' = NumItems /\ ~ Live'
  BY <1>0, <1>1 DEF Records, NumItems, Live
<1>4. /\ \A u \in Thread : u # t => info'[u] = info[u] /\ stream'[u] = stream[u]
      /\ info'[t] = Exiting(info[t])
  BY <1>0, <1>2, <1>3
<1>5. /\ info'[t].exit /\ info'[t].compress /\ SameCode(t) /\ info'[t].item = info[t].item
  <2> DEFINE d == Exiting(info[t])
  <2>1. /\ d.exit /\ d.compress /\ d.item = info[t].item /\ d.result = info[t].result
        /\ d.pass = info[t].pass /\ d.n = info[t].n /\ d.size = info[t].size /\ d.pack = info[t].pack
    BY <1>3 DEF Exiting, InfoType
  <2>2. info'[t] = d
    BY <1>4
  <2> HIDE DEF d
  <2> QED
    BY <2>1, <2>2 DEF SameCode
<1>6. SameData(t) /\ stream'[t].unlocked = stream[t].unlocked /\ stream'[t].offset = stream[t].offset
  <2> DEFINE d == [stream[t] EXCEPT !.stop = TRUE]
  <2>1. /\ d.real = stream[t].real /\ d.toReal = stream[t].toReal /\ d.unlocked = stream[t].unlocked
        /\ d.offset = stream[t].offset /\ d.cur = stream[t].cur /\ d.total = stream[t].total
        /\ d.mem = stream[t].mem
    BY <1>3 DEF StreamType
  <2>2. stream'[t] = d
    BY <1>0, <1>2, <1>3
  <2> HIDE DEF d
  <2> QED
    BY <2>1, <2>2 DEF SameData, SamePlace, SameMemory
<1>7. ASSUME NEW u \in Thread
      PROVE  /\ Local(u)' /\ (Resting(u) => Resting(u)')
             /\ stream'[u].unlocked = stream[u].unlocked
             /\ stream'[u].offset = stream[u].offset /\ SameData(u)
  <2>0. Local(u)
    BY DEF AInv
  <2>1. CASE u = t
    <3>1. Local(t)'
      BY <1>0, <1>3, <1>5, <1>6, <2>0, <2>1 DEF Local, Works, Collects, Holds, SameCode, SameData, SamePlace,
                             SameMemory
    <3>2. Resting(t) => Resting(t)'
      BY <1>0, <1>5 DEF Resting
    <3> QED
      BY <1>6, <2>1, <3>1, <3>2
  <2>2. CASE u # t
    <3>1. info'[u] = info[u] /\ stream'[u] = stream[u] /\ pc'[u] = pc[u]
      BY <1>0, <1>4, <2>2
    <3>2. SameWork(u)
      BY <3>1 DEF SameWork, SameCode, SameMemory
    <3> QED
      BY <1>0, <2>0, <3>1, <3>2, KeptStays DEF SameData, SamePlace, SameMemory
  <2> QED
    BY <2>1, <2>2
<1>8. Typed'
  BY <1>0, <1>3, <1>7 DEF AInv, Typed, PackedType, SameData, SameMemory
<1>9. result = "ok" => hres = "ok"
  BY DEF AInv, Over
<1> QED
  BY <1>0, <1>3, <1>7, <1>8, <1>9, StoppedAInv DEF SameData, SamePlace

LEMMA JoinThreadAInv == ASSUME IInv, AInv, JoinThread PROVE AInv'
<1>1. /\ UNCHANGED <<items, seqOut, pc, info, stream, ready, refs, threadIndices, packed, lastReal,
                     file, pos, curPos, headerPos>>
      /\ main = "join" /\ main' \in {"stop", "done"}
      /\ hres' \in {hres, "write"}
      /\ result' \in {result, hres, "write"}
      /\ result' = "ok" => result = "ok" /\ hres' = "ok"
  <2>1. result = "ok" => hres = "ok"
    BY DEF AInv, Over
  <2> QED
    BY <2>1 DEF JoinThread, requestVars, semVars, threadVars
<1>2. failures' = failures \/ (\E k : MayFail(k) /\ failures' = failures + 1)
  BY DEF JoinThread
<1>3. ~ Live' /\ NumItems' = NumItems /\ AllKept /\ failures' \in 0 .. MaxFaults
  BY <1>1, <1>2, SameIsKept, Failing DEF Live, NumItems
<1>4. Typed'
  <2>1. result' \in Results
    BY <1>1, MainFacts DEF AInv, Typed, Results
  <2> QED
    BY <1>1, <1>3, <2>1 DEF AInv, Typed, PackedType
<1>5. \A u \in Thread : Local(u)' /\ (Resting(u) => Resting(u)')
  BY <1>1, <1>3, KeptStays DEF AllKept, Kept1, AInv
<1> QED
  BY <1>1, <1>3, <1>4, <1>5, StoppedAInv

LEMMA UnlockedFields ==
  ASSUME NEW V, NEW s \in StreamType(V), NEW p, NEW z, z = Unlocked(s, p), ~ s.unlocked
  PROVE  /\ z.real = s.real /\ z.cur = s.cur /\ z.total = s.total /\ z.mem = s.mem
         /\ z.unlocked /\ z.offset = p
  BY DEF StreamType, Unlocked

\* The header of the front is written, and its thread may follow.
LEMMA FrontOpened ==
  ASSUME IInv, AInv, Live, lastReal < itemIndex, Open(itemIndex), itemIndex < mtItemIndex,
         WriteAt(pos, <<PreHeader(itemIndex, Descriptor(refs[itemIndex].seq))>>),
         headerPos' = curPos, curPos' = curPos + 1, lastReal' = itemIndex,
         Unlock(Head(threadIndices), curPos'), GoOn("wait"),
         UNCHANGED <<items, seqOut, itemIndex, mtItemIndex, threadIndices, refs, ready, pc, info, packed>>
  PROVE  AInv'
<1>1. PICK h \in Thread : h = Head(threadIndices) /\ threadIndices # <<>>
  BY HeadIsDue
<1>2. /\ itemIndex \in 1 .. NumItems /\ NumItems' = NumItems /\ NumItems \in Nat /\ Live'
      /\ main' = "wait" /\ result' = result
  BY HeadIsDue, MainFacts DEF NumItems, Live, GoOn
<1>3. PICK V : Records(V)
  BY DEF IInv, Types
<1>4. stream[h] \in StreamType(V) /\ stream \in [Thread -> StreamType(V)]
  BY <1>3 DEF Records
<1>5. \A u \in In(threadIndices) : ~ stream[u].unlocked
  <2>1. lastReal # itemIndex
    BY <1>2 DEF AInv, Typed
  <2> QED
    BY <2>1 DEF AInv, Unlocks
<1>6. h \in In(threadIndices) /\ ~ stream[h].unlocked /\ ~ stream[h].real
  BY <1>1, <1>5, HeadIsDue DEF AInv, Unlocks
<1>7. /\ stream'[h].real = stream[h].real /\ SameMemory(h)
      /\ stream'[h].unlocked /\ stream'[h].offset = curPos'
      /\ \A u \in Thread : u # h => stream'[u] = stream[u]
  <2> DEFINE d == Unlocked(stream[h], curPos')
  <2>1. /\ d.real = stream[h].real /\ d.cur = stream[h].cur /\ d.total = stream[h].total
        /\ d.mem = stream[h].mem /\ d.unlocked /\ d.offset = curPos'
    BY <1>4, <1>6, UnlockedFields
  <2>2. stream' = [stream EXCEPT ![h] = d]
    BY <1>1 DEF Unlock
  <2> HIDE DEF d
  <2> QED
    BY <1>4, <2>1, <2>2 DEF SameMemory
<1>8. \A u \in Thread : SameWork(u)
  BY <1>7 DEF SameWork, SameCode, SameMemory
<1>9. /\ hres = "ok" /\ hres' = "ok" /\ Settled /\ lastReal \in 0 .. NumItems /\ curPos \in Nat
      /\ file \in Seq(Datum)
  BY DEF WriteAt, AInv, Written, Typed
<1>10. /\ file' = Headed /\ pos' = Len(file') /\ curPos' = Len(file') /\ file' \in Seq(Datum)
       /\ failures' = failures
  <2> DEFINE x == PreHeader(itemIndex, Descriptor(refs[itemIndex].seq))
             s == <<x>>
  <2>1. x \in Datum
    BY <1>2, HeadedFacts
  <2>2. WriteAt(pos, s)
    OBVIOUS
  <2> HIDE DEF x
  <2>3. s \in Seq(Datum) /\ Len(s) = 1
    BY <2>1
  <2> HIDE DEF s
  <2>4. /\ file' \in Seq(Datum) /\ failures' = failures
        /\ pos = Len(file) => file' = file \o s /\ pos' = Len(file') /\ Len(file') = Len(file) + Len(s)
    BY <2>2, <2>3, WriteAtFacts
  <2>5. pos = Len(file) /\ curPos = Len(file) /\ file = Entries(itemIndex - 1)
    BY <1>9 DEF Settled
  <2>6. Headed = Entries(itemIndex - 1) \o s
    BY DEF Headed, s, x
  <2>7. curPos' = Len(file')
    BY <2>3, <2>4, <2>5
  <2> QED
    BY <2>4, <2>5, <2>6, <2>7
<1>11. Headed' = Headed /\ Open(itemIndex)'
  <2>1. \A i \in 1 .. itemIndex : i <= NumItems =>
            refs'[i].skip = refs[i].skip /\ refs'[i].seq = refs[i].seq
    OBVIOUS
  <2> QED
    BY <1>2, <2>1, PastStays DEF Open
<1>12. Typed'
  <2>1. \A u \in Thread : stream'[u].mem \in Seq(Datum)
    BY <1>8 DEF SameWork, SameMemory, AInv, Typed
  <2>2. pos' \in 0 .. Len(file') /\ headerPos' \in 0 .. curPos' /\ curPos' \in Nat
    BY <1>9, <1>10
  <2>3. lastReal' \in 0 .. NumItems
    BY <1>2
  <2> QED
    BY <1>2, <1>10, <2>1, <2>2, <2>3 DEF AInv, Typed, PackedType
<1>13. \A u \in Thread : Local(u)' /\ (Resting(u)' <=> Resting(u))
  BY <1>8, KeptStays DEF AInv
<1>14. Rested'
  <2>1. Distinct(ready)' /\ In(ready)' = In(ready) /\ In(threadIndices)' = In(threadIndices)
    BY DEF AInv, Rested, Distinct, In
  <2>2. \A u \in Thread : ~ info[u].exit /\ pc[u] # "ended"
    BY DEF AInv, Rested
  <2> QED
    BY <1>13, <2>1, <2>2 DEF AInv, Rested
<1>15. Whole'
  <2>1. \A i \in itemIndex' .. NumItems :
           /\ refs'[i].finished => refs[i].finished /\ refs'[i].pack = refs[i].pack
           /\ refs'[i].total = refs[i].total /\ refs'[i].mem = refs[i].mem
    OBVIOUS
  <2> QED
    BY <1>8, <1>9, <2>1, WholeStays
<1>16. Unlocks'
  <2>1. \A u \in Thread : stream'[u].real \/ stream'[u].toReal => stream'[u].unlocked
    BY <1>7 DEF AInv, Unlocks
  <2>2. ASSUME NEW u \in In(threadIndices), stream'[u].unlocked
        PROVE  u = Head(threadIndices) /\ stream'[u].offset \in 0 .. Len(file')
    <3>1. u \in Thread
      BY MainFacts DEF In
    <3>2. u = h
      BY <1>5, <1>7, <2>2, <3>1
    <3>3. Len(file') \in Nat
      BY <1>10
    <3> QED
      BY <1>1, <1>7, <1>10, <3>2, <3>3
  <2>3. In(threadIndices)' = In(threadIndices)
    BY DEF In
  <2> QED
    BY <1>2, <2>1, <2>2, <2>3 DEF Unlocks
<1>17. Written'
  <2>1. FrontAt(h, 0)'
    <3>1. Units(itemIndex, info[h].pass, 0) = <<>>
      BY DEF Units
    <3>2. Headed \o <<>> = Headed
      BY <1>10
    <3>3. file' = Headed' \o Units(itemIndex', info'[h].pass, 0)
      BY <1>10, <1>11, <3>1, <3>2
    <3>4. ~ stream'[h].real
      BY <1>6, <1>7
    <3> QED
      BY <3>3, <3>4 DEF FrontAt
  <2>2. Head(threadIndices)' = h /\ 0 \in 0 .. MaxSize'
    BY <1>1, MaxSizeFacts DEF MaxSize
  <2>3. FrontAt(Head(threadIndices), 0)'
    BY <2>1, <2>2 DEF FrontAt, Works, Done
  <2>4. Fronted'
    <3>1. curPos' = Len(Headed') /\ headerPos' + 1 = curPos' /\ pos' = Len(file')
      BY <1>10, <1>11
    <3>2. stream'[Head(threadIndices')].offset = curPos'
      BY <1>1, <1>7
    <3> QED
      BY <2>2, <2>3, <3>1, <3>2 DEF Fronted
  <2>5. lastReal' = itemIndex' /\ lastReal' <= itemIndex' /\ ~ (lastReal' < itemIndex')
    BY <1>2
  <2>6. stream'[Head(threadIndices')].unlocked
    BY <1>1, <1>7
  <2> QED
    BY <1>1, <1>11, <2>4, <2>5, <2>6 DEF Written
<1>18. Over'
  BY <1>2 DEF AInv, Over, Live
<1> QED
  BY <1>12, <1>13, <1>14, <1>15, <1>16, <1>17, <1>18 DEF AInv

LEMMA OpenFrontAInv == ASSUME IInv, AInv, OpenFront PROVE AInv'
<1>1. /\ main = "loop" /\ itemIndex <= NumItems /\ Live /\ itemIndex < mtItemIndex /\ Open(itemIndex)
      /\ UNCHANGED <<items, seqOut, itemIndex, mtItemIndex, threadIndices, refs, ready, pc, info, packed>>
  BY DueFacts DEF OpenFront, Due, Open, requestVars, semVars, Live
<1>2. threadIndices # <<>> /\ itemIndex \in 1 .. NumItems /\ NumItems' = NumItems
  BY <1>1, HeadIsDue DEF NumItems
<1>3. CASE /\ lastReal < itemIndex
           /\ WriteAt(pos, <<PreHeader(itemIndex, Descriptor(refs[itemIndex].seq))>>)
           /\ headerPos' = curPos /\ curPos' = curPos + 1 /\ lastReal' = itemIndex
           /\ Unlock(Head(threadIndices), curPos') /\ GoOn("wait")
  BY <1>1, <1>3, FrontOpened
<1>4. CASE /\ lastReal >= itemIndex
           /\ Unlock(Head(threadIndices), curPos) /\ GoOn("wait")
           /\ UNCHANGED <<archiveVars, failures, lastReal>>
  <2>1. lastReal = itemIndex
    <3>1. lastReal <= itemIndex /\ lastReal \in Int /\ itemIndex \in Int
      BY <1>1, <1>2 DEF AInv, Written, Typed
    <3> QED
      BY <1>4, <3>1
  <2>2. stream[Head(threadIndices)].unlocked
    BY <1>1, <2>1 DEF AInv, Written
  <2>3. stream' = stream
    <3>1. PICK V : Records(V)
      BY DEF IInv, Types
    <3>2. stream \in [Thread -> StreamType(V)]
      BY <3>1 DEF Records
    <3>3. stream' = [stream EXCEPT ![Head(threadIndices)] = stream[Head(threadIndices)]]
      BY <1>4, <2>2 DEF Unlock, Unlocked
    <3> QED
      BY <3>2, <3>3
  <2>4. /\ UNCHANGED <<file, pos, hres, curPos, headerPos, failures, lastReal>> /\ AllKept
        /\ main' = "wait" /\ result' = result /\ Live'
    BY <1>1, <1>4, <2>3, SameIsKept DEF archiveVars, GoOn, Live
  <2>5. Typed'
    BY <1>1, <1>2, <2>3, <2>4 DEF AInv, Typed, PackedType
  <2>6. Whole'
    <3>1. \A i \in itemIndex' .. NumItems :
             /\ refs'[i].finished => refs[i].finished /\ refs'[i].pack = refs[i].pack
             /\ refs'[i].total = refs[i].total /\ refs'[i].mem = refs[i].mem
      BY <1>1
    <3> QED
      BY <1>1, <2>4, <3>1, WholeStays DEF AllKept, Kept1
  <2>7. Written'
    <3>1. Headed' = Headed /\ Open(itemIndex)'
      <4>1. \A i \in 1 .. itemIndex : i <= NumItems =>
                refs'[i].skip = refs[i].skip /\ refs'[i].seq = refs[i].seq
        BY <1>1
      <4> QED
        BY <1>1, <4>1, PastStays DEF Open
    <3>2. hres = "ok" => Fronted
      BY <1>1, <2>1 DEF AInv, Written
    <3>3. Fronted => Fronted'
      BY <1>1, <2>3, <2>4, <3>1 DEF Fronted, FrontAt, Works, Done, MaxSize
    <3>4. lastReal' = itemIndex' /\ lastReal' <= itemIndex' /\ ~ (lastReal' < itemIndex')
      BY <1>1, <1>2, <2>1, <2>4
    <3> QED
      BY <1>1, <1>2, <2>2, <2>3, <2>4, <3>1, <3>2, <3>3, <3>4 DEF Written
  <2>8. \A u \in In(threadIndices) : stream[u].unlocked =>
            lastReal' = itemIndex' /\ (hres' = "ok" => stream[u].offset \in 0 .. Len(file'))
    BY <1>1, <2>1, <2>4 DEF AInv, Unlocks
  <2> QED
    BY <1>1, <2>4, <2>5, <2>6, <2>7, <2>8, GoingOn
<1>5. CASE /\ lastReal < itemIndex /\ WriteFails /\ Leave("write")
           /\ UNCHANGED <<curPos, headerPos, lastReal, stream>>
  <2>1. "write" \in Results \ {"ok"}
    BY DEF Results
  <2>2. failures' = failures \/ (\E k : MayFail(k) /\ failures' = failures + 1)
    BY <1>5 DEF WriteFails
  <2>3. UNCHANGED <<file, pos>> /\ hres' # "ok"
    BY <1>5 DEF WriteFails
  <2> QED
    BY <1>1, <1>5, <2>1, <2>2, <2>3, JustLeaves
<1> QED
  BY <1>2, <1>3, <1>4, <1>5 DEF OpenFront

LEMMA FreshFields ==
  ASSUME NEW V, NEW s \in StreamType(V), NEW z, z = Fresh(s)
  PROVE  ~ z.real /\ ~ z.toReal /\ ~ z.unlocked /\ z.cur = 0 /\ z.total = 0 /\ z.mem = <<>>
  BY DEF StreamType, Fresh, NoStream

LEMMA GivenFields ==
  ASSUME NEW V, NEW i \in InfoType(V), NEW m, NEW q, NEW z, z = Given(i, m, q)
  PROVE  /\ z.compress /\ z.item = m /\ z.exit = i.exit /\ z.result = i.result /\ z.n = i.n
         /\ z.size = i.size
  BY DEF InfoType, Given

LEMMA AppendedIn ==
  ASSUME NEW s \in Seq(Thread), NEW t \in Thread, NEW r, r = Append(s, t)
  PROVE  /\ In(r) = In(s) \cup {t} /\ r # <<>>
         /\ s # <<>> => Head(r) = Head(s)
<1>1. PICK n \in Nat : n = Len(s)
  OBVIOUS
<1>2. r \in Seq(Thread) /\ Len(r) = n + 1 /\ r[n + 1] = t /\ \A k \in 1 .. n : r[k] = s[k]
  BY <1>1
<1>3. \A k \in 1 .. n + 1 : k \in 1 .. n \/ k = n + 1
  OBVIOUS
<1>4. ASSUME NEW x PROVE x \in In(r) <=> x \in In(s) \cup {t}
  <2>1. n + 1 \in 1 .. n + 1 /\ \A k \in 1 .. n : k \in 1 .. n + 1
    OBVIOUS
  <2> QED
    BY <1>1, <1>2, <1>3, <2>1 DEF In
<1>5. s # <<>> => Head(r) = Head(s)
  BY <1>1, <1>2
<1>6. r # <<>>
  BY <1>2
<1> QED
  BY <1>4, <1>5, <1>6

\* A file is given to a thread that rests.
LEMMA StartFileAInv == ASSUME IInv, AInv, StartFile PROVE AInv'
<1>0. /\ main = "loop" /\ Live /\ Live' /\ itemIndex <= mtItemIndex /\ mtItemIndex <= NumItems
      /\ mtItemIndex' = mtItemIndex + 1 /\ itemIndex <= NumItems
      /\ UNCHANGED <<items, seqOut, main, itemIndex, result, lastReal, pc, ready, packed, failures,
                     file, pos, hres, curPos, headerPos>>
  BY DEF StartFile, MayStart, Live, IInv, Items, requestVars, semVars, archiveVars
<1>1. PICK m \in 1 .. NumItems : m = mtItemIndex
  BY <1>0, MainFacts
<1>2. PICK V : Records(V)
  BY DEF IInv, Types
<1>3. PICK t \in FreeThreads, q \in BOOLEAN :
        /\ refs' = [refs EXCEPT ![m].seq = q]
        /\ info' = [info EXCEPT ![t] = Given(info[t], m, q)]
        /\ stream' = [stream EXCEPT ![t] = Fresh(stream[t])]
        /\ threadIndices' = Append(threadIndices, t)
  <2>1. FreeThreads \subseteq Nat /\ FreeThreads # {}
    BY DEF StartFile, FreeThreads, Thread
  <2>2. Min(FreeThreads) \in FreeThreads
    BY <2>1, LeastIsMin
  <2> QED
    BY <1>1, <2>2 DEF StartFile
<1>4. t \in Thread /\ info[t].free
  BY DEF FreeThreads
<1>5. /\ info[t] \in InfoType(V) /\ stream[t] \in StreamType(V)
      /\ refs \in [1 .. NumItems -> RefType(V)]
      /\ info \in [Thread -> InfoType(V)] /\ stream \in [Thread -> StreamType(V)]
  BY <1>2, <1>4 DEF Records
<1>6. t \notin In(threadIndices) /\ t \notin In(ready)
  BY <1>0, <1>4 DEF IInv, Threads, Placed
<1>7. pc[t] \in {"post", "idle"} /\ ~ info[t].exit
  BY <1>0, <1>4, <1>6 DEF AInv, Rested, Resting
<1>8. /\ info'[t].compress /\ info'[t].item = m /\ info'[t].exit = info[t].exit
      /\ info'[t].result = info[t].result /\ info'[t].n = info[t].n /\ info'[t].size = info[t].size
      /\ \A u \in Thread : u # t => info'[u] = info[u]
  <2> DEFINE d == Given(info[t], m, q)
  <2>1. /\ d.compress /\ d.item = m /\ d.exit = info[t].exit
        /\ d.result = info[t].result /\ d.n = info[t].n /\ d.size = info[t].size
    BY <1>5, GivenFields
  <2> HIDE DEF d
  <2>2. info' = [info EXCEPT ![t] = d]
    BY <1>3 DEF d
  <2> QED
    BY <1>4, <1>5, <2>1, <2>2
<1>9. /\ ~ stream'[t].real /\ ~ stream'[t].toReal /\ ~ stream'[t].unlocked
      /\ stream'[t].cur = 0 /\ stream'[t].total = 0 /\ stream'[t].mem = <<>>
      /\ \A u \in Thread : u # t => stream'[u] = stream[u]
  <2> DEFINE d == Fresh(stream[t])
  <2>1. ~ d.real /\ ~ d.toReal /\ ~ d.unlocked /\ d.cur = 0 /\ d.total = 0 /\ d.mem = <<>>
    BY <1>5, FreshFields
  <2> HIDE DEF d
  <2>2. stream' = [stream EXCEPT ![t] = d]
    BY <1>3 DEF d
  <2> QED
    BY <1>4, <1>5, <2>1, <2>2
<1>10. \A i \in 1 .. NumItems :
        /\ refs'[i].finished = refs[i].finished /\ refs'[i].pack = refs[i].pack
        /\ refs'[i].total = refs[i].total /\ refs'[i].mem = refs[i].mem
        /\ refs'[i].skip = refs[i].skip /\ (i # m => refs'[i] = refs[i])
  <2> DEFINE r == refs[m]
             d == [r EXCEPT !.seq = q]
  <2>1. /\ d.finished = r.finished /\ d.pack = r.pack /\ d.total = r.total /\ d.mem = r.mem
        /\ d.skip = r.skip
    BY <1>5 DEF RefType
  <2>2. refs' = [refs EXCEPT ![m] = d]
    BY <1>3
  <2> HIDE DEF d
  <2> QED
    BY <1>5, <2>1, <2>2
<1>11. /\ In(threadIndices)' = In(threadIndices) \cup {t} /\ threadIndices' # <<>>
       /\ threadIndices # <<>> => Head(threadIndices') = Head(threadIndices)
  <2>0. PICK s \in Seq(Thread) : s = threadIndices
    BY MainFacts
  <2>1. PICK r : r = threadIndices' /\ r = Append(s, t)
    BY <1>3, <2>0
  <2>2. In(r) = In(s) \cup {t} /\ r # <<>> /\ (s # <<>> => Head(r) = Head(s))
    BY <1>4, <2>1, AppendedIn
  <2>3. In(threadIndices)' = In(r)
    BY <2>1 DEF In
  <2> QED
    BY <2>0, <2>1, <2>2, <2>3
<1>12. NumItems' = NumItems /\ NumItems \in Nat /\ itemIndex \in 1 .. NumItems
  BY <1>0, MainFacts DEF NumItems
<1>13. \A u \in Thread : u # t => SameWork(u)
  BY <1>0, <1>8, <1>9 DEF SameWork, SameCode, SameMemory
<1>14. Typed'
  <2>1. <<>> \in Seq(Datum)
    OBVIOUS
  <2>2. \A u \in Thread : stream'[u].mem \in Seq(Datum)
    BY <1>9, <2>1 DEF AInv, Typed
  <2> QED
    BY <1>0, <1>10, <1>12, <2>2 DEF AInv, Typed, PackedType
<1>15. ASSUME NEW u \in Thread PROVE Local(u)'
  <2>0. Local(u)
    BY DEF AInv
  <2>1. CASE u # t
    BY <1>0, <1>13, <2>0, <2>1, KeptStays
  <2>2. CASE u = t
    <3>1. 0 <= MaxSize' /\ info'[t].item \in 0 .. NumItems'
      BY <1>8, <1>12, MaxSizeFacts DEF MaxSize
    <3>2. ~ Works(t)'
      BY <1>0, <1>7 DEF Works
    <3> QED
      BY <1>0, <1>7, <1>8, <1>9, <2>0, <2>2, <3>1, <3>2 DEF Local
  <2> QED
    BY <2>1, <2>2
<1>16. Rested'
  <2>1. Distinct(ready)' /\ In(ready)' = In(ready)
    BY <1>0 DEF AInv, Rested, Distinct, In
  <2>2. ASSUME NEW u \in Thread, u \in In(ready)' \/ u \notin In(threadIndices)' PROVE Resting(u)'
    <3>1. u # t /\ (u \in In(ready) \/ u \notin In(threadIndices))
      BY <1>6, <1>11, <2>1, <2>2
    <3>2. Resting(u) /\ SameWork(u)
      BY <1>13, <3>1 DEF AInv, Rested
    <3> QED
      BY <1>0, <3>2, KeptStays
  <2>3. \A u \in Thread : ~ info'[u].exit /\ pc'[u] # "ended"
    BY <1>0, <1>8 DEF AInv, Rested
  <2> QED
    BY <2>1, <2>2, <2>3 DEF Rested
<1>17. Whole'
  <2>1. ASSUME NEW u \in In(threadIndices)', Done(u)' PROVE WholeIn(u, packed[info[u].item])'
    <3>1. u # t
      BY <1>8, <2>1 DEF Done
    <3>2. u \in In(threadIndices)
      BY <1>11, <3>1
    <3>3. u \in Thread
      BY <3>2, MainFacts DEF In
    <3>4. SameWork(u) /\ Done(u)
      BY <1>0, <1>13, <2>1, <3>1, <3>3, KeptStays
    <3>5. WholeIn(u, packed[info[u].item])
      BY <1>0, <3>2, <3>4 DEF AInv, Whole
    <3> QED
      BY <1>0, <3>4, <3>5 DEF SameWork, SameCode, SameMemory, WholeIn, Holds
  <2>2. ASSUME NEW i \in itemIndex .. NumItems, refs'[i].finished PROVE WholeRef(i, packed[i])'
    <3>1. i \in 1 .. NumItems
      BY <1>12
    <3>2. WholeRef(i, packed[i])
      BY <1>0, <1>10, <2>2, <3>1 DEF AInv, Whole
    <3> QED
      BY <1>0, <1>10, <3>1, <3>2 DEF WholeRef, Holds
  <2> QED
    BY <1>0, <1>12, <2>1, <2>2 DEF Whole
<1>18. Unlocks'
  <2>1. \A u \in Thread : stream'[u].real \/ stream'[u].toReal => stream'[u].unlocked
    BY <1>9 DEF AInv, Unlocks
  <2>2. ASSUME NEW u \in In(threadIndices)', stream'[u].unlocked
        PROVE  /\ u = Head(threadIndices') /\ lastReal' = itemIndex'
               /\ hres' = "ok" => stream'[u].offset \in 0 .. Len(file')
    <3>1. u # t /\ u \in In(threadIndices)
      BY <1>9, <1>11, <2>2
    <3>2. u \in Thread /\ threadIndices # <<>>
      BY <3>1, MainFacts DEF In
    <3>3. stream'[u] = stream[u]
      BY <1>9, <3>1, <3>2
    <3> QED
      BY <1>0, <1>11, <2>2, <3>1, <3>2, <3>3 DEF AInv, Unlocks
  <2> QED
    BY <2>1, <2>2 DEF Unlocks
<1>19. Entries(itemIndex - 1)' = Entries(itemIndex - 1)
  <2>1. PICK n \in Nat : n = itemIndex - 1 /\ n < m /\ n <= NumItems
    BY <1>0, <1>1, <1>12
  <2>2. ASSUME NEW i \in 1 .. n PROVE Entry(i)' = Entry(i)
    <3>1. i \in 1 .. NumItems /\ i # m
      BY <1>12, <2>1
    <3>2. refs'[i] = refs[i]
      BY <1>10, <3>1
    <3> QED
      BY <1>0, <3>2, EntrySame
  <2>3. Entries(n)' = Entries(n)
    BY <2>2, EntriesSame
  <2> QED
    BY <1>0, <2>1, <2>3
<1>20. Written'
  <2>1. lastReal <= itemIndex /\ main # "wait"
    BY <1>0 DEF AInv, Written
  <2>2. ASSUME lastReal = itemIndex
        PROVE  /\ Open(itemIndex)' /\ itemIndex < mtItemIndex'
               /\ stream'[Head(threadIndices')].unlocked
               /\ hres = "ok" => Fronted'
    <3>1. /\ Open(itemIndex) /\ itemIndex < mtItemIndex
          /\ threadIndices # <<>> /\ stream[Head(threadIndices)].unlocked
          /\ hres = "ok" => Fronted
      BY <1>0, <2>2 DEF AInv, Written
    <3>2. PICK h \in Thread : h = Head(threadIndices) /\ h \in In(threadIndices)
      BY <1>0, <3>1, HeadIsDue
    <3>3. h # t /\ Head(threadIndices') = h
      BY <1>6, <1>11, <3>1, <3>2
    <3>4. stream'[h] = stream[h] /\ info'[h] = info[h] /\ pc'[h] = pc[h]
      BY <1>0, <1>8, <1>9, <3>3
    <3>5. refs'[itemIndex] = refs[itemIndex] /\ itemIndex < mtItemIndex'
      BY <1>0, <1>1, <1>10, <1>12, <3>1
    <3>6. Headed' = Headed /\ Open(itemIndex)'
      BY <1>0, <1>19, <3>1, <3>5 DEF Headed, PreHeader, Header, Descriptor, Open
    <3>7. ASSUME Fronted PROVE Fronted'
      <4>1. PICK n \in 0 .. MaxSize : FrontAt(h, n)
        BY <3>2, <3>7 DEF Fronted
      <4>2. FrontAt(Head(threadIndices), n)'
        BY <1>0, <3>3, <3>4, <3>6, <4>1 DEF FrontAt, Works, Done
      <4>3. MaxSize' = MaxSize
        BY DEF MaxSize
      <4> QED
        BY <1>0, <3>2, <3>3, <3>4, <3>6, <3>7, <4>2, <4>3 DEF Fronted
    <3> QED
      BY <3>1, <3>2, <3>3, <3>4, <3>5, <3>6, <3>7
  <2>3. ASSUME lastReal < itemIndex, hres = "ok" PROVE Settled'
    <3>1. Settled
      BY <1>0, <2>3 DEF AInv, Written
    <3> QED
      BY <1>0, <1>19, <3>1 DEF Settled
  <2> QED
    BY <1>0, <1>11, <2>1, <2>2, <2>3 DEF Written
<1>21. Over'
  BY <1>0 DEF AInv, Over, Live
<1> QED
  BY <1>14, <1>15, <1>16, <1>17, <1>18, <1>20, <1>21 DEF AInv

LEMMA FreedFields ==
  ASSUME NEW V, NEW i \in InfoType(V), NEW z, z = [i EXCEPT !.free = TRUE]
  PROVE  /\ z.exit = i.exit /\ z.compress = i.compress /\ z.item = i.item /\ z.pass = i.pass
         /\ z.n = i.n /\ z.size = i.size /\ z.result = i.result /\ z.pack = i.pack
  BY DEF InfoType

\* The thread that main takes has finished, and rests; the list goes on without it.
LEMMA TakenFacts ==
  ASSUME IInv, AInv, NEW t \in Thread, Taken(t)
  PROVE  /\ Live /\ lastReal = itemIndex /\ t \in In(threadIndices) /\ t \in In(ready)
         /\ Resting(t) /\ ~ Works(t) /\ ~ info[t].compress /\ (info[t].result = "ok" => Done(t))
         /\ Distinct(ready)' /\ t \notin In(ready)' /\ In(ready)' \subseteq In(ready)
         /\ threadIndices \in Seq(Thread) /\ Distinct(threadIndices)
         /\ At(t) # 0 /\ (At(t) = 1 <=> t = Head(threadIndices))
<1>1. /\ main = "wait" /\ readySem > 0 /\ t = Head(ready) /\ ready' = Tail(ready)
  BY DEF Taken
<1>2. /\ ready # <<>> /\ t \in In(threadIndices) /\ ~ info[t].compress
      /\ Distinct(ready) /\ Distinct(threadIndices) /\ ready \in Seq(Thread)
  BY <1>1, ReadyFacts
<1>3. /\ t \in In(ready) /\ Distinct(Tail(ready))
      /\ \A u \in In(Tail(ready)) : u \in In(ready) /\ u # t
  BY <1>1, <1>2, TailFacts
<1>4. Distinct(ready)' /\ In(ready)' = In(Tail(ready))
  <2>1. PICK s : s = Tail(ready) /\ ready' = s
    BY <1>1
  <2>2. Distinct(s)
    BY <1>3, <2>1
  <2> QED
    BY <2>1, <2>2 DEF Distinct, In
<1>5. Resting(t) /\ Live /\ lastReal = itemIndex
  <2>1. Live
    BY <1>1 DEF Live
  <2> QED
    BY <1>1, <1>3, <2>1 DEF AInv, Rested, Written
<1>6. ~ Works(t) /\ (info[t].result = "ok" => Done(t))
  BY <1>2, <1>5 DEF Works, Resting, Done
<1>7. threadIndices \in Seq(Thread)
  BY MainFacts
<1>8. At(t) \in 1 .. Len(threadIndices) /\ threadIndices[At(t)] = t
  BY <1>2, <1>7, AtFacts
<1>9. threadIndices # <<>> /\ Head(threadIndices) = threadIndices[1] /\ 1 \in 1 .. Len(threadIndices)
  BY <1>7, <1>8
<1>10. At(t) = 1 <=> t = Head(threadIndices)
  BY <1>2, <1>8, <1>9 DEF Distinct
<1> QED
  BY <1>2, <1>3, <1>4, <1>5, <1>6, <1>7, <1>8, <1>10

LEMMA TakenInfo ==
  ASSUME IInv, NEW t \in Thread, Taken(t)
  PROVE  /\ pc' = pc
         /\ \A u \in Thread :
              /\ SameCode(u) /\ info'[u].item = info[u].item
              /\ info'[u].exit = info[u].exit /\ info'[u].compress = info[u].compress
<1>1. PICK V : Records(V)
  BY DEF IInv, Types
<1>2. info \in [Thread -> InfoType(V)] /\ info[t] \in InfoType(V) /\ pc' = pc
  BY <1>1 DEF Records, Taken
<1> DEFINE d == [info[t] EXCEPT !.free = TRUE]
<1>3. /\ d.exit = info[t].exit /\ d.compress = info[t].compress /\ d.item = info[t].item
      /\ d.pass = info[t].pass /\ d.n = info[t].n /\ d.size = info[t].size
      /\ d.result = info[t].result /\ d.pack = info[t].pack
  BY <1>2, FreedFields
<1>4. info' = [info EXCEPT ![t] = d]
  BY DEF Taken
<1> HIDE DEF d
<1> QED
  BY <1>2, <1>3, <1>4 DEF SameCode

\* The update fails as it takes it.
LEMMA TakenLeaves ==
  ASSUME IInv, AInv, NEW t \in Thread, Taken(t), NEW r \in Results \ {"ok"}, Leave(r),
         threadIndices' = threadIndices \/ (threadIndices' = Removed(t) /\ At(t) = 1),
         UNCHANGED <<file, pos, curPos, headerPos, packed, refs, lastReal, stream>>,
         failures' = failures \/ (\E k : MayFail(k) /\ failures' = failures + 1),
         hres' = "ok" => hres = "ok"
  PROVE  AInv'
<1>1. AllKept
  BY TakenInfo DEF AllKept, Kept1, SameWork, SameMemory
<1>2. /\ t \in In(threadIndices) /\ t \in In(ready)
      /\ Distinct(ready)' /\ In(ready)' \subseteq In(ready)
      /\ threadIndices \in Seq(Thread) /\ Distinct(threadIndices)
      /\ At(t) = 1 <=> t = Head(threadIndices)
  BY TakenFacts
<1>3. /\ \A u \in Thread : u \in In(threadIndices) => u \in In(threadIndices)' \/ u \in In(ready)
      /\ \A u \in In(threadIndices)' : u \in In(threadIndices)
             /\ (stream[u].unlocked => u = Head(threadIndices'))
  <2>1. CASE threadIndices' = threadIndices
    <3>1. In(threadIndices)' = In(threadIndices)
      BY <2>1 DEF In
    <3> QED
      BY <2>1, <3>1 DEF AInv, Unlocks
  <2>2. CASE threadIndices' = Removed(t) /\ At(t) = 1
    <3>1. \A u : u \in In(Removed(t)) <=> u \in In(threadIndices) /\ u # t
      BY <1>2, RemovedSet
    <3>2. PICK s : s = Removed(t) /\ threadIndices' = s
      BY <2>2
    <3>3. In(threadIndices)' = In(s)
      BY <3>2 DEF In
    <3>4. \A u : u \in In(threadIndices)' <=> u \in In(threadIndices) /\ u # t
      BY <3>1, <3>2, <3>3
    <3>5. \A u \in In(threadIndices) : stream[u].unlocked => u = t
      BY <1>2, <2>2 DEF AInv, Unlocks
    <3> QED
      BY <1>2, <3>4, <3>5
  <2> QED
    BY <2>1, <2>2
<1>4. failures' \in 0 .. MaxFaults
  BY Failing
<1>5. main' = "stop" /\ result' = r /\ items' = items
  BY DEF Leave, Taken
<1> QED
  BY <1>1, <1>2, <1>3, <1>4, <1>5, Leaving

LEMMA Assoc ==
  ASSUME NEW a \in Seq(Datum), NEW b \in Seq(Datum), NEW c \in Seq(Datum)
  PROVE  (a \o b) \o c = a \o (b \o c)
  BY Joined

LEMMA Concat ==
  ASSUME NEW a \in Seq(Datum), NEW b \in Seq(Datum)
  PROVE  a \o b \in Seq(Datum) /\ Len(a \o b) = Len(a) + Len(b)
  OBVIOUS

LEMMA OneMoreDatum ==
  ASSUME NEW a \in Seq(Datum), NEW b \in Seq(Datum), Len(b) = 1
  PROVE  a \o b \in Seq(Datum) /\ Len(a \o b) = Len(a) + 1
  BY Concat, Zenon

Joint(e, h, u, w) == ((e \o h) \o u) \o w

LEMMA Regroup ==
  ASSUME NEW e \in Seq(Datum), NEW h \in Seq(Datum), NEW u \in Seq(Datum), NEW w \in Seq(Datum)
  PROVE  e \o ((h \o u) \o w) = Joint(e, h, u, w)
<1> DEFINE c == h \o u
<1>1. c \in Seq(Datum)
  OBVIOUS
<1>2. (e \o h) \o u = e \o c
  BY Assoc
<1> HIDE DEF c
<1>3. (e \o c) \o w = e \o (c \o w)
  BY <1>1, Assoc, SMTT(30)
<1> QED
  BY <1>2, <1>3, Zenon DEF c, Joint

\* The entry of a file, behind those before it.
LEMMA FileEntry ==
  ASSUME IInv, AInv, itemIndex <= NumItems, Open(itemIndex),
         NEW i \in Nat, i = itemIndex, NEW d, d = Descriptor(refs[i].seq),
         NEW p \in Nat, NEW k \in Nat, p = packed[i].pass, k = packed[i].pack
  PROVE  Entries(i) = Joint(Entries(i - 1), <<Header(i, d, k)>>, Units(i, p, k), Trailer(i, d, k))
<1>1. Entries(i) = Entries(i - 1) \o Entry(i) /\ Entries(i - 1) \in Seq(Datum)
  BY HeadedFacts
<1>2. Entry(i) = (<<Header(i, d, k)>> \o Units(i, p, k)) \o Trailer(i, d, k)
  BY DEF Entry, Open
<1>3. Header(i, d, k) \in Datum /\ Trailer(i, d, k) \in Seq(Datum)
  <2>1. k \in Int /\ 0 \in Nat
    OBVIOUS
  <2> QED
    BY <2>1, DatumFacts
<1>4. Units(i, p, k) \in Seq(Datum)
  BY UnitsFacts
<1> DEFINE x == Header(i, d, k)
           h == <<x>>
           e == Entries(i - 1)
           u == Units(i, p, k)
           w == Trailer(i, d, k)
           f == Entries(i)
           r == Entry(i)
<1>5. x \in Datum /\ u \in Seq(Datum) /\ w \in Seq(Datum) /\ e \in Seq(Datum)
      /\ f = e \o r /\ r = (h \o u) \o w
  BY <1>1, <1>2, <1>3, <1>4
<1> HIDE DEF x, e, u, w, f, r
<1>6. h \in Seq(Datum)
  BY <1>5
<1> HIDE DEF h
<1>7. e \o ((h \o u) \o w) = Joint(e, h, u, w)
  <2>1. e \in Seq(Datum) /\ h \in Seq(Datum) /\ u \in Seq(Datum) /\ w \in Seq(Datum)
    BY <1>5, <1>6
  <2> QED
    BY <2>1, Regroup
<1>8. f = Joint(e, h, u, w)
  BY <1>5, <1>7, Zenon
<1> QED
  BY <1>8 DEF x, e, u, w, f, h

\* With what is still in its blocks, the front's file is whole.
LEMMA FrontData ==
  ASSUME IInv, AInv, NEW t \in Thread, Taken(t), At(t) = 1, info[t].result = "ok", hres = "ok",
         NEW data, data = Collected(stream[t])
  PROVE  /\ data \in Seq(Datum) /\ file \in Seq(Datum) /\ pos = Len(file)
         /\ file \o data = Headed \o Units(itemIndex, packed[itemIndex].pass, packed[itemIndex].pack)
         /\ info[t].pack = packed[itemIndex].pack
         /\ packed[itemIndex].pack \in Nat /\ packed[itemIndex].pass \in Nat
         /\ Headed \in Seq(Datum) /\ Len(Headed) = Len(Entries(itemIndex - 1)) + 1
         /\ Entries(itemIndex - 1) \in Seq(Datum) /\ headerPos = Len(Entries(itemIndex - 1))
         /\ PreHeader(itemIndex, Descriptor(refs[itemIndex].seq)) \in Datum
         /\ Open(itemIndex) /\ itemIndex \in 1 .. NumItems /\ info[t].item = itemIndex
         /\ ~ stream[t].real => stream[t].total = packed[itemIndex].pack
<1>1. Live /\ lastReal = itemIndex /\ t \in In(threadIndices) /\ Done(t) /\ t = Head(threadIndices)
  BY TakenFacts
<1>2. /\ info[t].item = itemIndex /\ itemIndex \in 1 .. NumItems /\ Fronted
      /\ info[t].pass \in Nat /\ itemIndex \in Nat
  BY <1>1, FrontFacts
<1>3. PICK n \in 0 .. MaxSize : FrontAt(t, n)
  BY <1>1, <1>2 DEF Fronted
<1>4. WholeIn(t, packed[itemIndex])
  BY <1>1, <1>2 DEF AInv, Whole
<1>5. PackedType /\ stream[t].mem \in Seq(Datum) /\ file \in Seq(Datum)
  BY DEF AInv, Typed
<1>6. PICK p \in Nat, k \in Nat : p = packed[itemIndex].pass /\ k = packed[itemIndex].pack
  BY <1>2, <1>5 DEF PackedType
<1>7. /\ Headed \in Seq(Datum) /\ Len(Headed) = Len(Entries(itemIndex - 1)) + 1
      /\ Entries(itemIndex - 1) \in Seq(Datum)
      /\ PreHeader(itemIndex, Descriptor(refs[itemIndex].seq)) \in Datum
  BY <1>2, HeadedFacts
<1>8. pos = Len(file) /\ curPos = Len(Headed) /\ headerPos + 1 = curPos /\ Open(itemIndex)
  BY <1>1, <1>2 DEF Fronted, AInv, Written
<1>9. headerPos = Len(Entries(itemIndex - 1))
  <2>1. headerPos \in Nat /\ Len(Entries(itemIndex - 1)) \in Nat
    BY <1>7 DEF AInv, Typed
  <2> QED
    BY <1>7, <1>8, <2>1
<1>10. info[t].pack = k /\ p = info[t].pass
  BY <1>4, <1>6 DEF WholeIn
<1>11. CASE stream[t].real
  <2>1. n = k /\ stream[t].total = 0
    BY <1>1, <1>3, <1>4, <1>10, <1>11 DEF FrontAt, WholeIn
  <2>2. data = <<>>
    BY <1>5, <2>1 DEF Collected
  <2>3. file = Headed \o Units(itemIndex, p, k)
    BY <1>3, <1>10, <2>1 DEF FrontAt
  <2>4. file \o data = file /\ data \in Seq(Datum)
    BY <1>5, <2>2
  <2> QED
    BY <1>2, <1>5, <1>6, <1>7, <1>8, <1>9, <1>10, <1>11, <2>3, <2>4
<1>12. CASE ~ stream[t].real
  <2>1. n = 0 /\ stream[t].total = k /\ Holds(stream[t].mem, itemIndex, p, k)
    BY <1>2, <1>3, <1>4, <1>6, <1>12 DEF FrontAt, WholeIn
  <2>2. data = Units(itemIndex, p, k)
    BY <1>2, <1>5, <2>1, HeldUnits DEF Collected
  <2>3. data \in Seq(Datum)
    BY <1>2, <2>2, UnitsFacts
  <2>4. file = Headed \o <<>>
    BY <1>3, <2>1 DEF FrontAt, Units
  <2>5. file = Headed
    BY <1>7, <2>4
  <2> QED
    BY <1>2, <1>5, <1>6, <1>7, <1>8, <1>9, <1>10, <2>1, <2>2, <2>3, <2>5
<1> QED
  BY <1>11, <1>12

\* The header or the descriptor makes it an entry.
LEMMA FrontWhole ==
  ASSUME IInv, AInv, NEW t \in Thread, Taken(t), At(t) = 1, info[t].result = "ok", hres = "ok",
         NEW i, i = itemIndex, NEW d, d = Descriptor(refs[i].seq),
         NEW data, data = Collected(stream[t]), NEW k, k = info[t].pack,
         NEW end, end = headerPos + 1 + k, NEW f, f = Put(file, pos, data),
         IF d THEN /\ file' = Put(f, pos + Len(data), Trailer(i, d, k))
                   /\ pos' = pos + Len(data) + 1 /\ curPos' = end + 1
              ELSE /\ file' = Put(f, headerPos, <<Header(i, d, k)>>)
                   /\ pos' = end /\ curPos' = end
  PROVE  /\ file' = Entries(i) /\ file' \in Seq(Datum) /\ pos' = Len(file') /\ curPos' = Len(file')
         /\ end \in Nat
<1> DEFINE e == Entries(i - 1)
           p == packed[i].pass
           u == Units(i, p, k)
           x == PreHeader(i, d)
           y == Header(i, d, k)
           w == Trailer(i, d, k)
<1>1. /\ data \in Seq(Datum) /\ file \in Seq(Datum) /\ pos = Len(file)
      /\ file \o data = Headed \o u /\ k \in Nat /\ p \in Nat /\ k = packed[i].pack
      /\ e \in Seq(Datum) /\ headerPos = Len(e) /\ x \in Datum
      /\ Open(i) /\ i \in 1 .. NumItems /\ i \in Nat /\ Headed = e \o <<x>>
  <2>1. /\ data \in Seq(Datum) /\ file \in Seq(Datum) /\ pos = Len(file)
        /\ file \o data = Headed \o Units(itemIndex, packed[itemIndex].pass, packed[itemIndex].pack)
        /\ info[t].pack = packed[itemIndex].pack
        /\ packed[itemIndex].pack \in Nat /\ packed[itemIndex].pass \in Nat
        /\ Entries(itemIndex - 1) \in Seq(Datum) /\ headerPos = Len(Entries(itemIndex - 1))
        /\ PreHeader(itemIndex, Descriptor(refs[itemIndex].seq)) \in Datum
        /\ Open(itemIndex) /\ itemIndex \in 1 .. NumItems
    BY FrontData
  <2>2. Headed = Entries(itemIndex - 1) \o <<PreHeader(itemIndex, Descriptor(refs[itemIndex].seq))>>
    BY DEF Headed
  <2>3. i \in Nat
    BY <2>1
  <2> QED
    BY <2>1, <2>2, <2>3, Zenon
<1>2. Entries(i) = Joint(e, <<y>>, u, w)
  <2>1. itemIndex <= NumItems /\ Open(itemIndex)
    BY <1>1, MainFacts
  <2>2. i \in Nat /\ p \in Nat /\ k \in Nat /\ k = packed[i].pack /\ p = packed[i].pass
    BY <1>1
  <2> HIDE DEF p, e, u, x, y, w
  <2>3. Entries(i) = Joint(Entries(i - 1), <<Header(i, d, k)>>, Units(i, p, k), Trailer(i, d, k))
    BY <2>1, <2>2, FileEntry
  <2> QED
    BY <2>3 DEF e, u, y, w
<1>3. u \in Seq(Datum) /\ Len(u) = k
  <2>1. i \in Nat /\ p \in Nat /\ k \in Nat
    BY <1>1
  <2>2. \A q \in Nat, n \in Nat : Units(i, q, n) \in Seq(Datum) /\ Len(Units(i, q, n)) = n
    BY <2>1, UnitsFacts, ZenonT(40)
  <2> HIDE DEF p
  <2> QED
    BY <2>1, <2>2, Zenon
<1>4. y \in Datum /\ w \in Seq(Datum) /\ Len(w) = (IF d THEN 1 ELSE 0) /\ (d => x = y)
  <2>1. k \in Int /\ 0 \in Nat /\ i \in Nat
    BY <1>1
  <2>2. /\ Header(i, d, k) \in Datum /\ Trailer(i, d, k) \in Seq(Datum)
        /\ Len(Trailer(i, d, k)) = IF d THEN 1 ELSE 0
        /\ d => PreHeader(i, d) = Header(i, d, k)
    BY <2>1, DatumFacts
  <2> QED
    BY <2>2
<1>5. ~ d => w = <<>>
  BY DEF Trailer
<1> HIDE DEF p, e, u, x, y, w
<1>6. f = file \o data
  BY <1>1, PutAtEnd
<1>7. f = (e \o <<x>>) \o u
  BY <1>1, <1>6
<1>8. /\ f \in Seq(Datum) /\ Len(f) = Len(e) + 1 + k /\ Len(f) = pos + Len(data)
      /\ e \o <<y>> \in Seq(Datum) /\ Len(e \o <<y>>) = Len(e) + 1 /\ Len(e) \in Nat
  <2> DEFINE r == e \o <<x>>
             q == e \o <<y>>
  <2>1. r \in Seq(Datum) /\ Len(r) = Len(e) + 1 /\ q \in Seq(Datum) /\ Len(q) = Len(e) + 1
        /\ Len(e) \in Nat
    BY <1>1, <1>4
  <2> HIDE DEF r
  <2>2. f = r \o u
    BY <1>7 DEF r
  <2>3. r \o u \in Seq(Datum) /\ Len(r \o u) = Len(r) + Len(u)
    BY <1>3, <2>1, Joined
  <2>4. Len(file \o data) = Len(file) + Len(data)
    BY <1>1
  <2> QED
    BY <1>1, <1>3, <1>6, <2>1, <2>2, <2>3, <2>4
<1>9. end \in Nat /\ end = Len(f)
  BY <1>1, <1>8
<1>10. CASE d
  <2>1. Put(f, Len(f), w) = f \o w
    BY <1>4, <1>8, PutAtEnd
  <2>2. file' = f \o w
    BY <1>8, <1>10, <2>1 DEF w
  <2>3. Len(f \o w) = Len(f) + 1 /\ f \o w \in Seq(Datum)
    <3>1. Len(w) = 1
      BY <1>4, <1>10
    <3>2. w \in Seq(Datum) /\ f \in Seq(Datum)
      BY <1>4, <1>8
    <3> QED
      BY <3>1, <3>2, OneMoreDatum, Zenon
  <2>4. f \o w = Entries(i)
    <3>1. x = y
      BY <1>4, <1>10
    <3> QED
      BY <1>2, <1>7, <3>1, Zenon DEF Joint
  <2>5. pos' = Len(f) + 1 /\ curPos' = Len(f) + 1
    BY <1>8, <1>9, <1>10
  <2> QED
    BY <1>9, <2>2, <2>3, <2>4, <2>5
<1>11. CASE ~ d
  <2>1. Put((e \o <<x>>) \o u, Len(e), <<y>>) = (e \o <<y>>) \o u
    BY <1>1, <1>3, <1>4, PutOver, ZenonT(40)
  <2>2. file' = Put(f, Len(e), <<y>>)
    BY <1>1, <1>11 DEF y
  <2>3. file' = (e \o <<y>>) \o u
    BY <1>7, <2>1, <2>2
  <2>4. /\ (e \o <<y>>) \o u \in Seq(Datum)
        /\ Len((e \o <<y>>) \o u) = Len(e) + 1 + k
        /\ ((e \o <<y>>) \o u) \o <<>> = (e \o <<y>>) \o u
    <3> DEFINE q == e \o <<y>>
    <3>1. q \in Seq(Datum) /\ Len(q) = Len(e) + 1
      BY <1>8
    <3> HIDE DEF q
    <3>2. q \o u \in Seq(Datum) /\ Len(q \o u) = Len(q) + Len(u)
      BY <1>3, <3>1, Joined
    <3>3. (q \o u) \o <<>> = q \o u
      BY <3>2
    <3> QED
      BY <1>3, <1>8, <3>1, <3>2, <3>3 DEF q
  <2>5. Entries(i) = (e \o <<y>>) \o u
    <3>1. Entries(i) = Joint(e, <<y>>, u, <<>>)
      BY <1>2, <1>5, <1>11
    <3> QED
      BY <2>4, <3>1, Zenon DEF Joint
  <2>6. pos' = Len(f) /\ curPos' = Len(f)
    BY <1>9, <1>11
  <2> QED
    BY <1>8, <1>9, <2>3, <2>4, <2>5, <2>6
<1> QED
  BY <1>10, <1>11

\* The thread of a file that is done gives all back, and leaves the list.
LEMMA GivenBack ==
  ASSUME IInv, NEW t \in Thread, Taken(t), threadIndices' = Removed(t),
         stream' = [stream EXCEPT ![t] = Emptied(stream[t])]
  PROVE  /\ \A u \in Thread : u # t => SameWork(u) /\ stream'[u] = stream[u]
         /\ stream'[t].mem = <<>> /\ stream'[t].cur = stream[t].cur
         /\ \A u \in Thread : /\ stream'[u].real = stream[u].real
                              /\ stream'[u].toReal = stream[u].toReal
                              /\ stream'[u].unlocked = stream[u].unlocked
                              /\ stream'[u].offset = stream[u].offset
         /\ \A u : u \in In(threadIndices)' <=> u \in In(threadIndices) /\ u # t
         /\ At(t) > 1 => threadIndices' # <<>> /\ Head(threadIndices') = Head(threadIndices)
<1>1. PICK V : Records(V)
  BY DEF IInv, Types
<1>2. stream \in [Thread -> StreamType(V)] /\ stream[t] \in StreamType(V)
  BY <1>1 DEF Records
<1> DEFINE d == Emptied(stream[t])
<1>3. /\ d.real = stream[t].real /\ d.toReal = stream[t].toReal /\ d.unlocked = stream[t].unlocked
      /\ d.offset = stream[t].offset /\ d.cur = stream[t].cur /\ d.mem = <<>>
  BY <1>2, EmptiedFields
<1>4. stream' = [stream EXCEPT ![t] = d]
  OBVIOUS
<1> HIDE DEF d
<1>5. \A u \in Thread : u # t => stream'[u] = stream[u]
  BY <1>2, <1>4
<1>6. \A u \in Thread : u # t => SameWork(u)
  BY <1>5, TakenInfo DEF SameWork, SameMemory
<1>7. stream'[t] = d
  BY <1>2, <1>4
<1>8. t \in In(threadIndices) /\ threadIndices \in Seq(Thread) /\ Distinct(threadIndices)
  BY MainFacts, ReadyFacts DEF Taken
<1>9. PICK s : s = Removed(t) /\ threadIndices' = s
  OBVIOUS
<1>10. \A u : u \in In(s) <=> u \in In(threadIndices) /\ u # t
  BY <1>8, <1>9, RemovedSet
<1>11. In(threadIndices)' = In(s)
  BY <1>9 DEF In
<1>12. ASSUME At(t) > 1 PROVE s # <<>> /\ Head(s) = Head(threadIndices)
  <2>1. PICK n \in Nat : n = Len(threadIndices)
    BY <1>8
  <2>2. At(t) \in 1 .. n
    BY <1>8, <2>1, AtFacts
  <2>3. s \in Seq(Thread) /\ Len(s) = n - 1 /\ 1 \in 1 .. n - 1
        /\ s[1] = threadIndices[IF 1 < At(t) THEN 1 ELSE 1 + 1]
    BY <1>8, <1>9, <1>12, <2>1, <2>2, RemovedFacts
  <2>4. s[1] = threadIndices[1]
    BY <1>12, <2>3
  <2>5. Head(threadIndices) = threadIndices[1]
    BY <1>8
  <2> QED
    BY <2>3, <2>4, <2>5
<1> QED
  BY <1>3, <1>5, <1>6, <1>7, <1>9, <1>10, <1>11, <1>12

LEMMA DoneAInv ==
  ASSUME IInv, AInv, NEW t \in Thread, Taken(t), threadIndices' = Removed(t),
         stream' = [stream EXCEPT ![t] = Emptied(stream[t])],
         main' = "loop", UNCHANGED <<seqOut, packed, lastReal, result, hres, failures, headerPos>>,
         itemIndex' \in Nat, itemIndex' >= itemIndex,
         At(t) > 1 => UNCHANGED <<file, itemIndex>>,
         file' \in Seq(Datum), pos' \in 0 .. Len(file'), curPos' \in Nat, headerPos <= curPos',
         \A i \in 1 .. NumItems : refs'[i].mem \in Seq(Datum),
         \A i \in itemIndex' .. NumItems : refs'[i].finished => WholeRef(i, packed[i])',
         Written'
  PROVE  AInv'
<1>1. /\ Live /\ lastReal = itemIndex /\ t \in In(threadIndices) /\ t \in In(ready)
      /\ Resting(t) /\ ~ Works(t) /\ ~ info[t].compress
      /\ Distinct(ready)' /\ In(ready)' \subseteq In(ready)
      /\ At(t) # 0 /\ (At(t) = 1 <=> t = Head(threadIndices))
  BY TakenFacts
<1>2. /\ \A u \in Thread : u # t => SameWork(u) /\ stream'[u] = stream[u]
      /\ stream'[t].mem = <<>> /\ stream'[t].cur = stream[t].cur
      /\ \A u \in Thread : /\ stream'[u].real = stream[u].real
                           /\ stream'[u].toReal = stream[u].toReal
                           /\ stream'[u].unlocked = stream[u].unlocked
                           /\ stream'[u].offset = stream[u].offset
      /\ \A u : u \in In(threadIndices)' <=> u \in In(threadIndices) /\ u # t
      /\ At(t) > 1 => threadIndices' # <<>> /\ Head(threadIndices') = Head(threadIndices)
  BY GivenBack
<1>3. /\ pc' = pc
      /\ \A u \in Thread :
           /\ SameCode(u) /\ info'[u].item = info[u].item
           /\ info'[u].exit = info[u].exit /\ info'[u].compress = info[u].compress
  BY TakenInfo
<1>4. UNCHANGED items /\ NumItems' = NumItems /\ Live' /\ NumItems \in Nat
  BY MainFacts DEF Taken, NumItems, Live
<1>5. Typed'
  <2>1. <<>> \in Seq(Datum)
    OBVIOUS
  <2>2. \A u \in Thread : stream'[u].mem \in Seq(Datum)
    BY <1>2, <2>1 DEF AInv, Typed
  <2>3. headerPos' \in 0 .. curPos'
    BY DEF AInv, Typed
  <2> QED
    BY <1>4, <2>2, <2>3 DEF AInv, Typed, PackedType
<1>6. ASSUME NEW u \in Thread PROVE Local(u)'
  <2>0. Local(u)
    BY DEF AInv
  <2>1. CASE u # t
    BY <1>2, <1>4, <2>0, <2>1, KeptStays
  <2>2. CASE u = t
    <3>1. ~ Works(t)' /\ MaxSize' = MaxSize
      BY <1>1, <1>3 DEF Works, MaxSize
    <3> QED
      BY <1>1, <1>2, <1>3, <1>4, <2>0, <2>2, <3>1 DEF Local, SameCode
  <2> QED
    BY <2>1, <2>2
<1>7. Rested'
  <2>1. ASSUME NEW u \in Thread PROVE Resting(u)' <=> Resting(u)
    BY <1>3 DEF Resting
  <2>2. ASSUME NEW u \in Thread, u \in In(ready)' \/ u \notin In(threadIndices)' PROVE Resting(u)'
    <3>1. u \in In(ready) \/ u \notin In(threadIndices) \/ u = t
      BY <1>1, <1>2, <2>2
    <3> QED
      BY <1>1, <2>1, <3>1 DEF AInv, Rested
  <2>3. \A u \in Thread : ~ info'[u].exit /\ pc'[u] # "ended"
    BY <1>1, <1>3 DEF AInv, Rested
  <2> QED
    BY <1>1, <2>2, <2>3 DEF Rested
<1>8. Whole'
  <2>1. ASSUME NEW u \in In(threadIndices)', Done(u)' PROVE WholeIn(u, packed[info[u].item])'
    <3>1. u \in In(threadIndices) /\ u # t
      BY <1>2
    <3>2. u \in Thread
      BY <3>1, MainFacts DEF In
    <3>3. SameWork(u) /\ Done(u)
      BY <1>2, <1>4, <2>1, <3>1, <3>2, KeptStays
    <3>4. WholeIn(u, packed[info[u].item])
      BY <1>1, <3>1, <3>3 DEF AInv, Whole
    <3> QED
      BY <3>3, <3>4 DEF SameWork, SameCode, SameMemory, WholeIn, Holds
  <2> QED
    BY <1>4, <2>1 DEF Whole
<1>9. Unlocks'
  <2>1. \A u \in Thread : stream'[u].real \/ stream'[u].toReal => stream'[u].unlocked
    BY <1>2 DEF AInv, Unlocks
  <2>2. ASSUME NEW u \in In(threadIndices)', stream'[u].unlocked
        PROVE  /\ u = Head(threadIndices') /\ lastReal' = itemIndex'
               /\ hres' = "ok" => stream'[u].offset \in 0 .. Len(file')
    <3>1. u \in In(threadIndices) /\ u # t
      BY <1>2
    <3>2. u \in Thread
      BY <3>1, MainFacts DEF In
    <3>3. /\ u = Head(threadIndices) /\ (hres = "ok" => stream[u].offset \in 0 .. Len(file))
      BY <1>2, <2>2, <3>1, <3>2 DEF AInv, Unlocks
    <3>4. At(t) > 1
      <4>1. At(t) \in Nat
        BY MainFacts, AtFacts
      <4> QED
        BY <1>1, <3>1, <3>3, <4>1
    <3> QED
      BY <1>1, <1>2, <3>2, <3>3, <3>4
  <2> QED
    BY <2>1, <2>2 DEF Unlocks
<1>10. Over'
  BY <1>1 DEF AInv, Over, Live
<1> QED
  BY <1>5, <1>6, <1>7, <1>8, <1>9, <1>10 DEF AInv

\* The entry of the front is whole (ZipUpdate.cpp:1536-1560).
LEMMA FrontDoneAInv ==
  ASSUME IInv, AInv, NEW t \in Thread, Taken(t), At(t) = 1, info[t].result = "ok", FrontDone(t),
         UNCHANGED <<seqOut, packed, lastReal>>
  PROVE  AInv'
<1> DEFINE i == itemIndex
           d == Descriptor(info[t].seq)
           data == Collected(stream[t])
           k == info[t].pack
           end == headerPos + 1 + k
           f == Put(file, pos, data)
<1>1. /\ main = "wait" /\ t \in In(threadIndices) /\ info[t].item = i /\ i \in 1 .. NumItems
      /\ info[t].seq = refs[i].seq /\ HasAll(stream[t])
  <2>1. main = "wait" /\ t \in In(threadIndices)
    BY ReadyFacts DEF Taken
  <2> QED
    BY <2>1, FrontIsDue DEF IInv, Full
<1>2. threadIndices' = Removed(t) /\ UNCHANGED <<refs, headerPos>>
  BY DEF FrontDone
<1>3. CASE /\ hres = "ok"
           /\ IF d THEN /\ file' = Put(f, pos + Len(data), Trailer(i, d, k))
                        /\ pos' = pos + Len(data) + 1 /\ curPos' = end + 1
                   ELSE /\ file' = Put(f, headerPos, <<Header(i, d, k)>>)
                        /\ pos' = end /\ curPos' = end
           /\ stream' = [stream EXCEPT ![t] = Emptied(@)]
           /\ NextItem /\ UNCHANGED <<hres, failures>>
  <2>1. d = Descriptor(refs[i].seq)
    BY <1>1
  <2>2. /\ file' = Entries(i) /\ file' \in Seq(Datum) /\ pos' = Len(file') /\ curPos' = Len(file')
        /\ end \in Nat
    <3> HIDE DEF i, d, data, k, end, f
    <3>1. /\ i = itemIndex /\ d = Descriptor(refs[i].seq) /\ data = Collected(stream[t])
          /\ k = info[t].pack /\ end = headerPos + 1 + k /\ f = Put(file, pos, data) /\ hres = "ok"
      BY <1>3, <2>1 DEF i, data, k, end, f
    <3>2. IF d THEN /\ file' = Put(f, pos + Len(data), Trailer(i, d, k))
                    /\ pos' = pos + Len(data) + 1 /\ curPos' = end + 1
               ELSE /\ file' = Put(f, headerPos, <<Header(i, d, k)>>)
                    /\ pos' = end /\ curPos' = end
      BY <1>3
    <3> QED
      BY <3>1, <3>2, FrontWhole, ZenonT(40)
  <2>3. k \in Nat /\ headerPos \in Nat
    <3>1. k \in Nat
      BY <1>3, FrontData
    <3> QED
      BY <3>1 DEF AInv, Typed
  <2>4. /\ main' = "loop" /\ result' = result /\ i \in Nat /\ itemIndex' = i + 1
        /\ NumItems' = NumItems /\ items' = items /\ NumItems \in Nat
    BY <1>1, <1>3, MainFacts DEF NextItem, GoOn, Taken, NumItems
  <2>5. headerPos <= curPos' /\ curPos' \in Nat /\ pos' \in 0 .. Len(file')
    <3>1. Len(file') \in Nat
      BY <2>2
    <3>2. curPos' = end \/ curPos' = end + 1
      BY <1>3
    <3>3. headerPos <= end
      BY <2>3
    <3> QED
      BY <2>2, <2>3, <3>1, <3>2, <3>3
  <2>6. ASSUME NEW j \in itemIndex' .. NumItems, refs'[j].finished PROVE WholeRef(j, packed[j])'
    <3>1. j \in itemIndex .. NumItems /\ refs[j].finished
      BY <1>2, <2>4, <2>6
    <3>2. WholeRef(j, packed[j])
      BY <1>1, <3>1 DEF AInv, Whole, Live
    <3> QED
      BY <1>2, <3>2 DEF WholeRef, Holds
  <2>7. Written'
    <3>1. lastReal = i
      BY <1>1, TakenFacts
    <3>2. lastReal' < itemIndex' /\ lastReal' # itemIndex' /\ lastReal' <= itemIndex'
      BY <2>4, <3>1
    <3>3. PICK n \in 1 .. NumItems : n = itemIndex /\ itemIndex' - 1 = n
      BY <1>1, <2>4
    <3>4. Entries(n)' = Entries(n)
      <4>1. \A j \in 1 .. n : Entry(j)' = Entry(j)
        BY <1>2, <2>4, EntrySame
      <4> QED
        BY <4>1, EntriesSame
    <3>5. Entries(itemIndex - 1)' = Entries(n)
      BY <3>3, <3>4
    <3>6. file' = Entries(n)
      BY <2>2, <3>3
    <3> QED
      BY <2>2, <2>4, <3>2, <3>5, <3>6 DEF Written, Settled
  <2>8. itemIndex' \in Nat /\ itemIndex' >= itemIndex /\ ~ (At(t) > 1)
    BY <2>4
  <2>9. \A j \in 1 .. NumItems : refs'[j].mem \in Seq(Datum)
    BY <1>2 DEF AInv, Typed
  <2>10. stream' = [stream EXCEPT ![t] = Emptied(stream[t])] /\ UNCHANGED <<hres, failures, headerPos>>
    BY <1>2, <1>3
  <2> QED
    BY <1>2, <2>2, <2>4, <2>5, <2>6, <2>7, <2>8, <2>9, <2>10, DoneAInv
<1>4. CASE WriteFails /\ Leave("write") /\ UNCHANGED <<itemIndex, curPos, stream>>
  <2>1. "write" \in Results \ {"ok"}
    BY DEF Results
  <2>2. failures' = failures \/ (\E z : MayFail(z) /\ failures' = failures + 1)
    BY <1>4 DEF WriteFails
  <2>3. UNCHANGED <<file, pos>> /\ hres' # "ok"
    BY <1>4 DEF WriteFails
  <2> QED
    BY <1>2, <1>4, <2>1, <2>2, <2>3, TakenLeaves
<1> QED
  BY <1>1, <1>3, <1>4 DEF FrontDone

KeptMem(s) == SubSeq(s.mem, 1, Min({Len(s.mem), Kept(s) * BlockSize}))

LEMMA DetachedFields ==
  ASSUME NEW V, NEW r \in RefType(V), NEW s \in StreamType(V), NEW p, NEW z, z = Detached(r, s, p)
  PROVE  /\ z.finished /\ z.pack = p /\ z.total = s.total /\ z.skip = r.skip /\ z.seq = r.seq
         /\ z.mem = KeptMem(s)
<1> DEFINE m == SubSeq(s.mem, 1, Min({Len(s.mem), Kept(s) * BlockSize}))
           k == Kept(s)
<1>1. z = [r EXCEPT !.finished = TRUE, !.pack = p, !.blocks = k, !.total = s.total, !.mem = m]
  BY DEF Detached
<1> HIDE DEF m, k
<1>2. z.finished /\ z.pack = p /\ z.total = s.total /\ z.skip = r.skip /\ z.seq = r.seq /\ z.mem = m
  BY <1>1 DEF RefType
<1> QED
  BY <1>2 DEF m, KeptMem

LEMMA Beginning ==
  ASSUME NEW m \in Seq(Datum), NEW c \in Nat, c <= Len(m)
  PROVE  /\ SubSeq(m, 1, c) \in Seq(Datum) /\ Len(SubSeq(m, 1, c)) = c
         /\ \A k \in 1 .. c : SubSeq(m, 1, c)[k] = m[k]
  OBVIOUS

LEMMA LesserOfTwo ==
  ASSUME NEW a \in Nat, NEW b \in Nat
  PROVE  Min({a, b}) = IF a <= b THEN a ELSE b
<1>1. \E x \in {a, b} : \A y \in {a, b} : x <= y
  OBVIOUS
<1>2. Min({a, b}) \in {a, b} /\ \A y \in {a, b} : Min({a, b}) <= y
  BY <1>1 DEF Min
<1> QED
  BY <1>2

LEMMA BeginningHolds ==
  ASSUME NEW m \in Seq(Datum), NEW i, NEW p, NEW n \in Nat, Holds(m, i, p, n), NEW c \in Nat,
         n <= c, c <= Len(m)
  PROVE  SubSeq(m, 1, c) \in Seq(Datum) /\ Holds(SubSeq(m, 1, c), i, p, n)
<1> DEFINE z == SubSeq(m, 1, c)
<1>1. z \in Seq(Datum) /\ Len(z) = c /\ \A k \in 1 .. c : z[k] = m[k]
  BY Beginning
<1> HIDE DEF z
<1>2. Holds(z, i, p, n)
  BY <1>1 DEF Holds
<1> QED
  BY <1>1, <1>2 DEF z

\* A file that is detached keeps what its coder wrote (MemBlocks.cpp:194-215).
LEMMA KeptHolds ==
  ASSUME NEW m \in Seq(Datum), NEW i, NEW p, NEW n \in Nat, Holds(m, i, p, n), NEW b \in Nat, n <= b
  PROVE  LET z == SubSeq(m, 1, Min({Len(m), b})) IN z \in Seq(Datum) /\ Holds(z, i, p, n)
<1>1. PICK c \in Nat : c = Min({Len(m), b}) /\ n <= c /\ c <= Len(m)
  <2>1. PICK a \in Nat : a = Len(m)
    OBVIOUS
  <2>2. Min({a, b}) = IF a <= b THEN a ELSE b
    BY LesserOfTwo
  <2>3. n <= a
    BY <2>1 DEF Holds
  <2>4. Min({a, b}) \in Nat /\ n <= Min({a, b}) /\ Min({a, b}) <= a
    BY <2>2, <2>3
  <2> QED
    BY <2>1, <2>4
<1>2. SubSeq(m, 1, c) \in Seq(Datum) /\ Holds(SubSeq(m, 1, c), i, p, n)
  BY <1>1, BeginningHolds
<1> QED
  BY <1>1, <1>2, Zenon

\* What is detached is the whole file.
LEMMA DetachedWhole ==
  ASSUME IInv, AInv, NEW t \in Thread, Taken(t), At(t) > 1, info[t].result = "ok",
         OtherDone(t), UNCHANGED packed
  PROVE  \E m \in 1 .. NumItems :
           /\ m # itemIndex
           /\ \A i \in 1 .. NumItems : /\ refs'[i].skip = refs[i].skip /\ refs'[i].seq = refs[i].seq
                                       /\ refs'[i].mem \in Seq(Datum)
                                       /\ i # m => refs'[i] = refs[i]
           /\ WholeRef(m, packed[m])'
<1>1. /\ Live /\ t \in In(threadIndices) /\ Done(t) /\ t # Head(threadIndices)
      /\ lastReal = itemIndex
  BY TakenFacts
<1>2. Open(itemIndex) /\ itemIndex < mtItemIndex
  BY <1>1 DEF AInv, Written
<1>3. PICK h \in Thread : h = Head(threadIndices) /\ h \in In(threadIndices) /\ info[h].item = itemIndex
  BY <1>1, <1>2, HeadIsDue
<1>4. PICK m \in 1 .. NumItems : m = info[t].item /\ m # itemIndex
  <2>1. info[t].item \in 1 .. NumItems /\ \A u \in In(threadIndices) : u # t => info[u].item # info[t].item
    BY <1>1, OwnItem
  <2> QED
    BY <1>1, <1>3, <2>1
<1>5. PICK V : Records(V)
  BY DEF IInv, Types
<1>6. refs \in [1 .. NumItems -> RefType(V)] /\ refs[m] \in RefType(V) /\ stream[t] \in StreamType(V)
  BY <1>4, <1>5 DEF Records
<1>7. PackedType /\ stream[t].mem \in Seq(Datum) /\ \A i \in 1 .. NumItems : refs[i].mem \in Seq(Datum)
  BY DEF AInv, Typed
<1>8. PICK p \in Nat, k \in Nat : p = packed[m].pass /\ k = packed[m].pack
  BY <1>4, <1>7 DEF PackedType
<1>9. info[t].pack = k /\ stream[t].total = k /\ Holds(stream[t].mem, m, p, k)
  <2>1. ~ stream[t].real
    BY <1>1 DEF AInv, Unlocks
  <2>2. WholeIn(t, packed[m])
    BY <1>1, <1>4 DEF AInv, Whole
  <2> QED
    BY <1>4, <1>8, <2>1, <2>2 DEF WholeIn
<1>10. PICK b \in Nat : b = Kept(stream[t]) * BlockSize /\ k <= b
  <2>1. stream[t].blocks \in Nat /\ stream[t].total \in Nat
    BY <1>6 DEF StreamType
  <2>2. Kept(stream[t]) \in Nat /\ stream[t].total <= Kept(stream[t]) * BlockSize
    <3>1. HasAll(stream[t])
      BY DEF IInv, Full
    <3> QED
      BY <2>1, <3>1, KeptIsEnough
  <2>3. Kept(stream[t]) * BlockSize \in Nat
    BY <2>2, ZipUpdateAssumption
  <2> QED
    BY <1>9, <2>2, <2>3
<1> DEFINE d == Detached(refs[m], stream[t], info[t].pack)
<1>11. /\ d.pack = k /\ d.total = k /\ d.skip = refs[m].skip /\ d.seq = refs[m].seq
       /\ d.mem \in Seq(Datum) /\ Holds(d.mem, m, p, k)
  <2>1. /\ d.pack = info[t].pack /\ d.total = stream[t].total
        /\ d.skip = refs[m].skip /\ d.seq = refs[m].seq
        /\ d.mem = KeptMem(stream[t])
    BY <1>6, DetachedFields
  <2> HIDE DEF d
  <2>2. PICK w \in Seq(Datum) : w = stream[t].mem
    BY <1>7
  <2>3. Holds(w, m, p, k)
    BY <1>9, <2>2
  <2>4. SubSeq(w, 1, Min({Len(w), b})) \in Seq(Datum) /\ Holds(SubSeq(w, 1, Min({Len(w), b})), m, p, k)
    BY <1>10, <2>3, KeptHolds
  <2>5. d.mem = SubSeq(w, 1, Min({Len(w), b}))
    BY <1>10, <2>1, <2>2, Zenon DEF KeptMem
  <2> QED
    BY <1>9, <2>1, <2>4, <2>5
<1>12. refs' = [refs EXCEPT ![m] = d]
  BY <1>4 DEF OtherDone
<1> HIDE DEF d
<1>13. refs'[m] = d /\ \A i \in 1 .. NumItems : i # m => refs'[i] = refs[i]
  BY <1>4, <1>6, <1>12
<1>14. WholeRef(m, packed[m])'
  BY <1>8, <1>11, <1>13 DEF WholeRef, Holds
<1> QED
  BY <1>4, <1>7, <1>11, <1>13, <1>14

\* Another file is done (ZipUpdate.cpp:1562-1570).
LEMMA OtherDoneAInv ==
  ASSUME IInv, AInv, NEW t \in Thread, Taken(t), At(t) > 1, info[t].result = "ok", OtherDone(t),
         UNCHANGED <<seqOut, packed, lastReal>>
  PROVE  AInv'
<1>1. /\ threadIndices' = Removed(t) /\ stream' = [stream EXCEPT ![t] = Emptied(stream[t])]
      /\ main' = "loop"
      /\ UNCHANGED <<itemIndex, result, file, pos, hres, curPos, headerPos, failures, items, pc,
                     mtItemIndex>>
  BY DEF OtherDone, GoOn, archiveVars, Taken
<1>2. /\ Live /\ t # Head(threadIndices) /\ lastReal = itemIndex
  BY TakenFacts
<1>3. /\ Open(itemIndex) /\ itemIndex < mtItemIndex /\ threadIndices # <<>>
      /\ stream[Head(threadIndices)].unlocked /\ (hres = "ok" => Fronted)
  BY <1>2 DEF AInv, Written
<1>4. PICK h \in Thread : h = Head(threadIndices)
  BY <1>2, <1>3, HeadIsDue
<1>7. PICK m \in 1 .. NumItems :
        /\ m # itemIndex
        /\ \A i \in 1 .. NumItems : /\ refs'[i].skip = refs[i].skip /\ refs'[i].seq = refs[i].seq
                                    /\ refs'[i].mem \in Seq(Datum)
                                    /\ i # m => refs'[i] = refs[i]
        /\ WholeRef(m, packed[m])'
  BY DetachedWhole
<1>8. /\ itemIndex \in 1 .. NumItems /\ NumItems \in Nat /\ NumItems' = NumItems
  BY <1>1, <1>2, <1>3, HeadIsDue, MainFacts DEF NumItems
<1>9. /\ threadIndices' # <<>> /\ Head(threadIndices') = h
      /\ stream'[h] = stream[h] /\ SameWork(h)
  <2>1. h # t
    BY <1>2, <1>4
  <2> QED
    BY <1>1, <1>4, <2>1, GivenBack
<1>10. ASSUME NEW i \in itemIndex' .. NumItems, refs'[i].finished PROVE WholeRef(i, packed[i])'
  <2>1. i \in 1 .. NumItems /\ i \in itemIndex .. NumItems
    BY <1>1, <1>8
  <2>2. CASE i = m
    BY <1>7, <2>2
  <2>3. CASE i # m
    <3>1. refs'[i] = refs[i] /\ refs[i].finished
      BY <1>7, <1>10, <2>1, <2>3
    <3>2. WholeRef(i, packed[i])
      BY <1>2, <2>1, <3>1 DEF AInv, Whole
    <3> QED
      BY <3>1, <3>2 DEF WholeRef, Holds
  <2> QED
    BY <2>2, <2>3
<1>11. Headed' = Headed /\ Open(itemIndex)'
  <2>1. \A i \in 1 .. itemIndex : i <= NumItems =>
            refs'[i].skip = refs[i].skip /\ refs'[i].seq = refs[i].seq
    BY <1>7
  <2>2. Headed' = Headed
    BY <1>1, <1>8, <2>1, PastStays
  <2>3. refs'[itemIndex] = refs[itemIndex]
    BY <1>7, <1>8
  <2> QED
    BY <1>1, <1>3, <2>2, <2>3 DEF Open
<1>12. ASSUME Fronted PROVE Fronted'
  <2>1. PICK n \in 0 .. MaxSize : FrontAt(h, n)
    BY <1>4, <1>12 DEF Fronted
  <2>2. FrontAt(Head(threadIndices), n)'
    BY <1>1, <1>9, <1>11, <2>1 DEF FrontAt, Works, Done, SameWork, SameCode
  <2>3. MaxSize' = MaxSize
    BY DEF MaxSize
  <2> QED
    BY <1>1, <1>4, <1>9, <1>11, <1>12, <2>2, <2>3 DEF Fronted
<1>13. Written'
  <2>1. lastReal' = itemIndex' /\ lastReal' <= itemIndex' /\ ~ (lastReal' < itemIndex')
    BY <1>1, <1>2, <1>8
  <2> QED
    BY <1>1, <1>3, <1>4, <1>9, <1>11, <1>12, <2>1 DEF Written
<1>14. /\ itemIndex' \in Nat /\ itemIndex' >= itemIndex
       /\ file' \in Seq(Datum) /\ pos' \in 0 .. Len(file') /\ curPos' \in Nat /\ headerPos <= curPos'
       /\ \A i \in 1 .. NumItems : refs'[i].mem \in Seq(Datum)
  BY <1>1, <1>7, <1>8 DEF AInv, Typed
<1> QED
  BY <1>1, <1>10, <1>13, <1>14, DoneAInv

LEMMA CollectAInv == ASSUME IInv, AInv, Collect PROVE AInv'
<1>1. main = "wait" /\ readySem > 0 /\ ready # <<>> /\ Head(ready) \in Thread
  BY ReadyFacts DEF Collect
<1>2. PICK t \in Thread : t = Head(ready)
  BY <1>1
<1>3. Taken(t) /\ UNCHANGED <<seqOut, packed, lastReal>>
  BY <1>1, <1>2 DEF Collect, Taken, requestVars
<1>4. At(t) # 0
  BY <1>3, TakenFacts
<1>5. CASE info[t].result = "ok" /\ At(t) = 1 /\ FrontDone(t)
  BY <1>3, <1>5, FrontDoneAInv
<1>6. CASE info[t].result = "ok" /\ At(t) > 1 /\ OtherDone(t)
  BY <1>3, <1>6, OtherDoneAInv
<1>7. CASE /\ info[t].result # "ok" /\ Leave(info[t].result)
           /\ UNCHANGED <<threadIndices, refs, failures, archiveVars, stream>>
  <2>1. PICK r \in Results \ {"ok"} : r = info[t].result
    BY <1>7, RecordFacts
  <2>2. Leave(r) /\ UNCHANGED <<threadIndices, refs, failures, file, pos, hres, curPos, headerPos, stream>>
    BY <1>7, <2>1 DEF archiveVars
  <2> QED
    BY <1>3, <2>2, TakenLeaves
<1> QED
  BY <1>1, <1>2, <1>4, <1>5, <1>6, <1>7 DEF Collect

LEMMA MainAInv == ASSUME IInv, AInv, MainStep PROVE AInv'
  BY PassOverAInv, CannotStartAInv, StartFileAInv, SkipItemAInv, CopyOldAInv, CopyFinishedAInv,
     OpenFrontAInv, CollectAInv, WriteCentralDirAInv, StopThreadAInv, JoinThreadAInv DEF MainStep

-----------------------------------------------------------------------------
(* The theorems about the archive. *)

LEMMA InitAInv == Init => AInv
<1> SUFFICES ASSUME Init PROVE AInv
  OBVIOUS
<1>0. /\ NumItems \in Nat /\ DOMAIN items = 1 .. NumItems /\ MaxFaults \in Nat
      /\ main = "loop" /\ itemIndex = 1 /\ mtItemIndex = 1 /\ threadIndices = <<>> /\ ready = <<>>
      /\ lastReal = 0 /\ result = "none" /\ failures = 0
      /\ file = <<>> /\ pos = 0 /\ hres = "ok" /\ curPos = 0 /\ headerPos = 0
  <2>1. items \in Seq(Kinds)
    BY ZipUpdateAssumption DEF Init
  <2> QED
    BY <2>1, ZipUpdateAssumption DEF Init, NumItems
<1>1. \A t \in Thread :
        /\ pc[t] = "idle" /\ info[t].item = 0 /\ info[t].result = "ok" /\ info[t].size = 0
        /\ info[t].n = 0 /\ ~ info[t].compress /\ ~ info[t].exit
        /\ stream[t].mem = <<>> /\ stream[t].cur = 0 /\ stream[t].total = 0 /\ ~ stream[t].real
        /\ ~ stream[t].toReal /\ ~ stream[t].unlocked
  BY DEF Init, NoInfo, NoStream, None
<1>2. \A i \in 1 .. NumItems : refs[i].mem = <<>> /\ ~ refs[i].finished
  BY <1>0 DEF Init, NoRef
<1>3. PackedType
  BY <1>0 DEF Init, PackedType
<1>4. Typed
  <2>1. <<>> \in Seq(Datum) /\ Len(<<>>) = 0
    OBVIOUS
  <2>2. file \in Seq(Datum) /\ pos \in 0 .. Len(file) /\ curPos \in Nat /\ headerPos \in 0 .. curPos
    BY <1>0, <2>1
  <2>3. /\ \A t \in Thread : stream[t].mem \in Seq(Datum)
        /\ \A i \in 1 .. NumItems : refs[i].mem \in Seq(Datum)
    BY <1>1, <1>2, <2>1
  <2>4. failures \in 0 .. MaxFaults /\ lastReal \in 0 .. NumItems /\ result \in Results
    BY <1>0 DEF Results
  <2> QED
    BY <1>3, <2>2, <2>3, <2>4 DEF Typed
<1>5. \A t \in Thread : Local(t)
  BY <1>0, <1>1, MaxSizeFacts DEF Local, Works
<1>6. In(ready) = {} /\ In(threadIndices) = {} /\ Distinct(ready)
  BY <1>0 DEF In, Distinct
<1>7. Rested
  BY <1>1, <1>6 DEF Rested, Resting
<1>8. Whole
  BY <1>0, <1>2, <1>6 DEF Whole
<1>9. Unlocks
  BY <1>1, <1>6 DEF Unlocks
<1>10. Entries(0) = <<>>
  BY <1>0, <1>3, EntriesAdd
<1>11. Settled
  BY <1>0, <1>10 DEF Settled
<1>12. Written
  BY <1>0, <1>11 DEF Written
<1>13. Over
  BY <1>0 DEF Over
<1> QED
  BY <1>4, <1>5, <1>7, <1>8, <1>9, <1>12, <1>13 DEF AInv

LEMMA StutterAInv == ASSUME IInv, AInv, UNCHANGED vars PROVE AInv'
<1>1. /\ UNCHANGED <<items, seqOut, main, itemIndex, mtItemIndex, threadIndices, refs, lastReal>>
      /\ UNCHANGED <<result, failures, file, pos, hres, curPos, headerPos, ready>>
      /\ UNCHANGED <<pc, info, stream, packed>>
  BY DEF vars, requestVars, mainVars, archiveVars, semVars, threadVars
<1>2. \A i : Entry(i)' = Entry(i)
  BY <1>1, EntrySame
<1>3. \A n : Entries(n)' = Entries(n)
  BY <1>2, EntriesSame
<1>4. AllKept
  BY <1>1, SameIsKept
<1>5. /\ NumItems' = NumItems /\ In(ready)' = In(ready) /\ In(threadIndices)' = In(threadIndices)
      /\ (Distinct(ready)' <=> Distinct(ready)) /\ (Live' <=> Live)
  BY <1>1 DEF NumItems, In, Distinct, Live
<1>6. Typed'
  BY <1>1, <1>5 DEF AInv, Typed, PackedType
<1>7. \A u \in Thread : Local(u)' /\ (Resting(u)' <=> Resting(u)) /\ (Done(u)' <=> Done(u))
  BY <1>1, <1>4, KeptStays DEF AllKept, Kept1, AInv
<1>8. Rested'
  BY <1>1, <1>5, <1>7 DEF AInv, Rested
<1>9. Whole'
  <2>1. CASE Live
    <3>1. \A u \in Thread : SameWork(u)
      BY <1>4 DEF AllKept, Kept1
    <3> QED
      BY <1>1, <2>1, <3>1, WholeStays
  <2>2. CASE ~ Live
    BY <1>5, <2>2 DEF Whole
  <2> QED
    BY <2>1, <2>2
<1>10. Unlocks'
  BY <1>1, <1>5 DEF AInv, Unlocks
<1>11. Written'
  <2>1. Settled' <=> Settled
    <3>1. Entries(itemIndex - 1)' = Entries(itemIndex - 1)
      BY <1>1, <1>3
    <3> QED
      BY <1>1, <3>1 DEF Settled
  <2>2. Fronted' <=> Fronted
    BY <1>1 DEF Fronted, FrontAt, Headed, Done, Works, Entries, Entry, Descriptor
  <2> QED
    BY <1>1, <1>5, <2>1, <2>2 DEF AInv, Written, Open
<1>12. Over'
  <2>1. Entries(NumItems)' = Entries(NumItems)
    BY <1>3, <1>5
  <2> QED
    BY <1>1, <1>5, <1>7, <2>1 DEF AInv, Over
<1> QED
  BY <1>6, <1>7, <1>8, <1>9, <1>10, <1>11, <1>12 DEF AInv

LEMMA AInvIsRight == ASSUME IInv, AInv PROVE ArchiveRight
<1>1. ASSUME hres = "ok", main = "loop", lastReal < itemIndex PROVE Settled
  BY <1>1 DEF AInv, Written, Live
<1>2. ASSUME hres = "ok", main \in {"loop", "wait"}, lastReal = itemIndex PROVE FrontOnly
  <2>1. PICK h : h = Head(threadIndices)
    OBVIOUS
  <2>2. /\ h \in Thread /\ itemIndex \in 1 .. NumItems /\ Fronted /\ info[h].pass \in Nat
        /\ itemIndex \in Nat
    BY <1>2, <2>1, FrontFacts DEF Live
  <2>3. PICK n \in 0 .. MaxSize : FrontAt(h, n)
    BY <2>1, <2>2 DEF Fronted
  <2>4. n \in Nat /\ itemIndex <= NumItems
    BY <2>2, MaxSizeFacts, MainFacts
  <2>5. Headed \in Seq(Datum)
    BY <2>4, HeadedFacts
  <2>6. PICK d \in Seq(Datum) : d = Headed
    BY <2>5
  <2>7. PICK u \in Seq(Datum) : u = Units(itemIndex, info[h].pass, n) /\ Len(u) = n
    BY <2>2, <2>4, UnitsFacts
  <2>8. file = d \o u
    BY <2>3, <2>6, <2>7 DEF FrontAt
  <2>9. Len(d \o u) = Len(d) + Len(u)
    OBVIOUS
  <2>10. Len(file) - Len(d) = n
    BY <2>4, <2>7, <2>8, <2>9
  <2>11. curPos = Len(d)
    BY <2>2, <2>6 DEF Fronted
  <2>12. n > 0 => stream[h].real
    BY <2>3, <2>4 DEF FrontAt
  <2>13. d = Entries(itemIndex - 1) \o <<PreHeader(itemIndex, Descriptor(refs[itemIndex].seq))>>
    BY <2>6 DEF Headed
  <2> QED
    BY <2>1, <2>3, <2>7, <2>8, <2>10, <2>11, <2>12, <2>13, Zenon DEF FrontOnly, MaxSize
<1>3. result = "ok" /\ main = "done" => hres = "ok" /\ file = Entries(NumItems) \o <<CentralDir>>
  BY DEF AInv, Over
<1> QED
  BY <1>1, <1>2, <1>3 DEF ArchiveRight

\* The request is what it was, and three parts of the invariant keep each other.
Request == items \in Requests /\ seqOut \in SeqModes
AllInv == Request /\ IInv /\ Pool /\ AInv

LEMMA InitAll == Init => AllInv
  BY InitInv, InitPool, InitAInv DEF AllInv, Request, Init

LEMMA NextAll == AllInv /\ [Next]_vars => AllInv'
<1> SUFFICES ASSUME AllInv, [Next]_vars PROVE AllInv'
  OBVIOUS
<1>0. Request /\ IInv /\ Pool /\ AInv
  BY DEF AllInv
<1>1. CASE MainStep
  <2>1. IInv' /\ Pool' /\ AInv'
    BY <1>0, <1>1, MainInv, MainPool, MainAInv
  <2>2. UNCHANGED requestVars
    BY <1>1 DEF MainStep, PassOver, CannotStart, StartFile, SkipItem, CopyOld, CopyFinished,
                OpenFront, Collect, WriteCentralDir, StopThread, JoinThread
  <2> QED
    BY <1>0, <2>1, <2>2 DEF AllInv, Request, requestVars
<1>2. CASE \E t \in Thread : ThreadStep(t)
  <2>1. PICK t \in Thread : ThreadStep(t)
    BY <1>2
  <2>2. IInv' /\ Pool' /\ AInv'
    BY <1>0, <2>1, ThreadInv, ThreadPoolInv, ThreadAInv
  <2>3. UNCHANGED requestVars
    BY <2>1 DEF ThreadStep, Begin, WriteBlock, WriteReal, WaitStop, WaitReal, WaitBlock,
                AllocateBlock, PassEnds, NextPass, CodeFails, ReleaseItem, Post
  <2> QED
    BY <1>0, <2>2, <2>3 DEF AllInv, Request, requestVars
<1>3. CASE UNCHANGED vars
  <2>1. UNCHANGED <<items, seqOut, pool, freeBlocks, stream, refs>>
    BY <1>3 DEF vars, requestVars, mainVars, poolVars, threadVars
  <2> QED
    BY <1>0, <1>3, <2>1, StutterInv, StutterAInv, PoolSame DEF AllInv, Request
<1> QED
  BY <1>1, <1>2, <1>3 DEF Next, Terminating

\* The archive has every entry in the order of the items, whole, at every moment,
\* as long as no write to it failed, and the update says so only then
\* (ZipUpdate.cpp:1401-1580; OutMemStream.cpp:32-37, 83-92).
THEOREM ArchiveIsRight == Spec => []ArchiveRight
<1>1. AllInv => ArchiveRight
  BY AInvIsRight DEF AllInv
<1> QED
  BY <1>1, InitAll, NextAll, PTL DEF Spec

\* No more threads are ready than there are.
LEMMA DistinctIsShort ==
  ASSUME NEW s \in Seq(Thread), Distinct(s)
  PROVE  Len(s) <= NumThreads
<1> DEFINE L == 1 .. Len(s)
<1>0. NumThreads \in Nat /\ Len(s) \in Nat
  BY ZipUpdateAssumption
<1> SUFFICES ASSUME NumThreads < Len(s) PROVE FALSE
  BY <1>0
<1>1. IsFiniteSet(L) /\ Cardinality(L) = Len(s)
  BY <1>0, FS_Interval
<1>2. Cardinality(Thread) < Cardinality(L)
  BY <1>1, ThreadsFinite
<1> DEFINE f == [k \in L |-> s[k]]
<1>3. f \in [L -> Thread] /\ \A k \in L : f[k] = s[k]
  OBVIOUS
<1> HIDE DEF f
<1>4. \E x, y \in L : x # y /\ f[x] = f[y]
  BY <1>1, <1>2, <1>3, ThreadsFinite, FS_PigeonHole
<1> QED
  BY <1>3, <1>4 DEF Distinct

\* The pool is as large as what it gave to one stream or item.
LEMMA PoolBounds ==
  ASSUME IInv, Pool
  PROVE  /\ pool \in Nat /\ freeBlocks \in 0 .. pool
         /\ \A t \in Thread : stream[t].blocks \in 0 .. pool
         /\ \A i \in 1 .. NumItems : refs[i].blocks \in 0 .. pool
<1>1. PICK V : Records(V)
  BY DEF IInv, Types
<1>2. /\ \A t \in Thread : stream[t].blocks \in Nat
      /\ \A i \in 1 .. NumItems : refs[i].blocks \in Nat
  BY <1>1 DEF Records, StreamType, RefType
<1>3. NumThreads \in Nat /\ NumItems \in Nat /\ freeBlocks \in Nat /\ pool \in Nat
      /\ Thread = 1 .. NumThreads
  BY MainFacts, ZipUpdateAssumption DEF Pool, IInv, Types, MainTypes, Thread
<1>4. BlocksIn(stream, NumThreads) \in Nat /\ BlocksIn(refs, NumItems) \in Nat
  <2>1. ASSUME NEW n, NEW m \in Nat, \A k \in 1 .. m : n[k].blocks \in Nat
        PROVE  BlocksIn(n, m) \in Nat
    <3>1. PICK g : Sums(n, m, g) /\ BlocksIn(n, m) = g[m]
      BY <2>1, BlocksAdd
    <3> QED
      BY <3>1 DEF Sums
  <2> QED
    BY <1>2, <1>3, <2>1
<1>5. freeBlocks + BlocksIn(stream, NumThreads) + BlocksIn(refs, NumItems) = pool
  BY DEF Pool
<1>6. ASSUME NEW n, NEW m \in Nat, \A k \in 1 .. m : n[k].blocks \in Nat, NEW i \in 1 .. m
      PROVE  n[i].blocks <= BlocksIn(n, m)
  BY <1>6, BlocksChange
<1>7. \A t \in Thread : stream[t].blocks <= BlocksIn(stream, NumThreads)
  BY <1>2, <1>3, <1>6
<1>8. \A i \in 1 .. NumItems : refs[i].blocks <= BlocksIn(refs, NumItems)
  BY <1>2, <1>3, <1>6
<1>9. PICK a \in Nat, b \in Nat :
        a = BlocksIn(stream, NumThreads) /\ b = BlocksIn(refs, NumItems) /\ freeBlocks + a + b = pool
  BY <1>4, <1>5
<1> QED
  BY <1>2, <1>3, <1>7, <1>8, <1>9, SMTT(30)

LEMMA AllTyped == ASSUME AllInv PROVE TypeOK
<1>0. Request /\ IInv /\ Pool /\ AInv
  BY DEF AllInv
<1>1. items \in Requests /\ seqOut \in SeqModes /\ pool \in Pools
  BY <1>0 DEF Request, Pool
<1>2. /\ main \in MainPc /\ itemIndex \in 1 .. NumItems + 1 /\ mtItemIndex \in 1 .. NumItems + 1
      /\ threadIndices \in Seq(Thread) /\ ready \in Seq(Thread) /\ pc \in [Thread -> ThreadPc]
  BY <1>0 DEF IInv, Types, MainTypes
<1>3. /\ lastReal \in 0 .. NumItems /\ result \in Results /\ failures \in 0 .. MaxFaults
      /\ pos \in 0 .. Len(file) /\ curPos \in Nat /\ headerPos \in 0 .. curPos
  BY <1>0 DEF AInv, Typed
<1>4. /\ pool \in Nat /\ freeBlocks \in 0 .. pool
      /\ \A t \in Thread : stream[t].blocks \in 0 .. pool
      /\ \A i \in 1 .. NumItems : refs[i].blocks \in 0 .. pool
  BY <1>0, PoolBounds
<1>5. readySem \in Nat /\ poolSem \in Nat /\ Len(ready) \in Nat
  BY <1>0, <1>2 DEF IInv, Types, MainTypes
<1>6. \A l : Cardinality(AtPc(l)) \in Nat
  <2>1. \A l : IsFiniteSet(AtPc(l))
    <3>1. \A l : AtPc(l) \subseteq Thread
      BY DEF AtPc
    <3> QED
      BY <3>1, ThreadsFinite, FS_Subset
  <2> QED
    BY <2>1, FS_CardinalityType
<1>7. PICK a \in Nat, b \in Nat : readySem + a = Len(ready) /\ poolSem + b = freeBlocks
  BY <1>0, <1>6 DEF IInv, Counted
<1>8. Len(ready) <= NumThreads
  BY <1>0, <1>2, DistinctIsShort DEF AInv, Rested
<1>9. readySem \in 0 .. NumThreads /\ poolSem \in 0 .. pool
  BY <1>4, <1>5, <1>7, <1>8, ZipUpdateAssumption
<1>10. ASSUME NEW t \in Thread
       PROVE  /\ stream[t].cur \in 0 .. Max(Sizes)
              /\ info[t].result \in Results \ {"none"} /\ info[t].item \in 0 .. NumItems
  <2>1. Local(t)
    BY <1>0 DEF AInv
  <2>2. info[t].result \in Results /\ stream[t].cur \in Nat
    BY <1>0, RecordFacts
  <2>3. MaxSize \in Nat /\ Max(Sizes) = MaxSize
    BY MaxSizeFacts DEF MaxSize
  <2> QED
    BY <2>1, <2>2, <2>3 DEF Local
<1> QED
  BY <1>1, <1>2, <1>3, <1>4, <1>9, <1>10 DEF TypeOK

\* Every variable keeps its type: the semaphores stay within their maximum, what a
\* stream or an item holds within the pool, positions within their stream
\* (ZipUpdate.cpp:1251, OutMemStream.h:17).
THEOREM TypesAreKept == Spec => []TypeOK
<1>1. AllInv => TypeOK
  BY AllTyped
<1> QED
  BY <1>1, InitAll, NextAll, PTL DEF Spec
=============================================================================
