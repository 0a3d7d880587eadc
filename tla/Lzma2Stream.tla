---------------------------- MODULE Lzma2Stream ----------------------------
(***************************************************************************)
(* An LZMA2 stream as the multi-thread decoder sees it: how it is cut into *)
(* blocks (Parse of C/Lzma2DecMt.c over Lzma2Dec_Parse of C/Lzma2Dec.c)    *)
(* and what decoding a piece of it gives (Lzma2Dec_DecodeToDic).           *)
(*                                                                         *)
(* The stream is a sequence kind of units.  "head" is a chunk that resets  *)
(* the dictionary, so that decoding can begin there; "body" any other      *)
(* chunk; "bad" a chunk that parses but does not decode; "end" the end     *)
(* mark; "alien" a byte that is no control byte.  The unit of number u     *)
(* decodes to one unit of output, called u too.                            *)
(***************************************************************************)
EXTENDS Integers, Sequences, FiniteSetsExt

Kinds == {"head", "body", "bad", "end", "alien"}

(* The loop of Lzma2DecMt_MtCallback_Parse over the units w, after out     *)
(* units of the same block.  It stops at the first unit that needs a       *)
(* decision: the end mark, a byte that is no control byte, a chunk beyond  *)
(* limit, or the end of w.  With partial (checkFinishBlock is false) it    *)
(* stops as soon as limit is reached.                                      *)
StopAt(kind, w, out, limit) ==
  Min({Len(w) + 1} \cup {i \in 1 .. Len(w) : kind[w[i]] \in {"end", "alien"}}
                   \cup {i \in 1 .. Len(w) : out + i > limit})

StopStatus(kind, w, out, limit, partial) ==
  LET i    == StopAt(kind, w, out, limit)
      full == out + i > limit
  IN IF full /\ partial         THEN "notFinished"
     ELSE IF i > Len(w)         THEN "more"
     ELSE IF kind[w[i]] = "end" THEN "mark"
     ELSE IF full               THEN "overflow"
     ELSE "notSpecified"

(* Where a new block may begin.  Small blocks are joined, so any head may  *)
(* end the block; but the blocks already seen are never held back for the  *)
(* sake of one that is not complete in w.                                  *)
Parse(kind, w, out, limit, partial) ==
  LET stop   == StopAt(kind, w, out, limit)
      status == StopStatus(kind, w, out, limit, partial)
      last   == IF status = "overflow" THEN stop ELSE stop - 1
      heads  == {i \in 1 .. last : kind[w[i]] = "head" /\ out + i > 1}
      used   == IF status \in {"mark", "notSpecified"} THEN stop ELSE stop - 1
  IN {[status |-> "new", size |-> i - 1, out |-> out + i - 1] : i \in heads}
     \cup (IF heads = {} \/ status \in {"mark", "notSpecified"}
             THEN {[status |-> status, size |-> used, out |-> out + stop - 1]} ELSE {})

(* Lzma2Dec_DecodeToDic over the units w with room for so many units of    *)
(* output; with mark (LZMA_FINISH_END) it reads on for the end mark when   *)
(* the room is used up.  A decoder that was just initialised (fresh)       *)
(* accepts only a head or the end mark.                                    *)
Decode(kind, w, fresh, room, mark) ==
  LET stop == Min({Len(w) + 1}
                  \cup {i \in 1 .. Len(w) : kind[w[i]] \in {"end", "alien", "bad"}}
                  \cup {i \in 1 .. Len(w) : i > room}
                  \cup {i \in 1 .. Len(w) : i = 1 /\ fresh /\ kind[w[i]] # "head"})
      status == IF stop > room /\ ~ mark       THEN "full"
                ELSE IF stop > Len(w)         THEN "more"
                ELSE IF kind[w[stop]] = "end" THEN "mark"
                ELSE "error"
  IN [out    |-> SubSeq(w, 1, stop - 1),
      used   |-> IF status = "mark" THEN stop ELSE stop - 1,
      status |-> status]

\* What a single thread makes of the whole stream, with nothing failing, and
\* what that says of the stream.
Ideal(kind, outSize, finish) ==
  Decode(kind, [u \in 1 .. Len(kind) |-> u], TRUE, outSize, finish)

Verdict(kind, outSize, finish) ==
  LET d     == Ideal(kind, outSize, finish)
      whole == d.used = Len(kind) /\ Len(d.out) = outSize
  IN CASE finish /\ whole /\ d.status = "mark"       -> "good"
       [] finish /\ whole /\ d.status = "more"       -> "unmarked"
       [] ~ finish /\ d.status \in {"mark", "full"}   -> "good"
       [] OTHER                                      -> "bad"
=============================================================================
