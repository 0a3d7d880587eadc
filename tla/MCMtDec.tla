------------------------------ MODULE MCMtDec ------------------------------
\* An instance of MtDec for TLC.
EXTENDS MtDec

Stream(kind, outSize, finish) == [kind |-> kind, outSize |-> outSize, finish |-> finish]

\* A good stream, a part of one that ends inside a block, a stream without its end mark,
\* with a block that is too large or does not decode, with bytes behind its
\* end, with no content, and no stream at all.
MCInputs ==
  {Stream(<<"head", "head", "body", "head", "head", "end">>, 5, TRUE),
   Stream(<<"head", "head", "body", "head", "end">>, 2, FALSE),
   Stream(<<"head", "head", "body", "head">>, 4, TRUE),
   Stream(<<"head", "head", "body", "body", "end">>, 4, TRUE),
   Stream(<<"head", "bad", "head", "head", "end">>, 4, FALSE),
   Stream(<<"head", "head", "end", "head">>, 2, TRUE),
   Stream(<<"end">>, 0, TRUE),
   Stream(<<"alien">>, 1, FALSE)}
=============================================================================
