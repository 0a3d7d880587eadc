----------------------------- MODULE MCLzFindMt -----------------------------
\* An instance of LzFindMt for TLC.
EXTENDS LzFindMt
=============================================================================
