---------------------------- MODULE MCZipUpdate ----------------------------
\* An instance of ZipUpdate for TLC.
EXTENDS ZipUpdate

\* Three files for two threads; with an item of the old archive before, between
\* and after files.
MCRequests == {<<"file", "file", "file">>, <<"old", "file", "old", "file">>}
=============================================================================
