------------------------- MODULE MCFolderOutStream -------------------------
(* Instances of FolderOutStream for TLC. *)
EXTENDS FolderOutStream

Data(n, g) == [size |-> n, crcDefined |-> TRUE, folder |-> g]
NoCrc(n, g) == [size |-> n, crcDefined |-> FALSE, folder |-> g]
Empty(g)   == [size |-> 0, crcDefined |-> FALSE, folder |-> g]

\* A solid folder of two files with an empty one between them, an empty file in
\* no folder, and a folder of one file.
Archive == <<Data(2, 0), Empty(0), Data(1, 0), Empty(NoFolder), NoCrc(1, 1)>>

\* Everything; from the middle; only the last of a solid folder; two folders;
\* only the first of a solid folder.
SomeRequests == {<<0, 1, 2>>, <<1, 2, 3>>, <<2>>, <<0, 4>>, <<0, 1>>}
=============================================================================
