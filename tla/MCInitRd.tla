------------------------------ MODULE MCInitRd ------------------------------
(* A RAM disk of two files, stored one after the other, as initrd_create   *)
(* makes it; buffers smaller than, as large as and larger than the files.  *)
EXTENDS InitRd

MCSizes == <<5, 7>>
MCNames == <<"welcome.txt", "readme.txt">>
=============================================================================
