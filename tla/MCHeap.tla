------------------------------- MODULE MCHeap -------------------------------
(***************************************************************************)
(* Instance of Heap for TLC: a heap of 272 bytes, in which a block is cut  *)
(* for the small requests and handed out whole for the large one.          *)
(***************************************************************************)
EXTENDS Heap

MCSizes == {0, 1, 40, 100}
MCAligns == {8, 12, 32}
=============================================================================
