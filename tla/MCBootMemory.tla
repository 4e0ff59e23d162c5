---------------------------- MODULE MCBootMemory ----------------------------
(***************************************************************************)
(* Instance of BootMemory for TLC: bytes of two bits and words of two      *)
(* bytes, so that 13 pages of 2 bytes need a bitmap of 4 pages; the kernel *)
(* finds enough pages, or runs out of them at any point.                   *)
(***************************************************************************)
EXTENDS BootMemory

MCAddress == 0 .. (MEM_END + 1)
=============================================================================
