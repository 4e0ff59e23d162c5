---------------------------- MODULE MCTaskTable ----------------------------
(***************************************************************************)
(* Instance of TaskTable, and of Heap below it, for TLC: a heap of 272     *)
(* bytes, in which a block is cut for the small requests and handed out    *)
(* whole for the large one, and a table of idle and two other tasks, whose *)
(* stacks all fit at once if nobody else has much.                         *)
(***************************************************************************)
EXTENDS TaskTable

MCSizes == {0, 1, 40, 100}
MCAligns == {8, 12, 32}
MCStackSizes == {40, 100}
=============================================================================
