------------------------------ MODULE MCKernel ------------------------------
(***************************************************************************)
(* Instances of Kernel for TLC: the three test tasks of kernel_main with   *)
(* their priorities, in the order it creates them, and for the properties  *)
(* of the queue a fourth, that all the others outrank.                     *)
(***************************************************************************)
EXTENDS Kernel, TLC

CONSTANTS task_a, task_b, task_c, task_d

MCTask == {task_a, task_b, task_c}
MCPriority == (task_a :> 5) @@ (task_b :> 5) @@ (task_c :> 3)
MCBootOrder == <<task_a, task_b, task_c>>
MCForever == {task_c}
FourTasks == MCTask \cup {task_d}
FourPriorities == MCPriority @@ (task_d :> 2)
FourInOrder == Append(MCBootOrder, task_d)
=============================================================================
