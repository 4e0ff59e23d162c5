----------------------------- MODULE TaskTable -----------------------------
(***************************************************************************)
(* The table of tasks (task.c, sched.c) on the kernel heap: slots are      *)
(* given out in order and never again, and a task's stack is a block of    *)
(* the heap from its task_create to its task_exit.  Any other caller may   *)
(* use the heap in between.                                                *)
(*                                                                         *)
(* A pointer to a task is the number of its slot.  Which task runs, and so *)
(* may exit, is left to the scheduler: any task that was created may.      *)
(***************************************************************************)
EXTENDS Heap

CONSTANTS
  MAX_TASKS,
  IdleStack,            \* the stack size of the idle task
  StackSizes,           \* those of the others
  FAULT                 \* the kernel stored through a NULL pointer

ASSUME TaskAssumption ==
  /\ MAX_TASKS \in Nat /\ MAX_TASKS > 1
  /\ IdleStack \in Sizes \ {0} /\ StackSizes \subseteq Sizes \ {0}
  /\ FAULT \notin Nat

Slot == 0 .. (MAX_TASKS - 1)
IDLE == 1               \* the first slot task_create gives out

VARIABLES
  task_table, next_pid,
  idle_task             \* NULL before scheduler_init

taskVars == <<task_table, next_pid, idle_task>>
tableVars == <<vars, taskVars>>

Unused == [pid |-> 0, state |-> "UNUSED", kernel_stack |-> NULL, kernel_stack_size |-> 0]

(* The tasks whose creator got a pointer, until they exit.                 *)
LiveTasks ==
  {s \in Slot : task_table[s].state = "READY" /\ task_table[s].kernel_stack # NULL}

Stacks == {task_table[s].kernel_stack : s \in LiveTasks}

----------------------------------------------------------------------------
(* The slot's record once task_create has got its stack, or NULL for it.   *)
Filled(pid, stack, size) ==
  [pid |-> pid, state |-> "READY", kernel_stack |-> stack, kernel_stack_size |-> size]

(* The pointer kmalloc returned.                                           *)
Allocated(stack) == stack \in DOMAIN live' \ DOMAIN live

(* Only a table that is cleared is filled from the first slot on.  The     *)
(* idle task's slot keeps its place, but its pid becomes 0; without a      *)
(* stack for it, the store of that pid goes through NULL.                  *)
scheduler_init ==
  /\ free_list # NULL /\ idle_task = NULL
  /\ next_pid' = IDLE + 1
  /\ \/ /\ kmalloc(IdleStack)
        /\ \E stack \in DOMAIN live' :
             /\ Allocated(stack)
             /\ task_table' = [s \in Slot |-> IF s = IDLE THEN Filled(0, stack, IdleStack)
                                             ELSE Unused]
        /\ idle_task' = IDLE
     \/ /\ kmalloc_fails(IdleStack)
        /\ task_table' = [s \in Slot |-> IF s = IDLE THEN Filled(IDLE, NULL, IdleStack)
                                        ELSE Unused]
        /\ idle_task' = FAULT

(* Fault: a full table is started over.                                    *)
CreateWraps(size) ==
  /\ idle_task = IDLE
  /\ next_pid' = (next_pid + 1) % MAX_TASKS
  /\ \/ /\ kmalloc(size)
        /\ \E stack \in DOMAIN live' :
             /\ Allocated(stack)
             /\ task_table' = [task_table EXCEPT ![next_pid] = Filled(next_pid, stack, size)]
     \/ /\ kmalloc_fails(size)
        /\ task_table' = [task_table EXCEPT ![next_pid] = Filled(next_pid, NULL, size)]
  /\ UNCHANGED idle_task

(* The slot is used up even if there is no stack for its task.             *)
task_create(size) ==
  /\ idle_task = IDLE /\ next_pid < MAX_TASKS
  /\ next_pid' = next_pid + 1
  /\ \/ /\ kmalloc(size)
        /\ \E stack \in DOMAIN live' :
             /\ Allocated(stack)
             /\ task_table' = [task_table EXCEPT ![next_pid] = Filled(next_pid, stack, size)]
     \/ /\ kmalloc_fails(size)
        /\ task_table' = [task_table EXCEPT ![next_pid] = Filled(next_pid, NULL, size)]
  /\ UNCHANGED idle_task

(* The zombie keeps its slot, and its pointer to the stack.                *)
task_exit(s) ==
  /\ s \in LiveTasks \ {IDLE}
  /\ task_table' = [task_table EXCEPT ![s].state = "ZOMBIE"]
  /\ kfree(task_table[s].kernel_stack)
  /\ UNCHANGED <<next_pid, idle_task>>

(* Everybody else frees what they hold, which is no task's stack.          *)
OtherCall ==
  /\ idle_task # FAULT
  /\ \/ kmalloc_init
     \/ \E size \in Sizes :
          \/ kmalloc(size)
          \/ \E align \in Aligns : kmalloc_aligned(size, align)
          \/ kmalloc_fails(size)
     \/ \E ptr \in Freeable \ Stacks : kfree(ptr)
  /\ UNCHANGED taskVars

----------------------------------------------------------------------------
TaskInit ==
  /\ Init
  /\ task_table = [s \in Slot |-> Unused] /\ next_pid = 1 /\ idle_task = NULL

TaskNext ==
  \/ scheduler_init
  \/ \E size \in StackSizes : task_create(size)
  \/ \E s \in Slot : task_exit(s)
  \/ OtherCall

TaskSpec == TaskInit /\ [][TaskNext]_tableVars

----------------------------------------------------------------------------
(* Properties. *)

(* Every task that has not exited has a stack of its own in the heap, of   *)
(* the size it was created with; a pid is given to one task only.          *)
StacksOwned ==
  /\ \A s \in LiveTasks :
       /\ task_table[s].kernel_stack \in DOMAIN live
       /\ live[task_table[s].kernel_stack] = task_table[s].kernel_stack_size
  /\ \A s, t \in LiveTasks :
       \/ task_table[s].kernel_stack = task_table[t].kernel_stack
       \/ task_table[s].pid = task_table[t].pid
       => s = t

(* A pointer to a task names that task for ever: its slot is given to no   *)
(* other, though the task may have exited, and a zombie does not come back.*)
HandlesStable ==
  [][idle_task # NULL =>
       \A s \in Slot : task_table[s] # Unused =>
         \/ task_table'[s] = task_table[s]
         \/ /\ task_table[s].state = "READY"
            /\ task_table'[s] = [task_table[s] EXCEPT !.state = "ZOMBIE"]]_tableVars
=============================================================================
