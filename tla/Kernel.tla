------------------------------- MODULE Kernel -------------------------------
(***************************************************************************)
(* The ARM64 kernel at run time: kernel_main (arch/arm64/kernel_main.c),   *)
(* the timer interrupt from the exception vector to eret (boot.S,          *)
(* exceptions.c, gic.c, timer.c), the scheduler on its linked list         *)
(* (sched.c, task.c), the context switch (context_switch.S), the test      *)
(* tasks (test_tasks.c) and kernel_panic, on the one CPU that boots.       *)
(*                                                                         *)
(* There are no locks.  What keeps the parts apart is the interrupt mask:  *)
(* taking an IRQ sets it and eret of that IRQ clears it, and switch_to     *)
(* neither saves nor restores it.  Interrupts are taken between the steps  *)
(* of kernel_main, which are the calls it makes, but for task_ready: its   *)
(* walk and its stores are steps of their own.                             *)
(*                                                                         *)
(* Module Sched is the abstract specification (Scheduler below).           *)
(***************************************************************************)
EXTENDS Naturals, Sequences, FiniteSets

CONSTANTS
  Task,                 \* the test tasks
  idle,                 \* the idle task; as a thread, idle_task_entry
  main,                 \* the boot thread, kernel_main
  NULL,
  priority,             \* task->priority
  DEFAULT_TIMESLICE,
  SCHED_TICKS,          \* timer_irq_handler calls schedule every so many ticks
  BootOrder,            \* the tasks in the order kernel_main creates them
  Forever,              \* the tasks that never exit (test_task_c)
  ITERATIONS,           \* task_yield calls of the other tasks before task_exit
  TicksHitEnqueue,      \* may an interrupt arrive inside task_ready?
  PanicKey              \* may 'p' be typed in the idle loop?

Slots == Task \cup {idle}
Thread == Slots \cup {main}

ASSUME TaskAssumption == IsFiniteSet(Task)
ASSUME ThreadAssumption == idle \notin Task /\ main \notin Slots /\ NULL \notin Thread
ASSUME PriorityAssumption == priority \in [Task -> Nat]
ASSUME TimeAssumption == /\ DEFAULT_TIMESLICE \in Nat \ {0}
                         /\ SCHED_TICKS \in Nat \ {0}
                         /\ ITERATIONS \in Nat
ASSUME BootAssumption ==
  /\ BootOrder \in Seq(Task)
  /\ \A i, j \in 1 .. Len(BootOrder) : BootOrder[i] = BootOrder[j] => i = j
  /\ Forever \subseteq Task
ASSUME SwitchAssumption == TicksHitEnqueue \in BOOLEAN /\ PanicKey \in BOOLEAN

VARIABLES
  (* sched.c and the task table *)
  current_task, ready_queue, next, state, time_slice, scheduler_started,
  (* the CPU: the running thread, and the thread each task's cpu_context   *)
  (* holds the registers of                                                *)
  cpu, cpu_context,
  (* PSTATE.I, the threads with an open IRQ frame on their stack, ELR_EL1, *)
  (* an acknowledged interrupt without its EOI, the timer, timer_ticks     *)
  masked, irq_frames, elr, irq_active, timer, ticks,
  (* kernel_main: where it is, the task at hand, and the registers curr    *)
  (* and curr->next of its runqueue_enqueue                                *)
  pc, boot, curr, succ,
  (* the tasks' own loop counters, and the tasks whose stack is allocated  *)
  budget, stacks

sched_vars == <<current_task, ready_queue, next, state, time_slice, scheduler_started>>
cpu_vars   == <<cpu, cpu_context>>
irq_vars   == <<masked, irq_frames, elr, irq_active, timer, ticks>>
main_vars  == <<pc, boot, curr, succ>>
task_vars  == <<budget, stacks>>
vars == <<sched_vars, cpu_vars, irq_vars, main_vars, task_vars>>

----------------------------------------------------------------------------
(* The run queue, as a head and next pointers.                             *)

list == [head |-> ready_queue, next |-> next]

(* The k-th node from the head; NULL past the end.                         *)
Nodes(l) ==
  LET At[k \in 0 .. Cardinality(Task)] ==
        IF k = 0 THEN l.head
        ELSE IF At[k - 1] = NULL THEN NULL ELSE l.next[At[k - 1]]
  IN  At

(* The walk goes on past n when enqueuing t.                               *)
Passes(l, t, n) == l.next[n] # NULL /\ priority[l.next[n]] >= priority[t]

(* Where the walk of runqueue_enqueue ends; nowhere if the list is a ring  *)
(* of tasks that outrank t, and then the call does not return.             *)
WalkEnds(l, t) ==
  {n \in Task : \E k \in DOMAIN Nodes(l) :
     /\ Nodes(l)[k] = n
     /\ ~Passes(l, t, n)
     /\ \A j \in 0 .. (k - 1) : Passes(l, t, Nodes(l)[j])}

(* Fault: a task put at the front forgets the old head.                    *)
EnqueueDropsRest(l, t) ==
  IF l.head = NULL \/ priority[t] > priority[l.head]
  THEN {[head |-> t, next |-> l.next]}
  ELSE {[head |-> l.head,
         next |-> [l.next EXCEPT ![t] = l.next[n], ![n] = t]] : n \in WalkEnds(l, t)}

(* The lists runqueue_enqueue can leave.                                   *)
runqueue_enqueue(l, t) ==
  IF l.head = NULL \/ priority[t] > priority[l.head]
  THEN {[head |-> t, next |-> [l.next EXCEPT ![t] = l.head]]}
  ELSE {[head |-> l.head,
         next |-> [l.next EXCEPT ![t] = l.next[n], ![n] = t]] : n \in WalkEnds(l, t)}

Predecessors(l, t) ==
  {n \in Task : l.next[n] = t /\ \E k \in DOMAIN Nodes(l) : Nodes(l)[k] = n}

runqueue_dequeue(l, t) ==
  IF l.head = t
  THEN [head |-> l.next[t], next |-> [l.next EXCEPT ![t] = NULL]]
  ELSE [head |-> l.head,
        next |-> [n \in Task |-> IF n = t THEN NULL
                                 ELSE IF n \in Predecessors(l, t) THEN l.next[t]
                                 ELSE l.next[n]]]

runqueue_pick_next == IF ready_queue = NULL THEN idle ELSE ready_queue

SetList(l) == ready_queue' = l.head /\ next' = l.next

----------------------------------------------------------------------------
(* The register contexts (context_switch.S).                               *)

(* Fault: the arguments exchanged for the save.                            *)
SavesIntoNext(prev, t) ==
  /\ cpu_context' = [cpu_context EXCEPT ![t] = cpu]
  /\ cpu' = cpu_context[t]

(* The callee-saved registers, LR and SP go to prev->cpu_context and come   *)
(* from next->cpu_context; the interrupt mask stays as it is.              *)
switch_to(prev, t) ==
  /\ cpu_context' = [cpu_context EXCEPT ![prev] = cpu]
  /\ cpu' = cpu_context[t]

(* The switch_to into the context returns to entry, on a fresh stack.      *)
arch_setup_task_context(t, entry) ==
  cpu_context' = [cpu_context EXCEPT ![t] = entry]

----------------------------------------------------------------------------
(* schedule(), with the states and slices it is entered with.              *)

(* The registers of the interrupted thread are saved nowhere.              *)
schedule_first_task(st, ts) ==
  LET t == runqueue_pick_next IN
  /\ ~scheduler_started
  /\ t # idle
  /\ scheduler_started' = TRUE
  /\ state' = [st EXCEPT ![t] = "RUNNING"]
  /\ current_task' = t
  /\ SetList(runqueue_dequeue(list, t))
  /\ time_slice' = ts
  /\ cpu' = cpu_context[t]
  /\ UNCHANGED cpu_context

KeepCurrent(st, ts) ==
  /\ runqueue_pick_next = current_task
  /\ scheduler_started' = TRUE
  /\ state' = st
  /\ time_slice' = ts
  /\ UNCHANGED <<current_task, ready_queue, next, cpu_vars>>

(* Fault: the state of the previous task is not looked at.                 *)
SwitchRequeuesAll(st, ts) ==
  LET prev    == current_task
      t       == runqueue_pick_next
      requeue == prev # idle
  IN
  /\ scheduler_started \/ t = idle
  /\ t # prev
  /\ scheduler_started' = TRUE
  /\ \E l \in IF requeue THEN runqueue_enqueue(list, prev) ELSE {list} :
       SetList(IF t = idle THEN l ELSE runqueue_dequeue(l, t))
  /\ state' = [st EXCEPT ![prev] = IF @ = "RUNNING" THEN "READY" ELSE @,
                         ![t] = "RUNNING"]
  /\ time_slice' = IF requeue /\ ts[prev] = 0
                   THEN [ts EXCEPT ![prev] = DEFAULT_TIMESLICE] ELSE ts
  /\ current_task' = t
  /\ switch_to(prev, t)

(* Fault: the previous task is queued first and competes with the others.  *)
SwitchRequeuesFirst(st, ts) ==
  LET prev    == current_task
      requeue == st[prev] = "RUNNING" /\ prev # idle
  IN
  /\ scheduler_started \/ runqueue_pick_next = idle
  /\ runqueue_pick_next # prev
  /\ scheduler_started' = TRUE
  /\ \E l \in IF requeue THEN runqueue_enqueue(list, prev) ELSE {list} :
       LET t == IF l.head = NULL THEN idle ELSE l.head IN
       /\ SetList(IF t = idle THEN l ELSE runqueue_dequeue(l, t))
       /\ state' = [st EXCEPT ![prev] = IF @ = "RUNNING" THEN "READY" ELSE @,
                              ![t] = "RUNNING"]
       /\ current_task' = t
       /\ IF t = prev THEN UNCHANGED cpu_vars ELSE switch_to(prev, t)
  /\ time_slice' = ts

Switch(st, ts) ==
  LET prev    == current_task
      t       == runqueue_pick_next
      requeue == st[prev] = "RUNNING" /\ prev # idle
  IN
  /\ scheduler_started \/ t = idle
  /\ t # prev
  /\ scheduler_started' = TRUE
  /\ \E l \in IF requeue THEN runqueue_enqueue(list, prev) ELSE {list} :
       SetList(IF t = idle THEN l ELSE runqueue_dequeue(l, t))
  /\ state' = [st EXCEPT ![prev] = IF @ = "RUNNING" THEN "READY" ELSE @,
                         ![t] = "RUNNING"]
  /\ time_slice' = IF requeue /\ ts[prev] = 0
                   THEN [ts EXCEPT ![prev] = DEFAULT_TIMESLICE] ELSE ts
  /\ current_task' = t
  /\ switch_to(prev, t)

schedule(st, ts) ==
  \/ /\ current_task = NULL
     /\ state' = st
     /\ time_slice' = ts
     /\ UNCHANGED <<current_task, ready_queue, next, scheduler_started, cpu_vars>>
  \/ /\ current_task # NULL
     /\ schedule_first_task(st, ts) \/ KeepCurrent(st, ts) \/ Switch(st, ts)

(* scheduler_tick.                                                         *)
TickedSlices ==
  IF current_task \in Task /\ time_slice[current_task] > 0
  THEN [time_slice EXCEPT ![current_task] = @ - 1]
  ELSE time_slice

----------------------------------------------------------------------------
(* The timer interrupt.                                                    *)

(* The counter reaches cntp_cval; the line stays asserted until the        *)
(* handler moves the compare value.                                        *)
TimerExpire ==
  /\ timer = "counting"
  /\ timer' = "asserted"
  /\ UNCHANGED <<sched_vars, cpu_vars, masked, irq_frames, elr, irq_active, ticks,
                 main_vars, task_vars>>

(* Reading GICC_IAR makes the timer interrupt active; while it is, the GIC  *)
(* signals no other.  Writing GICC_EOIR ends it.                           *)
gic_acknowledge_irq == timer = "asserted" /\ ~irq_active /\ irq_active' = TRUE

gic_end_of_interrupt == irq_active' = FALSE

(* Inside runqueue_enqueue, between its first load and its last store; at   *)
(* load_head kernel_main is between two task_ready calls.                   *)
EnqueueSteps == {"walk", "link_front", "set_head", "link_after", "set_next"}

(* Fault: the end of the interrupt comes first, and a switch unmasks.       *)
TimerIrqUnmasks ==
  /\ ~masked /\ timer = "asserted" /\ ~irq_active
  /\ TicksHitEnqueue \/ ~(cpu = main /\ pc \in EnqueueSteps)
  /\ irq_frames' = irq_frames \cup {cpu}
  /\ elr' = cpu
  /\ irq_active' = FALSE
  /\ ticks' = (ticks + 1) % SCHED_TICKS
  /\ IF ticks' = 0
     THEN schedule(state, TickedSlices)
     ELSE /\ time_slice' = TickedSlices
          /\ UNCHANGED <<current_task, ready_queue, next, state, scheduler_started,
                         cpu_vars>>
  /\ masked' = (cpu' = cpu)
  /\ UNCHANGED <<timer, main_vars, task_vars>>

(* irq_handler stacks the registers but neither ELR_EL1 nor SPSR_EL1, the  *)
(* GIC is acknowledged, and timer_irq_handler counts the tick and perhaps  *)
(* schedules.  If that switches, the rest of the handler waits until the   *)
(* interrupted thread is switched back to.                                 *)
TimerIrq ==
  /\ ~masked /\ gic_acknowledge_irq
  /\ TicksHitEnqueue \/ ~(cpu = main /\ pc \in EnqueueSteps)
  /\ masked' = TRUE
  /\ irq_frames' = irq_frames \cup {cpu}
  /\ elr' = cpu
  /\ ticks' = (ticks + 1) % SCHED_TICKS
  /\ IF ticks' = 0
     THEN schedule(state, TickedSlices)
     ELSE /\ time_slice' = TickedSlices
          /\ UNCHANGED <<current_task, ready_queue, next, state, scheduler_started,
                         cpu_vars>>
  /\ UNCHANGED <<timer, main_vars, task_vars>>

(* The rest of the handler: the timer is rearmed, the interrupt ended, the *)
(* registers restored, and eret returns to wherever ELR_EL1 points.        *)
IrqExit ==
  /\ cpu \in irq_frames
  /\ timer' = "counting"
  /\ gic_end_of_interrupt
  /\ irq_frames' = irq_frames \ {cpu}
  /\ masked' = FALSE
  /\ cpu' = elr
  /\ UNCHANGED <<sched_vars, cpu_context, elr, ticks, main_vars, task_vars>>

----------------------------------------------------------------------------
(* kernel_main.                                                            *)

MainAt(label) == cpu = main /\ main \notin irq_frames /\ pc = label

(* gic_init and timer_init; interrupts are masked since reset.             *)
TimerInit ==
  /\ MainAt("timer_init")
  /\ timer' = "counting"
  /\ ticks' = 0
  /\ pc' = "interrupts_enable"
  /\ UNCHANGED <<sched_vars, cpu_vars, masked, irq_frames, elr, irq_active,
                 boot, curr, succ, task_vars>>

(* The three places that touch the mask.  The allocator tests that follow  *)
(* the first run with interrupts on.                                       *)
SetMask(from, value, to) ==
  /\ MainAt(from)
  /\ masked' = value
  /\ pc' = to
  /\ UNCHANGED <<sched_vars, cpu_vars, irq_frames, elr, irq_active, timer, ticks,
                 boot, curr, succ, task_vars>>

InterruptsEnable == SetMask("interrupts_enable", FALSE, "irq_off")
IrqOff == SetMask("irq_off", TRUE, "scheduler_init")
IrqOn == SetMask("irq_on", FALSE, "create")

(* The idle task gets a context that starts idle_task_entry, and           *)
(* current_task says from now on that kernel_main is the idle task.        *)
SchedulerInit ==
  /\ MainAt("scheduler_init")
  /\ current_task' = idle
  /\ ready_queue' = NULL
  /\ next' = [t \in Task |-> NULL]
  /\ state' = [t \in Slots |-> IF t = idle THEN "READY" ELSE "UNUSED"]
  /\ time_slice' = [t \in Task |-> 0]
  /\ arch_setup_task_context(idle, idle)
  /\ pc' = "irq_on"
  /\ UNCHANGED <<scheduler_started, cpu, irq_vars, boot, curr, succ, task_vars>>

(* One task_create, with its stack and a context that starts its function. *)
TaskCreate ==
  LET t == BootOrder[boot] IN
  /\ MainAt("create")
  /\ boot <= Len(BootOrder)
  /\ state' = [state EXCEPT ![t] = "READY"]
  /\ time_slice' = [time_slice EXCEPT ![t] = DEFAULT_TIMESLICE]
  /\ arch_setup_task_context(t, t)
  /\ stacks' = stacks \cup {t}
  /\ boot' = boot + 1
  /\ UNCHANGED <<current_task, ready_queue, next, scheduler_started, cpu, irq_vars,
                 pc, curr, succ, budget>>

AllCreated ==
  /\ MainAt("create")
  /\ boot > Len(BootOrder)
  /\ boot' = 1
  /\ pc' = "load_head"
  /\ UNCHANGED <<sched_vars, cpu_vars, irq_vars, curr, succ, task_vars>>

(* task_ready of the next task: runqueue_enqueue with the list head and    *)
(* curr->next in registers.                                                *)
Readied == BootOrder[boot]

LoadHead ==
  /\ MainAt("load_head")
  /\ boot <= Len(BootOrder)
  /\ state' = [state EXCEPT ![Readied] = "READY"]
  /\ curr' = ready_queue
  /\ pc' = IF ready_queue = NULL \/ priority[Readied] > priority[ready_queue]
           THEN "link_front" ELSE "walk"
  /\ UNCHANGED <<current_task, ready_queue, next, time_slice, scheduler_started,
                 cpu_vars, irq_vars, boot, succ, task_vars>>

WalkOn ==
  /\ MainAt("walk")
  /\ succ' = next[curr]
  /\ IF next[curr] # NULL /\ priority[next[curr]] >= priority[Readied]
     THEN curr' = next[curr] /\ UNCHANGED pc
     ELSE pc' = "link_after" /\ UNCHANGED curr
  /\ UNCHANGED <<sched_vars, cpu_vars, irq_vars, boot, task_vars>>

(* The store to task->next.                                                *)
LinkTask(label, to, target) ==
  /\ MainAt(label)
  /\ next' = [next EXCEPT ![Readied] = target]
  /\ pc' = to
  /\ UNCHANGED <<current_task, ready_queue, state, time_slice, scheduler_started,
                 cpu_vars, irq_vars, boot, curr, succ, task_vars>>

LinkFront == LinkTask("link_front", "set_head", curr)
LinkAfter == LinkTask("link_after", "set_next", succ)

(* The store that makes the task reachable.                                *)
SetHead ==
  /\ MainAt("set_head")
  /\ ready_queue' = Readied
  /\ boot' = boot + 1
  /\ pc' = "load_head"
  /\ UNCHANGED <<current_task, next, state, time_slice, scheduler_started,
                 cpu_vars, irq_vars, curr, succ, task_vars>>

SetNext ==
  /\ MainAt("set_next")
  /\ next' = [next EXCEPT ![curr] = Readied]
  /\ boot' = boot + 1
  /\ pc' = "load_head"
  /\ UNCHANGED <<current_task, ready_queue, state, time_slice, scheduler_started,
                 cpu_vars, irq_vars, curr, succ, task_vars>>

AllReady ==
  /\ MainAt("load_head")
  /\ boot > Len(BootOrder)
  /\ pc' = "idle_loop"
  /\ UNCHANGED <<sched_vars, cpu_vars, irq_vars, boot, curr, succ, task_vars>>

(* 'p' on the UART: kernel_panic prints its report with interrupts as they *)
(* are, and only arch_halt masks them, for good.                           *)
Panic ==
  /\ PanicKey
  /\ MainAt("idle_loop")
  /\ pc' = "panic"
  /\ UNCHANGED <<sched_vars, cpu_vars, irq_vars, boot, curr, succ, task_vars>>

Halt == SetMask("panic", TRUE, "halted")

MainStep ==
  \/ TimerInit \/ InterruptsEnable \/ IrqOff \/ SchedulerInit \/ IrqOn
  \/ TaskCreate \/ AllCreated
  \/ LoadHead \/ WalkOn \/ LinkFront \/ LinkAfter \/ SetHead \/ SetNext
  \/ AllReady \/ Halt

----------------------------------------------------------------------------
(* The test tasks.                                                         *)

Yield(t) ==
  /\ cpu = t /\ t \notin irq_frames
  /\ t \in Forever \/ budget[t] > 0
  /\ schedule(state, time_slice)
  /\ budget' = IF t \in Forever THEN budget ELSE [budget EXCEPT ![t] = @ - 1]
  /\ UNCHANGED <<irq_vars, main_vars, stacks>>

(* task_exit runs on the stack it has just freed until it switches away,   *)
(* and would return if schedule did.                                       *)
Exit(t) ==
  /\ cpu = t /\ t \notin irq_frames
  /\ t \notin Forever /\ budget[t] = 0
  /\ state[t] # "ZOMBIE"
  /\ schedule([state EXCEPT ![current_task] = "ZOMBIE"], time_slice)
  /\ stacks' = stacks \ {current_task}
  /\ UNCHANGED <<irq_vars, main_vars, budget>>

----------------------------------------------------------------------------
Init ==
  /\ current_task = NULL /\ ready_queue = NULL
  /\ next = [t \in Task |-> NULL]
  /\ state = [t \in Slots |-> "UNUSED"]
  /\ time_slice = [t \in Task |-> 0]
  /\ scheduler_started = FALSE
  /\ cpu = main
  /\ cpu_context = [t \in Slots |-> NULL]
  /\ masked = TRUE /\ irq_frames = {} /\ elr = NULL /\ irq_active = FALSE
  /\ timer = "off" /\ ticks = 0
  /\ pc = "timer_init" /\ boot = 1 /\ curr = NULL /\ succ = NULL
  /\ budget = [t \in Task |-> ITERATIONS]
  /\ stacks = {}

Next ==
  \/ TimerExpire \/ TimerIrq \/ IrqExit
  \/ MainStep \/ Panic
  \/ \E t \in Task : Yield(t) \/ Exit(t)

Spec == Init /\ [][Next]_vars

(* The timer counts, a pending interrupt is taken if it stays unmasked,    *)
(* and the running thread gets on with its code.  Interrupts disable       *)
(* kernel_main's steps again and again, but the handler rearms the timer a *)
(* whole interval (10 ms) ahead, so strong fairness is what it gets.       *)
(* Nobody has to type 'p'.                                                 *)
Fairness ==
  /\ WF_vars(TimerExpire) /\ WF_vars(TimerIrq) /\ WF_vars(IrqExit)
  /\ SF_vars(MainStep)
  /\ WF_vars(\E t \in Task : Yield(t) \/ Exit(t))

FairSpec == Spec /\ Fairness

----------------------------------------------------------------------------
(* The abstract specification. *)

QueueSeq ==
  LET at == Nodes(list)
  IN  [i \in 1 .. Cardinality({k \in DOMAIN at : at[k] # NULL}) |-> at[i - 1]]

Scheduler == INSTANCE Sched WITH ready_queue <- QueueSeq

(* The calls on the linked list, spread over boot, interrupts and tasks,   *)
(* implement the scheduler of Sched, if no interrupt hits a task_ready.    *)
SchedulerSpec == Scheduler!Spec

----------------------------------------------------------------------------
(* Properties. *)

OnQueue(t) == \E k \in DOMAIN Nodes(list) : Nodes(list)[k] = t

TypeOK ==
  /\ current_task \in Slots \cup {NULL}
  /\ ready_queue \in Task \cup {NULL}
  /\ next \in [Task -> Task \cup {NULL}]
  /\ state \in [Slots -> {"UNUSED", "READY", "RUNNING", "ZOMBIE"}]
  /\ time_slice \in [Task -> 0 .. DEFAULT_TIMESLICE]
  /\ scheduler_started \in BOOLEAN
  /\ cpu \in Thread
  /\ cpu_context \in [Slots -> Thread \cup {NULL}]
  /\ masked \in BOOLEAN /\ irq_active \in BOOLEAN
  /\ irq_frames \subseteq Thread
  /\ elr \in Thread \cup {NULL}
  /\ timer \in {"off", "counting", "asserted"}
  /\ ticks \in 0 .. (SCHED_TICKS - 1)
  /\ pc \in EnqueueSteps \cup {"timer_init", "interrupts_enable", "irq_off",
            "scheduler_init", "irq_on", "create", "load_head", "idle_loop",
            "panic", "halted"}
  /\ boot \in 1 .. (Len(BootOrder) + 1)
  /\ curr \in Task \cup {NULL} /\ succ \in Task \cup {NULL}
  /\ budget \in [Task -> 0 .. ITERATIONS]
  /\ stacks \subseteq Task

(* ELR_EL1 is saved nowhere, so an eret is right only if no interrupt was  *)
(* taken since: at the end of a handler it still points into the thread    *)
(* whose frame the handler pops.                                           *)
EretReturnsToOwner == cpu \in irq_frames => masked /\ elr = cpu

(* What makes that true: only kernel_main ever runs with interrupts on,    *)
(* and every acknowledged interrupt belongs to the one open frame.         *)
OnlyMainInterrupted ==
  /\ cpu # main => masked
  /\ irq_frames \subseteq {main}
  /\ irq_active <=> irq_frames # {}

(* The thread on the CPU is the one current_task names; kernel_main runs   *)
(* under the name of the idle task.                                        *)
CpuIsCurrent ==
  /\ cpu \in Slots => current_task = cpu
  /\ cpu = main => current_task \in {idle, NULL}

(* Time slices never run down: a task runs masked, so scheduler_tick never *)
(* finds one as current_task, and no task is ever preempted.               *)
SlicesUntouched ==
  \A t \in Task : state[t] # "UNUSED" => time_slice[t] = DEFAULT_TIMESLICE

(* A thread on the CPU runs on a stack that is still allocated, and no     *)
(* queued task has lost its own.                                           *)
RunsOnLiveStack ==
  /\ cpu \in Task => cpu \in stacks
  /\ \A t \in Task : OnQueue(t) => t \in stacks

Enqueued(t) ==
  \E i \in 1 .. Len(BootOrder) :
    /\ BootOrder[i] = t
    /\ pc \notin {"timer_init", "interrupts_enable", "irq_off", "scheduler_init",
                  "irq_on", "create"}
    /\ i < boot

(* A task handed to task_ready is on the queue as long as it is READY.     *)
ReadyTasksQueued ==
  \A t \in Task : Enqueued(t) /\ state[t] = "READY" => OnQueue(t)

(* kernel_main's context survives: it runs, or some task's context has it. *)
MainAlive == cpu = main \/ \E t \in Slots : cpu_context[t] = main

(* Once scheduling has started with kernel_main's context kept, every      *)
(* waiting task gets the CPU, unless the kernel panics.                    *)
WaitingTasksRun ==
  \A t \in Task :
    OnQueue(t) /\ scheduler_started /\ MainAlive
      ~> cpu = t \/ pc \in {"panic", "halted"}

(* Once scheduling has started with kernel_main's context kept, a panic    *)
(* ends in arch_halt, although its report is printed with interrupts on    *)
(* and a tick in it may hand the CPU to the tasks: whoever yields alone    *)
(* hands it back.                                                          *)
PanicHalts == pc = "panic" /\ scheduler_started /\ MainAlive ~> pc = "halted"

----------------------------------------------------------------------------
(* The inductive invariant behind the interrupt discipline.                *)

(* The tasks task_create has given a context.                              *)
Created == {t \in Task : cpu_context[t] = t}

BeforeSchedulerInit == {"timer_init", "interrupts_enable", "irq_off", "scheduler_init"}
ReadyPhase == EnqueueSteps \cup {"load_head", "idle_loop", "panic", "halted"}

(* Only created tasks are reachable through a pointer, so whatever is      *)
(* picked has a context to switch to.                                      *)
Pointers ==
  /\ current_task \in Created \cup {idle, NULL}
  /\ ready_queue \in Created \cup {NULL}
  /\ next \in [Task -> Created \cup {NULL}]
  /\ curr \in Created \cup {NULL}
  /\ succ \in Created \cup {NULL}
  /\ \A t \in Task : cpu_context[t] \in {t, NULL}
  /\ cpu_context[idle] \in {idle, main, NULL}

(* What kernel_main has reached.                                           *)
BootProgress ==
  /\ current_task = NULL <=> pc \in BeforeSchedulerInit
  /\ current_task # NULL => cpu_context[idle] # NULL
  /\ pc \in BeforeSchedulerInit \cup {"irq_on"} => boot = 1 /\ Created = {}
  /\ pc \in EnqueueSteps => boot <= Len(BootOrder)
  /\ pc \in {"walk", "link_after", "set_next"} => curr # NULL
  /\ pc = "create" => \A i \in 1 .. Len(BootOrder) : i < boot => BootOrder[i] \in Created
  /\ pc \in ReadyPhase => \A i \in 1 .. Len(BootOrder) : BootOrder[i] \in Created

(* kernel_main leaves the CPU only inside an interrupt, and that interrupt *)
(* stays open, with everything masked and ELR_EL1 untouched, until it is   *)
(* back.                                                                   *)
OpenInterrupt ==
  /\ irq_frames \in {{}, {main}}
  /\ cpu # main => irq_frames = {main}
  /\ irq_frames # {} => masked /\ elr = main
  /\ irq_active <=> irq_frames # {}

(* A created task has a full slice; a slot without a task is UNUSED.       *)
FullSlices ==
  \A t \in Task : (state[t] = "UNUSED" <=> t \notin Created)
                  /\ (t \in Created => time_slice[t] = DEFAULT_TIMESLICE)

IrqInv ==
  /\ TypeOK
  /\ Pointers
  /\ BootProgress
  /\ OpenInterrupt
  /\ CpuIsCurrent
  /\ FullSlices

----------------------------------------------------------------------------
(* What comments say of the kernel and what it does not do.                *)

(* timer.c:68, "Trigger task switch every 10 ticks": the timer is rearmed  *)
(* again and again, so ticks keep coming.                                  *)
TicksKeepComing == []<>(timer = "counting")

=============================================================================
