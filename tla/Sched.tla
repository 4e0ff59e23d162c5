------------------------------- MODULE Sched -------------------------------
(***************************************************************************)
(* The Yuheng scheduler: kernel/scheduler/sched.c and task.c.              *)
(*                                                                         *)
(* Each public call (scheduler_init, task_create, task_ready, task_yield,  *)
(* task_exit, and the timer's scheduler_tick followed or not by schedule)  *)
(* is one action.  The run queue is the sequence of the tasks linked from  *)
(* ready_queue through task->next.  The counters nothing reads (switches,  *)
(* total_runtime, vruntime, scheduler_clock) and the policy, always        *)
(* SCHED_RR, are left out.                                                 *)
(*                                                                         *)
(* Here a call is indivisible.  Module Kernel breaks task_ready into its   *)
(* reads and writes of the list and puts the calls on the CPU, with the    *)
(* timer interrupt and the context switch; this module is its abstract     *)
(* specification.                                                          *)
(***************************************************************************)
EXTENDS Naturals, SequencesExt

CONSTANTS
  Task,                 \* the slots of task_table that test tasks get
  idle,                 \* the slot of the idle task, created by scheduler_init
  NULL,                 \* the null task pointer
  priority,             \* task->priority of each task
  DEFAULT_TIMESLICE     \* ticks in a fresh time slice (10 in sched.h)

ASSUME IdleAssumption == idle \notin Task
ASSUME NullAssumption == NULL \notin Task \cup {idle}
ASSUME PriorityAssumption == priority \in [Task -> Nat]
ASSUME SliceAssumption == DEFAULT_TIMESLICE \in Nat \ {0}

VARIABLES
  current_task,         \* the task that owns the CPU, NULL before scheduler_init
  ready_queue,          \* the run queue, head first
  state,                \* task->state; "UNUSED" for a slot not handed out yet
  time_slice,           \* task->time_slice
  scheduler_started     \* set by the first schedule() after scheduler_init

vars == <<current_task, ready_queue, state, time_slice, scheduler_started>>

Slots == Task \cup {idle}

(* TASK_BLOCKED and TASK_SLEEPING are declared in sched.h and never used. *)
TaskState == {"UNUSED", "READY", "RUNNING", "ZOMBIE"}

Queued == ToSet(ready_queue)

----------------------------------------------------------------------------
(* The run queue. *)

(* Fault: the walk stops before equals, as a stack would.                  *)
SlotBeforeEquals(q, t, i) ==
  /\ \A j \in 1 .. (i - 1) : priority[q[j]] > priority[t]
  /\ i <= Len(q) => priority[q[i]] <= priority[t]

(* The place where the walk of runqueue_enqueue stops: in front of the     *)
(* first task of lower priority, or at the end of the list.                *)
IsSlot(q, t, i) ==
  /\ \A j \in 1 .. (i - 1) : priority[q[j]] >= priority[t]
  /\ i <= Len(q) => priority[q[i]] < priority[t]

Slot(q, t) == CHOOSE i \in 1 .. (Len(q) + 1) : IsSlot(q, t, i)

runqueue_enqueue(q, t) == InsertAt(q, Slot(q, t), t)

(* Fault: the task is picked but stays linked.                             *)
DequeueNothing(q, t) == q

(* Unlinking a task that is not in the list changes nothing. *)
runqueue_dequeue(q, t) ==
  IF \E i \in 1 .. Len(q) : q[i] = t
  THEN RemoveAt(q, CHOOSE i \in 1 .. Len(q) : q[i] = t)
  ELSE q

(* Fault: the tail is picked instead of the head.                          *)
PickTail == IF ready_queue = << >> THEN idle ELSE ready_queue[Len(ready_queue)]

runqueue_pick_next == IF ready_queue = << >> THEN idle ELSE Head(ready_queue)

----------------------------------------------------------------------------
(* schedule(), entered with task states st and time slices ts.             *)

(* The previous task keeps a slice that is not used up and gets a fresh    *)
(* one otherwise.                                                          *)
Refreshed(ts, t) ==
  IF ts[t] > 0 THEN ts ELSE [ts EXCEPT ![t] = DEFAULT_TIMESLICE]

(* schedule_first_task, when there is a task to start.  The interrupted    *)
(* context is not saved, and whatever current_task was is not requeued.    *)
StartFirstTask(st, ts) ==
  LET next == runqueue_pick_next IN
  /\ ~scheduler_started
  /\ next # idle
  /\ scheduler_started' = TRUE
  /\ state' = [st EXCEPT ![next] = "RUNNING"]
  /\ current_task' = next
  /\ ready_queue' = runqueue_dequeue(ready_queue, next)
  /\ time_slice' = ts

(* There is nobody to switch to.  An unstarted scheduler whose queue is    *)
(* empty comes back from schedule_first_task, marked as started, and ends  *)
(* here too.                                                               *)
KeepCurrent(st, ts) ==
  /\ runqueue_pick_next = current_task
  /\ scheduler_started' = TRUE
  /\ state' = st
  /\ time_slice' = ts
  /\ UNCHANGED <<current_task, ready_queue>>

(* Fault: only a previous task with ticks left is queued again.            *)
SwitchDropsExpired(st, ts) ==
  LET prev    == current_task
      next    == runqueue_pick_next
      requeue == st[prev] = "RUNNING" /\ prev # idle /\ ts[prev] > 0
      queue   == IF requeue THEN runqueue_enqueue(ready_queue, prev)
                            ELSE ready_queue
  IN
  /\ scheduler_started \/ next = idle
  /\ next # prev
  /\ scheduler_started' = TRUE
  /\ ready_queue' = IF next = idle THEN queue ELSE runqueue_dequeue(queue, next)
  /\ state' = [st EXCEPT ![prev] = IF @ = "RUNNING" THEN "READY" ELSE @,
                         ![next] = "RUNNING"]
  /\ time_slice' = ts
  /\ current_task' = next

(* The next task is picked before the previous one is queued, so the       *)
(* previous one never competes with it, and is unlinked after, so it need  *)
(* not be at the head any more.                                            *)
Switch(st, ts) ==
  LET prev    == current_task
      next    == runqueue_pick_next
      requeue == st[prev] = "RUNNING" /\ prev # idle
      queue   == IF requeue THEN runqueue_enqueue(ready_queue, prev)
                            ELSE ready_queue
  IN
  /\ scheduler_started \/ next = idle
  /\ next # prev
  /\ scheduler_started' = TRUE
  /\ ready_queue' = IF next = idle THEN queue ELSE runqueue_dequeue(queue, next)
  /\ state' = [st EXCEPT ![prev] = IF @ = "RUNNING" THEN "READY" ELSE @,
                         ![next] = "RUNNING"]
  /\ time_slice' = IF requeue THEN Refreshed(ts, prev) ELSE ts
  /\ current_task' = next

schedule(st, ts) ==
  \/ StartFirstTask(st, ts)
  \/ KeepCurrent(st, ts)
  \/ Switch(st, ts)

----------------------------------------------------------------------------
(* The public calls.  Before scheduler_init current_task is NULL and both  *)
(* schedule and scheduler_tick return at once.                             *)

scheduler_init ==
  /\ current_task = NULL
  /\ current_task' = idle
  /\ ready_queue' = << >>
  /\ state' = [t \in Slots |-> IF t = idle THEN "READY" ELSE "UNUSED"]
  /\ time_slice' = [t \in Task |-> 0]
  /\ scheduler_started' = FALSE

(* The slot is filled and marked READY, but not queued. *)
task_create(t) ==
  /\ current_task # NULL
  /\ state[t] = "UNUSED"
  /\ state' = [state EXCEPT ![t] = "READY"]
  /\ time_slice' = [time_slice EXCEPT ![t] = DEFAULT_TIMESLICE]
  /\ UNCHANGED <<current_task, ready_queue, scheduler_started>>

(* Callers queue a task once, after creating it (kernel_main does); the    *)
(* code does not check it.                                                 *)
task_ready(t) ==
  /\ current_task # NULL
  /\ state[t] = "READY" /\ t \notin Queued
  /\ state' = [state EXCEPT ![t] = "READY"]
  /\ ready_queue' = runqueue_enqueue(ready_queue, t)
  /\ UNCHANGED <<current_task, time_slice, scheduler_started>>

TickedSlices ==
  IF current_task \in Task /\ time_slice[current_task] > 0
  THEN [time_slice EXCEPT ![current_task] = @ - 1]
  ELSE time_slice

(* A timer interrupt that is not a tenth one. *)
scheduler_tick ==
  /\ current_task # NULL
  /\ time_slice' = TickedSlices
  /\ UNCHANGED <<current_task, ready_queue, state, scheduler_started>>

(* Every tenth timer interrupt also calls schedule. *)
TickAndSchedule ==
  /\ current_task # NULL
  /\ schedule(state, TickedSlices)

task_yield ==
  /\ current_task \in Task
  /\ schedule(state, time_slice)

task_exit ==
  /\ current_task \in Task
  /\ schedule([state EXCEPT ![current_task] = "ZOMBIE"], time_slice)

----------------------------------------------------------------------------
Init ==
  /\ current_task = NULL
  /\ ready_queue = << >>
  /\ state = [t \in Slots |-> "UNUSED"]
  /\ time_slice = [t \in Task |-> 0]
  /\ scheduler_started = FALSE

Next ==
  \/ scheduler_init
  \/ \E t \in Task : task_create(t) \/ task_ready(t)
  \/ scheduler_tick
  \/ TickAndSchedule
  \/ task_yield
  \/ task_exit

Spec == Init /\ [][Next]_vars

(* What the policy may assume of its callers: whoever runs keeps giving    *)
(* the CPU back, and the timer keeps ticking over the idle task.  Module   *)
(* Kernel shows when the machine provides this.                            *)
Reschedule == TickAndSchedule \/ task_yield \/ task_exit

FairSpec == Spec /\ WF_vars(Reschedule)

----------------------------------------------------------------------------
(* Properties. *)

TypeOK ==
  /\ current_task \in Slots \cup {NULL}
  /\ ready_queue \in Seq(Task)
  /\ state \in [Slots -> TaskState]
  /\ time_slice \in [Task -> 0 .. DEFAULT_TIMESLICE]
  /\ scheduler_started \in BOOLEAN

Sorted(q) == \A i, j \in 1 .. Len(q) : i < j => priority[q[i]] >= priority[q[j]]

(* The list is sorted: whatever runqueue_pick_next returns outranks or     *)
(* equals everything else that waits (sched.c:86, ordered by priority).    *)
QueueSorted == Sorted(ready_queue)

(* A task is linked at most once, so the single next pointer of a task     *)
(* never has to serve two places of the list.                              *)
QueueDistinct == IsInjective(ready_queue)

(* A queued task is READY, and a READY task has ticks left and does not    *)
(* own the CPU; before scheduler_init there is none.                       *)
QueueHoldsReady ==
  /\ \A t \in Queued : state[t] = "READY"
  /\ \A t \in Task :
       state[t] = "READY" => time_slice[t] > 0 /\ current_task \notin {t, NULL}

(* Only the task that owns the CPU is RUNNING, and a task, unlike the idle *)
(* task before the first switch, is RUNNING whenever it owns the CPU: the  *)
(* test "prev->state == TASK_RUNNING" of schedule is what keeps a          *)
(* preempted task alive.  Before the first schedule() nothing is RUNNING.  *)
OnlyCurrentRuns ==
  /\ \A t \in Slots : state[t] = "RUNNING" => t = current_task
  /\ current_task \in Task =>
       state[current_task] = "RUNNING" /\ scheduler_started
  /\ ~scheduler_started => \A t \in Slots : state[t] # "RUNNING"

(* The inductive invariant. *)
Inv ==
  /\ TypeOK
  /\ QueueSorted
  /\ QueueDistinct
  /\ QueueHoldsReady
  /\ OnlyCurrentRuns

Live(t) == t \in Queued \/ t = current_task

(* Once queued, a task is queued or owns the CPU after every later call    *)
(* until its own task_exit.                                                *)
NoTaskLost ==
  [][\A t \in Task : Live(t) => Live(t)' \/ state'[t] = "ZOMBIE"]_vars

(* The CPU goes to a task only if nobody else who waits outranks it, and   *)
(* to the idle task only if nobody waits.                                  *)
DispatchesHighest ==
  [][current_task' # current_task =>
       \A u \in Queued :
         current_task' \in Task /\ priority[current_task'] >= priority[u]]_vars

Before(q, t, u) ==
  \E i, j \in 1 .. Len(q) : i < j /\ q[i] = t /\ q[j] = u

(* Round robin inside a priority: while u waits, a task t that arrives     *)
(* with the same or a lower priority, or that already was behind u, is     *)
(* behind u (sched.c:95 walks past equals).                                *)
FifoWithinPriority ==
  [][\A u, t \in ToSet(ready_queue') :
       /\ u \in Queued /\ u # t
       /\ priority[u] >= priority[t]
       /\ t \notin Queued \/ Before(ready_queue, u, t)
       => Before(ready_queue', u, t)]_vars

(* A waiting task that at most one task outranks eventually owns the CPU.  *)
(* Two tasks above it starve it for ever: they hand the CPU to each other. *)
NoStarvation ==
  \A t \in Task :
    Cardinality({u \in Task : priority[u] > priority[t]}) <= 1 =>
      (t \in Queued ~> t = current_task)
=============================================================================
