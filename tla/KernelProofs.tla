---------------------------- MODULE KernelProofs ----------------------------
(***************************************************************************)
(* Theorems about Kernel, for every set of tasks, boot order and tick      *)
(* rate.  The interrupt discipline, with interrupts arriving anywhere,     *)
(* inside task_ready too: eret returns to the thread whose frame it pops   *)
(* though ELR_EL1 is saved nowhere, only kernel_main is ever interrupted,  *)
(* and no task's time slice ever runs down.  And the linked list, if no    *)
(* interrupt hits a task_ready: Kernel implements Sched, no READY task is  *)
(* forgotten, and no thread runs on a stack that was freed.                *)
(***************************************************************************)
EXTENDS Kernel, FiniteSetTheorems, TLAPS

LEMMA InvImplies ==
  ASSUME IrqInv
  PROVE  EretReturnsToOwner /\ OnlyMainInterrupted /\ SlicesUntouched
<1>1. EretReturnsToOwner
  BY DEF IrqInv, OpenInterrupt, EretReturnsToOwner
<1>2. OnlyMainInterrupted
  BY DEF IrqInv, OpenInterrupt, OnlyMainInterrupted
<1>3. SlicesUntouched
  BY DEF IrqInv, FullSlices, SlicesUntouched, Slots
<1> QED BY <1>1, <1>2, <1>3

----------------------------------------------------------------------------
(* The list operations keep every pointer inside the created tasks.        *)

LEMMA EnqueueType ==
  ASSUME NEW C \in SUBSET Task, NEW l, NEW t \in C,
         l.head \in C \cup {NULL}, l.next \in [Task -> C \cup {NULL}],
         NEW r \in runqueue_enqueue(l, t)
  PROVE  r.head \in C \cup {NULL} /\ r.next \in [Task -> C \cup {NULL}]
<1>1. CASE l.head = NULL \/ priority[t] > priority[l.head]
  BY <1>1 DEF runqueue_enqueue
<1>2. CASE ~(l.head = NULL \/ priority[t] > priority[l.head])
  <2>1. PICK n \in WalkEnds(l, t) :
          r = [head |-> l.head, next |-> [l.next EXCEPT ![t] = l.next[n], ![n] = t]]
    BY <1>2 DEF runqueue_enqueue
  <2>2. n \in Task
    BY DEF WalkEnds
  <2> QED BY <2>1, <2>2
<1> QED BY <1>1, <1>2

LEMMA DequeueType ==
  ASSUME NEW C \in SUBSET Task, NEW l, NEW t \in C,
         l.head \in C \cup {NULL}, l.next \in [Task -> C \cup {NULL}]
  PROVE  /\ runqueue_dequeue(l, t).head \in C \cup {NULL}
         /\ runqueue_dequeue(l, t).next \in [Task -> C \cup {NULL}]
<1>1. CASE l.head = t
  BY <1>1 DEF runqueue_dequeue
<1>2. CASE l.head # t
  BY <1>2 DEF runqueue_dequeue
<1> QED BY <1>1, <1>2

----------------------------------------------------------------------------
(* schedule(), entered with the time slices as they are: whatever it does  *)
(* to the queue, the CPU ends up with the thread current_task names, and   *)
(* the saved contexts of the tasks are their own.                          *)
ScheduleResult ==
  /\ current_task' \in Created \cup {idle, NULL}
  /\ current_task' = NULL <=> current_task = NULL
  /\ ready_queue' \in Created \cup {NULL}
  /\ next' \in [Task -> Created \cup {NULL}]
  /\ state' \in [Slots -> {"UNUSED", "READY", "RUNNING", "ZOMBIE"}]
  /\ \A t \in Task : state'[t] = "UNUSED" <=> state[t] = "UNUSED"
  /\ time_slice' = time_slice
  /\ scheduler_started' \in BOOLEAN
  /\ cpu_context' \in [Slots -> Thread \cup {NULL}]
  /\ \A t \in Task : cpu_context'[t] = cpu_context[t]
  /\ cpu_context'[idle] \in {idle, main, NULL}
  /\ current_task # NULL => cpu_context'[idle] # NULL
  /\ cpu' \in Thread
  /\ CpuIsCurrent'

LEMMA ScheduleEffect ==
  ASSUME TypeOK, Pointers, BootProgress, CpuIsCurrent, FullSlices, NEW st,
         st \in [Slots -> {"UNUSED", "READY", "RUNNING", "ZOMBIE"}],
         \A t \in Task : st[t] = "UNUSED" <=> state[t] = "UNUSED",
         schedule(st, time_slice)
  PROVE  ScheduleResult
<1> DEFINE States == {"UNUSED", "READY", "RUNNING", "ZOMBIE"}
<1>0. /\ Created \subseteq Task /\ idle \notin Task /\ main \notin Slots
      /\ NULL \notin Thread /\ idle \in Slots /\ Task \subseteq Slots
      /\ \A t \in Created : state[t] # "UNUSED" /\ cpu_context[t] = t
  BY ThreadAssumption DEF Created, Slots, Thread, FullSlices
<1>1. CASE current_task = NULL
  <2>1. /\ state' = st /\ time_slice' = time_slice
        /\ UNCHANGED <<current_task, ready_queue, next, scheduler_started, cpu, cpu_context>>
    BY <1>1 DEF schedule, cpu_vars
  <2> QED BY <1>1, <2>1 DEF ScheduleResult, TypeOK, Pointers, CpuIsCurrent
<1>2. CASE current_task # NULL /\ KeepCurrent(st, time_slice)
  BY <1>0, <1>2 DEF KeepCurrent, cpu_vars, ScheduleResult, TypeOK, Pointers,
                    BootProgress, CpuIsCurrent
<1>3. ASSUME NEW t \in Created, current_task' = t, cpu' = cpu_context[t]
      PROVE  cpu' \in Thread /\ CpuIsCurrent'
  <2>1. cpu' = t /\ t \in Task /\ t \in Slots
    BY <1>0, <1>3
  <2> QED BY <1>0, <1>3, <2>1 DEF CpuIsCurrent, Thread
<1>4. CASE current_task # NULL /\ schedule_first_task(st, time_slice)
  <2> DEFINE t == runqueue_pick_next
  <2>1. t \in Created
    BY <1>4 DEF schedule_first_task, runqueue_pick_next, Pointers
  <2>2. /\ current_task' = t /\ cpu' = cpu_context[t] /\ cpu_context' = cpu_context
        /\ state' = [st EXCEPT ![t] = "RUNNING"] /\ time_slice' = time_slice
        /\ scheduler_started' = TRUE
        /\ ready_queue' = runqueue_dequeue(list, t).head
        /\ next' = runqueue_dequeue(list, t).next
    BY <1>4 DEF schedule_first_task, SetList
  <2> HIDE DEF t
  <2>3. ready_queue' \in Created \cup {NULL} /\ next' \in [Task -> Created \cup {NULL}]
    <3>1. list.head \in Created \cup {NULL} /\ list.next \in [Task -> Created \cup {NULL}]
      BY DEF list, Pointers
    <3> HIDE DEF list
    <3> QED BY <1>0, <2>1, <2>2, <3>1, DequeueType
  <2>4. /\ cpu' \in Thread /\ CpuIsCurrent' /\ state' \in [Slots -> States]
        /\ \A u \in Task : state'[u] = "UNUSED" <=> state[u] = "UNUSED"
    <3>1. cpu' \in Thread /\ CpuIsCurrent'
      BY <1>3, <2>1, <2>2
    <3>2. state' \in [Slots -> States]
      BY <2>2
    <3>3. \A u \in Task : state'[u] = "UNUSED" <=> state[u] = "UNUSED"
      BY <1>0, <2>1, <2>2
    <3> QED BY <3>1, <3>2, <3>3
  <2> QED BY <1>0, <1>4, <2>1, <2>2, <2>3, <2>4
          DEF ScheduleResult, TypeOK, Pointers, BootProgress, Slots, Thread
<1>5. CASE current_task # NULL /\ Switch(st, time_slice)
  <2> DEFINE prev == current_task
             t == runqueue_pick_next
             requeue == st[prev] = "RUNNING" /\ prev # idle
  <2>1. PICK l \in IF requeue THEN runqueue_enqueue(list, prev) ELSE {list} :
          SetList(IF t = idle THEN l ELSE runqueue_dequeue(l, t))
    BY <1>5 DEF Switch, switch_to
  <2>2. /\ current_task' = t /\ cpu' = cpu_context[t] /\ t # prev
        /\ cpu_context' = [cpu_context EXCEPT ![prev] = cpu]
        /\ state' = [st EXCEPT ![prev] = IF @ = "RUNNING" THEN "READY" ELSE @,
                               ![t] = "RUNNING"]
        /\ time_slice' = IF requeue /\ time_slice[prev] = 0
                         THEN [time_slice EXCEPT ![prev] = DEFAULT_TIMESLICE]
                         ELSE time_slice
        /\ scheduler_started' = TRUE
    BY <1>5 DEF Switch, switch_to
  <2>3. t \in Created \cup {idle} /\ prev \in Created \cup {idle}
    BY <1>5 DEF runqueue_pick_next, Pointers
  <2> HIDE DEF t
  <2>4. requeue => prev \in Created
    BY <2>3
  <2>5. l.head \in Created \cup {NULL} /\ l.next \in [Task -> Created \cup {NULL}]
    <3>1. list.head \in Created \cup {NULL} /\ list.next \in [Task -> Created \cup {NULL}]
      BY DEF list, Pointers
    <3> HIDE DEF list, requeue
    <3> QED BY <1>0, <2>1, <2>4, <3>1, EnqueueType
  <2>6. ready_queue' \in Created \cup {NULL} /\ next' \in [Task -> Created \cup {NULL}]
    <3>1. CASE t = idle
      BY <2>1, <2>5, <3>1 DEF SetList
    <3>2. CASE t # idle
      <4>1. t \in Created
        BY <2>3, <3>2
      <4>2. /\ ready_queue' = runqueue_dequeue(l, t).head
            /\ next' = runqueue_dequeue(l, t).next
        BY <2>1, <3>2 DEF SetList
      <4> QED BY <1>0, <2>5, <4>1, <4>2, DequeueType
    <3> QED BY <3>1, <3>2
  <2>7. time_slice' = time_slice
    BY <1>0, <2>2, <2>4, TimeAssumption DEF FullSlices
  <2>8. cpu \in Thread /\ (prev \in Task => cpu = prev) /\ (prev = idle => cpu \in {idle, main})
    BY <1>0, <1>5 DEF CpuIsCurrent, TypeOK, Thread
  <2>9. /\ cpu_context' \in [Slots -> Thread \cup {NULL}]
        /\ \A u \in Task : cpu_context'[u] = cpu_context[u]
        /\ cpu_context'[idle] \in {idle, main} \/ cpu_context'[idle] = cpu_context[idle]
    BY <1>0, <2>2, <2>3, <2>8 DEF TypeOK
  <2>10. /\ cpu' \in Thread /\ CpuIsCurrent' /\ state' \in [Slots -> States]
         /\ \A u \in Task : state'[u] = "UNUSED" <=> state[u] = "UNUSED"
    <3>1. CASE t \in Created
      <4>1. cpu' \in Thread /\ CpuIsCurrent'
        BY <1>3, <2>2, <3>1
      <4>2. state' \in [Slots -> States]
        BY <2>2
      <4>3. \A u \in Task : state'[u] = "UNUSED" <=> state[u] = "UNUSED"
        BY <1>0, <2>2, <2>3, <3>1
      <4> QED BY <4>1, <4>2, <4>3
    <3>2. CASE t = idle
      <4>1. cpu' \in {idle, main} /\ current_task' = idle
        BY <1>5, <2>2, <3>2 DEF Pointers, BootProgress
      <4>2. cpu' \in Thread /\ CpuIsCurrent'
        BY <1>0, <4>1 DEF CpuIsCurrent, Thread
      <4>3. \A u \in Task : state'[u] = "UNUSED" <=> state[u] = "UNUSED"
        BY <1>0, <2>2, <2>3, <3>2
      <4>4. state' \in [Slots -> States]
        BY <2>2, <3>2
      <4> QED BY <4>2, <4>3, <4>4
    <3> QED BY <2>3, <3>1, <3>2
  <2> QED BY <1>0, <1>5, <2>2, <2>3, <2>6, <2>7, <2>9, <2>10
          DEF ScheduleResult, Pointers, BootProgress, Thread
<1> QED BY <1>1, <1>2, <1>4, <1>5 DEF schedule

----------------------------------------------------------------------------
(* The steps. *)

LEMMA Distinct ==
  /\ idle \notin Task /\ main \notin Task /\ idle # main
  /\ NULL \notin Task /\ NULL # idle /\ NULL # main
BY ThreadAssumption DEF Slots, Thread

(* TypeOK in three parts, so that a step is checked against what it moves. *)
SchedType ==
  /\ current_task \in Slots \cup {NULL}
  /\ ready_queue \in Task \cup {NULL}
  /\ next \in [Task -> Task \cup {NULL}]
  /\ state \in [Slots -> {"UNUSED", "READY", "RUNNING", "ZOMBIE"}]
  /\ time_slice \in [Task -> 0 .. DEFAULT_TIMESLICE]
  /\ scheduler_started \in BOOLEAN
  /\ cpu \in Thread
  /\ cpu_context \in [Slots -> Thread \cup {NULL}]

IrqType ==
  /\ masked \in BOOLEAN /\ irq_active \in BOOLEAN
  /\ irq_frames \subseteq Thread
  /\ elr \in Thread \cup {NULL}
  /\ timer \in {"off", "counting", "asserted"}
  /\ ticks \in 0 .. (SCHED_TICKS - 1)

MainType ==
  /\ pc \in EnqueueSteps \cup {"timer_init", "interrupts_enable", "irq_off",
            "scheduler_init", "irq_on", "create", "load_head", "idle_loop",
            "panic", "halted"}
  /\ boot \in 1 .. (Len(BootOrder) + 1)
  /\ curr \in Task \cup {NULL} /\ succ \in Task \cup {NULL}
  /\ budget \in [Task -> 0 .. ITERATIONS]
  /\ stacks \subseteq Task

LEMMA TypeParts ==
  /\ TypeOK <=> SchedType /\ IrqType /\ MainType
  /\ TypeOK' <=> SchedType' /\ IrqType' /\ MainType'
BY DEF TypeOK, SchedType, IrqType, MainType

LEMMA InitInv == Init => IrqInv
<1> SUFFICES ASSUME Init PROVE IrqInv
  OBVIOUS
<1>0. /\ 0 \in 0 .. (SCHED_TICKS - 1) /\ 0 \in 0 .. DEFAULT_TIMESLICE
      /\ main \in Thread
  BY TimeAssumption DEF Thread
<1>1. SchedType
  <2>1. /\ next \in [Task -> Task \cup {NULL}]
        /\ state \in [Slots -> {"UNUSED", "READY", "RUNNING", "ZOMBIE"}]
        /\ time_slice \in [Task -> 0 .. DEFAULT_TIMESLICE]
        /\ cpu_context \in [Slots -> Thread \cup {NULL}]
    BY <1>0 DEF Init
  <2>2. scheduler_started \in BOOLEAN
    BY DEF Init
  <2> QED BY <1>0, <2>1, <2>2 DEF Init, SchedType
<1>2. IrqType
  <2>1. masked \in BOOLEAN /\ irq_active \in BOOLEAN
    BY DEF Init
  <2>2. /\ irq_frames \subseteq Thread /\ elr \in Thread \cup {NULL}
        /\ timer \in {"off", "counting", "asserted"}
    BY DEF Init
  <2>3. ticks \in 0 .. (SCHED_TICKS - 1)
    BY <1>0 DEF Init
  <2> QED BY <2>1, <2>2, <2>3 DEF IrqType
<1>3. MainType
  <2>1. Len(BootOrder) \in Nat
    BY BootAssumption
  <2>2. 1 \in 1 .. (Len(BootOrder) + 1) /\ ITERATIONS \in 0 .. ITERATIONS
    BY <2>1, TimeAssumption
  <2> QED BY <2>2 DEF Init, MainType
<1>4. Created = {}
  BY Distinct DEF Init, Created, Slots
<1>5. Pointers /\ CpuIsCurrent /\ OpenInterrupt
  BY Distinct DEF Init, Pointers, CpuIsCurrent, OpenInterrupt, Slots
<1>6. BootProgress
  BY <1>4 DEF Init, BootProgress, BeforeSchedulerInit, ReadyPhase, EnqueueSteps
<1>7. FullSlices
  BY <1>4 DEF Init, FullSlices, Slots
<1> QED BY <1>1, <1>2, <1>3, <1>5, <1>6, <1>7, TypeParts DEF IrqInv

(* What a step that leaves the scheduler, the contexts and kernel_main     *)
(* alone keeps.                                                            *)
LEMMA SchedulerUntouched ==
  ASSUME IrqInv, UNCHANGED sched_vars, UNCHANGED cpu_vars
  PROVE  SchedType' /\ CpuIsCurrent' /\ FullSlices' /\ Created' = Created
<1>1. /\ current_task' = current_task /\ ready_queue' = ready_queue /\ next' = next
      /\ state' = state /\ time_slice' = time_slice
      /\ scheduler_started' = scheduler_started
      /\ cpu' = cpu /\ cpu_context' = cpu_context
  BY DEF sched_vars, cpu_vars
<1>2. SchedType'
  BY <1>1, TypeParts DEF IrqInv, SchedType
<1>3. Created' = Created
  BY <1>1 DEF Created
<1> QED BY <1>1, <1>2, <1>3 DEF IrqInv, CpuIsCurrent, FullSlices

LEMMA MainUntouched ==
  ASSUME IrqInv, UNCHANGED sched_vars, UNCHANGED cpu_context, UNCHANGED main_vars,
         UNCHANGED task_vars
  PROVE  MainType' /\ Pointers' /\ BootProgress'
<1>1. /\ current_task' = current_task /\ ready_queue' = ready_queue /\ next' = next
      /\ cpu_context' = cpu_context
      /\ pc' = pc /\ boot' = boot /\ curr' = curr /\ succ' = succ
      /\ budget' = budget /\ stacks' = stacks
  BY DEF sched_vars, main_vars, task_vars
<1>2. MainType'
  BY <1>1, TypeParts DEF IrqInv, MainType
<1>3. Created' = Created
  BY <1>1 DEF Created
<1> QED BY <1>1, <1>2, <1>3 DEF IrqInv, Pointers, BootProgress

LEMMA TimerExpireStep ==
  ASSUME IrqInv, TimerExpire
  PROVE  IrqInv'
<1>1. SchedType' /\ CpuIsCurrent' /\ FullSlices'
  BY SchedulerUntouched DEF TimerExpire
<1>2. MainType' /\ Pointers' /\ BootProgress'
  BY MainUntouched DEF TimerExpire, cpu_vars
<1>3. IrqType'
  BY TypeParts DEF IrqInv, IrqType, TimerExpire
<1>4. OpenInterrupt'
  BY DEF IrqInv, OpenInterrupt, TimerExpire, cpu_vars
<1> QED BY <1>1, <1>2, <1>3, <1>4, TypeParts DEF IrqInv

(* What ScheduleResult gives of the invariant.                             *)
LEMMA ScheduleKeeps ==
  ASSUME IrqInv, ScheduleResult, UNCHANGED main_vars
  PROVE  /\ SchedType' /\ Pointers' /\ BootProgress' /\ CpuIsCurrent' /\ FullSlices'
<1>1. pc' = pc /\ boot' = boot /\ curr' = curr /\ succ' = succ
  BY DEF main_vars
<1>2. Created' = Created /\ Created \subseteq Task
  BY DEF ScheduleResult, Created
<1>3. SchedType'
  <2>1. SchedType
    BY TypeParts DEF IrqInv
  <2>2. current_task' \in Slots \cup {NULL} /\ ready_queue' \in Task \cup {NULL}
    BY <1>2 DEF ScheduleResult, Slots
  <2>3. next' \in [Task -> Task \cup {NULL}]
    BY <1>2 DEF ScheduleResult
  <2> QED BY <2>1, <2>2, <2>3 DEF ScheduleResult, SchedType
<1>4. Pointers'
  <2>1. \A t \in Task : cpu_context'[t] \in {t, NULL}
    BY DEF IrqInv, Pointers, ScheduleResult
  <2>2. curr' \in Created' \cup {NULL} /\ succ' \in Created' \cup {NULL}
    BY <1>1, <1>2 DEF IrqInv, Pointers
  <2>3. /\ current_task' \in Created' \cup {idle, NULL}
        /\ ready_queue' \in Created' \cup {NULL}
        /\ next' \in [Task -> Created' \cup {NULL}]
        /\ cpu_context'[idle] \in {idle, main, NULL}
    BY <1>2 DEF ScheduleResult
  <2> QED BY <2>1, <2>2, <2>3 DEF Pointers
<1>5. BootProgress'
  BY <1>1, <1>2 DEF IrqInv, BootProgress, ScheduleResult
<1>6. FullSlices'
  BY <1>2 DEF IrqInv, FullSlices, ScheduleResult
<1> QED BY <1>3, <1>4, <1>5, <1>6 DEF ScheduleResult

(* An interrupt is taken only by kernel_main, since nothing else unmasks.  *)
LEMMA TimerIrqStep ==
  ASSUME IrqInv, TimerIrq
  PROVE  IrqInv'
<1>1. cpu = main /\ irq_frames = {} /\ current_task \notin Task
  BY Distinct DEF TimerIrq, gic_acknowledge_irq, IrqInv, OpenInterrupt, CpuIsCurrent
<1>2. /\ masked' = TRUE /\ irq_frames' = {main} /\ elr' = main /\ irq_active' = TRUE
      /\ timer' = timer /\ ticks' = (ticks + 1) % SCHED_TICKS
      /\ UNCHANGED main_vars /\ budget' = budget /\ stacks' = stacks
  BY <1>1 DEF TimerIrq, gic_acknowledge_irq, task_vars
<1>3. TickedSlices = time_slice
  BY <1>1 DEF TickedSlices
<1>4. ScheduleResult
  <2>1. CASE ticks' = 0
    <3>1. schedule(state, time_slice)
      BY <1>3, <2>1 DEF TimerIrq
    <3> QED BY <3>1, ScheduleEffect DEF IrqInv, TypeOK
  <2>2. CASE ticks' # 0
    BY <1>3, <2>2 DEF TimerIrq, cpu_vars, ScheduleResult, IrqInv, TypeOK, Pointers,
                      BootProgress, CpuIsCurrent
  <2> QED BY <2>1, <2>2
<1>5. IrqType'
  <2>1. ticks' \in 0 .. (SCHED_TICKS - 1)
    BY <1>2, TimeAssumption DEF IrqInv, TypeOK
  <2> QED BY <1>2, <2>1 DEF IrqInv, TypeOK, IrqType, Thread
<1>6. MainType'
  BY <1>2, TypeParts DEF IrqInv, MainType, main_vars
<1>7. OpenInterrupt'
  BY <1>2 DEF OpenInterrupt
<1> QED BY <1>2, <1>4, <1>5, <1>6, <1>7, ScheduleKeeps, TypeParts DEF IrqInv

LEMMA IrqExitStep ==
  ASSUME IrqInv, IrqExit
  PROVE  IrqInv'
<1>1. cpu = main /\ irq_frames = {main} /\ elr = main
  BY DEF IrqExit, gic_end_of_interrupt, IrqInv, OpenInterrupt
<1>2. /\ timer' = "counting" /\ irq_active' = FALSE /\ irq_frames' = {}
      /\ masked' = FALSE /\ cpu' = cpu /\ elr' = elr /\ ticks' = ticks
      /\ UNCHANGED <<sched_vars, cpu_vars, main_vars, task_vars>>
  BY <1>1 DEF IrqExit, gic_end_of_interrupt, cpu_vars
<1>3. SchedType' /\ CpuIsCurrent' /\ FullSlices'
  BY <1>2, SchedulerUntouched
<1>4. MainType' /\ Pointers' /\ BootProgress'
  BY <1>2, MainUntouched DEF cpu_vars
<1>5. IrqType'
  BY <1>2, TypeParts DEF IrqInv, IrqType
<1>6. OpenInterrupt'
  BY <1>1, <1>2 DEF OpenInterrupt
<1> QED BY <1>3, <1>4, <1>5, <1>6, TypeParts DEF IrqInv

(* A task gives the CPU up with kernel_main's interrupt still open.        *)
LEMMA TaskStep ==
  ASSUME IrqInv, NEW t \in Task, Yield(t) \/ Exit(t)
  PROVE  IrqInv'
<1>1. cpu = t /\ current_task = t /\ irq_frames = {main} /\ t \in Slots
  BY Distinct DEF Yield, Exit, IrqInv, OpenInterrupt, CpuIsCurrent, Slots
<1>2. UNCHANGED <<masked, irq_frames, elr, irq_active, timer, ticks>> /\ UNCHANGED main_vars
  BY DEF Yield, Exit, irq_vars
<1>3. budget' \in [Task -> 0 .. ITERATIONS] /\ stacks' \subseteq Task
  <2>1. CASE Yield(t)
    BY <2>1, TimeAssumption DEF Yield, IrqInv, TypeOK
  <2>2. CASE Exit(t)
    BY <2>2 DEF Exit, IrqInv, TypeOK
  <2> QED BY <2>1, <2>2
<1>4. ScheduleResult
  <2>1. CASE Yield(t)
    BY <2>1, ScheduleEffect DEF Yield, IrqInv, TypeOK
  <2>2. CASE Exit(t)
    <3> DEFINE st == [state EXCEPT ![current_task] = "ZOMBIE"]
    <3>1. t \in Created
      BY <1>1, Distinct DEF IrqInv, Pointers
    <3>2. /\ st \in [Slots -> {"UNUSED", "READY", "RUNNING", "ZOMBIE"}]
          /\ \A u \in Task : st[u] = "UNUSED" <=> state[u] = "UNUSED"
      BY <1>1, <3>1 DEF IrqInv, TypeOK, FullSlices, Slots
    <3>3. schedule(st, time_slice)
      BY <2>2 DEF Exit
    <3> HIDE DEF st
    <3> QED BY <3>2, <3>3, ScheduleEffect DEF IrqInv
  <2> QED BY <2>1, <2>2
<1>5. IrqType'
  BY <1>2, TypeParts DEF IrqInv, IrqType
<1>6. MainType'
  BY <1>2, <1>3, TypeParts DEF IrqInv, MainType, main_vars
<1>7. OpenInterrupt'
  BY <1>1, <1>2 DEF IrqInv, OpenInterrupt
<1> QED BY <1>2, <1>4, <1>5, <1>6, <1>7, ScheduleKeeps, TypeParts DEF IrqInv

----------------------------------------------------------------------------
(* The steps of kernel_main.  It runs with no interrupt open, so only what *)
(* the step assigns can disturb the invariant.                             *)

LEMMA MainRuns ==
  ASSUME IrqInv, NEW label, MainAt(label)
  PROVE  /\ cpu = main /\ irq_frames = {} /\ ~irq_active /\ pc = label
         /\ current_task \in {idle, NULL}
BY DEF MainAt, IrqInv, OpenInterrupt, CpuIsCurrent

LEMMA IrqUntouched ==
  ASSUME IrqInv, UNCHANGED irq_vars, UNCHANGED cpu
  PROVE  IrqType' /\ OpenInterrupt'
<1>1. /\ masked' = masked /\ irq_frames' = irq_frames /\ elr' = elr
      /\ irq_active' = irq_active /\ timer' = timer /\ ticks' = ticks
  BY DEF irq_vars
<1>2. IrqType'
  BY <1>1, TypeParts DEF IrqInv, IrqType
<1> QED BY <1>1, <1>2 DEF IrqInv, OpenInterrupt

LEMMA TimerInitStep == ASSUME IrqInv, TimerInit PROVE IrqInv'
<1>1. pc = "timer_init" /\ pc' = "interrupts_enable" /\ irq_frames = {} /\ ~irq_active
      /\ timer' = "counting" /\ ticks' = 0
      /\ UNCHANGED <<masked, irq_frames, elr, irq_active, boot, curr, succ, cpu>>
      /\ UNCHANGED sched_vars /\ UNCHANGED cpu_vars /\ UNCHANGED task_vars
  BY MainRuns DEF TimerInit, cpu_vars
<1>2. SchedType' /\ CpuIsCurrent' /\ FullSlices' /\ Created' = Created
  BY <1>1, SchedulerUntouched
<1>3. IrqType'
  <2>1. ticks' \in 0 .. (SCHED_TICKS - 1)
    BY <1>1, TimeAssumption
  <2> QED BY <1>1, <2>1, TypeParts DEF IrqInv, IrqType
<1>4. MainType'
  BY <1>1, TypeParts DEF IrqInv, MainType, task_vars
<1>5. Pointers'
  BY <1>1, <1>2 DEF IrqInv, Pointers, sched_vars, cpu_vars
<1>6. BootProgress'
  BY <1>1, <1>2 DEF IrqInv, BootProgress, BeforeSchedulerInit, ReadyPhase, EnqueueSteps,
                    sched_vars, cpu_vars
<1>7. OpenInterrupt'
  BY <1>1 DEF IrqInv, OpenInterrupt
<1> QED BY <1>2, <1>3, <1>4, <1>5, <1>6, <1>7, TypeParts DEF IrqInv

LEMMA SetMaskStep ==
  ASSUME IrqInv, NEW from, NEW value \in BOOLEAN, NEW to, SetMask(from, value, to),
         \/ from = "interrupts_enable" /\ to = "irq_off"
         \/ from = "irq_off" /\ to = "scheduler_init"
         \/ from = "irq_on" /\ to = "create"
         \/ from = "panic" /\ to = "halted"
  PROVE  IrqInv'
<1>2. pc = from /\ pc' = to /\ irq_frames = {} /\ ~irq_active /\ masked' = value /\ cpu = main
      /\ UNCHANGED <<irq_frames, elr, irq_active, timer, ticks, boot, curr, succ, cpu>>
      /\ UNCHANGED sched_vars /\ UNCHANGED cpu_vars /\ UNCHANGED task_vars
  BY MainRuns DEF SetMask, cpu_vars
<1>3. SchedType' /\ CpuIsCurrent' /\ FullSlices' /\ Created' = Created
  BY <1>2, SchedulerUntouched
<1>4. IrqType'
  BY <1>2, TypeParts DEF IrqInv, IrqType
<1>5. MainType'
  BY <1>2, TypeParts DEF IrqInv, MainType, task_vars
<1>6. Pointers'
  BY <1>2, <1>3 DEF IrqInv, Pointers, sched_vars, cpu_vars
<1>7. BootProgress'
  <2>1. boot' = boot /\ current_task' = current_task /\ cpu_context' = cpu_context
    BY <1>2 DEF sched_vars, cpu_vars
  <2>2. boot \in Nat /\ Len(BootOrder) \in Nat
    BY BootAssumption DEF IrqInv, TypeOK
  <2> QED BY <1>2, <1>3, <2>1, <2>2
          DEF IrqInv, BootProgress, BeforeSchedulerInit, ReadyPhase, EnqueueSteps
<1>8. OpenInterrupt'
  BY <1>2 DEF IrqInv, OpenInterrupt
<1> QED BY <1>3, <1>4, <1>5, <1>6, <1>7, <1>8, TypeParts DEF IrqInv

LEMMA SchedulerInitStep == ASSUME IrqInv, SchedulerInit PROVE IrqInv'
<1>1. pc = "scheduler_init" /\ cpu = main /\ boot = 1 /\ Created = {}
  BY MainRuns DEF SchedulerInit, IrqInv, BootProgress, BeforeSchedulerInit
<1>2. /\ current_task' = idle /\ ready_queue' = NULL /\ pc' = "irq_on"
      /\ next' = [t \in Task |-> NULL]
      /\ state' = [t \in Slots |-> IF t = idle THEN "READY" ELSE "UNUSED"]
      /\ time_slice' = [t \in Task |-> 0]
      /\ cpu_context' = [cpu_context EXCEPT ![idle] = idle]
      /\ UNCHANGED <<scheduler_started, cpu, boot, curr, succ, budget, stacks>>
      /\ UNCHANGED irq_vars
  BY DEF SchedulerInit, arch_setup_task_context, task_vars
<1>3. idle \in Slots /\ idle \in Thread /\ Task \subseteq Slots
  BY DEF Slots, Thread
<1>4. \A t \in Task : cpu_context'[t] = cpu_context[t]
  BY <1>2, <1>3, Distinct DEF IrqInv, TypeOK
<1>5. Created' = {}
  BY <1>1, <1>4 DEF Created
<1>6. SchedType'
  <2>1. next' \in [Task -> Task \cup {NULL}] /\ time_slice' \in [Task -> 0 .. DEFAULT_TIMESLICE]
    BY <1>2, TimeAssumption
  <2>2. state' \in [Slots -> {"UNUSED", "READY", "RUNNING", "ZOMBIE"}]
    BY <1>2
  <2>3. cpu_context' \in [Slots -> Thread \cup {NULL}]
    BY <1>2, <1>3 DEF IrqInv, TypeOK
  <2> QED BY <1>2, <1>3, <2>1, <2>2, <2>3, TypeParts DEF IrqInv, SchedType
<1>7. IrqType' /\ OpenInterrupt'
  BY <1>2, IrqUntouched
<1>8. MainType'
  BY <1>2, TypeParts DEF IrqInv, MainType
<1>9. Pointers'
  <2>1. \A t \in Task : cpu_context'[t] \in {t, NULL}
    BY <1>4 DEF IrqInv, Pointers
  <2>2. curr' \in {NULL} /\ succ' \in {NULL}
    BY <1>1, <1>2 DEF IrqInv, Pointers
  <2>3. cpu_context'[idle] = idle
    BY <1>2, <1>3 DEF IrqInv, TypeOK
  <2> QED BY <1>2, <1>5, <2>1, <2>2, <2>3 DEF Pointers
<1>10. BootProgress'
  <2>1. cpu_context'[idle] # NULL
    BY <1>2, <1>3, Distinct DEF IrqInv, TypeOK
  <2> QED BY <1>1, <1>2, <1>5, <2>1, Distinct
          DEF BootProgress, BeforeSchedulerInit, ReadyPhase, EnqueueSteps
<1>11. CpuIsCurrent'
  BY <1>1, <1>2, ThreadAssumption DEF CpuIsCurrent
<1>12. FullSlices'
  BY <1>2, <1>3, <1>5, Distinct DEF FullSlices
<1> QED BY <1>6, <1>7, <1>8, <1>9, <1>10, <1>11, <1>12, TypeParts DEF IrqInv

LEMMA TaskCreateStep == ASSUME IrqInv, TaskCreate PROVE IrqInv'
<1> DEFINE t == BootOrder[boot]
<1>1. /\ pc = "create" /\ cpu = main /\ boot \in 1 .. Len(BootOrder)
      /\ Len(BootOrder) \in Nat /\ t \in Task
  <2>1. pc = "create" /\ cpu = main /\ boot <= Len(BootOrder)
    BY MainRuns DEF TaskCreate
  <2>2. Len(BootOrder) \in Nat /\ boot \in 1 .. (Len(BootOrder) + 1)
    BY BootAssumption DEF IrqInv, TypeOK
  <2>3. boot \in 1 .. Len(BootOrder)
    BY <2>1, <2>2
  <2> QED BY <2>1, <2>2, <2>3, BootAssumption
<1>2. /\ state' = [state EXCEPT ![t] = "READY"]
      /\ time_slice' = [time_slice EXCEPT ![t] = DEFAULT_TIMESLICE]
      /\ cpu_context' = [cpu_context EXCEPT ![t] = t]
      /\ stacks' = stacks \cup {t} /\ boot' = boot + 1
      /\ UNCHANGED <<current_task, ready_queue, next, scheduler_started, cpu,
                     pc, curr, succ, budget>>
      /\ UNCHANGED irq_vars
  BY DEF TaskCreate, arch_setup_task_context
<1> HIDE DEF t
<1>3. t \in Slots /\ t \in Thread /\ t # NULL /\ idle \in Slots /\ t # idle
      /\ Task \subseteq Slots
  BY <1>1, Distinct DEF Slots, Thread
<1>4. /\ cpu_context'[t] = t /\ cpu_context'[idle] = cpu_context[idle]
      /\ \A u \in Task : u # t => cpu_context'[u] = cpu_context[u]
  BY <1>2, <1>3 DEF IrqInv, TypeOK
<1>5. Created' = Created \cup {t}
  BY <1>1, <1>4 DEF Created
<1>6. SchedType'
  <2>1. time_slice' \in [Task -> 0 .. DEFAULT_TIMESLICE]
    BY <1>1, <1>2, TimeAssumption DEF IrqInv, TypeOK
  <2>2. state' \in [Slots -> {"UNUSED", "READY", "RUNNING", "ZOMBIE"}]
    BY <1>2 DEF IrqInv, TypeOK
  <2>3. cpu_context' \in [Slots -> Thread \cup {NULL}]
    BY <1>2, <1>3 DEF IrqInv, TypeOK
  <2> QED BY <1>2, <2>1, <2>2, <2>3, TypeParts DEF IrqInv, SchedType
<1>7. IrqType' /\ OpenInterrupt'
  BY <1>2, IrqUntouched
<1>8. MainType'
  <2>1. boot' \in 1 .. (Len(BootOrder) + 1) /\ stacks' \subseteq Task
    BY <1>1, <1>2 DEF IrqInv, TypeOK
  <2> QED BY <1>2, <2>1, TypeParts DEF IrqInv, MainType
<1>9. Pointers'
  <2>1. \A u \in Task : cpu_context'[u] \in {u, NULL}
    BY <1>4 DEF IrqInv, Pointers
  <2>2. next' \in [Task -> Created' \cup {NULL}]
    BY <1>2, <1>5 DEF IrqInv, Pointers
  <2> QED BY <1>2, <1>4, <1>5, <2>1, <2>2 DEF IrqInv, Pointers
<1>10. BootProgress'
  <2>1. \A i \in 1 .. Len(BootOrder) : i < boot' => BootOrder[i] \in Created'
    <3> SUFFICES ASSUME NEW i \in 1 .. Len(BootOrder), i < boot + 1
                 PROVE  BootOrder[i] \in Created \cup {t}
      BY <1>2, <1>5
    <3>1. CASE i = boot
      BY <3>1 DEF t
    <3>2. CASE i < boot
      BY <1>1, <3>2 DEF IrqInv, BootProgress
    <3> QED BY <1>1, <3>1, <3>2
  <2>2. current_task # NULL /\ cpu_context[idle] # NULL
    BY <1>1 DEF IrqInv, BootProgress, BeforeSchedulerInit
  <2> QED BY <1>1, <1>2, <1>4, <2>1, <2>2
          DEF BootProgress, BeforeSchedulerInit, ReadyPhase, EnqueueSteps
<1>11. CpuIsCurrent'
  BY <1>2 DEF IrqInv, CpuIsCurrent
<1>12. FullSlices'
  <2> SUFFICES ASSUME NEW u \in Task
               PROVE  /\ state'[u] = "UNUSED" <=> u \notin Created'
                      /\ u \in Created' => time_slice'[u] = DEFAULT_TIMESLICE
    BY DEF FullSlices
  <2>1. CASE u = t
    BY <1>1, <1>2, <1>3, <1>5, <2>1 DEF IrqInv, TypeOK
  <2>2. CASE u # t
    BY <1>2, <1>3, <1>5, <2>2 DEF IrqInv, TypeOK, FullSlices
  <2> QED BY <2>1, <2>2
<1> QED BY <1>6, <1>7, <1>8, <1>9, <1>10, <1>11, <1>12, TypeParts DEF IrqInv

(* Inside task_ready; the task is a created one, and so is what the        *)
(* registers point to.                                                     *)
LEMMA ReadiedCreated ==
  ASSUME IrqInv, pc \in EnqueueSteps \/ (pc = "load_head" /\ boot <= Len(BootOrder))
  PROVE  /\ Readied \in Created /\ Readied \in Task /\ Readied \in Slots
         /\ boot \in 1 .. Len(BootOrder)
         /\ current_task # NULL /\ cpu_context[idle] # NULL
         /\ \A i \in 1 .. Len(BootOrder) : BootOrder[i] \in Created
<1>1. boot <= Len(BootOrder)
  BY DEF IrqInv, BootProgress, EnqueueSteps
<1>2. boot \in 1 .. Len(BootOrder)
  BY <1>1, BootAssumption DEF IrqInv, TypeOK
<1>3. pc \in ReadyPhase /\ pc \notin BeforeSchedulerInit
  BY DEF ReadyPhase, EnqueueSteps, BeforeSchedulerInit
<1>4. /\ \A i \in 1 .. Len(BootOrder) : BootOrder[i] \in Created
      /\ current_task # NULL /\ cpu_context[idle] # NULL
  BY <1>3 DEF IrqInv, BootProgress
<1>5. Readied \in Created
  BY <1>2, <1>4 DEF Readied
<1> QED BY <1>2, <1>4, <1>5 DEF Created, Slots

(* A step of kernel_main within the enqueuing of the tasks: it moves its   *)
(* program counter and registers and stores pointers to created tasks.     *)
LEMMA ReadyStep ==
  ASSUME IrqInv, pc \in EnqueueSteps \cup {"load_head", "idle_loop", "create"},
         \A i \in 1 .. Len(BootOrder) : BootOrder[i] \in Created,
         pc' \in ReadyPhase,
         pc' \in EnqueueSteps => boot' <= Len(BootOrder),
         pc' \in {"walk", "link_after", "set_next"} => curr' # NULL,
         boot' \in 1 .. (Len(BootOrder) + 1),
         curr' \in Created \cup {NULL}, succ' \in Created \cup {NULL},
         ready_queue' \in Created \cup {NULL},
         next' \in [Task -> Created \cup {NULL}],
         state' \in [Slots -> {"UNUSED", "READY", "RUNNING", "ZOMBIE"}],
         \A t \in Task : state'[t] = "UNUSED" <=> state[t] = "UNUSED",
         UNCHANGED <<current_task, time_slice, scheduler_started>>,
         UNCHANGED cpu_vars, UNCHANGED irq_vars, UNCHANGED task_vars
  PROVE  IrqInv'
<1>1. Created' = Created /\ Created \subseteq Task
  BY DEF Created, cpu_vars
<1>2. SchedType'
  <2>1. next' \in [Task -> Task \cup {NULL}] /\ ready_queue' \in Task \cup {NULL}
    BY <1>1
  <2> QED BY <2>1, TypeParts DEF IrqInv, SchedType, cpu_vars
<1>3. IrqType' /\ OpenInterrupt'
  BY IrqUntouched DEF cpu_vars
<1>4. MainType'
  <2>1. /\ curr' \in Task \cup {NULL} /\ succ' \in Task \cup {NULL}
        /\ budget' \in [Task -> 0 .. ITERATIONS] /\ stacks' \subseteq Task
    BY <1>1, TypeParts DEF IrqInv, MainType, task_vars
  <2> QED BY <2>1 DEF MainType, ReadyPhase
<1>5. Pointers'
  BY <1>1 DEF IrqInv, Pointers, cpu_vars
<1>6. BootProgress'
  <2>1. pc \notin BeforeSchedulerInit /\ pc' \notin BeforeSchedulerInit \cup {"irq_on", "create"}
    BY DEF ReadyPhase, EnqueueSteps, BeforeSchedulerInit
  <2>2. current_task' # NULL /\ cpu_context'[idle] # NULL
    BY <2>1 DEF IrqInv, BootProgress, cpu_vars
  <2> QED BY <1>1, <2>1, <2>2 DEF BootProgress
<1>7. CpuIsCurrent'
  BY DEF IrqInv, CpuIsCurrent, cpu_vars
<1>8. FullSlices'
  BY <1>1 DEF IrqInv, FullSlices
<1> QED BY <1>2, <1>3, <1>4, <1>5, <1>6, <1>7, <1>8, TypeParts DEF IrqInv

LEMMA EnqueueStep ==
  ASSUME IrqInv,
         LoadHead \/ WalkOn \/ LinkFront \/ LinkAfter \/ SetHead \/ SetNext
  PROVE  IrqInv'
<1>1. CASE LoadHead
  <2>1. pc = "load_head" /\ boot <= Len(BootOrder)
    BY <1>1, MainRuns DEF LoadHead
  <2>2. Readied \in Created /\ Readied \in Slots
    BY <2>1, ReadiedCreated
  <2>3. /\ state' = [state EXCEPT ![Readied] = "READY"] /\ curr' = ready_queue
        /\ pc' \in {"link_front", "walk"} /\ (pc' = "walk" => ready_queue # NULL)
        /\ UNCHANGED <<current_task, ready_queue, next, time_slice, scheduler_started,
                       boot, succ>>
        /\ UNCHANGED cpu_vars /\ UNCHANGED irq_vars /\ UNCHANGED task_vars
    BY <1>1 DEF LoadHead
  <2>4. /\ state' \in [Slots -> {"UNUSED", "READY", "RUNNING", "ZOMBIE"}]
        /\ \A t \in Task : state'[t] = "UNUSED" <=> state[t] = "UNUSED"
    <3>1. state[Readied] # "UNUSED"
      BY <2>2 DEF IrqInv, FullSlices, Created
    <3> QED BY <2>2, <2>3, <3>1 DEF IrqInv, TypeOK
  <2> QED BY <2>1, <2>3, <2>4, ReadyStep, ReadiedCreated
          DEF IrqInv, Pointers, ReadyPhase, EnqueueSteps, TypeOK
<1>2. CASE WalkOn
  <2>1. pc = "walk"
    BY <1>2, MainRuns DEF WalkOn
  <2>2. curr \in Task
    BY <2>1 DEF IrqInv, BootProgress, Pointers, Created
  <2>3. /\ succ' = next[curr]
        /\ \/ pc' = pc /\ curr' = next[curr] /\ next[curr] # NULL
           \/ pc' = "link_after" /\ curr' = curr
        /\ UNCHANGED <<current_task, ready_queue, next, state, time_slice,
                       scheduler_started, boot>>
        /\ UNCHANGED cpu_vars /\ UNCHANGED irq_vars /\ UNCHANGED task_vars
    BY <1>2 DEF WalkOn, sched_vars
  <2>4. /\ curr' \in Created \cup {NULL} /\ succ' \in Created \cup {NULL} /\ curr' # NULL
    BY <2>1, <2>2, <2>3 DEF IrqInv, Pointers, BootProgress
  <2>5. pc \in EnqueueSteps /\ pc' \in EnqueueSteps /\ pc' \in ReadyPhase
    BY <2>1, <2>3 DEF EnqueueSteps, ReadyPhase
  <2>6. boot' \in 1 .. Len(BootOrder) /\ Len(BootOrder) \in Nat
    BY <2>3, <2>5, ReadiedCreated, BootAssumption
  <2>7. boot' <= Len(BootOrder) /\ boot' \in 1 .. (Len(BootOrder) + 1)
    BY <2>6
  <2>8. /\ ready_queue' \in Created \cup {NULL} /\ next' \in [Task -> Created \cup {NULL}]
        /\ state' \in [Slots -> {"UNUSED", "READY", "RUNNING", "ZOMBIE"}]
    BY <2>3 DEF IrqInv, Pointers, TypeOK
  <2> QED BY <2>3, <2>4, <2>5, <2>7, <2>8, ReadyStep, ReadiedCreated
<1>3. ASSUME NEW label, NEW to, NEW target, LinkTask(label, to, target),
             \/ label = "link_front" /\ to = "set_head" /\ target = curr
             \/ label = "link_after" /\ to = "set_next" /\ target = succ
      PROVE  IrqInv'
  <2>1. pc = label /\ pc \in EnqueueSteps /\ pc' = to
    BY <1>3, MainRuns DEF LinkTask, EnqueueSteps
  <2>2. Readied \in Task
    BY <2>1, ReadiedCreated
  <2>3. target \in Created \cup {NULL}
    BY <1>3 DEF IrqInv, Pointers
  <2>4. /\ next' = [next EXCEPT ![Readied] = target]
        /\ UNCHANGED <<current_task, ready_queue, state, time_slice, scheduler_started,
                       boot, curr, succ>>
        /\ UNCHANGED cpu_vars /\ UNCHANGED irq_vars /\ UNCHANGED task_vars
    BY <1>3 DEF LinkTask
  <2>5. next' \in [Task -> Created \cup {NULL}]
    BY <2>2, <2>3, <2>4 DEF IrqInv, Pointers
  <2>6. pc' \in ReadyPhase /\ pc' \in EnqueueSteps /\ (pc' = "set_next" => curr' # NULL)
        /\ pc' \notin {"walk", "link_after"}
    BY <1>3, <2>1, <2>4 DEF ReadyPhase, EnqueueSteps, IrqInv, BootProgress
  <2> QED BY <2>1, <2>4, <2>5, <2>6, ReadyStep, ReadiedCreated
          DEF IrqInv, Pointers, BootProgress, TypeOK
<1>4. ASSUME NEW r \in Created \cup {NULL}, NEW n \in [Task -> Created \cup {NULL}],
             pc \in EnqueueSteps,
             ready_queue' = r, next' = n, boot' = boot + 1, pc' = "load_head",
             UNCHANGED <<current_task, state, time_slice, scheduler_started, curr, succ>>,
             UNCHANGED cpu_vars, UNCHANGED irq_vars, UNCHANGED task_vars
      PROVE  IrqInv'
  <2>1. boot \in 1 .. Len(BootOrder) /\ Len(BootOrder) \in Nat
    BY <1>4, ReadiedCreated, BootAssumption
  <2>2. boot' \in 1 .. (Len(BootOrder) + 1)
    BY <1>4, <2>1
  <2>3. /\ pc' \in ReadyPhase /\ pc' \notin EnqueueSteps
        /\ pc' \notin {"walk", "link_after", "set_next"}
    BY <1>4 DEF ReadyPhase, EnqueueSteps
  <2> QED BY <1>4, <2>2, <2>3, ReadyStep, ReadiedCreated DEF IrqInv, Pointers, TypeOK
<1>5. CASE SetHead
  <2>1. pc \in EnqueueSteps
    BY <1>5, MainRuns DEF SetHead, EnqueueSteps
  <2>2. Readied \in Created
    BY <2>1, ReadiedCreated
  <2> QED BY <1>4, <1>5, <2>1, <2>2 DEF SetHead, IrqInv, Pointers
<1>6. CASE SetNext
  <2>1. pc \in EnqueueSteps
    BY <1>6, MainRuns DEF SetNext, EnqueueSteps
  <2>2. Readied \in Created
    BY <2>1, ReadiedCreated
  <2>3. [next EXCEPT ![curr] = Readied] \in [Task -> Created \cup {NULL}]
    BY <2>2 DEF IrqInv, Pointers
  <2>4. ready_queue \in Created \cup {NULL}
    BY DEF IrqInv, Pointers
  <2> QED BY <1>4, <1>6, <2>1, <2>3, <2>4 DEF SetNext
<1> QED BY <1>1, <1>2, <1>3, <1>5, <1>6 DEF LinkFront, LinkAfter

LEMMA PhaseStep ==
  ASSUME IrqInv, AllCreated \/ AllReady \/ Panic
  PROVE  IrqInv'
<1>0. Len(BootOrder) \in Nat /\ boot \in 1 .. (Len(BootOrder) + 1)
  BY BootAssumption DEF IrqInv, TypeOK
<1>1. /\ \/ pc = "create" /\ boot > Len(BootOrder) /\ boot' = 1 /\ pc' = "load_head"
         \/ pc = "load_head" /\ boot' = boot /\ pc' = "idle_loop"
         \/ pc = "idle_loop" /\ boot' = boot /\ pc' = "panic"
      /\ UNCHANGED <<current_task, ready_queue, next, state, time_slice,
                     scheduler_started, curr, succ>>
      /\ UNCHANGED cpu_vars /\ UNCHANGED irq_vars /\ UNCHANGED task_vars
  BY MainRuns DEF AllCreated, AllReady, Panic, sched_vars
<1>2. boot' \in 1 .. (Len(BootOrder) + 1)
  BY <1>0, <1>1
<1>3. \A i \in 1 .. Len(BootOrder) : BootOrder[i] \in Created
  BY <1>0, <1>1 DEF IrqInv, BootProgress, ReadyPhase
<1>4. /\ pc' \in ReadyPhase /\ pc' \notin EnqueueSteps
      /\ pc' \notin {"walk", "link_after", "set_next"}
  BY <1>1 DEF ReadyPhase, EnqueueSteps
<1> QED BY <1>1, <1>2, <1>3, <1>4, ReadyStep DEF IrqInv, Pointers, TypeOK

----------------------------------------------------------------------------
(* The invariant, and what it gives.                                       *)

LEMMA NextInv == IrqInv /\ [Next]_vars => IrqInv'
<1> SUFFICES ASSUME IrqInv, [Next]_vars PROVE IrqInv'
  OBVIOUS
<1>1. CASE UNCHANGED vars
  <2>1. /\ UNCHANGED sched_vars /\ UNCHANGED cpu_vars /\ UNCHANGED irq_vars
        /\ UNCHANGED main_vars /\ UNCHANGED task_vars /\ UNCHANGED cpu
        /\ UNCHANGED cpu_context
    BY <1>1 DEF vars, cpu_vars
  <2> QED BY <2>1, SchedulerUntouched, MainUntouched, IrqUntouched, TypeParts DEF IrqInv
<1>2. CASE MainStep
  BY <1>2, TimerInitStep, SetMaskStep, SchedulerInitStep, TaskCreateStep, EnqueueStep,
     PhaseStep DEF MainStep, InterruptsEnable, IrqOff, IrqOn, Halt
<1>3. CASE \E t \in Task : Yield(t) \/ Exit(t)
  BY <1>3, TaskStep
<1> QED BY <1>1, <1>2, <1>3, TimerExpireStep, TimerIrqStep, IrqExitStep, PhaseStep DEF Next

(* Whenever interrupts arrive, the invariant of the interrupt discipline   *)
(* holds.                                                                  *)
THEOREM IrqInvariance == Spec => []IrqInv
<1>1. Init => IrqInv
  BY InitInv
<1>2. IrqInv /\ [Next]_vars => IrqInv'
  BY NextInv
<1> QED BY <1>1, <1>2, PTL DEF Spec

(* Every variable keeps its type.                                          *)
THEOREM TypeCorrect == Spec => []TypeOK
<1>1. IrqInv => TypeOK
  BY DEF IrqInv
<1> QED BY <1>1, IrqInvariance, PTL

(* The end of a handler returns to the thread whose frame it pops, though  *)
(* nothing saves ELR_EL1.                                                  *)
THEOREM EretCorrect == Spec => []EretReturnsToOwner
<1>1. IrqInv => EretReturnsToOwner
  BY InvImplies
<1> QED BY <1>1, IrqInvariance, PTL

(* No interrupt is ever taken by a task, nor a second one while the first  *)
(* is open.                                                                *)
THEOREM TasksRunMasked == Spec => []OnlyMainInterrupted
<1>1. IrqInv => OnlyMainInterrupted
  BY InvImplies
<1> QED BY <1>1, IrqInvariance, PTL

(* current_task names the thread on the CPU.                               *)
THEOREM CurrentNamesCpu == Spec => []CpuIsCurrent
<1>1. IrqInv => CpuIsCurrent
  BY DEF IrqInv
<1> QED BY <1>1, IrqInvariance, PTL

(* No time slice is ever used up, so nothing is ever preempted.            *)
THEOREM NothingPreempted == Spec => []SlicesUntouched
<1>1. IrqInv => SlicesUntouched
  BY InvImplies
<1> QED BY <1>1, IrqInvariance, PTL

----------------------------------------------------------------------------
(* The linked list and the sequence of Sched.                              *)

(* Sched with its theorems; Scheduler of Kernel is the same instance.      *)
Abstract == INSTANCE SchedProofs WITH ready_queue <- QueueSeq

LEMMA SchedFacts ==
  /\ Abstract!IdleAssumption /\ Abstract!NullAssumption
  /\ Abstract!PriorityAssumption /\ Abstract!SliceAssumption
BY ThreadAssumption, PriorityAssumption, TimeAssumption
   DEF Abstract!IdleAssumption, Abstract!NullAssumption, Abstract!PriorityAssumption,
       Abstract!SliceAssumption, Thread, Slots

(* A nonempty set of naturals has a least element.  The library proves it  *)
(* of sets ordered by inclusion, and 0 .. n is included in 0 .. m if n <=  *)
(* m.                                                                      *)
LEMMA Least ==
  ASSUME NEW S, S \subseteq Nat, S # {}
  PROVE  \E m \in S : \A n \in S : m <= n
<1> DEFINE Upto(n) == 0 .. n
           T == {Upto(n) : n \in S}
<1>1. T \subseteq FiniteSubsetsOf(Nat) /\ T # {}
  <2>1. ASSUME NEW n \in S PROVE Upto(n) \subseteq Nat /\ IsFiniteSet(Upto(n))
    <3>1. 0 \in Int /\ n \in Int
      OBVIOUS
    <3>2. IsFiniteSet(0 .. n)
      BY <3>1, FS_Interval
    <3> QED BY <3>2
  <2> HIDE DEF Upto
  <2> QED BY <2>1 DEF FiniteSubsetsOf
<1>2. PICK x \in T : \A y \in T : ~(<<y, x>> \in StrictSubsetOrdering(Nat))
  <2> HIDE DEF T
  <2> QED BY <1>1, FS_StrictSubsetOrderingWellFounded, WFMin
<1>3. PICK m \in S : x = Upto(m)
  OBVIOUS
<1>4. ASSUME NEW n \in S, n < m PROVE FALSE
  <2>1. Upto(n) \subseteq Upto(m) /\ Upto(n) # Upto(m)
    BY <1>4
  <2>2. <<Upto(n), Upto(m)>> \in StrictSubsetOrdering(Nat)
    BY <2>1 DEF StrictSubsetOrdering
  <2> QED BY <1>2, <1>3, <2>2
<1> QED BY <1>4

(* The i-th task of s, or NULL past its end.                               *)
At(s, i) == IF i \in 1 .. Len(s) THEN s[i] ELSE NULL

(* The list l links the tasks of s, in this order.                         *)
IsList(l, s) ==
  /\ s \in Seq(Task)
  /\ \A i, j \in 1 .. Len(s) : s[i] = s[j] => i = j
  /\ l.head = At(s, 1)
  /\ l.next \in [Task -> Task \cup {NULL}]
  /\ \A i \in 1 .. Len(s) : l.next[s[i]] = At(s, i + 1)

LEMMA AtFacts ==
  ASSUME NEW s \in Seq(Task)
  PROVE  /\ Len(s) \in Nat
         /\ \A i \in 1 .. Len(s) : At(s, i) = s[i] /\ s[i] \in Task /\ s[i] # NULL
         /\ \A i : i \notin 1 .. Len(s) => At(s, i) = NULL
<1>1. Len(s) \in Nat /\ \A i \in 1 .. Len(s) : s[i] \in Task
  OBVIOUS
<1> QED BY <1>1, ThreadAssumption DEF At, Thread, Slots

(* A task is linked once, so a list is no longer than the table.           *)
LEMMA ListFits ==
  ASSUME NEW l, NEW s, IsList(l, s)
  PROVE  Cardinality(Task) \in Nat /\ Len(s) <= Cardinality(Task)
<1> DEFINE f == [i \in 1 .. Len(s) |-> s[i]]
<1>1. s \in Seq(Task) /\ Len(s) \in Nat
  BY DEF IsList
<1>2. f \in Injection(1 .. Len(s), Task)
  BY <1>1 DEF IsList, Injection, IsInjective
<1>3. Cardinality(1 .. Len(s)) = Len(s)
  <2>1. 1 \in Int /\ Len(s) \in Int
    BY <1>1
  <2>2. Cardinality(1 .. Len(s)) = IF 1 > Len(s) THEN 0 ELSE Len(s) - 1 + 1
    BY <2>1, FS_Interval
  <2> QED BY <1>1, <2>2
<1>4. Cardinality(1 .. Len(s)) <= Cardinality(Task)
  <2> HIDE DEF f
  <2> QED BY <1>2, TaskAssumption, FS_Injection
<1>5. Cardinality(Task) \in Nat
  BY TaskAssumption, FS_CardinalityType
<1> QED BY <1>3, <1>4, <1>5

(* The walk along the list comes by the tasks of s.                        *)
LEMMA WalkIsList ==
  ASSUME NEW l, NEW s, IsList(l, s)
  PROVE  /\ DOMAIN Nodes(l) = 0 .. Cardinality(Task)
         /\ \A k \in 0 .. Cardinality(Task) : Nodes(l)[k] = At(s, k + 1)
<1> DEFINE N == Cardinality(Task)
           Step(f) == [k \in 0 .. N |->
                         IF k = 0 THEN l.head
                         ELSE IF f[k - 1] = NULL THEN NULL ELSE l.next[f[k - 1]]]
           IsWalk(f) == f = Step(f)
           g == [k \in 0 .. N |-> At(s, k + 1)]
<1>1. Nodes(l) = CHOOSE f : IsWalk(f)
  BY Zenon DEF Nodes
<1>2. N \in Nat /\ s \in Seq(Task) /\ Len(s) \in Nat
  BY ListFits DEF IsList
<1> HIDE DEF N
<1>3. ASSUME NEW k \in 0 .. N PROVE g[k] = Step(g)[k]
  <2>1. CASE k = 0
    BY <2>1 DEF IsList
  <2>2. CASE k # 0
    <3>1. k - 1 \in 0 .. N /\ (k - 1) + 1 = k /\ k \in Nat \ {0}
      BY <1>2, <2>2
    <3>2. g[k - 1] = At(s, k) /\ g[k] = At(s, k + 1)
      BY <3>1
    <3>3. CASE k \in 1 .. Len(s)
      <4>1. At(s, k) = s[k] /\ s[k] # NULL
        BY <1>2, <3>3, AtFacts
      <4>2. l.next[s[k]] = At(s, k + 1)
        BY <3>3 DEF IsList
      <4> QED BY <2>2, <3>2, <4>1, <4>2
    <3>4. CASE k \notin 1 .. Len(s)
      <4>1. k + 1 \notin 1 .. Len(s)
        BY <1>2, <3>1, <3>4
      <4>2. At(s, k) = NULL /\ At(s, k + 1) = NULL
        BY <1>2, <3>4, <4>1, AtFacts
      <4> QED BY <2>2, <3>2, <4>2
    <3> QED BY <3>3, <3>4
  <2> QED BY <2>1, <2>2
<1>4. IsWalk(g)
  <2>1. g = [k \in 0 .. N |-> Step(g)[k]]
    BY <1>3
  <2> QED BY <2>1
<1>5. IsWalk(Nodes(l))
  <2> HIDE DEF IsWalk
  <2> QED BY <1>1, <1>4
<1>6. DOMAIN Nodes(l) = 0 .. N
  BY <1>5
<1>7. \A k \in 0 .. N : Nodes(l)[k] = g[k]
  <2> DEFINE Bad == {k \in 0 .. N : Nodes(l)[k] # g[k]}
  <2> SUFFICES ASSUME Bad # {} PROVE FALSE
    OBVIOUS
  <2>1. PICK k \in Bad : \A i \in Bad : k <= i
    <3>1. Bad \subseteq Nat
      BY <1>2
    <3> HIDE DEF Bad
    <3> QED BY <3>1, Least
  <2>2. k # 0
    BY <1>4, <1>5, <2>1
  <2>3. k - 1 \in 0 .. N /\ k - 1 < k
    BY <1>2, <2>1, <2>2
  <2>4. Nodes(l)[k - 1] = g[k - 1]
    <3>1. k - 1 \notin Bad
      BY <1>2, <2>1, <2>3
    <3> QED BY <2>3, <3>1
  <2>5. Nodes(l)[k] = Step(Nodes(l))[k] /\ g[k] = Step(g)[k]
    BY <1>4, <1>5
  <2> QED BY <2>1, <2>2, <2>4, <2>5
<1> QED BY <1>6, <1>7 DEF N

SeqOf(l) ==
  [i \in 1 .. Cardinality({k \in DOMAIN Nodes(l) : Nodes(l)[k] # NULL}) |->
     Nodes(l)[i - 1]]

LEMMA SeqOfList ==
  ASSUME NEW l, NEW s, IsList(l, s)
  PROVE  SeqOf(l) = s
<1> DEFINE N == Cardinality(Task)
           at == Nodes(l)
           K == {k \in DOMAIN at : at[k] # NULL}
<1>1. N \in Nat /\ s \in Seq(Task) /\ Len(s) \in Nat /\ Len(s) <= N
  BY ListFits DEF IsList
<1>2. DOMAIN at = 0 .. N /\ \A k \in 0 .. N : at[k] = At(s, k + 1)
  BY WalkIsList
<1>3. SeqOf(l) = [i \in 1 .. Cardinality(K) |-> at[i - 1]]
  BY DEF SeqOf
<1> HIDE DEF at, N
<1>4. K = 0 .. (Len(s) - 1)
  <2>1. ASSUME NEW k \in 0 .. N PROVE at[k] # NULL <=> k \in 0 .. (Len(s) - 1)
    <3>1. k + 1 \in 1 .. Len(s) <=> k \in 0 .. (Len(s) - 1)
      BY <1>1
    <3> QED BY <1>1, <1>2, <3>1, AtFacts
  <2>2. 0 .. (Len(s) - 1) \subseteq 0 .. N
    BY <1>1
  <2> QED BY <1>2, <2>1, <2>2
<1>5. Cardinality(K) = Len(s)
  <2>1. 0 \in Int /\ Len(s) - 1 \in Int
    BY <1>1
  <2>2. Cardinality(0 .. (Len(s) - 1))
          = IF 0 > Len(s) - 1 THEN 0 ELSE (Len(s) - 1) - 0 + 1
    BY <2>1, FS_Interval
  <2> HIDE DEF K
  <2> QED BY <1>1, <1>4, <2>2
<1>6. \A i \in 1 .. Len(s) : at[i - 1] = s[i]
  <2> SUFFICES ASSUME NEW i \in 1 .. Len(s) PROVE at[i - 1] = s[i]
    OBVIOUS
  <2>1. i - 1 \in 0 .. N /\ (i - 1) + 1 = i
    BY <1>1
  <2> QED BY <1>1, <1>2, <2>1, AtFacts
<1>7. SeqOf(l) = [i \in 1 .. Len(s) |-> s[i]]
  <2> HIDE DEF K
  <2> QED BY <1>3, <1>5, <1>6
<1> QED BY <1>1, <1>7

LEMMA QueueIsSeqOf == QueueSeq = SeqOf(list) /\ QueueSeq' = SeqOf(list')
BY DEF QueueSeq, SeqOf, Nodes, list

(* A task linked at place i of a list.                                     *)
Linked(l, s, t, i) ==
  IF i = 1 THEN [head |-> t, next |-> [l.next EXCEPT ![t] = l.head]]
  ELSE [head |-> l.head,
        next |-> [l.next EXCEPT ![t] = l.next[s[i - 1]], ![s[i - 1]] = t]]

LEMMA LinkedIsList ==
  ASSUME NEW l, NEW s, IsList(l, s), NEW t \in Task,
         \A j \in 1 .. Len(s) : s[j] # t,
         NEW i \in 1 .. (Len(s) + 1)
  PROVE  IsList(Linked(l, s, t, i), Abstract!InsertAt(s, i, t))
<1> DEFINE q == Abstract!InsertAt(s, i, t)
           r == Linked(l, s, t, i)
<1>1. s \in Seq(Task) /\ Len(s) \in Nat
  BY DEF IsList
<1>2. /\ q \in Seq(Task) /\ Len(q) = Len(s) + 1
      /\ \A j \in 1 .. (Len(s) + 1) :
           q[j] = IF j < i THEN s[j] ELSE IF j = i THEN t ELSE s[j - 1]
  BY <1>1, SchedFacts, Abstract!InsertAtProperties
<1>3. \A j \in 1 .. Len(s) : s[j] \in Task
  BY <1>1
<1> HIDE DEF q
<1>4. \A j, k \in 1 .. Len(q) : q[j] = q[k] => j = k
  <2> SUFFICES ASSUME NEW j \in 1 .. Len(q), NEW k \in 1 .. Len(q), q[j] = q[k], j < k
               PROVE  FALSE
    BY <1>1, <1>2
  <2>1. CASE k < i
    BY <1>1, <1>2, <2>1 DEF IsList
  <2>2. CASE k = i
    BY <1>1, <1>2, <2>2
  <2>3. CASE k > i
    <3>1. q[k] = s[k - 1] /\ k - 1 \in 1 .. Len(s)
      BY <1>1, <1>2, <2>3
    <3>2. CASE j < i
      <4>1. q[j] = s[j] /\ j \in 1 .. Len(s) /\ j # k - 1
        BY <1>1, <1>2, <2>3, <3>2
      <4> QED BY <3>1, <4>1 DEF IsList
    <3>3. CASE j = i
      BY <1>1, <1>2, <3>1, <3>3
    <3>4. CASE j > i
      <4>1. q[j] = s[j - 1] /\ j - 1 \in 1 .. Len(s) /\ j - 1 # k - 1
        BY <1>1, <1>2, <3>4
      <4> QED BY <3>1, <4>1 DEF IsList
    <3> QED BY <1>1, <3>2, <3>3, <3>4
  <2> QED BY <1>1, <1>2, <2>1, <2>2, <2>3
<1>5. At(q, 1) = IF i = 1 THEN t ELSE At(s, 1)
  <2>1. At(q, 1) = q[1]
    BY <1>1, <1>2 DEF At
  <2>2. CASE i = 1
    BY <1>1, <1>2, <2>1, <2>2
  <2>3. CASE i # 1
    BY <1>1, <1>2, <2>1, <2>3 DEF At
  <2> QED BY <2>2, <2>3
<1>6. /\ l.head = At(s, 1) /\ l.next \in [Task -> Task \cup {NULL}]
      /\ \A j \in 1 .. Len(s) : l.next[s[j]] = At(s, j + 1)
  BY DEF IsList
<1>7. \A j \in 1 .. (Len(s) + 2) :
        At(q, j) = IF j < i THEN At(s, j) ELSE IF j = i THEN t ELSE At(s, j - 1)
  <2> SUFFICES ASSUME NEW j \in 1 .. (Len(s) + 2)
               PROVE  At(q, j) = IF j < i THEN At(s, j)
                                 ELSE IF j = i THEN t ELSE At(s, j - 1)
    OBVIOUS
  <2>1. CASE j = Len(s) + 2
    BY <1>1, <1>2, <2>1 DEF At
  <2>2. CASE j < i
    BY <1>1, <1>2, <2>2 DEF At
  <2>3. CASE j = i
    BY <1>1, <1>2, <2>3 DEF At
  <2>4. CASE i < j /\ j # Len(s) + 2
    <3>1. j - 1 \in 1 .. Len(s) /\ j \in 1 .. Len(q)
      BY <1>1, <1>2, <2>4
    <3> QED BY <1>1, <1>2, <2>4, <3>1 DEF At
  <2> QED BY <1>1, <2>1, <2>2, <2>3, <2>4
<1>8. At(s, i) \in Task \cup {NULL} /\ At(s, 1) \in Task \cup {NULL}
  BY <1>1, AtFacts DEF At
<1>9. CASE i = 1
  <2>1. r.head = t /\ r.next = [l.next EXCEPT ![t] = At(s, 1)]
    BY <1>6, <1>9 DEF Linked
  <2> HIDE DEF r
  <2>2. r.next \in [Task -> Task \cup {NULL}]
    BY <1>6, <1>8, <2>1
  <2>3. ASSUME NEW j \in 1 .. Len(q) PROVE r.next[q[j]] = At(q, j + 1)
    <3>1. At(q, j + 1) = At(s, j)
      BY <1>1, <1>2, <1>7, <1>9
    <3>2. CASE j = 1
      BY <1>2, <1>6, <1>9, <2>1, <3>1, <3>2
    <3>3. CASE j # 1
      <4>1. q[j] = s[j - 1] /\ j - 1 \in 1 .. Len(s) /\ (j - 1) + 1 = j
        BY <1>1, <1>2, <1>9, <3>3
      <4>2. r.next[s[j - 1]] = l.next[s[j - 1]]
        BY <1>3, <1>6, <2>1, <4>1
      <4> QED BY <1>6, <3>1, <4>1, <4>2
    <3> QED BY <3>2, <3>3
  <2> QED BY <1>2, <1>4, <1>5, <1>9, <2>1, <2>2, <2>3 DEF IsList, q, r
<1>10. CASE i # 1
  <2> DEFINE p == s[i - 1]
  <2>1. i - 1 \in 1 .. Len(s) /\ (i - 1) + 1 = i /\ p \in Task /\ p # t
    BY <1>1, <1>3, <1>10
  <2>2. r.head = At(s, 1) /\ r.next = [l.next EXCEPT ![t] = At(s, i), ![p] = t]
    BY <1>6, <1>10, <2>1 DEF Linked
  <2> HIDE DEF r
  <2>3. r.next \in [Task -> Task \cup {NULL}]
    BY <1>6, <1>8, <2>1, <2>2
  <2>4. ASSUME NEW j \in 1 .. Len(q) PROVE r.next[q[j]] = At(q, j + 1)
    <3>1. j \in 1 .. (Len(s) + 1) /\ j + 1 \in 1 .. (Len(s) + 2)
      BY <1>1, <1>2
    <3>2. CASE j = i
      <4>1. q[j] = t /\ At(q, j + 1) = At(s, i)
        BY <1>1, <1>2, <1>7, <3>1, <3>2
      <4> QED BY <1>6, <2>1, <2>2, <4>1
    <3>3. CASE j + 1 = i
      <4>1. q[j] = p /\ At(q, j + 1) = t
        BY <1>1, <1>2, <1>7, <3>1, <3>3
      <4> QED BY <1>6, <2>1, <2>2, <4>1
    <3>4. CASE j + 1 < i
      <4>1. q[j] = s[j] /\ j \in 1 .. Len(s) /\ At(q, j + 1) = At(s, j + 1) /\ j # i - 1
        BY <1>1, <1>2, <1>7, <3>1, <3>4
      <4>2. s[j] # t /\ s[j] # p /\ s[j] \in Task
        BY <1>3, <2>1, <4>1 DEF IsList
      <4> QED BY <1>6, <2>2, <4>1, <4>2
    <3>5. CASE j > i
      <4>1. q[j] = s[j - 1] /\ j - 1 \in 1 .. Len(s) /\ At(q, j + 1) = At(s, j)
            /\ j - 1 # i - 1 /\ (j - 1) + 1 = j
        BY <1>1, <1>2, <1>7, <3>1, <3>5
      <4>2. s[j - 1] # t /\ s[j - 1] # p /\ s[j - 1] \in Task
        BY <1>3, <2>1, <4>1 DEF IsList
      <4> QED BY <1>6, <2>2, <4>1, <4>2
    <3> QED BY <1>1, <3>1, <3>2, <3>3, <3>4, <3>5
  <2> QED BY <1>2, <1>4, <1>5, <1>10, <2>2, <2>3, <2>4 DEF IsList, q, r
<1> QED BY <1>9, <1>10

LEMMA UnlinkedIsList ==
  ASSUME NEW l, NEW s, IsList(l, s), NEW i \in 1 .. Len(s)
  PROVE  IsList(runqueue_dequeue(l, s[i]), Abstract!RemoveAt(s, i))
<1> DEFINE q == Abstract!RemoveAt(s, i)
           r == runqueue_dequeue(l, s[i])
           N == Cardinality(Task)
<1>1. s \in Seq(Task) /\ Len(s) \in Nat /\ N \in Nat /\ Len(s) <= N
  <2>1. s \in Seq(Task)
    BY DEF IsList
  <2>2. N \in Nat /\ Len(s) <= N
    BY ListFits
  <2> QED BY <2>1, <2>2
<1>2. /\ q \in Seq(Task) /\ Len(q) = Len(s) - 1
      /\ \A j \in 1 .. (Len(s) - 1) : q[j] = IF j < i THEN s[j] ELSE s[j + 1]
  BY <1>1, SchedFacts, Abstract!RemoveAtProperties
<1>3. \A j \in 1 .. Len(s) : s[j] \in Task /\ s[j] # NULL /\ At(s, j) = s[j]
  BY <1>1, AtFacts
<1>4. /\ l.head = At(s, 1) /\ l.next \in [Task -> Task \cup {NULL}]
      /\ \A j \in 1 .. Len(s) : l.next[s[j]] = At(s, j + 1)
      /\ \A j, k \in 1 .. Len(s) : s[j] = s[k] => j = k
  BY DEF IsList
<1>5. DOMAIN Nodes(l) = 0 .. N /\ \A k \in 0 .. N : Nodes(l)[k] = At(s, k + 1)
  BY WalkIsList
<1> HIDE DEF q, N
<1>6. \A j \in 1 .. Len(s) : At(q, j) = IF j < i THEN At(s, j) ELSE At(s, j + 1)
  BY <1>1, <1>2 DEF At
<1>7. \A j, k \in 1 .. Len(q) : q[j] = q[k] => j = k
  <2> SUFFICES ASSUME NEW j \in 1 .. Len(q), NEW k \in 1 .. Len(q), q[j] = q[k], j < k
               PROVE  FALSE
    BY <1>1, <1>2
  <2>1. \A m \in 1 .. Len(q) : m \in 1 .. Len(s) /\ m + 1 \in 1 .. Len(s)
    BY <1>1, <1>2
  <2>2. CASE k < i
    BY <1>1, <1>2, <1>4, <2>1, <2>2
  <2>3. CASE ~(k < i)
    <3>1. q[k] = s[k + 1]
      BY <1>1, <1>2, <2>3
    <3>2. CASE j < i
      BY <1>1, <1>2, <1>4, <2>1, <3>1, <3>2
    <3>3. CASE ~(j < i)
      <4>1. q[j] = s[j + 1] /\ j + 1 # k + 1
        BY <1>1, <1>2, <3>3
      <4> QED BY <1>4, <2>1, <3>1, <4>1
    <3> QED BY <3>2, <3>3
  <2> QED BY <2>2, <2>3
<1>8. l.next[s[i]] = At(s, i + 1) /\ At(s, i + 1) \in Task \cup {NULL}
  BY <1>3, <1>4
<1>9. At(q, 1) = IF i = 1 THEN At(s, 2) ELSE At(s, 1)
  BY <1>1, <1>6
<1>10. CASE i = 1
  <2>1. r.head = At(s, 2) /\ r.next = [l.next EXCEPT ![s[1]] = NULL]
    BY <1>1, <1>3, <1>4, <1>8, <1>10 DEF runqueue_dequeue
  <2> HIDE DEF r
  <2>2. r.next \in [Task -> Task \cup {NULL}]
    BY <1>4, <2>1
  <2>3. ASSUME NEW j \in 1 .. Len(q) PROVE r.next[q[j]] = At(q, j + 1)
    <3>1. q[j] = s[j + 1] /\ j + 1 \in 1 .. Len(s) /\ j + 1 # 1
      BY <1>1, <1>2, <1>10
    <3>2. s[j + 1] # s[1] /\ s[j + 1] \in Task
      BY <1>3, <1>4, <1>10, <3>1
    <3>3. At(q, j + 1) = At(s, (j + 1) + 1)
      BY <1>1, <1>6, <1>10, <3>1
    <3> QED BY <1>4, <2>1, <3>1, <3>2, <3>3
  <2> QED BY <1>2, <1>7, <1>9, <1>10, <2>1, <2>2, <2>3 DEF IsList, q, r
<1>11. CASE i # 1
  <2> DEFINE p == s[i - 1]
  <2>1. i - 1 \in 1 .. Len(s) /\ (i - 1) + 1 = i /\ p \in Task /\ p # s[i]
    BY <1>1, <1>3, <1>4, <1>11
  <2>2. l.head # s[i]
    <3>1. 1 \in 1 .. Len(s)
      BY <1>1
    <3> QED BY <1>3, <1>4, <1>11, <3>1
  <2>3. Predecessors(l, s[i]) = {p}
    <3>1. ASSUME NEW n \in Predecessors(l, s[i]) PROVE n = p
      <4>1. PICK k \in 0 .. N : Nodes(l)[k] = n /\ n \in Task /\ l.next[n] = s[i]
        BY <1>5 DEF Predecessors
      <4>2. k + 1 \in 1 .. Len(s) /\ n = s[k + 1]
        <5>1. n # NULL /\ At(s, k + 1) = n
          BY <1>5, <4>1, ThreadAssumption DEF Thread, Slots
        <5> QED BY <5>1 DEF At
      <4>3. At(s, (k + 1) + 1) = s[i] /\ s[i] # NULL
        BY <1>3, <1>4, <4>1, <4>2
      <4>4. (k + 1) + 1 \in 1 .. Len(s)
        BY <4>3 DEF At
      <4>5. (k + 1) + 1 = i
        BY <1>3, <1>4, <4>3, <4>4
      <4>6. k + 1 = i - 1
        BY <4>1, <4>5
      <4> QED BY <4>2, <4>6
    <3>2. p \in Predecessors(l, s[i])
      <4>1. i - 2 \in 0 .. N /\ (i - 2) + 1 = i - 1
        BY <1>1, <2>1
      <4>2. Nodes(l)[i - 2] = p
        BY <1>3, <1>5, <2>1, <4>1
      <4>3. l.next[p] = s[i]
        BY <1>3, <1>4, <2>1
      <4> QED BY <1>5, <2>1, <4>1, <4>2, <4>3 DEF Predecessors
    <3> QED BY <3>1, <3>2
  <2>4. /\ r.head = At(s, 1)
        /\ r.next = [n \in Task |-> IF n = s[i] THEN NULL
                                    ELSE IF n = p THEN At(s, i + 1) ELSE l.next[n]]
    BY <1>4, <1>8, <2>2, <2>3 DEF runqueue_dequeue
  <2> HIDE DEF r, p
  <2>5. r.next \in [Task -> Task \cup {NULL}]
    BY <1>4, <1>8, <2>4
  <2>6. ASSUME NEW j \in 1 .. Len(q) PROVE r.next[q[j]] = At(q, j + 1)
    <3>1. j \in 1 .. Len(s) /\ j + 1 \in 1 .. Len(s)
      BY <1>1, <1>2
    <3>2. CASE j < i
      <4>1. q[j] = s[j] /\ s[j] # s[i] /\ s[j] \in Task
        BY <1>2, <1>3, <1>4, <3>1, <3>2
      <4>2. CASE j + 1 = i
        <5>1. s[j] = p /\ At(q, j + 1) = At(s, i + 1)
          BY <1>1, <1>6, <3>1, <4>2 DEF p
        <5> QED BY <2>4, <4>1, <5>1
      <4>3. CASE j + 1 # i
        <5>1. s[j] # p /\ At(q, j + 1) = At(s, j + 1)
          BY <1>1, <1>4, <1>6, <2>1, <3>1, <3>2, <4>3 DEF p
        <5> QED BY <1>4, <2>4, <3>1, <4>1, <5>1
      <4> QED BY <4>2, <4>3
    <3>3. CASE ~(j < i)
      <4>1. q[j] = s[j + 1] /\ j + 1 # i /\ j + 1 # i - 1
        BY <1>1, <1>2, <3>1, <3>3
      <4>2. s[j + 1] # s[i] /\ s[j + 1] # p /\ s[j + 1] \in Task
        BY <1>3, <1>4, <2>1, <3>1, <4>1 DEF p
      <4>3. At(q, j + 1) = At(s, (j + 1) + 1)
        BY <1>1, <1>6, <3>1, <3>3
      <4> QED BY <1>4, <2>4, <3>1, <4>1, <4>2, <4>3
    <3> QED BY <3>2, <3>3
  <2> QED BY <1>2, <1>7, <1>9, <1>11, <2>4, <2>5, <2>6 DEF IsList, q, r
<1> QED BY <1>10, <1>11

(* The place runqueue_enqueue of Sched inserts at is the only one of its   *)
(* kind.                                                                   *)
LEMMA SlotIs ==
  ASSUME NEW s \in Seq(Task), NEW t \in Task, NEW i \in 1 .. (Len(s) + 1),
         Abstract!IsSlot(s, t, i)
  PROVE  Abstract!runqueue_enqueue(s, t) = Abstract!InsertAt(s, i, t)
<1>1. Len(s) \in Nat /\ priority[t] \in Nat
      /\ \A j \in 1 .. Len(s) : priority[s[j]] \in Nat
  BY PriorityAssumption
<1>2. ASSUME NEW j \in 1 .. (Len(s) + 1), Abstract!IsSlot(s, t, j) PROVE j = i
  <2>1. CASE j < i
    BY <1>1, <1>2, <2>1 DEF Abstract!IsSlot
  <2>2. CASE i < j
    BY <1>1, <1>2, <2>2 DEF Abstract!IsSlot
  <2> QED BY <1>1, <2>1, <2>2
<1>3. Abstract!Slot(s, t) = i
  BY <1>2 DEF Abstract!Slot
<1> QED BY <1>3 DEF Abstract!runqueue_enqueue

LEMMA EnqueueIsList ==
  ASSUME NEW l, NEW s, IsList(l, s), NEW t \in Task,
         \A j \in 1 .. Len(s) : s[j] # t, NEW r \in runqueue_enqueue(l, t)
  PROVE  IsList(r, Abstract!runqueue_enqueue(s, t)) /\ r = [head |-> r.head, next |-> r.next]
<1> DEFINE N == Cardinality(Task)
<1>1. s \in Seq(Task) /\ Len(s) \in Nat
  BY DEF IsList
<1>2. /\ \A j \in 1 .. Len(s) : At(s, j) = s[j] /\ s[j] \in Task /\ s[j] # NULL
      /\ \A j : j \notin 1 .. Len(s) => At(s, j) = NULL
  BY <1>1, AtFacts
<1>3. priority[t] \in Nat /\ \A j \in 1 .. Len(s) : priority[s[j]] \in Nat
  BY <1>1, PriorityAssumption
<1>4. l.head = At(s, 1) /\ \A j \in 1 .. Len(s) : l.next[s[j]] = At(s, j + 1)
  BY DEF IsList
<1>5. N \in Nat /\ Len(s) <= N
  BY ListFits
<1>6. DOMAIN Nodes(l) = 0 .. N /\ \A k \in 0 .. N : Nodes(l)[k] = At(s, k + 1)
  BY WalkIsList
<1> HIDE DEF N
<1>7. CASE l.head = NULL \/ priority[t] > priority[l.head]
  <2>1. r = Linked(l, s, t, 1)
    BY <1>7 DEF runqueue_enqueue, Linked
  <2>2. Abstract!IsSlot(s, t, 1)
    BY <1>1, <1>2, <1>3, <1>4, <1>7 DEF Abstract!IsSlot
  <2>3. 1 \in 1 .. (Len(s) + 1)
    BY <1>1
  <2>4. r = [head |-> r.head, next |-> r.next]
    BY <2>1 DEF Linked
  <2> QED BY <1>1, <2>1, <2>2, <2>3, <2>4, SlotIs, LinkedIsList
<1>8. CASE ~(l.head = NULL \/ priority[t] > priority[l.head])
  <2>1. PICK n \in WalkEnds(l, t) :
          r = [head |-> l.head, next |-> [l.next EXCEPT ![t] = l.next[n], ![n] = t]]
    BY <1>8 DEF runqueue_enqueue
  <2>2. PICK k \in 0 .. N :
          /\ n \in Task /\ Nodes(l)[k] = n /\ ~Passes(l, t, n)
          /\ \A j \in 0 .. (k - 1) : Passes(l, t, Nodes(l)[j])
    BY <1>6 DEF WalkEnds
  <2>3. k + 1 \in 1 .. Len(s) /\ n = s[k + 1]
    <3>1. At(s, k + 1) = n /\ n # NULL
      BY <1>6, <2>2, ThreadAssumption DEF Thread, Slots
    <3> QED BY <3>1 DEF At
  <2>4. k \in Nat /\ k + 2 \in 1 .. (Len(s) + 1) /\ (k + 1) + 1 = k + 2
        /\ k + 2 # 1 /\ (k + 2) - 1 = k + 1
    BY <1>1, <1>5, <2>3
  <2>5. ASSUME NEW j \in 1 .. ((k + 2) - 1) PROVE priority[s[j]] >= priority[t]
    <3>1. CASE j = 1
      BY <1>1, <1>2, <1>3, <1>4, <1>8, <2>3, <3>1
    <3>2. CASE j # 1
      <4>1. j - 2 \in 0 .. (k - 1) /\ j - 1 \in 1 .. Len(s) /\ j \in 1 .. Len(s)
            /\ j - 2 \in 0 .. N /\ (j - 2) + 1 = j - 1 /\ (j - 1) + 1 = j
        BY <1>1, <1>5, <2>3, <2>4, <3>2
      <4>2. Passes(l, t, s[j - 1])
        BY <1>2, <1>6, <2>2, <4>1
      <4>3. l.next[s[j - 1]] = s[j]
        BY <1>2, <1>4, <4>1
      <4> QED BY <4>2, <4>3 DEF Passes
    <3> QED BY <3>1, <3>2
  <2>6. k + 2 <= Len(s) => priority[s[k + 2]] < priority[t]
    <3> SUFFICES ASSUME k + 2 <= Len(s) PROVE priority[s[k + 2]] < priority[t]
      OBVIOUS
    <3>1. k + 2 \in 1 .. Len(s)
      BY <1>1, <2>4
    <3>2. l.next[n] = s[k + 2] /\ s[k + 2] # NULL
      BY <1>2, <1>4, <2>3, <2>4, <3>1
    <3> QED BY <1>3, <2>2, <3>1, <3>2 DEF Passes
  <2>7. Abstract!IsSlot(s, t, k + 2)
    BY <2>5, <2>6 DEF Abstract!IsSlot
  <2>8. r = Linked(l, s, t, k + 2)
    BY <2>1, <2>3, <2>4 DEF Linked
  <2>9. r = [head |-> r.head, next |-> r.next]
    BY <2>1
  <2> QED BY <1>1, <2>4, <2>7, <2>8, <2>9, SlotIs, LinkedIsList
<1> QED BY <1>7, <1>8

LEMMA DequeueIsList ==
  ASSUME NEW l, NEW s, IsList(l, s), NEW i \in 1 .. Len(s)
  PROVE  /\ IsList(runqueue_dequeue(l, s[i]), Abstract!runqueue_dequeue(s, s[i]))
         /\ runqueue_dequeue(l, s[i]) =
              [head |-> runqueue_dequeue(l, s[i]).head, next |-> runqueue_dequeue(l, s[i]).next]
<1>1. Abstract!runqueue_dequeue(s, s[i]) = Abstract!RemoveAt(s, i)
  <2>1. \A j \in 1 .. Len(s) : s[j] = s[i] <=> j = i
    BY DEF IsList
  <2>2. (CHOOSE j \in 1 .. Len(s) : s[j] = s[i]) = i
    BY <2>1
  <2> QED BY <2>2 DEF Abstract!runqueue_dequeue
<1> QED BY <1>1, UnlinkedIsList DEF runqueue_dequeue

----------------------------------------------------------------------------
(* schedule() on the linked list is schedule() of Sched.                   *)

QueueInv == IsList(list, QueueSeq) /\ Abstract!Inv

(* What schedule, entered with states st, does to tasks and queue.         *)
ScheduleFollows(st) ==
  /\ IsList(list, QueueSeq)'
  /\ \A u \in Task :
       /\ state'[u] = "READY" =>
            u \in Abstract!Queued' \/ (st[u] = "READY" /\ u \notin Abstract!Queued)
       /\ u \in Abstract!Queued' => u \in Abstract!Queued \/ u = current_task
       /\ u \notin Abstract!Queued /\ u # current_task => state'[u] = st[u]
       /\ state'[u] \in {"READY", "RUNNING"} => st[u] \in {"READY", "RUNNING"}

EntersWith(st, ts) ==
  /\ \/ st = state
     \/ current_task \in Task /\ st = [state EXCEPT ![current_task] = "ZOMBIE"]
  /\ ts \in [Task -> 0 .. DEFAULT_TIMESLICE]

LEMMA QueuedFacts ==
  ASSUME QueueInv
  PROVE  /\ Abstract!Queued = {QueueSeq[i] : i \in 1 .. Len(QueueSeq)}
         /\ Abstract!Queued \subseteq Task
         /\ \A u \in Abstract!Queued : state[u] = "READY"
         /\ Abstract!Sorted(QueueSeq) /\ Abstract!IsInjective(QueueSeq)
         /\ Abstract!Queued = Abstract!ToSet(QueueSeq)
<1>1. QueueSeq \in Seq(Task)
  BY DEF QueueInv, IsList
<1>2. DOMAIN QueueSeq = 1 .. Len(QueueSeq)
  BY <1>1
<1>3. Abstract!Queued = {QueueSeq[i] : i \in 1 .. Len(QueueSeq)}
  BY <1>2 DEF Abstract!Queued, Abstract!ToSet
<1>4. Abstract!Queued \subseteq Task
  BY <1>1, <1>3
<1> QED BY <1>3, <1>4 DEF QueueInv, Abstract!Inv, Abstract!QueueHoldsReady,
                          Abstract!QueueSorted, Abstract!QueueDistinct, Abstract!Queued

(* Both pick the same task, the first of the queue.                        *)
LEMMA PickSame ==
  ASSUME QueueInv
  PROVE  /\ runqueue_pick_next = Abstract!runqueue_pick_next
         /\ runqueue_pick_next # idle =>
              /\ 1 \in 1 .. Len(QueueSeq) /\ runqueue_pick_next = QueueSeq[1]
              /\ runqueue_pick_next \in Abstract!Queued
<1>1. QueueSeq \in Seq(Task) /\ ready_queue = At(QueueSeq, 1)
  BY DEF QueueInv, IsList, list
<1>2. CASE QueueSeq = << >>
  BY <1>1, <1>2 DEF At, runqueue_pick_next, Abstract!runqueue_pick_next
<1>3. CASE QueueSeq # << >>
  <2>1. 1 \in 1 .. Len(QueueSeq) /\ Head(QueueSeq) = QueueSeq[1]
    BY <1>1, <1>3
  <2>2. ready_queue = QueueSeq[1] /\ QueueSeq[1] # NULL
    BY <1>1, <2>1, AtFacts
  <2> QED BY <1>3, <2>1, <2>2, QueuedFacts
          DEF runqueue_pick_next, Abstract!runqueue_pick_next
<1> QED BY <1>2, <1>3

LEMMA QueueBecomes ==
  ASSUME NEW l, NEW s, IsList(l, s), l = [head |-> l.head, next |-> l.next], SetList(l)
  PROVE  QueueSeq' = s /\ IsList(list, QueueSeq)'
<1>1. list' = l
  BY DEF SetList, list
<1>2. QueueSeq' = s
  BY <1>1, QueueIsSeqOf, SeqOfList
<1>3. IsList(l, QueueSeq')
  BY <1>2
<1>4. IsList(list', QueueSeq')
  BY <1>1, <1>3
<1> QED BY <1>2, <1>4 DEF IsList, At

LEMMA FirstTaskFollows ==
  ASSUME QueueInv, NEW st, NEW ts, EntersWith(st, ts), schedule_first_task(st, ts)
  PROVE  Abstract!StartFirstTask(st, ts) /\ ScheduleFollows(st)
<1> DEFINE t == runqueue_pick_next
<1>1. /\ ~scheduler_started /\ t # idle /\ scheduler_started' = TRUE
      /\ state' = [st EXCEPT ![t] = "RUNNING"] /\ current_task' = t
      /\ SetList(runqueue_dequeue(list, t)) /\ time_slice' = ts
  BY DEF schedule_first_task
<1>2. /\ t = Abstract!runqueue_pick_next /\ 1 \in 1 .. Len(QueueSeq)
      /\ t = QueueSeq[1] /\ t \in Abstract!Queued
  BY <1>1, PickSame
<1> HIDE DEF t
<1>3. QueueSeq' = Abstract!runqueue_dequeue(QueueSeq, t) /\ IsList(list, QueueSeq)'
  BY <1>1, <1>2, DequeueIsList, QueueBecomes DEF QueueInv
<1>4. Abstract!StartFirstTask(st, ts)
  BY <1>1, <1>2, <1>3 DEF Abstract!StartFirstTask, t
<1>5. Abstract!Queued' = Abstract!Queued \ {t}
  <2>1. Abstract!ToSet(Abstract!runqueue_dequeue(QueueSeq, t)) = Abstract!ToSet(QueueSeq) \ {t}
    BY <1>2, QueuedFacts, SchedFacts, Abstract!DequeueProperties DEF QueueInv, IsList
  <2> QED BY <1>3, <2>1 DEF Abstract!Queued, Abstract!ToSet
<1>6. st \in [Slots -> {"UNUSED", "READY", "RUNNING", "ZOMBIE"}] /\ t \in Slots
      /\ st[t] = "READY"
  <2>1. t \in Task /\ state[t] = "READY"
    BY <1>2, QueuedFacts
  <2>2. t # current_task
    BY <2>1 DEF QueueInv, Abstract!Inv, Abstract!QueueHoldsReady
  <2>3. state \in [Slots -> {"UNUSED", "READY", "RUNNING", "ZOMBIE"}]
    BY DEF QueueInv, Abstract!Inv, Abstract!TypeOK, Abstract!TaskState, Abstract!Slots, Slots
  <2> QED BY <2>1, <2>2, <2>3 DEF EntersWith, Slots
<1>7. \A u \in Task : state'[u] = IF u = t THEN "RUNNING" ELSE st[u]
  BY <1>1, <1>6 DEF Slots
<1>8. ASSUME NEW u \in Task, u \in Abstract!Queued PROVE st[u] = "READY"
  <2>1. state[u] = "READY" /\ u # current_task
    BY <1>8, QueuedFacts DEF QueueInv, Abstract!Inv, Abstract!QueueHoldsReady
  <2>2. state \in [Slots -> {"UNUSED", "READY", "RUNNING", "ZOMBIE"}]
    BY DEF QueueInv, Abstract!Inv, Abstract!TypeOK, Abstract!TaskState, Abstract!Slots, Slots
  <2> QED BY <2>1, <2>2 DEF EntersWith, Slots
<1> QED BY <1>2, <1>3, <1>4, <1>5, <1>6, <1>7, <1>8 DEF ScheduleFollows

LEMMA KeepFollows ==
  ASSUME QueueInv, NEW st, NEW ts, EntersWith(st, ts), KeepCurrent(st, ts)
  PROVE  Abstract!KeepCurrent(st, ts) /\ ScheduleFollows(st)
<1>1. /\ runqueue_pick_next = current_task /\ scheduler_started' = TRUE
      /\ state' = st /\ time_slice' = ts /\ current_task' = current_task
      /\ SetList(list)
  BY DEF KeepCurrent, SetList, list
<1>2. QueueSeq' = QueueSeq /\ IsList(list, QueueSeq)'
  <2>1. list = [head |-> list.head, next |-> list.next]
    BY DEF list
  <2> QED BY <1>1, <2>1, QueueBecomes DEF QueueInv
<1>3. Abstract!KeepCurrent(st, ts)
  BY <1>1, <1>2, PickSame DEF Abstract!KeepCurrent
<1>4. Abstract!Queued' = Abstract!Queued
  BY <1>2 DEF Abstract!Queued, Abstract!ToSet
<1> QED BY <1>1, <1>2, <1>3, <1>4 DEF ScheduleFollows

LEMMA SwitchFollows ==
  ASSUME QueueInv, current_task # NULL, NEW st, NEW ts, EntersWith(st, ts), Switch(st, ts)
  PROVE  Abstract!Switch(st, ts) /\ ScheduleFollows(st)
<1> DEFINE prev    == current_task
           t       == runqueue_pick_next
           requeue == st[prev] = "RUNNING" /\ prev # idle
           s       == QueueSeq
           q       == IF requeue THEN Abstract!runqueue_enqueue(s, prev) ELSE s
<1>1. /\ scheduler_started \/ t = idle
      /\ t # prev
      /\ scheduler_started' = TRUE
      /\ state' = [st EXCEPT ![prev] = IF @ = "RUNNING" THEN "READY" ELSE @,
                             ![t] = "RUNNING"]
      /\ time_slice' = IF requeue /\ ts[prev] = 0
                       THEN [ts EXCEPT ![prev] = DEFAULT_TIMESLICE] ELSE ts
      /\ current_task' = t
  BY DEF Switch
<1>2. PICK l \in IF requeue THEN runqueue_enqueue(list, prev) ELSE {list} :
        SetList(IF t = idle THEN l ELSE runqueue_dequeue(l, t))
  BY DEF Switch
<1>3. /\ t = Abstract!runqueue_pick_next
      /\ t # idle => 1 \in 1 .. Len(s) /\ t = s[1] /\ t \in Abstract!Queued
  BY PickSame
<1>4. /\ state \in [Slots -> {"UNUSED", "READY", "RUNNING", "ZOMBIE"}]
      /\ prev \in Slots
  BY DEF QueueInv, Abstract!Inv, Abstract!TypeOK, Abstract!TaskState, Abstract!Slots, Slots
<1>5. st \in [Slots -> {"UNUSED", "READY", "RUNNING", "ZOMBIE"}]
  BY <1>4 DEF EntersWith
<1>6. ASSUME NEW u \in Abstract!Queued
      PROVE  u \in Task /\ u # prev /\ st[u] = "READY" /\ state[u] = "READY"
  <2>1. u \in Task /\ state[u] = "READY" /\ u # current_task
    BY QueuedFacts DEF QueueInv, Abstract!Inv, Abstract!QueueHoldsReady
  <2> QED BY <1>4, <2>1 DEF EntersWith, Slots
<1>7. IsList(list, s) /\ s \in Seq(Task) /\ list = [head |-> list.head, next |-> list.next]
  BY DEF QueueInv, IsList, list
<1>8. requeue => prev \in Task
  BY <1>4 DEF Slots
<1>9. \A j \in 1 .. Len(s) : s[j] # prev
  BY <1>6, QueuedFacts
<1> HIDE DEF t, s
<1>10. IsList(l, q) /\ l = [head |-> l.head, next |-> l.next]
  <2>1. CASE requeue
    BY <1>2, <1>7, <1>8, <1>9, <2>1, EnqueueIsList
  <2>2. CASE ~requeue
    BY <1>2, <1>7, <2>2
  <2> QED BY <2>1, <2>2
<1>11. /\ q \in Seq(Task) /\ Abstract!Sorted(q) /\ Abstract!IsInjective(q)
       /\ Abstract!ToSet(q) = Abstract!Queued \cup (IF requeue THEN {prev} ELSE {})
  <2>1. prev \notin Abstract!ToSet(s)
    BY <1>6, QueuedFacts DEF s
  <2>2. /\ s \in Seq(Task) /\ Abstract!Sorted(s) /\ Abstract!IsInjective(s)
        /\ Abstract!ToSet(s) = Abstract!Queued
    BY <1>7, QueuedFacts DEF s
  <2>3. CASE requeue
    BY <1>8, <2>1, <2>2, <2>3, SchedFacts, Abstract!EnqueueProperties
  <2>4. CASE ~requeue
    BY <2>2, <2>4
  <2> QED BY <2>3, <2>4
<1> HIDE DEF q
<1>12. /\ QueueSeq' = IF t = idle THEN q ELSE Abstract!runqueue_dequeue(q, t)
       /\ IsList(list, QueueSeq)'
       /\ Abstract!Queued' = Abstract!ToSet(q) \ {t}
  <2>1. CASE t = idle
    <3>1. QueueSeq' = q /\ IsList(list, QueueSeq)'
      BY <1>2, <1>10, <2>1, QueueBecomes
    <3>2. idle \notin Abstract!ToSet(q)
      <4>1. idle \notin Task
        BY ThreadAssumption
      <4> QED BY <1>6, <1>8, <1>11, <4>1
    <3> QED BY <2>1, <3>1, <3>2 DEF Abstract!Queued, Abstract!ToSet
  <2>2. CASE t # idle
    <3>1. t \in Abstract!ToSet(q)
      BY <1>3, <1>11, <2>2
    <3>2. PICK i \in 1 .. Len(q) : q[i] = t
      <4>1. DOMAIN q = 1 .. Len(q)
        BY <1>11
      <4> QED BY <3>1, <4>1 DEF Abstract!ToSet
    <3>3. /\ IsList(runqueue_dequeue(l, t), Abstract!runqueue_dequeue(q, t))
          /\ runqueue_dequeue(l, t) = [head |-> runqueue_dequeue(l, t).head,
                                      next |-> runqueue_dequeue(l, t).next]
      BY <1>10, <3>2, DequeueIsList
    <3>4. SetList(runqueue_dequeue(l, t))
      BY <1>2, <2>2
    <3>5. QueueSeq' = Abstract!runqueue_dequeue(q, t) /\ IsList(list, QueueSeq)'
      BY <3>3, <3>4, QueueBecomes
    <3>6. Abstract!ToSet(Abstract!runqueue_dequeue(q, t)) = Abstract!ToSet(q) \ {t}
      BY <1>11, <3>1, SchedFacts, Abstract!DequeueProperties
    <3> QED BY <2>2, <3>5, <3>6 DEF Abstract!Queued, Abstract!ToSet
  <2> QED BY <2>1, <2>2
<1>13. time_slice' = IF requeue THEN Abstract!Refreshed(ts, prev) ELSE ts
  <2>1. requeue => ts[prev] \in Nat
    BY <1>8, TimeAssumption DEF EntersWith
  <2> QED BY <1>1, <2>1 DEF Abstract!Refreshed
<1>14. Abstract!Switch(st, ts)
  BY <1>1, <1>3, <1>12, <1>13 DEF Abstract!Switch, t, s, q
<1>15. \A u \in Task : state'[u] = IF u = t THEN "RUNNING"
                                    ELSE IF u = prev /\ st[u] = "RUNNING" THEN "READY"
                                    ELSE st[u]
  BY <1>1, <1>4, <1>5 DEF Slots
<1>16. \A u \in Task : /\ u = t => u \in Abstract!Queued
                       /\ u = prev /\ st[u] = "RUNNING" => requeue
  BY <1>3, ThreadAssumption
<1>17. ASSUME NEW u \in Task, state'[u] = "READY"
       PROVE  u \in Abstract!Queued' \/ (st[u] = "READY" /\ u \notin Abstract!Queued)
  <2>1. u # t
    BY <1>15, <1>17
  <2>2. CASE u \in Abstract!Queued
    BY <1>11, <1>12, <2>1, <2>2
  <2>3. CASE u = prev /\ st[u] = "RUNNING"
    BY <1>11, <1>12, <1>16, <2>1, <2>3
  <2>4. CASE u \notin Abstract!Queued /\ ~(u = prev /\ st[u] = "RUNNING")
    BY <1>15, <1>17, <2>1, <2>4
  <2> QED BY <2>2, <2>3, <2>4
<1>18. ASSUME NEW u \in Task, u \in Abstract!Queued'
       PROVE  u \in Abstract!Queued \/ u = current_task
  BY <1>11, <1>12, <1>18
<1>19. ASSUME NEW u \in Task, u \notin Abstract!Queued, u # current_task
       PROVE  state'[u] = st[u]
  BY <1>15, <1>16, <1>19
<1>20. ASSUME NEW u \in Task, state'[u] \in {"READY", "RUNNING"}
       PROVE  st[u] \in {"READY", "RUNNING"}
  BY <1>6, <1>15, <1>16, <1>20
<1> QED BY <1>12, <1>14, <1>17, <1>18, <1>19, <1>20 DEF ScheduleFollows

LEMMA ScheduleIsAbstract ==
  ASSUME QueueInv, current_task # NULL, NEW st, NEW ts, EntersWith(st, ts), schedule(st, ts)
  PROVE  Abstract!schedule(st, ts) /\ ScheduleFollows(st)
BY FirstTaskFollows, KeepFollows, SwitchFollows DEF schedule, Abstract!schedule

----------------------------------------------------------------------------
(* The invariant that relates kernel_main's calls to the list.             *)

Unstarted == current_task = NULL => ~scheduler_started

(* No interrupt is open while kernel_main is in the middle of task_ready.  *)
Undisturbed == pc \in EnqueueSteps => cpu = main /\ irq_frames = {}

(* What kernel_main has not handed to task_ready is off the queue and has  *)
(* never run.                                                              *)
Pending ==
  \A i \in 1 .. Len(BootOrder) :
    (pc \in ReadyPhase => i >= boot) =>
      /\ BootOrder[i] \notin Abstract!Queued
      /\ state[BootOrder[i]] \in {"UNUSED", "READY"}
      /\ pc = "create" /\ i >= boot => state[BootOrder[i]] = "UNUSED"

OnceReadied ==
  \A i \in 1 .. Len(BootOrder) :
    pc \in ReadyPhase /\ i < boot /\ state[BootOrder[i]] = "READY" =>
      BootOrder[i] \in Abstract!Queued

LiveStacks == \A t \in Task : state[t] \in {"READY", "RUNNING"} => t \in stacks

InFront == ready_queue = NULL \/ priority[Readied] > priority[ready_queue]

Behind(k) ==
  /\ k \in 1 .. Len(QueueSeq)
  /\ curr = QueueSeq[k]
  /\ \A j \in 1 .. k : priority[QueueSeq[j]] >= priority[Readied]

Between(k) ==
  /\ Behind(k)
  /\ succ = At(QueueSeq, k + 1)
  /\ succ # NULL => priority[succ] < priority[Readied]

(* How far runqueue_enqueue has come.                                      *)
WalkState ==
  /\ pc = "link_front" => curr = ready_queue /\ InFront
  /\ pc = "set_head" => next[Readied] = ready_queue /\ InFront
  /\ pc = "walk" => \E k \in 1 .. Len(QueueSeq) : Behind(k)
  /\ pc = "link_after" => \E k \in 1 .. Len(QueueSeq) : Between(k)
  /\ pc = "set_next" => next[Readied] = succ /\ \E k \in 1 .. Len(QueueSeq) : Between(k)

BootInv ==
  /\ Unstarted /\ Undisturbed /\ Pending /\ OnceReadied /\ LiveStacks /\ WalkState

ListInv == IrqInv /\ QueueInv /\ BootInv

(* A step of kernel_main or of the hardware that schedule has no part in.  *)
LEMMA QueueUntouched ==
  ASSUME QueueInv, UNCHANGED <<ready_queue, next>>
  PROVE  /\ QueueSeq' = QueueSeq /\ IsList(list, QueueSeq)'
         /\ Abstract!Queued' = Abstract!Queued
<1>1. QueueSeq' = QueueSeq
  BY DEF QueueSeq, Nodes, list
<1>2. IsList(list, QueueSeq)'
  BY <1>1 DEF QueueInv, IsList, list, At
<1> QED BY <1>1, <1>2 DEF Abstract!Queued, Abstract!ToSet

LEMMA BootTasks ==
  /\ Len(BootOrder) \in Nat
  /\ \A i \in 1 .. Len(BootOrder) : BootOrder[i] \in Task
  /\ \A i, j \in 1 .. Len(BootOrder) : BootOrder[i] = BootOrder[j] => i = j
BY BootAssumption

LEMMA AbstractStutter ==
  ASSUME QueueInv, UNCHANGED sched_vars
  PROVE  UNCHANGED Abstract!vars /\ IsList(list, QueueSeq)'
BY QueueUntouched DEF sched_vars, Abstract!vars

(* Steps of the hardware.                                                  *)
LEMMA HardwareFollows ==
  ASSUME ListInv, TimerExpire \/ IrqExit
  PROVE  UNCHANGED Abstract!vars /\ IsList(list, QueueSeq)' /\ BootInv'
<1>1. UNCHANGED sched_vars /\ UNCHANGED main_vars /\ UNCHANGED task_vars
  BY DEF TimerExpire, IrqExit
<1>2. QueueSeq' = QueueSeq /\ Abstract!Queued' = Abstract!Queued
  BY <1>1, QueueUntouched DEF ListInv, sched_vars
<1>3. Unstarted' /\ Pending' /\ OnceReadied' /\ LiveStacks'
  BY <1>1, <1>2 DEF ListInv, BootInv, Unstarted, Pending, OnceReadied, LiveStacks,
                    sched_vars, main_vars, task_vars
<1>4. Undisturbed'
  BY <1>1 DEF ListInv, BootInv, Undisturbed, TimerExpire, IrqExit, main_vars, cpu_vars
<1>5. WalkState'
  BY <1>1, <1>2 DEF ListInv, BootInv, WalkState, Between, Behind, InFront, Readied, At,
                    sched_vars, main_vars
<1> QED BY <1>1, <1>3, <1>4, <1>5, AbstractStutter DEF ListInv, BootInv

(* Steps of kernel_main that only move it on, or walk.                     *)
LEMMA MainMoves ==
  ASSUME ListInv, UNCHANGED sched_vars, UNCHANGED cpu, UNCHANGED irq_frames,
         UNCHANGED task_vars, UNCHANGED boot, pc' \notin EnqueueSteps,
         \/ pc' = pc
         \/ pc \in BeforeSchedulerInit /\ pc' \in BeforeSchedulerInit
         \/ pc = "irq_on" /\ pc' = "create"
         \/ pc \in ReadyPhase \ {"create"} /\ pc' \in ReadyPhase
  PROVE  UNCHANGED Abstract!vars /\ IsList(list, QueueSeq)' /\ BootInv'
<1>1. QueueSeq' = QueueSeq /\ Abstract!Queued' = Abstract!Queued
  BY QueueUntouched DEF ListInv, sched_vars
<1>2. Unstarted' /\ LiveStacks' /\ Undisturbed' /\ WalkState'
  BY DEF ListInv, BootInv, Unstarted, LiveStacks, Undisturbed, WalkState, EnqueueSteps,
         sched_vars, task_vars
<1>3. pc' \in ReadyPhase <=> pc \in ReadyPhase
  BY DEF ReadyPhase, BeforeSchedulerInit, EnqueueSteps
<1>4. OnceReadied'
  BY <1>1, <1>3 DEF ListInv, BootInv, OnceReadied, sched_vars
<1>5. ASSUME NEW i \in 1 .. Len(BootOrder), pc = "irq_on" PROVE state[BootOrder[i]] = "UNUSED"
  <2>1. BootOrder[i] \in Task /\ BootOrder[i] \notin Created
    BY <1>5, BootTasks DEF ListInv, IrqInv, BootProgress
  <2> QED BY <2>1 DEF ListInv, IrqInv, FullSlices
<1>6. pc' = "create" => pc \in {"create", "irq_on"}
  BY DEF ReadyPhase, BeforeSchedulerInit, EnqueueSteps
<1>7. boot' = boot /\ state' = state
  BY DEF sched_vars
<1>8. Pending'
  <2> SUFFICES ASSUME NEW i \in 1 .. Len(BootOrder), pc' \in ReadyPhase => i >= boot
               PROVE  /\ BootOrder[i] \notin Abstract!Queued
                      /\ state[BootOrder[i]] \in {"UNUSED", "READY"}
                      /\ pc' = "create" /\ i >= boot => state[BootOrder[i]] = "UNUSED"
    BY <1>1, <1>7 DEF Pending
  <2> QED BY <1>3, <1>5, <1>6 DEF ListInv, BootInv, Pending
<1> QED BY <1>2, <1>4, <1>8, AbstractStutter DEF ListInv, BootInv

LEMMA AllCreatedFollows ==
  ASSUME ListInv, AllCreated
  PROVE  UNCHANGED Abstract!vars /\ IsList(list, QueueSeq)' /\ BootInv'
<1>1. /\ pc = "create" /\ boot' = 1 /\ pc' = "load_head"
      /\ UNCHANGED sched_vars /\ UNCHANGED cpu_vars /\ UNCHANGED irq_vars
      /\ UNCHANGED task_vars
  BY DEF AllCreated, MainAt
<1>2. QueueSeq' = QueueSeq /\ Abstract!Queued' = Abstract!Queued
  BY <1>1, QueueUntouched DEF ListInv, sched_vars
<1>3. Unstarted' /\ LiveStacks' /\ Undisturbed' /\ WalkState'
  BY <1>1 DEF ListInv, BootInv, Unstarted, LiveStacks, Undisturbed, WalkState, EnqueueSteps,
         sched_vars, task_vars
<1>4. OnceReadied' /\ Pending'
  BY <1>1, <1>2, BootTasks
     DEF ListInv, BootInv, OnceReadied, Pending, ReadyPhase, EnqueueSteps, sched_vars
<1> QED BY <1>1, <1>3, <1>4, AbstractStutter DEF ListInv, BootInv

LEMMA PhaseFollows ==
  ASSUME ListInv,
         TimerInit \/ InterruptsEnable \/ IrqOff \/ IrqOn \/ AllReady \/ Panic \/ Halt
  PROVE  UNCHANGED Abstract!vars /\ IsList(list, QueueSeq)' /\ BootInv'
<1>1. /\ UNCHANGED sched_vars /\ UNCHANGED cpu /\ UNCHANGED irq_frames
      /\ UNCHANGED task_vars /\ UNCHANGED boot
  BY DEF TimerInit, InterruptsEnable, IrqOff, IrqOn, AllReady, Panic, Halt, SetMask,
         cpu_vars, irq_vars
<1>2. \/ pc = "timer_init" /\ pc' = "interrupts_enable"
      \/ pc = "interrupts_enable" /\ pc' = "irq_off"
      \/ pc = "irq_off" /\ pc' = "scheduler_init"
      \/ pc = "irq_on" /\ pc' = "create"
      \/ pc = "load_head" /\ pc' = "idle_loop"
      \/ pc = "idle_loop" /\ pc' = "panic"
      \/ pc = "panic" /\ pc' = "halted"
  BY DEF TimerInit, InterruptsEnable, IrqOff, IrqOn, AllReady, Panic, Halt, SetMask, MainAt
<1>3. /\ pc' \notin EnqueueSteps
      /\ \/ pc \in BeforeSchedulerInit /\ pc' \in BeforeSchedulerInit
         \/ pc = "irq_on" /\ pc' = "create"
         \/ pc \in ReadyPhase \ {"create"} /\ pc' \in ReadyPhase
  BY <1>2 DEF BeforeSchedulerInit, ReadyPhase, EnqueueSteps
<1> QED BY <1>1, <1>3, MainMoves

(* The task at hand in task_ready.                                         *)
LEMMA ReadiedWaits ==
  ASSUME ListInv, pc \in EnqueueSteps \cup {"load_head"}, boot <= Len(BootOrder)
  PROVE  /\ Readied \in Task /\ Readied \notin Abstract!Queued
         /\ state[Readied] = "READY"
         /\ state' = [state EXCEPT ![Readied] = "READY"] => state' = state
         /\ \A j \in 1 .. Len(QueueSeq) : QueueSeq[j] # Readied
<1>1. boot \in 1 .. Len(BootOrder) /\ pc \in ReadyPhase
  BY BootTasks DEF ListInv, IrqInv, TypeOK, ReadyPhase
<1>2. Readied \in Task /\ Readied \in Created
  BY <1>1, BootTasks DEF Readied, ListInv, IrqInv, BootProgress
<1>3. Readied \notin Abstract!Queued /\ state[Readied] \in {"UNUSED", "READY"}
  BY <1>1, BootTasks DEF Readied, ListInv, BootInv, Pending
<1>4. state[Readied] = "READY"
  BY <1>2, <1>3 DEF ListInv, IrqInv, FullSlices
<1>5. state \in [Slots -> {"UNUSED", "READY", "RUNNING", "ZOMBIE"}]
  BY DEF ListInv, IrqInv, TypeOK
<1>6. state' = [state EXCEPT ![Readied] = "READY"] => state' = state
  BY <1>2, <1>4, <1>5 DEF Slots
<1>7. \A j \in 1 .. Len(QueueSeq) : QueueSeq[j] # Readied
  BY <1>3, QueuedFacts DEF ListInv
<1> QED BY <1>2, <1>3, <1>4, <1>6, <1>7

(* A step inside task_ready that leaves the tasks and the queue alone.     *)
LEMMA InsideReady ==
  ASSUME ListInv, MainAt(pc), pc \in EnqueueSteps \cup {"load_head"}, boot <= Len(BootOrder),
         state' = state, Abstract!Queued' = Abstract!Queued,
         UNCHANGED <<current_task, scheduler_started, cpu, irq_frames, boot, stacks>>,
         pc' \in EnqueueSteps
  PROVE  Unstarted' /\ Undisturbed' /\ Pending' /\ OnceReadied' /\ LiveStacks'
<1>1. pc' \in ReadyPhase /\ pc \in ReadyPhase /\ pc' # "create"
  BY DEF ReadyPhase, EnqueueSteps
<1>2. Unstarted' /\ LiveStacks'
  BY DEF ListInv, BootInv, Unstarted, LiveStacks
<1>3. Undisturbed'
  BY DEF Undisturbed, MainAt, ListInv, IrqInv, OpenInterrupt
<1>4. Pending' /\ OnceReadied'
  BY <1>1 DEF ListInv, BootInv, Pending, OnceReadied
<1> QED BY <1>2, <1>3, <1>4

LEMMA LoadHeadFollows ==
  ASSUME ListInv, LoadHead
  PROVE  UNCHANGED Abstract!vars /\ IsList(list, QueueSeq)' /\ BootInv'
<1>1. /\ MainAt(pc) /\ pc = "load_head" /\ boot <= Len(BootOrder)
      /\ state' = [state EXCEPT ![Readied] = "READY"]
      /\ curr' = ready_queue
      /\ pc' = IF InFront THEN "link_front" ELSE "walk"
      /\ UNCHANGED <<current_task, ready_queue, next, time_slice, scheduler_started,
                     cpu, irq_frames, boot, stacks, succ>>
  BY DEF LoadHead, InFront, MainAt, cpu_vars, irq_vars, task_vars
<1>2. state' = state /\ Readied \in Task
  BY <1>1, ReadiedWaits
<1>3. QueueSeq' = QueueSeq /\ Abstract!Queued' = Abstract!Queued /\ IsList(list, QueueSeq)'
  BY <1>1, QueueUntouched DEF ListInv
<1>4. UNCHANGED Abstract!vars
  BY <1>1, <1>2, <1>3 DEF Abstract!vars
<1>5. Unstarted' /\ Undisturbed' /\ Pending' /\ OnceReadied' /\ LiveStacks'
  BY <1>1, <1>2, <1>3, InsideReady DEF EnqueueSteps
<1>6. Readied' = Readied /\ InFront' = InFront
  BY <1>1 DEF Readied, InFront
<1>7. ASSUME InFront PROVE WalkState'
  BY <1>1, <1>6, <1>7 DEF WalkState
<1>8. ASSUME ~InFront PROVE WalkState'
  <2>1. QueueSeq \in Seq(Task) /\ ready_queue = At(QueueSeq, 1) /\ ready_queue # NULL
    BY <1>8 DEF ListInv, QueueInv, IsList, list, InFront
  <2>2. 1 \in 1 .. Len(QueueSeq) /\ ready_queue = QueueSeq[1]
    BY <2>1 DEF At
  <2>3. priority[QueueSeq[1]] >= priority[Readied]
    <3>1. priority[QueueSeq[1]] \in Nat /\ priority[Readied] \in Nat
      BY <1>2, <2>1, <2>2, PriorityAssumption
    <3> QED BY <1>8, <2>2, <3>1 DEF InFront
  <2>4. Behind(1)'
    BY <1>1, <1>3, <1>6, <2>2, <2>3 DEF Behind
  <2> QED BY <1>1, <1>3, <1>8, <2>2, <2>4 DEF WalkState
<1> QED BY <1>3, <1>4, <1>5, <1>7, <1>8 DEF BootInv

LEMMA WalkOnFollows ==
  ASSUME ListInv, WalkOn
  PROVE  UNCHANGED Abstract!vars /\ IsList(list, QueueSeq)' /\ BootInv'
<1>1. /\ MainAt(pc) /\ pc = "walk" /\ succ' = next[curr]
      /\ IF next[curr] # NULL /\ priority[next[curr]] >= priority[Readied]
         THEN curr' = next[curr] /\ pc' = pc
         ELSE pc' = "link_after" /\ curr' = curr
      /\ UNCHANGED sched_vars
      /\ UNCHANGED <<cpu, irq_frames, boot, stacks>>
  BY DEF WalkOn, MainAt, cpu_vars, irq_vars, task_vars
<1>2. boot <= Len(BootOrder)
  BY <1>1 DEF ListInv, IrqInv, BootProgress, EnqueueSteps
<1>3. QueueSeq' = QueueSeq /\ Abstract!Queued' = Abstract!Queued /\ IsList(list, QueueSeq)'
  BY <1>1, QueueUntouched DEF ListInv, sched_vars
<1>4. UNCHANGED Abstract!vars
  BY <1>1, AbstractStutter DEF ListInv
<1>5. Unstarted' /\ Undisturbed' /\ Pending' /\ OnceReadied' /\ LiveStacks'
  BY <1>1, <1>2, <1>3, InsideReady DEF EnqueueSteps, sched_vars
<1>6. PICK k \in 1 .. Len(QueueSeq) : Behind(k)
  BY <1>1 DEF ListInv, BootInv, WalkState
<1>7. /\ QueueSeq \in Seq(Task) /\ k \in Nat /\ Len(QueueSeq) \in Nat
      /\ next[curr] = At(QueueSeq, k + 1)
  BY <1>6 DEF ListInv, QueueInv, IsList, list, Behind
<1>8. Readied' = Readied
  BY <1>1 DEF Readied
<1>9. CASE next[curr] # NULL /\ priority[next[curr]] >= priority[Readied]
  <2>1. k + 1 \in 1 .. Len(QueueSeq) /\ next[curr] = QueueSeq[k + 1]
    BY <1>7, <1>9 DEF At
  <2>2. \A j \in 1 .. (k + 1) : j = k + 1 \/ j \in 1 .. k
    BY <1>7
  <2>3. Behind(k + 1)'
    BY <1>1, <1>3, <1>6, <1>8, <1>9, <2>1, <2>2 DEF Behind
  <2>4. WalkState'
    BY <1>1, <1>3, <1>9, <2>1, <2>3 DEF WalkState
  <2> QED BY <1>3, <1>4, <1>5, <2>4 DEF BootInv
<1>10. CASE ~(next[curr] # NULL /\ priority[next[curr]] >= priority[Readied])
  <2>1. next[curr] # NULL => priority[next[curr]] < priority[Readied]
    <3> SUFFICES ASSUME next[curr] # NULL PROVE priority[next[curr]] < priority[Readied]
      OBVIOUS
    <3>1. Readied \in Task
      BY <1>1, <1>2, ReadiedWaits DEF EnqueueSteps
    <3>2. next[curr] \in Task
      BY <1>7 DEF At
    <3>3. priority[next[curr]] \in Nat /\ priority[Readied] \in Nat
      BY <3>1, <3>2, PriorityAssumption
    <3> QED BY <1>10, <3>3
  <2>2. Between(k)'
    BY <1>1, <1>3, <1>6, <1>7, <1>8, <1>10, <2>1 DEF Between, Behind, At
  <2>3. WalkState'
    BY <1>1, <1>3, <1>10, <2>2 DEF WalkState
  <2> QED BY <1>3, <1>4, <1>5, <2>3 DEF BootInv
<1> QED BY <1>9, <1>10

(* A store into a task that is off the list.                               *)
LEMMA StrayStore ==
  ASSUME QueueInv, NEW t \in Task, t \notin Abstract!Queued, NEW v \in Task \cup {NULL},
         next' = [next EXCEPT ![t] = v], ready_queue' = ready_queue
  PROVE  QueueSeq' = QueueSeq /\ IsList(list, QueueSeq)' /\ Abstract!Queued' = Abstract!Queued
<1> DEFINE l == [head |-> ready_queue, next |-> [next EXCEPT ![t] = v]]
<1>1. IsList(list, QueueSeq)
  BY DEF QueueInv
<1>2. \A i \in 1 .. Len(QueueSeq) : QueueSeq[i] # t /\ QueueSeq[i] \in Task
  BY QueuedFacts
<1>3. next \in [Task -> Task \cup {NULL}]
  BY <1>1 DEF IsList, list
<1>4. IsList(l, QueueSeq)
  BY <1>1, <1>2, <1>3 DEF IsList, list
<1>5. SetList(l) /\ l = [head |-> l.head, next |-> l.next]
  BY DEF SetList
<1> HIDE DEF l
<1>6. QueueSeq' = QueueSeq /\ IsList(list, QueueSeq)'
  BY <1>4, <1>5, QueueBecomes
<1> QED BY <1>6 DEF Abstract!Queued, Abstract!ToSet

LEMMA LinkFrontFollows ==
  ASSUME ListInv, LinkFront
  PROVE  UNCHANGED Abstract!vars /\ IsList(list, QueueSeq)' /\ BootInv'
<1>1. /\ MainAt(pc) /\ pc = "link_front" /\ pc' = "set_head"
      /\ next' = [next EXCEPT ![Readied] = curr]
      /\ UNCHANGED <<current_task, ready_queue, state, time_slice, scheduler_started,
                     cpu, irq_frames, boot, stacks, curr, succ>>
  BY DEF LinkFront, LinkTask, MainAt, cpu_vars, irq_vars, task_vars
<1>2. boot <= Len(BootOrder)
  BY <1>1 DEF ListInv, IrqInv, BootProgress, EnqueueSteps
<1>3. Readied \in Task /\ Readied \notin Abstract!Queued
  BY <1>1, <1>2, ReadiedWaits DEF EnqueueSteps
<1>4. curr \in Task \cup {NULL} /\ next \in [Task -> Task \cup {NULL}]
  BY DEF ListInv, IrqInv, TypeOK
<1>5. QueueSeq' = QueueSeq /\ IsList(list, QueueSeq)' /\ Abstract!Queued' = Abstract!Queued
  BY <1>1, <1>3, <1>4, StrayStore DEF ListInv
<1>6. UNCHANGED Abstract!vars
  BY <1>1, <1>5 DEF Abstract!vars
<1>7. Unstarted' /\ Undisturbed' /\ Pending' /\ OnceReadied' /\ LiveStacks'
  BY <1>1, <1>2, <1>5, InsideReady DEF EnqueueSteps
<1>8. curr = ready_queue /\ InFront
  BY <1>1 DEF ListInv, BootInv, WalkState
<1>9. Readied' = Readied /\ InFront' = InFront
  BY <1>1 DEF Readied, InFront
<1>10. next'[Readied] = curr
  BY <1>1, <1>3, <1>4
<1>11. WalkState'
  BY <1>1, <1>8, <1>9, <1>10 DEF WalkState
<1> QED BY <1>5, <1>6, <1>7, <1>11 DEF BootInv

LEMMA LinkAfterFollows ==
  ASSUME ListInv, LinkAfter
  PROVE  UNCHANGED Abstract!vars /\ IsList(list, QueueSeq)' /\ BootInv'
<1>1. /\ MainAt(pc) /\ pc = "link_after" /\ pc' = "set_next"
      /\ next' = [next EXCEPT ![Readied] = succ]
      /\ UNCHANGED <<current_task, ready_queue, state, time_slice, scheduler_started,
                     cpu, irq_frames, boot, stacks, curr, succ>>
  BY DEF LinkAfter, LinkTask, MainAt, cpu_vars, irq_vars, task_vars
<1>2. boot <= Len(BootOrder)
  BY <1>1 DEF ListInv, IrqInv, BootProgress, EnqueueSteps
<1>3. Readied \in Task /\ Readied \notin Abstract!Queued
  BY <1>1, <1>2, ReadiedWaits DEF EnqueueSteps
<1>4. succ \in Task \cup {NULL} /\ next \in [Task -> Task \cup {NULL}]
  BY DEF ListInv, IrqInv, TypeOK
<1>5. QueueSeq' = QueueSeq /\ IsList(list, QueueSeq)' /\ Abstract!Queued' = Abstract!Queued
  BY <1>1, <1>3, <1>4, StrayStore DEF ListInv
<1>6. UNCHANGED Abstract!vars
  BY <1>1, <1>5 DEF Abstract!vars
<1>7. Unstarted' /\ Undisturbed' /\ Pending' /\ OnceReadied' /\ LiveStacks'
  BY <1>1, <1>2, <1>5, InsideReady DEF EnqueueSteps
<1>8. PICK k \in 1 .. Len(QueueSeq) : Between(k)
  BY <1>1 DEF ListInv, BootInv, WalkState
<1>9. Readied' = Readied
  BY <1>1 DEF Readied
<1>10. Between(k)'
  BY <1>1, <1>5, <1>8, <1>9 DEF Between, Behind, At
<1>11. next'[Readied] = succ
  BY <1>1, <1>3, <1>4
<1>12. WalkState'
  BY <1>1, <1>5, <1>9, <1>10, <1>11 DEF WalkState
<1> QED BY <1>5, <1>6, <1>7, <1>12 DEF BootInv

(* The store that makes the task reachable is task_ready of Sched.         *)
LEMMA LinkingFollows ==
  ASSUME ListInv, MainAt(pc), pc \in EnqueueSteps, boot <= Len(BootOrder),
         NEW i \in 1 .. (Len(QueueSeq) + 1), Abstract!IsSlot(QueueSeq, Readied, i),
         SetList(Linked(list, QueueSeq, Readied, i)),
         UNCHANGED <<current_task, state, time_slice, scheduler_started,
                     cpu, irq_frames, stacks>>,
         boot' = boot + 1, pc' = "load_head"
  PROVE  Abstract!task_ready(Readied) /\ IsList(list, QueueSeq)' /\ BootInv'
<1>1. /\ Readied \in Task /\ Readied \notin Abstract!Queued /\ state[Readied] = "READY"
      /\ \A j \in 1 .. Len(QueueSeq) : QueueSeq[j] # Readied
  BY ReadiedWaits
<1>2. QueueSeq \in Seq(Task) /\ IsList(list, QueueSeq)
  BY DEF ListInv, QueueInv, IsList
<1>3. IsList(Linked(list, QueueSeq, Readied, i), Abstract!runqueue_enqueue(QueueSeq, Readied))
  BY <1>1, <1>2, SlotIs, LinkedIsList
<1>4. Linked(list, QueueSeq, Readied, i)
        = [head |-> Linked(list, QueueSeq, Readied, i).head,
           next |-> Linked(list, QueueSeq, Readied, i).next]
  BY DEF Linked
<1>5. QueueSeq' = Abstract!runqueue_enqueue(QueueSeq, Readied) /\ IsList(list, QueueSeq)'
  BY <1>3, <1>4, QueueBecomes
<1>6. Abstract!Queued' = Abstract!Queued \cup {Readied}
  <2>1. Abstract!ToSet(Abstract!runqueue_enqueue(QueueSeq, Readied))
          = Abstract!ToSet(QueueSeq) \cup {Readied}
    BY <1>1, <1>2, QueuedFacts, SchedFacts, Abstract!EnqueueProperties DEF ListInv
  <2> QED BY <1>5, <2>1 DEF Abstract!Queued, Abstract!ToSet
<1>7. pc \in ReadyPhase /\ pc' \in ReadyPhase /\ pc' # "create" /\ pc' \notin EnqueueSteps
  BY DEF ReadyPhase, EnqueueSteps
<1>8. current_task # NULL
  BY <1>7 DEF ListInv, IrqInv, BootProgress, ReadyPhase, EnqueueSteps, BeforeSchedulerInit
<1>9. Abstract!task_ready(Readied)
  <2>1. state' = [state EXCEPT ![Readied] = "READY"]
    BY <1>1 DEF ListInv, IrqInv, TypeOK
  <2> QED BY <1>1, <1>5, <1>8, <2>1 DEF Abstract!task_ready
<1>10. Unstarted' /\ Undisturbed' /\ LiveStacks' /\ WalkState'
  BY <1>7 DEF ListInv, BootInv, Unstarted, Undisturbed, LiveStacks, WalkState, EnqueueSteps
<1>11. boot \in 1 .. Len(BootOrder) /\ boot \in Nat
  BY BootTasks DEF ListInv, IrqInv, TypeOK
<1>12. Pending'
  <2> SUFFICES ASSUME NEW j \in 1 .. Len(BootOrder), j >= boot + 1
               PROVE  /\ BootOrder[j] \notin Abstract!Queued'
                      /\ state[BootOrder[j]] \in {"UNUSED", "READY"}
    BY <1>7 DEF Pending
  <2>1. j >= boot /\ j # boot
    BY <1>11, BootTasks
  <2>2. BootOrder[j] # Readied
    BY <1>11, <2>1, BootTasks DEF Readied
  <2> QED BY <1>6, <1>7, <2>1, <2>2 DEF ListInv, BootInv, Pending
<1>13. OnceReadied'
  <2> SUFFICES ASSUME NEW j \in 1 .. Len(BootOrder), j < boot + 1,
                      state[BootOrder[j]] = "READY"
               PROVE  BootOrder[j] \in Abstract!Queued'
    BY DEF OnceReadied
  <2>1. j = boot \/ j < boot
    BY <1>11, BootTasks
  <2> QED BY <1>6, <1>7, <2>1 DEF ListInv, BootInv, OnceReadied, Readied
<1> QED BY <1>5, <1>9, <1>10, <1>12, <1>13 DEF BootInv

LEMMA SetHeadFollows ==
  ASSUME ListInv, SetHead
  PROVE  Abstract!task_ready(Readied) /\ IsList(list, QueueSeq)' /\ BootInv'
<1>1. /\ MainAt(pc) /\ pc = "set_head" /\ pc' = "load_head" /\ boot' = boot + 1
      /\ ready_queue' = Readied
      /\ UNCHANGED <<current_task, next, state, time_slice, scheduler_started,
                     cpu, irq_frames, stacks>>
  BY DEF SetHead, MainAt, cpu_vars, irq_vars, task_vars
<1>2. boot <= Len(BootOrder) /\ pc \in EnqueueSteps
  BY <1>1 DEF ListInv, IrqInv, BootProgress, EnqueueSteps
<1>3. next[Readied] = ready_queue /\ InFront
  BY <1>1 DEF ListInv, BootInv, WalkState
<1>4. QueueSeq \in Seq(Task) /\ ready_queue = At(QueueSeq, 1)
      /\ next \in [Task -> Task \cup {NULL}]
  BY DEF ListInv, QueueInv, IsList, list
<1>5. Readied \in Task
  BY <1>2, ReadiedWaits
<1>6. 1 \in 1 .. (Len(QueueSeq) + 1) /\ Len(QueueSeq) \in Nat
  BY <1>4
<1>7. Abstract!IsSlot(QueueSeq, Readied, 1)
  <2> SUFFICES ASSUME 1 <= Len(QueueSeq) PROVE priority[QueueSeq[1]] < priority[Readied]
    BY DEF Abstract!IsSlot
  <2>1. 1 \in 1 .. Len(QueueSeq)
    BY <1>6
  <2>2. ready_queue = QueueSeq[1] /\ ready_queue # NULL /\ QueueSeq[1] \in Task
    BY <1>4, <2>1, AtFacts
  <2>3. priority[QueueSeq[1]] \in Nat /\ priority[Readied] \in Nat
    BY <1>5, <2>2, PriorityAssumption
  <2> QED BY <1>3, <2>2, <2>3 DEF InFront
<1>8. [next EXCEPT ![Readied] = ready_queue] = next
  BY <1>3, <1>4
<1>9. SetList(Linked(list, QueueSeq, Readied, 1))
  BY <1>1, <1>8 DEF SetList, Linked, list
<1> QED BY <1>1, <1>2, <1>6, <1>7, <1>9, LinkingFollows

LEMMA SetNextFollows ==
  ASSUME ListInv, SetNext
  PROVE  Abstract!task_ready(Readied) /\ IsList(list, QueueSeq)' /\ BootInv'
<1>1. /\ MainAt(pc) /\ pc = "set_next" /\ pc' = "load_head" /\ boot' = boot + 1
      /\ next' = [next EXCEPT ![curr] = Readied]
      /\ UNCHANGED <<current_task, ready_queue, state, time_slice, scheduler_started,
                     cpu, irq_frames, stacks>>
  BY DEF SetNext, MainAt, cpu_vars, irq_vars, task_vars
<1>2. boot <= Len(BootOrder) /\ pc \in EnqueueSteps
  BY <1>1 DEF ListInv, IrqInv, BootProgress, EnqueueSteps
<1>3. PICK k \in 1 .. Len(QueueSeq) : Between(k) /\ next[Readied] = succ
  BY <1>1 DEF ListInv, BootInv, WalkState
<1>4. /\ QueueSeq \in Seq(Task) /\ next \in [Task -> Task \cup {NULL}]
      /\ \A i \in 1 .. Len(QueueSeq) : next[QueueSeq[i]] = At(QueueSeq, i + 1)
  BY DEF ListInv, QueueInv, IsList, list
<1>5. Readied \in Task /\ \A j \in 1 .. Len(QueueSeq) : QueueSeq[j] # Readied
  BY <1>2, ReadiedWaits
<1>6. /\ Len(QueueSeq) \in Nat /\ k \in Nat /\ k + 1 \in 1 .. (Len(QueueSeq) + 1)
      /\ k + 1 # 1 /\ (k + 1) - 1 = k
  BY <1>4
<1>7. curr = QueueSeq[k] /\ succ = At(QueueSeq, k + 1) /\ next[curr] = succ
      /\ (succ # NULL => priority[succ] < priority[Readied])
      /\ \A j \in 1 .. k : priority[QueueSeq[j]] >= priority[Readied]
  BY <1>3, <1>4 DEF Between, Behind
<1>8. Abstract!IsSlot(QueueSeq, Readied, k + 1)
  <2>1. ASSUME k + 1 <= Len(QueueSeq) PROVE priority[QueueSeq[k + 1]] < priority[Readied]
    <3>1. k + 1 \in 1 .. Len(QueueSeq)
      BY <1>6, <2>1
    <3>2. succ = QueueSeq[k + 1] /\ succ # NULL
      BY <1>4, <1>7, <3>1, AtFacts
    <3> QED BY <1>7, <3>2
  <2> QED BY <1>6, <1>7, <2>1 DEF Abstract!IsSlot
<1>9. [next EXCEPT ![Readied] = succ] = next
  BY <1>3, <1>4
<1>10. next' = [next EXCEPT ![Readied] = next[QueueSeq[k]], ![QueueSeq[k]] = Readied]
  BY <1>1, <1>7, <1>9
<1>11. SetList(Linked(list, QueueSeq, Readied, k + 1))
  BY <1>1, <1>6, <1>10 DEF SetList, Linked, list
<1> QED BY <1>1, <1>2, <1>6, <1>8, <1>11, LinkingFollows

LEMMA SchedulerInitFollows ==
  ASSUME ListInv, SchedulerInit
  PROVE  Abstract!scheduler_init /\ IsList(list, QueueSeq)' /\ BootInv'
<1>1. /\ pc = "scheduler_init" /\ pc' = "irq_on"
      /\ current_task' = idle /\ ready_queue' = NULL
      /\ next' = [t \in Task |-> NULL]
      /\ state' = [t \in Slots |-> IF t = idle THEN "READY" ELSE "UNUSED"]
      /\ time_slice' = [t \in Task |-> 0]
      /\ scheduler_started' = scheduler_started
      /\ UNCHANGED <<cpu, irq_frames, boot, stacks>>
  BY DEF SchedulerInit, MainAt, irq_vars, task_vars
<1>2. current_task = NULL /\ ~scheduler_started /\ boot = 1
  BY <1>1 DEF ListInv, IrqInv, BootProgress, BeforeSchedulerInit, BootInv, Unstarted
<1>3. scheduler_started' = FALSE
  BY <1>1, <1>2 DEF ListInv, IrqInv, TypeOK
<1> DEFINE l == [head |-> NULL, next |-> [t \in Task |-> NULL]]
<1>4. IsList(l, << >>)
  BY DEF IsList, At
<1>5. SetList(l) /\ l = [head |-> l.head, next |-> l.next]
  BY <1>1 DEF SetList
<1> HIDE DEF l
<1>6. QueueSeq' = << >> /\ IsList(list, QueueSeq)'
  BY <1>4, <1>5, QueueBecomes
<1>7. Abstract!Queued' = {}
  BY <1>6 DEF Abstract!Queued, Abstract!ToSet
<1>8. Abstract!scheduler_init
  BY <1>1, <1>2, <1>3, <1>6 DEF Abstract!scheduler_init, Abstract!Slots, Slots
<1>9. pc' \notin ReadyPhase /\ pc' \notin EnqueueSteps
  BY <1>1 DEF ReadyPhase, EnqueueSteps
<1>10. \A t \in Task : state'[t] = "UNUSED"
  BY <1>1, ThreadAssumption DEF Slots
<1>11. Pending' /\ OnceReadied' /\ LiveStacks'
  BY <1>1, <1>7, <1>9, <1>10, BootTasks DEF Pending, OnceReadied, LiveStacks
<1>12. Unstarted' /\ Undisturbed' /\ WalkState'
  BY <1>1, <1>2, <1>9 DEF Unstarted, Undisturbed, WalkState, EnqueueSteps
<1> QED BY <1>6, <1>8, <1>11, <1>12 DEF BootInv

LEMMA TaskCreateFollows ==
  ASSUME ListInv, TaskCreate
  PROVE  /\ \E t \in Task : Abstract!task_create(t)
         /\ IsList(list, QueueSeq)' /\ BootInv'
<1> DEFINE t == BootOrder[boot]
<1>1. /\ pc = "create" /\ pc' = pc /\ boot <= Len(BootOrder) /\ boot' = boot + 1
      /\ state' = [state EXCEPT ![t] = "READY"]
      /\ time_slice' = [time_slice EXCEPT ![t] = DEFAULT_TIMESLICE]
      /\ stacks' = stacks \cup {t}
      /\ UNCHANGED <<current_task, ready_queue, next, scheduler_started, cpu, irq_frames>>
  BY DEF TaskCreate, MainAt, irq_vars
<1>2. boot \in 1 .. Len(BootOrder) /\ t \in Task /\ boot \in Nat
  BY <1>1, BootTasks DEF ListInv, IrqInv, TypeOK
<1>3. state[t] = "UNUSED" /\ t \notin Abstract!Queued
  BY <1>1, <1>2 DEF ListInv, BootInv, Pending, ReadyPhase, EnqueueSteps
<1>4. current_task # NULL
  BY <1>1 DEF ListInv, IrqInv, BootProgress, BeforeSchedulerInit
<1> HIDE DEF t
<1>5. QueueSeq' = QueueSeq /\ IsList(list, QueueSeq)' /\ Abstract!Queued' = Abstract!Queued
  BY <1>1, QueueUntouched DEF ListInv
<1>6. Abstract!task_create(t)
  BY <1>1, <1>3, <1>4, <1>5 DEF Abstract!task_create
<1>7. \A u \in Task : state'[u] = IF u = t THEN "READY" ELSE state[u]
  <2>1. state \in [Slots -> {"UNUSED", "READY", "RUNNING", "ZOMBIE"}]
    BY DEF ListInv, IrqInv, TypeOK
  <2> QED BY <1>1, <2>1 DEF Slots
<1>8. pc' \notin ReadyPhase /\ pc' \notin EnqueueSteps /\ pc \notin ReadyPhase
  BY <1>1 DEF ReadyPhase, EnqueueSteps
<1>9. Unstarted' /\ Undisturbed' /\ WalkState' /\ OnceReadied'
  BY <1>1, <1>4, <1>8 DEF Unstarted, Undisturbed, WalkState, EnqueueSteps, OnceReadied
<1>10. LiveStacks'
  BY <1>1, <1>7 DEF ListInv, BootInv, LiveStacks
<1>11. Pending'
  <2> SUFFICES ASSUME NEW i \in 1 .. Len(BootOrder)
               PROVE  /\ BootOrder[i] \notin Abstract!Queued
                      /\ state'[BootOrder[i]] \in {"UNUSED", "READY"}
                      /\ i >= boot + 1 => state'[BootOrder[i]] = "UNUSED"
    BY <1>1, <1>5 DEF Pending
  <2>1. BootOrder[i] \in Task /\ (i >= boot + 1 => i >= boot /\ i # boot)
    BY <1>2, BootTasks
  <2>2. i # boot => BootOrder[i] # t
    BY <1>2, BootTasks DEF t
  <2> QED BY <1>1, <1>7, <1>8, <2>1, <2>2 DEF ListInv, BootInv, Pending
<1> QED BY <1>2, <1>5, <1>6, <1>9, <1>10, <1>11 DEF BootInv

(* A call of schedule keeps what kernel_main relies on.                    *)
LEMMA ScheduleKeepsBoot ==
  ASSUME ListInv, current_task # NULL, pc \notin EnqueueSteps,
         NEW st, NEW ts, EntersWith(st, ts), schedule(st, ts),
         UNCHANGED pc, UNCHANGED boot,
         \/ st = state /\ stacks' = stacks
         \/ /\ current_task \in Task /\ st = [state EXCEPT ![current_task] = "ZOMBIE"]
            /\ stacks' = stacks \ {current_task}
  PROVE  Abstract!schedule(st, ts) /\ IsList(list, QueueSeq)' /\ BootInv'
<1>1. Abstract!schedule(st, ts) /\ ScheduleFollows(st)
  BY ScheduleIsAbstract DEF ListInv
<1>2. current_task' # NULL
  <2>1. current_task' \in {current_task, runqueue_pick_next}
    BY DEF schedule, schedule_first_task, KeepCurrent, Switch
  <2>2. runqueue_pick_next # NULL
    BY ThreadAssumption DEF runqueue_pick_next, Thread, Slots
  <2> QED BY <2>1, <2>2
<1>3. Unstarted' /\ Undisturbed' /\ WalkState'
  BY <1>2 DEF Unstarted, Undisturbed, WalkState, EnqueueSteps
<1>4. state \in [Slots -> {"UNUSED", "READY", "RUNNING", "ZOMBIE"}]
  BY DEF ListInv, IrqInv, TypeOK
<1>5. \A u \in Task : /\ u # current_task => st[u] = state[u]
                      /\ st[u] \in {"READY", "RUNNING"} => st[u] = state[u]
  BY <1>4 DEF Slots
<1>6. LiveStacks'
  <2> SUFFICES ASSUME NEW t \in Task, state'[t] \in {"READY", "RUNNING"} PROVE t \in stacks'
    BY DEF LiveStacks
  <2>1. st[t] \in {"READY", "RUNNING"}
    BY <1>1 DEF ScheduleFollows
  <2>2. t \in stacks
    BY <1>5, <2>1 DEF ListInv, BootInv, LiveStacks
  <2>3. CASE stacks' = stacks
    BY <2>2, <2>3
  <2>4. CASE /\ current_task \in Task /\ st = [state EXCEPT ![current_task] = "ZOMBIE"]
             /\ stacks' = stacks \ {current_task}
    <3>1. t # current_task
      BY <1>4, <2>1, <2>4 DEF Slots
    <3> QED BY <2>2, <2>4, <3>1
  <2> QED BY <2>3, <2>4
<1>7. ASSUME NEW u \in Task, u \notin Abstract!Queued, state[u] \in {"UNUSED", "READY"}
      PROVE  u \notin Abstract!Queued' /\ state'[u] = state[u]
  <2>1. u # current_task
    BY <1>7 DEF ListInv, QueueInv, Abstract!Inv, Abstract!OnlyCurrentRuns
  <2> QED BY <1>1, <1>5, <1>7, <2>1 DEF ScheduleFollows
<1>8. Pending'
  <2> SUFFICES ASSUME NEW i \in 1 .. Len(BootOrder), pc \in ReadyPhase => i >= boot
               PROVE  /\ BootOrder[i] \notin Abstract!Queued'
                      /\ state'[BootOrder[i]] \in {"UNUSED", "READY"}
                      /\ pc = "create" /\ i >= boot => state'[BootOrder[i]] = "UNUSED"
    BY DEF Pending
  <2>1. BootOrder[i] \in Task
    BY BootTasks
  <2> QED BY <1>7, <2>1 DEF ListInv, BootInv, Pending
<1>9. OnceReadied'
  <2> SUFFICES ASSUME NEW i \in 1 .. Len(BootOrder), pc \in ReadyPhase, i < boot,
                      state'[BootOrder[i]] = "READY"
               PROVE  BootOrder[i] \in Abstract!Queued'
    BY DEF OnceReadied
  <2>1. BootOrder[i] \in Task
    BY BootTasks
  <2>2. \/ BootOrder[i] \in Abstract!Queued'
        \/ st[BootOrder[i]] = "READY" /\ BootOrder[i] \notin Abstract!Queued
    BY <1>1, <2>1 DEF ScheduleFollows
  <2>3. st[BootOrder[i]] = "READY" => state[BootOrder[i]] = "READY"
    BY <1>5, <2>1
  <2> QED BY <2>2, <2>3 DEF ListInv, BootInv, OnceReadied
<1> QED BY <1>1, <1>3, <1>6, <1>8, <1>9 DEF BootInv, ScheduleFollows

LEMMA SlicesType ==
  ASSUME ListInv
  PROVE  /\ TickedSlices \in [Task -> 0 .. DEFAULT_TIMESLICE]
         /\ TickedSlices = Abstract!TickedSlices
         /\ current_task = NULL => TickedSlices = time_slice
<1>1. time_slice \in [Task -> 0 .. DEFAULT_TIMESLICE]
  BY DEF ListInv, IrqInv, TypeOK
<1>2. TickedSlices \in [Task -> 0 .. DEFAULT_TIMESLICE]
  BY <1>1, TimeAssumption DEF TickedSlices
<1>3. NULL \notin Task
  BY ThreadAssumption DEF Thread, Slots
<1> QED BY <1>2, <1>3 DEF TickedSlices, Abstract!TickedSlices

(* An interrupt is a tick of Sched, with or without schedule.              *)
LEMMA TimerIrqFollows ==
  ASSUME ListInv, ~TicksHitEnqueue, TimerIrq
  PROVE  /\ Abstract!scheduler_tick \/ Abstract!TickAndSchedule \/ UNCHANGED Abstract!vars
         /\ IsList(list, QueueSeq)' /\ BootInv'
<1>1. pc' = pc /\ boot' = boot /\ curr' = curr /\ succ' = succ /\ stacks' = stacks
  BY DEF TimerIrq, main_vars, task_vars
<1>2. pc \notin EnqueueSteps
  BY DEF TimerIrq, ListInv, BootInv, Undisturbed
<1>3. ASSUME UNCHANGED <<current_task, ready_queue, next, state, scheduler_started>>
      PROVE  QueueSeq' = QueueSeq /\ IsList(list, QueueSeq)' /\ BootInv'
  <2>1. QueueSeq' = QueueSeq /\ IsList(list, QueueSeq)' /\ Abstract!Queued' = Abstract!Queued
    BY <1>3, QueueUntouched DEF ListInv
  <2>2. Unstarted' /\ Undisturbed' /\ WalkState' /\ LiveStacks'
    BY <1>1, <1>2, <1>3 DEF ListInv, BootInv, Unstarted, Undisturbed, WalkState, LiveStacks,
                            EnqueueSteps
  <2>3. Pending' /\ OnceReadied'
    BY <1>1, <1>3, <2>1 DEF ListInv, BootInv, Pending, OnceReadied
  <2> QED BY <2>1, <2>2, <2>3 DEF BootInv
<1>4. CASE ticks' = 0 /\ current_task # NULL
  <2>1. schedule(state, TickedSlices)
    BY <1>4 DEF TimerIrq
  <2>2. EntersWith(state, TickedSlices)
    BY SlicesType DEF EntersWith
  <2>3. Abstract!schedule(state, TickedSlices) /\ IsList(list, QueueSeq)' /\ BootInv'
    BY <1>1, <1>2, <1>4, <2>1, <2>2, ScheduleKeepsBoot
  <2>4. Abstract!TickAndSchedule
    BY <1>4, <2>3, SlicesType DEF Abstract!TickAndSchedule
  <2> QED BY <2>3, <2>4
<1>5. CASE ticks' = 0 /\ current_task = NULL
  <2>1. /\ UNCHANGED <<current_task, ready_queue, next, state, scheduler_started>>
        /\ time_slice' = time_slice
    BY <1>5, SlicesType DEF TimerIrq, schedule
  <2> QED BY <1>3, <2>1 DEF Abstract!vars
<1>6. CASE ticks' # 0
  <2>1. /\ UNCHANGED <<current_task, ready_queue, next, state, scheduler_started>>
        /\ time_slice' = TickedSlices
    BY <1>6 DEF TimerIrq
  <2>2. CASE current_task = NULL
    BY <1>3, <2>1, <2>2, SlicesType DEF Abstract!vars
  <2>3. CASE current_task # NULL
    BY <1>3, <2>1, <2>3, SlicesType DEF Abstract!scheduler_tick
  <2> QED BY <2>2, <2>3
<1> QED BY <1>4, <1>5, <1>6

LEMMA TaskFollows ==
  ASSUME ListInv, NEW t \in Task, Yield(t) \/ Exit(t)
  PROVE  /\ Abstract!task_yield \/ Abstract!task_exit
         /\ IsList(list, QueueSeq)' /\ BootInv'
<1>1. cpu = t /\ t # main /\ t \in Slots
  BY ThreadAssumption DEF Yield, Exit, Slots
<1>2. current_task = t /\ current_task # NULL
  BY <1>1, ThreadAssumption DEF ListInv, IrqInv, CpuIsCurrent, Thread
<1>3. pc \notin EnqueueSteps
  BY <1>1 DEF ListInv, BootInv, Undisturbed
<1>4. pc' = pc /\ boot' = boot
  BY DEF Yield, Exit, main_vars
<1>5. time_slice \in [Task -> 0 .. DEFAULT_TIMESLICE]
  BY DEF ListInv, IrqInv, TypeOK
<1>6. CASE Yield(t)
  <2>1. schedule(state, time_slice) /\ stacks' = stacks
    BY <1>6 DEF Yield
  <2>2. EntersWith(state, time_slice)
    BY <1>5 DEF EntersWith
  <2>3. Abstract!schedule(state, time_slice) /\ IsList(list, QueueSeq)' /\ BootInv'
    BY <1>2, <1>3, <1>4, <2>1, <2>2, ScheduleKeepsBoot
  <2> QED BY <1>2, <2>3 DEF Abstract!task_yield
<1>7. CASE Exit(t)
  <2> DEFINE st == [state EXCEPT ![current_task] = "ZOMBIE"]
  <2>1. schedule(st, time_slice) /\ stacks' = stacks \ {current_task}
    BY <1>7 DEF Exit
  <2>2. EntersWith(st, time_slice) /\ current_task \in Task
    BY <1>2, <1>5 DEF EntersWith
  <2>3. Abstract!schedule(st, time_slice) /\ IsList(list, QueueSeq)' /\ BootInv'
    <3>1. st = [state EXCEPT ![current_task] = "ZOMBIE"]
      OBVIOUS
    <3> HIDE DEF st
    <3> QED BY <1>2, <1>3, <1>4, <2>1, <2>2, <3>1, ScheduleKeepsBoot
  <2> QED BY <2>2, <2>3 DEF Abstract!task_exit
<1> QED BY <1>6, <1>7

----------------------------------------------------------------------------
(* Kernel implements Sched.                                                *)

LEMMA StepFollows ==
  ASSUME ListInv, ~TicksHitEnqueue, [Next]_vars
  PROVE  [Abstract!Next]_(Abstract!vars) /\ IsList(list, QueueSeq)' /\ BootInv'
<1>1. CASE UNCHANGED vars
  <2>1. /\ UNCHANGED sched_vars /\ UNCHANGED cpu_vars /\ UNCHANGED irq_vars
        /\ UNCHANGED main_vars /\ UNCHANGED task_vars
    BY <1>1 DEF vars
  <2>2. QueueSeq' = QueueSeq /\ Abstract!Queued' = Abstract!Queued
    BY <2>1, QueueUntouched DEF ListInv, sched_vars
  <2>3. Unstarted' /\ Undisturbed' /\ Pending' /\ OnceReadied' /\ LiveStacks'
    BY <2>1, <2>2 DEF ListInv, BootInv, Unstarted, Undisturbed, Pending, OnceReadied,
                      LiveStacks, sched_vars, cpu_vars, irq_vars, main_vars, task_vars
  <2>4. WalkState'
    BY <2>1, <2>2 DEF ListInv, BootInv, WalkState, Between, Behind, InFront, Readied, At,
                      sched_vars, main_vars
  <2> QED BY <2>1, <2>3, <2>4, AbstractStutter DEF ListInv, BootInv
<1>2. CASE TimerExpire \/ IrqExit
  BY <1>2, HardwareFollows
<1>3. CASE TimerIrq
  BY <1>3, TimerIrqFollows DEF Abstract!Next
<1>4. CASE TimerInit \/ InterruptsEnable \/ IrqOff \/ IrqOn \/ AllReady \/ Panic \/ Halt
  BY <1>4, PhaseFollows
<1>5. CASE SchedulerInit
  BY <1>5, SchedulerInitFollows DEF Abstract!Next
<1>6. CASE TaskCreate
  BY <1>6, TaskCreateFollows DEF Abstract!Next
<1>7. CASE AllCreated
  BY <1>7, AllCreatedFollows
<1>8. CASE LoadHead \/ WalkOn \/ LinkFront \/ LinkAfter
  BY <1>8, LoadHeadFollows, WalkOnFollows, LinkFrontFollows, LinkAfterFollows
<1>9. CASE SetHead \/ SetNext
  <2>1. boot <= Len(BootOrder) /\ pc \in EnqueueSteps
    BY <1>9 DEF SetHead, SetNext, MainAt, ListInv, IrqInv, BootProgress, EnqueueSteps
  <2>2. Readied \in Task
    BY <2>1, ReadiedWaits
  <2> QED BY <1>9, <2>2, SetHeadFollows, SetNextFollows DEF Abstract!Next
<1>10. CASE \E t \in Task : Yield(t) \/ Exit(t)
  BY <1>10, TaskFollows DEF Abstract!Next
<1> QED BY <1>1, <1>2, <1>3, <1>4, <1>5, <1>6, <1>7, <1>8, <1>9, <1>10 DEF Next, MainStep

LEMMA ListInvNext ==
  ASSUME ListInv, ~TicksHitEnqueue, [Next]_vars
  PROVE  ListInv'
<1>1. IrqInv'
  BY NextInv DEF ListInv
<1>2. [Abstract!Next]_(Abstract!vars) /\ IsList(list, QueueSeq)' /\ BootInv'
  BY StepFollows
<1>3. Abstract!Inv'
  BY <1>2, SchedFacts, Abstract!NextInv DEF ListInv, QueueInv
<1> QED BY <1>1, <1>2, <1>3 DEF ListInv, QueueInv

LEMMA ListInvInit == Init => ListInv /\ Abstract!Init
<1> SUFFICES ASSUME Init PROVE ListInv /\ Abstract!Init
  OBVIOUS
<1>1. IrqInv
  BY InitInv
<1>2. IsList(list, << >>)
  BY DEF Init, IsList, At, list
<1>3. QueueSeq = << >>
  BY <1>2, QueueIsSeqOf, SeqOfList
<1>4. Abstract!Init
  BY <1>3 DEF Init, Abstract!Init, Abstract!Slots, Slots
<1>5. Abstract!Inv
  BY <1>4, SchedFacts, Abstract!InitInv
<1>6. Abstract!Queued = {}
  BY <1>3 DEF Abstract!Queued, Abstract!ToSet
<1>7. \A t \in Task : state[t] = "UNUSED"
  BY DEF Init, Slots
<1>8. BootInv
  BY <1>6, <1>7, BootTasks DEF Init, BootInv, Unstarted, Undisturbed, Pending, OnceReadied,
     LiveStacks, WalkState, EnqueueSteps, ReadyPhase
<1> QED BY <1>1, <1>2, <1>3, <1>4, <1>5, <1>8 DEF ListInv, QueueInv

LEMMA ListInvariance == ~TicksHitEnqueue => (Spec => []ListInv)
<1> SUFFICES ASSUME ~TicksHitEnqueue PROVE Spec => []ListInv
  OBVIOUS
<1>1. Init => ListInv
  BY ListInvInit
<1>2. ListInv /\ [Next]_vars => ListInv'
  BY ListInvNext
<1> QED BY <1>1, <1>2, PTL DEF Spec

(* Abstract and Scheduler of Kernel are the same instance of Sched.        *)
LEMMA SameScheduler ==
  /\ Abstract!Init <=> Scheduler!Init
  /\ [Abstract!Next]_(Abstract!vars) <=> [Scheduler!Next]_(Scheduler!vars)
<1>1. ASSUME NEW q, NEW t
      PROVE  /\ Abstract!runqueue_enqueue(q, t) = Scheduler!runqueue_enqueue(q, t)
             /\ Abstract!runqueue_dequeue(q, t) = Scheduler!runqueue_dequeue(q, t)
  BY DEF Abstract!runqueue_enqueue, Scheduler!runqueue_enqueue, Abstract!Slot, Scheduler!Slot,
         Abstract!IsSlot, Scheduler!IsSlot, Abstract!InsertAt, Scheduler!InsertAt,
         Abstract!runqueue_dequeue, Scheduler!runqueue_dequeue,
         Abstract!RemoveAt, Scheduler!RemoveAt
<1>2. /\ Abstract!runqueue_pick_next = Scheduler!runqueue_pick_next
      /\ Abstract!TickedSlices = Scheduler!TickedSlices
      /\ Abstract!Queued = Scheduler!Queued
      /\ Abstract!Slots = Scheduler!Slots
      /\ Abstract!vars = Scheduler!vars
      /\ UNCHANGED Abstract!vars <=> UNCHANGED Scheduler!vars
  BY DEF Abstract!runqueue_pick_next, Scheduler!runqueue_pick_next,
         Abstract!TickedSlices, Scheduler!TickedSlices, Abstract!Queued, Scheduler!Queued,
         Abstract!ToSet, Scheduler!ToSet, Abstract!Slots, Scheduler!Slots,
         Abstract!vars, Scheduler!vars
<1>3. ASSUME NEW st, NEW ts PROVE Abstract!schedule(st, ts) <=> Scheduler!schedule(st, ts)
  <2>1. Abstract!StartFirstTask(st, ts) <=> Scheduler!StartFirstTask(st, ts)
    BY <1>1, <1>2 DEF Abstract!StartFirstTask, Scheduler!StartFirstTask
  <2>2. Abstract!KeepCurrent(st, ts) <=> Scheduler!KeepCurrent(st, ts)
    BY <1>2 DEF Abstract!KeepCurrent, Scheduler!KeepCurrent
  <2>3. Abstract!Switch(st, ts) <=> Scheduler!Switch(st, ts)
    BY <1>1, <1>2 DEF Abstract!Switch, Scheduler!Switch, Abstract!Refreshed, Scheduler!Refreshed
  <2> QED BY <2>1, <2>2, <2>3 DEF Abstract!schedule, Scheduler!schedule
<1>4. /\ Abstract!scheduler_init <=> Scheduler!scheduler_init
      /\ \A t \in Task : /\ Abstract!task_create(t) <=> Scheduler!task_create(t)
                         /\ Abstract!task_ready(t) <=> Scheduler!task_ready(t)
      /\ Abstract!scheduler_tick <=> Scheduler!scheduler_tick
  BY <1>1, <1>2
     DEF Abstract!scheduler_init, Scheduler!scheduler_init,
         Abstract!task_create, Scheduler!task_create, Abstract!task_ready, Scheduler!task_ready,
         Abstract!scheduler_tick, Scheduler!scheduler_tick
<1>5. /\ Abstract!TickAndSchedule <=> Scheduler!TickAndSchedule
      /\ Abstract!task_yield <=> Scheduler!task_yield
      /\ Abstract!task_exit <=> Scheduler!task_exit
  BY <1>2, <1>3
     DEF Abstract!TickAndSchedule, Scheduler!TickAndSchedule,
         Abstract!task_yield, Scheduler!task_yield, Abstract!task_exit, Scheduler!task_exit
<1>6. Abstract!Next <=> Scheduler!Next
  BY <1>4, <1>5 DEF Abstract!Next, Scheduler!Next
<1>7. Abstract!Init <=> Scheduler!Init
  BY <1>2 DEF Abstract!Init, Scheduler!Init
<1> QED BY <1>2, <1>6, <1>7

(* The kernel implements the scheduler of Sched, if no interrupt hits a    *)
(* task_ready: the calls on the linked list, spread over boot, interrupts  *)
(* and tasks, are the calls of Sched on a sequence.                        *)
THEOREM KernelImplementsSched == ~TicksHitEnqueue => (Spec => SchedulerSpec)
<1> SUFFICES ASSUME ~TicksHitEnqueue PROVE Spec => SchedulerSpec
  OBVIOUS
<1>1. Init => Scheduler!Init
  BY ListInvInit, SameScheduler
<1>2. ListInv /\ [Next]_vars => [Scheduler!Next]_(Scheduler!vars)
  BY StepFollows, SameScheduler
<1>3. Spec => []ListInv
  BY ListInvariance
<1> QED BY <1>1, <1>2, <1>3, PTL DEF Spec, SchedulerSpec, Scheduler!Spec

LEMMA OnQueueIsQueued ==
  ASSUME QueueInv, NEW t \in Task
  PROVE  OnQueue(t) <=> t \in Abstract!Queued
<1> DEFINE N == Cardinality(Task)
<1>1. /\ QueueSeq \in Seq(Task) /\ Len(QueueSeq) \in Nat
      /\ N \in Nat /\ Len(QueueSeq) <= N
  <2>1. QueueSeq \in Seq(Task)
    BY DEF QueueInv, IsList
  <2>2. N \in Nat /\ Len(QueueSeq) <= N
    BY ListFits DEF QueueInv
  <2> QED BY <2>1, <2>2
<1>2. DOMAIN Nodes(list) = 0 .. N /\ \A k \in 0 .. N : Nodes(list)[k] = At(QueueSeq, k + 1)
  BY WalkIsList DEF QueueInv
<1>3. t # NULL
  BY ThreadAssumption DEF Thread, Slots
<1> HIDE DEF N
<1>4. ASSUME OnQueue(t) PROVE t \in Abstract!Queued
  <2>1. PICK k \in 0 .. N : At(QueueSeq, k + 1) = t
    BY <1>2, <1>4 DEF OnQueue
  <2> QED BY <1>3, <2>1, QueuedFacts DEF At
<1>5. ASSUME t \in Abstract!Queued PROVE OnQueue(t)
  <2>1. PICK i \in 1 .. Len(QueueSeq) : QueueSeq[i] = t
    BY <1>5, QueuedFacts
  <2>2. i - 1 \in 0 .. N /\ (i - 1) + 1 = i
    BY <1>1
  <2> QED BY <1>1, <1>2, <2>1, <2>2, AtFacts DEF OnQueue
<1> QED BY <1>4, <1>5

(* No thread runs on a stack that was freed and no queued task has lost    *)
(* its own, if no interrupt hits a task_ready.                             *)
THEOREM StacksOutliveTasks == ~TicksHitEnqueue => (Spec => []RunsOnLiveStack)
<1>1. ListInv => RunsOnLiveStack
  <2> SUFFICES ASSUME ListInv PROVE RunsOnLiveStack
    OBVIOUS
  <2>1. cpu \in Task => cpu \in stacks
    <3> SUFFICES ASSUME cpu \in Task PROVE cpu \in stacks
      OBVIOUS
    <3>1. current_task = cpu
      BY DEF ListInv, IrqInv, CpuIsCurrent, Slots
    <3>2. state[cpu] = "RUNNING"
      BY <3>1 DEF ListInv, QueueInv, Abstract!Inv, Abstract!OnlyCurrentRuns
    <3> QED BY <3>2 DEF ListInv, BootInv, LiveStacks
  <2>2. \A t \in Task : OnQueue(t) => t \in stacks
    BY OnQueueIsQueued, QueuedFacts DEF ListInv, BootInv, LiveStacks
  <2> QED BY <2>1, <2>2 DEF RunsOnLiveStack
<1> QED BY <1>1, ListInvariance, PTL

(* Nobody handed to task_ready is READY and off the queue, if no interrupt *)
(* hits a task_ready.                                                      *)
THEOREM ReadyMeansQueued == ~TicksHitEnqueue => (Spec => []ReadyTasksQueued)
<1>1. ListInv => ReadyTasksQueued
  <2> SUFFICES ASSUME ListInv, NEW t \in Task, Enqueued(t), state[t] = "READY"
               PROVE  OnQueue(t)
    BY DEF ReadyTasksQueued
  <2>1. pc \in ReadyPhase
    BY DEF Enqueued, ListInv, IrqInv, TypeOK, ReadyPhase
  <2>2. t \in Abstract!Queued
    BY <2>1 DEF Enqueued, ListInv, BootInv, OnceReadied
  <2> QED BY <2>2, OnQueueIsQueued DEF ListInv
<1> QED BY <1>1, ListInvariance, PTL

=============================================================================
