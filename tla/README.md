# A TLA+ model of the Zixiao Server OS kernel

Zixiao is a small kernel in C and assembly for ARM64 (QEMU virt) and x86_64.
It runs on one CPU, without user mode and without locks: `kernel_main`, the
interrupt handlers and a few kernel tasks share everything, and what keeps them
apart is the interrupt mask and the order of the calls.  Most of what could go
wrong lies in that order.  This directory models it in TLA+, checks it with TLC
on small instances, and proves with TLAPS, for every value of the constants,
the invariants on which the rest stands.

All paths below are relative to the repository's `src/`.

## 1. The system

| Component | State | Operations | Module |
|---|---|---|---|
| Yuheng scheduler, `kernel/scheduler/sched.c` | run queue (a linked list sorted by priority), `current_task`, `scheduler_started`, task states and time slices | `scheduler_init`, `task_ready`, `schedule`, `task_yield`, `scheduler_tick` | Sched, Kernel |
| Task management, `kernel/scheduler/task.c` | `task_table`, `next_pid`, kernel stacks | `task_create`, `task_exit`, `scheduler_init` | TaskTable (slots and stacks on the heap), Sched, Kernel (when and where) |
| Context switch, `arch/arm64/scheduler/context_switch.S`, `schedule_first_task` | `task->context` | `switch_to`, `arch_setup_task_context` | Kernel |
| Tasks, `test_tasks.c`, `idle.c` | loop counters | yield, exit, idle | Kernel |
| Interrupt path, ARM64: `boot.S` vectors, `exceptions.c`, `gic.c`, `timer.c` | PSTATE.I, `ELR_EL1`, frames on stacks, active interrupt, compare value, `timer_ticks` | entry, acknowledge, handle, rearm, end, `eret` | Kernel |
| Boot, `arch/*/kernel_main.c` | where it is | set memory up, set interrupts up, create and queue tasks, idle | Kernel, BootMemory, Mmu |
| Panic, `kernel/panic.c` | none | report, halt | Kernel |
| Page allocator, `kernel/mm/pmm.c` | bitmap, counters | init, alloc, free | Pmm |
| Kernel heap, `kernel/mm/kmalloc.c` | block headers, `used_heap_size` | init, kmalloc, kmalloc_aligned, kfree | Heap |
| Page tables, `arch/{arm64,x86_64}/mm/mmu.c` | table pages, root register, TLB | map, unmap, create, switch, walk, init | Mmu |
| VGA console, `vga.c` (x86_64) | cursor | `console_putchar` and what handlers print in between | VgaConsole |
| Interrupt path, x86_64: `interrupts.S`, `idt.c`, `timer.c`, `keyboard.c` | PIC requests and services, handler table, frames, IF, the keyboard's byte, `timer_ticks` | set-up, delivery, end of interrupt, handlers, `iretq` | X86Interrupts |
| String library and printf, `kernel/lib/*.c` | the caller's memory; the format and the arguments | `mem*`, `str*`, `console_printf` | StringLib, Printf |
| VFS and initial RAM disk, `kernel/fs/*.c` | root, one data array | mount, open, read | InitRd |
| UART, GDT, early boot, x86_64 context switch, scripts | - | - | not modelled, see section 8 |

How they interact:

* `kernel_main` calls `pmm_init`, then `mmu_init` (page tables from the page
  allocator), then hands a range of pages to `kmalloc_init`; `task_create` takes
  stacks from that heap and `task_exit` gives them back.
* A timer interrupt may arrive wherever interrupts are enabled.  Its handler
  calls `scheduler_tick`, and every tenth time `schedule`, which may leave for
  another thread with the handler's frame still on the stack of the first.
* Tasks call `schedule` themselves through `task_yield` and `task_exit`.
* On x86_64 the keyboard and timer handlers print through the same console, and
  the same two cursor variables, as the code they interrupt.  `irq_handler` ends
  the interrupt before it calls the handler, so only the gate's cleared IF and
  the stub's frame keep handlers apart from each other and from that code.

What is hard here, with the properties it asks for:

* **Interrupt discipline, ARM64.** `ELR_EL1` and `SPSR_EL1` are saved nowhere,
  `switch_to` does not touch the interrupt mask, and a handler may switch
  threads before its end of interrupt.  `EretReturnsToOwner`, `IrqInv`.
* **Interrupt discipline, x86_64.** End of interrupt first, handlers printing
  in the middle of prints, keys before their handler is there.  `EndsItsOwn`,
  `ImplementsConsole`, `KeysAreRead`.
* **A panic with interrupts on.** A tick may take the CPU away from the report.
  `PanicHalts`.
* **`schedule` is a sequence**: pick, requeue the previous task, unlink the
  picked one.  The queue must stay sorted and free of duplicates, no task may
  get lost, the highest priority and among equals the oldest must run.
  `Inv` of Sched, `NoTaskLost`, `DispatchesHighest`, `FifoWithinPriority`,
  `NoStarvation`.
* **`task_exit` frees the stack it runs on.** `RunsOnLiveStack`.
* **Task creation can fail halfway**, with a slot used up and no stack.
  `StacksOwned`, `HandlesStable`.
* **Allocators under long mixes of calls**, exhaustion, odd pointers and odd
  sizes: `ImplementsArena` (nobody overlaps anybody), `Inv` of Pmm and Heap,
  `BitmapCoversPages`, `HeadersPersist`, `LostOnlyIfAligned`, `FindsLowestFit`.
* **The heap's contiguity** is an unchecked consequence of the order of all
  earlier page allocations, among them a test that gives a page back and is to
  get the same one again.  `HeapOwned`, `ReusesFreedPage`.
* **The MMU reads the tables while they change** and remembers what it read;
  calls fail halfway.  `Inv` of Mmu, `NoUseAfterUnmap`, `StaleOnlyByRemap`,
  `EnabledWithMappings`, `ImplementsAddressMap`.
* **Unlocked cursor.** `CursorReturns`, `MainOnScreen`.
* **Clipped reads** of files that lie back to back.  `ReadsThatFile`,
  `ZeroMeansEnd`.
* **Numbers at the ends of their types**, and arguments of two widths behind one
  `%d`; string functions that must not touch a byte too many.
  `PrintsAsAsked`, `StringCallsExact`.

Properties that are conjuncts of an inductive invariant (`QueueDistinct`,
`CpuIsCurrent`, `Tiling`, `UsedIsTheSum`, `BitsAccountedFor`, ...) are checked as
part of it: `Inv` in Sched, Pmm, Heap and Mmu, `IrqInv` in Kernel.

`PROJECT.json` lists every hazard with its line and the properties that cover
it, or why none does.

## 2. The modules

    Sched       <-- refined by --  Kernel          (SchedulerSpec)
    Arena       <-- refined by --  Pmm, Heap       (ImplementsArena)
    AddressMap  <-- refined by --  Mmu             (ImplementsAddressMap)
    VgaConsole  <-- refined and extended by -- X86Interrupts
                                                   (ImplementsConsole)
    Pmm         <-- extended by -- BootMemory      (also refines Arena)
    Heap        <-- extended by -- TaskTable       (also refines Arena)
    StringLib   <-- extended by -- Printf
    InitRd                         stands alone

    SchedProofs, KernelProofs, MmuProofs, InitRdProofs
                                   theorems about the module in their name
    BootMemoryProofs               theorems about Pmm and BootMemory
    TaskTableProofs                theorems about Heap and TaskTable
    X86InterruptsProofs            theorems about VgaConsole and X86Interrupts
    PrintfProofs                   theorems about StringLib and Printf
    MC*                            instances for TLC

**Sched** is the scheduler with every public call as one indivisible action and
the run queue as a sequence.  `Slot` is where the walk of `runqueue_enqueue`
stops; `schedule` is the disjunction of its three outcomes
(`StartFirstTask` = `schedule_first_task`, `KeepCurrent`, `Switch`), each with
the task states and slices it is entered with, because `task_exit` and the tick
change those first.  The idle task is a value that is never in the queue, as in
the code.

**Kernel** puts that on the machine.  The run queue is `ready_queue` and `next`
pointers.  A thread's registers are named by the thread: `cpu` is who runs,
`cpu_context[t]` whose registers are saved in task `t` (so that `kernel_main`,
running under the name of the idle task, is saved as the idle task's context).
`masked` is PSTATE.I, `irq_frames` the threads with a frame of `irq_handler` on
their stack, `elr` the thread `ELR_EL1` points into, `irq_active` an interrupt
acknowledged and not ended.  `TimerIrq` is the whole path from the vector to the
return, or the switch, of `schedule`; `IrqExit` the rest up to `eret`.
`kernel_main` is a program counter over the calls it makes; `task_ready` is cut
into its loads and stores (`LoadHead`, `WalkOn`, `LinkFront`, ... `SetNext`),
since it runs with interrupts enabled.  `TicksHitEnqueue` says whether an
interrupt may arrive among those.

**Pmm** keeps the bitmap as the set of marked pages and the two counters;
`pmm_alloc_page` takes the page its loop finds, which tests one bit after the
other, in each call from page 0 on (`FirstClear`).  The page size, the bits in a byte and the bytes in a word are constants:
with 4096, 8 and 8 a second bitmap page needs 128 MB.  `held` is a history
variable, what callers got.  **BootMemory** runs `kernel_main`'s memory set-up
on it: the page tables of `mmu_init`, the four-page test, the loop over the heap
pages and `kmalloc_init`, and after that every call of Pmm (`BootedCall`).

**Heap** keeps the headers as a function from address to `[size, next,
allocated]`; a pointer has the magic number in front of it if and only if there
is a header.  `Rounded` has the mask of `kmalloc_aligned`, which is 32 bits wide
and would cut a pointer above 4 GB (`UINT32`) down to its lower half.  `live` is
a history variable, what callers hold.  **TaskTable** puts
`scheduler_init`, `task_create` and `task_exit` on it, with every way they fail:
no slot, no stack (the slot stays used up), and the idle task's missing stack,
which `scheduler_init` does not test for (`FAULT`).  Other callers use the same
heap at the same time.

**Mmu** models both `mmu.c` files, which share their control: `ARM64` selects
the flags, the flushes and the mappings of `mmu_init`.  A call is a sequence of
steps, one for each level of the walk (read the entry; or take a page, zero it,
link it), then the store of the leaf, then the flush.  Between any two steps the
hardware may walk the tables from the root and remember what it finds (`tlb`),
or forget it.  `unmap_page` is such a call too: it begins, it clears the entry its
walk finds, it flushes.  What a call was called with stays in `call` until it is
done, the root as history, since the code keeps only the table it has come to.

**VgaConsole** is `console_putchar` in the order of loads and stores that gcc
`-O2` (the level of the Makefile) gives it, with whole `console_putchar` calls
of the handlers in between, each as one step.  **X86Interrupts** takes that step
apart: the PIC with its requests and services, the gate, the stub's frame, the
end of interrupt before the handler, the keyboard's byte, the timer's report one
character at a time, `iretq`, and the order in which `kernel_main` installs it
all.  It keeps a list of frames, so that handlers could nest if the gates let
them.

**StringLib** has every function of `string.c` on a memory of characters, each
loop as a function of its pass; a character has a byte (`Code`), and `Byte` is
what the conversion to `uint8_t` or `char` leaves of a number.  **Printf** has `console_printf` with its flags, widths, sizes and
argument reads, and `print_int` with its buffer and signs, on a format made of
items.  The reference definitions (what C says of a function; what a format
asks for) are written as what the result must be.

**InitRd** is the VFS over the RAM disk with a byte as the pair of file and
position, and a caller that reads on from where it was.  Both files lie in one
array (`test_data`), as `initrd_create` puts them, so that a wrong offset or
length would show a byte of the other file or of what is behind it.

**Arena** and **AddressMap** are the promises: memory that nobody else holds;
address spaces that change by requests only.  A request names the space, the page
and what the page is to translate to.  Serving it (`Map`, `Unmap`) changes just
that page of just that space to just that; a request to map may also be refused,
and then nothing changes.  Mmu's refinement mapping takes the request from the
arguments in `call` (`Request`), and the spaces from the walks through the
tables, so a store into another page, root or entry than the call's would be no
step of AddressMap, and neither would a call that fails and has changed a page.

## 3. The runs

Every run finishes in at most three minutes on two workers.  Bounds are named
in the modules or the `.cfg` files.

| Run | Instance | What it shows |
|---|---|---|
| `sched` | tasks of priorities 7, 5, 5, 3; slice 2 | Any order of the calls keeps the queue sorted and distinct, loses nobody, serves by priority and first-come; with `Reschedule` fair, nobody starves whom at most one task outranks |
| `kernel` | the three tasks `kernel_main` creates, at their priorities and in its order, and a fourth that all of them outrank; a `schedule` on every 2nd tick; 2 yields a task; panic possible | The whole of boot, ticks, switches and exits refines Sched; `eret` goes back to the interrupted thread; freed stacks are never run on; waiting tasks run; a panic halts |
| `kernel_ticks` | the three tasks alone, 1 yield, no panic | Violation: the timer stops after the first switch from a tick (section 6) |
| `kernel_lost` | the three tasks alone, with ticks inside `task_ready` | Violation: a task falls off the queue (section 6) |
| `pmm` | 13 pages, 4 of them for the bitmap; boot with 0 to 10 page tables and 1 to 10 heap pages, then any calls, with frees of every address, held, free or outside | Every page at most once, never a bitmap page; the free count is right; for every point of exhaustion the test of four pages gets the one it freed back, the heap is contiguous, and all of it is the kernel's, now and after |
| `heap` | 272 bytes; requests of 0, 1, 40 and 100 bytes, alignments 8, 12 (refused), 32; four slots for tasks with stacks of 40 (idle) and of 40 or 100 bytes | The blocks tile the heap, counts are exact, nobody overlaps, a block is lost through an aligned pointer only; every live task keeps its stack and its slot |
| `heap_leak` | the heap alone | Violation: kfree of an aligned pointer frees nothing (section 6) |
| `mmu_arm` | 6 frames, 3 pages: two that share all tables, one that shares the first two with them | Every interleaving of steps and hardware walks; pages run out halfway through calls, which then change no page; every other call changes the page it is about as asked, and nothing else |
| `mmu_x86` | 8 frames, one page, device flag or none | Two complete address spaces, each changed by the calls about it only; CR3 reloads |
| `x86` | 2 rows of 8 columns, at most 3 characters from handlers inside one call, a report on every 2nd tick | Handlers do not nest and end their own interrupts; each is one step of the console to the code it cuts into; keys are read; the cursor is on the screen when no scroll is open, and `kernel_main`'s characters land on it |
| `initrd` | files of 5 and 7 bytes, in an array of 16, buffers of 0, 1, 2, 5, 7, 8 bytes, 4-bit `size_t` | Exactly the file's bytes in order; 0 only at its end |
| `lib` | 4 bytes of memory over NUL and two characters (a byte has three values); an int of 5 bits, a long long of 6 | Every string function on every memory they can make does what C says, and touches no other byte, but for the one `strncpy` writes behind its n (section 6); every number of either type prints as asked, alone and among other items |

Why the bounds are enough.  Four tasks of three priorities hold every relation
the queue distinguishes (above, equal, below, and one behind two equals); the
fourth task of Kernel lets a task go back in front of two others.  The heap of
272 bytes holds eight least blocks, so that splitting, the refusal to split and
exhaustion all happen after one another in every order; the stacks of idle and
of two tasks, one of either size, fit at once, but with other callers about,
neither four slots nor their stacks always do.  13 pages give a bitmap
whose last byte is not full and that needs several pages.  The three
pages of `mmu_arm` need all 6 frames; fewer are free at the start of some
behaviours, and other users or a second root take some in others, so exhaustion
happens at every level of a call.  The 8 of `mmu_x86` hold two whole trees.  Two rows are
one more than a scroll needs, and eight columns hold two tab stops.  `ECHOES`
bounds the characters printed by handlers during one call; the theorem about the
cursor holds for any value of it.  Four bytes of memory hold two strings
with their NULs, overlapping moves by every distance, and an unterminated string;
6 bits make decimals of two digits and both hexadecimal letters and digits, and the
least number of each type, the one without a negation.

Deadlock is checked except where the system stops: the kernel halts after a
panic, `mmu_init` hangs without a page and a fault in Mmu is final, and the
memory set-up of BootMemory ends when it runs out of pages, and TaskTable stops
at `FAULT`.

Tick rate: `SCHED_TICKS` is 10 in the code and 2 in the runs; both phases (a
tick that schedules and one that does not) occur at every point.

Every passing property has a mutant in `PROJECT.json`: the model with a
plausible fault (the definitions marked "Fault:" in the modules) violates it.

## 4. Fairness

* Sched: weak fairness of `Reschedule`, that is, whoever has the CPU eventually
  yields or exits, and over the idle task the timer ticks.  This is an
  assumption about callers; the tasks of `test_tasks.c` keep it.
* Kernel: weak fairness of the timer's expiry, of taking a pending unmasked
  interrupt, of the handler's end and of the running task's next call.  These
  are the hardware's and the CPU's progress.  `MainStep` has strong fairness:
  an interrupt disables it again and again, but the handler rearms the timer a
  whole interval (10 ms) ahead of the moment it returns, so `kernel_main` gets
  to run between two interrupts.  The panic key has none: nobody has to type.
* X86Interrupts: weak fairness of `kernel_main`'s next instruction and of the
  handler's, the CPU's progress.  Strong fairness of `Boot`, which is disabled
  while a message is printed: messages end.  Strong fairness of `Deliver` for
  each line: the CPU takes an unmasked interrupt at the next instruction.  A tick
  does not come while the last is being handled, as a handler takes less than
  the 10 ms between two; otherwise the timer, which has the higher priority,
  could keep the keyboard out for ever.
* All other modules are checked for safety only.

`WaitingTasksRun` and `PanicHalts` have a condition: `MainAlive`, `kernel_main`'s registers are on
the CPU or saved.  If the first task is started from a tick they are lost, the
timer is never rearmed, and whether a task that waits ever runs is up to the
tasks that run (see `kernel_ticks`).

## 5. What is proved

All theorems are of the form `Spec => ...`, for any constants that satisfy the
named `ASSUME`s of the module.

**SchedProofs.** The inductive invariant `Inv` joins types, `QueueSorted`,
`QueueDistinct`, `QueueHoldsReady` and `OnlyCurrentRuns`.  None is inductive
alone: the place where `runqueue_enqueue` inserts keeps the order only in a
sorted queue, duplicates are avoided because the previous task is RUNNING and
queued ones are READY, and the previous task is not lost because whoever has
the CPU is RUNNING.  The proofs go through lemmas on inserting and removing at
an index, then one lemma for each outcome of `schedule`.  From the invariant:
`Sortedness`, `TasksSurvive`, `HighestDispatched`, `FirstComeFirstServed`.

**KernelProofs.** `IrqInv`, with interrupts allowed anywhere, also inside
`task_ready` (`TicksHitEnqueue` is any Boolean).  The heart is `OpenInterrupt`:
the only thread that ever has an open frame is `kernel_main`, and while it is
off the CPU its interrupt is open and everything is masked.  That needs
`CpuIsCurrent` (so that the thread a switch saves is the one that runs),
`Pointers` (a picked task has a context to switch to) and `BootProgress`
(interrupts come on only when the idle task has a context).  From it
`EretCorrect`, `TasksRunMasked`, `CurrentNamesCpu`, `NothingPreempted`.  The last
one says that no task of this kernel ever uses a time slice: tasks run masked.

Then the linked list, for `TicksHitEnqueue = FALSE` (`kernel_lost` shows that it
fails otherwise).  `IsList(l, s)` says that a head and next pointers link the
tasks of a sequence, in its order.  Lemmas follow linking at a place and
unlinking, and that the walk of `runqueue_enqueue` ends at the place the sequence
has one for (`EnqueueIsList`, `DequeueIsList`).  That the walk from the head comes
by all of s (`WalkIsList`) is an induction, done through the least counterexample
(`Least`).  `ListInv` joins `IrqInv`, `Inv` of Sched for the queue, which comes
from SchedProofs through the refinement, and `BootInv`: how far `kernel_main` has
walked in `task_ready` (`WalkState`), that what it has not handed over has never
run (`Pending`), that no interrupt is open meanwhile (`Undisturbed`).  From it
`KernelImplementsSched` (`SchedulerSpec`), so that the theorems of Sched hold of
the kernel, `StacksOutliveTasks` (`RunsOnLiveStack`) and `ReadyMeansQueued`.
Assumed: there are finitely many tasks.

**BootMemoryProofs**, first about Pmm.  `Inv`: the counter counts the clear bits, the marked pages are
the bitmap's and the held ones, and the region is the aligned one.
`BitmapFits` is arithmetic (division and rounding up), done in lemmas with
explicit quotients.  `PmmIsAnArena`: each step of Pmm is a step
or a stutter of Arena.  Assumed: the region is not empty after alignment and
does not start at address 0, a word fits in a page.

Then about BootMemory.  The invariant joins that of Pmm with where the boot loop
stands: while only the loop allocates, the lowest clear bit is the page behind
the last one (`NextPage`, `GapFilled`), which is why the heap's pages lie in a
row although nobody checks it, and why it does not matter that the memory test
gives its second page back and takes it again.  `BootKeepsInv`, and
`HeapIsOwned`, for any number of page tables and heap pages.  `FreedPageReused`
needs more (`TestReuses`): the page given back is the one gap in the marked
pages, and if the second call got nothing, there is nothing for the fourth
either (`NullIfFull`, which rests on the count being exact).

**TaskTableProofs**, first about Heap.  `Inv`: `Tiling`, `HeldBlocks`, `BlocksAligned`, `UsedIsTheSum`.
The proof follows what taking a block does (`TakeEffect`, with or without a
split), then what giving its pointer out does.  `used_heap_size` is compared
with the cardinality of a set of bytes, so a step adds or removes a disjoint
interval.  `HeadersStay`, `LostInOneWay`, `FirstFitIsLowest` and
`HeapIsAnArena` follow; the third by induction along the list: after each step of
the walk, a block was passed or is still ahead (`Seen`), and a walk of one step
more than there are blocks has passed all.  Assumed: start and size of
the heap are multiples of 8, the heap holds a header, and it lies below 4 GB, so
that the mask of `kmalloc_aligned` loses nothing (`TakenFits`).

Then about TaskTable.  `TasksUseTheHeap`: the steps of the task table are steps of
the heap's own specification, so that the theorems of Heap hold with tasks among
its callers.  `StacksAreOwned` rests on slots being given out in order (what
`next_pid` has not reached is unused) and on the other callers' frees, which are
not of stacks; `HandlesAreStable` on the same order.

**X86InterruptsProofs**, first about VgaConsole.  `VgaInv` tells for each place in `console_putchar` where
the row may be; any number of characters from handlers.  `CursorComesBack`,
`MainPrintsOnScreen`.  Assumed: width and height are positive.

Then about X86Interrupts.  `IntInv`: one frame at most, interrupts masked while it
is there, nothing in service but what it has not ended yet.  From it
`HandlersEndTheirOwn`, and `InterruptsImplementConsole`: each step of the
interrupt path is a step of VgaConsole, with `kernel_main`'s registers taken
from the frame while there is one, or a stutter.  The theorems about the
cursor therefore hold with the interrupt path below it.

**MmuProofs.** `MmuInv` is `Inv` (`Trees` and types), that the registers and
the call under way name tables that are there, and that the table the call has
come to is where the walk for its page leads from its root (`Reached`).  The heart is that no table is
led to twice (`OneParent`), so that one way only leads from the roots to a last
table (`OneWay`).  A store into a last table therefore changes the one walk that
comes by (`StoreChangesOne`), and a new table, empty and hung where nothing was,
changes none (`NewTableKeepsWalks`), also if the call then fails.  With `Reached`
the one walk that changes is that of the page and the root the call was given
(`InstallEffect`), which is what AddressMap asks for.  From these:
`TablesAreTrees`, `UnmappedStaysUnused`, `OnlyRemapsLeaveStale`,
`MmuIsAnAddressMap`; and with `BootInv`, which counts the pages of `mmu_init`,
`MmuGoesOnMapped`.  Assumed: an address has four indices, and no page is mapped
twice by `mmu_init` (`NoPageTwice`; 0x40000000 and on, 0x09000000 and 0x08000000
on ARM64, 1 MB to 9 MB and 0xB8000 on x86_64).

**InitRdProofs.** `RdInv` says more than the property: what the caller has is the
first `offset` bytes of the file, and `offset` is within it.  A read appends what
the array holds from the file's offset on (`DataOfFile`), as long as the buffer
or as what is left (`ReadLength`), and `offset + size` does not wrap for such a
caller (`NoWrap`).  `BytesOfThatFile`, and `EndOnlyAtEnd`: a read of 0 bytes into
a buffer of more has `offset` at the end.  Assumed: both files fit in
`test_data`, which `initrd_create` does not test but its two literals do, and
file and buffer lengths add up to less than 2^WIDTH.

**PrintfProofs**, first about StringLib.  The invariant is that the memory holds
characters (`MemoryInvariance`); `StringsExact` then is about single calls, for
every memory, alphabet and pair of pointers.  A loop up to a condition is a
function that is defined by its next pass (`Search`); that there is such a
function, and that it finds the first place where the condition holds
(`SearchFinds`), is proved once, by induction through the least counterexample
(`Least`), and used for `strlen` and the comparisons.  A loop that writes is the
memory after k passes; `CopyStringExact` gives it for the copies of strings, where
what matters is that source and destination lie clear of each other, and that a
pass after the NUL changes nothing.  Assumed: each byte value is one character's.

Then about Printf: `PrintfPrintsAsAsked`, for every format, argument, width and
size of the types.  The invariant (`PrintInv`): after some number k of items the
output is what the first k ask for, and format and arguments are what the others
spell and take (`Behind`).  One pass of the loop moves k on by one (`Prints`).
It needs three things.  The flags are read back from their spelling (`FlagsIs`):
the digits of the width have no leading zero (`FirstDigit`), so that a zero is the
padding's, they end where no digit stands, and give the width (`WidthIs`).
`print_int` fills its buffer with the numeral backwards (`BufferIs`), and a word
taken as `int` and widened is the number meant (`NumberPrints`), also if the
register has something above the int, and for the least number of each type.
And joined sequences come apart again (`LeftHead`): dropping what one item took
leaves the rest.  Assumed: a format is made of items (no conversion is cut short
by the end), a width fits in an int, and an unknown conversion stands alone or
behind `ll`.

Model-checked and not proved:

* Liveness: `NoStarvation`, `WaitingTasksRun`, `PanicHalts`, `KeysAreRead`.
  Fairness is defined by ENABLED, which TLAPS cannot reason about.

## 6. Where code and comments disagree

Each of these is a run with a counterexample:

* `kernel_ticks`: timer.c:68 has a task switch every 10 ticks.  The handler
  calls `schedule` before it rearms the timer.  When that call starts the first
  task, `schedule_first_task` loads the task's registers and the handler never
  gets to its end: the timer is not rearmed, the interrupt stays active, and
  with it masked, no further tick comes.
* `kernel_lost`: `task_ready` walks the list with interrupts enabled.  A tick
  between its load of `curr` and its store to `curr->next` may unlink `curr`;
  the task is then linked behind a task that is off the list, and is READY for
  ever without being queued.
* `heap_leak`: mm.h:59 has kfree free what was allocated.  A pointer of
  `kmalloc_aligned` lies further inside its block, kfree finds no header in
  front of it and returns.  `LostOnlyIfAligned` shows that this is the only way
  to lose a block.

The same models have these behaviours too, without a run of their own:

* `schedule` picks before it requeues (sched.c:218 and 225), so a task that
  yields alone hands the CPU to the idle task though it is READY itself.
* The first scheduling tick after the first `task_ready` ends `kernel_main`:
  the remaining `task_ready` calls and the idle loop (kernel_main.c:144) never
  run.  If the first scheduling tick finds no task (sched.c:213), `schedule`
  goes on past the line marked NOTREACHED and later switches do save
  `kernel_main`.
* kernel_panic says at panic.c:55 that it disables interrupts; they stay on
  until `arch_halt`.
* `free_list` (kmalloc.c:24, "Head of free block list") links all blocks.
* A new address space is empty (arm64 mmu.c:140), although the kernel runs
  through the same root register; nothing in the kernel switches to one yet.
* `strncpy` copies the NUL without counting it (string.c:37), so it writes n + 1
  bytes whenever the source is shorter than n.
* `print_int` pads with zeros before it prints the sign: -8 in a field of three
  is `0-8` (printf.c:57).
* A creation that gets no stack uses its slot up all the same (task.c:52), and
  no slot is ever used again: `MAX_TASKS - 1` creations are all there are.
* PTE_GLOBAL and PTE_DEVICE are one bit (x86_64_mmu.h:27 and 31), so no x86_64
  page is ever mapped global.
* While the x86_64 screen scrolls, a typed key is echoed one row below the
  screen (vga.c:77).
* The x86_64 `kernel_main` creates its tasks and never calls `task_ready`, so
  the `schedule` that "will never return" (line 137) returns.  (`sched.c` holds
  ARM instructions and does not assemble for x86_64 at this commit.)

## 7. Plan

The plan was to go from the core outwards: scheduler, interrupts, allocators,
page tables; then the compositions (boot, tasks on the heap, interrupts on the
console), then the libraries; and to prove what each rests on.  What is left:

1. A second region and a second file system, should the kernel get them.
2. Other interrupts of the GIC, once the kernel enables one: today only the
   timer's is, so that no other path of `irq_handler` can be reached.
3. The x86_64 scheduler, once it builds.

## 8. What is not modelled

* UART: polled registers and no state; the one key that matters is an input of
  Kernel.
* A format that ends in the middle of a conversion, which `console_printf` reads
  past its NUL: every format of the kernel is a literal that does not.
* `schedule` inside the x86_64 timer handler: nothing is ever queued there, so
  it returns at its first test.  Exceptions, `irq_uninstall` and `timer_sleep`
  of x86_64 are left out too; nothing calls the last two.
* GDT, early boot up to `kernel_main`: constant tables and straight-line code.
* x86_64 context switch: the kernel of this commit does not assemble for it.
* Page attributes (cacheability, execution): no property tells them apart.
* Weak memory order between the stores of a table and the walks of the MMU on
  ARM64: Mmu is sequentially consistent.  The code has no barrier between the
  zeroing of a table and the store that links it.
* Arithmetic near 2^64 in sizes passed to kmalloc (listed as a hazard) and read,
  and an empty region in `pmm_init`: excluded by assumptions; the kernel's
  callers are far from either.
* `pmm_free_page` of a page of the bitmap, which the code accepts: callers free
  what they were given, and Pmm's free takes held and free pages and addresses
  outside.
* A key pressed before the PIC is set up: `keyboard_init` does not read a byte
  that waits already, and what the PIC makes of a level that is high before its
  set-up is the device's.
* The scheduler's statistics and CFS fields, which nothing reads.
* Build and run scripts.
