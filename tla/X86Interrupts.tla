--------------------------- MODULE X86Interrupts ---------------------------
(***************************************************************************)
(* The interrupts of the x86_64 kernel around its console: the 8259 PIC,   *)
(* the stub that saves and restores the registers (interrupts.S), the      *)
(* dispatch of irq_handler (idt.c), the keyboard's and the timer's         *)
(* handlers, and the part of kernel_main that installs them.               *)
(*                                                                         *)
(* pic_remap leaves IRQ 0 and 1 unmasked, so there are no others.  The     *)
(* timer's calls of scheduler_tick and schedule do nothing: current_task   *)
(* and ready_queue are NULL until scheduler_init.  A line printed by a     *)
(* handler is one glyph and one newline.                                   *)
(***************************************************************************)
EXTENDS VgaConsole, Sequences

CONSTANT TIMER_TICK_HZ  \* the timer prints once in so many ticks

ASSUME TickAssumption == TIMER_TICK_HZ \in Nat \ {0}

TIMER == 0
KEYBOARD == 1

VARIABLES
  boot,                 \* the last initialisation kernel_main has done
  irr, isr,             \* of the PIC: requested, and in service
  irq_handlers,         \* the lines with a handler
  frames,               \* of the interrupts being handled, innermost first
  unread,               \* the keyboard's output buffer is full
  timer_ticks           \* modulo TIMER_TICK_HZ

intVars == <<boot, irr, isr, irq_handlers, frames, unread, timer_ticks>>
allVars == <<vars, intVars>>

Top == frames[1]
Handling == frames # <<>>
Minimum(S) == CHOOSE i \in S : \A j \in S : i <= j

(* Fault: a trap gate (0x8F), which leaves IF as it is.                    *)
TrapGateIF == TRUE

(* IF behind the gates of interrupts_init, of type 0x8E.                   *)
GateIF == FALSE

----------------------------------------------------------------------------
(* The devices. *)

(* A tick comes only after the last one was handled: a handler takes less  *)
(* than 10 ms.  An edge of a line that is requested already is lost.       *)
TimerExpires ==
  /\ boot # "none"
  /\ \A k \in DOMAIN frames : frames[k].irq # TIMER
  /\ irr' = irr \cup {TIMER}
  /\ UNCHANGED <<vars, boot, isr, irq_handlers, frames, unread, timer_ticks>>

(* The keyboard's controller hands over the next byte when the last is     *)
(* read.                                                                   *)
KeyPressed ==
  /\ ~unread
  /\ unread' = TRUE
  /\ irr' = irr \cup {KEYBOARD}
  /\ UNCHANGED <<vars, boot, isr, irq_handlers, frames, timer_ticks>>

----------------------------------------------------------------------------
(* An interrupt, from the gate to iretq. *)

(* The PIC offers the highest request above what is in service.  The stub  *)
(* pushes every register.  ECHOES bounds what handlers print in one call.  *)
Deliver(irq) ==
  /\ interrupts
  /\ irq \in irr /\ \A j \in irr \cup isr : irq <= j
  /\ irq \notin isr
  /\ pc # "idle" => echoes + 2 <= ECHOES
  /\ irr' = irr \ {irq} /\ isr' = isr \cup {irq}
  /\ frames' = <<[irq |-> irq, at |-> "eoi", text |-> <<>>, eflags |-> interrupts,
                  row |-> row, col |-> col]>> \o frames
  /\ interrupts' = GateIF
  /\ UNCHANGED <<vga_row, vga_col, cell, pc, row, col, echoes,
                 boot, irq_handlers, unread, timer_ticks>>

(* irq_handler ends the highest interrupt in service before it calls the   *)
(* handler, if there is one.                                               *)
irq_handler ==
  /\ Handling /\ Top.at = "eoi"
  /\ isr' = isr \ {Minimum(isr)}
  /\ frames' = [frames EXCEPT ![1].at = IF Top.irq \in irq_handlers THEN "handler" ELSE "iretq"]
  /\ UNCHANGED <<vars, boot, irr, irq_handlers, unread, timer_ticks>>

(* The byte is read whatever it is; releases and keys without a character  *)
(* print nothing.                                                          *)
keyboard_irq_handler ==
  /\ Handling /\ Top.at = "handler" /\ Top.irq = KEYBOARD
  /\ unread' = FALSE
  /\ \E text \in {<<>>} \cup {<<c>> : c \in Echoed} :
       frames' = [frames EXCEPT ![1].at = "print", ![1].text = text]
  /\ UNCHANGED <<vars, boot, irr, isr, irq_handlers, timer_ticks>>

timer_irq_handler ==
  /\ Handling /\ Top.at = "handler" /\ Top.irq = TIMER
  /\ timer_ticks' = (timer_ticks + 1) % TIMER_TICK_HZ
  /\ frames' = [frames EXCEPT ![1].at = "print",
                  ![1].text = IF timer_ticks' = 0 THEN <<"glyph", "newline">> ELSE <<>>]
  /\ UNCHANGED <<vars, boot, irr, isr, irq_handlers, unread>>

(* The handler's call uses the registers of the one it interrupted.        *)
PrintChar ==
  /\ Handling /\ Top.at = "print" /\ Top.text # <<>>
  /\ HandlerPrints(Head(Top.text))
  /\ row' = vga_row /\ col' = vga_col
  /\ frames' = [frames EXCEPT ![1].text = Tail(@)]
  /\ UNCHANGED <<interrupts, pc, boot, irr, isr, irq_handlers, unread, timer_ticks>>

(* Fault: the stub does not restore the registers.                         *)
IretqClobbered ==
  /\ Handling /\ Top.at \in {"print", "iretq"} /\ Top.text = <<>>
  /\ interrupts' = Top.eflags
  /\ frames' = Tail(frames)
  /\ UNCHANGED <<vga_row, vga_col, cell, pc, row, col, echoes,
                 boot, irr, isr, irq_handlers, unread, timer_ticks>>

Iretq ==
  /\ Handling /\ Top.at \in {"print", "iretq"} /\ Top.text = <<>>
  /\ interrupts' = Top.eflags /\ row' = Top.row /\ col' = Top.col
  /\ frames' = Tail(frames)
  /\ UNCHANGED <<vga_row, vga_col, cell, pc, echoes,
                 boot, irr, isr, irq_handlers, unread, timer_ticks>>

----------------------------------------------------------------------------
(* kernel_main. *)

BootStep(from, to) ==
  /\ ~Handling /\ pc = "idle"
  /\ boot = from /\ boot' = to

(* The first command word of pic_remap clears the requests: an edge that   *)
(* came before is forgotten.                                               *)
interrupts_init ==
  /\ BootStep("none", "idt")
  /\ irr' = {}
  /\ UNCHANGED <<vars, isr, irq_handlers, frames, unread, timer_ticks>>

keyboard_init ==
  /\ BootStep("idt", "keyboard")
  /\ irq_handlers' = irq_handlers \cup {KEYBOARD}
  /\ UNCHANGED <<vars, irr, isr, frames, unread, timer_ticks>>

timer_init ==
  /\ BootStep("keyboard", "timer")
  /\ irq_handlers' = irq_handlers \cup {TIMER}
  /\ timer_ticks' = 0
  /\ UNCHANGED <<vars, irr, isr, frames, unread>>

(* Fault: interrupts are enabled before the drivers are there.             *)
EnabledEarly ==
  /\ ~Handling /\ boot # "none" /\ UNCHANGED boot
  /\ InterruptsEnable
  /\ UNCHANGED <<irr, isr, irq_handlers, frames, unread, timer_ticks>>

interrupts_enable ==
  /\ BootStep("timer", "enabled")
  /\ InterruptsEnable
  /\ UNCHANGED <<irr, isr, irq_handlers, frames, unread, timer_ticks>>

(* A console_putchar of kernel_main, which any message is made of.         *)
Call ==
  /\ ~Handling
  /\ \E c \in Character : Enter(c)
  /\ UNCHANGED intVars

Continue ==
  /\ ~Handling
  /\ \/ LoadRow("glyph", "store") \/ LoadRow("load_row", "step_row")
     \/ Tab \/ StoreGlyph \/ Advance \/ StepRow \/ Scroll
  /\ UNCHANGED intVars

----------------------------------------------------------------------------
InterruptsInit ==
  /\ Init
  /\ boot = "none" /\ irr = {} /\ isr = {} /\ irq_handlers = {}
  /\ frames = <<>> /\ unread = FALSE /\ timer_ticks = 0

Boot == interrupts_init \/ keyboard_init \/ timer_init \/ interrupts_enable
Handler == irq_handler \/ keyboard_irq_handler \/ timer_irq_handler \/ PrintChar \/ Iretq

InterruptsNext ==
  \/ TimerExpires \/ KeyPressed
  \/ \E irq \in {TIMER, KEYBOARD} : Deliver(irq)
  \/ Handler
  \/ Boot \/ Call \/ Continue

(* The processor goes on with what it runs; messages end, so that the boot *)
(* goes on; and an interrupt that can be taken again and again is taken.   *)
Fairness ==
  /\ WF_allVars(Continue) /\ WF_allVars(Handler)
  /\ SF_allVars(Boot)
  /\ \A irq \in {TIMER, KEYBOARD} : SF_allVars(Deliver(irq))

InterruptsSpec == InterruptsInit /\ [][InterruptsNext]_allVars /\ Fairness

----------------------------------------------------------------------------
(* Properties. *)

(* Although irq_handler ends the interrupt first (idt.c:123-132), the next *)
(* one waits until the handler is through: one frame at most, and what is  *)
(* in service is what that frame has not ended yet.                        *)
EndsItsOwn ==
  /\ Len(frames) <= 1
  /\ isr = {frames[k].irq : k \in {j \in DOMAIN frames : frames[j].at = "eoi"}}

(* A byte whose interrupt reached the PIC after it was set up is read: no  *)
(* order of boot, ticks and keys leaves the keyboard waiting for a reader. *)
KeysAreRead == KEYBOARD \in irr /\ boot # "none" ~> ~unread

(* To kernel_main's calls, an interrupt is one step of VgaConsole: nothing *)
(* runs in the middle of it, and the registers come back.                  *)
Console == INSTANCE VgaConsole WITH
  interrupts <- interrupts \/ Handling,
  row <- IF Handling THEN frames[Len(frames)].row ELSE row,
  col <- IF Handling THEN frames[Len(frames)].col ELSE col

ImplementsConsole == Console!Spec
=============================================================================
