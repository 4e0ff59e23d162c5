----------------------------- MODULE VgaConsole -----------------------------
(***************************************************************************)
(* The VGA text console of the x86_64 kernel (vga.c) and the two callers   *)
(* that share its cursor: console_printf in kernel_main, and the interrupt *)
(* handlers, the keyboard's echo (keyboard.c) and the timer's report       *)
(* (timer.c), which print between any two instructions of the first.  The  *)
(* cursor is two static variables with no lock.  Here a handler's call is  *)
(* one step; X86Interrupts shows that the interrupt path makes it one.     *)
(*                                                                         *)
(* The order of loads and stores in console_putchar, which the C source    *)
(* leaves to the compiler, is that of gcc -O2 (the Makefile's level): the  *)
(* tests are made on registers.  What a cell holds is left out.  So are    *)
(* the copies of vga_scroll: a handler that runs among them prints below   *)
(* the screen, where they do not reach.                                    *)
(***************************************************************************)
EXTENDS Integers

CONSTANTS
  VGA_WIDTH, VGA_HEIGHT,
  ECHOES                \* bound: characters printed by handlers during one call

ASSUME SizeAssumption == VGA_WIDTH \in Nat \ {0} /\ VGA_HEIGHT \in Nat \ {0}
ASSUME EchoAssumption == ECHOES \in Nat

VARIABLES
  vga_row, vga_col,
  cell,                 \* [row, col] of the last character stored
  interrupts,           \* IF, outside the handlers
  pc,                   \* where kernel_main is in its console_putchar
  row, col,             \* its registers
  echoes                \* characters the handlers printed since that call began

vars == <<vga_row, vga_col, cell, interrupts, pc, row, col, echoes>>

Character == {"glyph", "newline", "return", "tab"}

(* What the keyboard's table can turn a key into, backspace a glyph; the   *)
(* timer prints some of the same.                                          *)
Echoed == {"glyph", "newline", "tab"}

----------------------------------------------------------------------------
(* The column after a tab in column c, VGA_WIDTH or more to wrap.          *)
TabStop(c) == (c + 4) - ((c + 4) % 4)

(* Fault: the row is stepped back from where it is.                        *)
ScrollStepsBack(r) == r - 1

(* The row vga_scroll leaves, called with row r: a constant is stored.     *)
vga_scroll(r) == VGA_HEIGHT - 1

NextRow(r) == IF r + 1 = VGA_HEIGHT THEN vga_scroll(r + 1) ELSE r + 1

(* Where a whole console_putchar in a handler leaves the cursor.           *)
console_putchar(c) ==
  LET wraps == \/ c = "newline"
               \/ c = "tab" /\ TabStop(vga_col) >= VGA_WIDTH
               \/ c = "glyph" /\ vga_col = VGA_WIDTH - 1
  IN  [row |-> IF wraps THEN NextRow(vga_row) ELSE vga_row,
       col |-> CASE wraps \/ c = "return" -> 0
                 [] c = "tab" /\ ~wraps   -> TabStop(vga_col)
                 [] c = "glyph" /\ ~wraps -> vga_col + 1]

----------------------------------------------------------------------------
(* kernel_main.                                                            *)

InterruptsEnable ==
  /\ pc = "idle" /\ ~interrupts
  /\ interrupts' = TRUE
  /\ UNCHANGED <<vga_row, vga_col, cell, pc, row, col, echoes>>

Return == pc' = "idle" /\ echoes' = 0

(* console_putchar is entered: a tab and a glyph load the column first; a   *)
(* newline and a return store it.                                          *)
Enter(c) ==
  /\ pc = "idle"
  /\ \/ /\ c \in {"glyph", "tab"}
        /\ col' = vga_col
        /\ pc' = c
        /\ UNCHANGED <<vga_col, echoes>>
     \/ /\ c = "newline"
        /\ vga_col' = 0
        /\ pc' = "load_row"
        /\ UNCHANGED <<col, echoes>>
     \/ /\ c = "return"
        /\ vga_col' = 0
        /\ Return
        /\ UNCHANGED col
  /\ UNCHANGED <<vga_row, cell, interrupts, row>>

Tab ==
  /\ pc = "tab"
  /\ IF TabStop(col) >= VGA_WIDTH
     THEN vga_col' = 0 /\ pc' = "load_row" /\ UNCHANGED echoes
     ELSE vga_col' = TabStop(col) /\ Return
  /\ UNCHANGED <<vga_row, cell, interrupts, row, col>>

LoadRow(from, to) ==
  /\ pc = from
  /\ row' = vga_row
  /\ pc' = to
  /\ UNCHANGED <<vga_row, vga_col, cell, interrupts, col, echoes>>

StoreGlyph ==
  /\ pc = "store"
  /\ cell' = [row |-> row, col |-> col]
  /\ pc' = "advance"
  /\ UNCHANGED <<vga_row, vga_col, interrupts, row, col, echoes>>

(* The column moves on, or wraps; the row that is then stepped is the one  *)
(* the glyph was stored in.                                                *)
Advance ==
  /\ pc = "advance"
  /\ IF col = VGA_WIDTH - 1
     THEN vga_col' = 0 /\ pc' = "step_row" /\ UNCHANGED echoes
     ELSE vga_col' = col + 1 /\ Return
  /\ UNCHANGED <<vga_row, cell, interrupts, row, col>>

StepRow ==
  /\ pc = "step_row"
  /\ vga_row' = row + 1
  /\ IF row + 1 = VGA_HEIGHT THEN pc' = "scroll" /\ UNCHANGED echoes ELSE Return
  /\ UNCHANGED <<vga_col, cell, interrupts, row, col>>

Scroll ==
  /\ pc = "scroll"
  /\ vga_row' = vga_scroll(vga_row)
  /\ Return
  /\ UNCHANGED <<vga_col, cell, interrupts, row, col>>

----------------------------------------------------------------------------
(* What a console_putchar(c) in a handler does to the screen.              *)
HandlerPrints(c) ==
  /\ vga_row' = console_putchar(c).row
  /\ vga_col' = console_putchar(c).col
  /\ cell' = IF c = "glyph" THEN [row |-> vga_row, col |-> vga_col] ELSE cell
  /\ echoes' = IF pc = "idle" THEN 0 ELSE echoes + 1

(* An interrupt whose handler prints c, as one step, after which           *)
(* kernel_main resumes with its row and column as loaded.                  *)
Echo(c) ==
  /\ interrupts
  /\ pc # "idle" => echoes < ECHOES
  /\ HandlerPrints(c)
  /\ UNCHANGED <<interrupts, pc, row, col>>

----------------------------------------------------------------------------
(* console_init.                                                           *)
Init ==
  /\ vga_row = 0 /\ vga_col = 0
  /\ cell = [row |-> 0, col |-> 0]
  /\ interrupts = FALSE
  /\ pc = "idle" /\ row = 0 /\ col = 0 /\ echoes = 0

Next ==
  \/ InterruptsEnable
  \/ \E c \in Character : Enter(c)
  \/ LoadRow("glyph", "store") \/ LoadRow("load_row", "step_row")
  \/ Tab \/ StoreGlyph \/ Advance \/ StepRow \/ Scroll
  \/ \E c \in Echoed : Echo(c)

Spec == Init /\ [][Next]_vars

----------------------------------------------------------------------------
(* Properties. *)

TypeOK ==
  /\ vga_row \in Nat /\ vga_col \in 0 .. (VGA_WIDTH - 1)
  /\ cell \in [row : Nat, col : 0 .. (VGA_WIDTH - 1)]
  /\ interrupts \in BOOLEAN
  /\ pc \in {"idle", "glyph", "tab", "load_row", "store", "advance", "step_row", "scroll"}
  /\ row \in 0 .. (VGA_HEIGHT - 1) /\ col \in 0 .. (VGA_WIDTH - 1)
  /\ echoes \in Nat

(* However the handlers cut into a call, the cursor is on the screen when  *)
(* it returns: a row that left the screen belongs to a scroll under way.   *)
CursorReturns == pc # "scroll" => vga_row < VGA_HEIGHT

(* kernel_main never stores a character off the screen itself: its cell    *)
(* comes from registers loaded while the cursor was on it.                 *)
MainOnScreen ==
  [][pc = "store" /\ pc' = "advance"
       => cell'.row < VGA_HEIGHT /\ cell'.col < VGA_WIDTH]_vars

=============================================================================
