------------------------ MODULE X86InterruptsProofs ------------------------
(***************************************************************************)
(* Theorems about VgaConsole, for every screen size and however many       *)
(* characters the interrupt handlers print into one call: the cursor comes *)
(* back, and the caller's characters go to the screen.                     *)
(*                                                                         *)
(* Then about X86Interrupts, for every screen and tick rate: handlers do   *)
(* not nest, each ends its own interrupt, and with all its steps an        *)
(* interrupt is one step of the console for the code it cuts into.         *)
(***************************************************************************)
EXTENDS X86Interrupts, TLAPS

VgaInv == TypeOK /\ CursorReturns

(* A row on the screen is followed by one on the screen, a row below it by *)
(* one further below.                                                      *)
LEMMA NextRowFacts ==
  ASSUME NEW r \in Nat
  PROVE  /\ NextRow(r) \in Nat
         /\ r < VGA_HEIGHT => NextRow(r) < VGA_HEIGHT
BY SizeAssumption DEF NextRow, vga_scroll

LEMMA TabStopFacts ==
  ASSUME NEW c \in Nat
  PROVE  TabStop(c) \in Nat
<1>1. (c + 4) % 4 \in 0 .. 3
  OBVIOUS
<1> QED BY <1>1 DEF TabStop

(* A whole console_putchar keeps the cursor's column on the screen and its *)
(* row too, if it was there.                                               *)
LEMMA PutcharFacts ==
  ASSUME VgaInv, NEW c \in Character
  PROVE  /\ console_putchar(c).row \in Nat
         /\ vga_row < VGA_HEIGHT => console_putchar(c).row < VGA_HEIGHT
         /\ console_putchar(c).col \in 0 .. (VGA_WIDTH - 1)
<1>1. vga_row \in Nat /\ vga_col \in 0 .. (VGA_WIDTH - 1) /\ VGA_WIDTH \in Nat \ {0}
  BY SizeAssumption DEF VgaInv, TypeOK
<1> DEFINE wraps == \/ c = "newline"
                    \/ c = "tab" /\ TabStop(vga_col) >= VGA_WIDTH
                    \/ c = "glyph" /\ vga_col = VGA_WIDTH - 1
<1>2. console_putchar(c).row = IF wraps THEN NextRow(vga_row) ELSE vga_row
  BY DEF console_putchar
<1>3. console_putchar(c).col = CASE wraps \/ c = "return" -> 0
                                 [] c = "tab" /\ ~wraps   -> TabStop(vga_col)
                                 [] c = "glyph" /\ ~wraps -> vga_col + 1
  BY DEF console_putchar
<1>4. TabStop(vga_col) \in Nat
  BY <1>1, TabStopFacts
<1>5. CASE wraps \/ c = "return"
  BY <1>1, <1>2, <1>3, <1>5, NextRowFacts
<1>6. CASE ~wraps /\ c = "tab"
  BY <1>1, <1>2, <1>3, <1>4, <1>6
<1>7. CASE ~wraps /\ c = "glyph"
  BY <1>1, <1>2, <1>3, <1>7
<1> QED BY <1>5, <1>6, <1>7 DEF Character

LEMMA EchoStep == ASSUME VgaInv, NEW c \in Character, Echo(c) PROVE VgaInv'
<1>1. /\ vga_row' \in Nat
      /\ vga_row < VGA_HEIGHT => vga_row' < VGA_HEIGHT
      /\ vga_col' \in 0 .. (VGA_WIDTH - 1)
  BY PutcharFacts DEF Echo, HandlerPrints
<1>2. cell' \in [row : Nat, col : 0 .. (VGA_WIDTH - 1)]
  BY DEF Echo, HandlerPrints, VgaInv, TypeOK
<1>3. /\ interrupts' = interrupts /\ pc' = pc /\ row' = row /\ col' = col
      /\ echoes' \in Nat
  BY DEF Echo, HandlerPrints, VgaInv, TypeOK
<1> QED BY <1>1, <1>2, <1>3 DEF VgaInv, TypeOK, CursorReturns

LEMMA EnterStep == ASSUME VgaInv, NEW c \in Character, Enter(c) PROVE VgaInv'
<1>1. 0 \in 0 .. (VGA_WIDTH - 1)
  BY SizeAssumption
<1>2. /\ vga_row' = vga_row /\ cell' = cell /\ interrupts' = interrupts /\ row' = row
      /\ vga_col' \in {0, vga_col} /\ col' \in {vga_col, col} /\ echoes' \in {0, echoes}
      /\ pc = "idle" /\ pc' \in {"idle", "glyph", "tab", "load_row"}
  BY DEF Enter, Return
<1> QED BY <1>1, <1>2 DEF VgaInv, TypeOK, CursorReturns

LoadStep == LoadRow("glyph", "store") \/ LoadRow("load_row", "step_row")

LEMMA CharacterStep == ASSUME VgaInv, InterruptsEnable \/ StoreGlyph \/ Advance \/ LoadStep
                  PROVE  VgaInv'
<1> USE SizeAssumption DEF VgaInv, TypeOK, CursorReturns
<1>1. CASE InterruptsEnable
  BY <1>1 DEF InterruptsEnable
<1>2. CASE StoreGlyph
  BY <1>2 DEF StoreGlyph
<1>3. CASE Advance
  BY <1>3 DEF Advance, Return
<1>4. CASE LoadStep
  BY <1>4 DEF LoadStep, LoadRow
<1> QED BY <1>1, <1>2, <1>3, <1>4

LEMMA TabStep == ASSUME VgaInv, Tab PROVE VgaInv'
<1>1. col \in Nat /\ TabStop(col) \in Nat
  BY TabStopFacts, SizeAssumption DEF VgaInv, TypeOK
<1> QED BY <1>1, SizeAssumption DEF Tab, Return, VgaInv, TypeOK, CursorReturns

(* The step that can take the row off the screen goes on to the scroll     *)
(* that brings it back, whatever was added to it in between.               *)
LEMMA RowStep == ASSUME VgaInv, StepRow \/ Scroll PROVE VgaInv'
<1>1. CASE StepRow
  BY <1>1, SizeAssumption DEF StepRow, Return, VgaInv, TypeOK, CursorReturns
<1>2. CASE Scroll
  BY <1>2, SizeAssumption DEF Scroll, vga_scroll, Return, VgaInv, TypeOK, CursorReturns
<1> QED BY <1>1, <1>2

THEOREM Invariance == Spec => []VgaInv
<1>1. Init => VgaInv
  <2>1. 0 \in 0 .. (VGA_WIDTH - 1) /\ 0 \in 0 .. (VGA_HEIGHT - 1) /\ 0 < VGA_HEIGHT
    BY SizeAssumption
  <2> SUFFICES ASSUME Init PROVE VgaInv
    OBVIOUS
  <2>2. cell \in [row : Nat, col : 0 .. (VGA_WIDTH - 1)]
    BY <2>1 DEF Init
  <2>3. /\ vga_row \in Nat /\ vga_col \in 0 .. (VGA_WIDTH - 1) /\ vga_row < VGA_HEIGHT
        /\ row \in 0 .. (VGA_HEIGHT - 1) /\ col \in 0 .. (VGA_WIDTH - 1) /\ echoes \in Nat
    BY <2>1 DEF Init
  <2> QED BY <2>2, <2>3 DEF Init, VgaInv, TypeOK, CursorReturns
<1>2. VgaInv /\ [Next]_vars => VgaInv'
  <2> SUFFICES ASSUME VgaInv, [Next]_vars PROVE VgaInv'
    OBVIOUS
  <2>1. CASE UNCHANGED vars
    BY <2>1 DEF vars, VgaInv, TypeOK, CursorReturns
  <2>2. CASE \E c \in Character : Echo(c) \/ Enter(c)
    BY <2>2, EchoStep, EnterStep
  <2>3. CASE InterruptsEnable \/ StoreGlyph \/ Advance \/ LoadStep
    BY <2>3, CharacterStep
  <2>4. CASE Tab \/ StepRow \/ Scroll
    BY <2>4, TabStep, RowStep
  <2> QED BY <2>1, <2>2, <2>3, <2>4 DEF Next, LoadStep, Character, Echoed
<1> QED BY <1>1, <1>2, PTL DEF Spec

(* The cursor is on the screen whenever no scroll is under way, though the *)
(* handlers print between any two steps of kernel_main's call.             *)
THEOREM CursorComesBack == Spec => []CursorReturns
<1>1. VgaInv => CursorReturns
  BY DEF VgaInv
<1> QED BY <1>1, Invariance, PTL

(* What kernel_main itself prints goes to the screen.                      *)
THEOREM MainPrintsOnScreen == Spec => MainOnScreen
<1> DEFINE OnScreen == pc = "store" /\ pc' = "advance"
                         => cell'.row < VGA_HEIGHT /\ cell'.col < VGA_WIDTH
<1>1. VgaInv /\ [Next]_vars => [OnScreen]_vars
  <2> SUFFICES ASSUME VgaInv, Next, pc = "store", pc' = "advance"
               PROVE  cell'.row < VGA_HEIGHT /\ cell'.col < VGA_WIDTH
    OBVIOUS
  <2>1. StoreGlyph
    BY DEF Next, InterruptsEnable, Enter, LoadRow, Tab, Advance, StepRow, Scroll, Echo,
           Return
  <2> QED BY <2>1, SizeAssumption DEF StoreGlyph, VgaInv, TypeOK
<1>2. Spec => [][OnScreen]_vars
  BY <1>1, Invariance, PTL DEF Spec
<1> QED BY <1>2 DEF MainOnScreen

----------------------------------------------------------------------------
(* X86Interrupts. *)

Line == {TIMER, KEYBOARD}

(* A frame, and the record of what the stub and the handler keep in it.    *)
IsFrame(f) ==
  f \in [irq : Line, at : {"eoi", "handler", "print", "iretq"}, text : Seq(Echoed),
         eflags : {TRUE}, row : {f.row}, col : {f.col}]

(* The gates keep interrupts out, and iretq lets them in again.            *)
OneFrame ==
  /\ frames = <<>> \/ (frames = <<Top>> /\ IsFrame(Top))
  /\ interrupts \in BOOLEAN /\ (Handling => ~interrupts)
  /\ irr \subseteq Line
  /\ isr = IF Handling /\ Top.at = "eoi" THEN {Top.irq} ELSE {}

(* What is left of a message fits into what the bound on echoes leaves.    *)
MessageFits ==
  /\ echoes \in Nat
  /\ Handling /\ pc # "idle" =>
       echoes + (IF Top.at \in {"eoi", "handler"} THEN 2 ELSE Len(Top.text)) <= ECHOES
  /\ Handling => Top.at = "print" \/ Top.text = <<>>

(* The inductive invariant. *)
IntInv == OneFrame /\ MessageFits

LEMMA IntFacts ==
  /\ ECHOES \in Nat /\ TIMER = 0 /\ KEYBOARD = 1 /\ GateIF = FALSE
  /\ VGA_WIDTH \in Nat \ {0} /\ VGA_HEIGHT \in Nat \ {0}
  /\ Line = {0, 1} /\ Echoed = {"glyph", "newline", "tab"}
  BY SizeAssumption, EchoAssumption DEF TIMER, KEYBOARD, GateIF, Line, Echoed

LEMMA InitIntInv == InterruptsInit => IntInv
<1>1. ASSUME InterruptsInit PROVE IntInv
  <2>1. frames = <<>> /\ interrupts = FALSE /\ irr = {} /\ isr = {} /\ echoes = 0
    BY <1>1 DEF InterruptsInit, Init
  <2>2. ~Handling
    BY <2>1 DEF Handling
  <2>3. OneFrame
    <3>1. interrupts \in BOOLEAN /\ ~interrupts
      BY <2>1, Zenon
    <3>2. isr = IF Handling /\ Top.at = "eoi" THEN {Top.irq} ELSE {}
      BY <2>1, <2>2
    <3>3. irr \subseteq Line
      BY <2>1
    <3>4. QED
      BY <2>1, <2>2, <3>1, <3>2, <3>3, Zenon DEF OneFrame
  <2>4. MessageFits
    BY <2>1, <2>2 DEF MessageFits
  <2>5. QED
    BY <2>3, <2>4 DEF IntInv
<1>2. QED
  BY <1>1

(* Steps that leave the frames and what goes with them alone.              *)
LEMMA QuietStep ==
  ASSUME IntInv, UNCHANGED <<interrupts, frames, isr, pc, echoes>>, irr' \subseteq Line
  PROVE  IntInv'
  BY DEF IntInv, OneFrame, MessageFits, Handling, Top

(* kernel_main runs only when no interrupt is being handled.               *)
LEMMA MainQuiet ==
  ASSUME IntInv, ~Handling, frames' = frames, isr' = isr, irr' = irr,
         interrupts' \in BOOLEAN, echoes' \in Nat
  PROVE  IntInv'
  BY DEF IntInv, OneFrame, MessageFits, Handling, Top

LEMMA DeliverStep ==
  ASSUME IntInv, NEW irq \in Line, Deliver(irq)
  PROVE  IntInv'
<1> DEFINE f == [irq |-> irq, at |-> "eoi", text |-> <<>>, eflags |-> interrupts,
                 row |-> row, col |-> col]
<1>1. frames = <<>> /\ isr = {} /\ interrupts = TRUE
  BY DEF IntInv, OneFrame, Deliver, Handling
<1>2. frames' = <<f>> /\ isr' = {irq} /\ interrupts' = FALSE
  <2>1. <<f>> \o <<>> = <<f>>
    OBVIOUS
  <2>2. QED
    BY <1>1, <2>1, IntFacts DEF Deliver
<1>3. IsFrame(f)
  BY <1>1 DEF IsFrame
<1>4. Top' = f /\ Handling' /\ f.at = "eoi" /\ f.irq = irq /\ f.text = <<>>
  BY <1>2 DEF Top, Handling
<1>5. OneFrame'
  BY <1>2, <1>3, <1>4 DEF IntInv, OneFrame, Deliver
<1>6. MessageFits'
  <2>1. pc' = pc /\ echoes' = echoes /\ (pc # "idle" => echoes + 2 <= ECHOES)
    BY DEF Deliver
  <2>2. QED
    BY <1>4, <2>1 DEF IntInv, MessageFits
<1>7. QED
  BY <1>5, <1>6 DEF IntInv

(* What a step of the handler may do to its frame.                         *)
Rewritten(at, text) ==
  \/ frames' = [frames EXCEPT ![1].at = at, ![1].text = text]
  \/ frames' = [frames EXCEPT ![1].at = at] /\ text = Top.text
  \/ frames' = [frames EXCEPT ![1].text = text] /\ at = Top.at

Frame(R, C) ==
  [irq : Line, at : {"eoi", "handler", "print", "iretq"}, text : Seq(Echoed),
   eflags : {TRUE}, row : R, col : C]

Fields(f, at, text, r, c) == f.at = at /\ f.text = text /\ f.row = r /\ f.col = c

LEMMA FrameStep ==
  ASSUME IntInv, Handling, NEW at \in {"handler", "print", "iretq"}, NEW text \in Seq(Echoed),
         Rewritten(at, text)
  PROVE  /\ frames' = <<Top'>> /\ IsFrame(Top') /\ Handling'
         /\ Fields(Top', at, text, Top.row, Top.col)
<1>1. frames = <<Top>> /\ Top \in Frame({Top.row}, {Top.col})
  BY DEF IntInv, OneFrame, Handling, IsFrame, Frame
<1>2. PICK g : frames' = <<g>> /\ g \in Frame({Top.row}, {Top.col})
               /\ Fields(g, at, text, Top.row, Top.col)
  <2>1. CASE frames' = [frames EXCEPT ![1].at = at, ![1].text = text]
    <3> DEFINE g == [Top EXCEPT !.at = at, !.text = text]
    <3>1. frames' = <<g>>
      BY <1>1, <2>1
    <3>2. g \in Frame({Top.row}, {Top.col}) /\ Fields(g, at, text, Top.row, Top.col)
      BY <1>1 DEF Frame, Fields
    <3>3. QED
      BY <3>1, <3>2
  <2>2. CASE frames' = [frames EXCEPT ![1].at = at] /\ text = Top.text
    <3> DEFINE g == [Top EXCEPT !.at = at]
    <3>1. frames' = <<g>>
      BY <1>1, <2>2
    <3>2. g \in Frame({Top.row}, {Top.col}) /\ Fields(g, at, text, Top.row, Top.col)
      BY <1>1, <2>2 DEF Frame, Fields
    <3>3. QED
      BY <3>1, <3>2
  <2>3. CASE frames' = [frames EXCEPT ![1].text = text] /\ at = Top.at
    <3> DEFINE g == [Top EXCEPT !.text = text]
    <3>1. frames' = <<g>>
      BY <1>1, <2>3
    <3>2. g \in Frame({Top.row}, {Top.col}) /\ Fields(g, at, text, Top.row, Top.col)
      BY <1>1, <2>3 DEF Frame, Fields
    <3>3. QED
      BY <3>1, <3>2
  <2>4. QED
    BY <2>1, <2>2, <2>3 DEF Rewritten
<1>3. Top' = g /\ Handling'
  BY <1>2 DEF Top, Handling
<1>4. IsFrame(g)
  BY <1>2 DEF IsFrame, Frame, Fields
<1>5. QED
  BY <1>2, <1>3, <1>4

LEMMA HandlerInv ==
  ASSUME IntInv, Handling, NEW at \in {"handler", "print", "iretq"}, NEW text \in Seq(Echoed),
         Rewritten(at, text), interrupts' = interrupts, irr' = irr, pc' = pc, isr' = {},
         echoes' \in Nat, at # "print" => text = <<>>,
         pc # "idle" => echoes' + (IF at = "handler" THEN 2 ELSE Len(text)) <= ECHOES
  PROVE  IntInv'
<1>1. /\ frames' = <<Top'>> /\ IsFrame(Top') /\ Handling'
      /\ Top'.at = at /\ Top'.text = text
  BY FrameStep DEF Fields
<1>2. OneFrame'
  BY <1>1 DEF IntInv, OneFrame
<1>3. MessageFits'
  BY <1>1 DEF MessageFits
<1>4. QED
  BY <1>2, <1>3 DEF IntInv

----------------------------------------------------------------------------
(* One lemma for each step of an interrupt. *)

LEMMA EoiStep == ASSUME IntInv, irq_handler PROVE IntInv'
<1> DEFINE at == IF Top.irq \in irq_handlers THEN "handler" ELSE "iretq"
<1>1. Handling /\ Top.at = "eoi" /\ Top.text = <<>> /\ isr = {Top.irq}
  BY DEF irq_handler, IntInv, OneFrame, MessageFits
<1>2. isr' = {}
  BY <1>1 DEF irq_handler, Minimum
<1>3. Rewritten(at, <<>>) /\ at \in {"handler", "print", "iretq"} /\ at # "print"
  BY <1>1 DEF irq_handler, Rewritten
<1>4. /\ interrupts' = interrupts /\ irr' = irr /\ pc' = pc
      /\ echoes' = echoes /\ echoes \in Nat
      /\ pc # "idle" => echoes + 2 <= ECHOES
  BY <1>1 DEF irq_handler, vars, IntInv, MessageFits
<1>5. <<>> \in Seq(Echoed) /\ Len(<<>>) = 0 /\ ECHOES \in Nat
  BY IntFacts
<1> HIDE DEF at
<1>6. pc # "idle" => echoes' + (IF at = "handler" THEN 2 ELSE Len(<<>>)) <= ECHOES
  BY <1>4, <1>5
<1>7. QED
  BY <1>1, <1>2, <1>3, <1>4, <1>5, <1>6, HandlerInv

LEMMA RoomLeft ==
  ASSUME NEW e \in Nat, NEW n \in {0, 1, 2}, e + 2 <= ECHOES
  PROVE  e + n <= ECHOES
  BY IntFacts

(* The messages of the two handlers.                                       *)
LEMMA MessagesAreEchoed ==
  /\ \A text \in {<<>>} \cup {<<c>> : c \in Echoed} :
       text \in Seq(Echoed) /\ Len(text) \in {0, 1}
  /\ <<"glyph", "newline">> \in Seq(Echoed) /\ Len(<<"glyph", "newline">>) = 2
  /\ <<>> \in Seq(Echoed) /\ Len(<<>>) = 0
<1>1. <<"glyph", "newline">> \in Seq({"glyph", "newline", "tab"})
      /\ Len(<<"glyph", "newline">>) = 2
  OBVIOUS
<1>2. <<>> \in Seq(Echoed) /\ Len(<<>>) = 0
  OBVIOUS
<1>3. ASSUME NEW c \in Echoed PROVE <<c>> \in Seq(Echoed) /\ Len(<<c>>) = 1
  BY <1>3
<1>4. QED
  BY <1>1, <1>2, <1>3, IntFacts

LEMMA KeyboardStep == ASSUME IntInv, keyboard_irq_handler PROVE IntInv'
<1>1. Handling /\ Top.at = "handler" /\ isr = {}
  BY DEF keyboard_irq_handler, IntInv, OneFrame
<1>2. PICK text \in {<<>>} \cup {<<c>> : c \in Echoed} :
        frames' = [frames EXCEPT ![1].at = "print", ![1].text = text]
  BY DEF keyboard_irq_handler
<1>3. text \in Seq(Echoed) /\ Len(text) \in {0, 1}
  BY MessagesAreEchoed
<1>4. /\ interrupts' = interrupts /\ irr' = irr /\ pc' = pc /\ isr' = isr
      /\ echoes' = echoes /\ echoes \in Nat
      /\ pc # "idle" => echoes + 2 <= ECHOES
  BY <1>1 DEF keyboard_irq_handler, vars, IntInv, MessageFits
<1>5. Rewritten("print", text)
  BY <1>2 DEF Rewritten
<1>6. pc # "idle" => echoes' + Len(text) <= ECHOES
  <2>1. Len(text) \in {0, 1, 2}
    BY <1>3
  <2>2. QED
    BY <1>4, <2>1, RoomLeft
<1>7. QED
  BY <1>1, <1>3, <1>4, <1>5, <1>6, HandlerInv

LEMMA TimerStep == ASSUME IntInv, timer_irq_handler PROVE IntInv'
<1> DEFINE text == IF timer_ticks' = 0 THEN <<"glyph", "newline">> ELSE <<>>
<1>1. Handling /\ Top.at = "handler" /\ isr = {}
  BY DEF timer_irq_handler, IntInv, OneFrame
<1>2. Rewritten("print", text)
  BY DEF timer_irq_handler, Rewritten
<1>3. text \in Seq(Echoed) /\ Len(text) \in {0, 2}
  BY MessagesAreEchoed
<1>4. /\ interrupts' = interrupts /\ irr' = irr /\ pc' = pc /\ isr' = isr
      /\ echoes' = echoes /\ echoes \in Nat
      /\ pc # "idle" => echoes + 2 <= ECHOES
  BY <1>1 DEF timer_irq_handler, vars, IntInv, MessageFits
<1> HIDE DEF text
<1>5. pc # "idle" => echoes' + Len(text) <= ECHOES
  <2>1. Len(text) \in {0, 1, 2}
    BY <1>3
  <2>2. QED
    BY <1>4, <2>1, RoomLeft
<1>6. QED
  BY <1>1, <1>2, <1>3, <1>4, <1>5, HandlerInv

(* A character of a message is one of the keyboard's, and leaves the rest. *)
LEMMA MessageFacts ==
  ASSUME NEW text \in Seq(Echoed), text # <<>>
  PROVE  Head(text) \in Echoed /\ Tail(text) \in Seq(Echoed) /\ Len(Tail(text)) = Len(text) - 1
         /\ Len(text) \in Nat \ {0}
  OBVIOUS

LEMMA PrintStep == ASSUME IntInv, PrintChar PROVE IntInv'
<1>1. Handling /\ Top.at = "print" /\ isr = {} /\ Top.text \in Seq(Echoed) /\ Top.text # <<>>
  <2>1. Handling /\ Top.at = "print" /\ Top.text # <<>>
    BY DEF PrintChar
  <2>2. isr = {} /\ IsFrame(Top)
    BY <2>1 DEF IntInv, OneFrame, Handling
  <2>3. QED
    BY <2>1, <2>2 DEF IsFrame
<1>2. Rewritten(Top.at, Tail(Top.text))
  BY DEF PrintChar, Rewritten, Top
<1>3. /\ Tail(Top.text) \in Seq(Echoed)
      /\ Len(Tail(Top.text)) = Len(Top.text) - 1 /\ Len(Top.text) \in Nat \ {0}
  BY <1>1, MessageFacts
<1>4. /\ interrupts' = interrupts /\ irr' = irr /\ pc' = pc /\ isr' = isr /\ echoes \in Nat
      /\ echoes' = IF pc = "idle" THEN 0 ELSE echoes + 1
      /\ pc # "idle" => echoes + Len(Top.text) <= ECHOES
  BY <1>1 DEF PrintChar, HandlerPrints, IntInv, MessageFits
<1>5. echoes' \in Nat /\ (pc # "idle" => echoes' + Len(Tail(Top.text)) <= ECHOES)
  <2>1. ASSUME pc # "idle" PROVE echoes' + Len(Tail(Top.text)) = echoes + Len(Top.text)
    <3>1. \A e \in Nat, n \in Nat \ {0} : (e + 1) + (n - 1) = e + n
      OBVIOUS
    <3>2. echoes' = echoes + 1
      BY <1>4, <2>1
    <3>3. QED
      BY <1>3, <1>4, <3>1, <3>2, Zenon
  <2>2. echoes' \in Nat
    BY <1>4
  <2>3. QED
    BY <1>4, <2>1, <2>2
<1>6. QED
  BY <1>1, <1>2, <1>3, <1>4, <1>5, HandlerInv

LEMMA IretqStep == ASSUME IntInv, Iretq PROVE IntInv'
<1>1. /\ frames = <<Top>> /\ IsFrame(Top) /\ isr = {} /\ Top.eflags = TRUE
      /\ frames' = Tail(frames)
  <2>1. Handling /\ Top.at # "eoi" /\ frames' = Tail(frames)
    BY DEF Iretq
  <2>2. isr = {} /\ IsFrame(Top) /\ frames = <<Top>>
    BY <2>1 DEF IntInv, OneFrame, Handling
  <2>3. Top.eflags = TRUE
    BY <2>2 DEF IsFrame
  <2>4. QED
    BY <2>1, <2>2, <2>3
<1>2. frames' = <<>> /\ interrupts' = TRUE
  BY <1>1 DEF Iretq
<1>3. ~Handling' /\ isr' = {} /\ irr' \subseteq Line /\ echoes' \in Nat
  BY <1>1, <1>2 DEF Handling, Iretq, IntInv, OneFrame, MessageFits
<1>4. OneFrame'
  BY <1>2, <1>3, Zenon DEF OneFrame
<1>5. MessageFits'
  BY <1>3 DEF MessageFits
<1>6. QED
  BY <1>4, <1>5 DEF IntInv

LEMMA BootStepInv == ASSUME IntInv, Boot PROVE IntInv'
<1>1. CASE interrupts_init
  BY <1>1, QuietStep DEF interrupts_init, vars
<1>2. CASE keyboard_init
  BY <1>2, QuietStep DEF keyboard_init, vars, IntInv, OneFrame
<1>3. CASE timer_init
  BY <1>3, QuietStep DEF timer_init, vars, IntInv, OneFrame
<1>4. CASE interrupts_enable
  BY <1>4, MainQuiet DEF interrupts_enable, BootStep, InterruptsEnable, IntInv, MessageFits
<1>5. QED
  BY <1>1, <1>2, <1>3, <1>4 DEF Boot

LEMMA CallStep == ASSUME IntInv, Call \/ Continue PROVE IntInv'
<1>1. ~Handling /\ UNCHANGED intVars
  BY DEF Call, Continue
<1>2. interrupts' = interrupts /\ echoes' \in {0, echoes}
  BY DEF Call, Continue, Enter, LoadRow, Tab, StoreGlyph, Advance, StepRow, Scroll, Return
<1>3. interrupts' \in BOOLEAN /\ echoes' \in Nat
  BY <1>2 DEF IntInv, OneFrame, MessageFits
<1>4. QED
  BY <1>1, <1>3, MainQuiet DEF intVars

LEMMA DeviceStep == ASSUME IntInv, TimerExpires \/ KeyPressed PROVE IntInv'
<1>1. irr' \subseteq Line
  BY DEF TimerExpires, KeyPressed, IntInv, OneFrame, Line
<1>2. UNCHANGED <<interrupts, frames, isr, pc, echoes>>
  BY DEF TimerExpires, KeyPressed, vars
<1>3. QED
  BY <1>1, <1>2, QuietStep

LEMMA IntStep == IntInv /\ [InterruptsNext]_allVars => IntInv'
<1>1. SUFFICES ASSUME IntInv, [InterruptsNext]_allVars PROVE IntInv'
  OBVIOUS
<1>2. CASE TimerExpires \/ KeyPressed
  BY <1>1, <1>2, DeviceStep
<1>3. CASE \E irq \in Line : Deliver(irq)
  BY <1>1, <1>3, DeliverStep
<1>4. CASE Handler
  BY <1>1, <1>4, EoiStep, KeyboardStep, TimerStep, PrintStep, IretqStep DEF Handler
<1>5. CASE Boot
  BY <1>1, <1>5, BootStepInv
<1>6. CASE Call \/ Continue
  BY <1>1, <1>6, CallStep
<1>7. CASE UNCHANGED allVars
  BY <1>1, <1>7, QuietStep DEF allVars, intVars, vars, IntInv, OneFrame
<1>8. QED
  BY <1>1, <1>2, <1>3, <1>4, <1>5, <1>6, <1>7 DEF InterruptsNext, Line

----------------------------------------------------------------------------
(* The theorems. *)

(* The inductive invariant of the interrupt path.                          *)
THEOREM InterruptInvariance == InterruptsSpec => []IntInv
<1>1. QED
  BY InitIntInv, IntStep, PTL DEF InterruptsSpec

(* One handler at a time, and each end of interrupt ends its own.          *)
THEOREM HandlersEndTheirOwn == InterruptsSpec => []EndsItsOwn
<1>1. ASSUME IntInv PROVE EndsItsOwn
  <2>1. CASE frames = <<>>
    <3>1. isr = {}
      BY <1>1, <2>1 DEF IntInv, OneFrame, Handling
    <3>2. QED
      BY <2>1, <3>1 DEF EndsItsOwn
  <2>2. CASE frames = <<Top>>
    <3>1. Handling /\ DOMAIN frames = {1} /\ frames[1] = Top /\ Len(frames) = 1
      BY <2>2 DEF Handling
    <3>2. isr = IF Top.at = "eoi" THEN {Top.irq} ELSE {}
      BY <1>1, <3>1 DEF IntInv, OneFrame
    <3>3. QED
      BY <3>1, <3>2 DEF EndsItsOwn
  <2>3. QED
    BY <1>1, <2>1, <2>2 DEF IntInv, OneFrame
<1>2. QED
  BY <1>1, InterruptInvariance, PTL
----------------------------------------------------------------------------
(* The refinement of the console. *)

(* The registers of kernel_main, wherever they are kept.                   *)
MainIF == interrupts \/ Handling
MainRow == IF Handling THEN frames[Len(frames)].row ELSE row
MainCol == IF Handling THEN frames[Len(frames)].col ELSE col

KeptMain ==
  /\ ~Handling => MainIF = interrupts /\ MainRow = row /\ MainCol = col
  /\ Handling => MainIF = TRUE /\ MainRow = Top.row /\ MainCol = Top.col

LEMMA MainFacts == OneFrame => KeptMain
<1>1. SUFFICES ASSUME OneFrame PROVE KeptMain
  OBVIOUS
<1>2. CASE Handling
  <2>1. frames = <<Top>>
    BY <1>1, <1>2 DEF OneFrame, Handling
  <2>2. frames[Len(frames)] = Top
    BY <2>1
  <2>3. QED
    BY <1>2, <2>2 DEF KeptMain, MainIF, MainRow, MainCol
<1>3. CASE ~Handling
  <2>1. interrupts \in BOOLEAN
    BY <1>1 DEF OneFrame
  <2>2. QED
    BY <1>3, <2>1 DEF KeptMain, MainIF, MainRow, MainCol
<1>4. QED
  BY <1>2, <1>3

(* In both states of a step that keeps the invariant.                      *)
LEMMA MainFactsBoth == ASSUME IntInv, IntInv' PROVE KeptMain /\ KeptMain'
<1>1. OneFrame /\ OneFrame'
  BY DEF IntInv
<1>2. QED
  BY <1>1, MainFacts, PTL

LEMMA ConsoleStutters ==
  ASSUME UNCHANGED <<vga_row, vga_col, cell, pc, echoes, MainIF, MainRow, MainCol>>
  PROVE  UNCHANGED Console!vars
  BY DEF Console!vars, MainIF, MainRow, MainCol

LEMMA KeptFrames ==
  ASSUME UNCHANGED <<vars, frames>>
  PROVE  UNCHANGED Console!vars
  BY ConsoleStutters DEF vars, MainIF, MainRow, MainCol, Handling

LEMMA DeliverStutters ==
  ASSUME IntInv, NEW irq \in Line, Deliver(irq)
  PROVE  UNCHANGED Console!vars
<1>1. IntInv'
  BY DeliverStep
<1>2. ~Handling /\ interrupts = TRUE
  BY DEF IntInv, OneFrame, Deliver
<1>3. Handling' /\ Top'.row = row /\ Top'.col = col
  <2> DEFINE f == [irq |-> irq, at |-> "eoi", text |-> <<>>, eflags |-> interrupts,
                   row |-> row, col |-> col]
  <2>1. frames' = <<f>> \o <<>>
    BY <1>2 DEF Deliver, Handling
  <2>2. <<f>> \o <<>> = <<f>> /\ f.row = row /\ f.col = col
    OBVIOUS
  <2>3. frames' = <<f>>
    BY <2>1, <2>2
  <2>4. QED
    BY <2>2, <2>3 DEF Handling, Top
<1>4. UNCHANGED <<MainIF, MainRow, MainCol>>
  BY <1>1, <1>2, <1>3, MainFactsBoth DEF KeptMain
<1>5. QED
  BY <1>4, ConsoleStutters DEF Deliver

LEMMA RewritingKeepsMain ==
  ASSUME IntInv, IntInv', Handling, NEW at \in {"handler", "print", "iretq"},
         NEW text \in Seq(Echoed), Rewritten(at, text)
  PROVE  UNCHANGED <<MainIF, MainRow, MainCol>>
  BY FrameStep, MainFactsBoth DEF Fields, KeptMain

LEMMA HandlerStutters ==
  ASSUME IntInv, irq_handler \/ keyboard_irq_handler \/ timer_irq_handler
  PROVE  UNCHANGED Console!vars
<1>1. IntInv'
  BY EoiStep, KeyboardStep, TimerStep
<1>2. Handling /\ UNCHANGED vars /\ Top.text \in Seq(Echoed)
  BY DEF irq_handler, keyboard_irq_handler, timer_irq_handler, IntInv, OneFrame, IsFrame, Handling
<1>3. \E at \in {"handler", "print", "iretq"}, text \in Seq(Echoed) : Rewritten(at, text)
  <2>1. CASE irq_handler
    BY <1>2, <2>1 DEF irq_handler, Rewritten
  <2>2. CASE keyboard_irq_handler
    <3>1. PICK text \in {<<>>} \cup {<<c>> : c \in Echoed} :
            frames' = [frames EXCEPT ![1].at = "print", ![1].text = text]
      BY <2>2 DEF keyboard_irq_handler
    <3>2. text \in Seq(Echoed)
      BY MessagesAreEchoed
    <3>3. QED
      BY <3>1, <3>2 DEF Rewritten
  <2>3. CASE timer_irq_handler
    <3> DEFINE text == IF timer_ticks' = 0 THEN <<"glyph", "newline">> ELSE <<>>
    <3>1. text \in Seq(Echoed)
      BY MessagesAreEchoed
    <3>2. Rewritten("print", text)
      BY <2>3 DEF timer_irq_handler, Rewritten
    <3>3. QED
      BY <3>1, <3>2
  <2>4. QED
    BY <2>1, <2>2, <2>3
<1>4. UNCHANGED <<MainIF, MainRow, MainCol>>
  BY <1>1, <1>2, <1>3, RewritingKeepsMain
<1>5. QED
  BY <1>2, <1>4, ConsoleStutters DEF vars

LEMMA IretqStutters == ASSUME IntInv, Iretq PROVE UNCHANGED Console!vars
<1>1. frames = <<Top>> /\ IsFrame(Top) /\ Handling
  BY DEF Iretq, IntInv, OneFrame, Handling
<1>2. frames' = <<>> /\ interrupts' = TRUE /\ row' = Top.row /\ col' = Top.col
  <2>1. Tail(<<Top>>) = <<>>
    OBVIOUS
  <2>2. Top.eflags = TRUE
    BY <1>1 DEF IsFrame
  <2>3. QED
    BY <1>1, <2>1, <2>2 DEF Iretq
<1>3. IntInv' /\ ~Handling'
  BY <1>2, IretqStep DEF Handling
<1>4. UNCHANGED <<MainIF, MainRow, MainCol>>
  BY <1>1, <1>2, <1>3, MainFactsBoth DEF KeptMain
<1>5. QED
  BY <1>4, ConsoleStutters DEF Iretq

(* A character printed by a handler is the console's Echo.                 *)
LEMMA PrintEchoes == ASSUME IntInv, PrintChar PROVE Console!Next
<1> DEFINE c == Head(Top.text)
<1>1. Handling /\ Top.at = "print" /\ Top.text \in Seq(Echoed) /\ Top.text # <<>>
  BY DEF PrintChar, IntInv, OneFrame, IsFrame, Handling
<1>2. c \in Echoed /\ Tail(Top.text) \in Seq(Echoed) /\ Len(Top.text) \in Nat \ {0}
  BY <1>1, MessageFacts
<1>3. IntInv'
  BY PrintStep
<1>4. UNCHANGED <<MainIF, MainRow, MainCol>> /\ MainIF
  <2>1. Rewritten("print", Tail(Top.text))
    BY <1>1 DEF PrintChar, Rewritten, Top
  <2>2. QED
    BY <1>1, <1>2, <1>3, <2>1, RewritingKeepsMain DEF MainIF
<1>5. pc # "idle" => echoes < ECHOES
  BY <1>1, <1>2, IntFacts DEF IntInv, MessageFits
<1>6. HandlerPrints(c) /\ pc' = pc
  BY DEF PrintChar
<1>7. Console!Echo(c)
  BY <1>4, <1>5, <1>6
  DEF Console!Echo, Console!HandlerPrints, HandlerPrints, Console!console_putchar,
      console_putchar, Console!NextRow, NextRow, Console!vga_scroll, vga_scroll,
      Console!TabStop, TabStop, MainIF, MainRow, MainCol
<1>8. c \in Console!Echoed
  BY <1>2 DEF Echoed, Console!Echoed
<1>9. QED
  BY <1>7, <1>8 DEF Console!Next

(* When no interrupt is being handled, the two are the same.               *)
LEMMA MainStep ==
  ASSUME IntInv, ~Handling, frames' = frames, Call \/ Continue \/ InterruptsEnable
  PROVE  Console!Next
<1>1. ~Handling' /\ MainIF = interrupts /\ MainRow = row /\ MainCol = col
  BY MainFacts DEF IntInv, KeptMain, Handling
<1>2. MainIF' = interrupts' /\ MainRow' = row' /\ MainCol' = col'
  <2>1. interrupts' \in BOOLEAN
    BY DEF Call, Continue, Enter, LoadRow, Tab, StoreGlyph, Advance, StepRow, Scroll,
           InterruptsEnable, IntInv, OneFrame
  <2>2. QED
    BY <1>1, <2>1 DEF MainIF, MainRow, MainCol
<1> USE <1>1, <1>2
<1>3. CASE InterruptsEnable
  <2>1. Console!InterruptsEnable
    BY <1>3 DEF InterruptsEnable, Console!InterruptsEnable, MainIF, MainRow, MainCol
  <2>2. QED
    BY <2>1 DEF Console!Next
<1>4. CASE Call
  <2>1. PICK c \in Character : Enter(c)
    BY <1>4 DEF Call
  <2>2. Console!Enter(c) /\ c \in Console!Character
    BY <2>1 DEF Enter, Console!Enter, Return, Console!Return, Character, Console!Character,
                MainIF, MainRow, MainCol
  <2>3. QED
    BY <2>2 DEF Console!Next
<1>5. ASSUME NEW from, NEW to, LoadRow(from, to) PROVE Console!LoadRow(from, to)
  BY <1>5 DEF LoadRow, Console!LoadRow, MainIF, MainRow, MainCol
<1>6. CASE LoadRow("glyph", "store") \/ LoadRow("load_row", "step_row")
  BY <1>5, <1>6 DEF Console!Next
<1>7. CASE Tab
  <2>1. Console!Tab
    BY <1>7 DEF Tab, Console!Tab, TabStop, Console!TabStop, Return, Console!Return,
                MainIF, MainRow, MainCol
  <2>2. QED
    BY <2>1 DEF Console!Next
<1>8. CASE StoreGlyph
  <2>1. Console!StoreGlyph
    BY <1>8 DEF StoreGlyph, Console!StoreGlyph, MainIF, MainRow, MainCol
  <2>2. QED
    BY <2>1 DEF Console!Next
<1>9. CASE Advance
  <2>1. Console!Advance
    BY <1>9 DEF Advance, Console!Advance, Return, Console!Return, MainIF, MainRow, MainCol
  <2>2. QED
    BY <2>1 DEF Console!Next
<1>10. CASE StepRow
  <2>1. Console!StepRow
    BY <1>10 DEF StepRow, Console!StepRow, Return, Console!Return, MainIF, MainRow, MainCol
  <2>2. QED
    BY <2>1 DEF Console!Next
<1>11. CASE Scroll
  <2>1. Console!Scroll
    BY <1>11 DEF Scroll, Console!Scroll, vga_scroll, Console!vga_scroll, Return, Console!Return,
                 MainIF, MainRow, MainCol
  <2>2. QED
    BY <2>1 DEF Console!Next
<1>12. QED
  BY <1>3, <1>4, <1>6, <1>7, <1>8, <1>9, <1>10, <1>11 DEF Continue

LEMMA StepImplements ==
  IntInv /\ [InterruptsNext]_allVars => [Console!Next]_(Console!vars)
<1>1. SUFFICES ASSUME IntInv, [InterruptsNext]_allVars
               PROVE  Console!Next \/ UNCHANGED Console!vars
  OBVIOUS
<1>2. CASE TimerExpires \/ KeyPressed
  BY <1>2, KeptFrames DEF TimerExpires, KeyPressed
<1>3. CASE \E irq \in Line : Deliver(irq)
  BY <1>1, <1>3, DeliverStutters
<1>4. CASE Handler
  BY <1>1, <1>4, HandlerStutters, IretqStutters, PrintEchoes DEF Handler
<1>5. CASE interrupts_init \/ keyboard_init \/ timer_init
  BY <1>5, KeptFrames DEF interrupts_init, keyboard_init, timer_init
<1>6. CASE interrupts_enable \/ Call \/ Continue
  BY <1>1, <1>6, MainStep DEF interrupts_enable, BootStep, Call, Continue, intVars
<1>7. CASE UNCHANGED allVars
  BY <1>7, KeptFrames DEF allVars, intVars
<1>8. QED
  BY <1>1, <1>2, <1>3, <1>4, <1>5, <1>6, <1>7 DEF InterruptsNext, Boot, Line

LEMMA InitImplements == InterruptsInit => Console!Init
<1>1. SUFFICES ASSUME InterruptsInit PROVE Console!Init
  OBVIOUS
<1>2. ~Handling
  BY <1>1 DEF InterruptsInit, Handling
<1>3. QED
  BY <1>1, <1>2 DEF InterruptsInit, Init, Console!Init

(* To what kernel_main prints, gates, stub and dispatch together make each *)
(* interrupt one step of VgaConsole: every property proved of the console  *)
(* holds with the interrupt path below it.                                 *)
THEOREM InterruptsImplementConsole == InterruptsSpec => ImplementsConsole
<1>1. QED
  BY InterruptInvariance, InitImplements, StepImplements, PTL
  DEF InterruptsSpec, ImplementsConsole, Console!Spec
=============================================================================
