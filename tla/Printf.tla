------------------------------- MODULE Printf -------------------------------
(***************************************************************************)
(* console_printf, kernel/lib/printf.c, character by character of its      *)
(* format, in between the string functions' calls on the same memory.      *)
(*                                                                         *)
(* An argument is a word of 64 bits, as the registers of the ABI pass it;  *)
(* a callee that takes an int uses its low 32, and what is above them is   *)
(* anything.  A format is a sequence of characters, written by the caller  *)
(* as items: a character, or a conversion with its flags.                  *)
(***************************************************************************)
EXTENDS StringLib, SequencesExt

CONSTANTS
  Glyph,                \* what a format is made of and console_putchar prints
  LONG_LIM, INT_LIM,    \* 2^63 and 2^31, the first numbers too large for the types
  Calls                 \* formats, as sequences of items, with their arguments

Digit == <<"0", "1", "2", "3", "4", "5", "6", "7", "8", "9", "a", "b", "c", "d", "e", "f">>
Decimal == {Digit[k] : k \in 1 .. 10}
DigitValue(c) == CHOOSE v \in 0 .. 9 : Digit[v + 1] = c

Numeric == {"d", "i", "u", "x"}
Known == Numeric \cup {"p", "s", "c", "%"}

Word == 0 .. (2 * LONG_LIM - 1)

(* char is the character of a literal item, of a conversion its padding.   *)
(* An unknown conversion stands alone, or behind "ll".                     *)
IsItem(item) ==
  /\ item \in [conv : Glyph \cup {"literal"}, char : Glyph, width : 0 .. (INT_LIM - 1),
               is_long_long : BOOLEAN, arg : Word]
  /\ item.conv = "literal" => item.char \notin {"%", NUL}
  /\ item.conv # "literal" => item.char \in {"0", " "}
  /\ item.conv \notin Known => item.width = 0
  /\ item.conv \notin Known \cup {"literal"} =>
       item.char = " " /\ item.conv \notin Decimal \cup {"l", NUL}

ASSUME CallAssumption ==
  /\ {Digit[k] : k \in DOMAIN Digit} \cup Known \cup Char \subseteq Glyph
  /\ {"l", "n", "(", ")", "-", " "} \subseteq Glyph
  /\ "literal" \notin Glyph /\ NUL \notin Known
  /\ INT_LIM \in Nat \ {0} /\ LONG_LIM \in Nat /\ INT_LIM <= LONG_LIM
  /\ \A format \in Calls : format \in Seq({format[k] : k \in DOMAIN format})
                           /\ \A k \in DOMAIN format : IsItem(format[k])

VARIABLES
  items,                \* the format as the caller means it, <<>> between calls
  fmt,                  \* the characters of it that are left, and the NUL
  args,                 \* the arguments that are left
  out                   \* what has gone to console_putchar in this call

printfVars == <<memory, items, fmt, args, out>>

----------------------------------------------------------------------------
Padding(n, pad_char) == [k \in 1 .. n |-> pad_char]

(* buffer[] as it is filled, the last digit first.                         *)
Buffer(unum, base) ==
  LET From[n \in Nat] == IF n = 0 THEN <<>> ELSE <<Digit[(n % base) + 1]>> \o From[n \div base]
  IN  From[unum]

(* Fault: the sign is not counted among the characters.                    *)
PrintIntPadsSign(num, base, is_signed, width, pad_char) ==
  LET is_negative == is_signed /\ num >= LONG_LIM
      buffer == Buffer(IF is_negative THEN 2 * LONG_LIM - num ELSE num, base)
  IN  IF num = 0 THEN Padding(width - 1, pad_char) \o <<"0">>
      ELSE Padding(width - Len(buffer), pad_char)
           \o (IF is_negative THEN <<"-">> ELSE <<>>) \o Reverse(buffer)

(* num is the word of an int64_t.  The negation of the least one overflows *)
(* in C; the two's complement that gcc's instruction gives is that word.   *)
print_int(num, base, is_signed, width, pad_char) ==
  LET is_negative == is_signed /\ num >= LONG_LIM
      buffer == Buffer(IF is_negative THEN 2 * LONG_LIM - num ELSE num, base)
  IN  IF num = 0 THEN Padding(width - 1, pad_char) \o <<"0">>
      ELSE Padding(width - Len(buffer) - (IF is_negative THEN 1 ELSE 0), pad_char)
           \o (IF is_negative THEN <<"-">> ELSE <<>>) \o Reverse(buffer)

(* va_arg of an int or unsigned, widened to the int64_t of print_int.      *)
Widened(word, is_long_long, is_signed) ==
  LET low == word % (2 * INT_LIM) IN
  IF is_long_long THEN word
  ELSE IF is_signed /\ low >= INT_LIM THEN low + 2 * LONG_LIM - 2 * INT_LIM
  ELSE low

console_write(str) == SubSeq(memory, str, str + strlen(memory, str) - 1)

(* What stands between the % and the conversion, and where that is.        *)
Flags ==
  LET zero == fmt[2] = "0"
      start == IF zero THEN 3 ELSE 2
      end == Min({k \in start .. Len(fmt) : fmt[k] \notin Decimal})
      Width[k \in start .. end] ==
        IF k = start THEN 0 ELSE Width[k - 1] * 10 + DigitValue(fmt[k - 1])
      ll == fmt[end] = "l" /\ fmt[end + 1] = "l"
  IN  [pad_char |-> IF zero THEN "0" ELSE " ", width |-> Width[end],
       is_long_long |-> ll, at |-> IF ll THEN end + 2 ELSE end]

----------------------------------------------------------------------------
(* One pass of the loop over the format. *)

Puts(text, used, taken) ==
  /\ out' = out \o text
  /\ fmt' = SubSeq(fmt, used + 1, Len(fmt))
  /\ args' = SubSeq(args, taken + 1, Len(args))
  /\ UNCHANGED <<memory, items>>

Plain == items # <<>> /\ fmt[1] \notin {"%", NUL} /\ Puts(<<fmt[1]>>, 1, 0)

Conversion(c) == items # <<>> /\ fmt[1] = "%" /\ fmt[Flags.at] = c

Number(c, base, is_signed) ==
  /\ Conversion(c)
  /\ Puts(print_int(Widened(args[1], Flags.is_long_long, is_signed), base, is_signed,
                    Flags.width, Flags.pad_char), Flags.at, 1)

PrintNumber ==
  \/ \E c \in {"d", "i"} : Number(c, 10, TRUE)
  \/ Number("u", 10, FALSE)
  \/ Number("x", 16, FALSE)

PrintPointer ==
  /\ Conversion("p")
  /\ Puts(<<"0", "x">> \o print_int(args[1], 16, FALSE, 0, " "), Flags.at, 1)

PrintString ==
  /\ Conversion("s")
  /\ \/ args[1] = 0 /\ Puts(<<"(", "n", "u", "l", "l", ")">>, Flags.at, 1)
     \/ args[1] # 0 /\ Puts(console_write(args[1]), Flags.at, 1)

PrintChar == Conversion("c") /\ Puts(<<Byte(args[1])>>, Flags.at, 1)

PrintPercent == Conversion("%") /\ Puts(<<"%">>, Flags.at, 0)

PrintUnknown ==
  /\ items # <<>> /\ fmt[1] = "%"
  /\ fmt[Flags.at] \notin Known
  /\ Puts(<<"%">> \o (IF Flags.is_long_long THEN <<"l", "l">> ELSE <<>>) \o <<fmt[Flags.at]>>,
          Flags.at, 0)

----------------------------------------------------------------------------
(* The caller. *)

Literal(c) == [conv |-> "literal", char |-> c, width |-> 0, is_long_long |-> FALSE, arg |-> 0]

Takes(item) == IF item.conv \in Known \ {"%"} THEN <<item.arg>> ELSE <<>>

Power(base, n) ==
  LET To[k \in Nat] == IF k = 0 THEN 1 ELSE base * To[k - 1]
  IN  To[n]

Numeral(v, base) ==
  LET length == CHOOSE n \in 1 .. (v + 1) :
                  v < Power(base, n) /\ (n = 1 \/ v >= Power(base, n - 1))
  IN  [i \in 1 .. length |-> Digit[((v \div Power(base, length - i)) % base) + 1]]

Spelled(item) ==
  IF item.conv = "literal" THEN <<item.char>>
  ELSE <<"%">> \o (IF item.char = "0" THEN <<"0">> ELSE <<>>)
       \o (IF item.width = 0 THEN <<>> ELSE Numeral(item.width, 10))
       \o (IF item.is_long_long THEN <<"l", "l">> ELSE <<>>) \o <<item.conv>>

(* Formats are string literals; strings passed to them are terminated.     *)
console_printf(format) ==
  /\ items = <<>>
  /\ \A k \in DOMAIN format :
       format[k].conv = "s" /\ format[k].arg # 0 => IsString(format[k].arg)
  /\ items' = format
  /\ fmt' = FlattenSeq([k \in DOMAIN format |-> Spelled(format[k])]) \o <<NUL>>
  /\ args' = FlattenSeq([k \in DOMAIN format |-> Takes(format[k])])
  /\ UNCHANGED <<memory, out>>

Return ==
  /\ items # <<>> /\ fmt[1] = NUL
  /\ items' = <<>> /\ fmt' = <<>> /\ args' = <<>> /\ out' = <<>>
  /\ UNCHANGED memory

StringCall == items = <<>> /\ (Copy \/ Fill) /\ UNCHANGED <<items, fmt, args, out>>

Init == LibInit /\ items = <<>> /\ fmt = <<>> /\ args = <<>> /\ out = <<>>

Next ==
  \/ \E format \in Calls : console_printf(format)
  \/ Plain \/ PrintNumber \/ PrintPointer \/ PrintString \/ PrintChar
  \/ PrintPercent \/ PrintUnknown
  \/ Return
  \/ StringCall

Spec == Init /\ [][Next]_printfVars

----------------------------------------------------------------------------
(* Properties. *)

Justified(text, item) == Padding(item.width - Len(text), item.char) \o text

Unsigned(item) == item.arg % (2 * IF item.is_long_long THEN LONG_LIM ELSE INT_LIM)

Signed(item) ==
  LET limit == IF item.is_long_long THEN LONG_LIM ELSE INT_LIM IN
  IF Unsigned(item) < limit THEN Unsigned(item) ELSE Unsigned(item) - 2 * limit

(* What an item prints: numbers in their base, without leading zeros, the  *)
(* sign in front, and all of it behind the padding.                        *)
Rendered(item) ==
  CASE item.conv \in {"d", "i"} ->
         Justified(IF Signed(item) < 0 THEN <<"-">> \o Numeral(-Signed(item), 10)
                   ELSE Numeral(Signed(item), 10), item)
    [] item.conv = "u" -> Justified(Numeral(Unsigned(item), 10), item)
    [] item.conv = "x" -> Justified(Numeral(Unsigned(item), 16), item)
    [] item.conv = "p" -> <<"0", "x">> \o Numeral(item.arg, 16)
    [] item.conv = "s" -> IF item.arg = 0 THEN <<"(", "n", "u", "l", "l", ")">>
                          ELSE Front(StringAt(item.arg))
    [] item.conv = "c" -> <<Byte(item.arg)>>
    [] item.conv = "%" -> <<"%">>
    [] OTHER -> IF item.conv = "literal" THEN <<item.char>> ELSE Spelled(item)

(* A call prints its items one behind the other, each from the argument    *)
(* meant for it, whatever its width, sign, padding and size, and takes no  *)
(* argument more or less; an unknown conversion comes out as it is spelled.*)
PrintsAsAsked ==
  items # <<>> /\ fmt = <<NUL>> =>
    /\ out = FlattenSeq([k \in DOMAIN items |-> Rendered(items[k])])
    /\ args = <<>>
=============================================================================
