------------------------------ MODULE MCPrintf ------------------------------
(***************************************************************************)
(* Instance of Printf for TLC: four bytes of memory, int of 5 bits and     *)
(* long long of 6, as many as make decimals of two digits, hexadecimal     *)
(* letters, and the least number of either type.                           *)
(***************************************************************************)
EXTENDS Printf

MCCode == [c \in {"NUL", "a", "b"} |-> CASE c = "NUL" -> 0 [] c = "a" -> 1 [] OTHER -> 2]

MCGlyph == {Digit[k] : k \in DOMAIN Digit} \cup Known \cup DOMAIN MCCode
           \cup {"l", "n", "(", ")", "-", " ", "q"}

Item(conv, char, width, ll, arg) ==
  [conv |-> conv, char |-> char, width |-> width, is_long_long |-> ll, arg |-> arg]

(* Numbers with every flag, alone: the ends of both types, signed or not,  *)
(* the first of two digits in either base, and ints with bits above them.  *)
Numbers ==
  {<<Item(conv, char, width, ll, arg)>> :
     conv \in {"d", "i", "u", "x", "p"}, char \in {"0", " "}, width \in {0, 3},
     ll \in BOOLEAN, arg \in {0, 1, 7, 8, 9, 10, 15, 16, 26, 31, 32, 40, 63}}

(* Between others; 22 is -10 as an int, and 40 is -24 as a long long.      *)
Texts ==
  {Literal("a"), Item("s", " ", 0, FALSE, 0), Item("s", " ", 0, FALSE, 2),
   Item("c", " ", 0, FALSE, 5), Item("%", " ", 0, FALSE, 0), Item("q", " ", 0, FALSE, 0),
   Item("q", " ", 0, TRUE, 0)}
Both == Texts \cup {Item("d", "0", 12, FALSE, 22), Item("d", " ", 0, TRUE, 40)}

MCCalls ==
  {n \in Numbers : n[1].conv = "p" =>
     n[1].char = " " /\ n[1].width = 0 /\ ~n[1].is_long_long}
  \cup {<<a, b>> : a, b \in Both}
=============================================================================
