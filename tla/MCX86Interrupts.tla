-------------------------- MODULE MCX86Interrupts --------------------------
(* A screen of two rows of eight columns, two tab stops, a timer that      *)
(* prints at every second tick, and up to three characters from interrupt  *)
(* handlers inside one call.                                               *)
EXTENDS X86Interrupts
=============================================================================
