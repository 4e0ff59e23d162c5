------------------------------ MODULE MCSched ------------------------------
(***************************************************************************)
(* Instance of Sched for TLC: four tasks, two of equal priority under one  *)
(* that outranks them and over one that two or more outrank.               *)
(***************************************************************************)
EXTENDS Sched

CONSTANTS a, b, c, d

MCTask == {a, b, c, d}

MCPriority == (a :> 7) @@ (b :> 5) @@ (c :> 5) @@ (d :> 3)
=============================================================================
