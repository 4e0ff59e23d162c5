------------------------------- MODULE Arena -------------------------------
(***************************************************************************)
(* What an allocator promises its callers, whatever it hands out: memory   *)
(* of its own range that nobody else holds.  The page allocator (Pmm) and  *)
(* the kernel heap (Heap) implement it.                                    *)
(***************************************************************************)
EXTENDS Integers

CONSTANTS LO, HI        \* the range [LO, HI) the allocator hands out

VARIABLE live           \* the size of each block held by a caller, by address

Disjoint(p, n, q, m) == p + n <= q \/ q + m <= p

Init == live = [p \in {} |-> 0]

(* A block of n bytes at p. *)
Alloc(p, n) ==
  /\ p >= LO /\ p + n <= HI /\ n > 0
  /\ \A q \in DOMAIN live : Disjoint(p, n, q, live[q])
  /\ live' = [q \in DOMAIN live \cup {p} |-> IF q = p THEN n ELSE live[q]]

Free(p) ==
  /\ p \in DOMAIN live
  /\ live' = [q \in DOMAIN live \ {p} |-> live[q]]

Next ==
  \/ \E p \in DOMAIN live' : Alloc(p, live'[p])
  \/ \E p \in DOMAIN live : Free(p)

Spec == Init /\ [][Next]_live
=============================================================================
