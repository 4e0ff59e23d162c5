-------------------------- MODULE TaskTableProofs --------------------------
(***************************************************************************)
(* Theorems about Heap, for every heap, every request and every alignment: *)
(* the blocks tile the heap, what callers hold lies in allocated blocks    *)
(* nobody shares, headers are never cut or moved while their block is in   *)
(* use, and the heap implements Arena.                                     *)
(*                                                                         *)
(* Then about TaskTable, for every heap and table size: its steps are      *)
(* steps of the heap, every live task has a stack of its own in it, and a  *)
(* handle never comes to mean another task.  The argument is that a slot   *)
(* is unused until next_pid passes it, and that nobody but task_exit frees *)
(* a block that is a live task's stack; the blocks stay apart by the       *)
(* invariant of the heap.                                                  *)
(***************************************************************************)
EXTENDS TaskTable, FiniteSetTheorems, TLAPS

(* split_block works on a free block of the heap and leaves a tiling.      *)

LEMMA HeapFacts ==
  /\ HEAP_START \in Nat \ {0} /\ HEAP_SIZE \in Nat /\ HEAP_END \in Nat
  /\ HEAP_SIZE >= 24 /\ HEAP_START % 8 = 0 /\ HEAP_SIZE % 8 = 0
  /\ HEAP_END = HEAP_START + HEAP_SIZE
  /\ BLOCK_HEADER_SIZE = 24 /\ MIN_DATA = 32 /\ NULL = 0
BY HeapAssumption DEF HEAP_END, BLOCK_HEADER_SIZE, MIN_DATA, NULL

LEMMA Rounding ==
  ASSUME NEW n \in Nat
  PROVE  RoundUp8(n) \in Nat /\ RoundUp8(n) >= n /\ RoundUp8(n) % 8 = 0
BY DEF RoundUp8

(* Rounding a pointer up moves it by less than the alignment.              *)
LEMMA AlignBounds ==
  ASSUME NEW p \in Nat, NEW a \in Nat \ {0}
  PROVE  LET q == ((p + a - 1) \div a) * a
         IN  q \in Nat /\ p <= q /\ q <= p + a - 1
<1> DEFINE x == p + a - 1
           d == x \div a
<1>1. x \in Nat
  OBVIOUS
<1> HIDE DEF x
<1>2. d \in Nat /\ a * d <= x /\ x < a * d + a
  BY <1>1
<1> HIDE DEF d
<1>3. d * a \in Nat /\ d * a <= x /\ x < d * a + a
  BY <1>1, <1>2
<1>4. p <= d * a /\ d * a <= p + a - 1
  BY <1>3 DEF x
<1> QED BY <1>3, <1>4 DEF d, x

LEMMA InitInv == Init => Inv
<1> SUFFICES ASSUME Init PROVE Inv
  OBVIOUS
<1>1. TypeOK /\ Tiling /\ HeldBlocks /\ BlocksAligned
  BY HeapFacts DEF Init, TypeOK, Tiling, HeldBlocks, BlocksAligned
<1>2. UsedBytes = {}
  BY DEF Init, UsedBytes
<1>3. UsedIsTheSum
  BY <1>2, FS_EmptySet DEF Init, UsedIsTheSum
<1> QED BY <1>1, <1>3 DEF Inv

LEMMA KmallocInitStep ==
  ASSUME Inv, kmalloc_init
  PROVE  Inv'
<1> DEFINE h == [size |-> HEAP_SIZE - BLOCK_HEADER_SIZE, next |-> NULL, allocated |-> FALSE]
<1>1. /\ free_list' = HEAP_START /\ block' = [a \in {HEAP_START} |-> h]
      /\ used_heap_size' = 0 /\ live' = live
  BY DEF kmalloc_init
<1>2. DOMAIN block = {} /\ DOMAIN live = {}
  BY DEF kmalloc_init, Inv, Tiling, HeldBlocks
<1>3. h \in BlockHeader /\ h.size = HEAP_SIZE - 24 /\ h.next = 0 /\ ~h.allocated
  BY HeapFacts DEF BlockHeader
<1> HIDE DEF h
<1>4. DOMAIN block' = {HEAP_START} /\ block'[HEAP_START] = h
  BY <1>1
<1>5. TypeOK'
  BY <1>1, <1>2, <1>3, <1>4, HeapFacts DEF Inv, TypeOK
<1>6. Tiling'
  BY <1>1, <1>3, <1>4, HeapFacts DEF Tiling, EndOf
<1>7. HeldBlocks'
  BY <1>1, <1>2 DEF HeldBlocks
<1>8. BlocksAligned'
  BY <1>3, <1>4, HeapFacts DEF BlocksAligned
<1>9. UsedIsTheSum'
  <2>1. UsedBytes' = {}
    BY <1>3, <1>4 DEF UsedBytes
  <2> QED BY <1>1, <2>1, FS_EmptySet DEF UsedIsTheSum
<1> QED BY <1>5, <1>6, <1>7, <1>8, <1>9 DEF Inv

(* What taking a block does: b is a free block of at least the rounded     *)
(* size; every other block stays, and what b loses is a free block.        *)
LEMMA TakeEffect ==
  ASSUME Inv, NEW size \in Nat, NEW b \in DOMAIN block, TakeBlock(b, size)
  PROVE  /\ free_list' = free_list
         /\ ~block[b].allocated
         /\ DOMAIN block \subseteq DOMAIN block'
         /\ block' \in [DOMAIN block' -> BlockHeader]
         /\ DOMAIN block' \subseteq Nat \ {0}
         /\ used_heap_size' = used_heap_size + block'[b].size + 24
         /\ \A a \in DOMAIN block' \ DOMAIN block : ~block'[a].allocated
         /\ block'[b].allocated /\ block'[b].size >= size
         /\ block'[b].size <= block[b].size
         /\ \A a \in DOMAIN block \ {b} : block'[a] = block[a]
         /\ Tiling'
         /\ BlocksAligned'
<1> DEFINE n == RoundUp8(size)
           rest == b + 24 + n
           cut == block[b].size >= n + 24 + 32
<1>1. n \in Nat /\ n >= size /\ n % 8 = 0
  BY Rounding
<1> HIDE DEF n
<1>2. /\ ~block[b].allocated /\ block[b].size >= n
      /\ block' = [split_block(b, n) EXCEPT ![b].allocated = TRUE]
      /\ used_heap_size' = used_heap_size + split_block(b, n)[b].size + BLOCK_HEADER_SIZE
      /\ free_list' = free_list
  BY DEF TakeBlock, find_free_block, Fits, n
<1>3. /\ b \in Nat \ {0} /\ block[b] \in BlockHeader /\ block[b].size \in Nat
      /\ block[b].next \in Nat /\ used_heap_size \in Nat
      /\ DOMAIN block \subseteq Nat \ {0}
      /\ \A a \in DOMAIN block : block[a] \in BlockHeader
  BY DEF Inv, TypeOK, BlockHeader
<1>4. /\ \A a \in DOMAIN block :
           /\ a >= HEAP_START /\ EndOf(a) <= HEAP_END
           /\ block[a].next = IF EndOf(a) = HEAP_END THEN NULL ELSE EndOf(a)
           /\ EndOf(a) # HEAP_END => EndOf(a) \in DOMAIN block
      /\ \A a, c \in DOMAIN block : a < c => EndOf(a) <= c
      /\ \A a \in DOMAIN block : EndOf(a) = a + 24 + block[a].size
      /\ \A a \in DOMAIN block : a % 8 = 0 /\ block[a].size % 8 = 0
      /\ free_list = NULL => DOMAIN block = {}
      /\ free_list # NULL => HEAP_START \in DOMAIN block
  BY HeapFacts DEF Inv, Tiling, BlocksAligned, EndOf
<1>5. CASE ~cut
  <2>1. split_block(b, n) = block
    BY <1>5, HeapFacts DEF split_block
  <2>2. /\ block' = [block EXCEPT ![b].allocated = TRUE] /\ DOMAIN block' = DOMAIN block
        /\ block'[b].size = block[b].size /\ block'[b].next = block[b].next
        /\ block'[b].allocated
        /\ \A a \in DOMAIN block \ {b} : block'[a] = block[a]
        /\ block'[b] \in BlockHeader
    BY <1>2, <1>3, <2>1 DEF BlockHeader
  <2>3. \A a \in DOMAIN block : EndOf(a)' = EndOf(a)
    BY <2>2 DEF EndOf
  <2>4. Tiling'
    BY <1>2, <1>4, <2>2, <2>3 DEF Tiling
  <2>5. BlocksAligned'
    BY <1>4, <2>2 DEF BlocksAligned
  <2>6. used_heap_size' = used_heap_size + block'[b].size + 24
    BY <1>2, <2>1, <2>2, HeapFacts
  <2>7. block' \in [DOMAIN block' -> BlockHeader]
    BY <1>3, <2>2
  <2>8. block'[b].size >= size /\ block'[b].size <= block[b].size
    BY <1>1, <1>2, <1>3, <2>2
  <2> QED BY <1>2, <1>3, <2>2, <2>4, <2>5, <2>6, <2>7, <2>8
<1>6. CASE cut
  <2> DEFINE sb == block[b].size
             left == block'[b]
             right == [size |-> sb - n - 24, next |-> block[b].next,
                       allocated |-> FALSE]
  <2>00. /\ sb \in Nat /\ sb % 8 = 0 /\ b % 8 = 0 /\ EndOf(b) = b + 24 + sb
         /\ sb >= n + 56
    <3>1. sb >= n + 24 + 32
      BY <1>6
    <3> QED BY <1>1, <1>3, <1>4, <3>1
  <2> HIDE DEF sb
  <2>0. /\ rest \in Nat \ {0} /\ b < rest /\ rest < EndOf(b) /\ rest % 8 = 0 /\ rest # b
        /\ sb - n - 24 \in Nat /\ (sb - n - 24) % 8 = 0
    <3>1. rest \in Nat \ {0} /\ b < rest /\ rest # b /\ sb - n - 24 \in Nat
      BY <1>1, <1>3, <2>00
    <3>2. rest < EndOf(b)
      BY <1>1, <1>3, <2>00
    <3>3. rest % 8 = 0
      BY <1>1, <1>3, <2>00
    <3>4. (sb - n - 24) % 8 = 0
      BY <1>1, <2>00
    <3> QED BY <3>1, <3>2, <3>3, <3>4
  <2>1. rest \notin DOMAIN block
    BY <1>3, <1>4, <2>0
  <2>2. split_block(b, n) =
          [a \in DOMAIN block \cup {rest} |->
             IF a = b THEN [size |-> n, next |-> rest, allocated |-> FALSE]
             ELSE IF a = rest THEN right ELSE block[a]]
    BY <1>6, HeapFacts DEF split_block, sb
  <2> DEFINE s == split_block(b, n)
  <2>20. s[b] = [size |-> n, next |-> rest, allocated |-> FALSE] /\ s[b].size = n
         /\ DOMAIN s = DOMAIN block \cup {rest} /\ s[rest] = right
         /\ \A a \in DOMAIN block \ {b} : s[a] = block[a]
    BY <2>0, <2>1, <2>2
  <2>21. block' = [s EXCEPT ![b].allocated = TRUE]
         /\ used_heap_size' = used_heap_size + s[b].size + BLOCK_HEADER_SIZE
    BY <1>2
  <2> HIDE DEF s
  <2>3. /\ DOMAIN block' = DOMAIN block \cup {rest}
        /\ block'[rest] = right
        /\ \A a \in DOMAIN block \ {b} : block'[a] = block[a]
        /\ used_heap_size' = used_heap_size + n + 24
    <3>1. DOMAIN block' = DOMAIN block \cup {rest}
      BY <2>20, <2>21
    <3>3. block'[rest] = right
      BY <2>0, <2>20, <2>21
    <3>4. \A a \in DOMAIN block \ {b} : block'[a] = block[a]
      BY <2>20, <2>21
    <3>5. used_heap_size' = used_heap_size + n + 24
      BY <2>20, <2>21, HeapFacts
    <3> QED BY <3>1, <3>3, <3>4, <3>5
  <2>4. left \in BlockHeader /\ right \in BlockHeader
    <3>1. right \in BlockHeader
      BY <1>1, <1>3, <2>0 DEF BlockHeader
    <3>2. s[b] \in BlockHeader
      BY <1>1, <2>0, <2>20 DEF BlockHeader
    <3>3. left \in BlockHeader
      BY <2>20, <2>21, <3>2 DEF BlockHeader
    <3> QED BY <3>1, <3>3
  <2>5. /\ left.size = n /\ left.next = rest /\ left.allocated
        /\ right.size = sb - n - 24 /\ right.next = block[b].next
    <3>1. s[b].size = n /\ s[b].next = rest
      BY <2>20
    <3>2. left.size = s[b].size /\ left.next = s[b].next /\ left.allocated
      BY <2>20, <2>21
    <3> QED BY <3>1, <3>2
  <2> HIDE DEF right
  <2>6. block' \in [DOMAIN block' -> BlockHeader]
    BY <1>3, <2>3, <2>4, <2>21
  <2>7. /\ EndOf(b)' = rest /\ EndOf(rest)' = EndOf(b)
        /\ \A a \in DOMAIN block \ {b} : EndOf(a)' = EndOf(a)
    <3>1. EndOf(b)' = rest
      BY <1>1, <1>3, <2>3, <2>5, HeapFacts DEF EndOf
    <3>2. EndOf(rest)' = rest + 24 + (sb - n - 24)
      BY <2>3, <2>5, HeapFacts DEF EndOf
    <3>3. EndOf(rest)' = EndOf(b)
      BY <1>1, <1>3, <2>00, <3>2
    <3>4. \A a \in DOMAIN block \ {b} : EndOf(a)' = EndOf(a)
      BY <2>3 DEF EndOf
    <3> QED BY <3>1, <3>3, <3>4
  <2>8. Tiling'
    <3>1. \A a \in DOMAIN block' :
            /\ a >= HEAP_START /\ EndOf(a)' <= HEAP_END
            /\ block'[a].next = IF EndOf(a)' = HEAP_END THEN NULL ELSE EndOf(a)'
            /\ EndOf(a)' # HEAP_END => EndOf(a)' \in DOMAIN block'
      <4> SUFFICES ASSUME NEW a \in DOMAIN block'
                   PROVE  /\ a >= HEAP_START /\ EndOf(a)' <= HEAP_END
                          /\ block'[a].next = IF EndOf(a)' = HEAP_END THEN NULL ELSE EndOf(a)'
                          /\ EndOf(a)' # HEAP_END => EndOf(a)' \in DOMAIN block'
        OBVIOUS
      <4>0. EndOf(b) \in Nat /\ EndOf(b) <= HEAP_END /\ HEAP_END \in Nat /\ HEAP_START \in Nat
            /\ b >= HEAP_START
        BY <1>3, <1>4, HeapFacts
      <4>1. CASE a = b
        <5>1. rest <= HEAP_END /\ rest # HEAP_END
          BY <2>0, <4>0
        <5> QED BY <2>3, <2>5, <2>7, <4>0, <4>1, <5>1
      <4>2. CASE a = rest
        <5>1. rest >= HEAP_START
          BY <1>3, <2>0, <4>0
        <5> QED BY <1>4, <2>3, <2>5, <2>7, <4>0, <4>2, <5>1
      <4>3. CASE a \in DOMAIN block \ {b}
        BY <1>4, <2>3, <2>7, <4>3
      <4> QED BY <2>3, <4>1, <4>2, <4>3
    <3>2. \A a, c \in DOMAIN block' : a < c => EndOf(a)' <= c
      <4> SUFFICES ASSUME NEW a \in DOMAIN block', NEW c \in DOMAIN block', a < c
                   PROVE  EndOf(a)' <= c
        OBVIOUS
      <4>0. /\ a \in Nat /\ c \in Nat /\ EndOf(b) \in Nat
            /\ \A d \in DOMAIN block : d \in Nat /\ EndOf(d) \in Nat /\ d < EndOf(d)
        <5>1. \A d \in DOMAIN block : d \in Nat /\ EndOf(d) \in Nat /\ d < EndOf(d)
          <6> SUFFICES ASSUME NEW d \in DOMAIN block
                       PROVE  d \in Nat /\ EndOf(d) \in Nat /\ d < EndOf(d)
            OBVIOUS
          <6>1. d \in Nat /\ block[d].size \in Nat
            BY <1>3 DEF BlockHeader
          <6>2. EndOf(d) = d + 24 + block[d].size
            BY <1>4
          <6> QED BY <6>1, <6>2
        <5> QED BY <2>0, <2>3, <5>1
      <4>1. CASE a = b
        <5>1. c = rest \/ EndOf(b) <= c
          BY <1>4, <2>3, <4>1
        <5> QED BY <2>0, <2>7, <4>0, <4>1, <5>1
      <4>2. CASE a = rest
        <5>1. c \in DOMAIN block /\ b < c
          BY <1>3, <2>0, <2>3, <4>0, <4>2
        <5> QED BY <1>4, <2>7, <4>2, <5>1
      <4>3. CASE a \in DOMAIN block \ {b}
        <5>1. EndOf(a)' = EndOf(a)
          BY <2>7, <4>3
        <5>2. CASE c \in DOMAIN block
          BY <1>4, <4>3, <5>1, <5>2
        <5>3. CASE c = rest
          <6>1. ~(b < a)
            <7> SUFFICES ASSUME b < a PROVE FALSE
              OBVIOUS
            <7>1. EndOf(b) <= a
              BY <1>4, <4>3
            <7> QED BY <2>0, <4>0, <5>3, <7>1
          <6>2. a < b
            BY <1>3, <4>0, <4>3, <6>1
          <6>3. EndOf(a) <= b
            BY <1>4, <4>3, <6>2
          <6> QED BY <1>3, <2>0, <4>0, <4>3, <5>1, <5>3, <6>3
        <5> QED BY <2>3, <5>2, <5>3
      <4> QED BY <2>3, <4>1, <4>2, <4>3
    <3>3. (free_list = NULL => DOMAIN block = {})' /\ (free_list # NULL => HEAP_START \in DOMAIN block)'
      BY <1>2, <1>4, <2>3
    <3> QED BY <3>1, <3>2, <3>3 DEF Tiling
  <2>9. BlocksAligned'
    BY <1>1, <1>4, <2>0, <2>3, <2>5 DEF BlocksAligned
  <2>10. /\ used_heap_size' = used_heap_size + block'[b].size + 24
         /\ \A a \in DOMAIN block' \ DOMAIN block : ~block'[a].allocated
         /\ block'[b].allocated /\ block'[b].size >= size
         /\ DOMAIN block' \subseteq Nat \ {0}
    <3>1. used_heap_size' = used_heap_size + block'[b].size + 24
      BY <1>1, <1>3, <2>3, <2>5
    <3>2. ~right.allocated
      BY DEF right
    <3>3. \A a \in DOMAIN block' \ DOMAIN block : ~block'[a].allocated
      BY <2>3, <3>2
    <3>4. block'[b].allocated /\ block'[b].size >= size
      BY <1>1, <2>5
    <3>5. DOMAIN block' \subseteq Nat \ {0}
      BY <1>3, <2>0, <2>3
    <3> QED BY <3>1, <3>3, <3>4, <3>5
  <2>11. block'[b].size <= block[b].size
    BY <1>1, <2>00, <2>5 DEF sb
  <2> QED BY <1>2, <2>3, <2>6, <2>8, <2>9, <2>10, <2>11
<1> QED BY <1>5, <1>6

----------------------------------------------------------------------------
(* The steps. *)

LEMMA BlockTypes ==
  ASSUME Inv
  PROVE  \A b \in DOMAIN block :
           /\ b \in Nat \ {0} /\ block[b].size \in Nat /\ EndOf(b) = b + 24 + block[b].size
           /\ EndOf(b) \in Nat /\ b >= HEAP_START /\ EndOf(b) <= HEAP_END
<1> SUFFICES ASSUME NEW b \in DOMAIN block
             PROVE  /\ b \in Nat \ {0} /\ block[b].size \in Nat
                    /\ EndOf(b) = b + 24 + block[b].size
                    /\ EndOf(b) \in Nat /\ b >= HEAP_START /\ EndOf(b) <= HEAP_END
  OBVIOUS
<1>1. b \in Nat \ {0} /\ block[b].size \in Nat
  BY DEF Inv, TypeOK, BlockHeader
<1>2. EndOf(b) = b + 24 + block[b].size
  BY HeapFacts DEF EndOf
<1>3. b >= HEAP_START /\ EndOf(b) <= HEAP_END
  BY DEF Inv, Tiling
<1> QED BY <1>1, <1>2, <1>3

(* Two blocks that share a byte are one.                                   *)
LEMMA OneBlock ==
  ASSUME Inv, NEW b \in DOMAIN block, NEW c \in DOMAIN block, NEW p \in Nat,
         b <= p, p < EndOf(b), c <= p, p < EndOf(c)
  PROVE  b = c
<1>1. /\ b \in Nat /\ c \in Nat /\ EndOf(b) \in Nat /\ EndOf(c) \in Nat
  BY BlockTypes
<1>2. (b < c => EndOf(b) <= c) /\ (c < b => EndOf(c) <= b)
  BY DEF Inv, Tiling
<1> QED BY <1>1, <1>2

(* The bytes of one block: the heap's accounting, block by block.          *)
Bytes(b) == b .. (EndOf(b) - 1)

LEMMA UsedBytesFinite ==
  ASSUME Inv
  PROVE  IsFiniteSet(UsedBytes) /\ UsedBytes \subseteq HEAP_START .. HEAP_END
<1>1. UsedBytes \subseteq HEAP_START .. HEAP_END
  <2> SUFFICES ASSUME NEW b \in DOMAIN block, NEW x \in b .. (EndOf(b) - 1)
               PROVE  x \in HEAP_START .. HEAP_END
    BY DEF UsedBytes
  <2>1. /\ b \in Nat /\ EndOf(b) \in Nat /\ b >= HEAP_START /\ EndOf(b) <= HEAP_END
    BY BlockTypes
  <2> QED BY <2>1, HeapFacts
<1>2. IsFiniteSet(HEAP_START .. HEAP_END)
  <2>1. HEAP_START \in Int /\ HEAP_END \in Int
    BY HeapFacts
  <2> QED BY <2>1, FS_Interval
<1> QED BY <1>1, <1>2, FS_Subset

LEMMA BytesOfBlock ==
  ASSUME Inv, NEW b \in DOMAIN block
  PROVE  IsFiniteSet(Bytes(b)) /\ Cardinality(Bytes(b)) = block[b].size + 24
<1> DEFINE lo == b
           hi == EndOf(b) - 1
<1>1. lo \in Int /\ hi \in Int /\ lo <= hi /\ hi - lo + 1 = block[b].size + 24
  BY BlockTypes
<1>2. IsFiniteSet(lo .. hi) /\ Cardinality(lo .. hi) = IF lo > hi THEN 0 ELSE hi - lo + 1
  <2> HIDE DEF lo, hi
  <2> QED BY <1>1, FS_Interval
<1> QED BY <1>1, <1>2 DEF Bytes

(* Disjoint blocks do not share bytes.                                     *)
LEMMA BytesDisjoint ==
  ASSUME Inv, NEW b \in DOMAIN block, NEW c \in DOMAIN block, b # c
  PROVE  Bytes(b) \cap Bytes(c) = {}
<1> SUFFICES ASSUME NEW x \in Bytes(b), x \in Bytes(c) PROVE FALSE
  OBVIOUS
<1>1. /\ b \in Nat /\ c \in Nat /\ EndOf(b) \in Nat /\ EndOf(c) \in Nat
  BY BlockTypes
<1>2. x \in Nat /\ b <= x /\ x < EndOf(b) /\ c <= x /\ x < EndOf(c)
  BY <1>1 DEF Bytes
<1> QED BY <1>2, OneBlock

LEMMA DisjointSum ==
  ASSUME NEW S, NEW T, IsFiniteSet(S), IsFiniteSet(T), S \cap T = {}
  PROVE  /\ Cardinality(S \cup T) = Cardinality(S) + Cardinality(T)
         /\ Cardinality(S) \in Nat /\ Cardinality(T) \in Nat
<1>1. Cardinality(S \cup T) = Cardinality(S) + Cardinality(T) - Cardinality(S \cap T)
  BY FS_Union
<1>2. Cardinality(S) \in Nat /\ Cardinality(T) \in Nat
  BY FS_CardinalityType
<1> QED BY <1>1, <1>2, FS_EmptySet

(* Taking a block adds its bytes to those in use.                          *)
LEMMA UsedGrows ==
  ASSUME Inv, NEW b \in DOMAIN block, ~block[b].allocated,
         DOMAIN block \subseteq DOMAIN block', block'[b].allocated,
         \A a \in DOMAIN block \ {b} : block'[a] = block[a],
         \A a \in DOMAIN block' \ DOMAIN block : ~block'[a].allocated,
         used_heap_size' = used_heap_size + block'[b].size + 24,
         block'[b].size \in Nat, block'[b].size <= block[b].size
  PROVE  UsedIsTheSum' /\ used_heap_size' \in Nat
<1> DEFINE new == b .. (EndOf(b)' - 1)
<1>1. /\ EndOf(b)' = b + 24 + block'[b].size
      /\ \A a \in DOMAIN block \ {b} : EndOf(a)' = EndOf(a)
  BY HeapFacts DEF EndOf
<1>2. UsedBytes' = UsedBytes \cup new
  <2>1. {a \in DOMAIN block' : block'[a].allocated} = {a \in DOMAIN block : block[a].allocated} \cup {b}
    OBVIOUS
  <2>2. \A a \in DOMAIN block : block[a].allocated => a # b /\ EndOf(a)' = EndOf(a)
    BY <1>1
  <2>3. UsedBytes' = UNION {a .. (EndOf(a)' - 1) : a \in {c \in DOMAIN block' : block'[c].allocated}}
    BY DEF UsedBytes
  <2> QED BY <2>1, <2>2, <2>3 DEF UsedBytes
<1>3. b \in Nat /\ EndOf(b) = b + 24 + block[b].size /\ block[b].size \in Nat
  BY BlockTypes
<1>4. IsFiniteSet(new) /\ Cardinality(new) = block'[b].size + 24
  <2> DEFINE lo == b
             hi == EndOf(b)' - 1
  <2>1. lo \in Int /\ hi \in Int /\ lo <= hi /\ hi - lo + 1 = block'[b].size + 24
    BY <1>1, <1>3
  <2>2. IsFiniteSet(lo .. hi) /\ Cardinality(lo .. hi) = IF lo > hi THEN 0 ELSE hi - lo + 1
    <3> HIDE DEF lo, hi
    <3> QED BY <2>1, FS_Interval
  <2> QED BY <2>1, <2>2
<1>5. UsedBytes \cap new = {}
  <2>1. new \subseteq Bytes(b)
    BY <1>1, <1>3 DEF Bytes
  <2>2. \A a \in DOMAIN block : block[a].allocated => Bytes(a) \cap Bytes(b) = {}
    BY BytesDisjoint
  <2> HIDE DEF new
  <2> QED BY <2>1, <2>2 DEF UsedBytes, Bytes
<1> HIDE DEF new
<1>6. /\ Cardinality(UsedBytes \cup new) = Cardinality(UsedBytes) + Cardinality(new)
      /\ Cardinality(UsedBytes) \in Nat
  BY <1>4, <1>5, UsedBytesFinite, DisjointSum
<1>7. used_heap_size = Cardinality(UsedBytes)
  BY DEF Inv, UsedIsTheSum
<1>8. used_heap_size' = Cardinality(UsedBytes')
  BY <1>2, <1>4, <1>6, <1>7
<1> QED BY <1>6, <1>7, <1>8 DEF UsedIsTheSum

(* Handing out memory of a block just taken: nobody held any of it.        *)
LEMMA GiveStep ==
  ASSUME Inv, NEW want \in Nat, NEW b \in DOMAIN block, TakeBlock(b, want),
         NEW p \in Nat, NEW size \in Nat \ {0},
         b + 24 <= p, p + size <= b + 24 + want, Give(p, size)
  PROVE  /\ Inv' /\ Promise!Next
         /\ \A c \in DOMAIN block : Lost(c)' => Lost(c)
<1>1. /\ free_list' = free_list /\ ~block[b].allocated
      /\ DOMAIN block \subseteq DOMAIN block'
      /\ block' \in [DOMAIN block' -> BlockHeader]
      /\ DOMAIN block' \subseteq Nat \ {0}
      /\ used_heap_size' = used_heap_size + block'[b].size + 24
      /\ block'[b].allocated /\ block'[b].size >= want
      /\ \A a \in DOMAIN block \ {b} : block'[a] = block[a]
      /\ Tiling' /\ BlocksAligned'
  BY TakeEffect
<1>2. /\ DOMAIN live' = DOMAIN live \cup {p}
      /\ live'[p] = size
      /\ \A q \in DOMAIN live \ {p} : live'[q] = live[q]
      /\ live' = [q \in DOMAIN live \cup {p} |-> IF q = p THEN size ELSE live[q]]
  BY DEF Give
<1>3. /\ \A q \in DOMAIN live : q \in Nat \ {0} /\ live[q] \in Nat \ {0}
      /\ b \in Nat /\ block[b].size \in Nat /\ EndOf(b) = b + 24 + block[b].size
  BY BlockTypes DEF Inv, TypeOK
<1>4. block[b].size >= want
  <2>1. block[b].size >= RoundUp8(want)
    BY DEF TakeBlock, find_free_block, Fits
  <2> QED BY <1>3, <2>1, Rounding
<1>5. \A q \in DOMAIN live : Promise!Disjoint(p, size, q, live[q]) /\ q # p
  <2> SUFFICES ASSUME NEW q \in DOMAIN live
               PROVE  Promise!Disjoint(p, size, q, live[q]) /\ q # p
    OBVIOUS
  <2>1. PICK c \in DOMAIN block : block[c].allocated /\ Within(q, c)
    BY DEF Inv, HeldBlocks
  <2>2. c # b
    BY <1>1, <2>1
  <2>3. /\ c \in Nat /\ EndOf(c) \in Nat /\ c + 24 <= q /\ q + live[q] <= EndOf(c)
    BY <2>1, BlockTypes, HeapFacts DEF Within
  <2>4. (b < c => EndOf(b) <= c) /\ (c < b => EndOf(c) <= b)
    BY DEF Inv, Tiling
  <2>5. p + size <= q \/ q + live[q] <= p
    BY <1>3, <1>4, <2>2, <2>3, <2>4
  <2> QED BY <1>3, <2>5 DEF Promise!Disjoint
<1>6. p >= HEAP_START /\ p + size <= HEAP_END
  BY <1>3, <1>4, BlockTypes, HeapFacts
<1>7. Promise!Next
  <2>1. Promise!Alloc(p, size)
    BY <1>2, <1>5, <1>6 DEF Promise!Alloc
  <2> QED BY <1>2, <2>1 DEF Promise!Next
<1>10. UsedIsTheSum' /\ used_heap_size' \in Nat
  <2>1. block'[b].size \in Nat
    BY <1>1 DEF BlockHeader
  <2>2. \A a \in DOMAIN block' \ DOMAIN block : ~block'[a].allocated
    BY TakeEffect
  <2>3. block'[b].size <= block[b].size
    BY TakeEffect
  <2> QED BY <1>1, <2>1, <2>2, <2>3, UsedGrows
<1>8. TypeOK'
  <2>1. DOMAIN live' \subseteq Nat \ {0}
    BY <1>2, <1>3
  <2>2. \A q \in DOMAIN live' : live'[q] \in Nat \ {0}
    BY <1>2, <1>3
  <2>3. live' \in [DOMAIN live' -> Nat \ {0}]
    BY <1>2, <2>2
  <2> QED BY <1>1, <1>10, <2>1, <2>3 DEF Inv, TypeOK
<1>9. HeldBlocks'
  <2>1. \A c \in DOMAIN block' : EndOf(c)' = c + 24 + block'[c].size
    BY HeapFacts DEF EndOf
  <2>2. \A c \in DOMAIN block \ {b} : EndOf(c)' = EndOf(c)
    BY <1>1 DEF EndOf
  <2>3. b \in DOMAIN block' /\ EndOf(b)' = b + 24 + block'[b].size /\ block'[b].size \in Nat
    BY <1>1, <2>1 DEF BlockHeader
  <2>4. Within(p, b)'
    BY <1>1, <1>2, <1>3, <2>3, HeapFacts DEF Within
  <2>5. ASSUME NEW q \in DOMAIN live
        PROVE  \E c \in DOMAIN block \ {b} : block'[c].allocated /\ Within(q, c)'
    <3>1. PICK c \in DOMAIN block : block[c].allocated /\ Within(q, c)
      BY DEF Inv, HeldBlocks
    <3>2. c \in DOMAIN block \ {b} /\ block'[c] = block[c] /\ EndOf(c)' = EndOf(c)
      BY <1>1, <2>2, <3>1
    <3>3. live'[q] = live[q]
      BY <1>2, <1>5
    <3> QED BY <3>1, <3>2, <3>3 DEF Within
  <2>6. ASSUME NEW c \in DOMAIN block', NEW q \in DOMAIN live, Within(q, c)'
        PROVE  c \in DOMAIN block \ {b} /\ Within(q, c)
    <3>1. PICK d \in DOMAIN block \ {b} : block'[d].allocated /\ Within(q, d)'
      BY <2>5
    <3>2. /\ c \in Nat /\ d \in Nat /\ block'[c].size \in Nat /\ block'[d].size \in Nat
          /\ d \in DOMAIN block' /\ q \in Nat /\ live'[q] \in Nat \ {0}
      BY <1>1, <1>2, <1>3, <1>5, <3>1 DEF BlockHeader
    <3>3. /\ c + 24 <= q /\ q + live'[q] <= EndOf(c)'
          /\ d + 24 <= q /\ q + live'[q] <= EndOf(d)'
      BY <2>6, <3>1, HeapFacts DEF Within
    <3>4. (c < d => EndOf(c)' <= d) /\ (d < c => EndOf(d)' <= c)
      BY <1>1, <3>2 DEF Tiling
    <3>5. EndOf(c)' \in Nat /\ EndOf(d)' \in Nat
      BY <2>1, <3>2
    <3>6. c = d
      BY <3>2, <3>3, <3>4, <3>5
    <3>7. EndOf(c)' = EndOf(c) /\ live'[q] = live[q]
      BY <1>2, <1>5, <2>2, <3>1, <3>6
    <3> QED BY <3>1, <3>3, <3>6, <3>7, HeapFacts DEF Within
  <2>7. \A q \in DOMAIN live' : \E c \in DOMAIN block' : block'[c].allocated /\ Within(q, c)'
    <3> SUFFICES ASSUME NEW q \in DOMAIN live'
                 PROVE  \E c \in DOMAIN block' : block'[c].allocated /\ Within(q, c)'
      OBVIOUS
    <3>1. CASE q = p
      BY <1>1, <2>3, <2>4, <3>1
    <3>2. CASE q \in DOMAIN live
      BY <1>1, <2>5, <3>2
    <3> QED BY <1>2, <3>1, <3>2
  <2>8. ASSUME NEW c \in DOMAIN block', Within(p, c)'
        PROVE  c = b
    <3>1. /\ c + 24 <= p /\ p + size <= EndOf(c)' /\ p + size <= EndOf(b)'
          /\ c \in Nat /\ EndOf(c)' \in Nat /\ EndOf(b)' \in Nat
      BY <1>1, <1>2, <1>3, <2>1, <2>3, <2>4, <2>8, HeapFacts DEF Within, BlockHeader
    <3>2. (c < b => EndOf(c)' <= b) /\ (b < c => EndOf(b)' <= c)
      BY <1>1, <2>3 DEF Tiling
    <3> QED BY <1>3, <3>1, <3>2
  <2>9. ASSUME NEW c \in DOMAIN block', NEW q \in DOMAIN live', NEW r \in DOMAIN live',
               Within(q, c)', Within(r, c)'
        PROVE  q = r
    <3>1. CASE c = b
      <4>1. q = p /\ r = p
        BY <1>2, <2>6, <2>9, <3>1
      <4> QED BY <4>1
    <3>2. CASE c # b
      <4>1. q \in DOMAIN live /\ r \in DOMAIN live
        BY <1>2, <2>8, <2>9, <3>2
      <4>2. c \in DOMAIN block /\ Within(q, c) /\ Within(r, c)
        BY <2>6, <2>9, <4>1
      <4> QED BY <4>1, <4>2 DEF Inv, HeldBlocks
    <3> QED BY <3>1, <3>2
  <2> QED BY <2>7, <2>9 DEF HeldBlocks
<1>11. ASSUME NEW c \in DOMAIN block, Lost(c)' PROVE Lost(c)
  <2>1. CASE c = b
    <3>1. b + 24 <= p /\ p + size <= b + 24 + block'[b].size
      BY <1>1, <1>2, <1>3 DEF BlockHeader
    <3>2. Within(p, b)'
      BY <1>2, <3>1, HeapFacts DEF Within, EndOf
    <3> QED BY <1>2, <1>11, <2>1, <3>2 DEF Lost
  <2>2. CASE c # b
    <3>1. block'[c] = block[c]
      BY <1>1, <2>2
    <3>2. \A q \in DOMAIN live : Within(q, c)' <=> Within(q, c)
      BY <1>2, <1>5, <3>1 DEF Within, EndOf
    <3> QED BY <1>2, <1>11, <3>1, <3>2 DEF Lost
  <2> QED BY <2>1, <2>2
<1> QED BY <1>1, <1>7, <1>8, <1>9, <1>10, <1>11 DEF Inv

LEMMA KmallocStep ==
  ASSUME Inv, NEW size \in Sizes, kmalloc(size)
  PROVE  /\ Inv' /\ Promise!Next
         /\ \A c \in DOMAIN block : Lost(c)' => Lost(c)
<1>1. PICK b \in DOMAIN block : TakeBlock(b, size) /\ Give(b + BLOCK_HEADER_SIZE, size)
  BY DEF kmalloc
<1>2. size \in Nat \ {0} /\ size \in Nat
  BY HeapAssumption DEF kmalloc
<1>3. b + 24 \in Nat /\ b + 24 <= b + 24 /\ b + 24 + size <= b + 24 + size
  BY <1>2, BlockTypes
<1>4. Give(b + 24, size)
  BY <1>1, HeapFacts
<1> QED BY <1>1, <1>2, <1>3, <1>4, GiveStep

(* What is asked for fits in the block that is taken.                      *)
LEMMA TakenFits ==
  ASSUME Inv, NEW b \in DOMAIN block, NEW want \in Nat, TakeBlock(b, want)
  PROVE  b + 24 + want <= HEAP_END
<1>1. block[b].size >= RoundUp8(want)
  BY DEF TakeBlock, find_free_block, Fits
<1>2. EndOf(b) <= HEAP_END /\ b \in Nat /\ block[b].size \in Nat
  BY BlockTypes DEF Inv, Tiling
<1> QED BY <1>1, <1>2, Rounding, HeapFacts DEF EndOf

(* Below 4 GB the mask of 32 bits loses nothing of the rounded pointer.    *)
LEMMA KmallocAlignedStep ==
  ASSUME Inv, NEW size \in Sizes, NEW align \in Aligns, kmalloc_aligned(size, align)
  PROVE  /\ Inv' /\ Promise!Next
         /\ \A c \in DOMAIN block : Lost(c)' => Lost(c)
<1>1. PICK b \in DOMAIN block :
        /\ TakeBlock(b, size + align + BLOCK_HEADER_SIZE)
        /\ Give(Rounded(b + BLOCK_HEADER_SIZE, align), size)
  BY DEF kmalloc_aligned
<1>2. size \in Nat \ {0} /\ align \in Nat \ {0}
  BY HeapAssumption DEF kmalloc_aligned, PowerOfTwo
<1> DEFINE want == size + align + 24
           ptr == b + 24
           p == ((ptr + align - 1) \div align) * align
<1>3. want \in Nat /\ ptr \in Nat /\ TakeBlock(b, want) /\ Give(Rounded(ptr, align), size)
  BY <1>1, <1>2, BlockTypes, HeapFacts
<1>4. p \in Nat /\ ptr <= p /\ p <= ptr + align - 1
  <2> HIDE DEF ptr
  <2> QED BY <1>2, <1>3, AlignBounds
<1>5. Rounded(ptr, align) = p
  <2>1. ptr + want <= HEAP_END
    <3> HIDE DEF want
    <3> QED BY <1>3, TakenFits
  <2>2. p < UINT32 /\ UINT32 \in Nat
    <3> HIDE DEF p, ptr
    <3> QED BY <1>2, <1>3, <1>4, <2>1, HeapFacts, HeapAssumption
  <2>3. Rounded(ptr, align) = p % UINT32
    BY DEF Rounded
  <2> HIDE DEF p
  <2> QED BY <1>4, <2>2, <2>3
<1> HIDE DEF p
<1>6. b + 24 <= p /\ p + size <= b + 24 + want
  BY <1>2, <1>3, <1>4
<1> HIDE DEF want
<1> QED BY <1>2, <1>3, <1>4, <1>5, <1>6, GiveStep

(* A caller gives its pointer up, and if a block's header is in front of   *)
(* it, that block becomes free: no other caller has memory in it.          *)
LEMMA KfreeStep ==
  ASSUME Inv, NEW ptr \in Freeable, kfree(ptr)
  PROVE  /\ Inv'
         /\ Promise!Free(ptr) \/ UNCHANGED live
         /\ DOMAIN block' = DOMAIN block
         /\ \A c \in DOMAIN block : block'[c].allocated => block'[c] = block[c]
<1> DEFINE b == ptr - BLOCK_HEADER_SIZE
           frees == b \in DOMAIN block /\ block[b].allocated
<1>1. /\ free_list' = free_list
      /\ live' = [q \in DOMAIN live \ {ptr} |-> live[q]]
      /\ frees => /\ block' = [block EXCEPT ![b].allocated = FALSE]
                  /\ used_heap_size' = used_heap_size - (block[b].size + BLOCK_HEADER_SIZE)
      /\ ~frees => block' = block /\ used_heap_size' = used_heap_size
  BY DEF kfree
<1>2. /\ ptr \in Nat /\ b = ptr - 24
      /\ \A q \in DOMAIN live : q \in Nat \ {0} /\ live[q] \in Nat \ {0}
  BY HeapFacts, BlockTypes DEF Freeable, Inv, TypeOK
<1> HIDE DEF b
<1>3. /\ DOMAIN live' = DOMAIN live \ {ptr}
      /\ \A q \in DOMAIN live' : live'[q] = live[q]
  BY <1>1
<1>4. Promise!Free(ptr) \/ UNCHANGED live
  <2>1. CASE ptr \in DOMAIN live
    BY <1>1, <2>1 DEF Promise!Free
  <2>2. CASE ptr \notin DOMAIN live
    <3>1. live' = [q \in DOMAIN live |-> live[q]]
      BY <1>1, <2>2
    <3>2. live = [q \in DOMAIN live |-> live[q]]
      BY DEF Inv, TypeOK
    <3> QED BY <3>1, <3>2
  <2> QED BY <2>1, <2>2
<1>5. \A q \in DOMAIN live' : q \in Nat \ {0} /\ live'[q] \in Nat \ {0}
  BY <1>2, <1>3
<1>6. DOMAIN live' \subseteq Nat \ {0} /\ live' \in [DOMAIN live' -> Nat \ {0}]
  BY <1>1, <1>3, <1>5
<1>7. CASE ~frees
  <2>1. \A c \in DOMAIN block : EndOf(c)' = EndOf(c)
    BY <1>1, <1>7 DEF EndOf
  <2>2. TypeOK'
    BY <1>1, <1>6, <1>7 DEF Inv, TypeOK
  <2>3. Tiling' /\ BlocksAligned'
    BY <1>1, <1>7, <2>1 DEF Inv, Tiling, BlocksAligned
  <2>4. \A q \in DOMAIN live' : \A c \in DOMAIN block : Within(q, c)' <=> Within(q, c)
    BY <1>3, <2>1, HeapFacts DEF Within
  <2>5. HeldBlocks'
    BY <1>1, <1>3, <1>7, <2>4 DEF Inv, HeldBlocks
  <2>6. UsedIsTheSum'
    BY <1>1, <1>7 DEF Inv, UsedIsTheSum, UsedBytes, EndOf
  <2> QED BY <1>1, <1>4, <1>7, <2>2, <2>3, <2>5, <2>6 DEF Inv
<1>8. CASE frees
  <2>1. /\ b \in DOMAIN block /\ block[b].allocated /\ block[b] \in BlockHeader
        /\ b \in Nat \ {0} /\ block[b].size \in Nat
    BY <1>8, BlockTypes DEF Inv, TypeOK
  <2>2. /\ block' = [block EXCEPT ![b].allocated = FALSE]
        /\ used_heap_size' = used_heap_size - (block[b].size + 24)
    BY <1>1, <1>8, HeapFacts
  <2>3. /\ DOMAIN block' = DOMAIN block
        /\ \A c \in DOMAIN block \ {b} : block'[c] = block[c]
        /\ ~block'[b].allocated
        /\ block'[b].size = block[b].size /\ block'[b].next = block[b].next
        /\ block'[b] \in BlockHeader
    BY <2>1, <2>2 DEF BlockHeader
  <2>4. \A c \in DOMAIN block : block'[c].size = block[c].size /\ block'[c].next = block[c].next
    BY <2>3
  <2>5. \A c \in DOMAIN block : EndOf(c)' = EndOf(c)
    BY <2>4 DEF EndOf
  <2>6. Tiling' /\ BlocksAligned'
    BY <1>1, <2>3, <2>4, <2>5 DEF Inv, Tiling, BlocksAligned
  <2>7. \A q \in DOMAIN live' : \A c \in DOMAIN block : Within(q, c)' <=> Within(q, c)
    BY <1>3, <2>5, HeapFacts DEF Within
  <2>8. ASSUME NEW q \in DOMAIN live, Within(q, b)
        PROVE  q = ptr
    <3>1. ptr \in DOMAIN live
      <4> SUFFICES ASSUME ptr \notin DOMAIN live PROVE FALSE
        OBVIOUS
      <4>1. PICK a \in DOMAIN block : ~block[a].allocated /\ ptr = a + 24
        BY HeapFacts DEF Freeable
      <4>2. a \in Nat
        BY BlockTypes
      <4>3. a = b
        BY <1>2, <4>1, <4>2
      <4> QED BY <2>1, <4>1, <4>3
    <3>2. PICK c \in DOMAIN block : block[c].allocated /\ Within(ptr, c)
      BY <3>1 DEF Inv, HeldBlocks
    <3>3. /\ c \in Nat /\ EndOf(c) \in Nat /\ EndOf(b) = b + 24 + block[b].size
          /\ c + 24 <= ptr /\ ptr + live[ptr] <= EndOf(c) /\ live[ptr] \in Nat
      BY <1>2, <2>1, <3>1, <3>2, BlockTypes, HeapFacts DEF Within
    <3>4. b \in Nat /\ c <= b /\ b < EndOf(c) /\ b <= b /\ b < EndOf(b)
      BY <1>2, <2>1, <3>3
    <3>5. c = b
      BY <2>1, <3>4, OneBlock
    <3> QED BY <2>1, <2>8, <3>1, <3>2, <3>5 DEF Inv, HeldBlocks
  <2>9. HeldBlocks'
    <3>1. ASSUME NEW q \in DOMAIN live'
          PROVE  \E c \in DOMAIN block' : block'[c].allocated /\ Within(q, c)'
      <4>1. q \in DOMAIN live /\ q # ptr
        BY <1>3, <3>1
      <4>2. PICK c \in DOMAIN block : block[c].allocated /\ Within(q, c)
        BY <4>1 DEF Inv, HeldBlocks
      <4>3. c # b
        BY <2>8, <4>1, <4>2
      <4> QED BY <2>3, <2>7, <3>1, <4>2, <4>3
    <3>2. \A c \in DOMAIN block' : \A q, r \in DOMAIN live' :
            Within(q, c)' /\ Within(r, c)' => q = r
      BY <1>3, <2>3, <2>7 DEF Inv, HeldBlocks
    <3> QED BY <3>1, <3>2 DEF HeldBlocks
  <2>10. UsedBytes' = UsedBytes \ Bytes(b)
    <3>1. {c \in DOMAIN block' : block'[c].allocated} = {c \in DOMAIN block : block[c].allocated} \ {b}
      BY <2>1, <2>3
    <3>2. UsedBytes' = UNION {c .. (EndOf(c)' - 1) : c \in {a \in DOMAIN block' : block'[a].allocated}}
      BY DEF UsedBytes
    <3>3. UsedBytes' = UNION {Bytes(c) : c \in {a \in DOMAIN block : block[a].allocated} \ {b}}
      BY <2>5, <3>1, <3>2 DEF Bytes
    <3>4. UsedBytes = UNION {Bytes(c) : c \in {a \in DOMAIN block : block[a].allocated}}
      BY DEF UsedBytes, Bytes
    <3>5. \A c \in DOMAIN block : c # b => Bytes(c) \cap Bytes(b) = {}
      BY <2>1, BytesDisjoint
    <3> QED BY <2>1, <3>3, <3>4, <3>5
  <2>11. UsedIsTheSum' /\ used_heap_size' \in Nat
    <3>1. IsFiniteSet(Bytes(b)) /\ Cardinality(Bytes(b)) = block[b].size + 24
      BY <2>1, BytesOfBlock
    <3>2. UsedBytes = UsedBytes' \cup Bytes(b) /\ UsedBytes' \cap Bytes(b) = {}
      <4>1. Bytes(b) \subseteq UsedBytes
        BY <2>1 DEF UsedBytes, Bytes
      <4> QED BY <2>10, <4>1
    <3>3. IsFiniteSet(UsedBytes')
      BY <2>10, UsedBytesFinite, FS_Subset
    <3>4. /\ Cardinality(UsedBytes) = Cardinality(UsedBytes') + Cardinality(Bytes(b))
          /\ Cardinality(UsedBytes') \in Nat
      <4> DEFINE S == UsedBytes'
                 T == Bytes(b)
      <4>1. IsFiniteSet(S) /\ IsFiniteSet(T) /\ S \cap T = {} /\ UsedBytes = S \cup T
        BY <3>1, <3>2, <3>3
      <4> HIDE DEF S, T
      <4>2. Cardinality(S \cup T) = Cardinality(S) + Cardinality(T) /\ Cardinality(S) \in Nat
        BY <4>1, DisjointSum
      <4> QED BY <4>1, <4>2 DEF S, T
    <3>5. used_heap_size = Cardinality(UsedBytes)
      BY DEF Inv, UsedIsTheSum
    <3>6. used_heap_size' = Cardinality(UsedBytes')
      BY <2>1, <2>2, <3>1, <3>4, <3>5
    <3> QED BY <3>4, <3>6 DEF UsedIsTheSum
  <2>12. TypeOK'
    <3>1. \A c \in DOMAIN block' : block'[c] \in BlockHeader
      BY <2>3 DEF Inv, TypeOK
    <3>2. block' \in [DOMAIN block' -> BlockHeader]
      BY <2>2, <3>1
    <3> QED BY <1>1, <1>6, <2>3, <2>11, <3>2 DEF Inv, TypeOK
  <2>13. \A c \in DOMAIN block : block'[c].allocated => block'[c] = block[c]
    BY <2>3
  <2> QED BY <1>4, <2>3, <2>6, <2>9, <2>11, <2>12, <2>13 DEF Inv
<1> QED BY <1>7, <1>8

LEMMA StutterStep == ASSUME Inv, UNCHANGED vars PROVE Inv'
BY DEF vars, Inv, TypeOK, Tiling, HeldBlocks, BlocksAligned, UsedIsTheSum, UsedBytes,
       EndOf, Within

LEMMA NextInv == Inv /\ [Next]_vars => Inv'
<1> SUFFICES ASSUME Inv, [Next]_vars PROVE Inv'
  OBVIOUS
<1>1. CASE kmalloc_init
  BY <1>1, KmallocInitStep
<1>2. ASSUME NEW size \in Sizes, kmalloc(size) PROVE Inv'
  BY <1>2, KmallocStep
<1>3. ASSUME NEW size \in Sizes, NEW align \in Aligns, kmalloc_aligned(size, align)
      PROVE  Inv'
  BY <1>3, KmallocAlignedStep
<1>4. ASSUME NEW size \in Sizes, kmalloc_fails(size) PROVE Inv'
  BY <1>4, StutterStep DEF kmalloc_fails
<1>5. ASSUME NEW ptr \in Freeable, kfree(ptr) PROVE Inv'
  BY <1>5, KfreeStep
<1>6. CASE UNCHANGED vars
  BY <1>6, StutterStep
<1> QED BY <1>1, <1>2, <1>3, <1>4, <1>5, <1>6 DEF Next

(* The invariant of the heap, for every heap and every request.            *)
THEOREM Invariance == Spec => []Inv
<1>1. Init => Inv
  BY InitInv
<1>2. Inv /\ [Next]_vars => Inv'
  BY NextInv
<1> QED BY <1>1, <1>2, PTL DEF Spec

(* The blocks of the list tile the heap, whatever was allocated and freed. *)
THEOREM BlocksTile == Spec => []Tiling
<1>1. Inv => Tiling
  BY DEF Inv
<1> QED BY <1>1, Invariance, PTL

(* What callers hold, aligned or not, is in allocated blocks of their own. *)
THEOREM CallersKeepTheirs == Spec => []HeldBlocks
<1>1. Inv => HeldBlocks
  BY DEF Inv
<1> QED BY <1>1, Invariance, PTL

(* The statistics are exact, so they never wrap.                           *)
THEOREM UsedIsExact == Spec => []UsedIsTheSum
<1>1. Inv => UsedIsTheSum
  BY DEF Inv
<1> QED BY <1>1, Invariance, PTL

(* No header is cut, moved or resized while its block is allocated.        *)
THEOREM HeadersStay == Spec => HeadersPersist
<1>1. ASSUME Inv, [Next]_vars, NEW b \in DOMAIN block
      PROVE  /\ b \in DOMAIN block'
             /\ block[b].allocated /\ block'[b].allocated => block'[b] = block[b]
  <2>1. CASE kmalloc_init
    BY <1>1, <2>1 DEF kmalloc_init, Inv, Tiling
  <2>2. ASSUME NEW want \in Nat, NEW c \in DOMAIN block, TakeBlock(c, want)
        PROVE  /\ b \in DOMAIN block'
               /\ block[b].allocated /\ block'[b].allocated => block'[b] = block[b]
    <3>1. /\ ~block[c].allocated
          /\ DOMAIN block \subseteq DOMAIN block'
          /\ \A a \in DOMAIN block \ {c} : block'[a] = block[a]
      BY <1>1, <2>2, TakeEffect
    <3> QED BY <3>1
  <2>3. ASSUME NEW size \in Sizes, kmalloc(size)
        PROVE  \E want \in Nat, c \in DOMAIN block : TakeBlock(c, want)
    BY <2>3, HeapAssumption DEF kmalloc
  <2>4. ASSUME NEW size \in Sizes, NEW align \in Aligns, kmalloc_aligned(size, align)
        PROVE  \E want \in Nat, c \in DOMAIN block : TakeBlock(c, want)
    <3>1. PICK c \in DOMAIN block : TakeBlock(c, size + align + BLOCK_HEADER_SIZE)
      BY <2>4 DEF kmalloc_aligned
    <3>2. size + align + BLOCK_HEADER_SIZE \in Nat
      BY HeapAssumption, HeapFacts
    <3> QED BY <3>1, <3>2
  <2>5. ASSUME NEW ptr \in Freeable, kfree(ptr)
        PROVE  /\ b \in DOMAIN block'
               /\ block'[b].allocated => block'[b] = block[b]
    BY <1>1, <2>5, KfreeStep
  <2>6. CASE UNCHANGED vars \/ \E size \in Sizes : kmalloc_fails(size)
    BY <2>6 DEF kmalloc_fails, vars
  <2> QED BY <1>1, <2>1, <2>2, <2>3, <2>4, <2>5, <2>6 DEF Next
<1>2. Inv /\ [Next]_vars =>
        [\A b \in DOMAIN block :
           /\ b \in DOMAIN block'
           /\ block[b].allocated /\ block'[b].allocated => block'[b] = block[b]]_vars
  BY <1>1
<1> QED BY <1>2, Invariance, PTL DEF Spec, HeadersPersist

(* kfree loses a block only if the pointer was not at its start.           *)
LEMMA KfreeLoses ==
  ASSUME Inv, NEW ptr \in Freeable, kfree(ptr), NEW c \in DOMAIN block, Lost(c)'
  PROVE  Lost(c) \/ \E p \in DOMAIN live : Within(p, c) /\ p # c + BLOCK_HEADER_SIZE
<1>1. /\ block'[c] = block[c] /\ block[c].allocated
      /\ DOMAIN live' = DOMAIN live \ {ptr} /\ \A q \in DOMAIN live' : live'[q] = live[q]
  <2>1. block'[c].allocated
    BY DEF Lost
  <2> QED BY <2>1, KfreeStep DEF kfree
<1>2. \A q \in DOMAIN live' : ~Within(q, c)
  BY <1>1 DEF Lost, Within, EndOf
<1>3. CASE ptr \in DOMAIN live /\ Within(ptr, c)
  <2>1. ptr # c + BLOCK_HEADER_SIZE
    <3> SUFFICES ASSUME ptr = c + BLOCK_HEADER_SIZE PROVE FALSE
      OBVIOUS
    <3>1. ptr - BLOCK_HEADER_SIZE = c
      BY BlockTypes, HeapFacts
    <3>2. block' = [block EXCEPT ![c].allocated = FALSE]
      BY <1>1, <3>1 DEF kfree
    <3>3. block \in [DOMAIN block -> BlockHeader]
      BY DEF Inv, TypeOK
    <3>4. ~block'[c].allocated
      BY <3>2, <3>3 DEF BlockHeader
    <3> QED BY <1>1, <3>4
  <2> QED BY <1>3, <2>1
<1>4. CASE ~(ptr \in DOMAIN live /\ Within(ptr, c))
  BY <1>1, <1>2, <1>4 DEF Lost
<1> QED BY <1>3, <1>4

(* A block is lost in one way only: its caller gives up a pointer into its *)
(* middle, and kfree does not find the header.                             *)
THEOREM LostInOneWay == Spec => LostOnlyIfAligned
<1> DEFINE Keeps ==
      \A b \in DOMAIN block :
        Lost(b)' => \/ Lost(b)
                    \/ \E p \in DOMAIN live : Within(p, b) /\ p # b + BLOCK_HEADER_SIZE
<1>1. Inv /\ [Next]_vars => [Keeps]_vars
  <2> SUFFICES ASSUME Inv, Next PROVE Keeps
    OBVIOUS
  <2>1. CASE kmalloc_init
    BY <2>1 DEF kmalloc_init, Inv, Tiling
  <2>2. ASSUME NEW size \in Sizes, kmalloc(size) PROVE Keeps
    BY <2>2, KmallocStep
  <2>3. ASSUME NEW size \in Sizes, NEW align \in Aligns, kmalloc_aligned(size, align)
        PROVE  Keeps
    BY <2>3, KmallocAlignedStep
  <2>4. CASE \E size \in Sizes : kmalloc_fails(size)
    BY <2>4 DEF kmalloc_fails, vars, Lost, Within, EndOf
  <2>5. ASSUME NEW ptr \in Freeable, kfree(ptr) PROVE Keeps
    BY <2>5, KfreeLoses
  <2> QED BY <2>1, <2>2, <2>3, <2>4, <2>5 DEF Next
<1>2. QED
  BY <1>1, Invariance, PTL DEF Spec, LostOnlyIfAligned

(* The heap implements Arena: kmalloc and kmalloc_aligned hand out memory  *)
(* nobody holds, and kfree takes back at most what its caller held.        *)
THEOREM HeapIsAnArena == Spec => ImplementsArena
<1>1. Init => Promise!Init
  BY DEF Init, Promise!Init
<1>2. Inv /\ [Next]_vars => [Promise!Next]_live
  <2> SUFFICES ASSUME Inv, [Next]_vars
               PROVE  Promise!Next \/ UNCHANGED live
    OBVIOUS
  <2>1. CASE kmalloc_init
    BY <2>1 DEF kmalloc_init
  <2>2. ASSUME NEW size \in Sizes, kmalloc(size) PROVE Promise!Next
    BY <2>2, KmallocStep
  <2>3. ASSUME NEW size \in Sizes, NEW align \in Aligns, kmalloc_aligned(size, align)
        PROVE  Promise!Next
    BY <2>3, KmallocAlignedStep
  <2>4. ASSUME NEW ptr \in Freeable, kfree(ptr) PROVE Promise!Next \/ UNCHANGED live
    <3>1. Promise!Free(ptr) \/ UNCHANGED live
      BY <2>4, KfreeStep
    <3> QED BY <3>1 DEF Promise!Next, Promise!Free
  <2>5. CASE UNCHANGED vars \/ \E size \in Sizes : kmalloc_fails(size)
    BY <2>5 DEF kmalloc_fails, vars
  <2> QED BY <2>1, <2>2, <2>3, <2>4, <2>5 DEF Next
<1> QED BY <1>1, <1>2, Invariance, PTL DEF Spec, ImplementsArena, Promise!Spec

----------------------------------------------------------------------------
(* A nonempty set of naturals has a least element.  The library proves it  *)
(* of sets ordered by inclusion, and 0 .. n is included in 0 .. m if n <=  *)
(* m.                                                                      *)
LEMMA Least ==
  ASSUME NEW S, S \subseteq Nat, S # {}
  PROVE  \E m \in S : \A n \in S : m <= n
<1> DEFINE Upto(n) == 0 .. n
           T == {Upto(n) : n \in S}
<1>1. T \subseteq FiniteSubsetsOf(Nat) /\ T # {}
  <2>1. ASSUME NEW n \in S PROVE Upto(n) \subseteq Nat /\ IsFiniteSet(Upto(n))
    <3>1. 0 \in Int /\ n \in Int
      OBVIOUS
    <3>2. IsFiniteSet(0 .. n)
      BY <3>1, FS_Interval
    <3> QED BY <3>2
  <2> HIDE DEF Upto
  <2> QED BY <2>1 DEF FiniteSubsetsOf
<1>2. PICK x \in T : \A y \in T : ~(<<y, x>> \in StrictSubsetOrdering(Nat))
  <2> HIDE DEF T
  <2> QED BY <1>1, FS_StrictSubsetOrderingWellFounded, WFMin
<1>3. PICK m \in S : x = Upto(m)
  OBVIOUS
<1>4. ASSUME NEW n \in S, n < m PROVE FALSE
  <2>1. Upto(n) \subseteq Upto(m) /\ Upto(n) # Upto(m)
    BY <1>4
  <2>2. <<Upto(n), Upto(m)>> \in StrictSubsetOrdering(Nat)
    BY <2>1 DEF StrictSubsetOrdering
  <2> QED BY <1>2, <1>3, <2>2
<1> QED BY <1>4

(* The walk of find_free_block, one step.                                  *)
Succ(a) == IF a = NULL THEN NULL ELSE block[a].next

WalksTo(f, m) ==
  /\ f \in [0 .. m -> {f[k] : k \in 0 .. m}]
  /\ f[0] = free_list
  /\ \A k \in 1 .. m : f[k] = Succ(f[k - 1])

LEMMA WalkExists ==
  ASSUME NEW n \in Nat
  PROVE  \E f : WalksTo(f, n)
<1> DEFINE Bad == {m \in Nat : ~\E f : WalksTo(f, m)}
<1> SUFFICES ASSUME Bad # {} PROVE FALSE
  OBVIOUS
<1>1. PICK m \in Bad : \A i \in Bad : m <= i
  <2>1. Bad \subseteq Nat
    OBVIOUS
  <2> HIDE DEF Bad
  <2> QED BY <2>1, Least
<1>2. CASE m = 0
  <2>1. WalksTo([k \in 0 .. 0 |-> free_list], 0)
    BY DEF WalksTo
  <2> QED BY <1>2, <2>1
<1>3. CASE m # 0
  <2>1. m - 1 \in Nat /\ m - 1 \notin Bad /\ m \in Nat
    BY <1>1, <1>3
  <2>2. PICK f : WalksTo(f, m - 1)
    BY <2>1
  <2> DEFINE g == [k \in 0 .. m |-> IF k = m THEN Succ(f[m - 1]) ELSE f[k]]
  <2>3. g[0] = free_list
    BY <1>3, <2>1, <2>2 DEF WalksTo
  <2>4. ASSUME NEW k \in 1 .. m PROVE g[k] = Succ(g[k - 1])
    <3>1. CASE k = m
      <4>1. g[m] = Succ(f[m - 1]) /\ g[m - 1] = f[m - 1]
        BY <1>3, <2>1
      <4> QED BY <3>1, <4>1
    <3>2. CASE k # m
      <4>1. k \in 1 .. (m - 1) /\ k \in 0 .. m /\ k - 1 \in 0 .. m /\ k - 1 # m
        BY <2>1, <3>2
      <4>2. g[k] = f[k] /\ g[k - 1] = f[k - 1]
        BY <3>2, <4>1
      <4> QED BY <2>2, <4>1, <4>2 DEF WalksTo
    <3> QED BY <3>1, <3>2
  <2>5. g \in [0 .. m -> {g[k] : k \in 0 .. m}]
    OBVIOUS
  <2> HIDE DEF g
  <2>6. WalksTo(g, m)
    BY <2>3, <2>4, <2>5 DEF WalksTo
  <2> QED BY <2>6
<1> QED BY <1>2, <1>3

LEMMA NodesWalk ==
  ASSUME Cardinality(DOMAIN block) \in Nat
  PROVE  WalksTo(Nodes, Cardinality(DOMAIN block))
<1> DEFINE N == Cardinality(DOMAIN block)
           IsWalk(f) == f = [k \in 0 .. N |->
                               IF k = 0 THEN free_list
                               ELSE IF f[k - 1] = NULL THEN NULL ELSE block[f[k - 1]].next]
<1>1. Nodes = CHOOSE f : IsWalk(f)
  BY Zenon DEF Nodes
<1>2. PICK f : WalksTo(f, N)
  BY WalkExists
<1>3. f = [k \in 0 .. N |-> IF k = 0 THEN free_list ELSE Succ(f[k - 1])]
  <2>1. ASSUME NEW k \in 0 .. N
        PROVE  f[k] = IF k = 0 THEN free_list ELSE Succ(f[k - 1])
    <3>1. k = 0 \/ k \in 1 .. N
      <4> HIDE DEF N
      <4> QED OBVIOUS
    <3>2. CASE k = 0
      BY <1>2, <3>2 DEF WalksTo
    <3>3. CASE k \in 1 .. N
      <4>1. k # 0
        BY <3>3
      <4> QED BY <1>2, <3>3, <4>1 DEF WalksTo
    <3> QED BY <3>1, <3>2, <3>3
  <2>2. f = [k \in 0 .. N |-> f[k]]
    BY <1>2 DEF WalksTo
  <2> QED BY <2>1, <2>2
<1>4. IsWalk(f)
  BY <1>3 DEF Succ
<1>5. IsWalk(Nodes)
  <2> HIDE DEF IsWalk
  <2> QED BY <1>1, <1>4
<1>6. Nodes = [k \in 0 .. N |-> IF k = 0 THEN free_list ELSE Succ(Nodes[k - 1])]
  BY <1>5 DEF Succ
<1>7. Nodes \in [0 .. N -> {Nodes[k] : k \in 0 .. N}]
  BY <1>6
<1>8. Nodes[0] = free_list
  BY <1>6
<1>9. \A k \in 1 .. N : Nodes[k] = Succ(Nodes[k - 1])
  BY <1>6
<1> QED BY <1>7, <1>8, <1>9 DEF WalksTo

LEMMA BlocksFinite ==
  ASSUME Inv
  PROVE  IsFiniteSet(DOMAIN block) /\ Cardinality(DOMAIN block) \in Nat
<1>1. DOMAIN block \subseteq HEAP_START .. HEAP_END
  BY BlockTypes, HeapFacts DEF Inv, Tiling, EndOf
<1>2. IsFiniteSet(HEAP_START .. HEAP_END)
  <2>1. HEAP_START \in Int /\ HEAP_END \in Int
    BY HeapFacts
  <2> QED BY <2>1, FS_Interval
<1>3. IsFiniteSet(DOMAIN block)
  BY <1>1, <1>2, FS_Subset
<1> QED BY <1>3, FS_CardinalityType

(* After m steps of the walk every block is behind it or still ahead.      *)
Seen(m) ==
  /\ Nodes[m] \in DOMAIN block \cup {NULL}
  /\ Nodes[m] # NULL =>
       \A j \in 0 .. (m - 1) : Nodes[j] \in DOMAIN block /\ Nodes[j] < Nodes[m]
  /\ \A c \in DOMAIN block :
       \/ \E j \in 0 .. m : Nodes[j] = c
       \/ Nodes[m] # NULL /\ Nodes[m] < c

LEMMA SeenFirst == ASSUME Inv PROVE Seen(0)
<1>1. Nodes[0] = free_list
  BY BlocksFinite, NodesWalk DEF WalksTo
<1>2. free_list \in {NULL, HEAP_START} /\ (free_list = NULL => DOMAIN block = {})
      /\ (free_list # NULL => HEAP_START \in DOMAIN block)
      /\ \A c \in DOMAIN block : c >= HEAP_START /\ c \in Nat
  BY BlockTypes DEF Inv, TypeOK, Tiling
<1>3. 0 \in 0 .. 0 /\ 0 .. (0 - 1) = {}
  OBVIOUS
<1> QED BY <1>1, <1>2, <1>3, HeapFacts DEF Seen

LEMMA SeenNext ==
  ASSUME Inv, NEW m \in Nat, m + 1 <= Cardinality(DOMAIN block), Seen(m)
  PROVE  Seen(m + 1)
<1>1. Nodes[m + 1] = Succ(Nodes[m])
  <2>1. m + 1 \in 1 .. Cardinality(DOMAIN block) /\ (m + 1) - 1 = m
    BY BlocksFinite
  <2> QED BY <2>1, BlocksFinite, NodesWalk DEF WalksTo
<1>2. \A j \in 0 .. m : j = m \/ j \in 0 .. (m - 1)
  OBVIOUS
<1>3. 0 .. m \subseteq 0 .. (m + 1) /\ m + 1 \in 0 .. (m + 1) /\ (m + 1) - 1 = m
  OBVIOUS
<1>4. CASE Nodes[m] = NULL
  BY <1>1, <1>3, <1>4 DEF Seen, Succ
<1>5. CASE Nodes[m] # NULL
  <2> DEFINE b == Nodes[m]
  <2>1. b \in DOMAIN block /\ b # NULL
    BY <1>5 DEF Seen
  <2>2. Nodes[m + 1] = IF EndOf(b) = HEAP_END THEN NULL ELSE EndOf(b)
    BY <1>1, <2>1 DEF Succ, Inv, Tiling
  <2>3. b \in Nat /\ EndOf(b) \in Nat /\ b < EndOf(b)
    BY <2>1, BlockTypes, HeapFacts DEF EndOf
  <2>4. EndOf(b) # HEAP_END => EndOf(b) \in DOMAIN block
    BY <2>1 DEF Inv, Tiling
  <2>5. \A j \in 0 .. m : Nodes[j] \in DOMAIN block /\ Nodes[j] <= b
    BY <1>2, <1>5, <2>1, <2>3, BlockTypes DEF Seen
  <2>6. ASSUME NEW c \in DOMAIN block, b < c
        PROVE  EndOf(b) # HEAP_END /\ EndOf(b) <= c /\ c \in Nat
    <3>1. EndOf(b) <= c
      BY <2>1, <2>6 DEF Inv, Tiling
    <3>2. c \in Nat /\ EndOf(c) <= HEAP_END /\ EndOf(c) \in Nat /\ c < EndOf(c)
      BY BlockTypes
    <3> QED BY <2>3, <3>1, <3>2, HeapFacts
  <2>7. \A c \in DOMAIN block : (\E j \in 0 .. m : Nodes[j] = c) \/ b < c
    BY DEF Seen
  <2> HIDE DEF b
  <2>8. Nodes[m + 1] \in DOMAIN block \cup {NULL}
    BY <2>2, <2>4
  <2>9. ASSUME Nodes[m + 1] # NULL, NEW j \in 0 .. ((m + 1) - 1)
        PROVE  Nodes[j] \in DOMAIN block /\ Nodes[j] < Nodes[m + 1]
    BY <1>3, <2>2, <2>3, <2>5, <2>9, BlockTypes
  <2>10. ASSUME NEW c \in DOMAIN block
         PROVE  \/ \E j \in 0 .. (m + 1) : Nodes[j] = c
                \/ Nodes[m + 1] # NULL /\ Nodes[m + 1] < c
    <3>1. CASE \E j \in 0 .. m : Nodes[j] = c
      BY <1>3, <3>1
    <3>2. CASE b < c
      <4>1. Nodes[m + 1] = EndOf(b) /\ EndOf(b) <= c /\ c \in Nat
        BY <2>2, <2>6, <3>2
      <4>2. EndOf(b) # NULL
        BY <2>3, HeapFacts
      <4>3. CASE EndOf(b) = c
        BY <1>3, <4>1, <4>3
      <4>4. CASE EndOf(b) # c
        BY <2>3, <4>1, <4>2, <4>4
      <4> QED BY <4>3, <4>4
    <3> QED BY <2>7, <3>1, <3>2
  <2> QED BY <2>8, <2>9, <2>10 DEF Seen
<1> QED BY <1>4, <1>5

LEMMA SeenAll ==
  ASSUME Inv, NEW n \in 0 .. Cardinality(DOMAIN block)
  PROVE  Seen(n)
<1> DEFINE Bad == {m \in 0 .. Cardinality(DOMAIN block) : ~Seen(m)}
<1> SUFFICES ASSUME Bad # {} PROVE FALSE
  OBVIOUS
<1>1. Cardinality(DOMAIN block) \in Nat
  BY BlocksFinite
<1>2. PICK m \in Bad : \A i \in Bad : m <= i
  <2>1. Bad \subseteq Nat
    BY <1>1
  <2> HIDE DEF Bad
  <2> QED BY <2>1, Least
<1>3. m # 0
  BY <1>2, SeenFirst
<1>4. m - 1 \in Nat /\ (m - 1) + 1 = m /\ m - 1 \in 0 .. Cardinality(DOMAIN block)
      /\ m \in Nat /\ m <= Cardinality(DOMAIN block)
  BY <1>1, <1>2, <1>3
<1>5. Seen(m - 1)
  <2>1. m - 1 \notin Bad
    BY <1>2, <1>4
  <2> QED BY <1>4, <2>1
<1>6. Seen((m - 1) + 1)
  BY <1>4, <1>5, SeenNext
<1> QED BY <1>2, <1>4, <1>6

(* The walk has one step more than there are blocks, so it sees them all.  *)
LEMMA WalkSeesAll ==
  ASSUME Inv, NEW c \in DOMAIN block
  PROVE  \E j \in 0 .. Cardinality(DOMAIN block) : Nodes[j] = c
<1> DEFINE N == Cardinality(DOMAIN block)
<1>1. N \in Nat /\ IsFiniteSet(DOMAIN block)
  BY BlocksFinite
<1>2. SUFFICES ASSUME \A j \in 0 .. N : Nodes[j] # c PROVE FALSE
  OBVIOUS
<1>3. \A j \in 0 .. N : Seen(j)
  BY SeenAll
<1> HIDE DEF N
<1>4. N \in 0 .. N
  BY <1>1
<1>5. Nodes[N] # NULL
  BY <1>2, <1>3, <1>4 DEF Seen
<1>6. \A j \in 0 .. N : Nodes[j] \in DOMAIN block
  <2>1. \A j \in 0 .. N : j = N \/ j \in 0 .. (N - 1)
    BY <1>1
  <2> QED BY <1>3, <1>4, <1>5, <2>1 DEF Seen
<1>7. \A i, j \in 0 .. N : i < j => Nodes[i] < Nodes[j]
  <2> SUFFICES ASSUME NEW i \in 0 .. N, NEW j \in 0 .. N, i < j PROVE Nodes[i] < Nodes[j]
    OBVIOUS
  <2>1. Nodes[j] # NULL
    BY <1>6, BlockTypes, HeapFacts
  <2>2. i \in 0 .. (j - 1)
    BY <1>1
  <2> QED BY <1>3, <2>1, <2>2 DEF Seen
<1> DEFINE f == [j \in 0 .. N |-> Nodes[j]]
<1>8. f \in [0 .. N -> DOMAIN block]
  BY <1>6
<1>9. IsFiniteSet(0 .. N) /\ Cardinality(0 .. N) = N + 1
  <2>1. 0 \in Int /\ N \in Int
    BY <1>1
  <2>2. /\ IsFiniteSet(0 .. N)
        /\ Cardinality(0 .. N) = IF 0 > N THEN 0 ELSE N - 0 + 1
    BY <2>1, FS_Interval
  <2> QED BY <1>1, <2>2
<1>10. Cardinality(DOMAIN block) < Cardinality(0 .. N)
  BY <1>1, <1>9 DEF N
<1>11. PICK i, j \in 0 .. N : i # j /\ f[i] = f[j]
  <2> HIDE DEF f
  <2> QED BY <1>1, <1>8, <1>9, <1>10, FS_PigeonHole
<1>12. Nodes[i] = Nodes[j] /\ Nodes[i] \in Nat /\ (i < j \/ j < i)
  BY <1>1, <1>6, <1>11, BlockTypes
<1> QED BY <1>7, <1>12

LEMMA WalkFindsLowest == Inv => FindsLowestFit
<1> SUFFICES ASSUME Inv, NEW size \in Sizes
             PROVE  find_free_block(size) =
                      {b \in DOMAIN block :
                         Fits(b, size) /\ \A c \in DOMAIN block : Fits(c, size) => b <= c}
  BY DEF FindsLowestFit
<1> DEFINE N == Cardinality(DOMAIN block)
<1>1. N \in Nat /\ DOMAIN Nodes = 0 .. N
  BY BlocksFinite, NodesWalk DEF WalksTo
<1>2. \A c \in DOMAIN block : \E j \in 0 .. N : Nodes[j] = c
  BY WalkSeesAll
<1>3. \A j \in 0 .. N : Seen(j)
  BY SeenAll
<1> HIDE DEF N
<1>4. ASSUME NEW k \in 0 .. N, Nodes[k] \in DOMAIN block, NEW i \in 0 .. (k - 1)
      PROVE  Nodes[i] \in DOMAIN block /\ Nodes[i] < Nodes[k]
  BY <1>3, <1>4, BlockTypes, HeapFacts DEF Seen
<1>5. ASSUME NEW b \in find_free_block(size), NEW c \in DOMAIN block, Fits(c, size)
      PROVE  b <= c
  <2>1. PICK k \in 0 .. N : Nodes[k] = b /\ \A j \in 0 .. (k - 1) : ~Fits(Nodes[j], size)
    BY <1>1 DEF find_free_block
  <2>2. PICK i \in 0 .. N : Nodes[i] = c
    BY <1>2
  <2>3. ~(i \in 0 .. (k - 1))
    BY <1>5, <2>1, <2>2
  <2>4. i = k \/ k \in 0 .. (i - 1)
    BY <1>1, <2>3
  <2>5. b \in DOMAIN block /\ b \in Nat /\ c \in Nat
    BY BlockTypes DEF find_free_block
  <2> QED BY <1>4, <2>1, <2>2, <2>4, <2>5
<1>6. ASSUME NEW b \in DOMAIN block, Fits(b, size),
             \A c \in DOMAIN block : Fits(c, size) => b <= c
      PROVE  b \in find_free_block(size)
  <2>1. PICK k \in 0 .. N : Nodes[k] = b
    BY <1>2
  <2>2. \A j \in 0 .. (k - 1) : ~Fits(Nodes[j], size)
    BY <1>4, <1>6, <2>1, BlockTypes
  <2> QED BY <1>1, <1>6, <2>1, <2>2 DEF find_free_block
<1>7. find_free_block(size) \subseteq {b \in DOMAIN block : Fits(b, size)}
  BY DEF find_free_block
<1> QED BY <1>5, <1>6, <1>7

(* For every request kmalloc gets, the walk along the list finds the free  *)
(* block of lowest address that is large enough, and none only if there is *)
(* none: no block is ever cut off the list, and the list is in the order   *)
(* of the addresses.                                                       *)
THEOREM FirstFitIsLowest == Spec => []FindsLowestFit
BY Invariance, WalkFindsLowest, PTL

----------------------------------------------------------------------------
(* TaskTable. *)

TableTypes ==
  /\ task_table \in [Slot -> [pid : Nat, state : {"UNUSED", "READY", "ZOMBIE"},
                              kernel_stack : Nat, kernel_stack_size : Nat]]
  /\ next_pid \in 1 .. MAX_TASKS
  /\ idle_task \in {NULL, IDLE, FAULT}

(* Slots are given out in order, from the first one on.                    *)
InOrder ==
  /\ \A s \in Slot : s = 0 \/ s >= next_pid => task_table[s] = Unused
  /\ idle_task = NULL => \A s \in Slot : task_table[s] = Unused
  /\ idle_task # NULL => next_pid > IDLE

OwnPids == \A s \in LiveTasks : task_table[s].pid = IF s = IDLE THEN 0 ELSE s

(* The inductive invariant. *)
TaskInv ==
  /\ Inv
  /\ TableTypes
  /\ InOrder
  /\ OwnPids
  /\ StacksOwned

----------------------------------------------------------------------------
(* What the calls of the heap do to the blocks callers hold. *)

LEMMA TableFacts ==
  /\ MAX_TASKS \in Nat /\ MAX_TASKS > 1 /\ Slot = 0 .. (MAX_TASKS - 1)
  /\ IdleStack \in Sizes \ {0} /\ StackSizes \subseteq Sizes \ {0} /\ Sizes \subseteq Nat
  /\ IDLE = 1 /\ IDLE \in Slot /\ NULL = 0 /\ FAULT \notin Nat
  BY TaskAssumption, HeapAssumption DEF Slot, IDLE, NULL

(* A pointer given out by either call was held by nobody, and everybody    *)
(* else's stays as it is.                                                  *)
LEMMA GivesNew ==
  ASSUME Inv, NEW p, NEW n \in Nat, Give(p, n), Promise!Next
  PROVE  /\ p \notin DOMAIN live
         /\ DOMAIN live' = DOMAIN live \cup {p}
         /\ live'[p] = n
         /\ \A q \in DOMAIN live : live'[q] = live[q]
<1>1. DOMAIN live' = DOMAIN live \cup {p}
  BY DEF Give
<1>2. p \notin DOMAIN live
  <2>1. CASE \E q \in DOMAIN live' : Promise!Alloc(q, live'[q])
    <3>1. PICK q \in DOMAIN live' : Promise!Alloc(q, live'[q])
      BY <2>1
    <3>2. q \notin DOMAIN live
      <4>1. SUFFICES ASSUME q \in DOMAIN live PROVE FALSE
        OBVIOUS
      <4>2. q \in Nat /\ live[q] \in Nat \ {0}
        BY <4>1 DEF Inv, TypeOK
      <4>3. DOMAIN live' = DOMAIN live /\ live'[q] > 0
        BY <3>1, <4>1 DEF Promise!Alloc
      <4>4. p \in DOMAIN live
        BY <4>3, <1>1
      <4>5. q + live'[q] <= q \/ q + live[q] <= q
        BY <3>1, <4>1 DEF Promise!Alloc, Promise!Disjoint
      <4>6. live'[q] \in Nat
        BY <4>1, <4>2, <1>1 DEF Give
      <4>7. QED
        BY <4>2, <4>3, <4>5, <4>6
    <3>3. QED
      BY <1>1, <3>2, <3>1
  <2>2. CASE \E q \in DOMAIN live : Promise!Free(q)
    BY <1>1, <2>2 DEF Promise!Free
  <2>3. QED
    BY <2>1, <2>2 DEF Promise!Next
<1>3. QED
  BY <1>1, <1>2 DEF Give

(* The calls of the table all allocate with kmalloc.                       *)
LEMMA KmallocGives ==
  ASSUME Inv, NEW size \in Sizes, kmalloc(size)
  PROVE  /\ Inv'
         /\ \E p : /\ p \in Nat \ {0} /\ p \notin DOMAIN live
                   /\ DOMAIN live' = DOMAIN live \cup {p}
                   /\ live'[p] = size
                   /\ \A q \in DOMAIN live : live'[q] = live[q]
<1>1. Inv' /\ Promise!Next
  BY KmallocStep
<1>2. PICK b \in DOMAIN block : Give(b + BLOCK_HEADER_SIZE, size)
  BY DEF kmalloc
<1>3. size \in Nat
  BY TableFacts
<1>4. b + BLOCK_HEADER_SIZE \in Nat \ {0}
  BY HeapFacts DEF Inv, TypeOK
<1>5. QED
  BY <1>1, <1>2, <1>3, <1>4, GivesNew

LEMMA AlignedGives ==
  ASSUME Inv, NEW size \in Sizes, NEW align \in Aligns, kmalloc_aligned(size, align)
  PROVE  Inv' /\ \A q \in DOMAIN live : q \in DOMAIN live' /\ live'[q] = live[q]
<1>1. Inv' /\ Promise!Next
  BY KmallocAlignedStep
<1>2. PICK p : Give(p, size)
  BY DEF kmalloc_aligned
<1>3. size \in Nat
  BY TableFacts
<1>4. QED
  BY <1>1, <1>2, <1>3, GivesNew

(* Another caller keeps the heap sound and every stack as it is.           *)
LEMMA OthersKeepStacks ==
  ASSUME Inv, OtherCall, NEW q \in DOMAIN live, q \in Stacks
  PROVE  q \in DOMAIN live' /\ live'[q] = live[q]
<1>1. CASE kmalloc_init
  BY <1>1 DEF kmalloc_init
<1>2. CASE \E size \in Sizes : kmalloc(size)
  BY <1>2, KmallocGives
<1>3. CASE \E size \in Sizes, align \in Aligns : kmalloc_aligned(size, align)
  BY <1>3, AlignedGives
<1>4. CASE \E size \in Sizes : kmalloc_fails(size)
  BY <1>4 DEF kmalloc_fails, vars
<1>5. CASE \E ptr \in Freeable \ Stacks : kfree(ptr)
  BY <1>5 DEF kfree
<1>6. QED
  BY <1>1, <1>2, <1>3, <1>4, <1>5 DEF OtherCall

LEMMA OthersKeepInv == ASSUME Inv, OtherCall PROVE Inv'
<1>1. [Next]_vars
  BY DEF OtherCall, Next
<1>2. QED
  BY <1>1, NextInv

----------------------------------------------------------------------------
LEMMA InitTaskInv == TaskInit => TaskInv
<1>1. SUFFICES ASSUME TaskInit PROVE TaskInv
  OBVIOUS
<1>2. Inv
  BY <1>1, InitInv DEF TaskInit
<1>3. LiveTasks = {}
  BY <1>1 DEF TaskInit, LiveTasks, Unused
<1>4. TableTypes /\ InOrder
  BY <1>1, TableFacts DEF TaskInit, TableTypes, InOrder, Unused
<1>5. QED
  BY <1>2, <1>3, <1>4 DEF TaskInv, OwnPids, StacksOwned

(* A record that is written into a slot, with a stack nobody held or none. *)
LEMMA FillStep ==
  ASSUME TaskInv, Inv', NEW s \in Slot \ {0}, NEW pid \in Nat, NEW stack \in Nat, NEW size \in Nat,
         task_table[s] = Unused,
         task_table' = [task_table EXCEPT ![s] = Filled(pid, stack, size)],
         pid = IF s = IDLE THEN 0 ELSE s,
         \A q \in DOMAIN live : q \in DOMAIN live' /\ live'[q] = live[q],
         stack # NULL => stack \in DOMAIN live' \ DOMAIN live /\ live'[stack] = size
  PROVE  OwnPids' /\ StacksOwned'
<1>1. /\ task_table'[s] = Filled(pid, stack, size)
      /\ \A t \in Slot \ {s} : task_table'[t] = task_table[t]
  BY DEF TaskInv, TableTypes
<1>2. \A t \in LiveTasks' : t # s => t \in LiveTasks /\ task_table'[t] = task_table[t]
  BY <1>1 DEF LiveTasks
<1>3. s \in LiveTasks' => stack # NULL
  BY <1>1 DEF LiveTasks, Filled
<1>4. OwnPids'
  BY <1>1, <1>2, <1>3 DEF OwnPids, TaskInv, Filled
<1>5. \A t \in LiveTasks' :
        /\ task_table'[t].kernel_stack \in DOMAIN live'
        /\ live'[task_table'[t].kernel_stack] = task_table'[t].kernel_stack_size
  BY <1>1, <1>2, <1>3 DEF StacksOwned, TaskInv, Filled
<1>6. ASSUME NEW t \in LiveTasks', NEW u \in LiveTasks',
             task_table'[t].kernel_stack = task_table'[u].kernel_stack
      PROVE  t = u
  <2>1. \A v \in LiveTasks' : v # s => task_table'[v].kernel_stack \in DOMAIN live
    BY <1>2 DEF StacksOwned, TaskInv
  <2>2. s \in LiveTasks' => task_table'[s].kernel_stack \notin DOMAIN live
    BY <1>1, <1>3 DEF Filled
  <2>3. QED
    BY <1>2, <1>6, <2>1, <2>2 DEF StacksOwned, TaskInv
<1>7. ASSUME NEW t \in LiveTasks', NEW u \in LiveTasks', task_table'[t].pid = task_table'[u].pid
      PROVE  t = u
  <2>1. task_table'[0] = Unused
    BY <1>1, TableFacts DEF TaskInv, InOrder
  <2>2. 0 \notin LiveTasks'
    BY <2>1 DEF LiveTasks, Unused
  <2>3. QED
    BY <1>4, <1>7, <2>2 DEF OwnPids
<1>8. QED
  BY <1>4, <1>5, <1>6, <1>7 DEF StacksOwned

----------------------------------------------------------------------------
(* One lemma for each step. *)

LEMMA SchedulerInitStep == ASSUME TaskInv, scheduler_init PROVE TaskInv'
<1>1. \A t \in LiveTasks' : t = IDLE
  BY DEF scheduler_init, LiveTasks, Unused
<1>2. CASE /\ kmalloc(IdleStack) /\ idle_task' = IDLE
           /\ \E stack \in DOMAIN live' :
                /\ Allocated(stack)
                /\ task_table' = [s \in Slot |-> IF s = IDLE THEN Filled(0, stack, IdleStack)
                                                ELSE Unused]
  <2>1. PICK p : /\ p \in Nat \ {0} /\ p \notin DOMAIN live
                 /\ DOMAIN live' = DOMAIN live \cup {p} /\ live'[p] = IdleStack
    BY <1>2, TableFacts, KmallocGives DEF TaskInv
  <2>2. task_table' = [s \in Slot |-> IF s = IDLE THEN Filled(0, p, IdleStack) ELSE Unused]
    BY <1>2, <2>1 DEF Allocated
  <2>3. Inv'
    BY <1>2, TableFacts, KmallocGives DEF TaskInv
  <2>4. TableTypes' /\ InOrder'
    <3>1. next_pid' = 2 /\ IdleStack \in Nat /\ idle_task' = 1
      BY <1>2, TableFacts DEF scheduler_init
    <3>2. TableTypes'
      BY <3>1, <2>1, <2>2, TableFacts DEF TableTypes, Filled, Unused
    <3>3. InOrder'
      BY <3>1, <2>2, TableFacts DEF InOrder, Unused
    <3>4. QED
      BY <3>2, <3>3
  <2>5. OwnPids' /\ StacksOwned'
    BY <1>1, <2>1, <2>2, TableFacts DEF OwnPids, StacksOwned, Filled
  <2>6. QED
    BY <2>3, <2>4, <2>5 DEF TaskInv
<1>3. CASE /\ kmalloc_fails(IdleStack) /\ idle_task' = FAULT
           /\ task_table' = [s \in Slot |-> IF s = IDLE THEN Filled(IDLE, NULL, IdleStack)
                                           ELSE Unused]
  <2>1. Inv'
    BY <1>3, StutterStep DEF TaskInv, kmalloc_fails
  <2>2. LiveTasks' = {}
    BY <1>3, TableFacts DEF LiveTasks, Filled, Unused
  <2>3. TableTypes' /\ InOrder'
    <3>1. next_pid' = 2 /\ IdleStack \in Nat /\ idle_task' # NULL
      BY <1>3, TableFacts DEF scheduler_init
    <3>2. TableTypes'
      BY <1>3, <3>1, TableFacts DEF TableTypes, Filled, Unused
    <3>3. InOrder'
      BY <1>3, <3>1, TableFacts DEF InOrder, Unused
    <3>4. QED
      BY <3>2, <3>3
  <2>4. QED
    BY <2>1, <2>2, <2>3 DEF TaskInv, OwnPids, StacksOwned
<1>4. QED
  BY <1>2, <1>3 DEF scheduler_init

LEMMA TaskCreateStep ==
  ASSUME TaskInv, NEW size \in StackSizes, task_create(size)
  PROVE  TaskInv' /\ task_table[next_pid] = Unused /\ next_pid \in Slot \ {0}
                  /\ \A t \in Slot \ {next_pid} : task_table'[t] = task_table[t]
<1>1. next_pid \in Slot \ {0} /\ task_table[next_pid] = Unused
  <2>1. next_pid < MAX_TASKS /\ next_pid \in 1 .. MAX_TASKS
    BY DEF task_create, TaskInv, TableTypes
  <2>2. next_pid \in Slot \ {0} /\ next_pid >= next_pid
    BY <2>1, TableFacts DEF Slot
  <2>3. QED
    BY <2>2 DEF TaskInv, InOrder
<1>2. size \in Sizes /\ size \in Nat
  BY TableFacts
<1>3. PICK stack \in Nat :
        /\ task_table' = [task_table EXCEPT ![next_pid] = Filled(next_pid, stack, size)]
        /\ Inv'
        /\ \A q \in DOMAIN live : q \in DOMAIN live' /\ live'[q] = live[q]
        /\ stack # NULL => stack \in DOMAIN live' \ DOMAIN live /\ live'[stack] = size
  <2>1. CASE /\ kmalloc(size)
             /\ \E stack \in DOMAIN live' :
                  /\ Allocated(stack)
                  /\ task_table' = [task_table EXCEPT ![next_pid] = Filled(next_pid, stack, size)]
    <3>1. PICK p : /\ p \in Nat \ {0} /\ p \notin DOMAIN live
                   /\ DOMAIN live' = DOMAIN live \cup {p} /\ live'[p] = size
                   /\ \A q \in DOMAIN live : live'[q] = live[q]
      BY <2>1, <1>2, KmallocGives DEF TaskInv
    <3>2. task_table' = [task_table EXCEPT ![next_pid] = Filled(next_pid, p, size)]
      BY <2>1, <3>1 DEF Allocated
    <3>3. Inv'
      BY <2>1, <1>2, KmallocGives DEF TaskInv
    <3>4. QED
      BY <3>1, <3>2, <3>3
  <2>2. CASE /\ kmalloc_fails(size)
             /\ task_table' = [task_table EXCEPT ![next_pid] = Filled(next_pid, NULL, size)]
    <3>1. Inv' /\ live' = live
      BY <2>2, StutterStep DEF TaskInv, kmalloc_fails, vars
    <3>2. QED
      BY <2>2, <3>1, TableFacts
  <2>3. QED
    BY <2>1, <2>2 DEF task_create
<1>4. next_pid # IDLE
  BY TableFacts DEF TaskInv, InOrder, TableTypes, task_create
<1>5. OwnPids' /\ StacksOwned'
  <2>1. next_pid \in Nat /\ next_pid = IF next_pid = IDLE THEN 0 ELSE next_pid
    BY <1>1, <1>4, TableFacts
  <2>2. QED
    BY <1>1, <1>2, <1>3, <2>1, FillStep
<1>6. TableTypes' /\ InOrder'
  <2>1. next_pid' = next_pid + 1 /\ next_pid < MAX_TASKS /\ idle_task = IDLE /\ idle_task' = IDLE
    BY DEF task_create
  <2>2. next_pid \in Nat /\ next_pid' \in 1 .. MAX_TASKS
    BY <1>1, <2>1, TableFacts
  <2>3. Filled(next_pid, stack, size) \in [pid : Nat, state : {"UNUSED", "READY", "ZOMBIE"},
                                          kernel_stack : Nat, kernel_stack_size : Nat]
    BY <1>2, <1>3, <2>2 DEF Filled
  <2>4. TableTypes'
    BY <1>1, <1>3, <2>1, <2>2, <2>3 DEF TaskInv, TableTypes
  <2>5. \A t \in Slot \ {next_pid} : task_table'[t] = task_table[t]
    BY <1>3 DEF TaskInv, TableTypes
  <2>6. InOrder'
    BY <1>1, <2>1, <2>2, <2>5, TableFacts DEF TaskInv, InOrder
  <2>7. QED
    BY <2>4, <2>6
<1>7. \A t \in Slot \ {next_pid} : task_table'[t] = task_table[t]
  BY <1>3 DEF TaskInv, TableTypes
<1>8. QED
  BY <1>1, <1>3, <1>5, <1>6, <1>7 DEF TaskInv

LEMMA TaskExitStep ==
  ASSUME TaskInv, NEW s \in Slot, task_exit(s)
  PROVE  TaskInv'
<1> DEFINE stack == task_table[s].kernel_stack
<1>1. s \in LiveTasks /\ s # IDLE /\ stack \in DOMAIN live /\ kfree(stack)
  BY DEF task_exit, TaskInv, StacksOwned
<1>2. Inv'
  <2>1. stack \in Freeable
    BY <1>1 DEF Freeable
  <2>2. QED
    BY <1>1, <2>1, KfreeStep DEF TaskInv
<1>3. /\ task_table' = [task_table EXCEPT ![s].state = "ZOMBIE"]
      /\ next_pid' = next_pid /\ idle_task' = idle_task
  BY DEF task_exit
<1>4. /\ task_table'[s] = [task_table[s] EXCEPT !.state = "ZOMBIE"]
      /\ \A t \in Slot \ {s} : task_table'[t] = task_table[t]
  BY <1>3 DEF TaskInv, TableTypes
<1>5. LiveTasks' = LiveTasks \ {s}
  BY <1>4 DEF LiveTasks, TaskInv, TableTypes
<1>6. \A t \in LiveTasks' :
        /\ t \in LiveTasks /\ task_table'[t] = task_table[t]
        /\ task_table[t].kernel_stack # stack
  BY <1>1, <1>4, <1>5 DEF TaskInv, StacksOwned, LiveTasks
<1>7. \A q \in DOMAIN live \ {stack} : q \in DOMAIN live' /\ live'[q] = live[q]
  BY <1>1 DEF kfree
<1>8. OwnPids' /\ StacksOwned'
  BY <1>6, <1>7 DEF TaskInv, OwnPids, StacksOwned
<1>9. TableTypes'
  BY <1>3 DEF TaskInv, TableTypes
<1>10. InOrder'
  <2>1. task_table[s] # Unused
    BY <1>1 DEF LiveTasks, Unused
  <2>2. QED
    BY <1>3, <1>4, <2>1 DEF TaskInv, InOrder
<1>11. QED
  BY <1>2, <1>8, <1>9, <1>10 DEF TaskInv

LEMMA OtherCallStep == ASSUME TaskInv, OtherCall PROVE TaskInv'
<1>1. task_table' = task_table /\ next_pid' = next_pid /\ idle_task' = idle_task
  BY DEF OtherCall, taskVars
<1>2. Inv'
  BY OthersKeepInv DEF TaskInv
<1>3. TableTypes' /\ InOrder' /\ OwnPids'
  BY <1>1 DEF TaskInv, TableTypes, InOrder, OwnPids, LiveTasks
<1>4. LiveTasks' = LiveTasks
  BY <1>1 DEF LiveTasks
<1>5. \A t \in LiveTasks :
        /\ task_table[t].kernel_stack \in DOMAIN live'
        /\ live'[task_table[t].kernel_stack] = live[task_table[t].kernel_stack]
  BY OthersKeepStacks DEF Stacks, TaskInv, StacksOwned
<1>6. StacksOwned'
  BY <1>1, <1>4, <1>5 DEF TaskInv, StacksOwned
<1>7. QED
  BY <1>2, <1>3, <1>6 DEF TaskInv

LEMMA TaskStutter == ASSUME TaskInv, UNCHANGED tableVars PROVE TaskInv'
<1>1. Inv'
  BY StutterStep DEF TaskInv, tableVars
<1>2. QED
  BY <1>1 DEF TaskInv, tableVars, taskVars, vars, TableTypes, InOrder, OwnPids, StacksOwned,
              LiveTasks

LEMMA TaskStep == TaskInv /\ [TaskNext]_tableVars => TaskInv'
<1>1. SUFFICES ASSUME TaskInv, [TaskNext]_tableVars PROVE TaskInv'
  OBVIOUS
<1>2. CASE scheduler_init
  BY <1>1, <1>2, SchedulerInitStep
<1>3. CASE \E size \in StackSizes : task_create(size)
  BY <1>1, <1>3, TaskCreateStep
<1>4. CASE \E s \in Slot : task_exit(s)
  BY <1>1, <1>4, TaskExitStep
<1>5. CASE OtherCall
  BY <1>1, <1>5, OtherCallStep
<1>6. CASE UNCHANGED tableVars
  BY <1>1, <1>6, TaskStutter
<1>7. QED
  BY <1>1, <1>2, <1>3, <1>4, <1>5, <1>6 DEF TaskNext

----------------------------------------------------------------------------
(* The theorems. *)

(* The inductive invariant of the task table and the heap below it.        *)
THEOREM TableInvariance == TaskSpec => []TaskInv
<1>1. QED
  BY InitTaskInv, TaskStep, PTL DEF TaskSpec

(* Whatever the task table does is something the heap's Spec allows: what  *)
(* is proved of the heap for any callers holds with tasks among them.      *)
THEOREM TasksUseTheHeap == TaskSpec => Spec
<1>1. TaskInit => Init
  BY DEF TaskInit
<1>2. ASSUME TaskInv, [TaskNext]_tableVars PROVE [Next]_vars
  <2>1. CASE scheduler_init
    BY <2>1, TableFacts DEF scheduler_init, Next
  <2>2. CASE \E size \in StackSizes : task_create(size)
    BY <2>2, TableFacts DEF task_create, Next
  <2>3. CASE \E s \in Slot : task_exit(s)
    BY <1>2, <2>3 DEF task_exit, Next, TaskInv, StacksOwned, Freeable
  <2>4. CASE OtherCall
    BY <2>4 DEF OtherCall, Next
  <2>5. CASE UNCHANGED tableVars
    BY <2>5 DEF tableVars
  <2>6. QED
    BY <1>2, <2>1, <2>2, <2>3, <2>4, <2>5 DEF TaskNext
<1>3. QED
  BY <1>1, <1>2, TableInvariance, PTL DEF TaskSpec, Spec

(* With tasks among its callers the heap still implements Arena: no two of *)
(* them, task or other, ever hold overlapping memory.                      *)
THEOREM TasksShareAnArena == TaskSpec => ImplementsArena
<1>1. QED
  BY TasksUseTheHeap, HeapIsAnArena

(* Every task that has not exited owns its stack, and its pid alone.       *)
THEOREM StacksAreOwned == TaskSpec => []StacksOwned
<1>1. TaskInv => StacksOwned
  BY DEF TaskInv
<1>2. QED
  BY <1>1, TableInvariance, PTL

(* A slot, once given to a task, is never given to another.                *)
THEOREM HandlesAreStable == TaskSpec => HandlesStable
<1> DEFINE Stays(s) ==
      \/ task_table'[s] = task_table[s]
      \/ /\ task_table[s].state = "READY"
         /\ task_table'[s] = [task_table[s] EXCEPT !.state = "ZOMBIE"]
<1>1. ASSUME TaskInv, [TaskNext]_tableVars, idle_task # NULL,
             NEW s \in Slot, task_table[s] # Unused
      PROVE  Stays(s)
  <2>1. CASE scheduler_init
    BY <1>1, <2>1 DEF scheduler_init
  <2>2. CASE \E size \in StackSizes : task_create(size)
    <3>1. s # next_pid /\ \A t \in Slot \ {next_pid} : task_table'[t] = task_table[t]
      BY <1>1, <2>2, TaskCreateStep
    <3>2. QED
      BY <3>1
  <2>3. CASE \E t \in Slot : task_exit(t)
    <3>1. PICK t \in Slot : task_exit(t)
      BY <2>3
    <3>2. /\ task_table[t].state = "READY"
          /\ task_table' = [task_table EXCEPT ![t].state = "ZOMBIE"]
      BY <3>1 DEF task_exit, LiveTasks
    <3>3. CASE s = t
      BY <1>1, <3>2, <3>3 DEF TaskInv, TableTypes
    <3>4. CASE s # t
      BY <1>1, <3>2, <3>4 DEF TaskInv, TableTypes
    <3>5. QED
      BY <3>3, <3>4
  <2>4. CASE OtherCall
    BY <2>4 DEF OtherCall, taskVars
  <2>5. CASE UNCHANGED tableVars
    BY <2>5 DEF tableVars, taskVars
  <2>6. QED
    BY <1>1, <2>1, <2>2, <2>3, <2>4, <2>5 DEF TaskNext
<1>2. TaskInv /\ [TaskNext]_tableVars =>
        [idle_task # NULL => \A s \in Slot : task_table[s] # Unused => Stays(s)]_tableVars
  BY <1>1
<1>3. QED
  BY <1>2, TableInvariance, PTL DEF TaskSpec, HandlesStable
=============================================================================
