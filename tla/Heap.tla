-------------------------------- MODULE Heap --------------------------------
(***************************************************************************)
(* The kernel heap, kernel/mm/kmalloc.c: one list of blocks, each a header *)
(* in front of its data, split on allocation and never merged again.       *)
(* Sizes and addresses are numbers of bytes.                               *)
(*                                                                         *)
(* A header is recognised by its magic number.  Headers are only ever      *)
(* written by kmalloc_init and split_block, so an address has the magic    *)
(* number exactly if it is one of block's; callers' data is taken never to *)
(* look like it.  Sizes are small enough for size_t and uint32_t.          *)
(* Addresses are of 64 bits, but the mask of kmalloc_aligned is a          *)
(* uint32_t, so it also clears what is above: the heap must lie below 4 GB *)
(* (UINT32), as both kernels' does.                                        *)
(***************************************************************************)
EXTENDS Integers, FiniteSets

CONSTANTS
  HEAP_START, HEAP_SIZE,        \* the arguments of kmalloc_init
  Sizes,                        \* the sizes callers ask for
  Aligns,                       \* the alignments they ask kmalloc_aligned for
  UINT32                        \* 2^32, the numbers a uint32_t holds

BLOCK_HEADER_SIZE == 24         \* sizeof(mem_block_t) on a 64-bit machine
MIN_DATA == 32                  \* the least split_block leaves in a new block
NULL == 0

ASSUME HeapAssumption ==
  /\ HEAP_START \in Nat \ {0} /\ HEAP_START % 8 = 0
  /\ HEAP_SIZE \in Nat /\ HEAP_SIZE >= BLOCK_HEADER_SIZE /\ HEAP_SIZE % 8 = 0
  /\ Sizes \subseteq Nat
  /\ Aligns \subseteq Nat
  /\ UINT32 \in Nat /\ HEAP_START + HEAP_SIZE <= UINT32

HEAP_END == HEAP_START + HEAP_SIZE

VARIABLES
  free_list,            \* the first block, NULL before kmalloc_init
  block,                \* the headers by address
  used_heap_size,
  live                  \* the sizes callers got and have not freed, by pointer

vars == <<free_list, block, used_heap_size, live>>

----------------------------------------------------------------------------
(* The blocks in the order of the list, NULL past the end.                 *)
Nodes ==
  LET At[k \in 0 .. Cardinality(DOMAIN block)] ==
        IF k = 0 THEN free_list
        ELSE IF At[k - 1] = NULL THEN NULL ELSE block[At[k - 1]].next
  IN  At

(* Fault: a block in use will do.                                          *)
FitsInUse(b, size) == block[b].size >= size

Fits(b, size) == ~block[b].allocated /\ block[b].size >= size

(* First fit along the list; no block if the walk comes to its end.        *)
find_free_block(size) ==
  {b \in DOMAIN block :
     /\ Fits(b, size)
     /\ \E k \in DOMAIN Nodes :
          Nodes[k] = b /\ \A j \in 0 .. (k - 1) : ~Fits(Nodes[j], size)}

(* Fault: the new header is forgotten in the size of what remains.         *)
SplitForgetsHeader(b, size) ==
  LET rest == b + BLOCK_HEADER_SIZE + size IN
  IF block[b].size >= size + BLOCK_HEADER_SIZE + MIN_DATA
  THEN [a \in DOMAIN block \cup {rest} |->
          IF a = b
          THEN [size |-> size, next |-> rest, allocated |-> FALSE]
          ELSE IF a = rest
          THEN [size |-> block[b].size - size,
                next |-> block[b].next, allocated |-> FALSE]
          ELSE block[a]]
  ELSE block

(* Fault: the new block is not linked.                                     *)
SplitUnlinked(b, size) ==
  LET rest == b + BLOCK_HEADER_SIZE + size IN
  IF block[b].size >= size + BLOCK_HEADER_SIZE + MIN_DATA
  THEN [a \in DOMAIN block \cup {rest} |->
          IF a = b
          THEN [size |-> size, next |-> block[b].next, allocated |-> FALSE]
          ELSE IF a = rest
          THEN [size |-> block[b].size - size - BLOCK_HEADER_SIZE,
                next |-> block[b].next, allocated |-> FALSE]
          ELSE block[a]]
  ELSE block

(* The blocks after free block b is cut to size, if what remains is worth  *)
(* a block of its own.                                                     *)
split_block(b, size) ==
  LET rest == b + BLOCK_HEADER_SIZE + size IN
  IF block[b].size >= size + BLOCK_HEADER_SIZE + MIN_DATA
  THEN [a \in DOMAIN block \cup {rest} |->
          IF a = b
          THEN [size |-> size, next |-> rest, allocated |-> FALSE]
          ELSE IF a = rest
          THEN [size |-> block[b].size - size - BLOCK_HEADER_SIZE,
                next |-> block[b].next, allocated |-> FALSE]
          ELSE block[a]]
  ELSE block

----------------------------------------------------------------------------
kmalloc_init ==
  /\ free_list = NULL
  /\ free_list' = HEAP_START
  /\ block' = [a \in {HEAP_START} |->
                 [size |-> HEAP_SIZE - BLOCK_HEADER_SIZE, next |-> NULL,
                  allocated |-> FALSE]]
  /\ used_heap_size' = 0
  /\ UNCHANGED live

RoundUp8(size) == ((size + 7) \div 8) * 8

(* kmalloc up to the pointer it returns, b + BLOCK_HEADER_SIZE.            *)
TakeBlock(b, size) ==
  LET split == split_block(b, RoundUp8(size)) IN
  /\ b \in find_free_block(RoundUp8(size))
  /\ block' = [split EXCEPT ![b].allocated = TRUE]
  /\ used_heap_size' = used_heap_size + split[b].size + BLOCK_HEADER_SIZE
  /\ UNCHANGED free_list

Give(p, size) ==
  live' = [q \in DOMAIN live \cup {p} |-> IF q = p THEN size ELSE live[q]]

kmalloc(size) ==
  /\ size # 0
  /\ \E b \in DOMAIN block :
       TakeBlock(b, size) /\ Give(b + BLOCK_HEADER_SIZE, size)

(* (align & (align - 1)) == 0 and align != 0: no odd divisor but 1.        *)
PowerOfTwo(align) ==
  align # 0 /\ \A d \in 2 .. align : align % d = 0 => d % 2 = 0

(* (ptr + align - 1) & ~(align - 1), with a mask of 32 bits. *)
Rounded(ptr, align) == (((ptr + align - 1) \div align) * align) % UINT32

(* The pointer is rounded up inside the block, whose header stays where it *)
(* is.                                                                     *)
kmalloc_aligned(size, align) ==
  /\ size # 0 /\ PowerOfTwo(align)
  /\ \E b \in DOMAIN block :
       /\ TakeBlock(b, size + align + BLOCK_HEADER_SIZE)
       /\ Give(Rounded(b + BLOCK_HEADER_SIZE, align), size)

(* Either call returns NULL: for size 0, or at the end of the list.        *)
kmalloc_fails(size) ==
  /\ size = 0 \/ find_free_block(RoundUp8(size)) = {}
  /\ UNCHANGED vars

(* Fault: the test for a double free is the wrong way round.               *)
KfreeInverted(ptr) ==
  LET b == ptr - BLOCK_HEADER_SIZE IN
  /\ IF b \in DOMAIN block /\ ~block[b].allocated
     THEN /\ block' = [block EXCEPT ![b].allocated = FALSE]
          /\ used_heap_size' = used_heap_size - (block[b].size + BLOCK_HEADER_SIZE)
     ELSE UNCHANGED <<block, used_heap_size>>
  /\ live' = [q \in DOMAIN live \ {ptr} |-> live[q]]
  /\ UNCHANGED free_list

(* The caller gives ptr up.  Its block becomes free if there is an         *)
(* allocated block's header right in front of it; otherwise the call       *)
(* returns and the block stays as it is.                                   *)
kfree(ptr) ==
  LET b == ptr - BLOCK_HEADER_SIZE IN
  /\ IF b \in DOMAIN block /\ block[b].allocated
     THEN /\ block' = [block EXCEPT ![b].allocated = FALSE]
          /\ used_heap_size' = used_heap_size - (block[b].size + BLOCK_HEADER_SIZE)
     ELSE UNCHANGED <<block, used_heap_size>>
  /\ live' = [q \in DOMAIN live \ {ptr} |-> live[q]]
  /\ UNCHANGED free_list

(* The pointers that may reach kfree: those callers hold, and those of     *)
(* blocks that are free by now, a second time.                             *)
Freeable ==
  DOMAIN live \cup {b + BLOCK_HEADER_SIZE : b \in {a \in DOMAIN block : ~block[a].allocated}}

Init ==
  /\ free_list = NULL
  /\ block = [a \in {} |-> NULL]
  /\ used_heap_size = 0
  /\ live = [p \in {} |-> 0]

Next ==
  \/ kmalloc_init
  \/ \E size \in Sizes :
       \/ kmalloc(size)
       \/ \E align \in Aligns : kmalloc_aligned(size, align)
       \/ kmalloc_fails(size)
  \/ \E ptr \in Freeable : kfree(ptr)

Spec == Init /\ [][Next]_vars

----------------------------------------------------------------------------
(* Properties. *)

BlockHeader == [size : Nat, next : Nat, allocated : BOOLEAN]

TypeOK ==
  /\ free_list \in {NULL, HEAP_START}
  /\ DOMAIN block \subseteq Nat \ {0}
  /\ block \in [DOMAIN block -> BlockHeader]
  /\ used_heap_size \in Nat
  /\ DOMAIN live \subseteq Nat \ {0}
  /\ live \in [DOMAIN live -> Nat \ {0}]

EndOf(b) == b + BLOCK_HEADER_SIZE + block[b].size

(* The blocks tile the heap: each one ends where the next one in the list  *)
(* begins, the last one at the end of the heap.                            *)
Tiling ==
  /\ free_list = NULL => DOMAIN block = {}
  /\ free_list # NULL => HEAP_START \in DOMAIN block
  /\ \A b \in DOMAIN block :
       /\ b >= HEAP_START
       /\ EndOf(b) <= HEAP_END
       /\ block[b].next = IF EndOf(b) = HEAP_END THEN NULL ELSE EndOf(b)
       /\ EndOf(b) # HEAP_END => EndOf(b) \in DOMAIN block
  /\ \A b, c \in DOMAIN block : b < c => EndOf(b) <= c

Within(p, b) == b + BLOCK_HEADER_SIZE <= p /\ p + live[p] <= EndOf(b)

(* What a caller holds lies inside an allocated block that it shares with  *)
(* nobody.                                                                 *)
HeldBlocks ==
  /\ \A p \in DOMAIN live : \E b \in DOMAIN block : block[b].allocated /\ Within(p, b)
  /\ \A b \in DOMAIN block : \A p, q \in DOMAIN live :
       Within(p, b) /\ Within(q, b) => p = q

(* Every pointer kmalloc returns is a multiple of 8 (kmalloc.c:95), as all *)
(* blocks begin and end at one.                                            *)
BlocksAligned == \A b \in DOMAIN block : b % 8 = 0 /\ block[b].size % 8 = 0

(* The bytes of the allocated blocks with their headers.                   *)
UsedBytes ==
  UNION {b .. (EndOf(b) - 1) : b \in {a \in DOMAIN block : block[a].allocated}}

(* used_heap_size counts them, so neither it nor the free bytes            *)
(* kmalloc_stats reports ever wrap below zero.                             *)
UsedIsTheSum == used_heap_size = Cardinality(UsedBytes)

(* The inductive invariant. *)
Inv ==
  /\ TypeOK
  /\ Tiling
  /\ HeldBlocks
  /\ BlocksAligned
  /\ UsedIsTheSum

(* The walk sees every block: it finds the free block of lowest address    *)
(* that fits, and fails only if none does.                                 *)
FindsLowestFit ==
  \A size \in Sizes :
    find_free_block(size) =
      {b \in DOMAIN block :
         Fits(b, size) /\ \A c \in DOMAIN block : Fits(c, size) => b <= c}

(* A block in use of which no caller holds any byte: nobody can free it.   *)
Lost(b) == block[b].allocated /\ \A p \in DOMAIN live : ~Within(p, b)

(* A block is lost in one way only: a caller gives up a pointer into its   *)
(* middle, as kmalloc_aligned returns them, and kfree does not find the    *)
(* header.  Every other block goes back with its kfree.                    *)
LostOnlyIfAligned ==
  [][\A b \in DOMAIN block :
       Lost(b)' => \/ Lost(b)
                   \/ \E p \in DOMAIN live : Within(p, b) /\ p # b + BLOCK_HEADER_SIZE]_vars

(* A header stays a header, and that of an allocated block stays as it is  *)
(* until it is freed: blocks are cut only while they are free, and never   *)
(* merged.  The test of the magic number in kfree rests on it.             *)
HeadersPersist ==
  [][\A b \in DOMAIN block :
       /\ b \in DOMAIN block'
       /\ block[b].allocated /\ block'[b].allocated => block'[b] = block[b]]_vars

Promise == INSTANCE Arena WITH LO <- HEAP_START, HI <- HEAP_END

(* Callers hold disjoint memory of the size they asked for, inside the     *)
(* heap, aligned or not.                                                   *)
ImplementsArena == Promise!Spec

----------------------------------------------------------------------------
(* What comments say of the heap and what it does not do.                  *)

(* mm.h:59, "Free previously allocated kernel heap memory": kfree of a     *)
(* pointer that was allocated gives its memory back.                       *)
KfreeReclaims ==
  [][\A p \in DOMAIN live : p \notin DOMAIN live' => used_heap_size' < used_heap_size]_vars

=============================================================================
