-------------------------------- MODULE Pmm --------------------------------
(***************************************************************************)
(* The physical page allocator, kernel/mm/pmm.c: a bitmap, one bit a page, *)
(* kept in the first pages of the memory it manages, and a counter of free *)
(* pages.  kernel_main calls it before there are tasks, one call at a      *)
(* time.                                                                   *)
(*                                                                         *)
(* The sizes 4096, 8 (bits in a byte) and 8 (bytes in a uint64_t) are      *)
(* constants, so that a small memory can need several bitmap pages.        *)
(***************************************************************************)
EXTENDS Integers, FiniteSets

CONSTANTS
  PAGE_SIZE,
  BITS,                 \* bits in a byte
  WORD,                 \* bytes in a word of the bitmap
  MEM_START, MEM_END,   \* the arguments of pmm_init
  Address               \* the pointers callers may pass to pmm_free_page

NULL == 0

ASSUME SizeAssumption ==
  /\ PAGE_SIZE \in Nat \ {0} /\ BITS \in Nat \ {0} /\ WORD \in Nat \ {0}
  /\ WORD <= PAGE_SIZE
  /\ Address \subseteq Nat

AlignUp(x, n) == ((x + n - 1) \div n) * n
AlignDown(x, n) == (x \div n) * n

mem_start == AlignUp(MEM_START, PAGE_SIZE)
mem_end == AlignDown(MEM_END, PAGE_SIZE)
total_pages == (mem_end - mem_start) \div PAGE_SIZE
(* Fault: the bits of the last, incomplete byte are forgotten.              *)
BitmapSizeFloor == AlignUp(total_pages \div BITS, WORD)

bitmap_size == AlignUp((total_pages + BITS - 1) \div BITS, WORD)
bitmap_pages == (bitmap_size + PAGE_SIZE - 1) \div PAGE_SIZE

(* The memory starts above address 0 and the rounded range is not empty,   *)
(* so the subtraction does not wrap.                                       *)
ASSUME RegionAssumption ==
  MEM_START \in Nat \ {0} /\ MEM_END \in Nat /\ mem_start < mem_end

VARIABLES
  pmm_mem_start, pmm_mem_end, pmm_total_pages, pmm_free_pages,
  pmm_bitmap,           \* the pages whose bit is set
  held                  \* the addresses callers got and have not freed

vars == <<pmm_mem_start, pmm_mem_end, pmm_total_pages, pmm_free_pages, pmm_bitmap, held>>

Pages == 0 .. (pmm_total_pages - 1)
AddressOf(i) == pmm_mem_start + i * PAGE_SIZE

----------------------------------------------------------------------------
(* Fault: the bitmap's own pages are left free.                            *)
InitWithoutReserve ==
  /\ pmm_mem_end = 0
  /\ pmm_mem_start' = mem_start
  /\ pmm_mem_end' = mem_end
  /\ pmm_total_pages' = total_pages
  /\ pmm_bitmap' = {}
  /\ pmm_free_pages' = total_pages
  /\ UNCHANGED held

pmm_init ==
  /\ pmm_mem_end = 0
  /\ pmm_mem_start' = mem_start
  /\ pmm_mem_end' = mem_end
  /\ pmm_total_pages' = total_pages
  /\ pmm_bitmap' = 0 .. (bitmap_pages - 1)
  /\ pmm_free_pages' = total_pages - bitmap_pages
  /\ UNCHANGED held

(* Fault: the search does not start over at the first page.                *)
AnyClear == Pages \ pmm_bitmap

(* The page the search finds: the first whose bit is clear.                *)
FirstClear ==
  {i \in Pages \ pmm_bitmap : \A j \in Pages : j < i => j \in pmm_bitmap}

(* Fault: the bit is not set.                                              *)
AllocUnmarked ==
  /\ pmm_free_pages # 0
  /\ \E i \in FirstClear : held' = held \cup {AddressOf(i)}
  /\ pmm_free_pages' = pmm_free_pages - 1
  /\ UNCHANGED <<pmm_mem_start, pmm_mem_end, pmm_total_pages, pmm_bitmap>>

pmm_alloc_page ==
  /\ pmm_free_pages # 0
  /\ \E i \in FirstClear :
       /\ pmm_bitmap' = pmm_bitmap \cup {i}
       /\ held' = held \cup {AddressOf(i)}
  /\ pmm_free_pages' = pmm_free_pages - 1
  /\ UNCHANGED <<pmm_mem_start, pmm_mem_end, pmm_total_pages>>

(* The call returns NULL: the counter says there is no page, or the search *)
(* comes to its end.                                                       *)
pmm_alloc_fails ==
  /\ pmm_free_pages = 0 \/ FirstClear = {}
  /\ UNCHANGED vars

(* A pointer into a page that is marked as allocated frees that page.      *)
(* Every other pointer is ignored.                                         *)
pmm_free_page(page) ==
  LET i == (page - pmm_mem_start) \div PAGE_SIZE IN
  /\ page # NULL
  /\ page >= pmm_mem_start /\ page < pmm_mem_end
  /\ i \in pmm_bitmap
  /\ pmm_bitmap' = pmm_bitmap \ {i}
  /\ pmm_free_pages' = pmm_free_pages + 1
  /\ held' = held \ {AddressOf(i)}
  /\ UNCHANGED <<pmm_mem_start, pmm_mem_end, pmm_total_pages>>

(* Nothing keeps a caller from freeing the bitmap itself but that nobody   *)
(* ever gave it the address.                                               *)
InBitmap(page) == page >= mem_start /\ page < mem_start + bitmap_pages * PAGE_SIZE

Init ==
  /\ pmm_mem_start = 0 /\ pmm_mem_end = 0
  /\ pmm_total_pages = 0 /\ pmm_free_pages = 0
  /\ pmm_bitmap = {}
  /\ held = {}

Next ==
  \/ pmm_init
  \/ pmm_alloc_page
  \/ pmm_alloc_fails
  \/ \E page \in Address : ~InBitmap(page) /\ pmm_free_page(page)

Spec == Init /\ [][Next]_vars

----------------------------------------------------------------------------
(* Properties. *)

Initialised == pmm_mem_end # 0

TypeOK ==
  /\ pmm_mem_start \in Nat /\ pmm_mem_end \in Nat
  /\ pmm_total_pages \in Nat /\ pmm_free_pages \in Nat
  /\ pmm_bitmap \subseteq Pages
  /\ held \subseteq Nat

(* The counter is the number of clear bits (pmm.c:82, "Should never reach  *)
(* here if pmm_free_pages was accurate"), through failed calls, frees of   *)
(* free pages and pointers into the middle of a page.                      *)
FreeCountAccurate == pmm_free_pages = Cardinality(Pages \ pmm_bitmap)

(* Every set bit is the bitmap's own page or a page exactly one caller     *)
(* holds: nothing leaks and the bitmap is never handed out.                *)
BitsAccountedFor ==
  Initialised =>
    /\ pmm_bitmap = (0 .. (bitmap_pages - 1)) \cup {i \in Pages : AddressOf(i) \in held}
    /\ \A i \in 0 .. (bitmap_pages - 1) : AddressOf(i) \notin held
    /\ \A a \in held : \E i \in Pages : a = AddressOf(i)

(* What pmm_init sets up is never changed.                                 *)
Setup ==
  IF Initialised
  THEN pmm_mem_start = mem_start /\ pmm_mem_end = mem_end /\ pmm_total_pages = total_pages
  ELSE /\ pmm_mem_start = 0 /\ pmm_total_pages = 0 /\ pmm_free_pages = 0
       /\ pmm_bitmap = {} /\ held = {}

(* The inductive invariant: the bitmap, the counter and the callers'       *)
(* pages, with the layout they refer to.                                   *)
Inv ==
  /\ TypeOK
  /\ Setup
  /\ FreeCountAccurate
  /\ BitsAccountedFor

(* The word of every managed page lies inside the memory pmm_init zeroed,  *)
(* and that memory inside the pages it marked.                             *)
BitmapCoversPages ==
  Initialised =>
    \A i \in Pages : LET word == i \div (BITS * WORD) IN
      /\ (word + 1) * WORD <= bitmap_size
      /\ (((word + 1) * WORD - 1) \div PAGE_SIZE) \in pmm_bitmap

(* Callers get pages behind the bitmap, and a caller's page stays its own  *)
(* until somebody passes a pointer into it to pmm_free_page.  That no call *)
(* hands out a held page, which the set held does not show, is Inv: held   *)
(* pages are marked, and each call takes one off the count of the others.  *)
Promise == INSTANCE Arena WITH
  LO <- mem_start + bitmap_pages * PAGE_SIZE,
  HI <- mem_end,
  live <- [a \in held |-> PAGE_SIZE]

ImplementsArena == Promise!Spec
=============================================================================
