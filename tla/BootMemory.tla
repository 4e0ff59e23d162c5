----------------------------- MODULE BootMemory -----------------------------
(***************************************************************************)
(* How kernel_main sets memory up, on top of the page allocator: the pages *)
(* of the page tables, the test of four pages, and the heap.               *)
(*                                                                         *)
(* The heap is given to kmalloc_init as one range that begins at the first *)
(* page of a loop of pmm_alloc_page calls.  That the pages of the other    *)
(* turns lie right behind it is nowhere checked: it follows from the order *)
(* in which pages were taken and given back before.                        *)
(*                                                                         *)
(* Nothing else allocates pages before the heap is there: the handlers of  *)
(* the interrupts that are enabled by then do not.  Afterwards anybody may *)
(* allocate and free, but the heap and the page tables are never freed.    *)
(***************************************************************************)
EXTENDS Pmm, Sequences

CONSTANTS
  MAX_TABLES,           \* page tables mmu_init may need
  MAX_HEAP              \* bound of HEAP_SIZE_PAGES

ASSUME BootAssumption == MAX_TABLES \in Nat /\ MAX_HEAP \in Nat \ {0}

VARIABLES
  TABLE_PAGES,          \* the page tables this kernel's mappings need
  HEAP_SIZE_PAGES,      \* the pages of its heap
  step,                 \* where kernel_main is
  page_tables,          \* the pages mmu_init got so far
  page1, page2, page3, page4,
  heap_pages,           \* the pages the loop got so far
  heap                  \* the addresses kmalloc_init was given

test_pages == <<page1, page2, page3, page4>>
bootVars == <<TABLE_PAGES, HEAP_SIZE_PAGES, step, page_tables, test_pages, heap_pages, heap>>
allVars == <<vars, bootVars>>

Pointers == {AddressOf(i) : i \in Pages} \cup {NULL}

BytesOf(p) == p .. (p + PAGE_SIZE - 1)

(* A call of pmm_alloc_page that returns p. *)
Returns(p) ==
  \/ pmm_alloc_page /\ p \in held' \ held
  \/ pmm_alloc_fails /\ p = NULL

InitPmm ==
  /\ step = "pmm" /\ pmm_init
  /\ step' = "mmu"
  /\ UNCHANGED <<TABLE_PAGES, HEAP_SIZE_PAGES, page_tables, test_pages, heap_pages, heap>>

(* mmu_init takes one page after the other, and hangs without one. *)
TablePage ==
  /\ step = "mmu" /\ Cardinality(page_tables) < TABLE_PAGES
  /\ \E p \in Pointers :
       /\ Returns(p)
       /\ IF p = NULL
          THEN step' = "hung" /\ UNCHANGED page_tables
          ELSE page_tables' = page_tables \cup {p} /\ UNCHANGED step
  /\ UNCHANGED <<TABLE_PAGES, HEAP_SIZE_PAGES, test_pages, heap_pages, heap>>

TablesDone ==
  /\ step = "mmu" /\ Cardinality(page_tables) = TABLE_PAGES
  /\ step' = "page1"
  /\ UNCHANGED <<vars, TABLE_PAGES, HEAP_SIZE_PAGES, page_tables, test_pages, heap_pages, heap>>

(* The test takes three pages, frees the second and takes a fourth. *)
TestPages ==
  /\ \E p \in Pointers :
       \/ /\ step = "page1" /\ step' = "page2"
          /\ Returns(p) /\ page1' = p
          /\ UNCHANGED <<page2, page3, page4>>
       \/ /\ step = "page2" /\ step' = "page3"
          /\ Returns(p) /\ page2' = p
          /\ UNCHANGED <<page1, page3, page4>>
       \/ /\ step = "page3" /\ step' = "free2"
          /\ Returns(p) /\ page3' = p
          /\ UNCHANGED <<page1, page2, page4>>
       \/ /\ step = "page4" /\ step' = "heap"
          /\ Returns(p) /\ page4' = p
          /\ UNCHANGED <<page1, page2, page3>>
  /\ UNCHANGED <<TABLE_PAGES, HEAP_SIZE_PAGES, page_tables, heap_pages, heap>>

FreePage2 ==
  /\ step = "free2" /\ step' = "page4"
  /\ IF page2 = NULL THEN UNCHANGED vars ELSE pmm_free_page(page2)
  /\ UNCHANGED <<TABLE_PAGES, HEAP_SIZE_PAGES, page_tables, test_pages, heap_pages, heap>>

(* The loop over the heap's pages hangs without one. *)
HeapPage ==
  /\ step = "heap" /\ Len(heap_pages) < HEAP_SIZE_PAGES
  /\ \E p \in Pointers :
       /\ Returns(p)
       /\ IF p = NULL
          THEN step' = "hung" /\ UNCHANGED heap_pages
          ELSE heap_pages' = Append(heap_pages, p) /\ UNCHANGED step
  /\ UNCHANGED <<TABLE_PAGES, HEAP_SIZE_PAGES, page_tables, test_pages, heap>>

(* Fault: the heap begins at the last page. *)
HeapFromLast ==
  /\ step = "heap" /\ Len(heap_pages) = HEAP_SIZE_PAGES
  /\ heap' = heap_pages[Len(heap_pages)] ..
               (heap_pages[Len(heap_pages)] + HEAP_SIZE_PAGES * PAGE_SIZE - 1)
  /\ step' = "done"
  /\ UNCHANGED <<vars, TABLE_PAGES, HEAP_SIZE_PAGES, page_tables, test_pages, heap_pages>>

(* kmalloc_init gets the range from the first page on. *)
InitHeap ==
  /\ step = "heap" /\ Len(heap_pages) = HEAP_SIZE_PAGES
  /\ heap' = heap_pages[1] .. (heap_pages[1] + HEAP_SIZE_PAGES * PAGE_SIZE - 1)
  /\ step' = "done"
  /\ UNCHANGED <<vars, TABLE_PAGES, HEAP_SIZE_PAGES, page_tables, test_pages, heap_pages>>

BootInit ==
  /\ Init
  /\ TABLE_PAGES \in 1 .. MAX_TABLES /\ HEAP_SIZE_PAGES \in 1 .. MAX_HEAP
  /\ step = "pmm"
  /\ page_tables = {}
  /\ page1 = NULL /\ page2 = NULL /\ page3 = NULL /\ page4 = NULL
  /\ heap_pages = <<>> /\ heap = {}

(* The calls of a kernel that has booted: any pointer may be freed but one *)
(* into the bitmap, the heap or a page table, which nobody has.            *)
BootedCall ==
  /\ step = "done"
  /\ \/ pmm_alloc_page
     \/ pmm_alloc_fails
     \/ \E page \in Address :
          /\ ~InBitmap(page)
          /\ page \notin heap \cup UNION {BytesOf(p) : p \in page_tables}
          /\ pmm_free_page(page)
  /\ UNCHANGED bootVars

BootNext ==
  \/ InitPmm \/ TablePage \/ TablesDone \/ TestPages \/ FreePage2 \/ HeapPage \/ InitHeap
  \/ BootedCall

BootSpec == BootInit /\ [][BootNext]_allVars

----------------------------------------------------------------------------
(* Properties. *)

(* All of the heap is memory the loop got and still holds, and none of it  *)
(* belongs to a page table, to a page of the test or to whoever allocated  *)
(* a page later: the loop of kernel_main.c:72-82 relies on it.             *)
HeapOwned ==
  LET heapPages == {heap_pages[k] : k \in DOMAIN heap_pages}
  IN  /\ heap \subseteq UNION {BytesOf(p) : p \in heapPages}
      /\ heapPages \subseteq held
      /\ \A p \in held \ heapPages : heap \cap BytesOf(p) = {}

(* What kernel_main says of its test, "(should reuse freed page)": the     *)
(* fourth page is the second one, wherever in the test the pages run out.  *)
(* Without that a hole would lie in front of the heap's pages, and one of  *)
(* them would lie in it (kernel_main.c:66-68).                             *)
ReusesFreedPage == step \in {"heap", "done"} => page4 = page2
=============================================================================
