-------------------------- MODULE BootMemoryProofs --------------------------
(***************************************************************************)
(* Theorems about Pmm, for every memory, page size and word size: the      *)
(* counter of free pages is exact, every set bit is accounted for, the     *)
(* bitmap has a bit for every page and never gives itself away, and the    *)
(* allocator implements Arena.                                             *)
(*                                                                         *)
(* Then about BootMemory, for every number of page tables and heap pages:  *)
(* that invariant holds through the boot and after it, and the heap is the *)
(* caller's own.  The argument is the order of the calls: until the heap   *)
(* is there, the marked pages are the first ones of the region, without a  *)
(* gap but for the page the test frees and gets back.                      *)
(***************************************************************************)
EXTENDS BootMemory, FiniteSetTheorems, TLAPS

----------------------------------------------------------------------------
(* Division and multiplication of naturals. *)

LEMMA DivBounds ==
  ASSUME NEW a \in Nat, NEW n \in Nat \ {0}
  PROVE  /\ a \div n \in Nat
         /\ n * (a \div n) <= a
         /\ a < n * (a \div n) + n
OBVIOUS

LEMMA MulMono ==
  ASSUME NEW a \in Nat, NEW b \in Nat, NEW n \in Nat, a <= b
  PROVE  a * n <= b * n
OBVIOUS

LEMMA MulStrict ==
  ASSUME NEW a \in Nat, NEW b \in Nat, NEW n \in Nat \ {0}, a * n < b * n
  PROVE  a < b
<1> SUFFICES ASSUME b <= a PROVE FALSE
  OBVIOUS
<1>1. b * n <= a * n
  BY MulMono
<1>2. a * n \in Nat /\ b * n \in Nat
  OBVIOUS
<1> QED BY <1>1, <1>2

LEMMA DivUnique ==
  ASSUME NEW a \in Nat, NEW n \in Nat \ {0}, NEW q \in Nat, n * q <= a, a < n * q + n
  PROVE  a \div n = q
<1> DEFINE d == a \div n
<1>1. d \in Nat /\ n * d <= a /\ a < n * d + n
  BY DivBounds
<1> HIDE DEF d
<1>2. /\ q * n < (d + 1) * n
      /\ d * n < (q + 1) * n
  BY <1>1
<1>3. q < d + 1
  BY <1>1, <1>2, MulStrict
<1>4. d < q + 1
  BY <1>1, <1>2, MulStrict
<1>5. d = q
  BY <1>1, <1>3, <1>4
<1> QED BY <1>5 DEF d

----------------------------------------------------------------------------
(* The layout pmm_init computes. *)

LEMMA Layout ==
  /\ mem_start \in Nat \ {0} /\ mem_end \in Nat
  /\ total_pages \in Nat \ {0}
  /\ mem_end = mem_start + total_pages * PAGE_SIZE
<1> DEFINE qs == (MEM_START + PAGE_SIZE - 1) \div PAGE_SIZE
           qe == MEM_END \div PAGE_SIZE
<1>1. /\ PAGE_SIZE \in Nat \ {0} /\ MEM_START \in Nat \ {0} /\ MEM_END \in Nat
      /\ MEM_START + PAGE_SIZE - 1 \in Nat
  BY SizeAssumption, RegionAssumption
<1>2. qs \in Nat /\ MEM_START + PAGE_SIZE - 1 < PAGE_SIZE * qs + PAGE_SIZE
  BY <1>1, DivBounds
<1>3. qe \in Nat
  BY <1>1, DivBounds
<1>4. mem_start = qs * PAGE_SIZE /\ mem_end = qe * PAGE_SIZE
  BY DEF mem_start, mem_end, AlignUp, AlignDown
<1> HIDE DEF qs, qe
<1>5. mem_start \in Nat \ {0} /\ mem_end \in Nat
  BY <1>1, <1>2, <1>3, <1>4
<1>6. qs < qe
  BY <1>1, <1>2, <1>3, <1>4, RegionAssumption, MulStrict
<1>7. /\ qe - qs \in Nat \ {0}
      /\ mem_end - mem_start = PAGE_SIZE * (qe - qs)
  BY <1>1, <1>2, <1>3, <1>4, <1>6
<1>8. total_pages = qe - qs
  <2>1. mem_end - mem_start \in Nat
    BY <1>1, <1>7
  <2>2. mem_end - mem_start < PAGE_SIZE * (qe - qs) + PAGE_SIZE
    BY <1>1, <1>7, <2>1
  <2>3. PAGE_SIZE * (qe - qs) <= mem_end - mem_start
    BY <1>7, <2>1
  <2> QED BY <1>1, <1>7, <2>1, <2>2, <2>3, DivUnique DEF total_pages
<1> QED BY <1>1, <1>5, <1>7, <1>8

(* The bitmap fits into the memory it describes, and into its pages.       *)
LEMMA BitmapSize ==
  /\ bitmap_size \in Nat
  /\ bitmap_pages \in Nat /\ bitmap_pages <= total_pages
  /\ bitmap_size <= bitmap_pages * PAGE_SIZE
<1> DEFINE T == total_pages
           c == (T + BITS - 1) \div BITS
           m == (c + WORD - 1) \div WORD
           b == bitmap_pages
           P == PAGE_SIZE
<1>1. /\ T \in Nat \ {0} /\ BITS \in Nat \ {0} /\ WORD \in Nat \ {0} /\ P \in Nat \ {0}
      /\ WORD <= P
  BY SizeAssumption, Layout
<1> HIDE DEF T, P
<1>2. c \in Nat /\ BITS * c <= T + BITS - 1
  BY <1>1, DivBounds
<1> HIDE DEF c
<1>3. m \in Nat /\ WORD * m <= c + WORD - 1
  <2>1. c + WORD - 1 \in Nat
    BY <1>1, <1>2
  <2> QED BY <1>1, <2>1, DivBounds
<1>4. bitmap_size = m * WORD
  BY DEF bitmap_size, AlignUp, c, T
<1> HIDE DEF m
<1>5. bitmap_size \in Nat
  BY <1>1, <1>3, <1>4
<1>6. b \in Nat /\ P * b <= bitmap_size + P - 1 /\ bitmap_size + P - 1 < P * b + P
  <2>1. bitmap_size + P - 1 \in Nat
    BY <1>1, <1>5
  <2> QED BY <1>1, <2>1, DivBounds DEF bitmap_pages, P
<1> HIDE DEF b
<1>7. bitmap_size <= b * P
  BY <1>1, <1>5, <1>6
<1>8. c <= T
  <2> SUFFICES ASSUME T + 1 <= c PROVE FALSE
    BY <1>1, <1>2
  <2>1. (T + 1) * BITS <= c * BITS
    BY <1>1, <1>2, MulMono
  <2>2. 1 * T <= BITS * T
    BY <1>1, MulMono
  <2> QED BY <1>1, <1>2, <2>1, <2>2
<1>9. P * b <= T + P - 1 + P - 1
  BY <1>1, <1>2, <1>3, <1>4, <1>6, <1>8
<1>10. b <= T
  <2> SUFFICES ASSUME T + 1 <= b PROVE FALSE
    BY <1>1, <1>6
  <2>1. (T + 1) * P <= b * P
    BY <1>1, <1>6, MulMono
  <2>2. (T - 1) * 1 <= (T - 1) * P
    BY <1>1, MulMono
  <2> QED BY <1>1, <1>6, <1>9, <2>1, <2>2
<1> QED BY <1>5, <1>6, <1>7, <1>10 DEF b, T, P

(* Every page has its bit in the zeroed words, and the words lie in the    *)
(* marked pages.                                                           *)
LEMMA EveryPageHasABit ==
  ASSUME NEW i \in 0 .. (total_pages - 1)
  PROVE  LET word == i \div (BITS * WORD) IN
           /\ (word + 1) * WORD <= bitmap_size
           /\ ((word + 1) * WORD - 1) \div PAGE_SIZE \in 0 .. (bitmap_pages - 1)
<1> DEFINE T == total_pages
           c == (T + BITS - 1) \div BITS
           m == (c + WORD - 1) \div WORD
           w == i \div (BITS * WORD)
<1>1. /\ T \in Nat \ {0} /\ BITS \in Nat \ {0} /\ WORD \in Nat \ {0} /\ PAGE_SIZE \in Nat \ {0}
      /\ i \in Nat /\ i < T
  BY SizeAssumption, Layout
<1>2. c \in Nat /\ T + BITS - 1 < BITS * c + BITS
  <2>1. T + BITS - 1 \in Nat
    BY <1>1
  <2> HIDE DEF T
  <2> QED BY <1>1, <2>1, DivBounds
<1>3. bitmap_size = m * WORD
  BY DEF bitmap_size, AlignUp
<1> HIDE DEF T, c
<1>4. m \in Nat /\ c + WORD - 1 < WORD * m + WORD
  <2>1. c + WORD - 1 \in Nat
    BY <1>1, <1>2
  <2> QED BY <1>1, <2>1, DivBounds
<1> HIDE DEF m
<1>5. BITS * WORD \in Nat \ {0}
  BY <1>1
<1>6. w \in Nat /\ (BITS * WORD) * w <= i
  BY <1>1, <1>5, DivBounds
<1> HIDE DEF w
<1>7. T <= BITS * c /\ c <= WORD * m
  BY <1>1, <1>2, <1>4
<1>8. c * BITS <= (WORD * m) * BITS
  BY <1>1, <1>2, <1>4, <1>7, MulMono
<1>9. w * (BITS * WORD) < m * (BITS * WORD)
  BY <1>1, <1>2, <1>4, <1>6, <1>7, <1>8
<1>10. w < m
  BY <1>4, <1>5, <1>6, <1>9, MulStrict
<1>11. (w + 1) * WORD <= bitmap_size
  <2>1. w + 1 <= m /\ w + 1 \in Nat
    BY <1>4, <1>6, <1>10
  <2> QED BY <1>1, <1>3, <1>4, <2>1, MulMono
<1>12. ((w + 1) * WORD - 1) \div PAGE_SIZE \in 0 .. (bitmap_pages - 1)
  <2> DEFINE x == (w + 1) * WORD - 1
             d == x \div PAGE_SIZE
  <2>1. x \in Nat /\ x < bitmap_size
    BY <1>1, <1>3, <1>4, <1>6, <1>11
  <2> HIDE DEF x
  <2>2. d \in Nat /\ PAGE_SIZE * d <= x
    BY <1>1, <2>1, DivBounds
  <2> HIDE DEF d
  <2>3. d * PAGE_SIZE < bitmap_pages * PAGE_SIZE
    BY <1>1, <2>1, <2>2, BitmapSize
  <2>4. d < bitmap_pages
    BY <1>1, <2>2, <2>3, BitmapSize, MulStrict
  <2>5. d \in 0 .. (bitmap_pages - 1)
    BY <2>2, <2>4, BitmapSize
  <2> QED BY <2>5 DEF d, x
<1> QED BY <1>11, <1>12 DEF w

----------------------------------------------------------------------------
(* The invariant. *)

LEMMA AddressInjective ==
  ASSUME pmm_mem_start \in Nat, NEW i \in Nat, NEW j \in Nat, AddressOf(i) = AddressOf(j)
  PROVE  i = j
<1>1. PAGE_SIZE \in Nat \ {0}
  BY SizeAssumption
<1>2. i * PAGE_SIZE = j * PAGE_SIZE
  BY <1>1 DEF AddressOf
<1>3. ~(i < j) /\ ~(j < i)
  <2>1. (i + 1) * PAGE_SIZE <= j * PAGE_SIZE \/ j < i + 1
    BY <1>1, MulMono
  <2>2. (j + 1) * PAGE_SIZE <= i * PAGE_SIZE \/ i < j + 1
    BY <1>1, MulMono
  <2> QED BY <1>1, <1>2, <2>1, <2>2
<1> QED BY <1>3

LEMMA PagesFinite ==
  ASSUME TypeOK
  PROVE  IsFiniteSet(Pages) /\ IsFiniteSet(Pages \ pmm_bitmap)
<1>1. 0 \in Int /\ pmm_total_pages - 1 \in Int
  BY DEF TypeOK
<1>2. IsFiniteSet(Pages)
  BY <1>1, FS_Interval DEF Pages
<1> QED BY <1>2, FS_Subset

LEMMA InitInv == Init => Inv
<1> SUFFICES ASSUME Init PROVE Inv
  OBVIOUS
<1>1. Pages = {}
  BY DEF Init, Pages
<1>2. TypeOK
  BY DEF Init, TypeOK
<1>3. Pages \ pmm_bitmap = {}
  BY <1>1
<1>4. FreeCountAccurate
  BY <1>3, FS_EmptySet DEF Init, FreeCountAccurate
<1> QED BY <1>2, <1>4 DEF Init, Inv, Setup, Initialised, BitsAccountedFor

LEMMA InitStep == ASSUME Inv, pmm_init PROVE Inv'
<1>1. /\ pmm_mem_start' = mem_start /\ pmm_mem_end' = mem_end
      /\ pmm_total_pages' = total_pages /\ pmm_bitmap' = 0 .. (bitmap_pages - 1)
      /\ pmm_free_pages' = total_pages - bitmap_pages
      /\ held' = {}
  BY DEF pmm_init, Inv, Setup, Initialised
<1>2. /\ mem_start \in Nat \ {0} /\ mem_end \in Nat \ {0}
      /\ total_pages \in Nat \ {0} /\ bitmap_pages \in Nat /\ bitmap_pages <= total_pages
  <2>1. mem_end \in Nat \ {0}
    BY Layout, RegionAssumption
  <2> QED BY <2>1, Layout, BitmapSize
<1>3. TypeOK'
  BY <1>1, <1>2 DEF TypeOK, Pages
<1>4. Setup'
  BY <1>1, <1>2 DEF Setup, Initialised
<1>5. FreeCountAccurate'
  <2>1. (Pages \ pmm_bitmap)' = bitmap_pages .. (total_pages - 1)
    BY <1>1, <1>2 DEF Pages
  <2>2. bitmap_pages \in Int /\ total_pages - 1 \in Int
    BY <1>2
  <2>3. Cardinality(bitmap_pages .. (total_pages - 1)) = total_pages - bitmap_pages
    <3> DEFINE b == bitmap_pages
               e == total_pages - 1
    <3>1. b \in Int /\ e \in Int
      BY <2>2
    <3>2. Cardinality(b .. e) = IF b > e THEN 0 ELSE e - b + 1
      <4> HIDE DEF b, e
      <4> QED BY <3>1, FS_Interval
    <3> QED BY <1>2, <3>2
  <2> QED BY <1>1, <2>1, <2>3 DEF FreeCountAccurate
<1>6. BitsAccountedFor'
  BY <1>1 DEF BitsAccountedFor, Pages
<1> QED BY <1>3, <1>4, <1>5, <1>6 DEF Inv

(* A page handed out was nobody's: its bit was clear.                      *)
LEMMA AllocStep == ASSUME Inv, pmm_alloc_page PROVE Inv'
<1>1. PICK i \in FirstClear :
        pmm_bitmap' = pmm_bitmap \cup {i} /\ held' = held \cup {AddressOf(i)}
  BY DEF pmm_alloc_page
<1>2. /\ pmm_free_pages # 0 /\ pmm_free_pages' = pmm_free_pages - 1
      /\ UNCHANGED <<pmm_mem_start, pmm_mem_end, pmm_total_pages>>
  BY DEF pmm_alloc_page
<1>3. i \in Pages /\ i \notin pmm_bitmap /\ Pages' = Pages /\ Pages \subseteq Nat
  BY <1>2 DEF FirstClear, Pages, Inv, TypeOK
<1>4. Initialised /\ Initialised'
  BY <1>2 DEF Initialised, Inv, Setup
<1>5. pmm_mem_start \in Nat /\ PAGE_SIZE \in Nat /\ AddressOf(i) \in Nat
  BY <1>3, SizeAssumption DEF AddressOf, Inv, TypeOK
<1>6. TypeOK'
  <2>1. pmm_bitmap' \subseteq Pages' /\ held' \subseteq Nat
    BY <1>1, <1>3, <1>5 DEF Inv, TypeOK
  <2>2. pmm_free_pages' \in Nat
    BY <1>2 DEF Inv, TypeOK
  <2> QED BY <1>2, <2>1, <2>2 DEF Inv, TypeOK
<1>7. Setup'
  BY <1>2, <1>4 DEF Inv, Setup, Initialised
<1>8. FreeCountAccurate'
  <2>1. (Pages \ pmm_bitmap)' = (Pages \ pmm_bitmap) \ {i}
    BY <1>1, <1>3
  <2>2. /\ IsFiniteSet(Pages \ pmm_bitmap) /\ i \in Pages \ pmm_bitmap
    BY <1>3, PagesFinite DEF Inv
  <2>3. Cardinality((Pages \ pmm_bitmap) \ {i}) = Cardinality(Pages \ pmm_bitmap) - 1
    <3> DEFINE S == Pages \ pmm_bitmap
    <3>1. IsFiniteSet(S) /\ i \in S
      BY <2>2
    <3>2. Cardinality(S \ {i}) = Cardinality(S) - 1
      <4> HIDE DEF S
      <4> QED BY <3>1, FS_RemoveElement
    <3> QED BY <3>2
  <2> QED BY <1>2, <2>1, <2>3 DEF Inv, FreeCountAccurate
<1>9. BitsAccountedFor'
  <2>1. \A j \in Pages : AddressOf(j)' = AddressOf(j)
    BY <1>2 DEF AddressOf
  <2>2. \A j \in Pages : AddressOf(j) = AddressOf(i) <=> j = i
    BY <1>3, <1>5, AddressInjective
  <2>3. /\ pmm_bitmap = (0 .. (bitmap_pages - 1)) \cup {j \in Pages : AddressOf(j) \in held}
        /\ \A j \in 0 .. (bitmap_pages - 1) : AddressOf(j) \notin held
        /\ \A a \in held : \E j \in Pages : a = AddressOf(j)
    BY <1>4 DEF Inv, BitsAccountedFor
  <2>4. 0 .. (bitmap_pages - 1) \subseteq Pages /\ i \notin 0 .. (bitmap_pages - 1)
    BY <1>3, <2>3 DEF Inv, TypeOK
  <2>5. pmm_bitmap' = (0 .. (bitmap_pages - 1)) \cup {j \in Pages : AddressOf(j) \in held'}
    BY <1>1, <1>3, <2>2, <2>3
  <2>6. \A j \in 0 .. (bitmap_pages - 1) : AddressOf(j) \notin held'
    BY <1>1, <2>2, <2>3, <2>4
  <2>7. \A a \in held' : \E j \in Pages : a = AddressOf(j)
    BY <1>1, <1>3, <2>3
  <2>8. /\ pmm_bitmap' = (0 .. (bitmap_pages - 1))
                         \cup {j \in Pages' : AddressOf(j)' \in held'}
        /\ \A j \in 0 .. (bitmap_pages - 1) : AddressOf(j)' \notin held'
        /\ \A a \in held' : \E j \in Pages' : a = AddressOf(j)'
    BY <1>3, <2>1, <2>4, <2>5, <2>6, <2>7
  <2> QED BY <2>8 DEF BitsAccountedFor
<1> QED BY <1>6, <1>7, <1>8, <1>9 DEF Inv

(* A freed page was some caller's: its bit was set, and the pointer is not *)
(* one into the bitmap.                                                    *)
LEMMA FreeStep ==
  ASSUME Inv, NEW page \in Nat, ~InBitmap(page), pmm_free_page(page)
  PROVE  Inv'
<1> DEFINE i == (page - pmm_mem_start) \div PAGE_SIZE
<1>1. /\ page >= pmm_mem_start /\ page < pmm_mem_end /\ i \in pmm_bitmap
      /\ pmm_bitmap' = pmm_bitmap \ {i} /\ held' = held \ {AddressOf(i)}
      /\ pmm_free_pages' = pmm_free_pages + 1
      /\ UNCHANGED <<pmm_mem_start, pmm_mem_end, pmm_total_pages>>
  BY DEF pmm_free_page
<1>2. Initialised /\ Initialised' /\ pmm_mem_start = mem_start
  BY <1>1, SizeAssumption DEF Inv, Setup, Initialised
<1>3. page \in Nat /\ pmm_mem_start \in Nat /\ PAGE_SIZE \in Nat \ {0} /\ bitmap_pages \in Nat
  BY SizeAssumption, BitmapSize DEF Inv, TypeOK
<1>4. i \in Nat /\ page - pmm_mem_start < PAGE_SIZE * i + PAGE_SIZE
  <2>1. page - pmm_mem_start \in Nat
    BY <1>1, <1>3
  <2> QED BY <1>3, <2>1, DivBounds
<1> HIDE DEF i
<1>5. i \in Pages /\ Pages' = Pages /\ Pages \subseteq Nat
  BY <1>1 DEF Inv, TypeOK, Pages
<1>6. i \notin 0 .. (bitmap_pages - 1)
  <2>1. bitmap_pages * PAGE_SIZE <= page - pmm_mem_start
    BY <1>1, <1>2, <1>3 DEF InBitmap
  <2>2. bitmap_pages * PAGE_SIZE < (i + 1) * PAGE_SIZE
    BY <1>1, <1>3, <1>4, <2>1
  <2>3. bitmap_pages < i + 1
    BY <1>3, <1>4, <2>2, MulStrict
  <2> QED BY <1>3, <1>4, <2>3
<1>7. TypeOK'
  <2>1. pmm_bitmap' \subseteq Pages' /\ held' \subseteq Nat
    BY <1>1, <1>5 DEF Inv, TypeOK
  <2>2. pmm_free_pages' \in Nat
    BY <1>1 DEF Inv, TypeOK
  <2> QED BY <1>1, <2>1, <2>2 DEF Inv, TypeOK
<1>8. Setup'
  BY <1>1, <1>2 DEF Inv, Setup, Initialised
<1>9. FreeCountAccurate'
  <2> DEFINE S == Pages \ pmm_bitmap
  <2>1. (Pages \ pmm_bitmap)' = S \cup {i}
    BY <1>1, <1>5
  <2>2. IsFiniteSet(S) /\ i \notin S
    BY <1>1, PagesFinite DEF Inv
  <2>3. Cardinality(S) = pmm_free_pages
    BY DEF Inv, FreeCountAccurate
  <2> HIDE DEF S
  <2>4. Cardinality(S \cup {i}) = Cardinality(S) + 1
    BY <2>2, FS_AddElement
  <2> QED BY <1>1, <2>1, <2>3, <2>4 DEF FreeCountAccurate
<1>10. BitsAccountedFor'
  <2>1. \A j \in Pages : AddressOf(j)' = AddressOf(j)
    BY <1>1 DEF AddressOf
  <2>2. \A j \in Pages : AddressOf(j) = AddressOf(i) <=> j = i
    BY <1>3, <1>5, AddressInjective
  <2>3. /\ pmm_bitmap = (0 .. (bitmap_pages - 1)) \cup {j \in Pages : AddressOf(j) \in held}
        /\ \A j \in 0 .. (bitmap_pages - 1) : AddressOf(j) \notin held
        /\ \A a \in held : \E j \in Pages : a = AddressOf(j)
    BY <1>2 DEF Inv, BitsAccountedFor
  <2>4. 0 .. (bitmap_pages - 1) \subseteq Pages
    BY <2>3 DEF Inv, TypeOK
  <2>5. pmm_bitmap' = (0 .. (bitmap_pages - 1)) \cup {j \in Pages : AddressOf(j) \in held'}
    BY <1>1, <1>6, <2>2, <2>3, <2>4
  <2>6. \A j \in 0 .. (bitmap_pages - 1) : AddressOf(j) \notin held'
    BY <1>1, <2>3
  <2>7. \A a \in held' : \E j \in Pages : a = AddressOf(j)
    BY <1>1, <2>3
  <2>8. /\ pmm_bitmap' = (0 .. (bitmap_pages - 1))
                         \cup {j \in Pages' : AddressOf(j)' \in held'}
        /\ \A j \in 0 .. (bitmap_pages - 1) : AddressOf(j)' \notin held'
        /\ \A a \in held' : \E j \in Pages' : a = AddressOf(j)'
    BY <1>5, <2>1, <2>4, <2>5, <2>6, <2>7
  <2> QED BY <2>8 DEF BitsAccountedFor
<1> QED BY <1>7, <1>8, <1>9, <1>10 DEF Inv

LEMMA StutterStep == ASSUME Inv, UNCHANGED vars PROVE Inv'
BY DEF vars, Inv, TypeOK, Setup, Initialised, FreeCountAccurate, BitsAccountedFor, Pages,
       AddressOf

LEMMA NextInv == Inv /\ [Next]_vars => Inv'
<1> SUFFICES ASSUME Inv, [Next]_vars PROVE Inv'
  OBVIOUS
<1>1. CASE pmm_alloc_fails
  BY <1>1, StutterStep DEF pmm_alloc_fails
<1> QED BY <1>1, InitStep, AllocStep, FreeStep, StutterStep, SizeAssumption DEF Next

(* The allocator's invariant, for every sequence of calls.                 *)
THEOREM Invariance == Spec => []Inv
<1>1. Init => Inv
  BY InitInv
<1>2. Inv /\ [Next]_vars => Inv'
  BY NextInv
<1> QED BY <1>1, <1>2, PTL DEF Spec

(* The counter of free pages is exact.                                     *)
THEOREM FreeCount == Spec => []FreeCountAccurate
<1>1. Inv => FreeCountAccurate
  BY DEF Inv
<1> QED BY <1>1, Invariance, PTL

(* A set bit is the bitmap's own or that of one caller's page.             *)
THEOREM NoPageLeaks == Spec => []BitsAccountedFor
<1>1. Inv => BitsAccountedFor
  BY DEF Inv
<1> QED BY <1>1, Invariance, PTL

(* The bitmap has a bit for every page, inside the pages it reserved.      *)
THEOREM BitmapFits == Spec => []BitmapCoversPages
<1>1. Inv => BitmapCoversPages
  <2> SUFFICES ASSUME Inv, Initialised, NEW i \in Pages
               PROVE  LET word == i \div (BITS * WORD) IN
                        /\ (word + 1) * WORD <= bitmap_size
                        /\ (((word + 1) * WORD - 1) \div PAGE_SIZE) \in pmm_bitmap
    BY DEF BitmapCoversPages
  <2>1. i \in 0 .. (total_pages - 1)
    BY DEF Inv, Setup, Pages
  <2>2. 0 .. (bitmap_pages - 1) \subseteq pmm_bitmap
    BY DEF Inv, BitsAccountedFor
  <2> QED BY <2>1, <2>2, EveryPageHasABit
<1> QED BY <1>1, Invariance, PTL

----------------------------------------------------------------------------
(* The allocator implements Arena. *)

LEMMA PageDisjoint ==
  ASSUME pmm_mem_start \in Nat, NEW i \in Nat, NEW j \in Nat, i # j
  PROVE  Promise!Disjoint(AddressOf(i), PAGE_SIZE, AddressOf(j), PAGE_SIZE)
<1>1. PAGE_SIZE \in Nat \ {0}
  BY SizeAssumption
<1>2. i < j => AddressOf(i) + PAGE_SIZE <= AddressOf(j)
  <2> SUFFICES ASSUME i < j PROVE AddressOf(i) + PAGE_SIZE <= AddressOf(j)
    OBVIOUS
  <2>1. (i + 1) * PAGE_SIZE <= j * PAGE_SIZE
    BY <1>1, MulMono
  <2> QED BY <1>1, <2>1 DEF AddressOf
<1>3. j < i => AddressOf(j) + PAGE_SIZE <= AddressOf(i)
  <2> SUFFICES ASSUME j < i PROVE AddressOf(j) + PAGE_SIZE <= AddressOf(i)
    OBVIOUS
  <2>1. (j + 1) * PAGE_SIZE <= i * PAGE_SIZE
    BY <1>1, MulMono
  <2> QED BY <1>1, <2>1 DEF AddressOf
<1> QED BY <1>2, <1>3 DEF Promise!Disjoint

LEMMA AllocRefines ==
  ASSUME Inv, pmm_alloc_page
  PROVE  Promise!Next
<1> DEFINE lo == mem_start + bitmap_pages * PAGE_SIZE
<1>1. PICK i \in FirstClear : held' = held \cup {AddressOf(i)}
  BY DEF pmm_alloc_page
<1>2. Initialised /\ pmm_mem_start = mem_start /\ pmm_total_pages = total_pages
  BY DEF pmm_alloc_page, Inv, Setup, Initialised
<1>3. /\ i \in Pages /\ i \in Nat /\ i < total_pages /\ i \notin pmm_bitmap
      /\ pmm_mem_start \in Nat /\ PAGE_SIZE \in Nat \ {0}
      /\ total_pages \in Nat /\ bitmap_pages \in Nat
  BY <1>2, SizeAssumption, Layout, BitmapSize DEF FirstClear, Pages, Inv, TypeOK
<1>4. /\ 0 .. (bitmap_pages - 1) \subseteq pmm_bitmap
      /\ \A a \in held : \E j \in Pages : a = AddressOf(j) /\ j \in pmm_bitmap
  BY <1>2 DEF Inv, BitsAccountedFor
<1>5. bitmap_pages <= i
  BY <1>3, <1>4
<1> DEFINE p == AddressOf(i)
<1>6. lo <= p /\ p \in Nat
  <2>1. bitmap_pages * PAGE_SIZE <= i * PAGE_SIZE
    BY <1>3, <1>5, MulMono
  <2> QED BY <1>2, <1>3, <2>1 DEF AddressOf
<1>7. p + PAGE_SIZE <= mem_end
  <2>1. (i + 1) * PAGE_SIZE <= total_pages * PAGE_SIZE
    BY <1>3, MulMono
  <2> QED BY <1>2, <1>3, <2>1, Layout DEF AddressOf
<1>8. \A q \in held : Promise!Disjoint(p, PAGE_SIZE, q, PAGE_SIZE) /\ q # p
  <2> SUFFICES ASSUME NEW q \in held
               PROVE  Promise!Disjoint(p, PAGE_SIZE, q, PAGE_SIZE) /\ q # p
    OBVIOUS
  <2>1. PICK j \in Pages : q = AddressOf(j) /\ j \in pmm_bitmap
    BY <1>4
  <2>2. j \in Nat /\ j # i
    BY <1>3, <2>1 DEF Pages
  <2>3. Promise!Disjoint(p, PAGE_SIZE, q, PAGE_SIZE)
    BY <1>3, <2>1, <2>2, PageDisjoint
  <2>4. q # p
    BY <1>3, <2>1, <2>2, AddressInjective
  <2> QED BY <2>3, <2>4
<1> HIDE DEF p, lo
<1>9. [a \in held |-> PAGE_SIZE]' =
        [q \in DOMAIN [a \in held |-> PAGE_SIZE] \cup {p} |->
           IF q = p THEN PAGE_SIZE ELSE [a \in held |-> PAGE_SIZE][q]]
  BY <1>1 DEF p
<1>10. Promise!Alloc(p, PAGE_SIZE)
  BY <1>3, <1>6, <1>7, <1>8, <1>9 DEF Promise!Alloc, lo
<1>11. p \in held' /\ [a \in held |-> PAGE_SIZE]'[p] = PAGE_SIZE
  BY <1>1 DEF p
<1> QED BY <1>10, <1>11 DEF Promise!Next

LEMMA FreeRefines ==
  ASSUME Inv, NEW page \in Address, ~InBitmap(page), pmm_free_page(page)
  PROVE  Promise!Next
<1> DEFINE i == (page - pmm_mem_start) \div PAGE_SIZE
<1>1. /\ page >= pmm_mem_start /\ page < pmm_mem_end /\ i \in pmm_bitmap
      /\ held' = held \ {AddressOf(i)}
  BY DEF pmm_free_page
<1>2. Initialised /\ pmm_mem_start = mem_start
  BY <1>1, SizeAssumption DEF Inv, Setup, Initialised
<1>3. page \in Nat /\ pmm_mem_start \in Nat /\ PAGE_SIZE \in Nat \ {0} /\ bitmap_pages \in Nat
  BY SizeAssumption, BitmapSize DEF Inv, TypeOK
<1>4. i \in Nat /\ page - pmm_mem_start < PAGE_SIZE * i + PAGE_SIZE
  <2>1. page - pmm_mem_start \in Nat
    BY <1>1, <1>3
  <2> QED BY <1>3, <2>1, DivBounds
<1> HIDE DEF i
<1>5. i \notin 0 .. (bitmap_pages - 1)
  <2>1. bitmap_pages * PAGE_SIZE <= page - pmm_mem_start
    BY <1>1, <1>2, <1>3 DEF InBitmap
  <2>2. bitmap_pages * PAGE_SIZE < (i + 1) * PAGE_SIZE
    BY <1>1, <1>3, <1>4, <2>1
  <2>3. bitmap_pages < i + 1
    BY <1>3, <1>4, <2>2, MulStrict
  <2> QED BY <1>3, <1>4, <2>3
<1>6. AddressOf(i) \in held
  BY <1>1, <1>2, <1>5 DEF Inv, BitsAccountedFor
<1>7. Promise!Free(AddressOf(i))
  BY <1>1, <1>6 DEF Promise!Free
<1> QED BY <1>6, <1>7 DEF Promise!Next

(* Callers hold disjoint pages outside the bitmap, for every memory.       *)
THEOREM PmmIsAnArena == Spec => ImplementsArena
<1>1. Init => Promise!Init
  BY DEF Init, Promise!Init
<1>2. Inv /\ [Next]_vars => [Promise!Next]_([a \in held |-> PAGE_SIZE])
  <2> SUFFICES ASSUME Inv, [Next]_vars
               PROVE  Promise!Next \/ UNCHANGED [a \in held |-> PAGE_SIZE]
    OBVIOUS
  <2>1. CASE pmm_init \/ pmm_alloc_fails \/ UNCHANGED vars
    BY <2>1 DEF pmm_init, pmm_alloc_fails, vars
  <2> QED BY <2>1, AllocRefines, FreeRefines DEF Next
<1> QED BY <1>1, <1>2, Invariance, PTL DEF Spec, ImplementsArena, Promise!Spec

----------------------------------------------------------------------------
(* The boot. *)

Prefix(n) == pmm_bitmap = 0 .. (n - 1)

BootTypes ==
  /\ HEAP_SIZE_PAGES \in Nat \ {0}
  /\ heap_pages \in Seq(Nat)

NoGap ==
  /\ step \notin {"page4", "done"} => \E n \in Nat : Prefix(n)
  /\ step = "page4" =>
       \E n \in Nat :
         Prefix(n) \/ \E i \in 0 .. (n - 1) : i \in Pages /\ pmm_bitmap = (0 .. (n - 1)) \ {i}

TestHolds == step \in {"page3", "free2"} => page2 = NULL \/ page2 \in held

(* The pages of the heap have consecutive numbers, and the loop's next one *)
(* comes right behind them.                                                *)
HeapRun ==
  \E b \in Int :
    /\ \A k \in DOMAIN heap_pages :
         /\ b + k \in Pages
         /\ heap_pages[k] = AddressOf(b + k) /\ heap_pages[k] \in held
    /\ step = "heap" => \E n \in Nat : n = b + Len(heap_pages) + 1 /\ Prefix(n)

HeapRange ==
  /\ step \notin {"heap", "done", "hung"} => heap_pages = <<>>
  /\ IF step = "done"
     THEN /\ Len(heap_pages) = HEAP_SIZE_PAGES
          /\ heap = heap_pages[1] .. (heap_pages[1] + HEAP_SIZE_PAGES * PAGE_SIZE - 1)
     ELSE heap = {}

(* The inductive invariant of the boot.                                    *)
BootInv ==
  /\ Inv
  /\ BootTypes
  /\ NoGap
  /\ TestHolds
  /\ HeapRun
  /\ HeapRange

----------------------------------------------------------------------------
(* One call of pmm_alloc_page. *)

(* Behind marked pages without a gap, the next one is handed out.          *)
LEMMA NextPage ==
  ASSUME Inv, NEW n \in Nat, Prefix(n), NEW p, Returns(p)
  PROVE  \/ p = NULL /\ UNCHANGED vars
         \/ /\ n \in Pages /\ p = AddressOf(n)
            /\ Prefix(n + 1)' /\ held' = held \cup {p}
            /\ UNCHANGED <<pmm_mem_start, pmm_mem_end, pmm_total_pages>>
<1>1. CASE pmm_alloc_page /\ p \in held' \ held
  <2>1. PICK i \in FirstClear :
          pmm_bitmap' = pmm_bitmap \cup {i} /\ held' = held \cup {AddressOf(i)}
    BY <1>1 DEF pmm_alloc_page
  <2>2. UNCHANGED <<pmm_mem_start, pmm_mem_end, pmm_total_pages>>
    BY <1>1 DEF pmm_alloc_page
  <2>3. pmm_total_pages \in Nat
    BY DEF Inv, TypeOK
  <2>4. i = n /\ n \in Pages
    BY <2>1, <2>3 DEF FirstClear, Pages, Prefix
  <2>5. pmm_bitmap' = 0 .. n
    BY <2>1, <2>4 DEF Prefix
  <2> QED BY <1>1, <2>1, <2>2, <2>4, <2>5 DEF Prefix
<1>2. CASE pmm_alloc_fails /\ p = NULL
  BY <1>2 DEF pmm_alloc_fails
<1> QED BY <1>1, <1>2 DEF Returns

(* A gap of one page is filled first.                                      *)
LEMMA GapFilled ==
  ASSUME Inv, NEW n \in Nat, NEW i \in 0 .. (n - 1), i \in Pages,
         pmm_bitmap = (0 .. (n - 1)) \ {i}, NEW p, Returns(p)
  PROVE  Prefix(n)' /\ p = AddressOf(i)
<1>1. pmm_total_pages \in Nat
  BY DEF Inv, TypeOK
<1>2. i \in FirstClear
  BY <1>1 DEF FirstClear, Pages
<1>3. pmm_free_pages # 0
  <2>1. IsFiniteSet(Pages \ pmm_bitmap) /\ Pages \ pmm_bitmap # {}
    BY PagesFinite DEF Inv
  <2>2. Cardinality(Pages \ pmm_bitmap) # 0
    BY <2>1, FS_EmptySet
  <2> QED BY <2>2 DEF Inv, FreeCountAccurate
<1>4. pmm_alloc_page /\ p \in held' \ held
  BY <1>2, <1>3 DEF Returns, pmm_alloc_fails
<1>5. PICK j \in FirstClear :
        pmm_bitmap' = pmm_bitmap \cup {j} /\ held' = held \cup {AddressOf(j)}
  BY <1>4 DEF pmm_alloc_page
<1>6. j = i
  BY <1>1, <1>2, <1>5 DEF FirstClear, Pages
<1> QED BY <1>4, <1>5, <1>6 DEF Prefix

(* The call returns NULL behind marked pages without a gap only if there   *)
(* are no others.                                                          *)
LEMMA NullIfFull ==
  ASSUME Inv, NEW n \in Nat, Prefix(n), Returns(NULL)
  PROVE  Pages \subseteq pmm_bitmap /\ UNCHANGED vars
<1>1. pmm_total_pages \in Nat /\ pmm_mem_start \in Nat /\ PAGE_SIZE \in Nat \ {0}
  BY SizeAssumption DEF Inv, TypeOK
<1>2. pmm_alloc_fails
  <2> SUFFICES ASSUME pmm_alloc_page, NULL \in held' \ held PROVE FALSE
    BY DEF Returns
  <2>1. PICK i \in FirstClear : NULL = AddressOf(i)
    BY DEF pmm_alloc_page
  <2>2. i \in Nat /\ i * PAGE_SIZE \in Nat
    BY <1>1, <2>1 DEF FirstClear, Pages
  <2>3. pmm_mem_start \in Nat \ {0}
    BY <1>1, <2>1, Layout DEF FirstClear, Pages, Inv, Setup
  <2> QED BY <2>1, <2>2, <2>3 DEF AddressOf, NULL
<1>3. n \notin Pages
  <2> SUFFICES ASSUME n \in Pages PROVE FALSE
    OBVIOUS
  <2>1. n \in FirstClear
    BY <1>1 DEF FirstClear, Pages, Prefix
  <2>2. IsFiniteSet(Pages \ pmm_bitmap) /\ Pages \ pmm_bitmap # {}
    BY <2>1, PagesFinite DEF Inv, FirstClear
  <2>3. Cardinality(Pages \ pmm_bitmap) # 0
    BY <2>2, FS_EmptySet
  <2> QED BY <1>2, <2>1, <2>3 DEF pmm_alloc_fails, Inv, FreeCountAccurate
<1> QED BY <1>1, <1>2, <1>3 DEF pmm_alloc_fails, Pages, Prefix

LEMMA FullMeansNull ==
  ASSUME Pages \subseteq pmm_bitmap, NEW p, Returns(p)
  PROVE  p = NULL /\ UNCHANGED vars
BY DEF Returns, pmm_alloc_page, pmm_alloc_fails, FirstClear

LEMMA ReturnsStep == ASSUME Inv, NEW p, Returns(p) PROVE Inv'
BY AllocStep, StutterStep DEF Returns, pmm_alloc_fails

(* The allocator's memory stays where it is once it is set up.             *)
LEMMA ReturnsFrame ==
  ASSUME Inv, NEW p, Returns(p)
  PROVE  /\ UNCHANGED <<pmm_mem_start, pmm_mem_end, pmm_total_pages>>
         /\ held \subseteq held'
         /\ p = NULL \/ p \in held'
BY DEF Returns, pmm_alloc_page, pmm_alloc_fails, vars

(* A caller's page is one of the region, and not the bitmap's.             *)
LEMMA HeldPage ==
  ASSUME Inv, NEW p \in held
  PROVE  \E i \in Pages : i \in Nat /\ p = AddressOf(i) /\ i >= bitmap_pages
<1>1. Initialised
  BY DEF Inv, Setup
<1>2. PICK i \in Pages : p = AddressOf(i)
  BY <1>1 DEF Inv, BitsAccountedFor
<1>3. i \notin 0 .. (bitmap_pages - 1) /\ i \in Nat /\ bitmap_pages \in Nat
  BY <1>1, <1>2, BitmapSize DEF Inv, BitsAccountedFor, TypeOK, Pages
<1> QED BY <1>2, <1>3

LEMMA HeldNotInBitmap ==
  ASSUME Inv, NEW p \in held
  PROVE  p \in Nat /\ ~InBitmap(p)
<1>1. PICK i \in Pages : i \in Nat /\ p = AddressOf(i) /\ i >= bitmap_pages
  BY HeldPage
<1>2. /\ PAGE_SIZE \in Nat /\ bitmap_pages \in Nat /\ mem_start \in Nat
      /\ pmm_mem_start = mem_start
  BY SizeAssumption, BitmapSize, Layout DEF Inv, Setup
<1>3. bitmap_pages * PAGE_SIZE <= i * PAGE_SIZE
  BY <1>1, <1>2, MulMono
<1>4. i * PAGE_SIZE \in Nat /\ bitmap_pages * PAGE_SIZE \in Nat
  BY <1>1, <1>2
<1>5. p = mem_start + i * PAGE_SIZE
  BY <1>1, <1>2 DEF AddressOf
<1> HIDE DEF mem_start, bitmap_pages
<1> QED BY <1>2, <1>3, <1>4, <1>5 DEF InBitmap

(* The caller's pages of the heap stay what they are.                      *)
LEMMA HeapRunStays ==
  ASSUME HeapRun, UNCHANGED heap_pages, step' # "heap", held \subseteq held',
         UNCHANGED <<pmm_mem_start, pmm_mem_end, pmm_total_pages>>
  PROVE  HeapRun'
<1>1. PICK b \in Int : \A k \in DOMAIN heap_pages :
        b + k \in Pages /\ heap_pages[k] = AddressOf(b + k) /\ heap_pages[k] \in held
  BY DEF HeapRun
<1> QED BY <1>1 DEF HeapRun, Pages, AddressOf

----------------------------------------------------------------------------
(* The heap's range. *)

(* A range of whole pages with consecutive numbers is what the pages hold. *)
LEMMA RangeOfPages ==
  ASSUME pmm_mem_start \in Nat, NEW b \in Int, NEW n \in Nat \ {0}, b + 1 \in Nat
  PROVE  AddressOf(b + 1) .. (AddressOf(b + 1) + n * PAGE_SIZE - 1)
           = UNION {BytesOf(AddressOf(b + k)) : k \in 1 .. n}
<1> DEFINE lo == AddressOf(b + 1)
           hi == lo + n * PAGE_SIZE - 1
<1>1. PAGE_SIZE \in Nat \ {0}
  BY SizeAssumption
<1>2. lo \in Nat /\ n * PAGE_SIZE \in Nat
  BY <1>1 DEF AddressOf
<1>3. \A k \in 1 .. n : AddressOf(b + k) = lo + (k - 1) * PAGE_SIZE
  <2> SUFFICES ASSUME NEW k \in 1 .. n PROVE AddressOf(b + k) = lo + (k - 1) * PAGE_SIZE
    OBVIOUS
  <2>1. (b + k) * PAGE_SIZE = (b + 1) * PAGE_SIZE + (k - 1) * PAGE_SIZE
    BY <1>1
  <2> QED BY <1>1, <2>1 DEF AddressOf
<1> HIDE DEF lo
<1>4. ASSUME NEW x \in lo .. hi
      PROVE  \E k \in 1 .. n : x \in BytesOf(AddressOf(b + k))
  <2> DEFINE d == (x - lo) \div PAGE_SIZE
  <2>1. x - lo \in Nat /\ x - lo < n * PAGE_SIZE
    BY <1>2
  <2>2. d \in Nat /\ PAGE_SIZE * d <= x - lo /\ x - lo < PAGE_SIZE * d + PAGE_SIZE
    BY <1>1, <2>1, DivBounds
  <2> HIDE DEF d
  <2>3. d * PAGE_SIZE < n * PAGE_SIZE
    BY <1>1, <1>2, <2>1, <2>2
  <2>4. d < n
    BY <1>1, <2>2, <2>3, MulStrict
  <2>5. AddressOf(b + (d + 1)) = lo + d * PAGE_SIZE
    BY <1>3, <2>2, <2>4
  <2>6. x \in BytesOf(AddressOf(b + (d + 1)))
    <3>1. d * PAGE_SIZE \in Nat /\ d * PAGE_SIZE = PAGE_SIZE * d
      BY <1>1, <2>2
    <3> QED BY <1>1, <1>2, <2>1, <2>2, <2>5, <3>1 DEF BytesOf
  <2> QED BY <2>2, <2>4, <2>6
<1>5. ASSUME NEW k \in 1 .. n, NEW x \in BytesOf(AddressOf(b + k))
      PROVE  x \in lo .. hi
  <2>1. AddressOf(b + k) = lo + (k - 1) * PAGE_SIZE
    BY <1>3
  <2>2. k * PAGE_SIZE <= n * PAGE_SIZE /\ (k - 1) * PAGE_SIZE = k * PAGE_SIZE - PAGE_SIZE
    BY <1>1, MulMono
  <2>3. (k - 1) * PAGE_SIZE \in Nat
    BY <1>1
  <2> QED BY <1>1, <1>2, <2>1, <2>2, <2>3 DEF BytesOf
<1> QED BY <1>4, <1>5 DEF lo

(* What kmalloc_init was given: exactly the pages the loop got.            *)
LEMMA HeapIsItsPages ==
  ASSUME BootInv, step = "done"
  PROVE  heap = UNION {BytesOf(heap_pages[k]) : k \in DOMAIN heap_pages}
<1>1. PICK b \in Int : \A k \in DOMAIN heap_pages :
        b + k \in Pages /\ heap_pages[k] = AddressOf(b + k)
  BY DEF BootInv, HeapRun
<1>2. /\ HEAP_SIZE_PAGES \in Nat \ {0} /\ DOMAIN heap_pages = 1 .. HEAP_SIZE_PAGES
      /\ heap = heap_pages[1] .. (heap_pages[1] + HEAP_SIZE_PAGES * PAGE_SIZE - 1)
      /\ pmm_mem_start \in Nat /\ Pages \subseteq Nat
  BY DEF BootInv, BootTypes, HeapRange, Inv, TypeOK, Pages
<1>3. 1 \in DOMAIN heap_pages
  BY <1>2
<1>4. b + 1 \in Nat /\ heap_pages[1] = AddressOf(b + 1)
  BY <1>1, <1>2, <1>3
<1>5. heap = UNION {BytesOf(AddressOf(b + k)) : k \in 1 .. HEAP_SIZE_PAGES}
  BY <1>2, <1>4, RangeOfPages
<1> QED BY <1>1, <1>2, <1>5

(* The invariant implies the property.                                     *)
LEMMA InvOwned == BootInv => HeapOwned
<1> SUFFICES ASSUME BootInv PROVE HeapOwned
  OBVIOUS
<1> DEFINE heapPages == {heap_pages[k] : k \in DOMAIN heap_pages}
<1>1. heap = {} \/ heap = UNION {BytesOf(p) : p \in heapPages}
  BY HeapIsItsPages DEF BootInv, HeapRange
<1>2. heapPages \subseteq held
  BY DEF BootInv, HeapRun
<1>3. ASSUME NEW p \in held \ heapPages, NEW q \in heapPages
      PROVE  BytesOf(q) \cap BytesOf(p) = {}
  <2>1. PICK i \in Pages : i \in Nat /\ p = AddressOf(i)
    BY HeldPage DEF BootInv
  <2>2. PICK j \in Pages : j \in Nat /\ q = AddressOf(j)
    BY <1>2, HeldPage DEF BootInv
  <2>3. i # j /\ pmm_mem_start \in Nat /\ PAGE_SIZE \in Nat /\ p \in Nat /\ q \in Nat
    BY <1>2, <2>1, <2>2, SizeAssumption DEF BootInv, Inv, TypeOK
  <2>4. p + PAGE_SIZE <= q \/ q + PAGE_SIZE <= p
    BY <2>1, <2>2, <2>3, PageDisjoint DEF Promise!Disjoint
  <2> QED BY <2>3, <2>4 DEF BytesOf
<1>4. \A p \in held \ heapPages : heap \cap BytesOf(p) = {}
  BY <1>1, <1>3
<1> QED BY <1>1, <1>2, <1>4 DEF HeapOwned

----------------------------------------------------------------------------
(* The steps of the boot. *)

LEMMA BootInitInv == BootInit => BootInv
<1> SUFFICES ASSUME BootInit PROVE BootInv
  OBVIOUS
<1>1. Inv
  BY InitInv DEF BootInit
<1>2. Prefix(0) /\ heap_pages = <<>>
  BY DEF BootInit, Init, Prefix
<1>3. HeapRun
  BY <1>2 DEF HeapRun, BootInit
<1> QED BY <1>1, <1>2, <1>3
        DEF BootInv, BootInit, BootTypes, NoGap, TestHolds, HeapRange

LEMMA InitPmmStep == ASSUME BootInv, InitPmm PROVE BootInv'
<1>1. step = "pmm" /\ step' = "mmu" /\ UNCHANGED <<HEAP_SIZE_PAGES, heap_pages, heap>>
      /\ pmm_init /\ heap_pages = <<>>
  BY DEF InitPmm, BootInv, HeapRange
<1>2. Inv'
  BY <1>1, InitStep DEF BootInv
<1>3. NoGap'
  BY <1>1, BitmapSize DEF pmm_init, NoGap, Prefix
<1>4. HeapRun' /\ HeapRange' /\ TestHolds' /\ BootTypes'
  BY <1>1 DEF BootInv, HeapRun, HeapRange, TestHolds, BootTypes
<1> QED BY <1>2, <1>3, <1>4 DEF BootInv

LEMMA TablePageStep == ASSUME BootInv, TablePage PROVE BootInv'
<1>1. PICK p \in Pointers : Returns(p)
  BY DEF TablePage
<1>2. step = "mmu" /\ step' \in {"mmu", "hung"} /\ UNCHANGED <<HEAP_SIZE_PAGES, heap_pages, heap>>
  BY DEF TablePage
<1>3. PICK n \in Nat : Prefix(n)
  BY <1>2 DEF BootInv, NoGap
<1>4. Inv'
  BY <1>1, ReturnsStep DEF BootInv
<1>5. \E k \in Nat : Prefix(k)'
  BY <1>1, <1>3, NextPage DEF BootInv, Prefix, vars
<1>6. NoGap'
  BY <1>2, <1>5 DEF NoGap
<1>7. HeapRun'
  BY <1>1, <1>2, ReturnsFrame, HeapRunStays DEF BootInv
<1> QED BY <1>2, <1>4, <1>6, <1>7 DEF BootInv, BootTypes, TestHolds, HeapRange

LEMMA TablesDoneStep == ASSUME BootInv, TablesDone PROVE BootInv'
<1>1. step = "mmu" /\ step' = "page1" /\ UNCHANGED <<vars, HEAP_SIZE_PAGES, heap_pages, heap>>
  BY DEF TablesDone
<1>2. Inv'
  BY <1>1, StutterStep DEF BootInv
<1>3. HeapRun'
  BY <1>1, HeapRunStays DEF BootInv, vars
<1> QED BY <1>1, <1>2, <1>3
        DEF BootInv, BootTypes, NoGap, Prefix, TestHolds, HeapRange, vars

(* The fourth page of the test fills the gap the second one left.          *)
LEMMA TestPagesStep == ASSUME BootInv, TestPages PROVE BootInv'
<1>1. PICK p \in Pointers : /\ Returns(p)
                            /\ step = "page2" => page2' = p
                            /\ step # "page2" => page2' = page2
  BY DEF TestPages
<1>2. /\ \/ step = "page1" /\ step' = "page2"
         \/ step = "page2" /\ step' = "page3"
         \/ step = "page3" /\ step' = "free2"
         \/ step = "page4" /\ step' = "heap"
      /\ UNCHANGED <<HEAP_SIZE_PAGES, heap_pages, heap>>
  BY DEF TestPages
<1>3. heap_pages = <<>>
  BY <1>2 DEF BootInv, HeapRange
<1>4. Inv'
  BY <1>1, ReturnsStep DEF BootInv
<1>5. \E k \in Nat : Prefix(k)'
  <2>1. ASSUME NEW n \in Nat, Prefix(n) PROVE \E k \in Nat : Prefix(k)'
    BY <1>1, <2>1, NextPage DEF BootInv, Prefix, vars
  <2>2. CASE step = "page4"
    <3>1. PICK n \in Nat : Prefix(n) \/ \E i \in 0 .. (n - 1) :
                              i \in Pages /\ pmm_bitmap = (0 .. (n - 1)) \ {i}
      BY <2>2 DEF BootInv, NoGap
    <3> QED BY <1>1, <2>1, <3>1, GapFilled DEF BootInv
  <2>3. CASE step # "page4"
    BY <1>2, <2>1, <2>3 DEF BootInv, NoGap
  <2> QED BY <2>2, <2>3
<1>6. NoGap'
  BY <1>2, <1>5 DEF NoGap
<1>7. TestHolds'
  BY <1>1, <1>2, ReturnsFrame DEF BootInv, TestHolds
<1>8. HeapRun'
  <2>1. PICK n \in Nat : Prefix(n)'
    BY <1>5
  <2>2. n - 1 \in Int /\ (n - 1) + Len(heap_pages') + 1 = n
    BY <1>2, <1>3
  <2>3. DOMAIN heap_pages' = {}
    BY <1>2, <1>3
  <2> QED BY <2>1, <2>2, <2>3 DEF HeapRun
<1> QED BY <1>2, <1>3, <1>4, <1>6, <1>7, <1>8 DEF BootInv, BootTypes, HeapRange

LEMMA FreePage2Step == ASSUME BootInv, FreePage2 PROVE BootInv'
<1>1. /\ step = "free2" /\ step' = "page4"
      /\ UNCHANGED <<HEAP_SIZE_PAGES, heap_pages, heap>> /\ heap_pages = <<>>
  BY DEF FreePage2, BootInv, HeapRange
<1>2. PICK n \in Nat : Prefix(n)
  BY <1>1 DEF BootInv, NoGap
<1>3. /\ HeapRun' /\ HeapRange' /\ TestHolds' /\ BootTypes'
  BY <1>1 DEF BootInv, HeapRun, HeapRange, TestHolds, BootTypes
<1>4. CASE page2 = NULL
  <2>1. UNCHANGED vars
    BY <1>4 DEF FreePage2
  <2>2. Inv' /\ Prefix(n)'
    BY <1>2, <2>1, StutterStep DEF BootInv, Prefix, vars
  <2> QED BY <1>1, <1>3, <2>2 DEF BootInv, NoGap
<1>5. CASE page2 # NULL
  <2> DEFINE i == (page2 - pmm_mem_start) \div PAGE_SIZE
  <2>1. pmm_free_page(page2) /\ page2 \in held
    BY <1>1, <1>5 DEF FreePage2, BootInv, TestHolds
  <2>2. Inv'
    BY <2>1, HeldNotInBitmap, FreeStep DEF BootInv
  <2>3. i \in pmm_bitmap /\ pmm_bitmap' = pmm_bitmap \ {i} /\ pmm_total_pages' = pmm_total_pages
    BY <2>1 DEF pmm_free_page
  <2> HIDE DEF i
  <2>4. i \in Pages' /\ i \in 0 .. (n - 1) /\ pmm_bitmap' = (0 .. (n - 1)) \ {i}
    BY <1>2, <2>3 DEF BootInv, Inv, TypeOK, Pages, Prefix
  <2>5. NoGap'
    BY <1>1, <2>4 DEF NoGap
  <2> QED BY <1>3, <2>2, <2>5 DEF BootInv
<1> QED BY <1>4, <1>5

(* The loop's next page lies right behind its last one.                    *)
LEMMA HeapPageStep == ASSUME BootInv, HeapPage PROVE BootInv'
<1>1. PICK p \in Pointers :
        /\ Returns(p)
        /\ IF p = NULL
           THEN step' = "hung" /\ UNCHANGED heap_pages
           ELSE heap_pages' = Append(heap_pages, p) /\ UNCHANGED step
  BY DEF HeapPage
<1>2. step = "heap" /\ UNCHANGED <<HEAP_SIZE_PAGES, heap>> /\ heap_pages \in Seq(Nat)
  BY DEF HeapPage, BootInv, BootTypes
<1>3. Inv'
  BY <1>1, ReturnsStep DEF BootInv
<1>4. PICK b \in Int :
        /\ \A k \in DOMAIN heap_pages :
             b + k \in Pages /\ heap_pages[k] = AddressOf(b + k) /\ heap_pages[k] \in held
        /\ \E n \in Nat : n = b + Len(heap_pages) + 1 /\ Prefix(n)
  BY <1>2 DEF BootInv, HeapRun
<1>5. PICK n \in Nat : Prefix(n)
  BY <1>2 DEF BootInv, NoGap
<1>6. CASE p = NULL
  <2>1. step' = "hung" /\ UNCHANGED heap_pages
    BY <1>1, <1>6
  <2>2. \E k \in Nat : Prefix(k)'
    BY <1>1, <1>5, NextPage DEF BootInv, Prefix, vars
  <2>3. HeapRun'
    BY <1>1, <2>1, ReturnsFrame, HeapRunStays DEF BootInv
  <2> QED BY <1>2, <1>3, <2>1, <2>2, <2>3
          DEF BootInv, BootTypes, NoGap, TestHolds, HeapRange
<1>7. CASE p # NULL
  <2>0. PICK m \in Nat : m = b + Len(heap_pages) + 1 /\ Prefix(m)
    BY <1>4
  <2>1. heap_pages' = Append(heap_pages, p) /\ step' = "heap"
    BY <1>1, <1>2, <1>7
  <2>2. Len(heap_pages) \in Nat
    BY <1>2
  <2>4. /\ m \in Pages /\ p = AddressOf(m)
        /\ Prefix(m + 1)' /\ held' = held \cup {p}
        /\ UNCHANGED <<pmm_mem_start, pmm_mem_end, pmm_total_pages>>
    BY <1>1, <1>7, <2>0, NextPage DEF BootInv
  <2>5. p \in Nat
    BY <1>3, <2>4 DEF Inv, TypeOK
  <2>6. /\ Len(heap_pages') = Len(heap_pages) + 1
        /\ DOMAIN heap_pages' = 1 .. (Len(heap_pages) + 1)
        /\ heap_pages' \in Seq(Nat)
        /\ \A k \in 1 .. Len(heap_pages) : heap_pages'[k] = heap_pages[k]
        /\ heap_pages'[Len(heap_pages) + 1] = p
    BY <1>2, <2>1, <2>5
  <2>7. ASSUME NEW k \in DOMAIN heap_pages'
        PROVE  /\ b + k \in Pages' /\ heap_pages'[k] = AddressOf(b + k)'
               /\ heap_pages'[k] \in held'
    <3>1. Pages' = Pages /\ AddressOf(b + k)' = AddressOf(b + k)
      BY <2>4 DEF Pages, AddressOf
    <3>2. CASE k \in 1 .. Len(heap_pages)
      <4>1. k \in DOMAIN heap_pages
        BY <1>2, <3>2
      <4> QED BY <1>4, <2>4, <2>6, <3>1, <3>2, <4>1
    <3>3. CASE k = Len(heap_pages) + 1
      <4>1. b + k = m
        BY <2>0, <2>2, <3>3
      <4> QED BY <2>4, <2>6, <3>1, <3>3, <4>1
    <3> QED BY <2>2, <2>6, <3>2, <3>3
  <2>8. m + 1 \in Nat /\ m + 1 = b + Len(heap_pages') + 1
    BY <2>0, <2>2, <2>6
  <2>9. HeapRun'
    BY <2>4, <2>7, <2>8 DEF HeapRun
  <2>10. NoGap'
    BY <2>1, <2>4, <2>8 DEF NoGap
  <2> QED BY <1>2, <1>3, <2>1, <2>6, <2>9, <2>10
          DEF BootInv, BootTypes, TestHolds, HeapRange
<1> QED BY <1>6, <1>7

LEMMA InitHeapStep == ASSUME BootInv, InitHeap PROVE BootInv'
<1>1. /\ step = "heap" /\ step' = "done" /\ Len(heap_pages) = HEAP_SIZE_PAGES
      /\ heap' = heap_pages[1] .. (heap_pages[1] + HEAP_SIZE_PAGES * PAGE_SIZE - 1)
      /\ UNCHANGED <<vars, HEAP_SIZE_PAGES, heap_pages>>
  BY DEF InitHeap
<1>2. Inv'
  BY <1>1, StutterStep DEF BootInv
<1>3. HeapRun'
  BY <1>1, HeapRunStays DEF BootInv, vars
<1> QED BY <1>1, <1>2, <1>3
        DEF BootInv, BootTypes, NoGap, TestHolds, HeapRange, vars

(* Whoever frees a page later does not free one of the heap.               *)
LEMMA BootedFreeStep ==
  ASSUME BootInv, step = "done", UNCHANGED bootVars,
         NEW page \in Nat, ~InBitmap(page), page \notin heap, pmm_free_page(page)
  PROVE  BootInv'
<1> DEFINE i == (page - pmm_mem_start) \div PAGE_SIZE
<1>1. /\ page >= pmm_mem_start /\ held' = held \ {AddressOf(i)}
      /\ UNCHANGED <<pmm_mem_start, pmm_mem_end, pmm_total_pages>>
  BY DEF pmm_free_page
<1>2. Inv'
  BY FreeStep DEF BootInv
<1>3. page \in BytesOf(AddressOf(i))
  <2>1. PAGE_SIZE \in Nat \ {0} /\ pmm_mem_start \in Nat /\ page - pmm_mem_start \in Nat
    BY <1>1, SizeAssumption DEF BootInv, Inv, TypeOK
  <2>2. /\ i \in Nat /\ PAGE_SIZE * i <= page - pmm_mem_start
        /\ page - pmm_mem_start < PAGE_SIZE * i + PAGE_SIZE
    BY <2>1, DivBounds
  <2> HIDE DEF i
  <2>3. i * PAGE_SIZE = PAGE_SIZE * i /\ i * PAGE_SIZE \in Nat
    BY <2>1, <2>2
  <2> QED BY <2>1, <2>2, <2>3 DEF BytesOf, AddressOf
<1> HIDE DEF i
<1>4. \A k \in DOMAIN heap_pages : heap_pages[k] # AddressOf(i)
  BY <1>3, HeapIsItsPages
<1>5. PICK b \in Int : \A k \in DOMAIN heap_pages :
        b + k \in Pages /\ heap_pages[k] = AddressOf(b + k) /\ heap_pages[k] \in held
  BY DEF BootInv, HeapRun
<1>6. step' = "done" /\ UNCHANGED <<HEAP_SIZE_PAGES, heap_pages, heap>>
  BY DEF bootVars
<1>7. HeapRun'
  BY <1>1, <1>4, <1>5, <1>6 DEF HeapRun, Pages, AddressOf
<1> QED BY <1>2, <1>6, <1>7 DEF BootInv, BootTypes, NoGap, TestHolds, HeapRange

LEMMA BootedStep == ASSUME BootInv, BootedCall PROVE BootInv'
<1>1. step = "done" /\ UNCHANGED bootVars
  BY DEF BootedCall
<1>2. ASSUME pmm_alloc_page \/ pmm_alloc_fails PROVE BootInv'
  <2>1. Inv'
    BY <1>2, AllocStep, StutterStep DEF BootInv, pmm_alloc_fails
  <2>2. held \subseteq held' /\ UNCHANGED <<pmm_mem_start, pmm_mem_end, pmm_total_pages>>
    BY <1>2 DEF pmm_alloc_page, pmm_alloc_fails, vars
  <2>3. step' = "done" /\ UNCHANGED <<HEAP_SIZE_PAGES, heap_pages, heap>>
    BY <1>1 DEF bootVars
  <2>4. HeapRun'
    BY <2>2, <2>3, HeapRunStays DEF BootInv
  <2> QED BY <1>1, <2>1, <2>3, <2>4
          DEF BootInv, BootTypes, NoGap, TestHolds, HeapRange
<1>3. ASSUME NEW page \in Address, ~InBitmap(page), page \notin heap, pmm_free_page(page)
      PROVE  BootInv'
  BY <1>1, <1>3, BootedFreeStep, SizeAssumption
<1> QED BY <1>2, <1>3 DEF BootedCall

LEMMA BootStutter == ASSUME BootInv, UNCHANGED allVars PROVE BootInv'
<1>1. UNCHANGED <<vars, step, page2, HEAP_SIZE_PAGES, heap_pages, heap>>
  BY DEF allVars, bootVars, test_pages
<1>2. Inv'
  BY <1>1, StutterStep DEF BootInv
<1> QED BY <1>1, <1>2 DEF BootInv, BootTypes, NoGap, TestHolds, HeapRun, HeapRange,
                        Prefix, Pages, AddressOf, vars

----------------------------------------------------------------------------
LEMMA BootInvariance == BootSpec => []BootInv
<1>1. BootInit => BootInv
  BY BootInitInv
<1>2. BootInv /\ [BootNext]_allVars => BootInv'
  BY InitPmmStep, TablePageStep, TablesDoneStep, TestPagesStep, FreePage2Step,
     HeapPageStep, InitHeapStep, BootedStep, BootStutter DEF BootNext
<1> QED BY <1>1, <1>2, PTL DEF BootSpec

(* The page allocator's invariant holds through the boot and after it.     *)
THEOREM BootKeepsInv == BootSpec => []Inv
<1>1. BootInv => Inv
  BY DEF BootInv
<1> QED BY <1>1, BootInvariance, PTL

(* The heap is memory of the boot loop's own pages, and nobody else's, for *)
(* every region and every number of page tables and heap pages.            *)
THEOREM HeapIsOwned == BootSpec => []HeapOwned
BY InvOwned, BootInvariance, PTL

----------------------------------------------------------------------------
(* The test of four pages. *)

(* If the second call got nothing there is nothing left.  Once its page is *)
(* given back, it is the gap in the marked pages.                          *)
TestReuses ==
  /\ step \in {"page3", "free2", "page4"} /\ page2 = NULL => Pages \subseteq pmm_bitmap
  /\ step = "page4" /\ page2 # NULL =>
       \E n \in Nat : \E i \in 0 .. (n - 1) :
         i \in Pages /\ pmm_bitmap = (0 .. (n - 1)) \ {i} /\ page2 = AddressOf(i)
  /\ step \in {"heap", "done"} => page4 = page2

LEMMA CallsKeepTest ==
  ASSUME BootInv, TestReuses, TestPages
  PROVE  TestReuses'
<1>1. CASE step = "page1"
  BY <1>1 DEF TestPages, TestReuses
<1>2. CASE step = "page2"
  <2>1. PICK n \in Nat : Prefix(n)
    BY <1>2 DEF BootInv, NoGap
  <2>2. step' = "page3" /\ Returns(page2')
    BY <1>2 DEF TestPages
  <2>3. page2' = NULL => Pages \subseteq pmm_bitmap /\ UNCHANGED vars
    BY <2>1, <2>2, NullIfFull DEF BootInv
  <2> QED BY <2>2, <2>3 DEF TestReuses, Pages, vars
<1>3. CASE step = "page3"
  <2>1. step' = "free2" /\ Returns(page3') /\ page2' = page2
    BY <1>3 DEF TestPages
  <2>2. page2 = NULL => Pages \subseteq pmm_bitmap /\ UNCHANGED vars
    BY <1>3, <2>1, FullMeansNull DEF TestReuses
  <2> QED BY <2>1, <2>2 DEF TestReuses, Pages, vars
<1>4. CASE step = "page4"
  <2>1. step' = "heap" /\ Returns(page4') /\ page2' = page2
    BY <1>4 DEF TestPages
  <2>2. CASE page2 = NULL
    <3>1. page4' = NULL
      BY <1>4, <2>1, <2>2, FullMeansNull DEF TestReuses
    <3> QED BY <2>1, <2>2, <3>1 DEF TestReuses
  <2>3. CASE page2 # NULL
    <3>1. PICK n \in Nat : \E i \in 0 .. (n - 1) :
            i \in Pages /\ pmm_bitmap = (0 .. (n - 1)) \ {i} /\ page2 = AddressOf(i)
      BY <1>4, <2>3 DEF TestReuses
    <3>2. PICK i \in 0 .. (n - 1) :
            i \in Pages /\ pmm_bitmap = (0 .. (n - 1)) \ {i} /\ page2 = AddressOf(i)
      BY <3>1
    <3>3. page4' = AddressOf(i)
      BY <2>1, <3>2, GapFilled DEF BootInv
    <3> QED BY <2>1, <3>2, <3>3 DEF TestReuses
  <2> QED BY <2>2, <2>3
<1> QED BY <1>1, <1>2, <1>3, <1>4 DEF TestPages

(* The pointer given back is the address of the page it frees.             *)
LEMMA FreeKeepsTest ==
  ASSUME BootInv, TestReuses, FreePage2
  PROVE  TestReuses'
<1>1. step = "free2" /\ step' = "page4" /\ UNCHANGED page2
  BY DEF FreePage2, test_pages
<1>2. CASE page2 = NULL
  <2>1. UNCHANGED vars /\ Pages \subseteq pmm_bitmap
    BY <1>1, <1>2 DEF FreePage2, TestReuses
  <2> QED BY <1>1, <1>2, <2>1 DEF TestReuses, Pages, vars
<1>3. CASE page2 # NULL
  <2> DEFINE i == (page2 - pmm_mem_start) \div PAGE_SIZE
  <2>1. pmm_free_page(page2) /\ page2 \in held
    BY <1>1, <1>3 DEF FreePage2, BootInv, TestHolds
  <2>2. /\ i \in pmm_bitmap /\ pmm_bitmap' = pmm_bitmap \ {i}
        /\ UNCHANGED <<pmm_mem_start, pmm_total_pages>>
    BY <2>1 DEF pmm_free_page
  <2>3. PICK k \in Pages : k \in Nat /\ page2 = AddressOf(k)
    BY <2>1, HeldPage DEF BootInv
  <2>4. i = k
    <3>1. /\ PAGE_SIZE \in Nat \ {0} /\ pmm_mem_start \in Nat
          /\ PAGE_SIZE * k \in Nat /\ PAGE_SIZE * k = k * PAGE_SIZE
      BY <2>3, SizeAssumption DEF BootInv, Inv, TypeOK
    <3>2. page2 - pmm_mem_start = PAGE_SIZE * k
      BY <2>3, <3>1 DEF AddressOf
    <3> QED BY <2>3, <3>1, <3>2, DivUnique
  <2> HIDE DEF i
  <2>5. PICK n \in Nat : Prefix(n)
    BY <1>1 DEF BootInv, NoGap
  <2>6. k \in 0 .. (n - 1) /\ pmm_bitmap' = (0 .. (n - 1)) \ {k}
    BY <2>2, <2>4, <2>5 DEF Prefix
  <2>7. k \in Pages' /\ page2' = AddressOf(k)'
    BY <1>1, <2>2, <2>3 DEF Pages, AddressOf
  <2> QED BY <1>1, <1>3, <2>6, <2>7 DEF TestReuses
<1> QED BY <1>2, <1>3

LEMMA OthersKeepTest ==
  ASSUME TestReuses, [BootNext]_allVars, ~TestPages, ~FreePage2
  PROVE  TestReuses'
<1>1. CASE InitPmm \/ TablePage \/ TablesDone
  BY <1>1 DEF InitPmm, TablePage, TablesDone, TestReuses
<1>2. CASE HeapPage \/ InitHeap \/ BootedCall
  <2>1. step \in {"heap", "done"} /\ step' \in {"heap", "done", "hung"}
        /\ UNCHANGED <<page2, page4>>
    BY <1>2 DEF HeapPage, InitHeap, BootedCall, bootVars, test_pages
  <2> QED BY <2>1 DEF TestReuses
<1>3. CASE UNCHANGED allVars
  BY <1>3 DEF allVars, vars, bootVars, test_pages, TestReuses, Pages, AddressOf
<1> QED BY <1>1, <1>2, <1>3 DEF BootNext

(* The test gets the freed page back, for every region, and wherever in    *)
(* the test its pages run out.                                             *)
THEOREM FreedPageReused == BootSpec => []ReusesFreedPage
<1>1. BootInit => TestReuses
  BY DEF BootInit, TestReuses
<1>2. BootInv /\ TestReuses /\ [BootNext]_allVars => TestReuses'
  BY CallsKeepTest, FreeKeepsTest, OthersKeepTest
<1>3. TestReuses => ReusesFreedPage
  BY DEF TestReuses, ReusesFreedPage
<1> QED BY <1>1, <1>2, <1>3, BootInvariance, PTL DEF BootSpec
=============================================================================
