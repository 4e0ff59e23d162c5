-------------------------------- MODULE Mmu --------------------------------
(***************************************************************************)
(* The page tables of arch/arm64/mm/mmu.c and arch/x86_64/mm/mmu.c: trees  *)
(* of four levels in physical pages that the page allocator hands out,     *)
(* read by the hardware while the kernel changes them, and a TLB that      *)
(* remembers what the hardware read.                                       *)
(*                                                                         *)
(* The two files have the same control and differ in how an entry is built *)
(* from a caller's flags, in what mmu_init maps, and in how the TLB is     *)
(* flushed.  An address is the tuple of its four indices; the offset in    *)
(* the page, which every call clears, is left out.  Present entries are    *)
(* the domain of a table, so a zeroed table is an empty one.  Memory is    *)
(* sequentially consistent here, also for the hardware's walks.            *)
(*                                                                         *)
(* No call ever writes a block (or large page) entry, so the branch of the *)
(* ARM get_or_create_table that refuses one is left out.                   *)
(***************************************************************************)
EXTENDS Naturals, Sequences, FiniteSets

CONSTANTS
  ARM64,                \* which of the two files
  Frame,                \* the physical pages the page allocator manages
  Index,                \* the indices of a table
  Page,                 \* the virtual pages in use: tuples of four indices
  Kernel,               \* the pages mmu_init maps for the kernel, in order
  Devices,              \* the pages of the UART and the GIC, or of the VGA
  Physical,             \* what callers map pages to
  Flags,                \* the sets of flags they pass
  NULL

ASSUME MmuAssumption ==
  /\ ARM64 \in BOOLEAN
  /\ Frame \subseteq Nat
  /\ Page \subseteq [1 .. 4 -> Index]
  /\ Kernel \in Seq(Page) /\ Len(Kernel) > 0 /\ Devices \in Seq(Page)
  /\ NULL \notin Frame

(* Bit 8 of an entry: the kernel's own mark of device memory in both       *)
(* headers, and the hardware's mark of a global page on x86_64.            *)
PTE_DEVICE == "bit 8"
PTE_GLOBAL == "bit 8"

VARIABLES
  tables,               \* the page tables: the present entries by index
  level,                \* history: the level each table was made for
  free,                 \* the frames the page allocator has left
  kernel_pgd,           \* kernel_pgd or kernel_pml4
  booted,               \* how many of its pages mmu_init has asked to map
  call,                 \* where the call in progress is
  mmu,                  \* "off", "on", "hung" in mmu_init, or "fault"
  ttbr0,                \* TTBR0_EL1 or CR3
  tlb                   \* the entries the hardware remembers, by page

vars == <<tables, level, free, kernel_pgd, booted, call, mmu, ttbr0, tlb>>

Idle == [op |-> "none"]

----------------------------------------------------------------------------
(* The tables the entries at index i of the tables T lead to. *)
Below(T, i) == {tables[t][i].to : t \in {u \in T : i \in DOMAIN tables[u]}}

(* The last table of the walk for page v from root r, if the walk gets     *)
(* there, and the entry it finds in it, if it is present.                  *)
LastTable(r, v) == Below(Below(Below({r}, v[1]), v[2]), v[3])
Walk(r, v) == {tables[t][v[4]] : t \in {u \in LastTable(r, v) : v[4] \in DOMAIN tables[u]}}

Roots == {t \in DOMAIN tables : level[t] = 1}

(* With the MMU on, the kernel runs while its own page translates. *)
CanRun ==
  mmu = "on" => Kernel[1] \in DOMAIN tlb \/ Walk(ttbr0, Kernel[1]) # {}

(* The tables with a new one in frame f, which is cleared.                 *)
Cleared(f) ==
  [t \in DOMAIN tables \cup {f} |-> IF t = f THEN [i \in {} |-> NULL] ELSE tables[t]]

(* pmm_alloc_page returns the lowest page it has.                          *)
Lowest(f) == f \in free /\ \A g \in free : f <= g

(* Fault: the page stays with the allocator.                               *)
AllocKeepsFree(f, l) ==
  /\ Lowest(f)
  /\ free' = free
  /\ level' = [t \in DOMAIN level \cup {f} |-> IF t = f THEN l ELSE level[t]]

(* Frame f is taken for a table of level l.                                *)
alloc_page_table(f, l) ==
  /\ Lowest(f)
  /\ free' = free \ {f}
  /\ level' = [t \in DOMAIN level \cup {f} |-> IF t = f THEN l ELSE level[t]]

(* The entry i of table t, among the tables T, becomes e. *)
SetEntry(T, t, i, e) ==
  [T EXCEPT ![t] = [j \in DOMAIN T[t] \cup {i} |-> IF j = i THEN e ELSE T[t][j]]]

(* The entry map_page builds from the caller's flags. *)
arm64_pte(to, flags) ==
  [to |-> to,
   flags |-> (flags \ {PTE_DEVICE}) \cup
             {IF PTE_DEVICE \in flags THEN "MT_DEVICE_nGnRnE" ELSE "MT_NORMAL"}]

x86_64_pte(to, flags) ==
  [to |-> to,
   flags |-> (flags \ {PTE_DEVICE}) \cup
             IF PTE_DEVICE \in flags THEN {"PTE_NOCACHE", "PTE_WRITETHROUGH"} ELSE {}]

Pte(to, flags) == IF ARM64 THEN arm64_pte(to, flags) ELSE x86_64_pte(to, flags)

----------------------------------------------------------------------------
(* map_page: down three levels, one get_or_create_table at a time, then    *)
(* the entry itself.  The root it was called with is kept as history.      *)

(* Fault: the kernel's own tables are walked, whatever root is passed.     *)
BeginInKernel(root, v, to, flags) ==
  call' = [op |-> "map", root |-> root, v |-> v, to |-> to, flags |-> flags,
           level |-> 1, table |-> kernel_pgd]

BeginMap(root, v, to, flags) ==
  call' = [op |-> "map", root |-> root, v |-> v, to |-> to, flags |-> flags,
           level |-> 1, table |-> root]

(* Fault: the last index is taken from the bits of the one before.         *)
IndexTooHigh == IF call.level = 4 THEN call.v[3] ELSE call.v[call.level]

index == call.v[call.level]
descriptor(f) == [to |-> f, flags |-> {"PTE_TABLE"}]

(* The entry is there: on to the table it leads to. *)
GetTable ==
  /\ call.op = "map" /\ call.level < 4
  /\ index \in DOMAIN tables[call.table]
  /\ call' = [call EXCEPT !.level = @ + 1, !.table = tables[call.table][index].to]
  /\ UNCHANGED <<tables, level, free, kernel_pgd, booted, mmu, ttbr0, tlb>>

(* Fault: a new table even if there is one. *)
CreateTableAlways ==
  /\ call.op = "map" /\ call.level < 4
  /\ \E f \in free :
       /\ alloc_page_table(f, call.level + 1)
       /\ tables' = SetEntry(Cleared(f), call.table, index, descriptor(f))
       /\ call' = [call EXCEPT !.level = @ + 1, !.table = f]
  /\ UNCHANGED <<kernel_pgd, booted, mmu, ttbr0, tlb>>

(* It is not, and there is a page for a new table. *)
CreateTable ==
  /\ call.op = "map" /\ call.level < 4
  /\ index \notin DOMAIN tables[call.table]
  /\ \E f \in free :
       /\ alloc_page_table(f, call.level + 1)
       /\ tables' = SetEntry(Cleared(f), call.table, index, descriptor(f))
       /\ call' = [call EXCEPT !.level = @ + 1, !.table = f]
  /\ UNCHANGED <<kernel_pgd, booted, mmu, ttbr0, tlb>>

(* There is none: the call fails, and the tables made on the way stay.     *)
(* mmu_init does not go on without a page.                                 *)
CreateFails ==
  /\ call.op = "map" /\ call.level < 4
  /\ index \notin DOMAIN tables[call.table]
  /\ free = {}
  /\ call' = Idle
  /\ mmu' = IF mmu = "off" THEN "hung" ELSE mmu
  /\ UNCHANGED <<tables, level, free, kernel_pgd, booted, ttbr0, tlb>>

(* The entry of the page, whatever was there.  The TLB is not told. *)
Install ==
  /\ call.op = "map" /\ call.level = 4
  /\ tables' = SetEntry(tables, call.table, index, Pte(call.to, call.flags))
  /\ call' = Idle
  /\ UNCHANGED <<level, free, kernel_pgd, booted, mmu, ttbr0, tlb>>

(* A caller's own call, once mmu_init is done. *)
map_page(root, v, to, flags) ==
  /\ mmu = "on" /\ call = Idle
  /\ BeginMap(root, v, to, flags)
  /\ UNCHANGED <<tables, level, free, kernel_pgd, booted, mmu, ttbr0, tlb>>

----------------------------------------------------------------------------
unmap_page(root, v) ==
  /\ mmu = "on" /\ call = Idle
  /\ call' = [op |-> "unmap", root |-> root, v |-> v]
  /\ UNCHANGED <<tables, level, free, kernel_pgd, booted, mmu, ttbr0, tlb>>

(* The tables without the entry of page v in the space of root r.          *)
WithoutEntry(r, v) ==
  [t \in DOMAIN tables |->
     IF t \in LastTable(r, v)
     THEN [i \in DOMAIN tables[t] \ {v[4]} |-> tables[t][i]]
     ELSE tables[t]]

(* Fault: the TLB is flushed before the entry is cleared. *)
ClearFlushesFirst ==
  /\ call.op = "unmap"
  /\ tables' = WithoutEntry(call.root, call.v)
  /\ call' = Idle
  /\ UNCHANGED <<level, free, kernel_pgd, booted, mmu, ttbr0, tlb>>

(* unmap_page returns if the walk does not get to a last table, otherwise  *)
(* it clears the entry there, and then has the TLB forget the page.        *)
ClearEntry ==
  /\ call.op = "unmap"
  /\ tables' = WithoutEntry(call.root, call.v)
  /\ call' = IF LastTable(call.root, call.v) = {} THEN Idle
             ELSE [op |-> "flush", pages |-> {call.v}]
  /\ UNCHANGED <<level, free, kernel_pgd, booted, mmu, ttbr0, tlb>>

(* The flush that unmap_page and switch_page_table end with. *)
Flush ==
  /\ call.op = "flush"
  /\ tlb' = [v \in DOMAIN tlb \ call.pages |-> tlb[v]]
  /\ call' = Idle
  /\ UNCHANGED <<tables, level, free, kernel_pgd, booted, mmu, ttbr0>>

create_page_table ==
  /\ mmu = "on" /\ call = Idle
  /\ \E f \in free : alloc_page_table(f, 1) /\ tables' = Cleared(f)
  /\ UNCHANGED <<kernel_pgd, booted, call, mmu, ttbr0, tlb>>

(* Fault: the TLB is not flushed. *)
SwitchUnflushed(root) ==
  /\ ARM64 /\ mmu = "on" /\ call = Idle
  /\ ttbr0' = root
  /\ UNCHANGED <<tables, level, free, kernel_pgd, booted, call, mmu, tlb>>

(* On ARM the register is written first, and then the TLB is flushed. *)
arm64_switch_page_table(root) ==
  /\ ARM64 /\ mmu = "on" /\ call = Idle
  /\ ttbr0' = root
  /\ call' = [op |-> "flush", pages |-> Page]
  /\ UNCHANGED <<tables, level, free, kernel_pgd, booted, mmu, tlb>>

(* Fault: what the TLB holds survives. *)
X86SwitchUnflushed(root) ==
  /\ ~ARM64 /\ mmu = "on" /\ call = Idle
  /\ ttbr0' = root
  /\ UNCHANGED <<tables, level, free, kernel_pgd, booted, call, mmu, tlb>>

(* On x86_64 writing CR3 does both: no entry is ever global. *)
x86_64_switch_page_table(root) ==
  /\ ~ARM64 /\ mmu = "on" /\ call = Idle
  /\ ttbr0' = root
  /\ tlb' = [v \in {} |-> NULL]
  /\ UNCHANGED <<tables, level, free, kernel_pgd, booted, call, mmu>>

----------------------------------------------------------------------------
(* mmu_init maps the kernel and then the devices, each page to itself. *)

Identity(pages, flags) ==
  [k \in 1 .. Len(pages) |-> [v |-> pages[k], to |-> pages[k], flags |-> flags]]

arm64_mappings == Identity(Kernel, {}) \o Identity(Devices, {PTE_DEVICE})
x86_64_mappings ==
  Identity(Kernel, {"PTE_WRITE"}) \o Identity(Devices, {"PTE_WRITE", PTE_DEVICE})

Mappings == IF ARM64 THEN arm64_mappings ELSE x86_64_mappings

(* Kernel, UART, GIC and VGA lie apart. *)
ASSUME NoPageTwice ==
  \A j, k \in DOMAIN Mappings : Mappings[j].v = Mappings[k].v => j = k

CreateKernelTable ==
  /\ mmu = "off" /\ kernel_pgd = NULL
  /\ \/ \E f \in free :
          /\ alloc_page_table(f, 1) /\ tables' = Cleared(f)
          /\ kernel_pgd' = f
          /\ mmu' = mmu
     \/ /\ free = {}
        /\ mmu' = "hung"
        /\ UNCHANGED <<tables, level, free, kernel_pgd>>
  /\ UNCHANGED <<booted, call, ttbr0, tlb>>

MapNextPage ==
  /\ mmu = "off" /\ kernel_pgd # NULL /\ call = Idle
  /\ booted < Len(Mappings)
  /\ booted' = booted + 1
  /\ LET m == Mappings[booted + 1] IN BeginMap(kernel_pgd, m.v, m.to, m.flags)
  /\ UNCHANGED <<tables, level, free, kernel_pgd, mmu, ttbr0, tlb>>

(* The root is set, the TLB is flushed, and the MMU is enabled. *)
EnableMmu ==
  /\ mmu = "off" /\ kernel_pgd # NULL /\ call = Idle
  /\ booted = Len(Mappings)
  /\ ttbr0' = kernel_pgd
  /\ tlb' = [v \in {} |-> NULL]
  /\ mmu' = "on"
  /\ UNCHANGED <<tables, level, free, kernel_pgd, booted, call>>

----------------------------------------------------------------------------
(* The environment: the hardware, which may walk the tables of the current *)
(* root at any time, and the other users of the page allocator.            *)

TlbFill ==
  /\ mmu = "on"
  /\ \E v \in Page \ DOMAIN tlb : \E e \in Walk(ttbr0, v) :
       tlb' = [w \in DOMAIN tlb \cup {v} |-> IF w = v THEN e ELSE tlb[w]]
  /\ UNCHANGED <<tables, level, free, kernel_pgd, booted, call, mmu, ttbr0>>

TlbEvict ==
  /\ \E v \in DOMAIN tlb : tlb' = [w \in DOMAIN tlb \ {v} |-> tlb[w]]
  /\ UNCHANGED <<tables, level, free, kernel_pgd, booted, call, mmu, ttbr0>>

(* The kernel's next instruction or access does not translate. *)
PageFault ==
  /\ mmu = "on" /\ ~CanRun
  /\ mmu' = "fault"
  /\ UNCHANGED <<tables, level, free, kernel_pgd, booted, call, ttbr0, tlb>>

Others ==
  /\ mmu = "on" /\ call = Idle
  /\ \/ \E f \in free : Lowest(f) /\ free' = free \ {f}
     \/ \E f \in Frame \ (free \cup DOMAIN tables) : free' = free \cup {f}
  /\ UNCHANGED <<tables, level, kernel_pgd, booted, call, mmu, ttbr0, tlb>>

Init ==
  /\ tables = [f \in {} |-> NULL] /\ level = [f \in {} |-> NULL]
  /\ free \in {{f \in Frame : f > g} : g \in Frame \cup {0}}   \* the highest ones
  /\ kernel_pgd = NULL /\ booted = 0
  /\ call = Idle
  /\ mmu = "off" /\ ttbr0 = NULL
  /\ tlb = [v \in {} |-> NULL]

MmuInit == CreateKernelTable \/ MapNextPage \/ EnableMmu

(* The rest of a call. *)
InCall == GetTable \/ CreateTable \/ CreateFails \/ Install \/ ClearEntry \/ Flush

NewCall ==
  \/ create_page_table
  \/ \E root \in Roots :
       \/ arm64_switch_page_table(root)
       \/ x86_64_switch_page_table(root)
       \/ \E v \in Page :
            \/ unmap_page(root, v)
            \/ \E to \in Physical, flags \in Flags : map_page(root, v, to, flags)

Next ==
  \/ MmuInit
  \/ CanRun /\ mmu \in {"off", "on"} /\ (InCall \/ NewCall \/ Others)
  \/ PageFault
  \/ TlbFill
  \/ TlbEvict

Spec == Init /\ [][Next]_vars

----------------------------------------------------------------------------
(* Properties. *)

PteFlags == {"PTE_TABLE", "PTE_WRITE", "MT_NORMAL", "MT_DEVICE_nGnRnE",
             "PTE_NOCACHE", "PTE_WRITETHROUGH"} \cup UNION Flags

Descriptor == [to : Frame, flags : SUBSET PteFlags]
PageEntry == [to : Physical \cup Page, flags : SUBSET PteFlags]

MapCall == [op : {"map"}, root : Frame, v : Page, to : Physical \cup Page,
            flags : Flags \cup {m.flags : m \in {Mappings[k] : k \in DOMAIN Mappings}},
            level : 1 .. 4, table : Frame]
UnmapCall == [op : {"unmap"}, root : Frame, v : Page]

TypeOK ==
  /\ DOMAIN tables \subseteq Frame
  /\ \A t \in DOMAIN tables :
       /\ DOMAIN tables[t] \subseteq Index
       /\ \A i \in DOMAIN tables[t] :
            tables[t][i] \in IF level[t] < 4 THEN Descriptor ELSE PageEntry
  /\ level \in [DOMAIN tables -> 1 .. 4]
  /\ free \subseteq Frame
  /\ kernel_pgd \in Frame \cup {NULL}
  /\ booted \in 0 .. Len(Mappings)
  /\ \/ call = Idle
     \/ call \in MapCall
     \/ call \in UnmapCall
     \/ call \in [op : {"flush"}, pages : SUBSET Page]
  /\ mmu \in {"off", "on", "hung", "fault"}
  /\ ttbr0 \in Frame \cup {NULL}
  /\ DOMAIN tlb \subseteq Page /\ \A v \in DOMAIN tlb : tlb[v] \in PageEntry

(* The tables are trees, one for each root: an entry above the last level  *)
(* leads to a table of the next level, no table is led to twice, and none  *)
(* of them is a frame the page allocator could hand out again.             *)
Trees ==
  /\ free \cap DOMAIN tables = {}
  /\ \A t \in DOMAIN tables : level[t] < 4 =>
       \A i \in DOMAIN tables[t] :
         /\ tables[t][i].to \in DOMAIN tables
         /\ level[tables[t][i].to] = level[t] + 1
         /\ \A u \in DOMAIN tables : level[u] < 4 =>
              \A j \in DOMAIN tables[u] :
                tables[u][j].to = tables[t][i].to => u = t /\ j = i

(* The invariant of the tables. *)
Inv == Trees /\ TypeOK

(* After unmap_page returned, whoever's root it was, and also after a      *)
(* switch, nobody reaches a page that does not translate: the TLB holds    *)
(* entries of such a page only until the flush of the call in progress.    *)
NoUseAfterUnmap ==
  mmu = "on" =>
    \A v \in DOMAIN tlb : Walk(ttbr0, v) = {} => call.op = "flush" /\ v \in call.pages

(* The TLB disagrees with the tables only if a page is mapped again while  *)
(* it is mapped (map_page flushes nothing), or until a flush to come.      *)
StaleOnlyByRemap ==
  [][\A v \in DOMAIN tlb :
       tlb[v] \in Walk(ttbr0, v) =>
         \/ v \notin DOMAIN tlb'
         \/ tlb'[v] \in Walk(ttbr0, v)'
         \/ call'.op = "flush" /\ v \in call'.pages
         \/ call.op = "map" /\ call.v = v /\ Walk(ttbr0, v)' # {}]_vars

(* When the MMU goes on, all the pages of mmu_init translate as asked: no  *)
(* later mapping has disturbed an earlier one.                             *)
EnabledWithMappings ==
  [][mmu = "off" /\ mmu' = "on" =>
       \A k \in DOMAIN Mappings :
         Walk(ttbr0, Mappings[k].v)' = {Pte(Mappings[k].to, Mappings[k].flags)}]_vars

(* The request a call is about to serve: that of map_page until the entry  *)
(* is stored or the call has failed, that of unmap_page until it is        *)
(* cleared.                                                                *)
Request ==
  CASE call.op = "map" ->
         [op |-> "map", root |-> call.root, page |-> call.v,
          entry |-> Pte(call.to, call.flags)]
    [] call.op = "unmap" -> [op |-> "unmap", root |-> call.root, page |-> call.v]
    [] OTHER -> [op |-> "none"]

Promise == INSTANCE AddressMap WITH
  Root <- Frame,
  Target <- PageEntry,
  space <- [r \in Roots |-> [v \in Page |-> Walk(r, v)]],
  request <- Request

(* Each call changes the page it was called with, in the address space of  *)
(* the root it was called with, to the entry it was asked for (or to       *)
(* none), and no other page of any space; a call that fails halfway        *)
(* changes none (map_page and unmap_page of both mmu.c).                   *)
ImplementsAddressMap == Promise!Spec

=============================================================================
